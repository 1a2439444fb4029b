------------------------------ MODULE DnsMirror ------------------------------
(***************************************************************************)
(* The mirror of the DNS records of a realm in the ecosystem               *)
(* (dns_sync/service.py): a thread that either pushes the records changed  *)
(* since its last run, or compares the whole zone. The zone is shared with *)
(* rows of others, and the ecosystem may be one that knows neither the     *)
(* filter by tag nor the tags that mark the rows of a realm.               *)
(***************************************************************************)
EXTENDS Integers, FiniteSets

CONSTANTS
    Blank,
    Own,            \* uuids of records of the realm
    Foreign,        \* uuids of rows that others add upstream
    MaxEdits,       \* bound: edits of records and of others' rows
    MaxFaults       \* bound: requests that fail, restarts, and refusals that expire

ASSUME MirrorAssumption ==
    /\ MaxEdits \in Nat /\ MaxFaults \in Nat /\ Own \intersect Foreign = {}

VARIABLES
    local,      \* version of each record, Blank if there is none
    recent,     \* records updated, and those created, since the last run has ended
    upstream,   \* rows of the ecosystem: version and mark
    zone,       \* is the domain known locally, and upstream?
    modern,     \* does the ecosystem know tags and the filter?
    sync,       \* memory of the service
    job,        \* requests left to the run that is under way, Blank between runs
    due,        \* has the interval of full runs passed?
    edits, faults

mirrorVars == <<local, recent, upstream, zone, modern, sync, job, due, edits, faults>>

Version == 1 .. MaxEdits

Row == [version : 0 .. MaxEdits, mark : {"realm", "none"}]

\* What a run asks of the ecosystem: to create, update or delete a row.
Push == [op : {"create", "update", "delete"}, id : Own \union Foreign, row : Row]

MirrorTypeOK ==
    /\ local \in [Own -> Version \union {Blank}]
    /\ recent \in [updated : SUBSET Own, created : SUBSET Own]
    /\ upstream \in [Own \union Foreign -> Row \union {Blank}]
    /\ zone \in [here : BOOLEAN, there : BOOLEAN]
    /\ modern \in BOOLEAN
    /\ sync \in [ready : BOOLEAN, since : BOOLEAN, refused : BOOLEAN, untagged : BOOLEAN]
    /\ job \in SUBSET Push \union {Blank}
    /\ due \in BOOLEAN
    /\ edits \in 0 .. MaxEdits /\ faults \in 0 .. MaxFaults

Started == [ready |-> FALSE, since |-> FALSE, refused |-> FALSE, untagged |-> FALSE]

\* A record may have a row without a mark, from before rows were marked.
MirrorInit ==
    /\ local = [i \in Own |-> Blank]
    /\ recent = [updated |-> {}, created |-> {}]
    /\ \E legacy \in SUBSET Own :
          /\ Cardinality(legacy) <= 1
          /\ upstream = [i \in Own \union Foreign |->
                            IF i \in legacy THEN [version |-> 0, mark |-> "none"] ELSE Blank]
          /\ zone = [here |-> FALSE, there |-> legacy # {}]
    /\ modern \in BOOLEAN
    /\ sync = Started /\ job = Blank /\ due = TRUE
    /\ edits = 0 /\ faults = 0

-----------------------------------------------------------------------------
\* Edits of records, which need the domain; of others' rows; and an upgrade.

CreateRecord(i) ==
    /\ zone.here /\ local[i] = Blank /\ edits < MaxEdits
    /\ local' = [local EXCEPT ![i] = edits + 1]
    /\ recent' = [updated |-> recent.updated \union {i}, created |-> recent.created \union {i}]
    /\ edits' = edits + 1
    /\ UNCHANGED <<upstream, zone, modern, sync, job, due, faults>>

UpdateRecord(i) ==
    /\ local[i] # Blank /\ edits < MaxEdits
    /\ local' = [local EXCEPT ![i] = edits + 1]
    /\ recent' = [recent EXCEPT !.updated = @ \union {i}]
    /\ edits' = edits + 1
    /\ UNCHANGED <<upstream, zone, modern, sync, job, due, faults>>

DeleteRecord(i) ==
    /\ local[i] # Blank /\ edits < MaxEdits
    /\ local' = [local EXCEPT ![i] = Blank]
    /\ recent' = [updated |-> recent.updated \ {i}, created |-> recent.created \ {i}]
    /\ edits' = edits + 1
    /\ UNCHANGED <<upstream, zone, modern, sync, job, due, faults>>

EditForeign(i) ==
    /\ zone.there /\ edits < MaxEdits
    /\ upstream' = [upstream EXCEPT ![i] = IF @ = Blank THEN [version |-> 0, mark |-> "none"]
                                           ELSE Blank]
    /\ edits' = edits + 1
    /\ UNCHANGED <<local, recent, zone, modern, sync, job, due, faults>>

UpgradeEcosystem ==
    /\ ~ modern /\ modern' = TRUE
    /\ UNCHANGED <<local, recent, upstream, zone, sync, job, due, edits, faults>>

-----------------------------------------------------------------------------
\* Runs. The executor has one worker, and a run is started when the one before is done.

\* _ensure_realm_domain.
Initialize ==
    /\ job = Blank /\ ~ sync.ready
    /\ sync' = [sync EXCEPT !.ready = TRUE]
    /\ zone' = [zone EXCEPT !.here = TRUE]
    /\ UNCHANGED <<local, recent, upstream, modern, job, due, edits, faults>>

\* The rows a run gets to see: those with the mark, if the filter is understood, and
\* otherwise the whole zone (_eco_list_records).
Listed(filtered) ==
    {i \in Own \union Foreign :
        upstream[i] # Blank /\ (filtered => upstream[i].mark = "realm")}

AnyRow(i) == TRUE

\* Rows of other realms, of an operator, and rows without a mark are left alone.
OwnRow(i) == upstream[i].mark = "realm"

UpdatesNone(listed, mark) == {}

Updates(listed, mark) ==
    {[op |-> "update", id |-> i, row |-> [version |-> local[i], mark |-> mark]] :
        i \in {j \in Own \intersect listed :
                 /\ local[j] # Blank /\ mark = "realm" /\ OwnRow(j)
                 /\ upstream[j].version # local[j]}}

\* _full_sync_domain: what is missing, what differs, and what is extra.
Difference(listed, mark) ==
    {[op |-> "create", id |-> i, row |-> [version |-> local[i], mark |-> mark]] :
        i \in {j \in Own \ listed : local[j] # Blank}}
    \union Updates(listed, mark)
    \union {[op |-> "delete", id |-> i, row |-> upstream[i]] :
              i \in {j \in listed : /\ j \in Own => local[j] = Blank
                                    /\ mark = "realm" /\ OwnRow(j)}}

\* A refusal stands for an hour. Where whole zones are read, they tell whether there are
\* tags (_filter_refused, _observe_record_tags). The domain is created if need be.
StartFull ==
    /\ job = Blank /\ sync.ready /\ due /\ zone.here
    /\ \E expired \in BOOLEAN :
          /\ expired => sync.refused /\ faults < MaxFaults
          /\ LET refused == (sync.refused /\ ~ expired) \/ ~ modern
                 untagged == IF refused THEN ~ modern ELSE sync.untagged /\ ~ expired
                 mark == IF untagged THEN "none" ELSE "realm"
             IN  /\ job' = Difference(Listed(~ refused), mark)
                 /\ sync' = [sync EXCEPT !.refused = refused, !.untagged = untagged]
          /\ faults' = IF expired THEN faults + 1 ELSE faults
    /\ zone' = [zone EXCEPT !.there = TRUE]
    /\ due' = FALSE
    /\ UNCHANGED <<local, recent, upstream, modern, edits>>

\* The zone cannot be created or read: the run counts all the same. It does not if zones
\* cannot be listed.
FailFull ==
    /\ job = Blank /\ sync.ready /\ due /\ zone.here /\ faults < MaxFaults
    /\ \/ job' = {} /\ due' = FALSE
       \/ UNCHANGED <<job, due>>
    /\ faults' = faults + 1
    /\ UNCHANGED <<local, recent, upstream, zone, modern, sync, edits>>

\* _fast_sync: records that were updated since, new ones to be created.
StartFast ==
    /\ job = Blank /\ sync.ready /\ ~ due /\ sync.since
    /\ job' = {[op |-> IF i \in recent.created THEN "create" ELSE "update", id |-> i,
                row |-> [version |-> local[i],
                         mark |-> IF sync.untagged THEN "none" ELSE "realm"]] :
                 i \in IF zone.there THEN recent.updated ELSE {}}
    /\ UNCHANGED <<local, recent, upstream, zone, modern, sync, due, edits, faults>>

\* A row is updated only after its mark was compared with that of the realm, and a row that
\* is there already is updated instead of created (_eco_create_record,
\* _eco_update_record). Tags are refused where there are none.
Pushed(p) ==
    IF p.op = "delete" THEN [upstream EXCEPT ![p.id] = Blank]
    ELSE IF upstream[p.id] = Blank
    THEN IF p.op = "create" /\ (modern \/ p.row.mark = "none")
         THEN [upstream EXCEPT ![p.id] = p.row] ELSE upstream
    ELSE IF p.row.mark = "realm" /\ OwnRow(p.id) THEN [upstream EXCEPT ![p.id] = p.row]
    ELSE upstream

\* A request succeeds or fails; the run goes on either way.
SendPush ==
    /\ job # Blank
    /\ \E p \in job :
          /\ job' = job \ {p}
          /\ \/ upstream' = Pushed(p) /\ UNCHANGED faults
             \/ faults < MaxFaults /\ faults' = faults + 1 /\ UNCHANGED upstream
    /\ UNCHANGED <<local, recent, zone, modern, sync, due, edits>>

\* What changed during the run counts as pushed.
EndRun ==
    /\ job = {}
    /\ job' = Blank
    /\ sync' = [sync EXCEPT !.since = TRUE]
    /\ recent' = [updated |-> {}, created |-> {}]
    /\ UNCHANGED <<local, upstream, zone, modern, due, edits, faults>>

IntervalPasses ==
    /\ ~ due /\ due' = TRUE
    /\ UNCHANGED <<local, recent, upstream, zone, modern, sync, job, edits, faults>>

Restart ==
    /\ faults < MaxFaults /\ faults' = faults + 1
    /\ sync' = Started /\ job' = Blank /\ due' = TRUE
    /\ recent' = [updated |-> {}, created |-> {}]
    /\ UNCHANGED <<local, upstream, zone, modern, edits>>

MirrorNext ==
    \/ \E i \in Own : CreateRecord(i) \/ UpdateRecord(i) \/ DeleteRecord(i)
    \/ \E i \in Foreign : EditForeign(i)
    \/ UpgradeEcosystem
    \/ Initialize \/ StartFull \/ FailFull \/ StartFast \/ SendPush \/ EndRun
    \/ IntervalPasses \/ Restart

\* The service runs for ever, and time passes.
MirrorFairness ==
    /\ WF_mirrorVars(Initialize \/ StartFull \/ StartFast \/ SendPush \/ EndRun)
    /\ WF_mirrorVars(IntervalPasses)

MirrorSpec == MirrorInit /\ [][MirrorNext]_mirrorVars /\ MirrorFairness

-----------------------------------------------------------------------------
\* The mirror neither changes nor removes a row without the mark of the realm, whatever it
\* has listed and whenever the ecosystem learns about tags (_full_sync_domain,
\* _eco_create_record, _eco_update_record).
ForeignKept ==
    [][edits' = edits => \A i \in Own \union Foreign :
          upstream[i] # Blank /\ upstream[i].mark # "realm" => upstream'[i] = upstream[i]]_mirrorVars

\* In the end every record is upstream as it is here, and no deleted one is left, whatever
\* the runs have missed, lost or sent too late; only rows without the mark may differ
\* (_sync_all_domains).
MirrorConverges ==
    <>[](\A i \in Own : IF upstream[i] = Blank THEN local[i] = Blank
                        ELSE upstream[i].mark = "none" \/ upstream[i].version = local[i])
=============================================================================
