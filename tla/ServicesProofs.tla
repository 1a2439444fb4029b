--------------------------- MODULE ServicesProofs ---------------------------
(***************************************************************************)
(* Proofs about the services that the general service runs: the mirror of  *)
(* DNS records, secrets, the delivery of configs and keys, and load        *)
(* balancers, each for any sets of rows and any bounds; and about the      *)
(* bootstrap that brings them up, for any number of errors and reboots.    *)
(***************************************************************************)
EXTENDS DnsMirror, Secrets, Delivery, LoadBalancer, Bootstrap, FiniteSetTheorems, TLAPS

-----------------------------------------------------------------------------
\* The mirror in the ecosystem.

\* Rows of others never have the mark of the realm.
OthersUnmarked ==
    \A i \in Foreign : upstream[i] # Blank => upstream[i].mark # "realm"

\* A run that is going to delete a row has found the mark of the realm on it. It asks for
\* marked rows alone, so that nothing it creates meanwhile is without the mark.
DeletesMarked(jobs) ==
    \A p \in jobs : p.op = "delete" =>
        /\ p.id \in Own
        /\ upstream[p.id] # Blank => upstream[p.id].mark = "realm"
        /\ \A q \in jobs : q.row.mark = "realm"

\* What a run asks for is about rows of the realm.
PushesOwn(jobs) == \A p \in jobs : p.op # "delete" => p.id \in Own

MirrorInv ==
    /\ DOMAIN upstream = Own \union Foreign
    /\ upstream = [i \in DOMAIN upstream |-> upstream[i]]
    /\ recent \in [updated : SUBSET Own, created : SUBSET Own]
    /\ edits \in Nat
    /\ OthersUnmarked
    /\ job # Blank => DeletesMarked(job) /\ PushesOwn(job)

\* A comparison of the zone deletes marked rows only, and then asks for marked rows only.
LEMMA DifferenceMarked ==
    ASSUME MirrorInv, NEW listed \in SUBSET (Own \union Foreign), NEW mark,
           \A i \in listed : upstream[i] # Blank
    PROVE  DeletesMarked(Difference(listed, mark)) /\ PushesOwn(Difference(listed, mark))
<1> DEFINE created == {[op |-> "create", id |-> i, row |-> [version |-> local[i], mark |-> mark]] :
                          i \in {j \in Own \ listed : local[j] # Blank}}
           updated == Updates(listed, mark)
           deleted == {[op |-> "delete", id |-> i, row |-> upstream[i]] :
                          i \in {j \in listed : /\ j \in Own => local[j] = Blank
                                                /\ mark = "realm" /\ OwnRow(j)}}
<1>1. Difference(listed, mark) = created \union updated \union deleted
  BY DEF Difference
<1>2. \A p \in created : p.op = "create" /\ p.id \in Own /\ p.row.mark = mark
  OBVIOUS
<1>3. \A p \in updated : p.op = "update" /\ p.id \in Own /\ p.row.mark = mark
  BY DEF Updates
<1>4. \A p \in deleted : /\ p.op = "delete" /\ p.id \in listed /\ mark = "realm"
                         /\ upstream[p.id].mark = "realm" /\ p.row.mark = "realm"
  BY DEF OwnRow
<1>5. \A p \in deleted : p.id \in Own
  BY <1>4 DEF MirrorInv, OthersUnmarked
<1> HIDE DEF created, updated, deleted
<1>6. PushesOwn(Difference(listed, mark))
  BY <1>1, <1>2, <1>3, <1>4 DEF PushesOwn
<1>7. DeletesMarked(Difference(listed, mark))
  BY <1>1, <1>2, <1>3, <1>4, <1>5 DEF DeletesMarked
<1>8. QED BY <1>6, <1>7

\* The invariant holds when the service has not started.
LEMMA MirrorStarts == MirrorInit => MirrorInv
BY DEF MirrorInit, MirrorInv, OthersUnmarked

\* One request to the ecosystem keeps the invariant, and rows without the mark.
LEMMA PushKeeps ==
    ASSUME MirrorInv, job # Blank, NEW p \in job, upstream' = Pushed(p), job' = job \ {p},
           recent' = recent, edits' = edits
    PROVE  /\ MirrorInv'
           /\ \A i \in Own \union Foreign :
                 upstream[i] # Blank /\ upstream[i].mark # "realm" => upstream'[i] = upstream[i]
<1>1. p.id \in Own
  BY DEF MirrorInv, DeletesMarked, PushesOwn
<1>2. \A i \in Own \union Foreign : i # p.id => upstream'[i] = upstream[i]
  BY DEF Pushed, MirrorInv
<1>3. DOMAIN upstream' = Own \union Foreign /\ upstream' = [i \in DOMAIN upstream' |-> upstream'[i]]
  BY DEF Pushed, MirrorInv
<1>4. p.op = "delete" => upstream'[p.id] = Blank
  BY <1>1 DEF Pushed, MirrorInv
<1>5. p.op # "delete" => upstream'[p.id] = upstream[p.id] \/ upstream'[p.id] = p.row
  BY <1>1 DEF Pushed, MirrorInv
<1>6. upstream[p.id] # Blank /\ upstream[p.id].mark # "realm" => upstream'[p.id] = upstream[p.id]
  <2>1. CASE p.op = "delete" BY <2>1 DEF MirrorInv, DeletesMarked
  <2>2. CASE p.op # "delete" BY <2>2, <1>1 DEF Pushed, OwnRow, MirrorInv
  <2>3. QED BY <2>1, <2>2
<1>7. OthersUnmarked'
  BY <1>1, <1>2, MirrorAssumption DEF MirrorInv, OthersUnmarked
<1>8. DeletesMarked(job)'
  <2> SUFFICES ASSUME NEW d \in job', d.op = "delete"
               PROVE  /\ d.id \in Own
                      /\ upstream'[d.id] # Blank => upstream'[d.id].mark = "realm"
                      /\ \A q \in job' : q.row.mark = "realm"
    BY DEF DeletesMarked
  <2>1. /\ d.id \in Own /\ (upstream[d.id] # Blank => upstream[d.id].mark = "realm")
        /\ p.row.mark = "realm" /\ \A q \in job' : q.row.mark = "realm"
    BY DEF MirrorInv, DeletesMarked
  <2>2. CASE d.id # p.id BY <2>1, <2>2, <1>2
  <2>3. CASE d.id = p.id BY <2>1, <2>3, <1>4, <1>5
  <2>4. QED BY <2>1, <2>2, <2>3
<1>9. PushesOwn(job)'
  BY DEF MirrorInv, PushesOwn
<1>10. MirrorInv'
  BY <1>3, <1>7, <1>8, <1>9 DEF MirrorInv
<1>11. QED BY <1>2, <1>6, <1>10

\* Every step of the mirror keeps the invariant, and rows without the mark.
LEMMA MirrorStep ==
    ASSUME MirrorInv, MirrorNext
    PROVE  /\ MirrorInv'
           /\ edits' = edits => \A i \in Own \union Foreign :
                 upstream[i] # Blank /\ upstream[i].mark # "realm" => upstream'[i] = upstream[i]
<1> DEFINE Counted == recent' \in [updated : SUBSET Own, created : SUBSET Own] /\ edits' \in Nat
<1>1. ASSUME upstream' = upstream, job' = job \/ job' = Blank \/ job' = {}, Counted
      PROVE  MirrorInv'
  BY <1>1 DEF MirrorInv, OthersUnmarked, DeletesMarked, PushesOwn
<1>2. ASSUME NEW i \in Own, CreateRecord(i) PROVE MirrorInv' /\ upstream' = upstream
  <2>1. upstream' = upstream /\ job' = job BY <1>2 DEF CreateRecord
  <2>2. Counted BY <1>2 DEF CreateRecord, MirrorInv
  <2>3. QED BY <2>1, <2>2, <1>1
<1>3. ASSUME NEW i \in Own, UpdateRecord(i) PROVE MirrorInv' /\ upstream' = upstream
  <2>1. upstream' = upstream /\ job' = job BY <1>3 DEF UpdateRecord
  <2>2. Counted BY <1>3 DEF UpdateRecord, MirrorInv
  <2>3. QED BY <2>1, <2>2, <1>1
<1>4. ASSUME NEW i \in Own, DeleteRecord(i) PROVE MirrorInv' /\ upstream' = upstream
  <2>1. upstream' = upstream /\ job' = job BY <1>4 DEF DeleteRecord
  <2>2. Counted BY <1>4 DEF DeleteRecord, MirrorInv
  <2>3. QED BY <2>1, <2>2, <1>1
<1>5. ASSUME NEW i \in Foreign, EditForeign(i) PROVE MirrorInv' /\ edits' # edits
  <2>1. job' = job /\ recent' = recent /\ i \notin Own
    BY <1>5, MirrorAssumption DEF EditForeign
  <2>2. edits' \in Nat /\ edits' # edits
    BY <1>5 DEF EditForeign, MirrorInv
  <2>3. /\ DOMAIN upstream' = Own \union Foreign
        /\ upstream' = [j \in DOMAIN upstream' |-> upstream'[j]]
        /\ \A j \in Own \union Foreign : j # i => upstream'[j] = upstream[j]
        /\ upstream'[i] # Blank => upstream'[i].mark = "none"
    BY <1>5 DEF EditForeign, MirrorInv
  <2>4. OthersUnmarked'
    BY <2>1, <2>3 DEF MirrorInv, OthersUnmarked
  <2>5. job' # Blank => DeletesMarked(job)' /\ PushesOwn(job)'
    BY <2>1, <2>3 DEF MirrorInv, DeletesMarked, PushesOwn
  <2>6. QED BY <2>1, <2>2, <2>3, <2>4, <2>5 DEF MirrorInv
<1>6. ASSUME UpgradeEcosystem \/ Initialize \/ IntervalPasses PROVE MirrorInv' /\ upstream' = upstream
  <2>1. upstream' = upstream /\ job' = job /\ recent' = recent /\ edits' = edits
    BY <1>6 DEF UpgradeEcosystem, Initialize, IntervalPasses
  <2>2. QED BY <2>1, <1>1 DEF MirrorInv
<1>7. ASSUME FailFull PROVE MirrorInv' /\ upstream' = upstream
  BY <1>7, <1>1 DEF FailFull, MirrorInv
<1>8. ASSUME EndRun PROVE MirrorInv' /\ upstream' = upstream
  BY <1>8, <1>1 DEF EndRun, MirrorInv
<1>9. ASSUME Restart PROVE MirrorInv' /\ upstream' = upstream
  BY <1>9, <1>1 DEF Restart, MirrorInv
<1>10. ASSUME StartFull PROVE MirrorInv' /\ upstream' = upstream
  <2>1. PICK filtered, mark : job' = Difference(Listed(filtered), mark)
    BY <1>10 DEF StartFull
  <2>2. Listed(filtered) \subseteq Own \union Foreign /\ \A i \in Listed(filtered) : upstream[i] # Blank
    BY DEF Listed
  <2>3. DeletesMarked(job') /\ PushesOwn(job')
    BY <2>1, <2>2, DifferenceMarked
  <2>4. upstream' = upstream /\ recent' = recent /\ edits' = edits
    BY <1>10 DEF StartFull
  <2>5. QED BY <2>3, <2>4 DEF MirrorInv, OthersUnmarked, DeletesMarked, PushesOwn
<1>11. ASSUME StartFast PROVE MirrorInv' /\ upstream' = upstream
  <2>1. upstream' = upstream /\ recent' = recent /\ edits' = edits
    BY <1>11 DEF StartFast
  <2>2. \A p \in job' : p.op # "delete" /\ p.id \in recent.updated
    BY <1>11 DEF StartFast
  <2>3. QED BY <2>1, <2>2 DEF MirrorInv, OthersUnmarked, DeletesMarked, PushesOwn
<1>12. ASSUME SendPush
       PROVE  /\ MirrorInv'
              /\ \A i \in Own \union Foreign :
                    upstream[i] # Blank /\ upstream[i].mark # "realm" => upstream'[i] = upstream[i]
  <2>1. PICK p \in job : job' = job \ {p} /\ (upstream' = Pushed(p) \/ upstream' = upstream)
    BY <1>12 DEF SendPush
  <2>2. job # Blank /\ recent' = recent /\ edits' = edits
    BY <1>12 DEF SendPush
  <2>3. CASE upstream' = Pushed(p) BY <2>1, <2>2, <2>3, PushKeeps
  <2>4. CASE upstream' = upstream
    BY <2>1, <2>2, <2>4 DEF MirrorInv, OthersUnmarked, DeletesMarked, PushesOwn
  <2>5. QED BY <2>1, <2>3, <2>4
<1>13. QED
  BY <1>2, <1>3, <1>4, <1>5, <1>6, <1>7, <1>8, <1>9, <1>10, <1>11, <1>12 DEF MirrorNext

\* The mirror neither changes nor removes a row without the mark of the realm, whatever it
\* has listed and whenever the ecosystem learns about tags: for any records, rows of others
\* and faults (_full_sync_domain, _eco_create_record, _eco_update_record).
THEOREM ForeignRowsKept == MirrorSpec => ForeignKept
<1> DEFINE Kept0 == edits' = edits => \A i \in Own \union Foreign :
                       upstream[i] # Blank /\ upstream[i].mark # "realm" => upstream'[i] = upstream[i]
<1>1. MirrorInit => MirrorInv
  BY MirrorStarts
<1>2. MirrorInv /\ [MirrorNext]_mirrorVars => MirrorInv'
  <2>1. CASE MirrorNext BY <2>1, MirrorStep
  <2>2. CASE UNCHANGED mirrorVars
    BY <2>2 DEF mirrorVars, MirrorInv, OthersUnmarked, DeletesMarked, PushesOwn
  <2>3. QED BY <2>1, <2>2
<1>3. MirrorInv /\ [MirrorNext]_mirrorVars => [Kept0]_mirrorVars
  BY MirrorStep
<1>4. QED BY <1>1, <1>2, <1>3, PTL DEF MirrorSpec, ForeignKept

-----------------------------------------------------------------------------
\* Secrets.

\* Another value that the agent is going to make for its target.
OwedByAgent == IF target # Nil /\ Regenerates THEN 1 ELSE 0

\* Another value for a row that its builder has not handled.
OwedByBuilder ==
    IF /\ row # Nil /\ row.changed /\ ~ row.fields.manual
       /\ target = Nil \/ target.fields.manual \/ target.fields.shape # row.fields.shape
    THEN 1 ELSE 0

\* The value of a secret is always given.
SecretsGiven ==
    kind = "secret" => /\ asked.fields.manual
                       /\ row # Nil => row.fields.manual
                       /\ target # Nil => target.fields.manual

\* A row that was edited is what clients have asked for. One that was handled has a target
\* that is; a late report may have put back the domains of a certificate, until the agent
\* has what it should and has reported it.
RowFollows ==
    row # Nil =>
        IF row.changed THEN row.fields = asked.fields
        ELSE /\ target # Nil /\ target.fields = asked.fields
             /\ row.fields.manual = asked.fields.manual /\ row.fields.label = asked.fields.label
             /\ kind # "certificate" \/ row.fields.manual => row.fields.shape = asked.fields.shape
             /\ ~ report.news /\ Matches => row.fields.shape = asked.fields.shape

SecretsInv ==
    /\ SecretsTypeOK
    /\ SecretsGiven /\ RowFollows
    /\ report.of = store
    /\ stage = "outdated" /\ row # Nil /\ target # Nil => ~ row.changed
    /\ count.reasons <= 1 + count.writes + count.ticks
    /\ count.made + OwedByAgent + OwedByBuilder <= count.reasons + count.lost

\* The first request is a reason for the first value.
LEMMA SecretsStart == SecretsInit => SecretsInv
<1> SUFFICES ASSUME SecretsInit PROVE SecretsInv OBVIOUS
<1> USE SecretsAssumption, NilAssumption
<1>1. row \in Requests /\ Acceptable(row) /\ asked = row
  BY DEF SecretsInit
<1>2. row \in Rows
  BY <1>1 DEF Requests, Rows, Value
<1>3. SecretsTypeOK
  BY <1>1, <1>2 DEF SecretsInit, SecretsTypeOK, Kept, MaxValues
<1>4. row # Nil /\ row.changed
  BY <1>1, <1>2 DEF Requests
<1>5. SecretsGiven /\ RowFollows
  BY <1>1, <1>4 DEF SecretsInit, SecretsGiven, RowFollows, Acceptable
<1>6. OwedByAgent = 0 /\ OwedByBuilder \in {0, 1}
  BY DEF SecretsInit, OwedByAgent, OwedByBuilder
<1>7. QED BY <1>3, <1>5, <1>6 DEF SecretsInit, SecretsInv

\* What the invariant says of the types of fields.
LEMMA SecretsTypes ==
    ASSUME SecretsInv
    PROVE  /\ count.made \in Nat /\ count.reasons \in Nat /\ count.lost \in Nat
           /\ count.writes \in Nat /\ count.ticks \in Nat
           /\ row # Nil => row \in Rows /\ row.fields \in Fields
           /\ target # Nil => target \in [fields : Fields, value : Value] /\ target.fields \in Fields
           /\ store # Nil => store \in [fields : Fields, value : Value, due : BOOLEAN]
           /\ asked \in Rows /\ asked.fields \in Fields
           /\ OwedByAgent \in {0, 1} /\ OwedByBuilder \in {0, 1}
<1> USE SecretsAssumption DEF SecretsInv, SecretsTypeOK
<1>1. OwedByAgent \in {0, 1} /\ OwedByBuilder \in {0, 1}
  BY DEF OwedByAgent, OwedByBuilder
<1>2. count.made \in Nat /\ count.reasons \in Nat /\ count.lost \in Nat
           /\ count.writes \in Nat /\ count.ticks \in Nat
  OBVIOUS
<1>3. QED BY <1>1, <1>2 DEF Rows, Kept

\* A request keeps the invariant: each change of how a value is made is counted.
LEMMA RequestsCounted ==
    ASSUME Careless = FALSE, SecretsInv, UpdateRow \/ Rename \/ DeleteRow
    PROVE  SecretsInv'
<1> USE SecretsAssumption, NilAssumption
<1>1. CASE UpdateRow
  <2>1. PICK r \in Requests :
          /\ Acceptable(r)
          /\ asked' = r
          /\ row' = IF r.fields.manual THEN r ELSE [r EXCEPT !.value = row.value]
          /\ count' = [count EXCEPT
                         !.writes = @ + 1,
                         !.reasons = @ + IF [r.fields EXCEPT !.label = 1]
                                             = [asked.fields EXCEPT !.label = 1] THEN 0 ELSE 1]
    BY <1>1 DEF UpdateRow
  <2>2. /\ row # Nil /\ count.writes < MaxWrites /\ stage = "changed"
        /\ UNCHANGED <<kind, target, store, report, stage>>
    BY <1>1 DEF UpdateRow, Between
  <2>3. r \in Rows /\ r.fields \in Fields /\ r.changed
    BY DEF Requests, Rows, Value
  <2>4. row' \in Rows /\ row' # Nil /\ row'.fields = r.fields /\ row'.changed
    BY <2>1, <2>2, <2>3, SecretsTypes DEF Rows
  <2> DEFINE same == r.fields.manual = asked.fields.manual /\ r.fields.shape = asked.fields.shape
  <2>5. [r.fields EXCEPT !.label = 1] = [asked.fields EXCEPT !.label = 1] <=> same
    BY <2>3, SecretsTypes DEF Fields
  <2>6. /\ count'.writes = count.writes + 1 /\ count'.ticks = count.ticks
        /\ count'.lost = count.lost /\ count'.made = count.made
        /\ count'.reasons = count.reasons + IF same THEN 0 ELSE 1
    BY <2>1, <2>5, SecretsTypes DEF SecretsInv, SecretsTypeOK
  <2>7. count' \in [writes : 0 .. MaxWrites, ticks : 0 .. MaxTicks, lost : 0 .. MaxLost,
                    made : 0 .. MaxValues, reasons : 1 .. 1 + MaxWrites + MaxTicks]
    <3>1. PICK w, n : count' = [count EXCEPT !.writes = w, !.reasons = n]
      BY <2>1 DEF SecretsInv, SecretsTypeOK
    <3>2. w = count'.writes /\ n = count'.reasons
      BY <3>1 DEF SecretsInv, SecretsTypeOK
    <3>3. w \in 0 .. MaxWrites /\ n \in 1 .. 1 + MaxWrites + MaxTicks
      <4>1. count.ticks \in 0 .. MaxTicks /\ count.writes \in 0 .. MaxWrites
            /\ count.reasons \in 1 .. 1 + MaxWrites + MaxTicks
        BY DEF SecretsInv, SecretsTypeOK
      <4>2. count.reasons <= 1 + count.writes + count.ticks
        BY DEF SecretsInv
      <4>3. n = count.reasons \/ n = count.reasons + 1
        BY <2>6, <3>2, SecretsTypes
      <4>4. QED BY <2>2, <2>6, <3>2, <4>1, <4>2, <4>3
    <3>4. QED BY <3>1, <3>3 DEF SecretsInv, SecretsTypeOK
  <2>8. SecretsTypeOK'
    BY <2>1, <2>2, <2>3, <2>4, <2>7 DEF SecretsInv, SecretsTypeOK
  <2>9. SecretsGiven' /\ RowFollows'
    BY <2>1, <2>2, <2>4 DEF SecretsInv, SecretsGiven, RowFollows, Acceptable
  <2>10. OwedByAgent' = OwedByAgent
    BY <2>2 DEF OwedByAgent, Regenerates
  <2>11. same => OwedByBuilder' <= OwedByBuilder
    BY <2>2, <2>4, SecretsTypes DEF SecretsInv, RowFollows, OwedByBuilder
  <2>12. OwedByBuilder' \in {0, 1}
    BY DEF OwedByBuilder
  <2>13. count'.made + OwedByAgent' + OwedByBuilder' <= count'.reasons + count'.lost
    BY <2>6, <2>10, <2>11, <2>12, SecretsTypes DEF SecretsInv
  <2>14. QED BY <2>2, <2>6, <2>8, <2>9, <2>13, SecretsTypes DEF SecretsInv
<1>2. CASE Rename
  <2> DEFINE new(r) == [r EXCEPT !.fields.label = 3 - @, !.status = "NEW", !.changed = TRUE]
  <2>1. /\ row # Nil /\ count.writes < MaxWrites /\ stage = "changed" /\ Settled
        /\ row' = new(row) /\ asked' = new(asked) /\ count' = [count EXCEPT !.writes = @ + 1]
        /\ UNCHANGED <<kind, target, store, report, stage>>
    BY <1>2 DEF Rename, Between
  <2>2. row.fields = asked.fields /\ target # Nil /\ target.fields = asked.fields
    BY <2>1, SecretsTypes DEF Settled, SecretsInv, RowFollows, Fields
  <2>3. /\ row' \in Rows /\ asked' \in Rows /\ row'.fields = asked'.fields /\ row'.changed
        /\ row'.fields.manual = row.fields.manual /\ row'.fields.shape = row.fields.shape
    <3>1. ASSUME NEW r \in Rows
          PROVE  /\ new(r) \in Rows /\ new(r).changed
                 /\ new(r).fields = [r.fields EXCEPT !.label = 3 - r.fields.label]
      <4>1. r.fields \in Fields /\ 3 - r.fields.label \in {1, 2}
        BY DEF Rows, Fields
      <4>2. [r.fields EXCEPT !.label = 3 - r.fields.label] \in Fields
        BY <4>1 DEF Fields
      <4>3. new(r) = [r EXCEPT !.fields = [r.fields EXCEPT !.label = 3 - r.fields.label],
                               !.status = "NEW", !.changed = TRUE]
        BY DEF Rows, Fields
      <4>4. QED BY <4>2, <4>3 DEF Rows
    <3> HIDE DEF new
    <3>2. [row.fields EXCEPT !.label = 3 - row.fields.label].manual = row.fields.manual
          /\ [row.fields EXCEPT !.label = 3 - row.fields.label].shape = row.fields.shape
      BY <2>1, SecretsTypes DEF Fields
    <3>3. row \in Rows /\ asked \in Rows /\ row' = new(row) /\ asked' = new(asked)
      BY <2>1, SecretsTypes
    <3>4. /\ row' \in Rows /\ row'.changed
          /\ row'.fields = [row.fields EXCEPT !.label = 3 - row.fields.label]
      BY <3>1, <3>3
    <3>5. asked' \in Rows /\ asked'.fields = [asked.fields EXCEPT !.label = 3 - asked.fields.label]
      BY <3>1, <3>3
    <3>6. QED BY <2>2, <3>2, <3>4, <3>5
  <2>4. /\ count' \in [writes : 0 .. MaxWrites, ticks : 0 .. MaxTicks, lost : 0 .. MaxLost,
                       made : 0 .. MaxValues, reasons : 1 .. 1 + MaxWrites + MaxTicks]
        /\ count'.writes = count.writes + 1 /\ count'.ticks = count.ticks
        /\ count'.lost = count.lost /\ count'.made = count.made /\ count'.reasons = count.reasons
    BY <2>1, SecretsTypes DEF SecretsInv, SecretsTypeOK
  <2>5. SecretsTypeOK'
    BY <2>1, <2>3, <2>4 DEF SecretsInv, SecretsTypeOK
  <2>6. SecretsGiven' /\ RowFollows'
    BY <2>1, <2>2, <2>3 DEF SecretsInv, SecretsGiven, RowFollows
  <2>7. OwedByAgent' = OwedByAgent
    BY <2>1 DEF OwedByAgent, Regenerates
  <2>8. OwedByBuilder' = 0
    BY <2>1, <2>2, <2>3 DEF OwedByBuilder
  <2>9. QED BY <2>1, <2>4, <2>5, <2>6, <2>7, <2>8, SecretsTypes DEF SecretsInv
<1>3. CASE DeleteRow
  <2>1. /\ count.writes < MaxWrites
        /\ row' = Nil /\ count' = [count EXCEPT !.writes = @ + 1]
        /\ UNCHANGED <<kind, asked, target, store, report, stage>>
    BY <1>3 DEF DeleteRow
  <2>2. /\ count' \in [writes : 0 .. MaxWrites, ticks : 0 .. MaxTicks, lost : 0 .. MaxLost,
                       made : 0 .. MaxValues, reasons : 1 .. 1 + MaxWrites + MaxTicks]
        /\ count'.writes = count.writes + 1 /\ count'.ticks = count.ticks
        /\ count'.lost = count.lost /\ count'.made = count.made /\ count'.reasons = count.reasons
    BY <2>1, SecretsTypes DEF SecretsInv, SecretsTypeOK
  <2>3. SecretsTypeOK'
    BY <2>1, <2>2 DEF SecretsInv, SecretsTypeOK
  <2>4. OwedByAgent' = OwedByAgent /\ OwedByBuilder' = 0
    BY <2>1 DEF OwedByAgent, OwedByBuilder, Regenerates
  <2>5. SecretsGiven' /\ RowFollows'
    BY <2>1 DEF SecretsInv, SecretsGiven, RowFollows
  <2>6. QED BY <2>1, <2>2, <2>3, <2>4, <2>5, SecretsTypes DEF SecretsInv
<1>4. QED BY <1>1, <1>2, <1>3

\* A step of a builder keeps the invariant: what it owed, the agent owes now.
LEMMA BuilderOwes ==
    ASSUME SecretsInv, BuildTarget \/ Actualize \/ Cleanup
    PROVE  SecretsInv'
<1> USE SecretsAssumption, NilAssumption
<1>1. CASE BuildTarget
  <2>1. stage = "changed" /\ stage' = "outdated" /\ UNCHANGED <<kind, asked, store, count>>
    BY <1>1 DEF BuildTarget
  <2>2. CASE row # Nil /\ (row.changed \/ target = Nil) /\ Ready(row)
    <3>1. /\ target' = TargetOf(row) /\ row' = [row EXCEPT !.changed = FALSE]
          /\ report' = [report EXCEPT !.news = report.of # Nil]
      BY <1>1, <2>2 DEF BuildTarget
    <3>2. row.changed /\ row.fields = asked.fields
      BY <2>2 DEF SecretsInv, RowFollows
    <3>3. EffectiveValue(row) \in Value
      BY <2>2, SecretsTypes DEF EffectiveValue, Rows, Value
    <3>4. /\ target' \in [fields : Fields, value : Value] /\ target'.fields = row.fields
          /\ target' # Nil
      BY <2>2, <3>1, <3>3, SecretsTypes DEF TargetOf, Value
    <3>5. row' \in Rows /\ ~ row'.changed /\ row'.fields = row.fields
      BY <2>2, <3>1, SecretsTypes DEF Rows
    <3>6. /\ report' \in [of : Kept, news : BOOLEAN]
          /\ report'.of = store' /\ (report'.news <=> store' # Nil)
      BY <2>1, <3>1 DEF SecretsInv, SecretsTypeOK
    <3>7. SecretsTypeOK'
      BY <2>1, <3>4, <3>5, <3>6 DEF SecretsInv, SecretsTypeOK
    <3>8. SecretsGiven' /\ RowFollows'
      BY <2>1, <2>2, <3>2, <3>4, <3>5, <3>6, SecretsTypes
      DEF SecretsInv, SecretsGiven, RowFollows, Matches
    <3>9. OwedByBuilder' = 0
      BY <3>5 DEF OwedByBuilder
    <3>10. OwedByAgent' <= OwedByAgent + OwedByBuilder
      BY <2>1, <2>2, <3>2, <3>4, SecretsTypes DEF OwedByAgent, OwedByBuilder, Regenerates
    <3>11. OwedByAgent' \in {0, 1}
      BY DEF OwedByAgent
    <3>12. QED BY <2>1, <3>5, <3>6, <3>7, <3>8, <3>9, <3>10, <3>11, SecretsTypes DEF SecretsInv
  <2>3. CASE row # Nil /\ (row.changed \/ target = Nil) /\ ~ Ready(row)
    <3>1. target' = Nil /\ UNCHANGED <<row, report>>
      BY <1>1, <2>3 DEF BuildTarget, Withdraw
    <3>2. kind = "secret" /\ row.fields.manual /\ row.changed
      BY <2>3 DEF Ready, SecretsInv, SecretsGiven, RowFollows
    <3>3. SecretsTypeOK'
      BY <2>1, <3>1 DEF SecretsInv, SecretsTypeOK
    <3>4. SecretsGiven' /\ RowFollows'
      BY <2>1, <2>3, <3>1, <3>2 DEF SecretsInv, SecretsGiven, RowFollows
    <3>5. OwedByBuilder' = 0 /\ OwedByAgent' = 0
      BY <3>1, <3>2 DEF OwedByBuilder, OwedByAgent
    <3>6. QED BY <2>1, <3>1, <3>3, <3>4, <3>5, SecretsTypes DEF SecretsInv
  <2>4. CASE ~ (row # Nil /\ (row.changed \/ target = Nil))
    <3>1. UNCHANGED <<target, row, report>>
      BY <1>1, <2>4 DEF BuildTarget
    <3>2. SecretsTypeOK' /\ SecretsGiven' /\ RowFollows'
      BY <2>1, <3>1 DEF SecretsInv, SecretsTypeOK, SecretsGiven, RowFollows, Matches
    <3>3. OwedByBuilder' = OwedByBuilder /\ OwedByAgent' = OwedByAgent
      BY <2>1, <3>1 DEF OwedByBuilder, OwedByAgent, Regenerates
    <3>4. QED BY <2>1, <2>4, <3>1, <3>2, <3>3 DEF SecretsInv
  <2>5. QED BY <2>2, <2>3, <2>4
<1>2. CASE Actualize
  <2>1. /\ stage = "outdated" /\ stage' = "deleted"
        /\ UNCHANGED <<kind, asked, target, store, count>>
    BY <1>2 DEF Actualize
  <2>2. OwedByAgent' = OwedByAgent
    BY <2>1 DEF OwedByAgent, Regenerates
  <2>3. CASE row # Nil /\ target # Nil /\ report.news
    <3>1. /\ row' = IF report.of = Nil THEN row ELSE Actualized(row, report.of)
          /\ report' = [report EXCEPT !.news = FALSE]
      BY <1>2, <2>3 DEF Actualize
    <3>2. /\ report' \in [of : Kept, news : BOOLEAN]
          /\ report'.of = store' /\ ~ report'.news
      BY <2>1, <3>1 DEF SecretsInv, SecretsTypeOK
    <3>3. ~ row.changed /\ OwedByBuilder = 0
      BY <2>1, <2>3 DEF SecretsInv, OwedByBuilder
    <3>4. CASE report.of = Nil
      <4>1. row' = row /\ store = Nil /\ ~ Matches'
        BY <2>1, <3>1, <3>4 DEF SecretsInv, Matches
      <4>2. SecretsTypeOK'
        BY <2>1, <3>2, <4>1 DEF SecretsInv, SecretsTypeOK
      <4>3. SecretsGiven' /\ RowFollows'
        BY <2>1, <2>3, <3>3, <4>1 DEF SecretsInv, SecretsGiven, RowFollows
      <4>4. OwedByBuilder' = 0
        BY <3>3, <4>1 DEF OwedByBuilder
      <4>5. QED BY <2>1, <2>2, <3>2, <3>3, <4>2, <4>3, <4>4 DEF SecretsInv
    <3>5. CASE report.of # Nil
      <4> DEFINE value == IF kind = "secret" \/ (kind = "certificate" /\ row.fields.manual)
                          THEN row.value ELSE store.value
                 shape == IF kind = "certificate" /\ ~ row.fields.manual
                          THEN store.fields.shape ELSE row.fields.shape
                 fields == [row.fields EXCEPT !.shape = shape]
      <4>1. report.of = store /\ store # Nil
        BY <3>5 DEF SecretsInv
      <4>2. store.value \in Value /\ store.fields \in Fields /\ row \in Rows /\ row.fields \in Fields
        BY <2>3, <4>1, SecretsTypes
      <4>3. value \in Value /\ shape \in {1, 2} /\ row.value \in Value
        BY <4>2 DEF Rows, Fields
      <4>4. /\ fields \in Fields /\ fields.shape = shape
            /\ fields.manual = row.fields.manual /\ fields.label = row.fields.label
        BY <4>2, <4>3 DEF Fields
      <4>5. row' = [row EXCEPT !.status = "ACTIVE", !.changed = FALSE, !.value = value,
                               !.fields = fields]
        BY <3>1, <3>5, <4>1, <4>2 DEF Actualized, Rows, Fields
      <4>6. row' \in Rows /\ row'.fields = fields /\ ~ row'.changed
        <5> HIDE DEF value, fields
        <5>1. QED BY <4>2, <4>3, <4>4, <4>5 DEF Rows
      <4>7. SecretsTypeOK'
        BY <2>1, <3>2, <4>6 DEF SecretsInv, SecretsTypeOK
      <4>8. Matches' => store.fields = asked.fields
        BY <2>1, <2>3, <3>3 DEF SecretsInv, RowFollows, Matches
      <4>9. SecretsGiven' /\ RowFollows'
        BY <2>1, <2>3, <3>3, <4>4, <4>6, <4>8 DEF SecretsInv, SecretsGiven, RowFollows
      <4>10. OwedByBuilder' = 0
        BY <4>6 DEF OwedByBuilder
      <4>11. QED BY <2>1, <2>2, <3>2, <3>3, <4>7, <4>9, <4>10 DEF SecretsInv
    <3>6. QED BY <3>4, <3>5
  <2>4. CASE ~ (row # Nil /\ target # Nil /\ report.news)
    <3>1. UNCHANGED <<row, report>>
      BY <1>2, <2>4 DEF Actualize
    <3>2. SecretsTypeOK' /\ SecretsGiven' /\ RowFollows'
      BY <2>1, <3>1 DEF SecretsInv, SecretsTypeOK, SecretsGiven, RowFollows, Matches
    <3>3. OwedByBuilder' = OwedByBuilder
      BY <2>1, <3>1 DEF OwedByBuilder
    <3>4. QED BY <2>1, <2>2, <3>1, <3>2, <3>3 DEF SecretsInv
  <2>5. QED BY <2>3, <2>4
<1>3. CASE Cleanup
  <2>1. /\ stage' = "changed" /\ target' = IF row = Nil THEN Nil ELSE target
        /\ UNCHANGED <<kind, row, asked, store, report, count>>
    BY <1>3 DEF Cleanup
  <2>2. SecretsTypeOK'
    BY <2>1 DEF SecretsInv, SecretsTypeOK
  <2>3. SecretsGiven' /\ RowFollows'
    BY <2>1 DEF SecretsInv, SecretsGiven, RowFollows, Matches
  <2>4. OwedByBuilder' = OwedByBuilder /\ OwedByAgent' <= OwedByAgent /\ OwedByAgent' \in {0, 1}
    BY <2>1 DEF OwedByBuilder, OwedByAgent, Regenerates
  <2>5. QED BY <2>1, <2>2, <2>3, <2>4, SecretsTypes DEF SecretsInv
<1>4. QED BY <1>1, <1>2, <1>3

\* What the agent keeps, it reports; unless it keeps it already, that is news.
LEMMA KeepReports ==
    ASSUME SecretsInv, NEW s \in Kept, Keep(s)
    PROVE  /\ store' = s /\ report'.of = s
           /\ report' \in [of : Kept, news : BOOLEAN]
           /\ s # store => report'.news
<1>1. report \in [of : Kept, news : BOOLEAN] /\ report.of = store
  BY DEF SecretsInv, SecretsTypeOK
<1>2. CASE s = store BY <1>1, <1>2 DEF Keep
<1>3. CASE s # store BY <1>1, <1>3 DEF Keep
<1>4. QED BY <1>2, <1>3

\* A step of the agent keeps the invariant: it makes the values that it owes, and no others.
LEMMA AgentPays ==
    ASSUME SecretsInv, Sync \/ Lose \/ Remove \/ Tick
    PROVE  SecretsInv'
<1> USE SecretsAssumption, NilAssumption
<1> DEFINE Counts == [writes : 0 .. MaxWrites, ticks : 0 .. MaxTicks, lost : 0 .. MaxLost,
                      made : 0 .. MaxValues, reasons : 1 .. 1 + MaxWrites + MaxTicks]
<1>1. /\ count \in Counts /\ count.ticks \in 0 .. MaxTicks /\ count.writes \in 0 .. MaxWrites
      /\ count.lost \in 0 .. MaxLost /\ count.made \in 0 .. MaxValues
      /\ count.reasons \in 1 .. 1 + MaxWrites + MaxTicks
      /\ count.reasons <= 1 + count.writes + count.ticks
  BY DEF SecretsInv, SecretsTypeOK
<1>2. OwedByAgent = 1 => count.made + 1 \in 1 .. MaxValues
  BY <1>1, SecretsTypes DEF SecretsInv, MaxValues
<1>3. CASE Sync
  <2> DEFINE value == IF target.fields.manual THEN target.value
                      ELSE IF Regenerates THEN count.made + 1
                      ELSE store.value
             s == [fields |-> target.fields, value |-> value, due |-> FALSE]
  <2>1. /\ target # Nil /\ ~ Matches /\ Keep(s)
        /\ count' = IF Regenerates THEN [count EXCEPT !.made = @ + 1] ELSE count
        /\ UNCHANGED <<kind, row, asked, target, stage>>
    BY <1>3 DEF Sync
  <2>2. value \in Value
    <3>1. CASE target.fields.manual BY <2>1, <3>1, SecretsTypes
    <3>2. CASE ~ target.fields.manual /\ Regenerates
      BY <1>2, <2>1, <3>2 DEF OwedByAgent, Value
    <3>3. CASE ~ target.fields.manual /\ ~ Regenerates
      <4>1. store # Nil BY <3>3 DEF Regenerates
      <4>2. QED BY <3>3, <4>1, SecretsTypes
    <3>4. QED BY <3>1, <3>2, <3>3
  <2>3. s \in [fields : Fields, value : Value, due : BOOLEAN] /\ s # Nil /\ s \in Kept
    <3> HIDE DEF value
    <3>1. s \in [fields : Fields, value : Value, due : BOOLEAN]
      BY <2>1, <2>2, SecretsTypes
    <3>2. QED BY <3>1 DEF Kept
  <2>4. s # store
    BY <2>1, <2>3 DEF Matches
  <2> HIDE DEF s
  <2>5. /\ store' = s /\ report'.of = s /\ report'.news
        /\ report' \in [of : Kept, news : BOOLEAN]
    BY <2>1, <2>3, <2>4, KeepReports
  <2>6. s.fields = target.fields /\ ~ s.due
    BY DEF s
  <2>7. OwedByAgent' = 0
    BY <2>1, <2>3, <2>5, <2>6, SecretsTypes DEF OwedByAgent, Regenerates
  <2>8. OwedByBuilder' = OwedByBuilder
    BY <2>1 DEF OwedByBuilder
  <2>9. OwedByAgent = IF Regenerates THEN 1 ELSE 0
    BY <2>1 DEF OwedByAgent
  <2>10. /\ count' \in Counts /\ count'.writes = count.writes /\ count'.ticks = count.ticks
         /\ count'.lost = count.lost /\ count'.reasons = count.reasons
         /\ count'.made = count.made + OwedByAgent
    <3>1. CASE Regenerates BY <1>1, <1>2, <2>1, <2>9, <3>1
    <3>2. CASE ~ Regenerates BY <1>1, <2>1, <2>9, <3>2
    <3>3. QED BY <3>1, <3>2
  <2>11. SecretsTypeOK'
    BY <2>1, <2>3, <2>5, <2>10 DEF SecretsInv, SecretsTypeOK
  <2>12. SecretsGiven' /\ RowFollows'
    BY <2>1, <2>5 DEF SecretsInv, SecretsGiven, RowFollows
  <2>13. QED BY <2>1, <2>5, <2>7, <2>8, <2>10, <2>11, <2>12, SecretsTypes DEF SecretsInv
<1>4. CASE Lose
  <2>1. /\ target # Nil /\ Regenerates /\ count.lost < MaxLost
        /\ count' = [count EXCEPT !.lost = @ + 1, !.made = @ + 1]
        /\ UNCHANGED <<kind, row, asked, target, store, report, stage>>
    BY <1>4 DEF Lose
  <2>2. OwedByAgent = 1 /\ OwedByAgent' = OwedByAgent /\ OwedByBuilder' = OwedByBuilder
    BY <2>1 DEF OwedByAgent, OwedByBuilder, Regenerates
  <2>3. count' \in Counts /\ count'.writes = count.writes /\ count'.ticks = count.ticks
        /\ count'.lost = count.lost + 1 /\ count'.reasons = count.reasons
        /\ count'.made = count.made + 1
    <3>1. count.made + 1 \in 0 .. MaxValues /\ count.lost + 1 \in 0 .. MaxLost
      BY <1>1, <1>2, <2>1, <2>2 DEF MaxValues
    <3>2. QED BY <1>1, <2>1, <3>1
  <2>4. SecretsTypeOK' /\ SecretsGiven' /\ RowFollows'
    BY <2>1, <2>3 DEF SecretsInv, SecretsTypeOK, SecretsGiven, RowFollows, Matches
  <2>5. QED BY <2>1, <2>2, <2>3, <2>4, SecretsTypes DEF SecretsInv
<1>5. CASE Remove
  <2>1. /\ target = Nil /\ store # Nil /\ Keep(Nil)
        /\ UNCHANGED <<kind, row, asked, target, stage, count>>
    BY <1>5 DEF Remove
  <2>2. /\ store' = Nil /\ report'.of = Nil /\ report'.news
        /\ report' \in [of : Kept, news : BOOLEAN]
    BY <2>1, KeepReports DEF Kept
  <2>3. OwedByAgent' = OwedByAgent /\ OwedByBuilder' = OwedByBuilder
    BY <2>1 DEF OwedByAgent, OwedByBuilder
  <2>4. SecretsTypeOK'
    BY <2>1, <2>2 DEF SecretsInv, SecretsTypeOK, Kept
  <2>5. SecretsGiven' /\ RowFollows'
    BY <2>1, <2>2 DEF SecretsInv, SecretsGiven, RowFollows
  <2>6. QED BY <2>1, <2>2, <2>3, <2>4, <2>5 DEF SecretsInv
<1>6. CASE Tick
  <2> DEFINE s == [store EXCEPT !.due = TRUE]
  <2>1. /\ count.ticks < MaxTicks /\ store # Nil /\ ~ store.fields.manual /\ ~ store.due
        /\ Keep(s) /\ count' = [count EXCEPT !.ticks = @ + 1, !.reasons = @ + 1]
        /\ UNCHANGED <<kind, row, asked, target, stage>>
    BY <1>6 DEF Tick
  <2>2. /\ s \in [fields : Fields, value : Value, due : BOOLEAN] /\ s.due /\ s # store /\ s \in Kept
        /\ s # Nil
    BY <2>1, SecretsTypes DEF Kept
  <2> HIDE DEF s
  <2>3. /\ store' = s /\ report'.of = s /\ report'.news
        /\ report' \in [of : Kept, news : BOOLEAN]
    BY <2>1, <2>2, KeepReports
  <2>4. /\ count'.ticks \in 0 .. MaxTicks /\ count'.ticks = count.ticks + 1
        /\ count'.reasons = count.reasons + 1 /\ count'.reasons \in 1 .. 1 + MaxWrites + MaxTicks
        /\ count'.writes = count.writes /\ count'.lost = count.lost /\ count'.made = count.made
    BY <1>1, <2>1
  <2>5. count' \in Counts
    BY <1>1, <2>1, <2>4
  <2>6. OwedByAgent' \in {0, 1} /\ OwedByBuilder' = OwedByBuilder
    BY <2>1 DEF OwedByAgent, OwedByBuilder
  <2>7. SecretsTypeOK'
    BY <2>1, <2>2, <2>3, <2>5 DEF SecretsInv, SecretsTypeOK
  <2>8. SecretsGiven' /\ RowFollows'
    BY <2>1, <2>3 DEF SecretsInv, SecretsGiven, RowFollows
  <2>9. QED BY <1>1, <2>1, <2>3, <2>4, <2>6, <2>7, <2>8, SecretsTypes DEF SecretsInv
<1>7. QED BY <1>3, <1>4, <1>5, <1>6

\* Where clients edit rows that have settled, and between iterations of the builder, a
\* value is generated for a reason, whatever the order of reports, orders and crashes: for
\* any values and bounds (update of the password and certificate clients, and
\* actualize_outdated_instance of the builders).
THEOREM ValuesForAReason ==
    Careless = FALSE => (SecretsSpec => [](SecretsTypeOK /\ NewValueForAReason))
<1> SUFFICES ASSUME Careless = FALSE PROVE SecretsSpec => [](SecretsTypeOK /\ NewValueForAReason)
  OBVIOUS
<1>1. SecretsInit => SecretsInv
  BY SecretsStart
<1>2. SecretsInv /\ [SecretsNext]_secretVars => SecretsInv'
  <2>1. CASE SecretsNext BY <2>1, RequestsCounted, BuilderOwes, AgentPays DEF SecretsNext
  <2>2. CASE UNCHANGED secretVars
    BY <2>2 DEF secretVars, SecretsInv, SecretsTypeOK, SecretsGiven, RowFollows, Matches,
                OwedByAgent, OwedByBuilder, Regenerates
  <2>3. QED BY <2>1, <2>2
<1>3. SecretsInv => SecretsTypeOK /\ NewValueForAReason
  BY SecretsTypes DEF SecretsInv, NewValueForAReason
<1>4. QED BY <1>1, <1>2, <1>3, PTL DEF SecretsSpec

-----------------------------------------------------------------------------
\* The delivery of configs and keys.

\* Node sets with the nodes of some family.
NodeSets(family) ==
    [replicas : Nat, nodes : family, status : Statuses, made : Nat, resizes : Nat]

\* Another number of replicas.
LEMMA NodeSetResized ==
    ASSUME NEW family, set \in NodeSets(family), NEW r \in Nat, NEW z \in Nat,
           set' = [set EXCEPT !.replicas = r, !.resizes = z]
    PROVE  set' \in NodeSets(family) /\ set'.nodes = set.nodes /\ set'.made = set.made
BY DEF NodeSets

\* Other nodes.
LEMMA NodeSetBuilt ==
    ASSUME NEW family, set \in NodeSets(family), NEW ns \in family, NEW s \in Statuses, NEW m \in Nat,
           set' = [set EXCEPT !.nodes = ns, !.status = s, !.made = m]
    PROVE  set' \in NodeSets(family) /\ set'.nodes = ns /\ set'.made = m
BY DEF NodeSets

\* Types, of the node set without its bounds.
RolloutTypes ==
    /\ set \in NodeSets(SUBSET Nat)
    /\ IsFiniteSet(set.nodes)
    /\ node \in [NodeIds -> Statuses \union {Void}]
    /\ item \in Items
    /\ master \in BOOLEAN
    /\ host \in [NodeIds -> HostResources \union {Void}]
    /\ held \in [NodeIds -> 0 .. MaxVersion]
    /\ news \subseteq NodeIds
    /\ read \in [item : Items, nodes : SUBSET NodeIds] \union {Void}

\* A node that the agent of the set has not made yet.
Unborn(n) == n > set.made \/ (n \in set.nodes /\ node[n] = Void)

\* A number is given to one node only, so that nothing is there for a node to come: what
\* was for a node that has left is never taken for what a new one holds.
NumbersOnce ==
    /\ \A n \in set.nodes : n <= set.made
    /\ \A n \in NodeIds : Unborn(n) => /\ node[n] = Void /\ host[n] = Void
                                       /\ read # Void => n \notin read.nodes

\* An active resource is held by its node.
ActiveHeld ==
    \A n \in NodeIds : host[n] # Void /\ host[n].status = "ACTIVE" /\ node[n] # Void
                          => held[n] = host[n].version

\* Where the item is, pass by pass: one that is new has no resources, one that was handled
\* has them in its version, and the pass of changes leaves none in another one.
ItemFollows ==
    /\ item # Void /\ item.version = 0 =>
          item.changed /\ item.status = "NEW" /\ ~ master /\ host = NoHosts
    /\ Made(item) =>
          /\ ~ master => host = NoHosts
          /\ pass # "new" => master
          /\ pass \in {"outdated", "deleted"} => ~ item.changed
          /\ ~ item.changed => /\ master
                               /\ \A n \in NodeIds : host[n] # Void => host[n].version = item.version
          /\ item.status = "ACTIVE" =>
                /\ ~ item.changed
                /\ \E n \in NodeIds : host[n] # Void /\ host[n].status = "ACTIVE"

\* Between reading and writing, the row stays as it was read.
ReadIsCurrent == read # Void => read.item = item

DeliveryInv == RolloutTypes /\ NumbersOnce /\ ActiveHeld /\ ItemFollows /\ ReadIsCurrent

\* At first there is nothing.
LEMMA DeliveryStarts == DeliveryInit => DeliveryInv
<1> SUFFICES ASSUME DeliveryInit PROVE DeliveryInv OBVIOUS
<1> USE DeliveryAssumption
<1>1. RolloutTypes
  <2>1. set \in NodeSets({{}}) /\ set.nodes = {}
    BY DEF DeliveryInit, NodeSets, Statuses
  <2>2. set \in NodeSets(SUBSET Nat)
    <3>1. {{}} \subseteq SUBSET Nat OBVIOUS
    <3>2. ASSUME NEW family, {{}} \subseteq family PROVE set \in NodeSets(family)
      BY <2>1, <3>2 DEF NodeSets
    <3>3. QED BY <3>1, <3>2
  <2>3. item \in Items /\ read \in [item : Items, nodes : SUBSET NodeIds] \union {Void}
    BY DEF DeliveryInit, Items, Statuses
  <2>4. /\ node \in [NodeIds -> Statuses \union {Void}]
        /\ host \in [NodeIds -> HostResources \union {Void}]
        /\ held \in [NodeIds -> 0 .. MaxVersion]
        /\ master \in BOOLEAN /\ news \subseteq NodeIds
    <3>1. node = [n \in NodeIds |-> Void] /\ host = [n \in NodeIds |-> Void]
          /\ held = [n \in NodeIds |-> 0] /\ master = FALSE /\ news = {}
      BY DEF DeliveryInit, NoHosts
    <3>2. 0 \in 0 .. MaxVersion
      OBVIOUS
    <3>3. QED BY <3>1, <3>2
  <2>5. QED BY <2>1, <2>2, <2>3, <2>4, FS_EmptySet DEF RolloutTypes
<1>2. NumbersOnce
  BY DEF DeliveryInit, NumbersOnce, NoHosts
<1>3. ActiveHeld
  BY DEF DeliveryInit, ActiveHeld, NoHosts
<1>4. ItemFollows /\ ReadIsCurrent
  BY DEF DeliveryInit, ItemFollows, ReadIsCurrent, Made
<1>5. QED BY <1>1, <1>2, <1>3, <1>4 DEF DeliveryInv

\* The set keeps nodes it has, or gets new numbers.
LEMMA GeneratedNodes ==
    ASSUME RolloutTypes, NumbersOnce, NEW ns \in GenNodes
    PROVE  /\ ns \in SUBSET Nat /\ IsFiniteSet(ns) /\ Cardinality(ns \ set.nodes) \in Nat
           /\ \A n \in ns \ set.nodes : n > set.made
           /\ \A n \in ns : n <= set.made + Cardinality(ns \ set.nodes)
<1>1. /\ set.nodes \in SUBSET Nat /\ IsFiniteSet(set.nodes) /\ set.made \in Nat /\ set.replicas \in Nat
      /\ Cardinality(set.nodes) \in Nat /\ \A n \in set.nodes : n <= set.made
  BY FS_CardinalityType DEF RolloutTypes, NodeSets, NumbersOnce
<1>2. CASE Cardinality(set.nodes) >= set.replicas
  <2>1. ns \subseteq set.nodes BY <1>2 DEF GenNodes
  <2>2. ns \ set.nodes = {} BY <2>1
  <2>3. IsFiniteSet(ns) BY <1>1, <2>1, FS_Subset
  <2>4. Cardinality(ns \ set.nodes) = 0 BY <2>2, FS_EmptySet
  <2>5. QED BY <1>1, <2>1, <2>2, <2>3, <2>4
<1>3. CASE ~ (Cardinality(set.nodes) >= set.replicas)
  <2> DEFINE k == set.replicas - Cardinality(set.nodes)
  <2>1. ns = set.nodes \union Fresh(k) BY <1>3 DEF GenNodes
  <2>2. k \in Nat /\ k > 0 BY <1>1, <1>3
  <2> HIDE DEF k
  <2>3. \A n \in Fresh(k) : n \in Nat /\ n > set.made /\ n <= set.made + k
    BY <1>1, <2>2 DEF Fresh
  <2>4. IsFiniteSet(Fresh(k)) /\ Cardinality(Fresh(k)) = k
    <3>1. PICK a, b : a = set.made + 1 /\ b = set.made + k
      OBVIOUS
    <3>2. a \in Int /\ b \in Int /\ a <= b /\ b - a + 1 = k
      BY <1>1, <2>2, <3>1
    <3>3. IsFiniteSet(a .. b) /\ Cardinality(a .. b) = IF a > b THEN 0 ELSE b - a + 1
      BY <3>2, FS_Interval
    <3>4. QED BY <3>1, <3>2, <3>3 DEF Fresh
  <2>5. ns \ set.nodes = Fresh(k)
    BY <1>1, <2>1, <2>3
  <2>6. IsFiniteSet(ns)
    BY <1>1, <2>1, <2>4, FS_Union
  <2>7. \A n \in ns : n <= set.made + k
    BY <1>1, <2>1, <2>2, <2>3
  <2>8. QED BY <1>1, <2>1, <2>2, <2>3, <2>4, <2>5, <2>6, <2>7
<1>4. QED BY <1>2, <1>3

\* The node set and its agent keep the invariant.
LEMMA SetKeeps ==
    ASSUME DeliveryInv,
           \/ \E r \in 0 .. MaxReplicas : Resize(r)
           \/ BuildSet
           \/ \E n \in NodeIds : NodeStep(n) \/ Apply(n)
    PROVE  DeliveryInv'
<1> USE DeliveryAssumption, VoidAssumption
<1>1. ASSUME NEW r \in 0 .. MaxReplicas, Resize(r) PROVE DeliveryInv'
  <2>1. /\ set' = [set EXCEPT !.replicas = r, !.resizes = @ + 1]
        /\ UNCHANGED <<node, item, held, news, master, host, pass, read>>
    BY <1>1 DEF Resize, serviceVars
  <2>2. /\ set' \in NodeSets(SUBSET Nat)
        /\ set'.nodes = set.nodes /\ set'.made = set.made
    <3>1. set \in NodeSets(SUBSET Nat) BY DEF DeliveryInv, RolloutTypes
    <3>2. r \in Nat /\ set.resizes + 1 \in Nat /\ set.nodes \in SUBSET Nat /\ set.status \in Statuses
      BY <3>1 DEF NodeSets
    <3>3. PICK family : family = SUBSET Nat OBVIOUS
    <3>4. set' \in NodeSets(family) /\ set'.nodes = set.nodes /\ set'.made = set.made
      BY <2>1, <3>1, <3>2, <3>3, NodeSetResized
    <3>5. QED BY <3>3, <3>4
  <2>3. RolloutTypes' BY <2>1, <2>2 DEF DeliveryInv, RolloutTypes
  <2>4. NumbersOnce' BY <2>1, <2>2 DEF DeliveryInv, NumbersOnce, Unborn
  <2>5. ActiveHeld' /\ ItemFollows' /\ ReadIsCurrent'
    BY <2>1 DEF DeliveryInv, ActiveHeld, ItemFollows, ReadIsCurrent, Made
  <2>6. QED BY <2>3, <2>4, <2>5 DEF DeliveryInv
<1>2. CASE BuildSet
  <2>1. PICK ns \in GenNodes :
          set' = [set EXCEPT !.nodes = ns, !.status = SetStatus(ns),
                             !.made = @ + Cardinality(ns \ set.nodes)]
    BY <1>2 DEF BuildSet
  <2>2. UNCHANGED <<node, item, held, news, master, host, pass, read>>
    BY <1>2 DEF BuildSet, serviceVars
  <2>3. SetStatus(ns) \in Statuses
    BY DEF SetStatus, Statuses, DeliveryInv, RolloutTypes, NodeSets
  <2>4. /\ ns \in SUBSET Nat /\ IsFiniteSet(ns) /\ Cardinality(ns \ set.nodes) \in Nat
        /\ \A n \in ns \ set.nodes : n > set.made
        /\ \A n \in ns : n <= set.made + Cardinality(ns \ set.nodes)
    BY GeneratedNodes DEF DeliveryInv
  <2>5. /\ set' \in NodeSets(SUBSET Nat)
        /\ set'.nodes = ns /\ set'.made = set.made + Cardinality(ns \ set.nodes)
        /\ set.made \in Nat
    <3>1. set \in NodeSets(SUBSET Nat) BY DEF DeliveryInv, RolloutTypes
    <3>2. set.made \in Nat /\ set.made + Cardinality(ns \ set.nodes) \in Nat
      BY <2>4, <3>1 DEF NodeSets
    <3>3. PICK family : family = SUBSET Nat OBVIOUS
    <3>4. PICK m : m = set.made + Cardinality(ns \ set.nodes) OBVIOUS
    <3>5. set' \in NodeSets(family) /\ set'.nodes = ns /\ set'.made = m
      <4>1. PICK s : s = SetStatus(ns) OBVIOUS
      <4>2. set' = [set EXCEPT !.nodes = ns, !.status = s, !.made = m]
        BY <2>1, <3>4, <4>1
      <4>3. s \in Statuses /\ m \in Nat /\ ns \in family /\ set \in NodeSets(family)
        BY <2>3, <2>4, <3>1, <3>2, <3>3, <3>4, <4>1
      <4>4. QED BY <4>2, <4>3, NodeSetBuilt
    <3>6. QED BY <3>2, <3>3, <3>4, <3>5
  <2>6. RolloutTypes' BY <2>2, <2>4, <2>5 DEF DeliveryInv, RolloutTypes
  <2>7. NumbersOnce'
    <3>1. \A n \in NodeIds : Unborn(n)' => Unborn(n)
      BY <2>2, <2>4, <2>5 DEF Unborn, NodeIds
    <3>2. QED BY <2>2, <2>4, <2>5, <3>1 DEF DeliveryInv, NumbersOnce
  <2>8. ActiveHeld' /\ ItemFollows' /\ ReadIsCurrent'
    BY <2>2 DEF DeliveryInv, ActiveHeld, ItemFollows, ReadIsCurrent, Made
  <2>9. QED BY <2>6, <2>7, <2>8 DEF DeliveryInv
<1>3. ASSUME NEW n \in NodeIds, NodeStep(n) PROVE DeliveryInv'
  <2>1. UNCHANGED <<set, item, master, host, pass, read>>
    BY <1>3 DEF NodeStep, serviceVars
  <2>2. ItemFollows' /\ ReadIsCurrent'
    BY <2>1 DEF DeliveryInv, ItemFollows, ReadIsCurrent, Made
  <2>3. CASE n \in set.nodes /\ node[n] # "ACTIVE" /\ UNCHANGED <<held, news>>
             /\ node' = [node EXCEPT ![n] = CASE node[n] = Void -> "NEW"
                                              [] node[n] = "NEW" -> "IN_PROGRESS"
                                              [] OTHER -> "ACTIVE"]
    <3>1. node' \in [NodeIds -> Statuses \union {Void}] /\ node'[n] \in Statuses
          /\ \A m \in NodeIds : m # n => node'[m] = node[m]
      BY <2>3 DEF DeliveryInv, RolloutTypes, Statuses
    <3>2. RolloutTypes' BY <2>1, <2>3, <3>1 DEF DeliveryInv, RolloutTypes
    <3>3. NumbersOnce'
      <4>1. n <= set.made /\ n \in Nat /\ set.made \in Nat
        BY <2>3 DEF DeliveryInv, NumbersOnce, NodeIds, RolloutTypes, NodeSets
      <4>2. \A m \in NodeIds : Unborn(m)' => m # n /\ Unborn(m)
        BY <2>1, <3>1, <4>1 DEF Unborn
      <4>3. QED BY <2>1, <3>1, <4>2 DEF DeliveryInv, NumbersOnce
    <3>4. ActiveHeld'
      <4>1. node[n] = Void => host[n] = Void
        BY <2>3 DEF DeliveryInv, NumbersOnce, Unborn
      <4>2. QED BY <2>1, <2>3, <3>1, <4>1 DEF DeliveryInv, ActiveHeld
    <3>5. QED BY <2>2, <3>2, <3>3, <3>4 DEF DeliveryInv
  <2>4. CASE /\ n \in Alive \ set.nodes /\ node' = [node EXCEPT ![n] = Void]
             /\ held' = [held EXCEPT ![n] = 0] /\ news' = news \ {n}
    <3>1. /\ node' \in [NodeIds -> Statuses \union {Void}] /\ node'[n] = Void /\ node[n] # Void
          /\ held' \in [NodeIds -> 0 .. MaxVersion]
          /\ \A m \in NodeIds : m # n => node'[m] = node[m] /\ held'[m] = held[m]
      BY <2>4 DEF DeliveryInv, RolloutTypes, Alive
    <3>2. RolloutTypes' BY <2>1, <2>4, <3>1 DEF DeliveryInv, RolloutTypes
    <3>3. NumbersOnce'
      <4>1. ~ Unborn(n)
        BY <3>1 DEF DeliveryInv, NumbersOnce
      <4>2. \A m \in NodeIds : Unborn(m)' => m # n /\ Unborn(m)
        BY <2>1, <2>4, <3>1, <4>1 DEF Unborn
      <4>3. QED BY <2>1, <3>1, <4>2 DEF DeliveryInv, NumbersOnce
    <3>4. ActiveHeld'
      BY <2>1, <3>1 DEF DeliveryInv, ActiveHeld
    <3>5. QED BY <2>2, <3>2, <3>3, <3>4 DEF DeliveryInv
  <2>5. QED BY <1>3, <2>3, <2>4 DEF NodeStep
<1>4. ASSUME NEW n \in NodeIds, Apply(n) PROVE DeliveryInv'
  <2>1. /\ UNCHANGED <<set, node, item, master, host, pass, read>>
        /\ held' = [held EXCEPT ![n] = IF host[n] = Void THEN 0 ELSE host[n].version]
        /\ news' = IF host[n] = Void THEN news \ {n} ELSE news \union {n}
    BY <1>4 DEF Apply, serviceVars
  <2>2. RolloutTypes'
    <3>1. (IF host[n] = Void THEN 0 ELSE host[n].version) \in 0 .. MaxVersion
      BY DEF DeliveryInv, RolloutTypes, HostResources
    <3>2. QED BY <2>1, <3>1 DEF DeliveryInv, RolloutTypes
  <2>3. NumbersOnce' BY <2>1 DEF DeliveryInv, NumbersOnce, Unborn
  <2>4. ActiveHeld' BY <2>1 DEF DeliveryInv, ActiveHeld, RolloutTypes
  <2>5. ItemFollows' /\ ReadIsCurrent'
    BY <2>1 DEF DeliveryInv, ItemFollows, ReadIsCurrent, Made
  <2>6. QED BY <2>2, <2>3, <2>4, <2>5 DEF DeliveryInv
<1>5. QED BY <1>1, <1>2, <1>3, <1>4

\* Requests for an item keep the invariant: they come between iterations.
LEMMA ItemRequestsKeep ==
    ASSUME Racing = FALSE, DeliveryInv, Create \/ Edit \/ Delete
    PROVE  DeliveryInv'
<1> USE DeliveryAssumption, VoidAssumption
<1>1. PICK i : Request(i) /\ i \in {item', Void}
  BY DEF Create, Edit, Delete, Request
<1>2. /\ pass = "new" /\ read = Void
      /\ UNCHANGED <<set, node, held, news, master, host, pass, read>>
  BY <1>1 DEF Request, serviceVars
<1>3. NumbersOnce' /\ ActiveHeld' /\ ReadIsCurrent'
  BY <1>2 DEF DeliveryInv, NumbersOnce, Unborn, ActiveHeld, ReadIsCurrent
<1>4. item' \in Items => RolloutTypes'
  BY <1>2 DEF DeliveryInv, RolloutTypes
<1>5. CASE Create
  <2>1. item # Void /\ item.version = 0 /\ item' = [item EXCEPT !.version = 1] /\ item \in Items
    BY <1>5 DEF Create, Request, DeliveryInv, RolloutTypes
  <2>2. item' \in Items /\ item'.version = 1 /\ item'.changed = item.changed /\ item'.status = item.status
    BY <2>1 DEF Items
  <2>3. ItemFollows'
    BY <1>2, <2>1, <2>2 DEF DeliveryInv, ItemFollows, Made
  <2>4. QED BY <1>3, <1>4, <2>2, <2>3 DEF DeliveryInv
<1>6. CASE Edit
  <2>1. /\ Made(item) /\ item.version < MaxVersion /\ item \in Items
        /\ item' = [version |-> item.version + 1, status |-> "NEW", changed |-> TRUE]
    BY <1>6 DEF Edit, Request, DeliveryInv, RolloutTypes
  <2>2. /\ item' \in Items /\ item'.version = item.version + 1 /\ item'.version > 0
        /\ item'.changed /\ item'.status = "NEW"
    BY <2>1 DEF Items, Made, Statuses
  <2>3. ItemFollows'
    BY <1>2, <2>1, <2>2 DEF DeliveryInv, ItemFollows, Made
  <2>4. QED BY <1>3, <1>4, <2>2, <2>3 DEF DeliveryInv
<1>7. CASE Delete
  <2>1. item' = Void
    BY <1>7 DEF Delete, Request
  <2>2. ItemFollows' /\ item' \in Items
    BY <2>1 DEF ItemFollows, Made, Items
  <2>3. QED BY <1>3, <1>4, <2>2 DEF DeliveryInv
<1>8. QED BY <1>5, <1>6, <1>7

\* What a pass writes, if the row is as it was read.
LEMMA RolledOut ==
    ASSUME DeliveryInv, read # Void, Made(read.item),
           NEW hosts, hosts = NoHosts, RollOut(hosts), UNCHANGED <<set, node, held, news>>,
           read' = Void, pass' \in {"changed", "outdated"}
    PROVE  DeliveryInv'
<1> USE DeliveryAssumption, VoidAssumption
<1>1. /\ read \in [item : Items, nodes : SUBSET NodeIds] /\ read.item = item /\ item # Void
      /\ item \in Items /\ item.version > 0
  BY DEF DeliveryInv, RolloutTypes, ReadIsCurrent, Made
<1>2. ReadIsCurrent'
  BY DEF ReadIsCurrent
<1>3. CASE read.nodes = {}
  <2>1. item' = Void /\ host' = NoHosts /\ master' = FALSE
    BY <1>1, <1>3 DEF RollOut
  <2>2. host' \in [NodeIds -> HostResources \union {Void}] /\ \A n \in NodeIds : host'[n] = Void
    BY <2>1 DEF NoHosts
  <2>3. RolloutTypes'
    BY <2>1, <2>2 DEF DeliveryInv, RolloutTypes, Items
  <2>4. NumbersOnce' /\ ActiveHeld'
    BY <2>2 DEF DeliveryInv, NumbersOnce, Unborn, ActiveHeld
  <2>5. ItemFollows'
    BY <2>1 DEF ItemFollows, Made
  <2>6. QED BY <1>2, <2>3, <2>4, <2>5 DEF DeliveryInv
<1>4. CASE read.nodes # {}
  <2>1. host' = Placed(hosts) /\ master' = TRUE
        /\ item' = [item EXCEPT !.status = "IN_PROGRESS", !.changed = FALSE]
    BY <1>1, <1>4 DEF RollOut, Track
  <2>2. item' \in Items /\ item'.version = item.version /\ ~ item'.changed /\ item'.status = "IN_PROGRESS"
    BY <1>1, <2>1 DEF Items, Statuses
  <2>3. HostResource(item) \in HostResources /\ HostResource(item).version = item.version
        /\ HostResource(item).status = "IN_PROGRESS"
    BY <1>1 DEF HostResource, HostResources, Items, Statuses
  <2>4. /\ host' \in [NodeIds -> HostResources \union {Void}]
        /\ \A n \in NodeIds : IF n \in read.nodes THEN host'[n] = HostResource(item)
                              ELSE host'[n] = Void
    BY <1>1, <2>1, <2>3 DEF Placed, NoHosts
  <2>5. RolloutTypes'
    BY <2>1, <2>2, <2>4 DEF DeliveryInv, RolloutTypes
  <2>6. NumbersOnce'
    BY <2>4 DEF DeliveryInv, NumbersOnce, Unborn
  <2>7. ActiveHeld'
    BY <2>3, <2>4 DEF ActiveHeld
  <2>8. ItemFollows'
    BY <1>1, <2>1, <2>2, <2>3, <2>4 DEF ItemFollows, Made
  <2>9. QED BY <1>2, <2>5, <2>6, <2>7, <2>8 DEF DeliveryInv
<1>5. QED BY <1>3, <1>4

\* The pass of reports keeps the invariant: what it makes active is held.
LEMMA OutdatedKeeps ==
    ASSUME DeliveryInv, ActualizeOutdated
    PROVE  DeliveryInv'
<1> USE DeliveryAssumption, VoidAssumption
<1> DEFINE after == [n \in NodeIds |-> IF n \in Outdated /\ SameHash(n)
                                       THEN [host[n] EXCEPT !.status = "ACTIVE"] ELSE host[n]]
           status == StatusOf({after[n].status : n \in Outdated})
<1>1. /\ pass = "outdated" /\ pass' = "deleted" /\ read # Void /\ read' = Void
      /\ UNCHANGED <<set, node, held, master>>
      /\ news' = news \ Outdated
  BY DEF ActualizeOutdated, Pass
<1>2. \/ UNCHANGED <<item, host>>
      \/ /\ Made(read.item) /\ item # Void /\ master /\ Outdated # {}
         /\ host' = after
         /\ item' = item \/ (status # read.item.status /\ Track(status))
  BY DEF ActualizeOutdated
<1>3. ReadIsCurrent'
  BY <1>1 DEF ReadIsCurrent
<1>4. CASE UNCHANGED <<item, host>>
  <2>1. RolloutTypes'
    BY <1>1, <1>4 DEF DeliveryInv, RolloutTypes
  <2>2. NumbersOnce' /\ ActiveHeld'
    BY <1>1, <1>4 DEF DeliveryInv, NumbersOnce, Unborn, ActiveHeld
  <2>3. ItemFollows'
    BY <1>1, <1>4 DEF DeliveryInv, ItemFollows, Made
  <2>4. QED BY <1>3, <2>1, <2>2, <2>3 DEF DeliveryInv
<1>5. CASE /\ Made(read.item) /\ item # Void /\ master /\ Outdated # {}
           /\ host' = after
           /\ item' = item \/ (status # read.item.status /\ Track(status))
  <2>1. read.item = item /\ Made(item) /\ item \in Items /\ ~ item.changed
    BY <1>1, <1>5 DEF DeliveryInv, ReadIsCurrent, RolloutTypes, ItemFollows
  <2>2. Outdated \subseteq NodeIds /\ \A n \in Outdated : host[n] # Void
    BY DEF Outdated, DeliveryInv, RolloutTypes
  <2>3. ASSUME NEW n \in NodeIds
        PROVE  /\ host'[n] \in HostResources \union {Void}
               /\ host'[n] = Void <=> host[n] = Void
               /\ host[n] # Void => host'[n].version = host[n].version
               /\ host[n] # Void /\ host[n].status = "ACTIVE" => host'[n].status = "ACTIVE"
               /\ host[n] # Void /\ host'[n].status = "ACTIVE"
                     => host[n].status = "ACTIVE" \/ held[n] = host[n].version
    <3>1. host[n] \in HostResources \union {Void} /\ host'[n] = after[n]
      BY <1>5 DEF DeliveryInv, RolloutTypes
    <3>2. CASE n \in Outdated /\ SameHash(n)
      <4>1. host'[n] = [host[n] EXCEPT !.status = "ACTIVE"] /\ host[n] \in HostResources
        BY <2>2, <3>1, <3>2
      <4>2. host'[n] \in HostResources /\ host'[n].version = host[n].version /\ host'[n].status = "ACTIVE"
        BY <4>1 DEF HostResources, Statuses
      <4>3. QED BY <2>2, <3>2, <4>2 DEF SameHash
    <3>3. CASE ~ (n \in Outdated /\ SameHash(n))
      BY <3>1, <3>3
    <3>4. QED BY <3>2, <3>3
  <2>4. host' \in [NodeIds -> HostResources \union {Void}]
    BY <1>5, <2>3
  <2>5. status \in Statuses /\ (status = "ACTIVE" => \A n \in Outdated : host'[n].status = "ACTIVE")
    BY <1>5, <2>2 DEF StatusOf, Statuses
  <2> HIDE DEF status, after
  <2>6. /\ item' \in Items /\ item' # Void => item'.version = item.version /\ ~ item'.changed
        /\ item' \in Items
        /\ item' # Void => item'.status = item.status \/ item'.status = status
    BY <1>5, <2>1, <2>5 DEF Track, Items, Made
  <2>7. RolloutTypes'
    BY <1>1, <2>4, <2>6 DEF DeliveryInv, RolloutTypes
  <2>8. NumbersOnce'
    BY <1>1, <2>3 DEF DeliveryInv, NumbersOnce, Unborn
  <2>9. ActiveHeld'
    BY <1>1, <2>3 DEF DeliveryInv, ActiveHeld
  <2>10. Made(item') /\ item'.status = "ACTIVE" =>
            \E n \in NodeIds : host'[n] # Void /\ host'[n].status = "ACTIVE"
    <3>1. CASE item'.status = item.status
      BY <2>1, <2>3, <3>1 DEF DeliveryInv, ItemFollows
    <3>2. CASE item'.status = status
      BY <1>5, <2>2, <2>3, <2>5, <3>2
    <3>3. QED BY <2>6, <3>1, <3>2 DEF Made
  <2>11. ItemFollows'
    BY <1>1, <1>5, <2>1, <2>3, <2>6, <2>10 DEF DeliveryInv, ItemFollows, Made
  <2>12. QED BY <1>3, <2>7, <2>8, <2>9, <2>11 DEF DeliveryInv
<1>6. QED BY <1>2, <1>4, <1>5

\* The passes of the service keep the invariant.
LEMMA PassesKeep ==
    ASSUME DeliveryInv, Service
    PROVE  DeliveryInv'
<1> USE DeliveryAssumption, VoidAssumption
<1>1. CASE ReadRows
  <2>1. /\ read' = [item |-> item, nodes |-> Alive]
        /\ UNCHANGED <<set, node, item, master, host, held, news, pass>>
    BY <1>1 DEF ReadRows
  <2>2. RolloutTypes'
    BY <2>1 DEF DeliveryInv, RolloutTypes, Alive
  <2>3. NumbersOnce'
    BY <2>1 DEF DeliveryInv, NumbersOnce, Unborn, Alive
  <2>4. ActiveHeld' /\ ItemFollows' /\ ReadIsCurrent'
    BY <2>1 DEF DeliveryInv, ActiveHeld, ItemFollows, ReadIsCurrent, Made
  <2>5. QED BY <2>2, <2>3, <2>4 DEF DeliveryInv
<1>2. ASSUME NEW hosts, RollOut(hosts) \/ UNCHANGED <<item, master, host>>,
             read # Void, read' = Void, UNCHANGED <<set, node, held, news>>,
             UNCHANGED <<item, master, host>> => ItemFollows'
      PROVE  UNCHANGED <<item, master, host>> => DeliveryInv'
  BY <1>2 DEF DeliveryInv, RolloutTypes, NumbersOnce, Unborn, ActiveHeld, ReadIsCurrent
<1>3. CASE ActualizeNew
  <2>1. /\ pass = "new" /\ pass' = "changed" /\ read # Void /\ read' = Void
        /\ UNCHANGED <<set, node, held, news>>
    BY <1>3 DEF ActualizeNew, Pass
  <2>2. CASE IsNew
    <3>1. Made(read.item) /\ RollOut(host)
      BY <1>3, <2>2 DEF ActualizeNew, IsNew
    <3>2. host = NoHosts
      BY <2>1, <2>2 DEF IsNew, DeliveryInv, ReadIsCurrent, ItemFollows
    <3>3. QED BY <2>1, <3>1, <3>2, RolledOut
  <2>3. CASE ~ IsNew
    <3>1. UNCHANGED <<item, master, host>>
      BY <1>3, <2>3 DEF ActualizeNew
    <3>2. Made(item) => master
      BY <2>1, <2>3 DEF IsNew, DeliveryInv, ReadIsCurrent
    <3>3. ItemFollows'
      BY <2>1, <3>1, <3>2 DEF DeliveryInv, ItemFollows, Made
    <3>4. QED BY <1>2, <2>1, <3>1, <3>3
  <2>4. QED BY <2>2, <2>3
<1>4. CASE ActualizeChanged
  <2>1. /\ pass = "changed" /\ pass' = "outdated" /\ read # Void /\ read' = Void
        /\ UNCHANGED <<set, node, held, news>>
    BY <1>4 DEF ActualizeChanged, Pass
  <2>2. CASE IsChanged
    <3>1. Made(read.item) /\ RollOut(NoHosts)
      BY <1>4, <2>2 DEF ActualizeChanged, IsChanged
    <3>2. QED BY <2>1, <3>1, RolledOut
  <2>3. CASE ~ IsChanged
    <3>1. UNCHANGED <<item, master, host>>
      BY <1>4, <2>3 DEF ActualizeChanged
    <3>2. Made(item) => master /\ ~ item.changed
      BY <2>1, <2>3 DEF IsChanged, DeliveryInv, ReadIsCurrent, ItemFollows
    <3>3. ItemFollows'
      BY <2>1, <3>1, <3>2 DEF DeliveryInv, ItemFollows, Made
    <3>4. QED BY <1>2, <2>1, <3>1, <3>3
  <2>4. QED BY <2>2, <2>3
<1>5. CASE ActualizeOutdated
  BY <1>5, OutdatedKeeps
<1>6. CASE ActualizeDeleted
  <2>1. /\ pass = "deleted" /\ pass' = "new" /\ read # Void /\ read' = Void
        /\ UNCHANGED <<set, node, held, news, item>>
    BY <1>6 DEF ActualizeDeleted, Pass
  <2>2. CASE read.item = Void
    <3>1. master' = FALSE /\ host' = NoHosts /\ item = Void
      BY <1>6, <2>1, <2>2 DEF ActualizeDeleted, DeliveryInv, ReadIsCurrent
    <3>2. host' \in [NodeIds -> HostResources \union {Void}] /\ \A n \in NodeIds : host'[n] = Void
      BY <3>1 DEF NoHosts
    <3>3. RolloutTypes'
      BY <2>1, <3>1, <3>2 DEF DeliveryInv, RolloutTypes
    <3>4. NumbersOnce' /\ ActiveHeld' /\ ReadIsCurrent'
      BY <2>1, <3>2 DEF DeliveryInv, NumbersOnce, Unborn, ActiveHeld, ReadIsCurrent
    <3>5. ItemFollows'
      BY <2>1, <3>1 DEF ItemFollows, Made
    <3>6. QED BY <3>3, <3>4, <3>5 DEF DeliveryInv
  <2>3. CASE read.item # Void
    <3>1. UNCHANGED <<item, master, host>>
      BY <1>6, <2>1, <2>3 DEF ActualizeDeleted
    <3>2. ItemFollows'
      BY <2>1, <3>1 DEF DeliveryInv, ItemFollows, Made
    <3>3. QED BY <1>2, <2>1, <3>1, <3>2
  <2>4. QED BY <2>2, <2>3
<1>7. QED BY <1>1, <1>3, <1>4, <1>5, <1>6 DEF Service

\* Where requests come between iterations, an active item was applied, in its current
\* version, by a node, and a resource that is active is held by its node: for any number of
\* nodes, versions and resizes, with nodes that come and go at any time
\* (_actualize_outdated_config, _actualize_outdated_ssh_key).
THEOREM ActiveWasReached == Racing = FALSE => (DeliverySpec => []ActiveMeansReached)
<1> SUFFICES ASSUME Racing = FALSE PROVE DeliverySpec => []ActiveMeansReached
  OBVIOUS
<1>1. DeliveryInit => DeliveryInv
  BY DeliveryStarts
<1>2. DeliveryInv /\ [DeliveryNext]_deliveryVars => DeliveryInv'
  <2> SUFFICES ASSUME DeliveryInv, [DeliveryNext]_deliveryVars PROVE DeliveryInv'
    OBVIOUS
  <2>1. CASE \E r \in 0 .. MaxReplicas : Resize(r) BY <2>1, SetKeeps
  <2>2. CASE BuildSet BY <2>2, SetKeeps
  <2>3. CASE \E n \in NodeIds : NodeStep(n) \/ Apply(n) BY <2>3, SetKeeps
  <2>4. CASE Create \/ Edit \/ Delete BY <2>4, ItemRequestsKeep
  <2>5. CASE Service BY <2>5, PassesKeep
  <2>6. CASE UNCHANGED deliveryVars
    BY <2>6 DEF deliveryVars, DeliveryInv, RolloutTypes, NumbersOnce, Unborn, ActiveHeld,
                ItemFollows, Made, ReadIsCurrent
  <2>7. QED BY <2>1, <2>2, <2>3, <2>4, <2>5, <2>6 DEF DeliveryNext, Service
<1>3. DeliveryInv => ActiveMeansReached
  <2> SUFFICES ASSUME DeliveryInv, Made(item), item.status = "ACTIVE"
               PROVE  LET reached == {n \in NodeIds : host[n] # Void /\ host[n].status = "ACTIVE"}
                      IN  /\ \E n \in reached : host[n].version = item.version
                          /\ \A n \in reached \intersect Alive : held[n] = host[n].version
    BY DEF ActiveMeansReached
  <2>1. PICK n \in NodeIds : host[n] # Void /\ host[n].status = "ACTIVE"
    BY DEF DeliveryInv, ItemFollows
  <2>2. host[n].version = item.version
    BY <2>1 DEF DeliveryInv, ItemFollows
  <2>3. QED BY <2>1, <2>2 DEF DeliveryInv, ActiveHeld, Alive
<1>4. QED BY <1>1, <1>2, <1>3, PTL DEF DeliverySpec

-----------------------------------------------------------------------------
\* Load balancers.

\* Two vhosts that cannot both listen.
Fight(a, b) == a.port = b.port /\ a.protocol \in ConflictMapping[b.protocol]

\* A writable directory where it may be.
OwnBalancer == ~ WritableDirError(lb.kind, lb.size)

\* Rows of balancers, with addresses of some family.
BalancerRows(family) ==
    [what : {"lb", "border"}, kind : Kinds, size : Machines, ips : family,
     status : {"NEW", "IN_PROGRESS", "ACTIVE", "ERROR"}]

NodeReports(family) == [nodes : family, status : {"IN_PROGRESS", "ACTIVE"}] \union {NoRow}

\* Types of what requests look at, and of what the first builder writes.
TablesTyped ==
    /\ lb \in BalancerRows(SUBSET Machines) \union {NoRow}
    /\ vhost \in [Vhosts -> VhostRows \union {NoRow}]
    /\ route \in [Routes -> RouteRows \union {NoRow}]
    /\ pool \in [Pools -> Nat \union {NoRow}]
    /\ infra \in [made : BOOLEAN, target : 0 .. MaxSize, report : NodeReports(SUBSET Machines)]
    /\ order \in [Requesters -> OrderRows \union {NoRow}]
    /\ orders \in Nat

\* Tables are sound.
TablesSound ==
    /\ \A r \in Routes : route[r] # NoRow => vhost[route[r].vhost] # NoRow /\ pool[route[r].pool] # NoRow
    /\ \A g, h \in Vhosts : g # h /\ vhost[g] # NoRow /\ vhost[h] # NoRow => ~ Fight(vhost[g], vhost[h])
    /\ WritableRoutes # {} => lb # NoRow /\ lb.what = "lb" /\ OwnBalancer

\* What a request has found out still holds when it comes to write, except that vhosts
\* may have gone, which foreign keys notice.
StillValid(o) ==
    /\ o.op = "vhost" => Conflicts(o.id, o.row) = {}
    /\ o.op = "route" => pool[o.row.pool] # NoRow /\ (o.row.writable => OwnBalancer)
    /\ o.op = "pool" => PoolUnused(o.id)
    /\ o.op = "type" => TypeValid(o.kind, o.size)

OrdersStand ==
    /\ \A w \in Requesters : order[w] # NoRow /\ lb # NoRow => lb.what = "lb" /\ StillValid(order[w])
    /\ \A w, x \in Requesters :
          w # x /\ order[w] # NoRow /\ order[x] # NoRow => ~ Clash(order[w], order[x])

LbInv ==
    /\ TablesTyped /\ TablesSound /\ OrdersStand
    /\ plan # NoRow => lb # NoRow

\* The rows of a balancer are those of its type.
LEMMA BalancerRowsTyped == LbRows = BalancerRows(SUBSET Machines)
BY DEF LbRows, BalancerRows

\* Conflicts are mutual (PROTOCOL_CONFLICT_MAPPING).
LEMMA FightsAreMutual ==
    ASSUME NEW a \in VhostRows, NEW b \in VhostRows
    PROVE  Fight(a, b) <=> Fight(b, a)
BY DEF Fight, VhostRows, Protocols, ConflictMapping

\* A balancer starts without routes and with one vhost at most.
LEMMA LbStarts == LbInit => LbInv
<1> SUFFICES ASSUME LbInit PROVE LbInv OBVIOUS
<1> USE BalancerAssumption, NoRowAssumption
<1>1. lb \in BalancerRows({{}}) /\ {} \in SUBSET Machines
  BY DEF LbInit, BalancerRows
<1>2. lb \in BalancerRows(SUBSET Machines)
  <2>1. PICK family : family = SUBSET Machines OBVIOUS
  <2>2. {{}} \subseteq family BY <2>1
  <2>3. lb \in BalancerRows(family) BY <1>1, <2>2 DEF BalancerRows
  <2>4. QED BY <2>1, <2>3
<1>3. PICK row0 \in Listens \union {NoRow} :
          vhost = [h \in Vhosts |-> IF h = (CHOOSE g \in Vhosts : TRUE) /\ lb.what = "lb"
                                    THEN row0 ELSE NoRow]
  BY DEF LbInit
<1>4. row0 \in VhostRows \union {NoRow}
  BY <1>3 DEF VhostRows, Protocols
<1>5. PICK first : first = CHOOSE g \in Vhosts : TRUE
  OBVIOUS
<1>6. /\ vhost \in [Vhosts -> VhostRows \union {NoRow}]
      /\ \A g \in Vhosts : vhost[g] # NoRow => g = first
  BY <1>3, <1>4, <1>5
<1>7. /\ route \in [Routes -> RouteRows \union {NoRow}] /\ \A r \in Routes : route[r] = NoRow
      /\ pool \in [Pools -> Nat \union {NoRow}]
      /\ order \in [Requesters -> OrderRows \union {NoRow}] /\ \A w \in Requesters : order[w] = NoRow
      /\ orders = 0 /\ plan = NoRow
  BY DEF LbInit
<1>8. infra \in [made : BOOLEAN, target : 0 .. MaxSize, report : NodeReports(SUBSET Machines)]
  <2>1. PICK reports : reports = NodeReports(SUBSET Machines) OBVIOUS
  <2>2. NoRow \in reports BY <2>1 DEF NodeReports
  <2>3. infra \in [made : BOOLEAN, target : 0 .. MaxSize, report : reports]
    BY <2>2 DEF LbInit
  <2>4. QED BY <2>1, <2>3
<1>9. TablesTyped
  BY <1>2, <1>6, <1>7, <1>8 DEF TablesTyped
<1>10. TablesSound
  BY <1>6, <1>7 DEF TablesSound, WritableRoutes
<1>11. OrdersStand
  BY <1>7 DEF OrdersStand
<1>12. QED BY <1>7, <1>9, <1>10, <1>11 DEF LbInv

\* Steps that take rows away, or leave the tables alone, keep what requests have found out:
\* vhosts and routes may go, pools stay, and so do the kind and the size of the balancer.
LEMMA LessIsValid ==
    ASSUME LbInv, TablesTyped', lb # NoRow, lb' # NoRow,
           lb'.what = lb.what /\ lb'.kind = lb.kind /\ lb'.size = lb.size,
           \A h \in Vhosts : vhost'[h] \in {vhost[h], NoRow},
           \A r \in Routes : route'[r] \in {route[r], NoRow},
           \A r \in Routes : route'[r] # NoRow => vhost'[route[r].vhost] # NoRow,
           \A p \in Pools : pool'[p] = NoRow <=> pool[p] = NoRow,
           order' = order
    PROVE  TablesSound' /\ OrdersStand'
<1> USE BalancerAssumption, NoRowAssumption
<1>1. \A r \in Routes : route[r] # NoRow => route[r] \in RouteRows
  BY DEF LbInv, TablesTyped
<1>2. WritableRoutes' \subseteq WritableRoutes
  BY DEF WritableRoutes
<1>3. OwnBalancer' <=> OwnBalancer
  BY DEF OwnBalancer, WritableDirError
<1>4. TablesSound'
  <2>1. \A r \in Routes : route'[r] # NoRow => vhost'[route'[r].vhost] # NoRow /\ pool'[route'[r].pool] # NoRow
    BY <1>1 DEF LbInv, TablesSound, RouteRows
  <2>2. \A g, h \in Vhosts : g # h /\ vhost'[g] # NoRow /\ vhost'[h] # NoRow => ~ Fight(vhost'[g], vhost'[h])
    BY DEF LbInv, TablesSound
  <2>3. WritableRoutes' # {} => lb' # NoRow /\ lb'.what = "lb" /\ OwnBalancer'
    BY <1>2, <1>3 DEF LbInv, TablesSound
  <2>4. QED BY <2>1, <2>2, <2>3 DEF TablesSound
<1>5. ASSUME NEW o \in OrderRows, StillValid(o) PROVE StillValid(o)'
  <2>1. o.op = "vhost" => Conflicts(o.id, o.row)' \subseteq Conflicts(o.id, o.row)
    BY DEF Conflicts
  <2>2. o.op = "route" => pool'[o.row.pool] # NoRow /\ (o.row.writable => OwnBalancer')
    BY <1>3, <1>5 DEF StillValid, OrderRows, RouteRows
  <2>3. o.op = "pool" => PoolUnused(o.id)'
    BY <1>5 DEF StillValid, PoolUnused
  <2>4. o.op = "type" => TypeValid(o.kind, o.size)'
    BY <1>2, <1>5 DEF StillValid, TypeValid, WritableDirError
  <2>5. QED BY <1>5, <2>1, <2>2, <2>3, <2>4 DEF StillValid
<1>6. OrdersStand'
  BY <1>5 DEF LbInv, OrdersStand, TablesTyped
<1>7. QED BY <1>4, <1>6

\* A request that has validated keeps the invariant.
LEMMA SubmitStands ==
    ASSUME Unlocked = FALSE, LbInv, NEW w \in Requesters, NEW o \in OrderRows,
           Submit(w, o), StillValid(o)
    PROVE  LbInv'
<1> USE BalancerAssumption, NoRowAssumption
<1>1. /\ lb # NoRow /\ lb.what = "lb" /\ order[w] = NoRow /\ orders' = orders + 1
      /\ order' = [order EXCEPT ![w] = o]
      /\ \A x \in Requesters : order[x] # NoRow => ~ Clash(o, order[x]) /\ ~ Clash(order[x], o)
      /\ UNCHANGED <<lb, vhost, route, pool, rules, wake, infra, plan, told, serves>>
  BY DEF Submit, Order
<1>2. order'[w] = o /\ \A x \in Requesters : x # w => order'[x] = order[x]
  BY <1>1 DEF LbInv, TablesTyped
<1>3. TablesTyped'
  BY <1>1 DEF LbInv, TablesTyped
<1>4. TablesSound'
  BY <1>1 DEF LbInv, TablesSound, WritableRoutes, OwnBalancer, WritableDirError
<1>5. \A p \in OrderRows : StillValid(p)' <=> StillValid(p)
  BY <1>1 DEF StillValid, Conflicts, OwnBalancer, WritableDirError, PoolUnused, TypeValid,
              WritableRoutes
<1>6. ASSUME NEW x \in Requesters, order'[x] # NoRow, lb' # NoRow
      PROVE  lb'.what = "lb" /\ StillValid(order[x])'
  <2>1. PICK p \in OrderRows : p = order'[x]
    BY <1>3, <1>6 DEF TablesTyped
  <2>2. StillValid(p) BY <1>1, <1>2, <1>6, <2>1 DEF LbInv, OrdersStand
  <2>3. StillValid(p)' BY <1>5, <2>2
  <2>4. StillValid(order[x])' BY <2>1, <2>3 DEF StillValid, Conflicts, PoolUnused, TypeValid
  <2>5. QED BY <1>1, <2>4
<1>7. \A x, y \in Requesters :
          x # y /\ order'[x] # NoRow /\ order'[y] # NoRow => ~ Clash(order'[x], order'[y])
  BY <1>1, <1>2 DEF LbInv, OrdersStand
<1>8. OrdersStand'
  BY <1>6, <1>7 DEF OrdersStand
<1>9. QED BY <1>1, <1>3, <1>4, <1>8 DEF LbInv

\* Each kind of request validates what it is going to write.
LEMMA SubmitsStand ==
    ASSUME Unlocked = FALSE, LbInv, NEW w \in Requesters
    PROVE  /\ \A h \in Vhosts, l \in Listens : SubmitVhost(w, h, l) => LbInv'
           /\ \A r \in Routes, h \in Vhosts, p \in Pools, b \in BOOLEAN :
                 SubmitRoute(w, r, [vhost |-> h, pool |-> p, writable |-> b]) => LbInv'
           /\ \A p \in Pools : SubmitPoolDelete(w, p) => LbInv'
           /\ \A k \in Kinds, n \in Machines : SubmitType(w, k, n) => LbInv'
<1> USE BalancerAssumption, NoRowAssumption
<1>1. ASSUME NEW h \in Vhosts, NEW l \in Listens, SubmitVhost(w, h, l) PROVE LbInv'
  <2>1. PICK o : o = [op |-> "vhost", id |-> h, row |-> l, new |-> vhost[h] = NoRow]
    OBVIOUS
  <2>2. Submit(w, o) /\ Conflicts(h, l) = {}
    BY <1>1, <2>1 DEF SubmitVhost
  <2>3. l \in VhostRows
    BY DEF VhostRows, Protocols
  <2>4. o \in OrderRows /\ o.op = "vhost" /\ o.id = h /\ o.row = l
    BY <2>1, <2>3 DEF OrderRows
  <2>5. StillValid(o)
    BY <2>2, <2>4 DEF StillValid
  <2>6. QED BY <2>2, <2>4, <2>5, SubmitStands
<1>2. ASSUME NEW r \in Routes, NEW h \in Vhosts, NEW p \in Pools, NEW b \in BOOLEAN,
             SubmitRoute(w, r, [vhost |-> h, pool |-> p, writable |-> b])
      PROVE  LbInv'
  <2>1. PICK l : l = [vhost |-> h, pool |-> p, writable |-> b]
    OBVIOUS
  <2>2. l \in RouteRows /\ l.pool = p /\ l.writable = b
    BY <2>1 DEF RouteRows
  <2>3. PICK o : o = [op |-> "route", id |-> r, row |-> l]
    OBVIOUS
  <2>4. o \in OrderRows /\ o.op = "route" /\ o.row = l
    BY <2>2, <2>3 DEF OrderRows
  <2>5. Submit(w, o) /\ RouteValid(l)
    BY <1>2, <2>1, <2>3 DEF SubmitRoute
  <2>6. StillValid(o)
    BY <2>2, <2>4, <2>5 DEF StillValid, RouteValid, OwnBalancer
  <2>7. QED BY <2>4, <2>5, <2>6, SubmitStands
<1>3. ASSUME NEW p \in Pools, SubmitPoolDelete(w, p) PROVE LbInv'
  <2>1. PICK o : o = [op |-> "pool", id |-> p]
    OBVIOUS
  <2>2. Submit(w, o) /\ PoolUnused(p)
    BY <1>3, <2>1 DEF SubmitPoolDelete
  <2>3. o \in OrderRows /\ o.op = "pool" /\ o.id = p
    BY <2>1 DEF OrderRows
  <2>4. StillValid(o)
    BY <2>2, <2>3 DEF StillValid
  <2>5. QED BY <2>2, <2>3, <2>4, SubmitStands
<1>4. ASSUME NEW k \in Kinds, NEW n \in Machines, SubmitType(w, k, n) PROVE LbInv'
  <2>1. PICK o : o = [op |-> "type", kind |-> k, size |-> n]
    OBVIOUS
  <2>2. Submit(w, o) /\ TypeValid(k, n)
    BY <1>4, <2>1 DEF SubmitType
  <2>3. o \in OrderRows /\ o.op = "type" /\ o.kind = k /\ o.size = n
    BY <2>1 DEF OrderRows
  <2>4. StillValid(o)
    BY <2>2, <2>3 DEF StillValid
  <2>5. QED BY <2>2, <2>3, <2>4, SubmitStands
<1>5. QED BY <1>1, <1>2, <1>3, <1>4

\* When a request writes, tables stay sound, and so does what other requests have found
\* out: none of them clashes with it.
LEMMA WriteStands ==
    ASSUME LbInv, NEW w \in Requesters, Write(w)
    PROVE  LbInv'
<1> USE BalancerAssumption, NoRowAssumption
<1>1. PICK o \in OrderRows : o = order[w]
  BY DEF Write, LbInv, TablesTyped
<1>2. /\ o # NoRow /\ order' = [order EXCEPT ![w] = NoRow]
      /\ UNCHANGED <<rules, infra, plan, told, serves, orders>>
  BY <1>1 DEF Write
<1>3. order'[w] = NoRow /\ \A x \in Requesters : x # w => order'[x] = order[x]
  BY <1>2 DEF LbInv, TablesTyped
<1>4. order' \in [Requesters -> OrderRows \union {NoRow}]
  BY <1>2 DEF LbInv, TablesTyped
<1>5. \A x, y \in Requesters :
          x # y /\ order'[x] # NoRow /\ order'[y] # NoRow => ~ Clash(order'[x], order'[y])
  BY <1>3 DEF LbInv, OrdersStand
<1>6. ASSUME TablesTyped', TablesSound', lb' # NoRow <=> lb # NoRow,
             \A x \in Requesters : \A p \in OrderRows :
                x # w /\ p = order[x] /\ lb # NoRow => lb'.what = "lb" /\ StillValid(p)'
      PROVE  LbInv'
  <2>1. ASSUME NEW x \in Requesters, order'[x] # NoRow, lb' # NoRow
        PROVE  lb'.what = "lb" /\ StillValid(order[x])'
    <3>1. PICK p \in OrderRows : p = order'[x] /\ p = order[x] /\ x # w
      BY <1>3, <1>4, <2>1
    <3>2. lb'.what = "lb" /\ StillValid(p)' BY <1>6, <2>1, <3>1
    <3>3. StillValid(order[x])' BY <3>1, <3>2 DEF StillValid, Conflicts, PoolUnused, TypeValid
    <3>4. QED BY <3>2, <3>3
  <2>2. OrdersStand'
    BY <1>5, <2>1 DEF OrdersStand
  <2>3. plan' # NoRow => lb' # NoRow
    BY <1>2, <1>6 DEF LbInv
  <2>4. QED BY <1>6, <2>2, <2>3 DEF LbInv
<1>7. ASSUME NEW x \in Requesters, NEW p \in OrderRows, x # w, p = order[x], lb # NoRow
      PROVE  lb.what = "lb" /\ StillValid(p) /\ ~ Clash(o, p) /\ ~ Clash(p, o) /\ p # NoRow
  BY <1>1, <1>2, <1>7 DEF LbInv, OrdersStand
<1>8. lb # NoRow => lb.what = "lb" /\ StillValid(o)
  BY <1>1, <1>2 DEF LbInv, OrdersStand
<1>9. CASE UNCHANGED <<lb, vhost, route, pool, wake>>
  <2>1. TablesTyped'
    BY <1>2, <1>4, <1>9 DEF LbInv, TablesTyped
  <2>2. TablesSound'
    BY <1>9 DEF LbInv, TablesSound, WritableRoutes, OwnBalancer, WritableDirError
  <2>3. ASSUME NEW p \in OrderRows, StillValid(p) PROVE StillValid(p)'
    BY <1>9, <2>3 DEF StillValid, Conflicts, OwnBalancer, WritableDirError, PoolUnused, TypeValid,
                      WritableRoutes
  <2>4. QED BY <1>6, <1>7, <1>9, <2>1, <2>2, <2>3
<1>10. CASE /\ lb # NoRow
            /\ o.op = "route" => vhost[o.row.vhost] # NoRow
            /\ vhost' = IF o.op = "vhost" THEN [vhost EXCEPT ![o.id] = o.row] ELSE vhost
            /\ route' = IF o.op = "route" THEN [route EXCEPT ![o.id] = o.row] ELSE route
            /\ pool' = IF o.op = "pool" THEN [pool EXCEPT ![o.id] = NoRow] ELSE pool
            /\ lb' = IF o.op = "type" THEN [lb EXCEPT !.kind = o.kind, !.size = o.size] ELSE lb
  <2>1. CASE o.op = "vhost"
    <3>1. o.id \in Vhosts /\ o.row \in VhostRows
      BY <2>1 DEF OrderRows
    <3>2. /\ vhost' \in [Vhosts -> VhostRows \union {NoRow}] /\ vhost'[o.id] = o.row
          /\ \A h \in Vhosts : h # o.id => vhost'[h] = vhost[h]
          /\ UNCHANGED <<route, pool, lb>>
      BY <1>10, <2>1, <3>1 DEF LbInv, TablesTyped
    <3>3. TablesTyped'
      BY <1>2, <1>4, <3>2 DEF LbInv, TablesTyped
    <3>4. Conflicts(o.id, o.row) = {}
      BY <1>8, <1>10, <2>1 DEF StillValid
    <3>5. \A g \in Vhosts : g # o.id /\ vhost[g] # NoRow => ~ Fight(vhost[g], o.row)
      BY <3>4 DEF Conflicts, Fight
    <3>6. \A g, h \in Vhosts : g # h /\ vhost'[g] # NoRow /\ vhost'[h] # NoRow => ~ Fight(vhost'[g], vhost'[h])
      <4> SUFFICES ASSUME NEW g \in Vhosts, NEW h \in Vhosts, g # h, vhost'[g] # NoRow, vhost'[h] # NoRow
                   PROVE  ~ Fight(vhost'[g], vhost'[h])
        OBVIOUS
      <4>1. vhost'[g] \in VhostRows /\ vhost'[h] \in VhostRows BY <3>2
      <4>2. CASE h = o.id BY <3>2, <3>5, <4>2
      <4>3. CASE g = o.id BY <3>2, <3>5, <4>1, <4>3, FightsAreMutual
      <4>4. CASE g # o.id /\ h # o.id BY <3>2, <4>4 DEF LbInv, TablesSound
      <4>5. QED BY <4>2, <4>3, <4>4
    <3>7. \A r \in Routes : route'[r] # NoRow => vhost'[route'[r].vhost] # NoRow /\ pool'[route'[r].pool] # NoRow
      BY <3>1, <3>2 DEF LbInv, TablesSound, TablesTyped, RouteRows
    <3>8. TablesSound'
      BY <3>2, <3>6, <3>7 DEF LbInv, TablesSound, WritableRoutes, OwnBalancer, WritableDirError
    <3>9. ASSUME NEW x \in Requesters, NEW p \in OrderRows, x # w, p = order[x]
          PROVE  lb'.what = "lb" /\ StillValid(p)'
      <4>1. StillValid(p) /\ ~ Clash(o, p) /\ lb.what = "lb" BY <1>7, <1>10, <3>9
      <4>2. p.op # "vhost" BY <2>1, <4>1 DEF Clash
      <4>3. QED
        BY <3>2, <4>1, <4>2 DEF StillValid, OwnBalancer, WritableDirError, PoolUnused, TypeValid,
                                WritableRoutes
    <3>10. QED BY <1>6, <3>2, <3>3, <3>8, <3>9
  <2>2. CASE o.op = "route"
    <3>1. o.id \in Routes /\ o.row \in RouteRows
      BY <2>2 DEF OrderRows
    <3>2. /\ route' \in [Routes -> RouteRows \union {NoRow}] /\ route'[o.id] = o.row
          /\ \A r \in Routes : r # o.id => route'[r] = route[r]
          /\ UNCHANGED <<vhost, pool, lb>>
      BY <1>10, <2>2, <3>1 DEF LbInv, TablesTyped
    <3>3. TablesTyped'
      BY <1>2, <1>4, <3>2 DEF LbInv, TablesTyped
    <3>4. pool[o.row.pool] # NoRow /\ vhost[o.row.vhost] # NoRow /\ (o.row.writable => OwnBalancer)
          /\ lb.what = "lb"
      BY <1>8, <1>10, <2>2 DEF StillValid
    <3>5. WritableRoutes' \subseteq WritableRoutes \union (IF o.row.writable THEN {o.id} ELSE {})
      BY <3>1, <3>2 DEF WritableRoutes
    <3>6. \A r \in Routes : route'[r] # NoRow => vhost'[route'[r].vhost] # NoRow /\ pool'[route'[r].pool] # NoRow
      BY <3>2, <3>4 DEF LbInv, TablesSound
    <3>7. WritableRoutes' # {} => lb' # NoRow /\ lb'.what = "lb" /\ OwnBalancer'
      BY <1>10, <3>2, <3>4, <3>5 DEF LbInv, TablesSound, OwnBalancer, WritableDirError
    <3>8. TablesSound'
      BY <3>2, <3>6, <3>7 DEF LbInv, TablesSound
    <3>9. ASSUME NEW x \in Requesters, NEW p \in OrderRows, x # w, p = order[x]
          PROVE  lb'.what = "lb" /\ StillValid(p)'
      <4>1. StillValid(p) /\ ~ Clash(o, p) /\ lb.what = "lb" BY <1>7, <1>10, <3>9
      <4>2. p.op = "pool" => o.row.pool # p.id BY <2>2, <4>1 DEF Clash
      <4>3. p.op = "type" => ~ o.row.writable BY <2>2, <4>1 DEF Clash
      <4>4. p.op = "pool" => PoolUnused(p.id)'
        BY <3>2, <4>1, <4>2 DEF StillValid, PoolUnused
      <4>5. p.op = "type" => TypeValid(p.kind, p.size)'
        BY <3>5, <4>1, <4>3 DEF StillValid, TypeValid, WritableDirError
      <4>6. p.op = "vhost" => Conflicts(p.id, p.row)' = {}
        BY <3>2, <4>1 DEF StillValid, Conflicts
      <4>7. p.op = "route" => pool'[p.row.pool] # NoRow /\ (p.row.writable => OwnBalancer')
        BY <3>2, <4>1 DEF StillValid, OwnBalancer, WritableDirError
      <4>8. QED BY <3>2, <4>1, <4>4, <4>5, <4>6, <4>7 DEF StillValid
    <3>10. QED BY <1>6, <3>2, <3>3, <3>8, <3>9
  <2>3. CASE o.op = "pool"
    <3>1. o.id \in Pools
      BY <2>3 DEF OrderRows
    <3>2. /\ pool' \in [Pools -> Nat \union {NoRow}] /\ UNCHANGED <<vhost, route, lb>>
          /\ \A p \in Pools : p # o.id => pool'[p] = pool[p]
      BY <1>10, <2>3, <3>1 DEF LbInv, TablesTyped
    <3>3. TablesTyped'
      BY <1>2, <1>4, <3>2 DEF LbInv, TablesTyped
    <3>4. PoolUnused(o.id)
      BY <1>8, <1>10, <2>3 DEF StillValid
    <3>5. \A r \in Routes : route'[r] # NoRow => vhost'[route'[r].vhost] # NoRow /\ pool'[route'[r].pool] # NoRow
      BY <3>2, <3>4 DEF LbInv, TablesSound, TablesTyped, RouteRows, PoolUnused
    <3>6. TablesSound'
      BY <3>2, <3>5 DEF LbInv, TablesSound, WritableRoutes, OwnBalancer, WritableDirError
    <3>7. ASSUME NEW x \in Requesters, NEW p \in OrderRows, x # w, p = order[x]
          PROVE  lb'.what = "lb" /\ StillValid(p)'
      <4>1. StillValid(p) /\ ~ Clash(p, o) /\ lb.what = "lb" BY <1>7, <1>10, <3>7
      <4>2. p.op = "route" => p.row.pool # o.id /\ p.row.pool \in Pools
        BY <2>3, <4>1 DEF Clash, OrderRows, RouteRows
      <4>3. QED
        BY <3>2, <4>1, <4>2 DEF StillValid, Conflicts, OwnBalancer, WritableDirError, PoolUnused,
                                TypeValid, WritableRoutes
    <3>8. QED BY <1>6, <3>2, <3>3, <3>6, <3>7
  <2>4. CASE o.op = "type"
    <3>1. o.kind \in Kinds /\ o.size \in Machines
      BY <2>4 DEF OrderRows
    <3>2. /\ lb' \in BalancerRows(SUBSET Machines) /\ UNCHANGED <<vhost, route, pool>>
          /\ lb'.kind = o.kind /\ lb'.size = o.size /\ lb'.what = lb.what
      <4>1. PICK family : family = SUBSET Machines OBVIOUS
      <4>2. lb \in BalancerRows(family) /\ lb' = [lb EXCEPT !.kind = o.kind, !.size = o.size]
        BY <1>10, <2>4, <4>1 DEF LbInv, TablesTyped
      <4>3. lb' \in BalancerRows(family) /\ lb'.kind = o.kind /\ lb'.size = o.size /\ lb'.what = lb.what
        BY <3>1, <4>2 DEF BalancerRows
      <4>4. QED BY <1>10, <2>4, <4>1, <4>3
    <3>3. lb' # NoRow
      BY <3>2, BalancerRowsTyped
    <3>4. TablesTyped'
      BY <1>2, <1>4, <3>2 DEF LbInv, TablesTyped
    <3>5. WritableRoutes # {} => OwnBalancer' /\ lb'.what = "lb"
      BY <1>8, <1>10, <2>4, <3>2 DEF StillValid, TypeValid, OwnBalancer, WritableDirError
    <3>6. WritableRoutes' = WritableRoutes
      BY <3>2 DEF WritableRoutes
    <3>7. TablesSound'
      BY <3>2, <3>3, <3>5, <3>6 DEF LbInv, TablesSound
    <3>8. ASSUME NEW x \in Requesters, NEW p \in OrderRows, x # w, p = order[x]
          PROVE  lb'.what = "lb" /\ StillValid(p)'
      <4>1. StillValid(p) /\ ~ Clash(o, p) /\ ~ Clash(p, o) /\ lb.what = "lb" BY <1>7, <1>10, <3>8
      <4>2. p.op # "type" BY <2>4, <4>1 DEF Clash
      <4>3. p.op = "route" => ~ p.row.writable BY <2>4, <4>1 DEF Clash
      <4>4. QED BY <3>2, <4>1, <4>2, <4>3 DEF StillValid, Conflicts, PoolUnused
    <3>9. QED BY <1>6, <1>10, <3>3, <3>4, <3>7, <3>8
  <2>5. QED BY <2>1, <2>2, <2>3, <2>4 DEF OrderRows
<1>11. QED BY <1>1, <1>9, <1>10 DEF Write

\* Requests that need no second look keep the invariant.
LEMMA SingleRequestsKeep ==
    ASSUME LbInv,
           \/ \E h \in Vhosts : DeleteVhost(h)
           \/ \E r \in Routes : DeleteRoute(r)
           \/ \E p \in Pools : EditPool(p)
           \/ \E k \in Kinds : EditBorder(k)
           \/ DeleteLb
    PROVE  LbInv'
<1> USE BalancerAssumption, NoRowAssumption
<1>1. lb # NoRow /\ orders' = orders + 1 /\ orders' \in Nat
  BY DEF DeleteVhost, DeleteRoute, EditPool, EditBorder, DeleteLb, Order, LbInv, TablesTyped
<1>2. ASSUME NEW h \in Vhosts, DeleteVhost(h) PROVE LbInv'
  <2>1. /\ vhost' = [vhost EXCEPT ![h] = NoRow] /\ route' = WithoutRoutes(h)
        /\ UNCHANGED <<lb, pool, infra, plan, order>>
    BY <1>2 DEF DeleteVhost
  <2>2. /\ vhost' \in [Vhosts -> VhostRows \union {NoRow}]
        /\ \A g \in Vhosts : vhost'[g] = IF g = h THEN NoRow ELSE vhost[g]
    BY <2>1 DEF LbInv, TablesTyped
  <2>3. /\ route' \in [Routes -> RouteRows \union {NoRow}]
        /\ \A r \in Routes : route'[r] = IF route[r] # NoRow /\ route[r].vhost = h THEN NoRow ELSE route[r]
    BY <2>1 DEF LbInv, TablesTyped, WithoutRoutes
  <2>4. TablesTyped'
    BY <1>1, <2>1, <2>2, <2>3 DEF LbInv, TablesTyped
  <2>5. \A r \in Routes : route'[r] # NoRow => vhost'[route[r].vhost] # NoRow
    BY <2>2, <2>3 DEF LbInv, TablesSound, TablesTyped, RouteRows
  <2>6. TablesSound' /\ OrdersStand'
    BY <1>1, <2>1, <2>2, <2>3, <2>4, <2>5, LessIsValid
  <2>7. QED BY <1>1, <2>1, <2>4, <2>6 DEF LbInv
<1>3. ASSUME NEW r \in Routes, DeleteRoute(r) PROVE LbInv'
  <2>1. /\ route' = [route EXCEPT ![r] = NoRow]
        /\ UNCHANGED <<lb, vhost, pool, infra, plan, order>>
    BY <1>3 DEF DeleteRoute
  <2>2. /\ route' \in [Routes -> RouteRows \union {NoRow}]
        /\ \A q \in Routes : route'[q] = IF q = r THEN NoRow ELSE route[q]
    BY <2>1 DEF LbInv, TablesTyped
  <2>3. TablesTyped'
    BY <1>1, <2>1, <2>2 DEF LbInv, TablesTyped
  <2>4. \A q \in Routes : route'[q] # NoRow => vhost'[route[q].vhost] # NoRow
    BY <2>1, <2>2 DEF LbInv, TablesSound
  <2>5. TablesSound' /\ OrdersStand'
    BY <1>1, <2>1, <2>2, <2>3, <2>4, LessIsValid
  <2>6. QED BY <1>1, <2>1, <2>3, <2>5 DEF LbInv
<1>4. ASSUME NEW p \in Pools, EditPool(p) PROVE LbInv'
  <2>1. /\ pool[p] # NoRow /\ pool' = [pool EXCEPT ![p] = orders + 1]
        /\ UNCHANGED <<lb, vhost, route, infra, plan, order>>
    BY <1>4 DEF EditPool
  <2>2. /\ pool' \in [Pools -> Nat \union {NoRow}]
        /\ \A q \in Pools : pool'[q] = NoRow <=> pool[q] = NoRow
    BY <1>1, <2>1 DEF LbInv, TablesTyped
  <2>3. TablesTyped'
    BY <1>1, <2>1, <2>2 DEF LbInv, TablesTyped
  <2>4. \A q \in Routes : route'[q] # NoRow => vhost'[route[q].vhost] # NoRow
    BY <2>1 DEF LbInv, TablesSound
  <2>5. TablesSound' /\ OrdersStand'
    BY <1>1, <2>1, <2>2, <2>3, <2>4, LessIsValid
  <2>6. QED BY <1>1, <2>1, <2>3, <2>5 DEF LbInv
<1>5. ASSUME NEW k \in Kinds, EditBorder(k) PROVE LbInv'
  <2>1. /\ lb.what = "border" /\ lb' = [lb EXCEPT !.kind = k]
        /\ UNCHANGED <<vhost, route, pool, infra, plan, order>>
    BY <1>5 DEF EditBorder
  <2>2. lb' \in BalancerRows(SUBSET Machines) /\ lb'.what = "border"
    <3>1. PICK family : family = SUBSET Machines OBVIOUS
    <3>2. lb \in BalancerRows(family) BY <1>1, <3>1 DEF LbInv, TablesTyped
    <3>3. lb' \in BalancerRows(family) /\ lb'.what = lb.what BY <2>1, <3>2 DEF BalancerRows
    <3>4. QED BY <2>1, <3>1, <3>3
  <2>3. lb' # NoRow
    BY <2>2, BalancerRowsTyped
  <2>4. TablesTyped'
    BY <1>1, <2>1, <2>2 DEF LbInv, TablesTyped
  <2>5. WritableRoutes' = {} /\ \A w \in Requesters : order'[w] = NoRow
    BY <1>1, <2>1 DEF LbInv, TablesSound, OrdersStand, WritableRoutes
  <2>6. TablesSound' /\ OrdersStand'
    BY <2>1, <2>5 DEF LbInv, TablesSound, OrdersStand
  <2>7. QED BY <2>1, <2>3, <2>4, <2>6 DEF LbInv
<1>6. CASE DeleteLb
  <2>1. /\ plan = NoRow /\ lb' = NoRow
        /\ vhost' = [h \in Vhosts |-> NoRow] /\ route' = [r \in Routes |-> NoRow]
        /\ pool' = [p \in Pools |-> NoRow] /\ UNCHANGED <<infra, plan, order>>
    BY <1>6 DEF DeleteLb
  <2>2. TablesTyped'
    BY <1>1, <2>1 DEF LbInv, TablesTyped
  <2>3. TablesSound'
    BY <2>1 DEF TablesSound, WritableRoutes
  <2>4. OrdersStand'
    BY <2>1 DEF LbInv, OrdersStand
  <2>5. QED BY <2>1, <2>2, <2>3, <2>4 DEF LbInv
<1>7. QED BY <1>2, <1>3, <1>4, <1>5, <1>6

\* A builder writes the status and the addresses of the row, and nothing that a request
\* looks at.
LEMMA BuilderWrites ==
    ASSUME LbInv, TablesTyped', lb = NoRow => lb' = NoRow,
           lb # NoRow => lb' # NoRow /\ lb'.what = lb.what /\ lb'.kind = lb.kind /\ lb'.size = lb.size,
           UNCHANGED <<vhost, route, pool, order>>, plan' # NoRow => lb' # NoRow
    PROVE  LbInv'
<1>1. CASE lb # NoRow
  <2>1. TablesSound' /\ OrdersStand'
    <3>1. /\ \A h \in Vhosts : vhost'[h] \in {vhost[h], NoRow}
          /\ \A r \in Routes : route'[r] \in {route[r], NoRow}
          /\ \A r \in Routes : route'[r] # NoRow => vhost'[route[r].vhost] # NoRow
          /\ \A p \in Pools : pool'[p] = NoRow <=> pool[p] = NoRow
      BY DEF LbInv, TablesSound
    <3>2. QED BY <1>1, <3>1, LessIsValid
  <2>2. QED BY <2>1 DEF LbInv
<1>2. CASE lb = NoRow
  <2>1. TablesSound'
    BY <1>2 DEF LbInv, TablesSound, WritableRoutes
  <2>2. OrdersStand'
    BY <1>2 DEF LbInv, OrdersStand
  <2>3. QED BY <2>1, <2>2 DEF LbInv
<1>3. QED BY <1>1, <1>2

\* The builders, the node set and the agents keep the invariant.
LEMMA BuildersKeep ==
    ASSUME LbInv,
           \/ BuildInfra \/ NodeSetReports \/ GetVhosts \/ TellAgents \/ ForgetAgents \/ LbIdle
           \/ \E a \in Agents : Serve(a) \/ FailToServe(a)
    PROVE  LbInv'
<1> USE BalancerAssumption, NoRowAssumption
<1> DEFINE Infras(family) == [made : BOOLEAN, target : 0 .. MaxSize, report : NodeReports(family)]
<1>1. PICK family : family = SUBSET Machines OBVIOUS
<1>2. infra \in Infras(family) /\ (lb # NoRow => lb \in BalancerRows(family))
  BY <1>1 DEF LbInv, TablesTyped
<1>3. \A l \in BalancerRows(family) : l # NoRow
  BY <1>1, BalancerRowsTyped
<1>4. ASSUME lb' = lb, infra' \in Infras(family), UNCHANGED <<vhost, route, pool, order>>, orders' \in Nat,
             plan' # NoRow => lb # NoRow
      PROVE  LbInv'
  <2>1. TablesTyped' BY <1>1, <1>4 DEF LbInv, TablesTyped
  <2>2. QED BY <1>4, <2>1, BuilderWrites
<1>5. ASSUME lb # NoRow, lb' \in BalancerRows(family),
             lb'.what = lb.what, lb'.kind = lb.kind, lb'.size = lb.size,
             infra' \in Infras(family), UNCHANGED <<vhost, route, pool, order, orders>>
      PROVE  LbInv'
  <2>1. TablesTyped' BY <1>1, <1>5 DEF LbInv, TablesTyped
  <2>2. lb' # NoRow BY <1>3, <1>5
  <2>3. QED BY <1>5, <2>1, <2>2, BuilderWrites
<1>6. CASE BuildInfra
  <2>1. UNCHANGED <<vhost, route, pool, plan, order, orders>>
    BY <1>6 DEF BuildInfra, tables
  <2>2. plan = NoRow /\ orders \in Nat
    BY <1>6 DEF BuildInfra, LbInv, TablesTyped
  <2>3. CASE lb = NoRow \/ ~ infra.made
    <3>1. lb' = lb
      BY <1>6, <2>3 DEF BuildInfra
    <3>2. infra' \in Infras(family)
      <4>1. PICK m, t : infra' = [infra EXCEPT !.made = m, !.target = t] /\ m \in BOOLEAN
                        /\ t \in {0, IF lb # NoRow /\ lb.kind = "core" THEN lb.size ELSE 0}
        <5>1. CASE lb = NoRow
          <6>1. infra' = [infra EXCEPT !.made = infra.made, !.target = 0] /\ infra.made \in BOOLEAN
            BY <1>2, <1>6, <5>1 DEF BuildInfra
          <6>2. QED BY <6>1
        <5>2. CASE lb # NoRow
          <6>1. infra' = [infra EXCEPT !.made = TRUE,
                                       !.target = IF lb.kind = "core" THEN lb.size ELSE 0]
            BY <1>6, <2>3, <5>2 DEF BuildInfra
          <6>2. QED BY <5>2, <6>1
        <5>3. QED BY <5>1, <5>2
      <4>2. t \in 0 .. MaxSize
        BY <1>2, <4>1 DEF BalancerRows, Machines
      <4>3. QED BY <1>2, <4>1, <4>2
    <3>3. QED BY <1>4, <2>1, <2>2, <3>1, <3>2
  <2>4. CASE lb # NoRow /\ infra.made
    <3>1. /\ infra' = [infra EXCEPT !.target = IF lb.kind = "core" THEN lb.size ELSE 0]
          /\ lb' = ActualizedIaas
      BY <1>6, <2>4 DEF BuildInfra, SaveIaas
    <3>2. infra' \in Infras(family)
      <4>1. (IF lb.kind = "core" THEN lb.size ELSE 0) \in 0 .. MaxSize
        BY <1>2, <2>4 DEF BalancerRows, Machines
      <4>2. QED BY <1>2, <3>1, <4>1
    <3>3. Addresses(lb) \in family /\ {} \in family
          /\ SetReported \in {"NEW", "IN_PROGRESS", "ACTIVE", "ERROR"}
      <4>1. {} \in family BY <1>1
      <4>2. infra.report = NoRow \/ (infra.report.nodes \in family
                                     /\ infra.report.status \in {"IN_PROGRESS", "ACTIVE"})
        BY <1>2 DEF NodeReports
      <4>3. QED BY <1>2, <2>4, <4>1, <4>2 DEF Addresses, SetReported, BalancerRows
    <3>4. PICK ips, status : /\ ips \in family /\ status \in {"NEW", "IN_PROGRESS", "ACTIVE", "ERROR"}
                             /\ ActualizedIaas = [lb EXCEPT !.ips = ips, !.status = status]
      <4>1. CASE lb.kind = "core"
        <5>1. PICK st : st = (IF lb.what = "lb" THEN SetReported ELSE lb.status)
          OBVIOUS
        <5>2. st \in {"NEW", "IN_PROGRESS", "ACTIVE", "ERROR"}
          BY <1>2, <2>4, <3>3, <5>1 DEF BalancerRows
        <5>3. ActualizedIaas = [lb EXCEPT !.ips = Addresses(lb), !.status = st]
          BY <4>1, <5>1 DEF ActualizedIaas
        <5>4. QED BY <3>3, <5>2, <5>3
      <4>2. CASE lb.kind # "core" /\ lb.what = "lb"
        <5>1. ActualizedIaas = [lb EXCEPT !.ips = {}, !.status = lb.status]
          BY <1>2, <2>4, <4>2 DEF ActualizedIaas, BalancerRows
        <5>2. QED BY <1>2, <2>4, <3>3, <5>1 DEF BalancerRows
      <4>3. CASE lb.kind # "core" /\ lb.what # "lb"
        <5>1. ActualizedIaas = [lb EXCEPT !.ips = lb.ips, !.status = lb.status]
          BY <1>2, <2>4, <4>3 DEF ActualizedIaas, BalancerRows
        <5>2. QED BY <1>2, <2>4, <5>1 DEF BalancerRows
      <4>4. QED BY <4>1, <4>2, <4>3
    <3>5. lb' \in BalancerRows(family) /\ lb'.what = lb.what /\ lb'.kind = lb.kind /\ lb'.size = lb.size
      BY <1>2, <2>4, <3>1, <3>4 DEF BalancerRows
    <3>6. QED BY <1>5, <2>1, <2>4, <3>2, <3>5
  <2>5. QED BY <2>3, <2>4
<1>7. CASE NodeSetReports
  <2>1. UNCHANGED <<lb, vhost, route, pool, plan, order, orders>>
    BY <1>7 DEF NodeSetReports, tables
  <2>2. PICK report0 : infra' = [infra EXCEPT !.report = report0] /\ report0 \in NodeReports(family)
    <3> DEFINE nodes == 1 .. infra.target
               status == IF infra.report # NoRow /\ infra.report.nodes = nodes THEN "ACTIVE"
                         ELSE "IN_PROGRESS"
    <3>1. infra' = [infra EXCEPT !.report = IF infra.target = 0 THEN NoRow
                                            ELSE [nodes |-> nodes, status |-> status]]
      BY <1>2, <1>7 DEF NodeSetReports
    <3>2. nodes \in family
      <4>1. infra.target \in 0 .. MaxSize BY <1>2
      <4>2. QED BY <1>1, <4>1 DEF Machines
    <3>3. status \in {"IN_PROGRESS", "ACTIVE"} OBVIOUS
    <3> HIDE DEF nodes, status
    <3>4. (IF infra.target = 0 THEN NoRow ELSE [nodes |-> nodes, status |-> status]) \in NodeReports(family)
      BY <3>2, <3>3 DEF NodeReports
    <3>5. QED BY <3>1, <3>4
  <2>3. infra' \in Infras(family)
    BY <1>2, <2>2
  <2>4. QED BY <1>4, <2>1, <2>3 DEF LbInv, TablesTyped
<1>8. CASE GetVhosts
  <2>1. lb # NoRow /\ UNCHANGED <<lb, vhost, route, pool, infra, order, orders>>
    BY <1>8 DEF GetVhosts, tables
  <2>2. QED BY <1>2, <1>4, <2>1 DEF LbInv, TablesTyped
<1>9. CASE TellAgents
  <2>1. /\ lb # NoRow /\ lb' = [lb EXCEPT !.status = PaasStatus]
        /\ UNCHANGED <<vhost, route, pool, infra, order, orders>>
    BY <1>9 DEF TellAgents, LbInv, tables
  <2>2. PaasStatus \in {"NEW", "IN_PROGRESS", "ACTIVE", "ERROR"}
    BY DEF PaasStatus
  <2>3. lb' \in BalancerRows(family) /\ lb'.what = lb.what /\ lb'.kind = lb.kind /\ lb'.size = lb.size
    BY <1>2, <2>1, <2>2 DEF BalancerRows
  <2>4. QED BY <1>2, <1>5, <2>1, <2>3
<1>10. CASE ForgetAgents \/ LbIdle
  <2>1. UNCHANGED <<lb, vhost, route, pool, infra, plan, order, orders>>
    BY <1>10 DEF ForgetAgents, LbIdle, lbVars, tables
  <2>2. QED BY <1>2, <1>4, <2>1 DEF LbInv, TablesTyped
<1>11. ASSUME NEW a \in Agents, Serve(a) \/ FailToServe(a) PROVE LbInv'
  <2>1. UNCHANGED <<lb, vhost, route, pool, infra, plan, order>>
    BY <1>11 DEF Serve, FailToServe, Report, tables
  <2>2. orders' \in Nat
    BY <1>11 DEF Serve, FailToServe, LbInv, TablesTyped
  <2>3. QED BY <1>2, <1>4, <2>1, <2>2 DEF LbInv
<1>12. QED BY <1>6, <1>7, <1>8, <1>9, <1>10, <1>11

\* Where requests that clash do not overlap, whatever was validated against other rows
\* stays true: a route leads to a pool that is there, no two vhosts fight for a port, and a
\* writable directory is on a balancer of its own with one machine: for any tables, ports,
\* workers and sizes (BackendPool.delete, Vhost._validate, Route._validate, LB.update).
THEOREM BalancersSound == Unlocked = FALSE => (LbSpec => []BalancerSound)
<1> SUFFICES ASSUME Unlocked = FALSE PROVE LbSpec => []BalancerSound
  OBVIOUS
<1>1. LbInit => LbInv
  BY LbStarts
<1>2. LbInv /\ [LbNext]_lbVars => LbInv'
  <2> SUFFICES ASSUME LbInv, [LbNext]_lbVars PROVE LbInv'
    OBVIOUS
  <2>1. CASE Ordering BY <2>1, SubmitsStand, WriteStands DEF Ordering
  <2>2. CASE \/ \E h \in Vhosts : DeleteVhost(h)
             \/ \E r \in Routes : DeleteRoute(r)
             \/ \E p \in Pools : EditPool(p)
             \/ \E k \in Kinds : EditBorder(k)
             \/ DeleteLb
    BY <2>2, SingleRequestsKeep
  <2>3. CASE \/ BuildInfra \/ NodeSetReports \/ GetVhosts \/ TellAgents \/ ForgetAgents \/ LbIdle
             \/ \E a \in Agents : Serve(a) \/ FailToServe(a)
    BY <2>3, BuildersKeep
  <2>4. CASE UNCHANGED lbVars
    <3>1. UNCHANGED <<lb, vhost, route, pool, infra, plan, order, orders>>
      BY <2>4 DEF lbVars
    <3>2. TablesTyped' BY <3>1 DEF LbInv, TablesTyped
    <3>3. QED BY <3>1, <3>2, BuilderWrites DEF LbInv
  <2>5. QED BY <2>1, <2>2, <2>3, <2>4 DEF LbNext
<1>3. LbInv => BalancerSound
  <2> SUFFICES ASSUME LbInv PROVE BalancerSound OBVIOUS
  <2>1. ASSUME NEW g \in Vhosts, NEW h \in Vhosts, g # h, vhost[g] # NoRow, vhost[h] # NoRow,
               vhost[g].port = vhost[h].port
        PROVE  /\ {"tcp"} # {vhost[g].protocol, vhost[h].protocol}
               /\ {"udp"} # {vhost[g].protocol, vhost[h].protocol}
               /\ {vhost[g].protocol, vhost[h].protocol} \notin
                     {{"http", "https"}, {"http", "tcp"}, {"https", "tcp"}}
    <3>1. PICK a, b : a = vhost[g].protocol /\ b = vhost[h].protocol OBVIOUS
    <3>2. a \in Protocols /\ b \in Protocols
      BY <2>1, <3>1 DEF LbInv, TablesTyped, VhostRows
    <3>3. a \notin ConflictMapping[b]
      BY <2>1, <3>1 DEF LbInv, TablesSound, Fight
    <3>4. ~ (a = "tcp" /\ b = "tcp") /\ ~ (a = "udp" /\ b = "udp") /\ ~ (a = "http" /\ b = "https")
          /\ ~ (a = "https" /\ b = "http") /\ ~ (a = "http" /\ b = "tcp") /\ ~ (a = "tcp" /\ b = "http")
          /\ ~ (a = "https" /\ b = "tcp") /\ ~ (a = "tcp" /\ b = "https")
      BY <3>2, <3>3 DEF ConflictMapping, Protocols
    <3>5. {"tcp"} # {a, b} /\ {"udp"} # {a, b} /\ {"http", "https"} # {a, b}
          /\ {"http", "tcp"} # {a, b} /\ {"https", "tcp"} # {a, b}
      <4>1. {"tcp"} # {a, b} BY <3>4
      <4>2. {"udp"} # {a, b} BY <3>4
      <4>3. {"http", "https"} # {a, b} BY <3>4
      <4>4. {"http", "tcp"} # {a, b} BY <3>4
      <4>5. {"https", "tcp"} # {a, b} BY <3>4
      <4>6. QED BY <4>1, <4>2, <4>3, <4>4, <4>5
    <3>6. QED BY <3>1, <3>5
  <2>2. WritableRoutes # {} => lb.kind # "core_agent" /\ (lb.kind = "core" => lb.size = 1)
    <3>1. WritableRoutes # {} => lb # NoRow /\ ~ WritableDirError(lb.kind, lb.size)
      BY DEF LbInv, TablesSound, OwnBalancer
    <3>2. lb # NoRow => lb.size \in Nat \ {0}
      BY BalancerAssumption DEF LbInv, TablesTyped, BalancerRows, Machines
    <3>3. QED BY <3>1, <3>2 DEF WritableDirError
  <2>3. \A r \in Routes : route[r] # NoRow => vhost[route[r].vhost] # NoRow /\ pool[route[r].pool] # NoRow
    BY DEF LbInv, TablesSound
  <2>4. QED BY <2>1, <2>2, <2>3 DEF BalancerSound
<1>4. QED BY <1>1, <1>2, <1>3, PTL DEF LbSpec

-----------------------------------------------------------------------------
\* The bootstrap. Its script is a table: the first lemmas read off it what the steps have
\* in common, and the proofs about its runs use nothing else of it.

Steps == 1 .. 16

RowsOf(j) == Script[j].rows

Size(j) == Len(RowsOf(j))

Indexes(j) == 1 .. Size(j)

\* The row that tells a step that it was made already; 0 for a step that is never skipped.
Key == <<2, 1, 1, 1, 1, 1, 1, 1, 0, 1, 4, 4, 0, 2, 0, 2>>

\* Steps of an installation without a repository, and those whose errors are forgotten.
Optional == {1, 13, 14}

Awaited == {"repo_active", "core_available", "realm_available", "em_element", "profile", "variable",
         "spec_repo_active", "listed"}

\* Where a row is written: the number of the step, and its number in the step.
Place ==
    [launchpad |-> 101, migration_repo |-> 102, migrated |-> 103, public_repo |-> 104,
     proxy_restarted |-> 105,
     ua_config |-> 201, ua_copy |-> 202, ua_restarted |-> 203,
     ca_config |-> 301, ca_copy |-> 302, ca_restarted |-> 303,
     developer_keys |-> 401,
     network |-> 501, main_subnet |-> 502, boot_subnet |-> 503,
     pool |-> 601, agent_key |-> 602,
     client |-> 701, admin |-> 702,
     core_set |-> 801, set_resource |-> 802, core_node |-> 803, node_resource |-> 804,
     port |-> 805,
     cli_config |-> 901,
     cors |-> 1001, cors_copy |-> 1002, api_restarted |-> 1003,
     core_requested |-> 1104, realm_requested |-> 1204,
     spec_repo |-> 1301, idp_client |-> 1401, idp |-> 1402,
     active_profile |-> 1502, core_ip |-> 1504, disk_sizes |-> 1506, endpoint |-> 1508,
     telemetry |-> 1509, realm |-> 1511, realm_secret |-> 1512, access_token |-> 1514,
     refresh_token |-> 1515, jwks_key |-> 1517, default_client |-> 1519,
     requested |-> 1602]

LEMMA MadeRows == DOMAIN MadeOf = Awaited
BY DEF MadeOf, Awaited

LEMMA ScriptLength == Len(Script) = 16 /\ Done = 17
BY DEF Script, Done

\* A pair or a triple is a sequence, and so is what it is joined to.
LEMMA Pair ==
    ASSUME NEW S, NEW a \in S, NEW b \in S
    PROVE  <<a, b>> \in Seq(S)
OBVIOUS

LEMMA Triple ==
    ASSUME NEW S, NEW a \in S, NEW b \in S, NEW c \in S
    PROVE  <<a, b, c>> \in Seq(S)
OBVIOUS

LEMMA JoinPair ==
    ASSUME NEW S, NEW s \in Seq(S), NEW t \in Seq(S)
    PROVE  Len(t) = 2 =>
           /\ s \o t \in Seq(S) /\ Len(s \o t) = Len(s) + 2
           /\ \A k \in 1 .. Len(s) : (s \o t)[k] = s[k]
           /\ (s \o t)[Len(s) + 1] = t[1] /\ (s \o t)[Len(s) + 2] = t[2]
<1>1. /\ s \o t \in Seq(S) /\ Len(s \o t) = Len(s) + Len(t)
      /\ \A k \in 1 .. Len(s) : (s \o t)[k] = s[k]
      /\ \A k \in 1 .. Len(t) : (s \o t)[Len(s) + k] = t[k]
  OBVIOUS
<1> SUFFICES ASSUME Len(t) = 2
             PROVE  /\ s \o t \in Seq(S) /\ Len(s \o t) = Len(s) + 2
                    /\ \A k \in 1 .. Len(s) : (s \o t)[k] = s[k]
                    /\ (s \o t)[Len(s) + 1] = t[1] /\ (s \o t)[Len(s) + 2] = t[2]
  OBVIOUS
<1>2. 1 \in 1 .. Len(t) /\ 2 \in 1 .. Len(t)
  OBVIOUS
<1> QED BY <1>1, <1>2, Zenon

LEMMA JoinTriple ==
    ASSUME NEW S, NEW s \in Seq(S), NEW t \in Seq(S)
    PROVE  Len(t) = 3 =>
           /\ s \o t \in Seq(S) /\ Len(s \o t) = Len(s) + 3
           /\ \A k \in 1 .. Len(s) : (s \o t)[k] = s[k]
           /\ (s \o t)[Len(s) + 1] = t[1] /\ (s \o t)[Len(s) + 2] = t[2]
           /\ (s \o t)[Len(s) + 3] = t[3]
<1>1. /\ s \o t \in Seq(S) /\ Len(s \o t) = Len(s) + Len(t)
      /\ \A k \in 1 .. Len(s) : (s \o t)[k] = s[k]
      /\ \A k \in 1 .. Len(t) : (s \o t)[Len(s) + k] = t[k]
  OBVIOUS
<1> SUFFICES ASSUME Len(t) = 3
             PROVE  /\ s \o t \in Seq(S) /\ Len(s \o t) = Len(s) + 3
                    /\ \A k \in 1 .. Len(s) : (s \o t)[k] = s[k]
                    /\ (s \o t)[Len(s) + 1] = t[1] /\ (s \o t)[Len(s) + 2] = t[2]
                    /\ (s \o t)[Len(s) + 3] = t[3]
  OBVIOUS
<1>2. 1 \in 1 .. Len(t) /\ 2 \in 1 .. Len(t) /\ 3 \in 1 .. Len(t)
  OBVIOUS
<1> QED BY <1>1, <1>2, Zenon

\* The values are written variable by variable.
LEMMA DefaultValuesRows ==
    /\ Len(DefaultValues.rows) = 19
    /\ DefaultValues.rows[1] = "profile" /\ DefaultValues.rows[2] = "active_profile"
    /\ DefaultValues.rows[3] = "variable" /\ DefaultValues.rows[4] = "core_ip"
    /\ DefaultValues.rows[5] = "variable" /\ DefaultValues.rows[6] = "disk_sizes"
    /\ DefaultValues.rows[7] = "variable" /\ DefaultValues.rows[8] = "endpoint"
    /\ DefaultValues.rows[9] = "telemetry"
    /\ DefaultValues.rows[10] = "variable" /\ DefaultValues.rows[11] = "realm"
    /\ DefaultValues.rows[12] = "realm_secret"
    /\ DefaultValues.rows[13] = "variable" /\ DefaultValues.rows[14] = "access_token"
    /\ DefaultValues.rows[15] = "refresh_token"
    /\ DefaultValues.rows[16] = "variable" /\ DefaultValues.rows[17] = "jwks_key"
    /\ DefaultValues.rows[18] = "variable" /\ DefaultValues.rows[19] = "default_client"
<1> DEFINE S == ValueRows \union {"profile", "active_profile", "variable"}
           s2 == Profile \o CoreAddress
           s3 == s2 \o DiskSizes
           s4 == s3 \o Ecosystem
           s5 == s4 \o Realm
           s6 == s5 \o RealmTokens
           s7 == s6 \o SigningKey
           s8 == s7 \o DefaultClient
<1>1. /\ "profile" \in S /\ "active_profile" \in S
      /\ "variable" \in S /\ "core_ip" \in S
      /\ "variable" \in S /\ "disk_sizes" \in S
      /\ "variable" \in S /\ "endpoint" \in S /\ "telemetry" \in S
      /\ "variable" \in S /\ "realm" \in S /\ "realm_secret" \in S
      /\ "variable" \in S /\ "access_token" \in S /\ "refresh_token" \in S
      /\ "variable" \in S /\ "jwks_key" \in S
      /\ "variable" \in S /\ "default_client" \in S
  BY DEF ValueRows
<1> HIDE DEF S
<1>2. /\ Profile \in Seq(S) /\ CoreAddress \in Seq(S) /\ DiskSizes \in Seq(S)
      /\ SigningKey \in Seq(S) /\ DefaultClient \in Seq(S)
  BY <1>1, Pair DEF Profile, CoreAddress, DiskSizes, SigningKey, DefaultClient
<1>3. Ecosystem \in Seq(S) /\ Realm \in Seq(S) /\ RealmTokens \in Seq(S)
  BY <1>1, Triple DEF Ecosystem, Realm, RealmTokens
<1>4. /\ Len(Profile) = 2
      /\ Len(CoreAddress) = 2
      /\ Len(DiskSizes) = 2
      /\ Len(Ecosystem) = 3
      /\ Len(Realm) = 3
      /\ Len(RealmTokens) = 3
      /\ Len(SigningKey) = 2
      /\ Len(DefaultClient) = 2
  BY DEF Profile, CoreAddress, DiskSizes, Ecosystem, Realm, RealmTokens, SigningKey, DefaultClient
<1>5. /\ s2 \in Seq(S) /\ Len(s2) = 4
      /\ \A k \in 1 .. 2 : s2[k] = Profile[k]
      /\ s2[3] = CoreAddress[1] /\ s2[4] = CoreAddress[2]
  <2>1. /\ s2 \in Seq(S) /\ Len(s2) = Len(Profile) + 2
        /\ \A k \in 1 .. Len(Profile) : s2[k] = Profile[k]
        /\ s2[Len(Profile) + 1] = CoreAddress[1] /\ s2[Len(Profile) + 2] = CoreAddress[2]
    BY <1>2, <1>4, JoinPair, Zenon
  <2> HIDE DEF s2
  <2>2. Len(Profile) = 2 BY <1>4
  <2> QED BY <2>1, <2>2
<1> HIDE DEF s2
<1>6. /\ s3 \in Seq(S) /\ Len(s3) = 6
      /\ \A k \in 1 .. 4 : s3[k] = s2[k]
      /\ s3[5] = DiskSizes[1] /\ s3[6] = DiskSizes[2]
  <2>1. /\ s3 \in Seq(S) /\ Len(s3) = Len(s2) + 2
        /\ \A k \in 1 .. Len(s2) : s3[k] = s2[k]
        /\ s3[Len(s2) + 1] = DiskSizes[1] /\ s3[Len(s2) + 2] = DiskSizes[2]
    BY <1>2, <1>4, <1>5, JoinPair, Zenon
  <2> HIDE DEF s3
  <2>2. Len(s2) = 4 BY <1>5
  <2> QED BY <2>1, <2>2
<1> HIDE DEF s3
<1>7. /\ s4 \in Seq(S) /\ Len(s4) = 9
      /\ \A k \in 1 .. 6 : s4[k] = s3[k]
      /\ s4[7] = Ecosystem[1] /\ s4[8] = Ecosystem[2] /\ s4[9] = Ecosystem[3]
  <2>1. /\ s4 \in Seq(S) /\ Len(s4) = Len(s3) + 3
        /\ \A k \in 1 .. Len(s3) : s4[k] = s3[k]
        /\ s4[Len(s3) + 1] = Ecosystem[1] /\ s4[Len(s3) + 2] = Ecosystem[2]
        /\ s4[Len(s3) + 3] = Ecosystem[3]
    BY <1>2, <1>4, <1>3, <1>6, JoinTriple, Zenon
  <2> HIDE DEF s4
  <2>2. Len(s3) = 6 BY <1>6
  <2> QED BY <2>1, <2>2
<1> HIDE DEF s4
<1>8. /\ s5 \in Seq(S) /\ Len(s5) = 12
      /\ \A k \in 1 .. 9 : s5[k] = s4[k]
      /\ s5[10] = Realm[1] /\ s5[11] = Realm[2] /\ s5[12] = Realm[3]
  <2>1. /\ s5 \in Seq(S) /\ Len(s5) = Len(s4) + 3
        /\ \A k \in 1 .. Len(s4) : s5[k] = s4[k]
        /\ s5[Len(s4) + 1] = Realm[1] /\ s5[Len(s4) + 2] = Realm[2] /\ s5[Len(s4) + 3] = Realm[3]
    BY <1>2, <1>4, <1>3, <1>7, JoinTriple, Zenon
  <2> HIDE DEF s5
  <2>2. Len(s4) = 9 BY <1>7
  <2> QED BY <2>1, <2>2
<1> HIDE DEF s5
<1>9. /\ s6 \in Seq(S) /\ Len(s6) = 15
      /\ \A k \in 1 .. 12 : s6[k] = s5[k]
      /\ s6[13] = RealmTokens[1] /\ s6[14] = RealmTokens[2] /\ s6[15] = RealmTokens[3]
  <2>1. /\ s6 \in Seq(S) /\ Len(s6) = Len(s5) + 3
        /\ \A k \in 1 .. Len(s5) : s6[k] = s5[k]
        /\ s6[Len(s5) + 1] = RealmTokens[1] /\ s6[Len(s5) + 2] = RealmTokens[2]
        /\ s6[Len(s5) + 3] = RealmTokens[3]
    BY <1>2, <1>4, <1>3, <1>8, JoinTriple, Zenon
  <2> HIDE DEF s6
  <2>2. Len(s5) = 12 BY <1>8
  <2> QED BY <2>1, <2>2
<1> HIDE DEF s6
<1>10. /\ s7 \in Seq(S) /\ Len(s7) = 17
      /\ \A k \in 1 .. 15 : s7[k] = s6[k]
      /\ s7[16] = SigningKey[1] /\ s7[17] = SigningKey[2]
  <2>1. /\ s7 \in Seq(S) /\ Len(s7) = Len(s6) + 2
        /\ \A k \in 1 .. Len(s6) : s7[k] = s6[k]
        /\ s7[Len(s6) + 1] = SigningKey[1] /\ s7[Len(s6) + 2] = SigningKey[2]
    BY <1>2, <1>4, <1>9, JoinPair, Zenon
  <2> HIDE DEF s7
  <2>2. Len(s6) = 15 BY <1>9
  <2> QED BY <2>1, <2>2
<1> HIDE DEF s7
<1>11. /\ s8 \in Seq(S) /\ Len(s8) = 19
      /\ \A k \in 1 .. 17 : s8[k] = s7[k]
      /\ s8[18] = DefaultClient[1] /\ s8[19] = DefaultClient[2]
  <2>1. /\ s8 \in Seq(S) /\ Len(s8) = Len(s7) + 2
        /\ \A k \in 1 .. Len(s7) : s8[k] = s7[k]
        /\ s8[Len(s7) + 1] = DefaultClient[1] /\ s8[Len(s7) + 2] = DefaultClient[2]
    BY <1>2, <1>4, <1>10, JoinPair, Zenon
  <2> HIDE DEF s8
  <2>2. Len(s7) = 17 BY <1>10
  <2> QED BY <2>1, <2>2
<1> HIDE DEF s8
<1>12. DefaultValues.rows = s8
  BY DEF DefaultValues, Step, s2, s3, s4, s5, s6, s7, s8
<1> QED BY <1>4, <1>5, <1>6, <1>7, <1>8, <1>9, <1>10, <1>11, <1>12
  DEF Profile, CoreAddress, DiskSizes, Ecosystem, Realm, RealmTokens, SigningKey, DefaultClient

\* The script, step by step.
LEMMA ScriptTable ==
    /\ Script[1] = MigrateToRepo /\ Script[2] = AgentConfig /\ Script[3] = CoreAgentConfig
    /\ Script[4] = DeveloperKeys /\ Script[5] = FlatNetwork /\ Script[6] = MachinePools
    /\ Script[7] = InitSecrets /\ Script[8] = CoreSet /\ Script[9] = CliConfig
    /\ Script[10] = CorsConfig /\ Script[11] = InstallCore /\ Script[12] = InstallRealm
    /\ Script[13] = SpecRepositories /\ Script[14] = EnsureIdps /\ Script[15] = DefaultValues
    /\ Script[16] = InstallFromSpec
BY DEF Script

\* What the steps have in common. Each row is written in one place, but the repository of
\* the bootstrap. A row that is not looked up comes after, or is, one that lets the step be
\* skipped; and what services make comes before the key of a step.
RowFacts(j, k) ==
    /\ RowsOf(j)[k] \notin {"clash", "other_key", "em_element"}
    /\ RowsOf(j)[k] = "agent_key" => k = Size(j)
    /\ \/ RowsOf(j)[k] \in Awaited
       \/ RowsOf(j)[k] = "bootstrap_repo" /\ k = 1
       \/ Place[RowsOf(j)[k]] = 100 * j + k /\ RowsOf(j)[k] # "bootstrap_repo"
    /\ \/ RowsOf(j)[k] \in Awaited \union Checked
       \/ \E l \in 1 .. k : RowsOf(j)[l] \in Script[j].unless
    /\ Key[j] # 0 /\ k > Key[j] => RowsOf(j)[k] \notin Awaited

StepFacts(j) ==
    /\ Size(j) \in 1 .. 19
    /\ Key[j] \in 0 .. Size(j)
    /\ Key[j] = 0 => Script[j].unless = {}
    /\ Key[j] # 0 => /\ RowsOf(j)[Key[j]] \notin Awaited \union {"bootstrap_repo"}
                     /\ Script[j].unless \subseteq {RowsOf(j)[Key[j]], "bootstrap_repo",
                                                    "migration_repo"}
    /\ "bootstrap_repo" \in Script[j].unless => j = 1
    /\ "migration_repo" \in Script[j].unless => j \in {1, 11, 12}
    /\ j # 1 => Script[j].only = {}
    /\ Script[j].lenient <=> j \in {13, 14}
    /\ \A k \in Indexes(j) : RowFacts(j, k)

LEMMA StepsAsTold == \A j \in Steps : StepFacts(j)
<1>1. StepFacts(1)
  <2>0. RowsOf(1) = <<"launchpad", "migration_repo", "migrated", "public_repo", "proxy_restarted">>
    BY ScriptTable DEF MigrateToRepo, Step, RowsOf
  <2>1. /\ Size(1) = 5 /\ RowsOf(1)[1] = "launchpad" /\ RowsOf(1)[2] = "migration_repo"
        /\ RowsOf(1)[3] = "migrated" /\ RowsOf(1)[4] = "public_repo"
        /\ RowsOf(1)[5] = "proxy_restarted"
    BY <2>0 DEF Size
  <2>2. Script[1].unless = {"bootstrap_repo", "migration_repo"} /\ ~ Script[1].lenient
    BY ScriptTable DEF MigrateToRepo, Step
  <2>3. /\ Key[1] = 2 /\ Place["launchpad"] = 101 /\ Place["migration_repo"] = 102
        /\ Place["migrated"] = 103 /\ Place["public_repo"] = 104
        /\ Place["proxy_restarted"] = 105
    BY DEF Key, Place
  <2>4. \A k \in Indexes(1) : RowFacts(1, k)
    BY <2>1, <2>2, <2>3 DEF Indexes, RowFacts, Awaited, Checked, ValueRows, Files
  <2> QED BY <2>1, <2>2, <2>3, <2>4 DEF StepFacts, Awaited
<1>2. StepFacts(2)
  <2>0. RowsOf(2) = <<"ua_config", "ua_copy", "ua_restarted">>
    BY ScriptTable DEF AgentConfig, Step, RowsOf
  <2>1. /\ Size(2) = 3 /\ RowsOf(2)[1] = "ua_config" /\ RowsOf(2)[2] = "ua_copy"
        /\ RowsOf(2)[3] = "ua_restarted"
    BY <2>0 DEF Size
  <2>2. Script[2].unless = {"ua_config"} /\ Script[2].only = {} /\ ~ Script[2].lenient
    BY ScriptTable DEF AgentConfig, Step
  <2>3. /\ Key[2] = 1 /\ Place["ua_config"] = 201 /\ Place["ua_copy"] = 202
        /\ Place["ua_restarted"] = 203
    BY DEF Key, Place
  <2>4. \A k \in Indexes(2) : RowFacts(2, k)
    BY <2>1, <2>2, <2>3 DEF Indexes, RowFacts, Awaited, Checked, ValueRows, Files
  <2> QED BY <2>1, <2>2, <2>3, <2>4 DEF StepFacts, Awaited
<1>3. StepFacts(3)
  <2>0. RowsOf(3) = <<"ca_config", "ca_copy", "ca_restarted">>
    BY ScriptTable DEF CoreAgentConfig, Step, RowsOf
  <2>1. /\ Size(3) = 3 /\ RowsOf(3)[1] = "ca_config" /\ RowsOf(3)[2] = "ca_copy"
        /\ RowsOf(3)[3] = "ca_restarted"
    BY <2>0 DEF Size
  <2>2. Script[3].unless = {"ca_config"} /\ Script[3].only = {} /\ ~ Script[3].lenient
    BY ScriptTable DEF CoreAgentConfig, Step
  <2>3. /\ Key[3] = 1 /\ Place["ca_config"] = 301 /\ Place["ca_copy"] = 302
        /\ Place["ca_restarted"] = 303
    BY DEF Key, Place
  <2>4. \A k \in Indexes(3) : RowFacts(3, k)
    BY <2>1, <2>2, <2>3 DEF Indexes, RowFacts, Awaited, Checked, ValueRows, Files
  <2> QED BY <2>1, <2>2, <2>3, <2>4 DEF StepFacts, Awaited
<1>4. StepFacts(4)
  <2>0. RowsOf(4) = <<"developer_keys">>
    BY ScriptTable DEF DeveloperKeys, Step, RowsOf
  <2>1. Size(4) = 1 /\ RowsOf(4)[1] = "developer_keys"
    BY <2>0 DEF Size
  <2>2. Script[4].unless = {"developer_keys"} /\ Script[4].only = {} /\ ~ Script[4].lenient
    BY ScriptTable DEF DeveloperKeys, Step
  <2>3. Key[4] = 1 /\ Place["developer_keys"] = 401
    BY DEF Key, Place
  <2>4. \A k \in Indexes(4) : RowFacts(4, k)
    BY <2>1, <2>2, <2>3 DEF Indexes, RowFacts, Awaited, Checked, ValueRows, Files
  <2> QED BY <2>1, <2>2, <2>3, <2>4 DEF StepFacts, Awaited
<1>5. StepFacts(5)
  <2>0. RowsOf(5) = <<"network", "main_subnet", "boot_subnet">>
    BY ScriptTable DEF FlatNetwork, Step, RowsOf
  <2>1. /\ Size(5) = 3 /\ RowsOf(5)[1] = "network" /\ RowsOf(5)[2] = "main_subnet"
        /\ RowsOf(5)[3] = "boot_subnet"
    BY <2>0 DEF Size
  <2>2. Script[5].unless = {"network"} /\ Script[5].only = {} /\ ~ Script[5].lenient
    BY ScriptTable DEF FlatNetwork, Step
  <2>3. /\ Key[5] = 1 /\ Place["network"] = 501 /\ Place["main_subnet"] = 502
        /\ Place["boot_subnet"] = 503
    BY DEF Key, Place
  <2>4. \A k \in Indexes(5) : RowFacts(5, k)
    BY <2>1, <2>2, <2>3 DEF Indexes, RowFacts, Awaited, Checked, ValueRows, Files
  <2> QED BY <2>1, <2>2, <2>3, <2>4 DEF StepFacts, Awaited
<1>6. StepFacts(6)
  <2>0. RowsOf(6) = <<"pool", "agent_key">>
    BY ScriptTable DEF MachinePools, Step, RowsOf
  <2>1. Size(6) = 2 /\ RowsOf(6)[1] = "pool" /\ RowsOf(6)[2] = "agent_key"
    BY <2>0 DEF Size
  <2>2. Script[6].unless = {"pool"} /\ Script[6].only = {} /\ ~ Script[6].lenient
    BY ScriptTable DEF MachinePools, Step
  <2>3. Key[6] = 1 /\ Place["pool"] = 601 /\ Place["agent_key"] = 602
    BY DEF Key, Place
  <2>4. \A k \in Indexes(6) : RowFacts(6, k)
    <3>1. RowFacts(6, 1)
      BY <2>1, <2>2, <2>3 DEF RowFacts, Awaited
    <3>2. RowFacts(6, 2)
      BY <2>1, <2>2, <2>3 DEF RowFacts, Awaited
    <3> QED BY <2>1, <3>1, <3>2 DEF Indexes
  <2> QED BY <2>1, <2>2, <2>3, <2>4 DEF StepFacts, Awaited
<1>7. StepFacts(7)
  <2>0. RowsOf(7) = <<"client", "admin">>
    BY ScriptTable DEF InitSecrets, Step, RowsOf
  <2>1. Size(7) = 2 /\ RowsOf(7)[1] = "client" /\ RowsOf(7)[2] = "admin"
    BY <2>0 DEF Size
  <2>2. Script[7].unless = {"client"} /\ Script[7].only = {} /\ ~ Script[7].lenient
    BY ScriptTable DEF InitSecrets, Step
  <2>3. Key[7] = 1 /\ Place["client"] = 701 /\ Place["admin"] = 702
    BY DEF Key, Place
  <2>4. \A k \in Indexes(7) : RowFacts(7, k)
    BY <2>1, <2>2, <2>3 DEF Indexes, RowFacts, Awaited, Checked, ValueRows, Files
  <2> QED BY <2>1, <2>2, <2>3, <2>4 DEF StepFacts, Awaited
<1>8. StepFacts(8)
  <2>0. RowsOf(8) = <<"core_set", "set_resource", "core_node", "node_resource", "port">>
    BY ScriptTable DEF CoreSet, Step, RowsOf
  <2>1. /\ Size(8) = 5 /\ RowsOf(8)[1] = "core_set" /\ RowsOf(8)[2] = "set_resource"
        /\ RowsOf(8)[3] = "core_node" /\ RowsOf(8)[4] = "node_resource"
        /\ RowsOf(8)[5] = "port"
    BY <2>0 DEF Size
  <2>2. Script[8].unless = {"core_set"} /\ Script[8].only = {} /\ ~ Script[8].lenient
    BY ScriptTable DEF CoreSet, Step
  <2>3. /\ Key[8] = 1 /\ Place["core_set"] = 801 /\ Place["set_resource"] = 802
        /\ Place["core_node"] = 803 /\ Place["node_resource"] = 804 /\ Place["port"] = 805
    BY DEF Key, Place
  <2>4. \A k \in Indexes(8) : RowFacts(8, k)
    BY <2>1, <2>2, <2>3 DEF Indexes, RowFacts, Awaited, Checked, ValueRows, Files
  <2> QED BY <2>1, <2>2, <2>3, <2>4 DEF StepFacts, Awaited
<1>9. StepFacts(9)
  <2>0. RowsOf(9) = <<"cli_config">>
    BY ScriptTable DEF CliConfig, Step, RowsOf
  <2>1. Size(9) = 1 /\ RowsOf(9)[1] = "cli_config"
    BY <2>0 DEF Size
  <2>2. Script[9].unless = {} /\ Script[9].only = {} /\ ~ Script[9].lenient
    BY ScriptTable DEF CliConfig, Step
  <2>3. Key[9] = 0 /\ Place["cli_config"] = 901
    BY DEF Key, Place
  <2>4. \A k \in Indexes(9) : RowFacts(9, k)
    BY <2>1, <2>2, <2>3 DEF Indexes, RowFacts, Awaited, Checked, ValueRows, Files
  <2> QED BY <2>1, <2>2, <2>3, <2>4 DEF StepFacts, Awaited
<1>10. StepFacts(10)
  <2>0. RowsOf(10) = <<"cors", "cors_copy", "api_restarted">>
    BY ScriptTable DEF CorsConfig, Step, RowsOf
  <2>1. /\ Size(10) = 3 /\ RowsOf(10)[1] = "cors" /\ RowsOf(10)[2] = "cors_copy"
        /\ RowsOf(10)[3] = "api_restarted"
    BY <2>0 DEF Size
  <2>2. Script[10].unless = {"cors"} /\ Script[10].only = {} /\ ~ Script[10].lenient
    BY ScriptTable DEF CorsConfig, Step
  <2>3. /\ Key[10] = 1 /\ Place["cors"] = 1001 /\ Place["cors_copy"] = 1002
        /\ Place["api_restarted"] = 1003
    BY DEF Key, Place
  <2>4. \A k \in Indexes(10) : RowFacts(10, k)
    BY <2>1, <2>2, <2>3 DEF Indexes, RowFacts, Awaited, Checked, ValueRows, Files
  <2> QED BY <2>1, <2>2, <2>3, <2>4 DEF StepFacts, Awaited
<1>11. StepFacts(11)
  <2>0. RowsOf(11) = <<"bootstrap_repo", "repo_active", "core_available", "core_requested">>
    BY ScriptTable DEF InstallCore, Step, RowsOf
  <2>1. /\ Size(11) = 4 /\ RowsOf(11)[1] = "bootstrap_repo" /\ RowsOf(11)[2] = "repo_active"
        /\ RowsOf(11)[3] = "core_available" /\ RowsOf(11)[4] = "core_requested"
    BY <2>0 DEF Size
  <2>2. /\ Script[11].unless = {"migration_repo", "core_requested"} /\ Script[11].only = {}
        /\ ~ Script[11].lenient
    BY ScriptTable DEF InstallCore, Step
  <2>3. Key[11] = 4 /\ Place["core_requested"] = 1104
    BY DEF Key, Place
  <2>4. \A k \in Indexes(11) : RowFacts(11, k)
    BY <2>1, <2>2, <2>3 DEF Indexes, RowFacts, Awaited, Checked, ValueRows, Files
  <2> QED BY <2>1, <2>2, <2>3, <2>4 DEF StepFacts, Awaited
<1>12. StepFacts(12)
  <2>0. RowsOf(12) = <<"bootstrap_repo", "repo_active", "realm_available", "realm_requested">>
    BY ScriptTable DEF InstallRealm, Step, RowsOf
  <2>1. /\ Size(12) = 4 /\ RowsOf(12)[1] = "bootstrap_repo" /\ RowsOf(12)[2] = "repo_active"
        /\ RowsOf(12)[3] = "realm_available" /\ RowsOf(12)[4] = "realm_requested"
    BY <2>0 DEF Size
  <2>2. /\ Script[12].unless = {"migration_repo", "realm_requested"} /\ Script[12].only = {}
        /\ ~ Script[12].lenient
    BY ScriptTable DEF InstallRealm, Step
  <2>3. Key[12] = 4 /\ Place["realm_requested"] = 1204
    BY DEF Key, Place
  <2>4. \A k \in Indexes(12) : RowFacts(12, k)
    BY <2>1, <2>2, <2>3 DEF Indexes, RowFacts, Awaited, Checked, ValueRows, Files
  <2> QED BY <2>1, <2>2, <2>3, <2>4 DEF StepFacts, Awaited
<1>13. StepFacts(13)
  <2>0. RowsOf(13) = <<"spec_repo", "spec_repo_active">>
    BY ScriptTable DEF SpecRepositories, Step, RowsOf
  <2>1. Size(13) = 2 /\ RowsOf(13)[1] = "spec_repo" /\ RowsOf(13)[2] = "spec_repo_active"
    BY <2>0 DEF Size
  <2>2. Script[13].unless = {} /\ Script[13].only = {} /\ Script[13].lenient
    BY ScriptTable DEF SpecRepositories, Step
  <2>3. Key[13] = 0 /\ Place["spec_repo"] = 1301
    BY DEF Key, Place
  <2>4. \A k \in Indexes(13) : RowFacts(13, k)
    BY <2>1, <2>2, <2>3 DEF Indexes, RowFacts, Awaited, Checked, ValueRows, Files
  <2> QED BY <2>1, <2>2, <2>3, <2>4 DEF StepFacts, Awaited
<1>14. StepFacts(14)
  <2>0. RowsOf(14) = <<"idp_client", "idp">>
    BY ScriptTable DEF EnsureIdps, Step, RowsOf
  <2>1. Size(14) = 2 /\ RowsOf(14)[1] = "idp_client" /\ RowsOf(14)[2] = "idp"
    BY <2>0 DEF Size
  <2>2. Script[14].unless = {"idp"} /\ Script[14].only = {} /\ Script[14].lenient
    BY ScriptTable DEF EnsureIdps, Step
  <2>3. Key[14] = 2 /\ Place["idp_client"] = 1401 /\ Place["idp"] = 1402
    BY DEF Key, Place
  <2>4. \A k \in Indexes(14) : RowFacts(14, k)
    BY <2>1, <2>2, <2>3 DEF Indexes, RowFacts, Awaited, Checked, ValueRows, Files
  <2> QED BY <2>1, <2>2, <2>3, <2>4 DEF StepFacts, Awaited
<1>15. StepFacts(15)
  <2>1. /\ Size(15) = 19 /\ RowsOf(15)[1] = "profile" /\ RowsOf(15)[2] = "active_profile"
        /\ RowsOf(15)[3] = "variable" /\ RowsOf(15)[4] = "core_ip" /\ RowsOf(15)[5] = "variable"
        /\ RowsOf(15)[6] = "disk_sizes" /\ RowsOf(15)[7] = "variable" /\ RowsOf(15)[8] = "endpoint"
        /\ RowsOf(15)[9] = "telemetry" /\ RowsOf(15)[10] = "variable" /\ RowsOf(15)[11] = "realm"
        /\ RowsOf(15)[12] = "realm_secret" /\ RowsOf(15)[13] = "variable"
        /\ RowsOf(15)[14] = "access_token" /\ RowsOf(15)[15] = "refresh_token"
        /\ RowsOf(15)[16] = "variable" /\ RowsOf(15)[17] = "jwks_key" /\ RowsOf(15)[18] = "variable"
        /\ RowsOf(15)[19] = "default_client"
    BY ScriptTable, DefaultValuesRows DEF RowsOf, Size
  <2>2. Script[15].unless = {} /\ Script[15].only = {} /\ ~ Script[15].lenient
    BY ScriptTable DEF DefaultValues, Step
  <2>3. /\ Key[15] = 0 /\ Place["active_profile"] = 1502 /\ Place["core_ip"] = 1504
        /\ Place["disk_sizes"] = 1506 /\ Place["endpoint"] = 1508 /\ Place["telemetry"] = 1509
        /\ Place["realm"] = 1511 /\ Place["realm_secret"] = 1512
        /\ Place["access_token"] = 1514 /\ Place["refresh_token"] = 1515
        /\ Place["jwks_key"] = 1517 /\ Place["default_client"] = 1519
    BY DEF Key, Place
  <2>4. \A k \in Indexes(15) : RowFacts(15, k)
    <3> SUFFICES ASSUME NEW k \in Indexes(15) PROVE RowFacts(15, k)
      OBVIOUS
    <3>1. k \in 1 .. 19
      BY <2>1 DEF Indexes
    <3>2. RowsOf(15)[k] \in {"profile", "variable", "active_profile"} \union ValueRows
      BY <2>1, <3>1 DEF ValueRows
    <3>3. RowsOf(15)[k] \notin {"profile", "variable"} => Place[RowsOf(15)[k]] = 1500 + k
      BY <2>1, <2>3, <3>1
    <3>4. /\ RowsOf(15)[k] \notin {"clash", "other_key", "em_element", "agent_key",
                                  "bootstrap_repo"}
          /\ RowsOf(15)[k] \in Awaited \union Checked
      BY <3>2 DEF ValueRows, Awaited, Checked
    <3> QED BY <2>3, <3>3, <3>4 DEF RowFacts, Awaited
  <2> QED BY <2>1, <2>2, <2>3, <2>4 DEF StepFacts, Awaited
<1>16. StepFacts(16)
  <2>0. RowsOf(16) = <<"listed", "requested">>
    BY ScriptTable DEF InstallFromSpec, Step, RowsOf
  <2>1. Size(16) = 2 /\ RowsOf(16)[1] = "listed" /\ RowsOf(16)[2] = "requested"
    BY <2>0 DEF Size
  <2>2. Script[16].unless = {"requested"} /\ Script[16].only = {} /\ ~ Script[16].lenient
    BY ScriptTable DEF InstallFromSpec, Step
  <2>3. Key[16] = 2 /\ Place["requested"] = 1602
    BY DEF Key, Place
  <2>4. \A k \in Indexes(16) : RowFacts(16, k)
    BY <2>1, <2>2, <2>3 DEF Indexes, RowFacts, Awaited, Checked, ValueRows, Files
  <2> QED BY <2>1, <2>2, <2>3, <2>4 DEF StepFacts, Awaited
<1> QED BY <1>1, <1>2, <1>3, <1>4, <1>5, <1>6, <1>7, <1>8, <1>9, <1>10,
           <1>11, <1>12, <1>13, <1>14, <1>15, <1>16 DEF Steps

\* Rows that the proofs name.
LEMMA NamedRows ==
    /\ Size(2) = 3 /\ RowsOf(2)[1] = "ua_config" /\ RowsOf(2)[2] = "ua_copy"
    /\ RowsOf(2)[3] = "ua_restarted"
    /\ Size(3) = 3 /\ RowsOf(3)[1] = "ca_config" /\ RowsOf(3)[2] = "ca_copy"
    /\ RowsOf(3)[3] = "ca_restarted"
    /\ Size(10) = 3 /\ RowsOf(10)[1] = "cors" /\ RowsOf(10)[2] = "cors_copy"
    /\ RowsOf(10)[3] = "api_restarted"
    /\ Size(5) = 3 /\ RowsOf(5)[2] = "main_subnet"
    /\ Size(6) = 2 /\ RowsOf(6)[1] = "pool"
    /\ Size(8) = 5 /\ RowsOf(8)[5] = "port"
    /\ Size(1) = 5 /\ RowsOf(1)[2] = "migration_repo"
<1>1. RowsOf(2) = <<"ua_config", "ua_copy", "ua_restarted">>
  BY ScriptTable DEF AgentConfig, Step, RowsOf
<1>2. RowsOf(3) = <<"ca_config", "ca_copy", "ca_restarted">>
  BY ScriptTable DEF CoreAgentConfig, Step, RowsOf
<1>3. RowsOf(10) = <<"cors", "cors_copy", "api_restarted">>
  BY ScriptTable DEF CorsConfig, Step, RowsOf
<1>4. RowsOf(5) = <<"network", "main_subnet", "boot_subnet">>
  BY ScriptTable DEF FlatNetwork, Step, RowsOf
<1>5. RowsOf(6) = <<"pool", "agent_key">>
  BY ScriptTable DEF MachinePools, Step, RowsOf
<1>6. RowsOf(8) = <<"core_set", "set_resource", "core_node", "node_resource", "port">>
  BY ScriptTable DEF CoreSet, Step, RowsOf
<1>7. RowsOf(1) = <<"launchpad", "migration_repo", "migrated", "public_repo", "proxy_restarted">>
  BY ScriptTable DEF MigrateToRepo, Step, RowsOf
<1> QED BY <1>1, <1>2, <1>3, <1>4, <1>5, <1>6, <1>7 DEF Size

LEMMA RowNumbers ==
    ASSUME NEW j \in Steps
    PROVE  /\ Size(j) \in 1 .. 19
           /\ \A k : k \in Indexes(j) <=> (k \in 1 .. 19 /\ k <= Size(j))
<1>1. Size(j) \in 1 .. 19
  BY StepsAsTold DEF StepFacts
<1> QED BY <1>1 DEF Indexes

LEMMA OnePlace ==
    ASSUME NEW i \in Steps, NEW j \in Steps, NEW k \in Indexes(i), NEW l \in Indexes(j),
           RowsOf(i)[k] = RowsOf(j)[l], RowsOf(i)[k] \notin Awaited, RowsOf(i)[k] # "bootstrap_repo"
    PROVE  i = j /\ k = l
<1>1. Place[RowsOf(i)[k]] = 100 * i + k /\ Place[RowsOf(j)[l]] = 100 * j + l
  BY StepsAsTold DEF StepFacts, RowFacts
<1>2. 100 * i + k = 100 * j + l
  BY <1>1
<1>3. k \in 1 .. 19 /\ l \in 1 .. 19 /\ i \in 1 .. 16 /\ j \in 1 .. 16
  BY RowNumbers DEF Steps
<1> QED BY <1>2, <1>3

\* Rows under /etc, and what reads them.
Restorable ==
    {"ua_config", "ua_restarted", "ca_config", "ca_restarted", "cors", "api_restarted"}

LEMMA RestorableRows ==
    ASSUME NEW j \in Steps \ {2, 3, 10}, NEW k \in Indexes(j)
    PROVE  RowsOf(j)[k] \notin Restorable
<1> DEFINE HasPlace(i, l) == /\ i \in Steps /\ l \in Indexes(i)
                        /\ RowsOf(i)[l] \notin Awaited /\ RowsOf(i)[l] # "bootstrap_repo"
<1>1. \A i \in {2, 3, 10} : \A l \in {1, 3} : HasPlace(i, l)
  <2>1. HasPlace(2, 1) /\ HasPlace(2, 3)
    BY NamedRows DEF Steps, Indexes, Awaited
  <2>2. HasPlace(3, 1) /\ HasPlace(3, 3)
    BY NamedRows DEF Steps, Indexes, Awaited
  <2>3. HasPlace(10, 1) /\ HasPlace(10, 3)
    BY NamedRows DEF Steps, Indexes, Awaited
  <2> HIDE DEF HasPlace
  <2> QED BY <2>1, <2>2, <2>3
<1>2. \A i \in {2, 3, 10} : \A l \in {1, 3} : RowsOf(i)[l] # RowsOf(j)[k]
  BY <1>1, OnePlace
<1>3. \A x \in Restorable : \E i \in {2, 3, 10} : \E l \in {1, 3} : x = RowsOf(i)[l]
  BY NamedRows DEF Restorable
<1> QED BY <1>2, <1>3

-----------------------------------------------------------------------------
\* What holds of the bootstrap wherever trouble comes. Of the step that is under way, the
\* rows up to this one are there, and none of those that follow and are not looked up.
StepUnderWay ==
    Running =>
        /\ at.row <= Size(at.step) + 1
        /\ \A k \in Indexes(at.step) : k < at.row =>
              \/ RowsOf(at.step)[k] \in there
              \/ RowsOf(at.step)[k] = "agent_key" /\ "other_key" \in there
        /\ at.row > 1 => \A k \in Indexes(at.step) : k >= at.row =>
              RowsOf(at.step)[k] \in Awaited \union Checked \/ RowsOf(at.step)[k] \notin there

\* Rows of a step are written in their order.
WrittenInOrder ==
    \A j \in Steps : \A k \in Indexes(j) :
        RowsOf(j)[k] \in there \ Awaited => \A l \in Indexes(j) : l < k => RowsOf(j)[l] \in there

NothingTwice == "clash" \notin there

ScriptInv == BootstrapTypeOK /\ StepUnderWay /\ WrittenInOrder /\ NothingTwice

LEMMA AtTypes ==
    ASSUME BootstrapTypeOK
    PROVE  /\ at = [step |-> at.step, row |-> at.row]
           /\ at.step \in 0 .. 17 /\ at.row \in 1 .. 20
           /\ Running <=> at.step \in Steps
BY ScriptLength, DefaultValuesRows DEF BootstrapTypeOK, Running, Steps

LEMMA ScriptRows ==
    ASSUME NEW j \in Steps, NEW k \in Indexes(j)
    PROVE  RowsOf(j)[k] \in AllRows
BY ScriptLength DEF AllRows, Steps, Indexes, RowsOf, Size

LEMMA FirstRow ==
    ASSUME NEW n \in 0 .. 17, at' = [step |-> n, row |-> 1]
    PROVE  StepUnderWay' /\ at' \in [step : 0 .. Done, row : 1 .. 1 + Len(DefaultValues.rows)]
<1>1. at'.step = n /\ at'.row = 1
  OBVIOUS
<1>2. Running' => n \in Steps
  BY <1>1, ScriptLength DEF Running, Steps
<1>3. StepUnderWay'
  BY <1>1, <1>2, RowNumbers DEF StepUnderWay, Indexes
<1> QED BY <1>3, ScriptLength, DefaultValuesRows

\* A step that is not skipped has no row yet that it is about to write and does not look up.
LEMMA NotYetThere ==
    ASSUME ScriptInv, Running, ~ Skipped, NEW k \in Indexes(at.step), k >= at.row,
           RowsOf(at.step)[k] \notin Awaited \union Checked
    PROVE  RowsOf(at.step)[k] \notin there
<1>1. at.step \in Steps /\ at.row \in 1 .. 20
  BY AtTypes DEF ScriptInv
<1>2. CASE at.row > 1
  BY <1>2 DEF ScriptInv, StepUnderWay
<1>3. CASE at.row = 1
  <2> SUFFICES ASSUME RowsOf(at.step)[k] \in there PROVE FALSE
    OBVIOUS
  <2>1. PICK l \in 1 .. k : RowsOf(at.step)[l] \in Script[at.step].unless
    BY <1>1, StepsAsTold DEF StepFacts, RowFacts
  <2>2. l \in Indexes(at.step)
    BY <1>1, RowNumbers DEF Indexes
  <2>3. RowsOf(at.step)[l] \in there
    BY <1>1, <2>2 DEF ScriptInv, WrittenInOrder, Indexes
  <2> QED BY <1>3, <2>1, <2>3 DEF Skipped, Now
<1> QED BY <1>1, <1>2, <1>3

\* What a step writes.
LEMMA WriteRowEffect ==
    ASSUME ScriptInv, WriteRow
    PROVE  /\ at.step \in Steps /\ at.row \in Indexes(at.step)
           /\ at' = [step |-> at.step, row |-> at.row + 1]
           /\ ThisRow = RowsOf(at.step)[at.row] /\ ThisRow \notin Awaited
           /\ \/ there' = there \union {ThisRow}
              \/ there' = there \union {"other_key"} /\ ThisRow = "agent_key" /\ ~ keyInSpec
           /\ ThisRow \in Checked \/ ThisRow \notin there
<1>1. at.step \in Steps /\ at.row \in 1 .. 20 /\ Running /\ ~ Skipped
  BY AtTypes DEF ScriptInv, WriteRow
<1>2. at.row \in Indexes(at.step)
  BY <1>1, RowNumbers DEF WriteRow, Now, RowsOf, Indexes, Size
<1>3. ThisRow = RowsOf(at.step)[at.row] /\ ThisRow \notin Awaited
  BY MadeRows DEF WriteRow, ThisRow, Now, RowsOf
<1>4. ThisRow \in Checked \/ ThisRow \notin there
  BY <1>1, <1>2, <1>3, NotYetThere DEF Indexes
<1>5. at' = [step |-> at.step, row |-> at.row + 1]
  BY AtTypes DEF ScriptInv, WriteRow
<1>6. \/ there' = there \union {ThisRow}
      \/ there' = there \union {"other_key"} /\ ThisRow = "agent_key" /\ ~ keyInSpec
  BY <1>4 DEF WriteRow
<1> QED BY <1>1, <1>2, <1>3, <1>4, <1>5, <1>6

LEMMA WriteRowKeeps ==
    ASSUME ScriptInv, WriteRow
    PROVE  ScriptInv'
<1> DEFINE j == at.step
           k == at.row
<1>1. /\ j \in Steps /\ k \in Indexes(j) /\ at' = [step |-> j, row |-> k + 1]
      /\ ThisRow = RowsOf(j)[k] /\ ThisRow \notin Awaited
      /\ \/ there' = there \union {ThisRow}
         \/ there' = there \union {"other_key"} /\ ThisRow = "agent_key" /\ ~ keyInSpec
  BY WriteRowEffect
<1>2. k \in 1 .. 19 /\ Size(j) \in 1 .. 19 /\ k <= Size(j)
  BY <1>1, RowNumbers DEF Indexes
<1>3. at'.step = j /\ at'.row = k + 1
  BY <1>1
<1>4. /\ ThisRow \notin {"clash", "other_key"}
      /\ ThisRow = "agent_key" => k = Size(j)
      /\ ThisRow = "bootstrap_repo" => k = 1
  BY <1>1, StepsAsTold DEF StepFacts, RowFacts, Awaited
<1>5. BootstrapTypeOK'
  <2>1. ThisRow \in AllRows
    BY <1>1, ScriptRows
  <2>2. there' \subseteq AllRows \union DOMAIN MadeOf \union {"other_key", "clash"}
    BY <1>1, <2>1 DEF ScriptInv, BootstrapTypeOK
  <2>3. at' \in [step : 0 .. Done, row : 1 .. 1 + Len(DefaultValues.rows)]
    BY <1>1, <1>2, ScriptLength, DefaultValuesRows DEF Steps
  <2> QED BY <2>2, <2>3 DEF ScriptInv, BootstrapTypeOK, WriteRow
<1>6. NothingTwice'
  BY <1>1, <1>4 DEF ScriptInv, NothingTwice
<1>7. StepUnderWay'
  <2>1. \A l \in Indexes(j) : l < k + 1 =>
          RowsOf(j)[l] \in there' \/ (RowsOf(j)[l] = "agent_key" /\ "other_key" \in there')
    <3> SUFFICES ASSUME NEW l \in Indexes(j), l < k + 1
                 PROVE  \/ RowsOf(j)[l] \in there'
                        \/ RowsOf(j)[l] = "agent_key" /\ "other_key" \in there'
      OBVIOUS
    <3>1. CASE l = k
      BY <1>1, <3>1, Zenon
    <3>2. CASE l # k
      <4>1. l < k
        BY <3>2, <1>2 DEF Indexes
      <4>2. Running
        BY DEF WriteRow
      <4>3. RowsOf(j)[l] \in there \/ (RowsOf(j)[l] = "agent_key" /\ "other_key" \in there)
        BY <4>1, <4>2 DEF ScriptInv, StepUnderWay
      <4> QED BY <4>3, <1>1
    <3> QED BY <3>1, <3>2
  <2>2. \A l \in Indexes(j) : l >= k + 1 =>
          RowsOf(j)[l] \in Awaited \union Checked \/ RowsOf(j)[l] \notin there'
    <3> SUFFICES ASSUME NEW l \in Indexes(j), l >= k + 1, RowsOf(j)[l] \notin Awaited \union Checked
                 PROVE  RowsOf(j)[l] \notin there'
      OBVIOUS
    <3>1. l >= k /\ l # k
      BY <1>2 DEF Indexes
    <3>2. RowsOf(j)[l] \notin there
      BY <3>1, NotYetThere DEF WriteRow
    <3>3. RowsOf(j)[l] \notin {"other_key", "bootstrap_repo"}
      BY <1>1, StepsAsTold DEF StepFacts, RowFacts, Checked
    <3>4. RowsOf(j)[l] # ThisRow
      BY <1>1, <3>1, <3>3, OnePlace
    <3> QED BY <1>1, <3>2, <3>3, <3>4
  <2> QED BY <1>2, <1>3, <2>1, <2>2 DEF StepUnderWay
<1>8. WrittenInOrder'
  <2> SUFFICES ASSUME NEW i \in Steps, NEW m \in Indexes(i), RowsOf(i)[m] \in there' \ Awaited,
                      NEW l \in Indexes(i), l < m
               PROVE  RowsOf(i)[l] \in there'
    BY DEF WrittenInOrder
  <2>1. CASE RowsOf(i)[m] \in there
    BY <2>1, <1>1 DEF ScriptInv, WrittenInOrder
  <2>2. CASE RowsOf(i)[m] \notin there
    <3>1. RowsOf(i)[m] = ThisRow
      BY <2>2, <1>1, StepsAsTold DEF StepFacts, RowFacts
    <3>2. ThisRow # "bootstrap_repo"
      BY <3>1, StepsAsTold, RowNumbers DEF StepFacts, RowFacts, Awaited
    <3>3. i = j /\ m = k
      BY <1>1, <3>1, <3>2, OnePlace
    <3>4. RowsOf(j)[l] # "agent_key"
      BY <1>1, <1>2, <3>3, StepsAsTold DEF StepFacts, RowFacts
    <3>5. RowsOf(j)[l] \in there
      BY <3>3, <3>4 DEF ScriptInv, StepUnderWay, WriteRow
    <3> QED BY <1>1, <3>3, <3>5
  <2> QED BY <2>1, <2>2
<1> QED BY <1>5, <1>6, <1>7, <1>8 DEF ScriptInv

\* A reboot leaves a config, its copy and what reads it all there, or none of them.
LEMMA RebootKeeps ==
    ASSUME ScriptInv, Reboot
    PROVE  ScriptInv'
<1>1. there' = Restored(there) /\ at' = [step |-> 0, row |-> 1] /\ keyInSpec' = TRUE
  BY DEF Reboot
<1>2. \A x : x \notin Restorable => (x \in there' <=> x \in there)
  BY <1>1 DEF Restored, Restorable
<1>3. /\ "ua_config" \in there' <=> "ua_copy" \in there'
      /\ "ua_restarted" \in there' <=> "ua_copy" \in there'
      /\ "ca_config" \in there' <=> "ca_copy" \in there'
      /\ "ca_restarted" \in there' <=> "ca_copy" \in there'
      /\ "cors" \in there' <=> "cors_copy" \in there'
      /\ "api_restarted" \in there' <=> "cors_copy" \in there'
  BY <1>1 DEF Restored
<1>4. BootstrapTypeOK'
  <2>1. Restorable \subseteq AllRows
    <3>1. \A i \in {2, 3, 10} : \A l \in {1, 3} : i \in Steps /\ l \in Indexes(i)
      BY NamedRows DEF Steps, Indexes
    <3>2. \A i \in {2, 3, 10} : \A l \in {1, 3} : RowsOf(i)[l] \in AllRows
      BY <3>1, ScriptRows
    <3> QED BY <3>2, NamedRows DEF Restorable
  <2>2. there' \subseteq AllRows \union DOMAIN MadeOf \union {"other_key", "clash"}
    BY <1>2, <2>1 DEF ScriptInv, BootstrapTypeOK
  <2>3. troubles' \in 0 .. MaxTroubles
    BY BootstrapAssumption DEF Reboot, ScriptInv, BootstrapTypeOK
  <2> QED BY <1>1, <2>2, <2>3, FirstRow DEF BootstrapTypeOK
<1>5. NothingTwice'
  BY <1>2 DEF ScriptInv, NothingTwice, Restorable
<1>6. WrittenInOrder'
  <2> SUFFICES ASSUME NEW j \in Steps, NEW k \in Indexes(j), RowsOf(j)[k] \in there' \ Awaited,
                      NEW l \in Indexes(j), l < k
               PROVE  RowsOf(j)[l] \in there'
    BY DEF WrittenInOrder
  <2>1. CASE j \in {2, 3, 10}
    <3>1. k \in 1 .. 3 /\ l \in 1 .. 3
      BY <2>1, NamedRows DEF Indexes
    <3> QED BY <1>3, <2>1, <3>1, NamedRows
  <2>2. CASE j \notin {2, 3, 10}
    <3>1. RowsOf(j)[k] \notin Restorable /\ RowsOf(j)[l] \notin Restorable
      BY <2>2, RestorableRows
    <3> QED BY <1>2, <3>1 DEF ScriptInv, WrittenInOrder
  <2> QED BY <2>1, <2>2
<1> QED BY <1>1, <1>4, <1>5, <1>6, FirstRow DEF ScriptInv

LEMMA ProvideKeeps ==
    ASSUME ScriptInv, NEW x \in DOMAIN MadeOf, Provide(x)
    PROVE  ScriptInv'
<1>1. x \in Awaited /\ there' = there \union {x} /\ at' = at /\ keyInSpec' = keyInSpec
      /\ troubles' = troubles
  BY MadeRows DEF Provide
<1>2. BootstrapTypeOK'
  BY <1>1 DEF ScriptInv, BootstrapTypeOK
<1>3. NothingTwice'
  BY <1>1 DEF ScriptInv, NothingTwice, Awaited
<1>4. StepUnderWay'
  BY <1>1 DEF ScriptInv, StepUnderWay, Running
<1>5. WrittenInOrder'
  BY <1>1 DEF ScriptInv, WrittenInOrder
<1> QED BY <1>2, <1>3, <1>4, <1>5 DEF ScriptInv

\* Where trouble takes the script.
LEMMA GoBackEffect ==
    ASSUME BootstrapTypeOK, Running, GoBack
    PROVE  /\ there' = there
           /\ \/ at' = [step |-> at.step + 1, row |-> 1] /\ at.step \in {13, 14}
              \/ at' = [step |-> 5, row |-> 1] /\ at.step >= 5
              \/ at' = [step |-> 0, row |-> 1]
           /\ keyInSpec' = (keyInSpec /\ ThisRow # "pool")
<1>1. at.step \in Steps
  BY AtTypes
<1>2. Now.lenient => at.step \in {13, 14}
  BY <1>1, StepsAsTold DEF StepFacts, Now
<1> QED BY <1>2 DEF GoBack, NextStep, LoopStart

LEMMA GoBackKeeps ==
    ASSUME ScriptInv, Running, GoBack, troubles' \in 0 .. MaxTroubles
    PROVE  ScriptInv'
<1>1. /\ there' = there
      /\ \/ at' = [step |-> at.step + 1, row |-> 1] /\ at.step \in {13, 14}
         \/ at' = [step |-> 5, row |-> 1]
         \/ at' = [step |-> 0, row |-> 1]
      /\ keyInSpec' \in BOOLEAN
  BY GoBackEffect DEF ScriptInv
<1>2. /\ StepUnderWay'
      /\ at' \in [step : 0 .. Done, row : 1 .. 1 + Len(DefaultValues.rows)]
  <2>1. PICK n \in 0 .. 17 : at' = [step |-> n, row |-> 1]
    BY <1>1
  <2> QED BY <2>1, FirstRow
<1> QED BY <1>1, <1>2 DEF ScriptInv, BootstrapTypeOK, WrittenInOrder, NothingTwice

\* Steps of the script that change no row.
LEMMA MoveKeeps ==
    ASSUME ScriptInv, Boot \/ SkipStep \/ WaitForRow \/ EndStep
    PROVE  ScriptInv'
<1>1. there' = there /\ troubles' = troubles /\ keyInSpec' \in BOOLEAN
  BY DEF Boot, SkipStep, WaitForRow, EndStep, ScriptInv, BootstrapTypeOK
<1>2. at.step \in 0 .. 17 /\ at.row \in 1 .. 20 /\ (Running <=> at.step \in Steps)
  BY AtTypes DEF ScriptInv
<1>3. /\ StepUnderWay'
      /\ at' \in [step : 0 .. Done, row : 1 .. 1 + Len(DefaultValues.rows)]
  <2>1. CASE Boot \/ SkipStep \/ EndStep
    <3>1. \/ at' = [step |-> 1, row |-> 1]
          \/ at.step \in Steps /\ at' = [step |-> at.step + 1, row |-> 1]
      BY <1>2, <2>1 DEF Boot, SkipStep, EndStep, NextStep
    <3>2. 1 \in 0 .. 17 /\ (at.step \in Steps => at.step + 1 \in 0 .. 17)
      BY DEF Steps
    <3> QED BY <3>1, <3>2, FirstRow, Zenon
  <2>2. CASE WaitForRow
    <3>1. Running /\ at.step \in Steps /\ at.row <= Size(at.step)
      BY <1>2, <2>2 DEF WaitForRow, Now, RowsOf, Size
    <3>2. /\ at' = [step |-> at.step, row |-> at.row + 1]
          /\ RowsOf(at.step)[at.row] \in there \intersect Awaited
      BY <2>2, AtTypes, MadeRows DEF WaitForRow, ScriptInv, ThisRow, Now, RowsOf
    <3>3. at'.step = at.step /\ at'.row = at.row + 1 /\ Size(at.step) \in 1 .. 19
      BY <3>1, <3>2, RowNumbers
    <3>4. at' \in [step : 0 .. Done, row : 1 .. 1 + Len(DefaultValues.rows)]
      BY <1>2, <3>1, <3>2, <3>3, ScriptLength, DefaultValuesRows
    <3>5. \A k \in Indexes(at.step) : k < at.row + 1 =>
            \/ RowsOf(at.step)[k] \in there
            \/ RowsOf(at.step)[k] = "agent_key" /\ "other_key" \in there
      BY <1>2, <3>1, <3>2 DEF ScriptInv, StepUnderWay, Indexes
    <3>6. \A k \in Indexes(at.step) : k >= at.row + 1 =>
            RowsOf(at.step)[k] \in Awaited \union Checked \/ RowsOf(at.step)[k] \notin there
      <4> SUFFICES ASSUME NEW k \in Indexes(at.step), k >= at.row + 1,
                          RowsOf(at.step)[k] \notin Awaited \union Checked
                   PROVE  RowsOf(at.step)[k] \notin there
        OBVIOUS
      <4>1. k >= at.row
        BY <1>2 DEF Indexes
      <4> QED BY <2>2, <4>1, NotYetThere DEF WaitForRow
    <3>7. at.row + 1 <= Size(at.step) + 1
      BY <1>2, <3>1, <3>3
    <3>8. StepUnderWay'
      BY <1>1, <3>3, <3>5, <3>6, <3>7 DEF StepUnderWay
    <3> QED BY <3>4, <3>8
  <2> QED BY <2>1, <2>2
<1> QED BY <1>1, <1>3 DEF ScriptInv, BootstrapTypeOK, WrittenInOrder, NothingTwice

LEMMA ScriptInvInit == BootstrapInit => ScriptInv
<1> SUFFICES ASSUME BootstrapInit PROVE ScriptInv
  OBVIOUS
<1>1. there \subseteq {"em_element"} /\ at = [step |-> 0, row |-> 1]
  BY DEF BootstrapInit
<1>2. BootstrapTypeOK
  BY <1>1, ScriptLength, DefaultValuesRows, MadeRows, BootstrapAssumption
     DEF BootstrapInit, BootstrapTypeOK, Awaited
<1>3. StepUnderWay
  BY <1>1 DEF StepUnderWay, Running
<1>4. WrittenInOrder
  BY <1>1 DEF WrittenInOrder, Awaited
<1>5. NothingTwice
  BY <1>1 DEF NothingTwice
<1> QED BY <1>2, <1>3, <1>4, <1>5 DEF ScriptInv

LEMMA ScriptInvStep == ScriptInv /\ [BootstrapNext]_bootVars => ScriptInv'
<1> SUFFICES ASSUME ScriptInv, [BootstrapNext]_bootVars PROVE ScriptInv'
  OBVIOUS
<1>1. CASE Boot \/ SkipStep \/ WaitForRow \/ EndStep
  BY <1>1, MoveKeeps
<1>2. CASE WriteRow
  BY <1>2, WriteRowKeeps
<1>3. CASE GiveUp
  BY <1>3, GoBackKeeps DEF GiveUp, ScriptInv, BootstrapTypeOK
<1>4. CASE Fail
  <2>1. troubles' \in 0 .. MaxTroubles
    BY <1>4, BootstrapAssumption DEF Fail, ScriptInv, BootstrapTypeOK
  <2> QED BY <1>4, <2>1, GoBackKeeps DEF Fail
<1>5. CASE Reboot
  BY <1>5, RebootKeeps
<1>6. ASSUME NEW x \in DOMAIN MadeOf, Provide(x) PROVE ScriptInv'
  BY <1>6, ProvideKeeps
<1>7. CASE UNCHANGED bootVars
  BY <1>7 DEF bootVars, ScriptInv, BootstrapTypeOK, StepUnderWay, WrittenInOrder, NothingTwice,
     Running
<1> QED BY <1>1, <1>2, <1>3, <1>4, <1>5, <1>6, <1>7 DEF BootstrapNext

\* Wherever errors and reboots come, also between two writes of one step, the script writes
\* no row that is there already: what it does not look up it writes once (apply_flat_network,
\* apply_startup_db, init_secrets, add_core_set).
THEOREM BootstrapWritesOnce == BootstrapSpec => [](BootstrapTypeOK /\ NothingTwice)
<1>1. ScriptInv => BootstrapTypeOK /\ NothingTwice
  BY DEF ScriptInv
<1> QED BY ScriptInvInit, ScriptInvStep, <1>1, PTL DEF BootstrapSpec

-----------------------------------------------------------------------------
\* What holds besides when no trouble comes between two writes of one step.
Complete(j) == \A k \in Indexes(j) : RowsOf(j)[k] \in there

\* The row that lets a step be skipped stands for all of its rows, but while they are written.
KeyMeansRest ==
    \A j \in Steps : Key[j] # 0 /\ RowsOf(j)[Key[j]] \in there =>
        Complete(j) \/ (at.step = j /\ at.row > Key[j])

\* Steps that the script has passed are complete; a migrated stand installs nothing.
PassedMeansComplete ==
    \A j \in Steps \ Optional : at.step > j =>
        Complete(j) \/ (j \in {11, 12} /\ "migration_repo" \in there)

\* What services made was made of something; elements were there before on an old stand.
MadeOfSomething == \A x \in Awaited \ {"em_element"} : x \in there => MadeOf[x] \in there

KeyKept == keyInSpec = TRUE /\ "other_key" \notin there

WholeInv == ScriptInv /\ KeyMeansRest /\ PassedMeansComplete /\ MadeOfSomething /\ KeyKept

LEMMA KeyRow ==
    ASSUME NEW j \in Steps, Key[j] # 0
    PROVE  /\ Key[j] \in Indexes(j)
           /\ RowsOf(j)[Key[j]] \notin Awaited /\ RowsOf(j)[Key[j]] # "bootstrap_repo"
BY StepsAsTold DEF StepFacts, Indexes

\* A step whose last row was reached is complete, and so is one that is skipped.
LEMMA EndedIsComplete ==
    ASSUME WholeInv, EndStep
    PROVE  Complete(at.step)
<1>1. Running /\ at.step \in Steps /\ at.row \in 1 .. 20 /\ at.row > Size(at.step)
  BY AtTypes DEF WholeInv, ScriptInv, EndStep, Now, RowsOf, Size
<1>2. \A k \in Indexes(at.step) : k < at.row
  BY <1>1, RowNumbers DEF Indexes
<1> QED BY <1>1, <1>2 DEF WholeInv, ScriptInv, StepUnderWay, KeyKept, Complete

LEMMA SkippedIsComplete ==
    ASSUME WholeInv, SkipStep, at.step \notin Optional
    PROVE  Complete(at.step) \/ (at.step \in {11, 12} /\ "migration_repo" \in there)
<1>1. at.step \in Steps /\ at.row = 1
  BY AtTypes DEF WholeInv, ScriptInv, SkipStep, Skipped
<1>2. Script[at.step].only = {}
  BY <1>1, StepsAsTold DEF StepFacts, Optional
<1>3. PICK u \in there : u \in Script[at.step].unless
  BY <1>2 DEF SkipStep, Skipped, Now
<1>4. Key[at.step] # 0
  BY <1>1, <1>3, StepsAsTold DEF StepFacts
<1>5. CASE u = RowsOf(at.step)[Key[at.step]]
  <2>1. ~ (at.row > Key[at.step])
    BY <1>1, <1>4, KeyRow, RowNumbers
  <2> QED BY <1>1, <1>4, <1>5, <2>1 DEF WholeInv, KeyMeansRest
<1>6. CASE u # RowsOf(at.step)[Key[at.step]]
  <2>1. u \in {"bootstrap_repo", "migration_repo"}
    BY <1>1, <1>3, <1>4, <1>6, StepsAsTold DEF StepFacts
  <2>2. u = "migration_repo" /\ at.step \in {11, 12}
    BY <1>1, <1>3, <2>1, StepsAsTold DEF StepFacts, Optional
  <2> QED BY <2>2
<1> QED BY <1>5, <1>6

\* When the script leaves a step before its end, the step is not past its key.
LEMMA LeavesBeforeKey ==
    ASSUME WholeInv, ~ Torn, GiveUp \/ Fail, Key[at.step] # 0
    PROVE  ~ (at.row > Key[at.step])
<1>1. at.step \in Steps /\ at.row \in 1 .. 20 /\ Running /\ at.row \in Indexes(at.step)
  <2>1. Running /\ at.step \in Steps /\ at.row \in 1 .. 20 /\ at.row <= Size(at.step)
    BY AtTypes DEF WholeInv, ScriptInv, GiveUp, Fail, Now, RowsOf, Size
  <2> QED BY <2>1, RowNumbers DEF Indexes
<1>2. Key[at.step] \in 1 .. 19
  BY <1>1, KeyRow, RowNumbers
<1>3. CASE Fail
  <2>1. at.row = 1
    BY <1>3 DEF Fail
  <2> QED BY <1>2, <2>1
<1>4. CASE GiveUp
  <2>1. Possible
    <3> SUFFICES ASSUME ThisRow = "port" PROVE "main_subnet" \in there
      BY DEF Possible
    <3>1. at.step = 8
      <4>1. 8 \in Steps /\ 5 \in Indexes(8) /\ RowsOf(8)[5] = "port"
        BY NamedRows DEF Steps, Indexes
      <4>2. RowsOf(at.step)[at.row] = "port"
        BY DEF ThisRow, Now, RowsOf
      <4>3. "port" \notin Awaited
        BY DEF Awaited
      <4> QED BY <1>1, <4>1, <4>2, <4>3, OnePlace
    <3>2. 5 \in Steps \ Optional /\ at.step > 5 /\ 5 \notin {11, 12} /\ 2 \in Indexes(5)
      BY <3>1, NamedRows DEF Steps, Optional, Indexes
    <3> QED BY <3>2, NamedRows DEF WholeInv, PassedMeansComplete, Complete
  <2>2. RowsOf(at.step)[at.row] \in Awaited
    BY <1>4, <2>1, MadeRows DEF GiveUp, ThisRow, Now, RowsOf
  <2> QED BY <1>1, <2>2, StepsAsTold DEF StepFacts, RowFacts
<1> QED BY <1>3, <1>4

\* A move of the script that writes nothing: it leaves no step behind that is not complete.
LEMMA LeaveStep ==
    ASSUME WholeInv, ScriptInv', there' = there, keyInSpec' = TRUE,
           NEW n \in 0 .. 17, at' = [step |-> n, row |-> 1],
           at.step \in Steps /\ Key[at.step] # 0 /\ at.row > Key[at.step] => Complete(at.step),
           \/ n <= at.step \/ n = 1
           \/ /\ n = at.step + 1
              /\ \/ at.step \in Optional \/ Complete(at.step)
                 \/ (at.step \in {11, 12} /\ "migration_repo" \in there)
    PROVE  WholeInv'
<1>1. at'.step = n /\ at'.row = 1 /\ at.step \in 0 .. 17
  BY AtTypes DEF WholeInv, ScriptInv
<1>2. \A j \in Steps : Complete(j)' <=> Complete(j)
  BY DEF Complete
<1>3. KeyMeansRest'
  BY <1>2 DEF WholeInv, KeyMeansRest
<1>4. PassedMeansComplete'
  <2> SUFFICES ASSUME NEW j \in Steps \ Optional, n > j
               PROVE  Complete(j) \/ (j \in {11, 12} /\ "migration_repo" \in there)
    BY <1>1, <1>2 DEF PassedMeansComplete
  <2>1. CASE at.step > j
    BY <2>1 DEF WholeInv, PassedMeansComplete
  <2>2. CASE ~ (at.step > j)
    <3>1. j = at.step /\ ~ (n <= at.step) /\ n # 1
      BY <1>1, <2>2 DEF Steps, Optional
    <3> QED BY <3>1, Zenon
  <2> QED BY <2>1, <2>2
<1>5. MadeOfSomething' /\ KeyKept'
  BY DEF WholeInv, MadeOfSomething, KeyKept
<1> QED BY <1>3, <1>4, <1>5 DEF WholeInv

LEMMA RebootRestores ==
    ASSUME WholeInv, ~ Running \/ at.row = 1
    PROVE  Restored(there) = there
<1>1. \A j \in {2, 3, 10} : RowsOf(j)[1] \in there => Complete(j)
  <2> SUFFICES ASSUME NEW j \in {2, 3, 10}, RowsOf(j)[1] \in there PROVE Complete(j)
    OBVIOUS
  <2>1. j \in Steps /\ Key[j] = 1
    BY DEF Steps, Key
  <2>2. ~ (at.step = j /\ at.row > Key[j])
    BY <2>1, AtTypes DEF WholeInv, ScriptInv
  <2> QED BY <2>1, <2>2 DEF WholeInv, KeyMeansRest
<1>2. \A j \in {2, 3, 10} : \A k \in {2, 3} : RowsOf(j)[k] \in there => RowsOf(j)[1] \in there
  <2> SUFFICES ASSUME NEW j \in {2, 3, 10}, NEW k \in {2, 3}, RowsOf(j)[k] \in there
               PROVE  RowsOf(j)[1] \in there
    OBVIOUS
  <2>1. j \in Steps /\ 1 \in Indexes(j) /\ k \in Indexes(j) /\ 1 < k
    BY NamedRows DEF Steps, Indexes
  <2>2. RowsOf(j)[k] \notin Awaited
    BY NamedRows DEF Awaited
  <2> QED BY <2>1, <2>2 DEF WholeInv, ScriptInv, WrittenInOrder
<1>3. \A j \in {2, 3, 10} : \A k \in {2, 3} : k \in Indexes(j)
  BY NamedRows DEF Indexes
<1>4. \A j \in {2, 3, 10} : \A k \in {2, 3} : RowsOf(j)[1] \in there <=> RowsOf(j)[k] \in there
  BY <1>1, <1>2, <1>3 DEF Complete
<1>5. /\ "ua_config" \in there <=> "ua_copy" \in there
      /\ "ua_restarted" \in there <=> "ua_copy" \in there
      /\ "ca_config" \in there <=> "ca_copy" \in there
      /\ "ca_restarted" \in there <=> "ca_copy" \in there
      /\ "cors" \in there <=> "cors_copy" \in there
      /\ "api_restarted" \in there <=> "cors_copy" \in there
  <2>1. ("ua_config" \in there <=> "ua_copy" \in there)
        /\ ("ua_config" \in there <=> "ua_restarted" \in there)
    BY <1>4, NamedRows
  <2>2. ("ca_config" \in there <=> "ca_copy" \in there)
        /\ ("ca_config" \in there <=> "ca_restarted" \in there)
    BY <1>4, NamedRows
  <2>3. ("cors" \in there <=> "cors_copy" \in there)
        /\ ("cors" \in there <=> "api_restarted" \in there)
    BY <1>4, NamedRows
  <2> QED BY <2>1, <2>2, <2>3, Zenon
<1> QED BY <1>5 DEF Restored

LEMMA WholeInvInit == BootstrapInit => WholeInv
<1> SUFFICES ASSUME BootstrapInit PROVE WholeInv
  OBVIOUS
<1>1. there \subseteq {"em_element"} /\ at = [step |-> 0, row |-> 1] /\ keyInSpec = TRUE
  BY DEF BootstrapInit
<1>2. KeyMeansRest
  BY <1>1, KeyRow DEF KeyMeansRest, Awaited
<1>3. PassedMeansComplete
  BY <1>1 DEF PassedMeansComplete, Steps
<1>4. MadeOfSomething /\ KeyKept
  BY <1>1 DEF MadeOfSomething, KeyKept
<1> QED BY <1>2, <1>3, <1>4, ScriptInvInit DEF WholeInv

\* What is written or made besides disturbs nothing.
LEMMA MoreRows ==
    ASSUME WholeInv, there \subseteq there', NEW j \in Steps, Complete(j)
    PROVE  Complete(j)'
BY DEF Complete

LEMMA WholeInvWrite ==
    ASSUME WholeInv, ScriptInv', WriteRow
    PROVE  WholeInv'
<1>1. /\ at.step \in Steps /\ at.row \in Indexes(at.step)
      /\ at' = [step |-> at.step, row |-> at.row + 1]
      /\ ThisRow = RowsOf(at.step)[at.row] /\ ThisRow \notin Awaited
      /\ there' = there \union {ThisRow} /\ keyInSpec' = TRUE
  BY WriteRowEffect DEF WholeInv, KeyKept, WriteRow
<1>2. at'.step = at.step /\ at'.row = at.row + 1 /\ at.row \in 1 .. 19
  BY <1>1, RowNumbers
<1>3. KeyMeansRest'
  <2> SUFFICES ASSUME NEW j \in Steps, Key[j] # 0, RowsOf(j)[Key[j]] \in there'
               PROVE  Complete(j)' \/ (at'.step = j /\ at'.row > Key[j])
    BY DEF KeyMeansRest
  <2>1. CASE RowsOf(j)[Key[j]] \in there
    <3>1. CASE Complete(j)
      BY <1>1, <3>1, MoreRows
    <3>2. CASE at.step = j /\ at.row > Key[j]
      BY <1>2, <3>2, KeyRow, RowNumbers
    <3> QED BY <2>1, <3>1, <3>2 DEF WholeInv, KeyMeansRest
  <2>2. CASE RowsOf(j)[Key[j]] \notin there
    <3>1. RowsOf(j)[Key[j]] = RowsOf(at.step)[at.row]
      BY <1>1, <2>2
    <3>2. j = at.step /\ Key[j] = at.row
      BY <1>1, <3>1, KeyRow, OnePlace
    <3> QED BY <1>2, <3>2
  <2> QED BY <2>1, <2>2
<1>4. PassedMeansComplete'
  BY <1>1, <1>2, MoreRows DEF WholeInv, PassedMeansComplete
<1>5. MadeOfSomething' /\ KeyKept'
  <2>1. ThisRow # "other_key"
    BY <1>1, StepsAsTold DEF StepFacts, RowFacts
  <2> QED BY <1>1, <2>1 DEF WholeInv, MadeOfSomething, KeyKept
<1> QED BY <1>3, <1>4, <1>5 DEF WholeInv

LEMMA WholeInvProvide ==
    ASSUME WholeInv, ScriptInv', NEW x \in DOMAIN MadeOf, Provide(x)
    PROVE  WholeInv'
<1>1. /\ x \in Awaited /\ MadeOf[x] \in there /\ there' = there \union {x}
      /\ at' = at /\ keyInSpec' = keyInSpec
  BY MadeRows DEF Provide
<1>2. KeyMeansRest'
  BY <1>1, KeyRow, MoreRows DEF WholeInv, KeyMeansRest
<1>3. PassedMeansComplete'
  BY <1>1, MoreRows DEF WholeInv, PassedMeansComplete
<1>4. MadeOfSomething' /\ KeyKept'
  BY <1>1 DEF WholeInv, MadeOfSomething, KeyKept, Awaited
<1> QED BY <1>2, <1>3, <1>4 DEF WholeInv

LEMMA WholeInvTrouble ==
    ASSUME WholeInv, ScriptInv', ~ Torn, GiveUp \/ Fail
    PROVE  WholeInv'
<1>1. Running /\ GoBack /\ at.step \in Steps
  BY AtTypes DEF WholeInv, ScriptInv, GiveUp, Fail
<1>2. /\ there' = there
      /\ \/ at' = [step |-> at.step + 1, row |-> 1] /\ at.step \in {13, 14}
         \/ at' = [step |-> 5, row |-> 1] /\ at.step >= 5
         \/ at' = [step |-> 0, row |-> 1]
      /\ keyInSpec' = (keyInSpec /\ ThisRow # "pool")
  BY <1>1, GoBackEffect DEF WholeInv, ScriptInv
<1>3. ThisRow # "pool"
  BY MadeRows DEF GiveUp, Fail, Possible, Awaited
<1>4. PICK n \in 0 .. 17 :
        /\ at' = [step |-> n, row |-> 1]
        /\ n <= at.step \/ (n = at.step + 1 /\ at.step \in Optional)
  BY <1>1, <1>2 DEF Steps, Optional
<1>5. keyInSpec' = TRUE
  BY <1>2, <1>3 DEF WholeInv, KeyKept
<1> QED BY <1>2, <1>4, <1>5, LeavesBeforeKey, LeaveStep

LEMMA WholeInvMove ==
    ASSUME WholeInv, ScriptInv', Boot \/ SkipStep \/ EndStep
    PROVE  WholeInv'
<1>1. /\ at.step \in 0 .. 17 /\ at.row \in 1 .. 20 /\ (Running <=> at.step \in Steps)
      /\ there' = there /\ keyInSpec' = TRUE
  BY AtTypes DEF WholeInv, ScriptInv, KeyKept, Boot, SkipStep, EndStep
<1>2. CASE Boot
  <2>1. at.step \notin Steps /\ at' = [step |-> 1, row |-> 1]
    BY <1>2 DEF Boot, Steps
  <2> QED BY <1>1, <2>1, LeaveStep
<1>3. CASE SkipStep
  <2>1. at.step \in Steps /\ at.row = 1 /\ at' = [step |-> at.step + 1, row |-> 1]
    BY <1>1, <1>3 DEF SkipStep, Skipped, NextStep
  <2>2. Key[at.step] # 0 => ~ (at.row > Key[at.step])
    BY <2>1, KeyRow, RowNumbers
  <2>3. at.step + 1 \in 0 .. 17
    BY <2>1 DEF Steps
  <2> QED BY <1>1, <1>3, <2>1, <2>2, <2>3, SkippedIsComplete, LeaveStep
<1>4. CASE EndStep
  <2>1. at.step \in Steps /\ at' = [step |-> at.step + 1, row |-> 1]
    BY <1>1, <1>4 DEF EndStep, NextStep
  <2>2. at.step + 1 \in 0 .. 17
    BY <2>1 DEF Steps
  <2> QED BY <1>1, <1>4, <2>1, <2>2, EndedIsComplete, LeaveStep
<1> QED BY <1>2, <1>3, <1>4

LEMMA WholeInvStep ==
    ASSUME ~ Torn, WholeInv, [BootstrapNext]_bootVars
    PROVE  WholeInv'
<1>1. ScriptInv'
  BY ScriptInvStep DEF WholeInv
<1>2. CASE Boot \/ SkipStep \/ EndStep
  BY <1>1, <1>2, WholeInvMove
<1>3. CASE WriteRow
  BY <1>1, <1>3, WholeInvWrite
<1>4. CASE WaitForRow
  <2>1. there' = there /\ keyInSpec' = keyInSpec /\ at' = [step |-> at.step, row |-> at.row + 1]
        /\ at.step \in Steps /\ at.row \in 1 .. 20
    BY <1>4, AtTypes DEF WholeInv, ScriptInv, WaitForRow
  <2>2. at'.step = at.step /\ at'.row = at.row + 1
    BY <2>1
  <2>3. KeyMeansRest'
    <3> SUFFICES ASSUME NEW j \in Steps, Key[j] # 0, RowsOf(j)[Key[j]] \in there
                 PROVE  Complete(j)' \/ (at'.step = j /\ at'.row > Key[j])
      BY <2>1 DEF KeyMeansRest
    <3>1. Key[j] \in 1 .. 19
      BY KeyRow, RowNumbers
    <3> QED BY <2>1, <2>2, <3>1 DEF WholeInv, KeyMeansRest, Complete
  <2>4. PassedMeansComplete' /\ MadeOfSomething' /\ KeyKept'
    BY <2>1, <2>2 DEF WholeInv, PassedMeansComplete, MadeOfSomething, KeyKept, Complete
  <2> QED BY <1>1, <2>3, <2>4 DEF WholeInv
<1>5. CASE GiveUp \/ Fail
  BY <1>1, <1>5, WholeInvTrouble
<1>6. CASE Reboot
  <2>1. there' = there /\ at' = [step |-> 0, row |-> 1] /\ keyInSpec' = TRUE
        /\ (~ Running \/ at.row = 1)
    BY <1>6, RebootRestores DEF Reboot
  <2>2. at.step \in Steps /\ Key[at.step] # 0 => ~ (at.row > Key[at.step])
    BY <2>1, AtTypes, KeyRow, RowNumbers DEF WholeInv, ScriptInv
  <2>3. 0 <= at.step
    BY AtTypes DEF WholeInv, ScriptInv
  <2> QED BY <1>1, <2>1, <2>2, <2>3, LeaveStep
<1>7. ASSUME NEW x \in DOMAIN MadeOf, Provide(x) PROVE WholeInv'
  BY <1>1, <1>7, WholeInvProvide
<1>8. CASE UNCHANGED bootVars
  BY <1>1, <1>8 DEF bootVars, WholeInv, KeyMeansRest, PassedMeansComplete, MadeOfSomething,
     KeyKept, Complete
<1> QED BY <1>2, <1>3, <1>4, <1>5, <1>6, <1>7, <1>8 DEF BootstrapNext

\* Rows of the steps that not every stand goes through.
LEMMA OptionalRows ==
    /\ \A k \in Indexes(1) : RowsOf(1)[k] \in {"launchpad", "migration_repo", "migrated",
                                             "public_repo", "proxy_restarted"}
    /\ \A j \in {11, 12} : \A k \in Indexes(j) :
          RowsOf(j)[k] \in {"bootstrap_repo", "repo_active", "core_available", "core_requested",
                          "realm_available", "realm_requested"}
    /\ \A k \in Indexes(13) : RowsOf(13)[k] \in {"spec_repo", "spec_repo_active"}
    /\ \A k \in Indexes(14) : RowsOf(14)[k] \in {"idp_client", "idp"}
    /\ 1 \in Indexes(16) /\ RowsOf(16)[1] = "listed"
<1>1. RowsOf(1) = <<"launchpad", "migration_repo", "migrated", "public_repo", "proxy_restarted">>
  BY ScriptTable DEF MigrateToRepo, Step, RowsOf
<1>2. RowsOf(11) = <<"bootstrap_repo", "repo_active", "core_available", "core_requested">>
  BY ScriptTable DEF InstallCore, Step, RowsOf
<1>3. RowsOf(12) = <<"bootstrap_repo", "repo_active", "realm_available", "realm_requested">>
  BY ScriptTable DEF InstallRealm, Step, RowsOf
<1>4. RowsOf(13) = <<"spec_repo", "spec_repo_active">>
  BY ScriptTable DEF SpecRepositories, Step, RowsOf
<1>5. RowsOf(14) = <<"idp_client", "idp">>
  BY ScriptTable DEF EnsureIdps, Step, RowsOf
<1>6. RowsOf(16) = <<"listed", "requested">>
  BY ScriptTable DEF InstallFromSpec, Step, RowsOf
<1>7. \A k \in Indexes(1) : RowsOf(1)[k] \in {"launchpad", "migration_repo", "migrated",
                                            "public_repo", "proxy_restarted"}
  BY <1>1 DEF Indexes, Size
<1>8. \A k \in Indexes(11) :
        RowsOf(11)[k] \in {"bootstrap_repo", "repo_active", "core_available", "core_requested"}
  BY <1>2 DEF Indexes, Size
<1>9. \A k \in Indexes(12) :
        RowsOf(12)[k] \in {"bootstrap_repo", "repo_active", "realm_available", "realm_requested"}
  BY <1>3 DEF Indexes, Size
<1>10. \A k \in Indexes(13) : RowsOf(13)[k] \in {"spec_repo", "spec_repo_active"}
  BY <1>4 DEF Indexes, Size
<1>11. \A k \in Indexes(14) : RowsOf(14)[k] \in {"idp_client", "idp"}
  BY <1>5 DEF Indexes, Size
<1>12. 1 \in Indexes(16) /\ RowsOf(16)[1] = "listed"
  BY <1>6 DEF Indexes, Size
<1> QED BY <1>7, <1>8, <1>9, <1>10, <1>11, <1>12

LEMMA WholeInvMeans ==
    ASSUME WholeInv
    PROVE  ThroughMeansComplete
<1>1. "clash" \notin there
  BY DEF WholeInv, ScriptInv, NothingTwice
<1>2. ASSUME at.step = Done, NEW x \in Needed PROVE x \in there
  <2>0. PICK j \in Steps : \E k \in Indexes(j) : x = RowsOf(j)[k]
    <3>1. PICK s \in {Script[j] : j \in 1 .. Len(Script)} : x \in {s.rows[k] : k \in 1 .. Len(s.rows)}
      BY <1>2 DEF Needed, AllRows
    <3>2. PICK j \in 1 .. Len(Script) : s = Script[j]
      BY <3>1
    <3>3. PICK k \in 1 .. Len(s.rows) : x = s.rows[k]
      BY <3>1
    <3>4. j \in Steps /\ k \in Indexes(j) /\ x = RowsOf(j)[k]
      BY <3>2, <3>3, ScriptLength DEF Steps, Indexes, RowsOf, Size
    <3> QED BY <3>4
  <2>1. PICK k \in Indexes(j) : x = RowsOf(j)[k]
    BY <2>0
  <2>2. /\ x \notin {"idp", "idp_client"}
        /\ "migration_repo" \in there =>
              x \notin {"bootstrap_repo", "repo_active", "core_available", "core_requested",
                        "realm_available", "realm_requested"}
        /\ "migration_repo" \notin there =>
              x \notin {"launchpad", "migration_repo", "migrated", "public_repo",
                        "proxy_restarted"}
    BY <1>2 DEF Needed
  <2>3. \A i \in Steps \ Optional :
          Complete(i) \/ (i \in {11, 12} /\ "migration_repo" \in there)
    BY <1>2, ScriptLength DEF WholeInv, PassedMeansComplete, Steps
  <2>4. CASE j \notin Optional
    BY <2>1, <2>2, <2>3, <2>4, OptionalRows DEF Complete
  <2>5. CASE j = 1
    <3>1. "migration_repo" \in there
      BY <2>1, <2>2, <2>5, OptionalRows
    <3>2. Key[1] = 2 /\ at.step # 1 /\ 1 \in Steps
      BY <1>2, ScriptLength DEF Key, Steps
    <3>3. Complete(1)
      BY <3>1, <3>2, NamedRows DEF WholeInv, KeyMeansRest
    <3> QED BY <2>1, <2>5, <3>3 DEF Complete
  <2>6. CASE j = 13
    <3>1. Complete(16)
      BY <2>3 DEF Steps, Optional
    <3>2. "listed" \in there
      BY <3>1, OptionalRows DEF Complete
    <3>3. MadeOf["listed"] = "spec_repo_active" /\ MadeOf["spec_repo_active"] = "spec_repo"
      BY DEF MadeOf
    <3>4. "spec_repo_active" \in there /\ "spec_repo" \in there
      BY <3>2, <3>3 DEF WholeInv, MadeOfSomething, Awaited
    <3> QED BY <2>1, <2>6, <3>4, OptionalRows
  <2>7. CASE j = 14
    BY <2>1, <2>2, <2>7, OptionalRows
  <2> QED BY <2>4, <2>5, <2>6, <2>7 DEF Optional
<1> QED BY <1>1, <1>2 DEF ThroughMeansComplete

\* A bootstrap that got through has made everything a stand must have, and nothing twice,
\* for any number of errors, endless waits and reboots, if none comes between two writes of
\* one step (main, apply_flat_network, apply_startup_db, init_secrets, add_core_set).
THEOREM BootstrapCompletes == ~ Torn => (BootstrapSpec => []ThroughMeansComplete)
<1> SUFFICES ASSUME ~ Torn PROVE BootstrapSpec => []ThroughMeansComplete
  OBVIOUS
<1>1. WholeInv /\ [BootstrapNext]_bootVars => WholeInv'
  BY WholeInvStep
<1>2. WholeInv => ThroughMeansComplete
  BY WholeInvMeans
<1> QED BY WholeInvInit, <1>1, <1>2, PTL DEF BootstrapSpec
=============================================================================
