------------------------------- MODULE Secrets -------------------------------
(***************************************************************************)
(* Secrets, passwords and certificates: the row that the API writes, the   *)
(* target resource that a builder cuts out of it                           *)
(* (secret/builders/service.py), the store of the agent                    *)
(* (agent/universal/drivers/secret), and the report that comes back. A     *)
(* behaviour follows one row. Generated values are numbers, those that a   *)
(* client gives are members of Given.                                      *)
(***************************************************************************)
EXTENDS Integers

CONSTANTS
    Nil,
    Given,          \* values that clients give
    MaxWrites,      \* bound: requests after the first
    MaxTicks,       \* bound: times a certificate comes near its end
    MaxLost,        \* bound: agents that die between an order and the store
    Careless        \* do requests come in the midst of a builder's iteration, and do they
                    \* edit a row that has not settled?

ASSUME SecretsAssumption ==
    /\ MaxWrites \in Nat /\ MaxTicks \in Nat /\ MaxLost \in Nat /\ Careless \in BOOLEAN
    /\ Nil \notin Given

VARIABLES
    kind,       \* "secret", "password" or "certificate"
    row,        \* row of the secret: target fields, value, default, status
    asked,      \* the row as clients asked for it
    target,     \* target resource: the fields that count, and the value if it is given
    store,      \* what the agent keeps
    report,     \* what the agent has reported
    stage,      \* pass of the builder's iteration
    count       \* bounds: requests, ticks, lost orders, values made, and reasons for them

secretVars == <<kind, row, asked, target, store, report, stage, count>>

MaxValues == 1 + MaxWrites + MaxTicks + MaxLost

Value == Given \union 1 .. MaxValues \union {Nil}

\* method; length or domains; name and description
Fields == [manual : BOOLEAN, shape : {1, 2}, label : {1, 2}]

Kept == [fields : Fields, value : Value, due : BOOLEAN] \union {Nil}

Rows ==
    [fields : Fields, value : Value, default : Given \union {Nil}, status : {"NEW", "ACTIVE"},
     changed : BOOLEAN]

\* No row, no target and nothing kept are told from those there are.
ASSUME NilAssumption ==
    Nil \notin Rows \union [fields : Fields, value : Value]
                  \union [fields : Fields, value : Value, due : BOOLEAN]

SecretsTypeOK ==
    /\ kind \in {"secret", "password", "certificate"}
    /\ row \in Rows \union {Nil}
    /\ asked \in Rows
    /\ target \in [fields : Fields, value : Value] \union {Nil}
    /\ store \in Kept
    /\ report \in [of : Kept, news : BOOLEAN]
    /\ stage \in {"changed", "outdated", "deleted"}
    /\ count \in [writes : 0 .. MaxWrites, ticks : 0 .. MaxTicks, lost : 0 .. MaxLost,
                  made : 0 .. MaxValues, reasons : 1 .. 1 + MaxWrites + MaxTicks]

-----------------------------------------------------------------------------
\* Rows and requests.

\* The API takes a value for a secret, and for the manual method; the manual method needs
\* one (_validate_certificate, and create of a password in the store).
Acceptable(r) ==
    /\ kind = "secret" => r.fields.manual /\ r.fields.shape = 1
    /\ r.default # Nil => kind = "secret"
    /\ kind # "secret" => (r.fields.manual <=> r.value \in Given)

Requests ==
    [fields : Fields, value : Given \union {Nil}, default : Given \union {Nil},
     status : {"NEW"}, changed : {TRUE}]

SecretsInit ==
    /\ kind \in {"secret", "password", "certificate"}
    /\ row \in {r \in Requests : Acceptable(r) /\ r.fields.label = 1}
    /\ asked = row
    /\ target = Nil /\ store = Nil /\ report = [of |-> Nil, news |-> FALSE]
    /\ stage = "changed"
    /\ count = [writes |-> 0, ticks |-> 0, lost |-> 0, made |-> 0, reasons |-> 1]

\* The agent keeps what the target says, a certificate that is not near its end included.
Matches ==
    /\ target # Nil /\ store # Nil
    /\ store.fields = target.fields
    /\ target.fields.manual => store.value = target.value
    /\ ~ store.due

Settled == row # Nil /\ ~ row.changed /\ Matches /\ ~ report.news

Between == Careless \/ stage = "changed"

\* A request that changes how a value is made is a reason for another value. A row whose
\* method is automatic goes on showing its value.
UpdateRow ==
    /\ row # Nil /\ count.writes < MaxWrites /\ Between
    /\ \E r \in Requests :
          /\ Acceptable(r)
          /\ asked' = r
          /\ row' = IF r.fields.manual THEN r ELSE [r EXCEPT !.value = row.value]
          /\ count' = [count EXCEPT
                         !.writes = @ + 1,
                         !.reasons = @ + IF [r.fields EXCEPT !.label = 1]
                                             = [asked.fields EXCEPT !.label = 1] THEN 0 ELSE 1]
    /\ UNCHANGED <<kind, target, store, report, stage>>

\* A request for a name or a description leaves the rest of the row as it is.
Rename ==
    /\ row # Nil /\ count.writes < MaxWrites /\ Between
    /\ Careless \/ Settled
    /\ LET new(r) == [r EXCEPT !.fields.label = 3 - @, !.status = "NEW", !.changed = TRUE]
       IN  row' = new(row) /\ asked' = new(asked)
    /\ count' = [count EXCEPT !.writes = @ + 1]
    /\ UNCHANGED <<kind, target, store, report, stage>>

DeleteRow ==
    /\ row # Nil /\ count.writes < MaxWrites /\ Between
    /\ row' = Nil
    /\ count' = [count EXCEPT !.writes = @ + 1]
    /\ UNCHANGED <<kind, asked, target, store, report, stage>>

-----------------------------------------------------------------------------
\* Builders. New and updated rows, then reports, then rows that have gone.

\* The value in effect: the explicit one, or the default behind it.
EffectiveValue(r) == IF r.value # Nil THEN r.value ELSE r.default

\* Only a given value is a target field.
TargetOf(r) ==
    [fields |-> r.fields, value |-> IF r.fields.manual THEN EffectiveValue(r) ELSE Nil]

Ready(r) == kind = "secret" => EffectiveValue(r) # Nil

WithdrawNot == target

\* A secret that has lost its value takes its target resource with it
\* (SecretBuilder.can_update_instance_resource).
Withdraw == Nil

\* A target that was written again differs from any report, if only in the status of the
\* row, and so makes the last one news.
BuildTarget ==
    /\ stage = "changed" /\ stage' = "outdated"
    /\ IF row # Nil /\ (row.changed \/ target = Nil)
       THEN IF Ready(row)
            THEN /\ target' = TargetOf(row)
                 /\ row' = [row EXCEPT !.changed = FALSE]
                 /\ report' = [report EXCEPT !.news = report.of # Nil]
            ELSE target' = Withdraw /\ UNCHANGED <<row, report>>
       ELSE UNCHANGED <<target, row, report>>
    /\ UNCHANGED <<kind, asked, store, count>>

\* What a report changes in a row: the status; the value of a password, and of a
\* certificate that was not imported; the domains of the latter
\* (actualize_outdated_instance of the builders).
Actualized(r, seen) ==
    [r EXCEPT !.status = "ACTIVE",
              !.changed = FALSE,
              !.value = IF kind = "secret" \/ (kind = "certificate" /\ r.fields.manual)
                        THEN @ ELSE seen.value,
              !.fields.shape = IF kind = "certificate" /\ ~ r.fields.manual
                               THEN seen.fields.shape ELSE @]

Actualize ==
    /\ stage = "outdated" /\ stage' = "deleted"
    /\ IF row # Nil /\ target # Nil /\ report.news
       THEN /\ row' = IF report.of = Nil THEN row ELSE Actualized(row, report.of)
            /\ report' = [report EXCEPT !.news = FALSE]
       ELSE UNCHANGED <<row, report>>
    /\ UNCHANGED <<kind, asked, target, store, count>>

Cleanup ==
    /\ stage = "deleted" /\ stage' = "changed"
    /\ target' = IF row = Nil THEN Nil ELSE target
    /\ UNCHANGED <<kind, row, asked, store, report, count>>

-----------------------------------------------------------------------------
\* The agent.

RegeneratesAlways == ~ target.fields.manual

\* Is another value needed? For a password its method or length must have changed; for a
\* certificate its method or its domains, or it is near its end.
Regenerates ==
    /\ ~ target.fields.manual
    /\ store # Nil => \/ store.fields.manual
                      \/ store.fields.shape # target.fields.shape
                      \/ store.due

\* What the agent keeps, it reports. The status is always ACTIVE.
Keep(s) ==
    /\ store' = s
    /\ report' = IF s = report.of THEN report ELSE [of |-> s, news |-> TRUE]

\* create and update of the backend clients.
Sync ==
    /\ target # Nil /\ ~ Matches
    /\ LET value == IF target.fields.manual THEN target.value
                    ELSE IF Regenerates THEN count.made + 1
                    ELSE store.value
       IN  Keep([fields |-> target.fields, value |-> value, due |-> FALSE])
    /\ count' = IF Regenerates THEN [count EXCEPT !.made = @ + 1] ELSE count
    /\ UNCHANGED <<kind, row, asked, target, stage>>

\* The agent dies after a certificate was issued and before it is stored.
Lose ==
    /\ target # Nil /\ ~ Matches
    /\ kind = "certificate" /\ Regenerates /\ count.lost < MaxLost
    /\ count' = [count EXCEPT !.lost = @ + 1, !.made = @ + 1]
    /\ UNCHANGED <<kind, row, asked, target, store, report, stage>>

Remove ==
    /\ target = Nil /\ store # Nil
    /\ Keep(Nil)
    /\ UNCHANGED <<kind, row, asked, target, stage, count>>

\* A certificate comes near its end (is_under_threshold).
Tick ==
    /\ kind = "certificate" /\ count.ticks < MaxTicks
    /\ store # Nil /\ ~ store.fields.manual /\ ~ store.due
    /\ Keep([store EXCEPT !.due = TRUE])
    /\ count' = [count EXCEPT !.ticks = @ + 1, !.reasons = @ + 1]
    /\ UNCHANGED <<kind, row, asked, target, stage>>

SecretsNext ==
    \/ UpdateRow \/ Rename \/ DeleteRow
    \/ BuildTarget \/ Actualize \/ Cleanup
    \/ Sync \/ Lose \/ Remove \/ Tick

\* Builders and agents run for ever, and an order succeeds in the end.
SecretsFairness ==
    /\ WF_secretVars(BuildTarget \/ Actualize \/ Cleanup)
    /\ SF_secretVars(Sync) /\ SF_secretVars(Remove)

SecretsSpec == SecretsInit /\ [][SecretsNext]_secretVars /\ SecretsFairness

-----------------------------------------------------------------------------
\* A value is generated for a reason: the first time, or because a request changed how it
\* is made, or because a certificate was near its end. Editing a name, a report, or a crash
\* after an order never costs the consumers of a secret another value (update of the
\* password and certificate clients).
NewValueForAReason == count.made <= count.reasons + count.lost

\* In the end the agent keeps what clients asked for last and the row shows it, though a
\* late report of an earlier value may have been written over it meanwhile; a secret
\* without a value is kept nowhere and is NEW; and no certificate is near its end
\* (SecretBuilder, PasswordBuilder, CertificateBuilder, and update of the clients).
SecretsConverge ==
    <>[](IF row = Nil \/ (kind = "secret" /\ EffectiveValue(asked) = Nil)
         THEN /\ target = Nil /\ store = Nil
              /\ row # Nil => row.status = "NEW"
         ELSE /\ store # Nil /\ store.fields = asked.fields /\ ~ store.due
              /\ asked.fields.manual => store.value = EffectiveValue(asked)
              /\ row.fields = asked.fields /\ EffectiveValue(row) = store.value
              /\ row.status = "ACTIVE")
=============================================================================
