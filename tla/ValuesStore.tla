----------------------------- MODULE ValuesStore -----------------------------
(***************************************************************************)
(* The values store (vs/dm/models.py, vs/builders/service.py): a variable  *)
(* that shows one of its values, the one a client has selected or the      *)
(* latest, and a variable that shows what it has for the active profile.   *)
(* Requests load rows and write them later, two at a time; whatever they   *)
(* write, they touch the variable, and the builder sets it anew.           *)
(***************************************************************************)
EXTENDS Integers, FiniteSets

CONSTANTS
    Nothing,
    ValueIds,       \* values of the first variable
    Profiles,       \* global profiles
    InSetter,       \* those the second variable has a value for
    Clients,        \* workers of the user API
    MaxEdits,       \* bound: requests
    Overlapping     \* do requests overlap an iteration of the builder, or activations
                    \* of profiles one another?

ASSUME ValuesAssumption ==
    /\ MaxEdits \in Nat /\ Overlapping \in BOOLEAN
    /\ InSetter \subseteq Profiles /\ Nothing \notin ValueIds \union Profiles

VARIABLES
    value,      \* rows of vs_values
    existing,   \* rows of vs_profiles
    active,     \* active global profiles
    variable,   \* rows of vs_variables, by setter
    call,       \* requests that have loaded their rows
    reading,    \* setter of the variable that the builder sets, and what it has found
    edits       \* requests so far

valuesVars == <<value, existing, active, variable, call, reading, edits>>

\* seq: created_at. content: the value itself, a number of its own for every edit.
ValueRows == [seq : 1 .. MaxEdits, content : 1 .. MaxEdits, manual : BOOLEAN]

\* changed: updated since the builder has tracked it.
VariableRows(shown) ==
    [shown : shown \union {Nothing}, status : {"NEW", "IN_PROGRESS", "ACTIVE"}, changed : BOOLEAN]

Setters == {"selector", "profile"}

ValuesTypeOK ==
    /\ value \in [ValueIds -> ValueRows \union {Nothing}]
    /\ active \subseteq existing /\ existing \subseteq Profiles
    /\ variable \in [selector : VariableRows(1 .. MaxEdits), profile : VariableRows(Profiles)]
    /\ call \in [Clients -> [op : {"select", "release", "activate"},
                             id : ValueIds \union Profiles \union {Nothing},
                             seen : [ValueIds -> ValueRows \union {Nothing}],
                             was : SUBSET Profiles] \union {Nothing}]
    /\ reading \in [setter : Setters, found : 1 .. MaxEdits \union Profiles \union {Nothing},
                    keep : BOOLEAN] \union {Nothing}
    /\ edits \in 0 .. MaxEdits

ValuesInit ==
    /\ value = [x \in ValueIds |-> Nothing]
    /\ existing = InSetter /\ active = {}
    /\ variable = [s \in Setters |-> [shown |-> Nothing, status |-> "NEW", changed |-> TRUE]]
    /\ call = [c \in Clients |-> Nothing]
    /\ reading = Nothing
    /\ edits = 0

-----------------------------------------------------------------------------
\* Requests.

Requested ==
    /\ edits < MaxEdits /\ edits' = edits + 1
    /\ Overlapping \/ reading = Nothing

Touch(s) == variable' = [variable EXCEPT ![s].changed = TRUE]

AddValue(x) ==
    /\ Requested
    /\ value[x] = Nothing
    /\ value' = [value EXCEPT ![x] = [seq |-> edits + 1, content |-> edits + 1, manual |-> FALSE]]
    /\ Touch("selector")
    /\ UNCHANGED <<existing, active, call, reading>>

EditValue(x) ==
    /\ Requested
    /\ value[x] # Nothing
    /\ value' = [value EXCEPT ![x].content = edits + 1]
    /\ Touch("selector")
    /\ UNCHANGED <<existing, active, call, reading>>

TouchNot(s) == UNCHANGED variable

\* The variable of a value that has gone is told, too.
TouchDeleted(s) == Touch(s)

DeleteValue(x) ==
    /\ Requested
    /\ value[x] # Nothing
    /\ value' = [value EXCEPT ![x] = Nothing]
    /\ TouchDeleted("selector")
    /\ UNCHANGED <<existing, active, call, reading>>

CreateProfile(p) ==
    /\ Requested
    /\ p \notin existing
    /\ existing' = existing \union {p}
    /\ UNCHANGED <<value, active, variable, call, reading>>

\* A profile that a variable lists is in use.
DeleteProfile(p) ==
    /\ Requested
    /\ p \in existing \ InSetter
    /\ existing' = existing \ {p} /\ active' = active \ {p}
    /\ UNCHANGED <<value, variable, call, reading>>

\* What the request has loaded.
Begin(c, op, id) ==
    /\ Requested
    /\ call[c] = Nothing
    /\ call' = [call EXCEPT ![c] = [op |-> op, id |-> id, seen |-> value, was |-> active]]
    /\ UNCHANGED <<value, existing, active, variable, reading>>

BeginSelect(c, x) == value[x] # Nothing /\ ~ value[x].manual /\ Begin(c, "select", x)

BeginRelease(c) ==
    /\ \E x \in ValueIds : value[x] # Nothing /\ value[x].manual
    /\ Begin(c, "release", Nothing)

BeginActivate(c, p) ==
    /\ p \in existing \ active
    /\ Overlapping \/ \A d \in Clients : call[d] # Nothing => call[d].op # "activate"
    /\ Begin(c, "activate", p)

\* Of a loaded value `manual_selected` is written if it was set, and its content always.
Deselected(c) ==
    [x \in ValueIds |->
        IF call[c].seen[x] = Nothing \/ value[x] = Nothing THEN value[x]
        ELSE [value[x] EXCEPT !.content = call[c].seen[x].content,
                              !.manual = @ /\ ~ call[c].seen[x].manual]]

Reselected(c) ==
    IF call[c].op = "release" THEN Deselected(c)
    ELSE [Deselected(c) EXCEPT ![call[c].id].manual = TRUE]

\* At most one value of a variable is selected: the unique index of the table.
Unique(rows) ==
    Cardinality({x \in ValueIds : rows[x] # Nothing /\ rows[x].manual}) <= 1

\* A row that has gone, or a clash with another selection, undoes the request.
FinishSelect(c) ==
    /\ call[c] # Nothing /\ call[c].op \in {"select", "release"}
    /\ Overlapping \/ reading = Nothing
    /\ IF (\E x \in ValueIds : call[c].seen[x] # Nothing /\ value[x] = Nothing) \/ ~ Unique(Reselected(c))
       THEN UNCHANGED <<value, variable>>
       ELSE value' = Reselected(c) /\ Touch("selector")
    /\ call' = [call EXCEPT ![c] = Nothing]
    /\ UNCHANGED <<existing, active, reading, edits>>

\* A variable tracks the profiles that it lists; a profile that has gone undoes the request.
FinishActivate(c) ==
    /\ call[c] # Nothing /\ call[c].op = "activate"
    /\ Overlapping \/ reading = Nothing
    /\ LET written == call[c].was \union {call[c].id} IN
       IF written \subseteq existing
       THEN /\ active' = (active \ call[c].was) \union {call[c].id}
            /\ IF written \intersect InSetter # {} THEN Touch("profile") ELSE UNCHANGED variable
       ELSE UNCHANGED <<active, variable>>
    /\ call' = [call EXCEPT ![c] = Nothing]
    /\ UNCHANGED <<value, existing, reading, edits>>

-----------------------------------------------------------------------------
\* The builder.

Stored == {x \in ValueIds : value[x] # Nothing}

\* SelectorVariableSetter: the selected value, or the latest.
SelectorValue ==
    LET manual == {x \in Stored : value[x].manual}
        from   == IF manual = {} THEN Stored ELSE manual
    IN  IF from = {} THEN Nothing
        ELSE value[CHOOSE x \in from : \A y \in from : value[y].seq <= value[x].seq].content

\* ProfileVariableSetter: there must be one active profile; if it is not listed, what the
\* variable shows is kept.
Found(s) ==
    IF s = "selector" THEN [setter |-> s, found |-> SelectorValue, keep |-> FALSE]
    ELSE LET p == CHOOSE p \in active : TRUE
         IN  [setter |-> s, found |-> IF p \in InSetter THEN p ELSE Nothing, keep |-> p \notin InSetter]

Settable(s) == variable[s].changed /\ (s = "profile" => Cardinality(active) = 1)

ReadSetter(s) ==
    /\ reading = Nothing /\ Settable(s)
    /\ reading' = Found(s)
    /\ UNCHANGED <<value, existing, active, variable, call, edits>>

\* An iteration that has nothing to set, or raises as there is no one active profile.
IdleIteration ==
    /\ reading = Nothing /\ \A s \in Setters : ~ Settable(s)
    /\ UNCHANGED valuesVars

\* A variable without a value waits for one.
SetValue ==
    /\ reading # Nothing
    /\ variable' = [variable EXCEPT ![reading.setter] =
          [shown |-> IF reading.keep THEN @.shown ELSE reading.found,
           status |-> IF reading.keep \/ reading.found # Nothing THEN "ACTIVE" ELSE "IN_PROGRESS",
           changed |-> FALSE]]
    /\ reading' = Nothing
    /\ UNCHANGED <<value, existing, active, call, edits>>

Finish(c) == FinishSelect(c) \/ FinishActivate(c)

VsBuilder == SetValue \/ \E s \in Setters : ReadSetter(s)

ValuesNext ==
    \/ \E x \in ValueIds : AddValue(x) \/ EditValue(x) \/ DeleteValue(x)
    \/ \E c \in Clients, x \in ValueIds : BeginSelect(c, x)
    \/ \E p \in Profiles : CreateProfile(p) \/ DeleteProfile(p)
    \/ \E c \in Clients, p \in Profiles : BeginActivate(c, p)
    \/ \E c \in Clients : BeginRelease(c) \/ FinishSelect(c) \/ FinishActivate(c)
    \/ SetValue \/ IdleIteration
    \/ \E s \in Setters : ReadSetter(s)

\* Requests end, and the builder runs for ever.
ValuesFairness == WF_valuesVars(\E c \in Clients : Finish(c)) /\ WF_valuesVars(VsBuilder)

ValuesSpec == ValuesInit /\ [][ValuesNext]_valuesVars /\ ValuesFairness

-----------------------------------------------------------------------------
\* In the end a variable shows the value that is selected, or the latest, and none if there
\* is none, and the other one what it has for the active profile, whoever has selected,
\* released, edited or deleted values meanwhile; and no two values are selected
\* (VSBuilderService, Value.select_me, Variable.release_value, Profile.activate).
VariablesSettle ==
    <>[](/\ variable["selector"].shown = SelectorValue
         /\ variable["selector"].status = (IF SelectorValue = Nothing THEN "IN_PROGRESS" ELSE "ACTIVE")
         /\ \A p \in active \intersect InSetter :
               variable["profile"].shown = p /\ variable["profile"].status = "ACTIVE"
         /\ Unique(value) /\ Cardinality(active) <= 1)
=============================================================================
