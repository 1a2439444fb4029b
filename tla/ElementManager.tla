--------------------------- MODULE ElementManager ---------------------------
(***************************************************************************)
(* Elements, their manifests and the loop that carries declared resources  *)
(* to target resources.  Workers of the user API install, upgrade and      *)
(* uninstall manifests; each request first loads the element engine, a     *)
(* copy of the rows, and writes on the strength of that copy.  The element *)
(* manager's iteration loads the engine as well, renders every resource    *)
(* and derives the statuses, in one transaction that fails as a whole.     *)
(*                                                                         *)
(* The rows of an element (resources, exports) are always the ones of the  *)
(* manifest in `installed'; only rows of imports can be lost, by cascades. *)
(* A rendered value is the manifest it comes from and the fact it links to *)
(* (an address, say), which only the report of the linked resource holds.  *)
(***************************************************************************)
EXTENDS Naturals, FiniteSets

CONSTANTS
    Elements, Manifests, Resources, Workers,
    Name,       \* element of a manifest
    Owner,      \* element of a resource
    Provider,   \* element whose namespace the kind of a resource comes from
    Declares,   \* resources of a manifest
    Exports,    \* exported resources of a manifest
    Imports,    \* imported resources of a manifest
    Requires,   \* manifests within the version bounds of the requirements
    Link,       \* resource a resource of a manifest links to, None without
    MaxFacts,   \* bound on the changes of reported facts
    MaxRequests,\* bound on the requests
    None

ASSUME ConstantsAssumption ==
    /\ Name \in [Manifests -> Elements]
    /\ Owner \in [Resources -> Elements] /\ Provider \in [Resources -> Elements]
    /\ Declares \in [Manifests -> SUBSET Resources]
    /\ Exports \in [Manifests -> SUBSET Resources]
    /\ Imports \in [Manifests -> SUBSET Resources]
    /\ Requires \in [Manifests -> SUBSET Manifests]
    /\ Link \in [Manifests -> [Resources -> Resources \cup {None}]]
    /\ MaxFacts \in Nat /\ MaxRequests \in Nat

(* Links go one level deep. *)
ASSUME LinkAssumption ==
    /\ \A m \in Manifests : \A r \in Declares[m] \cup Exports[m] : Owner[r] = Name[m]
    /\ \A m, k \in Manifests, r \in Resources :
          Link[m][r] # None => Link[k][Link[m][r]] = None

Values == [m : Manifests, fact : 0 .. MaxFacts \cup {None}]
Statuses == {"NEW", "IN_PROGRESS", "ACTIVE"}

ASSUME NoneAssumption ==
    None \notin Manifests /\ None \notin Resources /\ None \notin Values /\ None \notin Nat

VARIABLES
    installed, \* manifest of an element
    imports,   \* import rows <<element, resource>>
    estatus, status, \* status of elements and of resource rows
    linked,    \* resource rows with target_resource
    seen,      \* resource rows with actual_resource
    target,    \* target resources
    actual, fact, up, \* reports: value applied, fact observed, status ACTIVE
    req,       \* request of a worker and the engine it loaded
    em,        \* engine of the element manager's iteration
    requests

rows  == <<installed, imports, estatus, status, linked, seen, target>>
agent == <<actual, fact, up>>
vars  == <<rows, agent, req, em, requests>>

RowsOf(inst) == {r \in Resources : inst[Owner[r]] # None /\ r \in Declares[inst[Owner[r]]]}
ExportsOf(inst) == {r \in Resources : inst[Owner[r]] # None /\ r \in Exports[inst[Owner[r]]]}

Engine   == [installed |-> installed, imports |-> imports]
Engines  == [installed : [Elements -> Manifests \cup {None}],
             imports : SUBSET (Elements \X Resources)]
Iteration  == [installed |-> installed, imports |-> imports, linked |-> linked,
               seen |-> seen, fact |-> fact]
Iterations == [installed : [Elements -> Manifests \cup {None}],
               imports : SUBSET (Elements \X Resources),
               linked : SUBSET Resources, seen : SUBSET Resources,
               fact : [Resources -> 0 .. MaxFacts]]

Init ==
    /\ installed = [e \in Elements |-> None] /\ imports = {}
    /\ estatus = [e \in Elements |-> "NEW"] /\ status = [r \in Resources |-> "NEW"]
    /\ linked = {} /\ seen = {} /\ target = [r \in Resources |-> None]
    /\ actual = [r \in Resources |-> None] /\ fact = [r \in Resources |-> 0]
    /\ up = {}
    /\ req = [w \in Workers |-> None] /\ em = None /\ requests = 0

-----------------------------------------------------------------------------
(* Loading fails on an export of a resource that does not exist, and with  *)
(* it everything that loads.                                               *)

Loads == ExportsOf(installed) \subseteq RowsOf(installed)

StartRequest(w, op, m) ==
    /\ req[w] = None /\ requests < MaxRequests /\ Loads
    /\ CASE op = "install" -> installed[Name[m]] = None
         [] op = "upgrade" -> installed[Name[m]] # None
         [] op = "uninstall" -> installed[Name[m]] = m
    /\ req' = [req EXCEPT ![w] = [op |-> op, m |-> m, engine |-> Engine]]
    /\ requests' = requests + 1
    /\ UNCHANGED <<rows, agent, em>>

Present(g, e) == g.installed[e] # None

(* Imports are looked up among the exports of the engine, and prefixes of  *)
(* resources in its namespaces.                                            *)
Resolvable(g, m) ==
    /\ Imports[m] \subseteq ExportsOf(g.installed)
    /\ \A r \in Declares[m] : Provider[r] = Name[m] \/ Present(g, Provider[r])

ImportRows(m) == {Name[m]} \X Imports[m]

(* Rows of resources go with their target resources and, by cascade, with  *)
(* every import of them.                                                   *)
Drop(rs) ==
    /\ linked' = linked \ rs /\ seen' = seen \ rs
    /\ target' = [r \in Resources |-> IF r \in rs THEN None ELSE target[r]]
    /\ status' = [r \in Resources |-> IF r \in rs THEN "NEW" ELSE status[r]]

(* The unique name and the foreign keys decide against the current rows.   *)
InstallWrites(g, m) ==
    /\ Resolvable(g, m) /\ Exports[m] \subseteq Declares[m]
    /\ installed[Name[m]] = None /\ Imports[m] \subseteq RowsOf(installed)

Install(m) ==
    /\ installed' = [installed EXCEPT ![Name[m]] = m]
    /\ imports' = imports \cup ImportRows(m)
    /\ estatus' = [estatus EXCEPT ![Name[m]] = "NEW"]
    /\ UNCHANGED <<status, linked, seen, target>>

(* What the current rows have and the manifest does not is taken out of    *)
(* the engine, what it adds is put there: neither may contradict it.       *)
Follows(old, new, loaded) == (new \ old) \cap loaded = {} /\ old \ new \subseteq loaded

(* An export that exists is saved again without a look at its resource; a  *)
(* new one is looked up in the engine as it is by then.                    *)
UpgradeWrites(g, m) ==
    LET e   == Name[m]
        now == {r \in RowsOf(installed) : Owner[r] = e}
        was == {r \in RowsOf(g.installed) : Owner[r] = e}
    IN /\ Present(g, e) /\ installed[e] # None
       /\ Resolvable(g, m) /\ Imports[m] \subseteq RowsOf(installed)
       /\ Follows({i \in imports : i[1] = e}, ImportRows(m), g.imports)
       /\ Follows(now, Declares[m], was)
       /\ Follows(Exports[installed[e]], Exports[m], ExportsOf(g.installed))
       /\ Exports[m] \ Exports[installed[e]] \subseteq
             (was \ (now \ Declares[m])) \cup (Declares[m] \ now)
       /\ \A r \in now \ Declares[m] : Present(g, Provider[r])

Upgrade(m) ==
    LET gone == {r \in RowsOf(installed) : Owner[r] = Name[m]} \ Declares[m]
    IN /\ installed' = [installed EXCEPT ![Name[m]] = m]
       /\ imports' = {i \in imports : i[1] # Name[m] /\ i[2] \notin gone}
                     \cup {i \in ImportRows(m) : i[2] \notin gone}
       /\ estatus' = [estatus EXCEPT ![Name[m]] = "IN_PROGRESS"]
       /\ Drop(gone)

NoDependents(g, m) ==
    \A e \in Elements \ {Name[m]} : Present(g, e) => m \notin Requires[g.installed[e]]

UninstallWrites(g, m) ==
    /\ installed[Name[m]] = m /\ NoDependents(g, m) /\ Present(g, Name[m])
    /\ \A r \in Declares[m] : Present(g, Provider[r])

Uninstall(m) ==
    LET gone == {r \in Resources : Owner[r] = Name[m]}
    IN /\ installed' = [installed EXCEPT ![Name[m]] = None]
       /\ imports' = {i \in imports : i[1] # Name[m] /\ i[2] \notin gone}
       /\ estatus' = [estatus EXCEPT ![Name[m]] = "NEW"]
       /\ Drop(gone)

Writes(q) == CASE q.op = "install" -> InstallWrites(q.engine, q.m)
               [] q.op = "upgrade" -> UpgradeWrites(q.engine, q.m)
               [] q.op = "uninstall" -> UninstallWrites(q.engine, q.m)

FinishRequest(w) ==
    /\ req[w] # None /\ Writes(req[w])
    /\ CASE req[w].op = "install" -> Install(req[w].m)
         [] req[w].op = "upgrade" -> Upgrade(req[w].m)
         [] req[w].op = "uninstall" -> Uninstall(req[w].m)
    /\ req' = [req EXCEPT ![w] = None]
    /\ UNCHANGED <<agent, em, requests>>

(* The request raises and its transaction is rolled back. *)
RefuseRequest(w) ==
    /\ req[w] # None /\ ~Writes(req[w])
    /\ req' = [req EXCEPT ![w] = None]
    /\ UNCHANGED <<rows, agent, em, requests>>

-----------------------------------------------------------------------------
(* The iteration of the element manager. *)

LoadEngine ==
    /\ em = None /\ Loads
    /\ em' = Iteration
    /\ UNCHANGED <<rows, agent, req, requests>>

(* A link that is not in the namespace of the element raises. *)
Found(g, r) ==
    LET m == g.installed[Owner[r]]
        l == Link[m][r]
    IN \/ l = None
       \/ Owner[l] = Owner[r] /\ l \in RowsOf(g.installed)
       \/ <<Owner[r], l>> \in g.imports

(* A linked resource has a report in the engine if its row knew it, or was *)
(* given it earlier in this iteration: `done' are the rows that were.      *)
Waits(g, r, done) ==
    LET l == Link[g.installed[Owner[r]]][r]
    IN l # None /\ l \notin g.seen \cup done

(* Its report is the one loaded with the engine, or fetched in between.    *)
Known(g, l) == IF l \in g.seen THEN g.fact[l] ELSE fact[l]

Render(g, r) ==
    LET m == g.installed[Owner[r]]
        l == Link[m][r]
    IN [m |-> m, fact |-> IF l = None THEN None ELSE Known(g, l)]

Rendered(g, done) == {r \in RowsOf(g.installed) : ~Waits(g, r, done)}

(* Rows that a request has deleted since the engine was loaded. *)
NothingLost(g, done) == {}

Lost(g, done) ==
    {r \in Rendered(g, done) :
        r \notin RowsOf(installed) \/ (r \in g.linked /\ target[r] = None)}

(* Why an iteration is rolled back: a link or a provider that is not       *)
(* there, or a lost row that has to be written.                            *)
Raises(g, done) ==
    \/ \E r \in RowsOf(g.installed) : ~Found(g, r)
    \/ \E r \in Rendered(g, done) : ~Present(g, Provider[r])
    \/ \E r \in Lost(g, done) :
          r \notin g.linked \/ (r \notin g.seen /\ actual[r] # None)

Outdated == {r \in Resources : target[r] # None /\ r \notin RowsOf(installed)}

TargetOnce(g, r) == IF target[r] = None THEN Render(g, r) ELSE target[r]

TargetOf(g, r) ==
    IF target[r] # None /\ r \notin g.linked THEN target[r] ELSE Render(g, r)

StatusRaw(r, t) ==
    IF actual[r] = None THEN None
    ELSE IF r \in up /\ (t[r] = None \/ t[r] = actual[r]) THEN "ACTIVE"
    ELSE "IN_PROGRESS"

StatusOf(r, t) ==
    IF actual[r] = None THEN "NEW"
    ELSE IF r \in up /\ (t[r] = None \/ t[r] = actual[r]) THEN "ACTIVE"
    ELSE "IN_PROGRESS"

ElementStatus(e, st) ==
    LET all == {st[r] : r \in {x \in RowsOf(installed) : Owner[x] = e}}
    IN IF "IN_PROGRESS" \in all THEN "IN_PROGRESS"
       ELSE IF all \subseteq {"ACTIVE"} THEN "ACTIVE"
       ELSE IF all = {"NEW"} THEN "NEW"
       ELSE "IN_PROGRESS"

Done == SUBSET {r \in RowsOf(em.installed) : actual[r] # None}

Actualize ==
    /\ em # None
    /\ \E done \in Done :
         LET now == Rendered(em, done) \ Lost(em, done)
         IN /\ ~Raises(em, done)
            /\ target' = [r \in Resources |->
                  IF r \in now THEN TargetOf(em, r)
                  ELSE IF r \in Outdated THEN None ELSE target[r]]
            /\ linked' = linked \cup now
            /\ seen' = seen \cup {r \in now : actual[r] # None}
            /\ status' = [r \in Resources |->
                  IF r \in RowsOf(installed) THEN StatusOf(r, target')
                  ELSE status[r]]
            /\ estatus' = [e \in Elements |->
                  IF installed[e] # None THEN ElementStatus(e, status')
                  ELSE estatus[e]]
    /\ em' = None
    /\ UNCHANGED <<installed, imports, agent, req, requests>>

(* A lost row makes the iteration fail when any of its columns changed.    *)
RollBack ==
    /\ em # None
    /\ \E done \in Done : Raises(em, done) \/ Lost(em, done) # {}
    /\ em' = None
    /\ UNCHANGED <<rows, agent, req, requests>>

-----------------------------------------------------------------------------
(* The agents (external) apply target resources and report. *)

AgentApplies(r) ==
    /\ target[r] # None /\ actual[r] # target[r]
    /\ actual' = [actual EXCEPT ![r] = target[r]] /\ up' = up \ {r}
    /\ UNCHANGED <<rows, fact, req, em, requests>>

AgentReady(r) ==
    /\ actual[r] # None /\ r \notin up
    /\ up' = up \cup {r}
    /\ UNCHANGED <<rows, actual, fact, req, em, requests>>

AgentRemoves(r) ==
    /\ target[r] = None /\ actual[r] # None
    /\ actual' = [actual EXCEPT ![r] = None] /\ up' = up \ {r}
    /\ seen' = seen \ {r}
    /\ UNCHANGED <<installed, imports, estatus, status, linked, target, fact, req,
                   em, requests>>

Linked == {l \in Resources : \E m \in Manifests, r \in Resources : Link[m][r] = l}

FactChanges(r) ==
    /\ r \in Linked /\ actual[r] # None /\ fact[r] < MaxFacts
    /\ fact' = [fact EXCEPT ![r] = @ + 1]
    /\ UNCHANGED <<rows, actual, up, req, em, requests>>

-----------------------------------------------------------------------------
Requests ==
    \E w \in Workers :
        \/ \E op \in {"install", "upgrade", "uninstall"}, m \in Manifests :
               StartRequest(w, op, m)
        \/ FinishRequest(w) \/ RefuseRequest(w)

Manager == LoadEngine \/ Actualize \/ RollBack

Agents == \E r \in Resources :
              AgentApplies(r) \/ AgentReady(r) \/ AgentRemoves(r) \/ FactChanges(r)

Next == Requests \/ Manager \/ Agents

(* The loop never ends, workers answer and agents poll. *)
Fairness ==
    /\ WF_vars(Manager)
    /\ \A w \in Workers : WF_vars(FinishRequest(w) \/ RefuseRequest(w))
    /\ \A r \in Resources : WF_vars(AgentApplies(r) \/ AgentReady(r) \/ AgentRemoves(r))

Spec == Init /\ [][Next]_vars
FairSpec == Spec /\ Fairness
-----------------------------------------------------------------------------
(* Properties. *)

(* Rows, reports, requests and engines stay well formed; a status derived  *)
(* from missing reports is NEW and never empty.                            *)
TypeOK ==
    /\ installed \in [Elements -> Manifests \cup {None}]
    /\ imports \subseteq Elements \X Resources
    /\ estatus \in [Elements -> Statuses] /\ status \in [Resources -> Statuses]
    /\ linked \subseteq Resources /\ seen \subseteq Resources
    /\ target \in [Resources -> Values \cup {None}]
    /\ actual \in [Resources -> Values \cup {None}]
    /\ fact \in [Resources -> 0 .. MaxFacts] /\ up \subseteq Resources
    /\ req \in [Workers -> [op : {"install", "upgrade", "uninstall"}, m : Manifests,
                            engine : Engines] \cup {None}]
    /\ em \in Iterations \cup {None}
    /\ requests \in 0 .. MaxRequests

(* Whatever requests, rolled back iterations and cascades do to each other:*)
(* an import row belongs to an installed element and leads to a resource   *)
(* row, so that _load_imports finds both in the engine, and a resource row *)
(* that has a target_resource has it in the table of target resources.     *)
RowsConsistent ==
    /\ \A i \in imports : installed[i[1]] # None /\ i[2] \in RowsOf(installed)
    /\ linked \cup seen \subseteq RowsOf(installed)
    /\ \A r \in linked : target[r] # None

(* An element that others declare in their requirements is not removed     *)
(* (docs/em/manifest.md, Uninstall).                                       *)
RequiredStays ==
    [][\A a, b \in Elements :
         (/\ installed[a] # None /\ a # b
          /\ installed[b] # None /\ installed[b] \in Requires[installed[a]])
         => installed'[b] # None]_vars

(* An installed element has all rows of its imports, as long as its        *)
(* manifest requires what it imports from and upgrades keep resources.     *)
ImportsComplete ==
    \A e \in Elements : installed[e] # None =>
        {e} \X Imports[installed[e]] \subseteq imports

(* What a resource row asks for right now. *)
Desired(r) == [m |-> installed[Owner[r]],
               fact |-> LET l == Link[installed[Owner[r]]][r]
                        IN IF l = None THEN None ELSE fact[l]]

Reconciled(e) ==
    installed[e] # None =>
        /\ estatus[e] = "ACTIVE"
        /\ \A r \in RowsOf(installed) : Owner[r] = e =>
              target[r] = Desired(r) /\ actual[r] = target[r]

(* Once requests and facts have settled every installed element is ACTIVE  *)
(* with the current facts in its target resources and on the nodes, and    *)
(* nothing is left of resources that are no longer declared.               *)
Converges ==
    /\ \A e \in Elements : <>[]Reconciled(e)
    /\ \A r \in Resources : <>[](r \in RowsOf(installed) \/ actual[r] = None)
=============================================================================
