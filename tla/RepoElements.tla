---------------------------- MODULE RepoElements ----------------------------
(***************************************************************************)
(* Installing, upgrading and uninstalling elements of a repository:        *)
(* requests (repo/dm/models.py), the builder that resolves dependencies,   *)
(* binds them and derives manifests (repo/builders/element.py), and the    *)
(* agent that installs manifests with the element manager                  *)
(* (repo/agents/universal/drivers/repo_element.py).                        *)
(*                                                                         *)
(* An element of the repository is a name and a version. A version is a    *)
(* number, a requirement a name with a range of versions.                  *)
(***************************************************************************)
EXTENDS Integers, FiniteSets

CONSTANTS
    None,
    Keys,           \* elements: records of name and version
    Requires,       \* their requirements: sets of [name, from, to]
    MaxRequests,    \* bound: requests to the API
    Careful         \* do clients wait until upgrades and removals have ended?

Names == {k.name : k \in Keys}

ASSUME RepoElementsAssumption ==
    /\ Keys \subseteq [name : Names, version : Nat] /\ IsFiniteSet(Keys)
    /\ Requires \in [Keys -> SUBSET [name : Names, from : Nat, to : Nat]]
    /\ MaxRequests \in Nat /\ Careful \in BOOLEAN

VARIABLES
    row,        \* rows of repo_elements
    bind,       \* rows of repo_element_deps_bindings: element, depends_on
    target,     \* elements with an InstalledManifest as target resource
    em,         \* element manager: manifests, and the manifest of a running element
    builder,    \* iteration of the builder, and the tables before it
    asked       \* requests so far

repoVars == <<row, bind, target, em, builder, asked>>

Reports == [linked : BOOLEAN] \union {None}

\* element: does the row refer to the running element? fresh: not yet registered by the
\* builder. changed: not yet handled by it. synced: the report it has handled.
Rows == [installed : BOOLEAN, element : BOOLEAN, fresh : BOOLEAN, changed : BOOLEAN,
         status : {"NEW", "AVAILABLE", "IN_PROGRESS", "ACTIVE", "ERROR"}, synced : Reports]

\* Dependencies of dependencies included.
Bindings == Keys \X Keys

Tables == [row : [Keys -> Rows \union {None}], bind : SUBSET Bindings, target : SUBSET Keys]

ASSUME NoneAssumption == None \notin Keys \union Rows \union [linked : BOOLEAN] \union Tables

RepoElementsTypeOK ==
    /\ row \in [Keys -> Rows \union {None}]
    /\ bind \subseteq Bindings
    /\ target \subseteq Keys
    /\ em \in [manifests : SUBSET Keys, run : [Names -> Keys \union {None}]]
    /\ builder \in [phase : {"idle", "update", "outdated"}, todo : SUBSET Keys,
                    before : Tables \union {None}]
    /\ asked \in 0 .. MaxRequests

\* As the repository builder has saved them.
RepoElementsInit ==
    /\ row = [k \in Keys |-> [installed |-> FALSE, element |-> FALSE, fresh |-> TRUE,
                              changed |-> TRUE, status |-> "NEW", synced |-> None]]
    /\ bind = {} /\ target = {}
    /\ em = [manifests |-> {}, run |-> [n \in Names |-> None]]
    /\ builder = [phase |-> "idle", todo |-> {}, before |-> None]
    /\ asked = 0

Present == {k \in Keys : row[k] # None}

Installed(n) == {k \in Present : k.name = n /\ row[k].installed}

\* Versions that wait to be released after an upgrade.
Released(n) == {k \in Present : k.name = n /\ ~ row[k].installed /\ row[k].element}

\* What the agent reports at the end of its iterations: manifests, and whether they are
\* those of running elements.
Listed ==
    [k \in Keys |-> IF k \in em.manifests THEN [linked |-> em.run[k.name] = k] ELSE None]

\* No upgrade is under way, and nothing is left of versions that went.
Quiet(n) ==
    /\ Released(n) = {}
    /\ \A k \in Keys \ Installed(n) : k.name = n => k \notin target \union em.manifests

-----------------------------------------------------------------------------
\* Requests. Each is one transaction.

Request ==
    /\ asked < MaxRequests
    /\ asked' = asked + 1
    /\ Careful => builder.phase = "idle" /\ \A n \in Names : Quiet(n)

Install(k) ==
    /\ Request
    /\ row[k] # None /\ ~ row[k].installed
    /\ Installed(k.name) = {}
    /\ row' = [row EXCEPT ![k].installed = TRUE, ![k].changed = TRUE]
    /\ UNCHANGED <<bind, target, em, builder>>

Uninstall(k) ==
    /\ Request
    /\ row[k] # None /\ row[k].installed
    /\ \A b \in bind : b[2] # k
    /\ row' = [row EXCEPT ![k].installed = FALSE, ![k].element = FALSE, ![k].changed = TRUE]
    /\ bind' = {b \in bind : b[1] # k}
    /\ UNCHANGED <<target, em, builder>>

Upgrade(k, t) ==
    /\ Request
    /\ row[k] # None /\ row[k].element
    /\ t # k /\ t.name = k.name
    /\ row[t] # None /\ ~ row[t].installed
    /\ row' = [row EXCEPT ![k].installed = FALSE, ![k].changed = TRUE,
                          ![t].installed = TRUE, ![t].element = TRUE, ![t].changed = TRUE]
    /\ UNCHANGED <<bind, target, em, builder>>

\* Saves the row, which the builder handles again.
Edit(k) ==
    /\ Request
    /\ row[k] # None
    /\ row' = [row EXCEPT ![k].changed = TRUE]
    /\ UNCHANGED <<bind, target, em, builder>>

\* By a request, or because the source does not offer the version any more. Bindings go
\* with the row, and so does the manifest, with the resource of the row.
DeleteRow(k) ==
    /\ Request
    /\ row[k] # None /\ ~ row[k].installed
    /\ row' = [row EXCEPT ![k] = None]
    /\ bind' = {b \in bind : b[1] # k /\ b[2] # k}
    /\ target' = target \ {k}
    /\ builder' = [builder EXCEPT !.todo = @ \ {k}]
    /\ UNCHANGED em

-----------------------------------------------------------------------------
\* Dependencies (RepoElementBuilderService._collect_dependencies).

Matches(k, r) == k.name = r.name /\ r.from <= k.version /\ k.version < r.to

Candidates(r) == {k \in Present : Matches(k, r)}

\* No candidate, or an installed version that does not match.
Unresolvable(r) ==
    \/ Candidates(r) = {}
    \/ \E k \in Installed(r.name) : ~ Matches(k, r)

\* What is installed comes first, then the higher version.
Selected(r) ==
    LET best == IF Installed(r.name) # {} THEN Installed(r.name) ELSE Candidates(r)
    IN  CHOOSE k \in best : \A x \in best : x.version <= k.version

Needs(k) == {Selected(r) : r \in {q \in Requires[k] : ~ Unresolvable(q)}}

\* All elements needed to install k, however far away. What was visited is not visited again.
Closure(k) ==
    LET edges == UNION {{<<x, d>> : d \in Needs(x)} : x \in Keys}
        needed == {e[2] : e \in edges}
        closed == {ks \in SUBSET needed : \A e \in edges : e[1] \in ks \union {k} => e[2] \in ks}
    IN  {k} \union {d \in needed : \A ks \in closed : d \in ks}

DependenciesAvailable(k) ==
    \A d \in Closure(k) : \A r \in Requires[d] : ~ Unresolvable(r)

\* Of two versions that requirements have selected, installing the second raises.
Clash(k) == \E d, e \in Closure(k) : d # e /\ d.name = e.name

-----------------------------------------------------------------------------
\* The builder: an iteration handles changed rows, then reports.

StartIteration ==
    /\ builder.phase = "idle"
    /\ builder' = [phase |-> "update", todo |-> {k \in Present : row[k].changed},
                   before |-> [row |-> row, bind |-> bind, target |-> target]]
    /\ UNCHANGED <<row, bind, target, em, asked>>

\* Everything that is needed gets installed, and bound to k. The agent reports anew on a
\* manifest that has changed.
InstallManifest(k) ==
    LET all == Closure(k)
        new == {d \in all \ {k} : ~ row[d].installed}
    IN  /\ row' = [x \in Keys |->
                      IF x = k THEN [row[x] EXCEPT !.status = "IN_PROGRESS", !.fresh = FALSE,
                                                   !.changed = FALSE, !.synced = None]
                      ELSE IF x \in new
                           THEN [row[x] EXCEPT !.installed = TRUE, !.changed = TRUE]
                      ELSE row[x]]
        /\ bind' = bind \union {<<k, d>> : d \in all \ {k}}
        /\ target' = target \union {k}

Refuse(k) ==
    /\ row' = [row EXCEPT ![k].status = "ERROR"]
    /\ UNCHANGED <<bind, target>>

\* The manifest goes; the row is handled.
Drop(k) ==
    /\ row' = [row EXCEPT ![k].element = FALSE, ![k].status = "AVAILABLE",
                          ![k].fresh = FALSE, ![k].changed = FALSE, ![k].synced = None]
    /\ target' = target \ {k}

HandOverDropped(k, new) == {b \in bind : b[1] # k}

\* Dependents of the released version depend on the one that takes over.
HandOver(k, new) ==
    {IF b[2] = k THEN <<b[1], new>> ELSE b : b \in {c \in bind : c[1] # k}}

TakesOverAtOnce(k) == TRUE

\* The report of the version that takes over says that it runs.
TakesOver(k) == Listed[k] # None /\ Listed[k].linked

\* During an upgrade the old version waits for the new one.
Release(k) ==
    LET pending == Installed(k.name)
    IN  IF pending = {} THEN Drop(k) /\ UNCHANGED bind
        ELSE \E new \in pending :
                IF TakesOver(new) THEN Drop(k) /\ bind' = HandOver(k, new)
                ELSE UNCHANGED <<row, bind, target>>

\* Nothing to install or to remove.
Keep(k) ==
    /\ row' = [row EXCEPT ![k].status = IF row[k].fresh THEN "AVAILABLE" ELSE @,
                          ![k].fresh = FALSE, ![k].changed = FALSE]
    /\ UNCHANGED <<bind, target>>

Raises(k) == row[k].installed /\ Clash(k) /\ DependenciesAvailable(k)

Build(k) ==
    /\ builder.phase = "update" /\ k \in builder.todo
    /\ ~ Raises(k)
    /\ IF row[k].installed
       THEN IF DependenciesAvailable(k) THEN InstallManifest(k) ELSE Refuse(k)
       ELSE IF row[k].element THEN Release(k)
       ELSE IF k \in target THEN Drop(k) /\ UNCHANGED bind
       ELSE Keep(k)
    /\ builder' = [builder EXCEPT !.todo = @ \ {k}]
    /\ UNCHANGED <<em, asked>>

\* An exception ends the iteration; all of it is rolled back.
RollBack ==
    /\ builder.phase = "update" /\ \E k \in builder.todo : Raises(k)
    /\ row' = builder.before.row /\ bind' = builder.before.bind
    /\ target' = builder.before.target
    /\ builder' = [phase |-> "idle", todo |-> {}, before |-> None]
    /\ UNCHANGED <<em, asked>>

Outdated == {k \in target \intersect Present : Listed[k] # None /\ row[k].synced # Listed[k]}

EndUpdates ==
    /\ builder.phase = "update" /\ builder.todo = {}
    /\ builder' = [phase |-> "outdated", todo |-> Outdated, before |-> None]
    /\ UNCHANGED <<row, bind, target, em, asked>>

\* The link and the status of the report are copied.
ActualizeElement(k) ==
    /\ builder.phase = "outdated" /\ k \in builder.todo
    /\ row' = IF Listed[k] = None THEN row
              ELSE [row EXCEPT ![k].element = Listed[k].linked, ![k].status = "ACTIVE",
                               ![k].synced = Listed[k]]
    /\ builder' = [builder EXCEPT !.todo = @ \ {k}]
    /\ UNCHANGED <<bind, target, em, asked>>

EndIteration ==
    /\ builder.phase = "outdated" /\ builder.todo = {}
    /\ builder' = [phase |-> "idle", todo |-> {}, before |-> None]
    /\ UNCHANGED <<row, bind, target, em, asked>>

-----------------------------------------------------------------------------
\* The agent and the element manager. Targets are committed at the end of an iteration.

AgentCreatesNew(k) ==
    /\ builder.phase = "idle" /\ k \in target \ em.manifests
    /\ em.run[k.name] = None
    /\ \A r \in Requires[k] : em.run[r.name] # None
    /\ em' = [manifests |-> em.manifests \union {k}, run |-> [em.run EXCEPT ![k.name] = k]]
    /\ UNCHANGED <<row, bind, target, builder, asked>>

\* What an element imports has to run. An element that runs is upgraded.
AgentCreates(k) ==
    /\ builder.phase = "idle" /\ k \in target \ em.manifests
    /\ \A r \in Requires[k] : em.run[r.name] # None
    /\ em' = [manifests |-> em.manifests \union {k}, run |-> [em.run EXCEPT ![k.name] = k]]
    /\ UNCHANGED <<row, bind, target, builder, asked>>

\* Refused while a running element requires this one. A row that refers to the element
\* loses its link.
AgentDeletes(k) ==
    LET runs == em.run[k.name] = k
    IN  /\ builder.phase = "idle" /\ k \in em.manifests \ target
        /\ runs => \A n \in Names : em.run[n] # None =>
                      \A r \in Requires[em.run[n]] : ~ Matches(k, r)
        /\ em' = [manifests |-> em.manifests \ {k},
                  run |-> IF runs THEN [em.run EXCEPT ![k.name] = None] ELSE em.run]
        /\ row' = [x \in Keys |-> IF runs /\ x.name = k.name /\ row[x] # None
                                  THEN [row[x] EXCEPT !.element = FALSE] ELSE row[x]]
        /\ UNCHANGED <<bind, target, builder, asked>>

Builder ==
    \/ StartIteration \/ RollBack \/ EndUpdates \/ EndIteration
    \/ \E k \in Keys : Build(k) \/ ActualizeElement(k)

Agent == \E k \in Keys : AgentCreates(k) \/ AgentDeletes(k)

RepoElementsNext ==
    \/ \E k \in Keys : Install(k) \/ Uninstall(k) \/ Edit(k) \/ DeleteRow(k)
    \/ \E k, t \in Keys : Upgrade(k, t)
    \/ Builder \/ Agent

\* Builder and agent run for ever. An iteration of the agent does all there is to do. That
\* iterations of the builder end, and others start, is weak fairness of Builder: one of its
\* steps is always possible, and an iteration has finitely many.
RepoElementsFairness ==
    /\ []<>(builder.phase = "idle") /\ []<>(builder.phase = "update")
    /\ SF_repoVars(Agent)

RepoElementsSpec == RepoElementsInit /\ [][RepoElementsNext]_repoVars /\ RepoElementsFairness

-----------------------------------------------------------------------------
\* An element keeps running while a version of it is installed and linked, upgrades
\* included: the old manifest is not removed before the new one is in place
\* (RepoElementBuilderService.can_update_instance_resource).
NoGapInUpgrade ==
    [][\A n \in Names :
          em.run[n] # None /\ (\E k \in Installed(n) : row[k].element)
              => em'.run[n] # None]_repoVars

\* What the builder has installed for an element stays installed, in whatever version, as
\* long as the element is (RepoElement.uninstall, the hand-over of bindings).
DependencyKept ==
    \A k \in target \intersect Present :
        row[k].installed /\ ~ row[k].changed =>
            \A r \in Requires[k] : Installed(r.name) # {}

\* When requests have ended, the installed version whose dependencies can be had is the
\* one that runs, and nothing else does; unless dependencies clash, which stops the builder
\* for all elements.
RepoConverges ==
    <>[](\/ \E k \in Present : Raises(k)
         \/ \A n \in Names :
               /\ Installed(n) = {} => em.run[n] = None
               /\ \A k \in Installed(n) :
                     \/ /\ em.run[n] = k /\ row[k].element /\ row[k].status = "ACTIVE"
                        /\ {x \in em.manifests : x.name = n} = {k}
                     \/ ~ DependenciesAvailable(k))
=============================================================================
