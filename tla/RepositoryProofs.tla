-------------------------- MODULE RepositoryProofs --------------------------
(***************************************************************************)
(* Proofs about RepoElements, for any elements, requirements and bounds,   *)
(* where clients wait until upgrades and removals have ended; and about    *)
(* the Catalogue, for any versions, where one stable version at a time is  *)
(* on its way out.                                                         *)
(***************************************************************************)
EXTENDS RepoElements, Catalogue, FoldTheorems

-----------------------------------------------------------------------------
\* What the tables are like, now or before the iteration of the builder. A version waits
\* while another one takes its place.

IsIn(rw, k) == rw[k] # None /\ rw[k].installed

Waits(rw, k) == rw[k] # None /\ ~ rw[k].installed /\ rw[k].element

\* One version of an element is installed.
OneInstalled(rw) ==
    \A j, k \in Keys : IsIn(rw, j) /\ IsIn(rw, k) /\ j.name = k.name => j = k

\* Nothing is left of rows that are gone, and of one version at most that is not installed.
OneLeft(rw, tg) ==
    /\ \A k \in tg \union em.manifests : rw[k] # None
    /\ \A x, y \in tg \union em.manifests :
          ~ IsIn(rw, x) /\ ~ IsIn(rw, y) /\ x.name = y.name => x = y

\* What is not installed but has a target is going to be handled.
LeftIsChanged(rw, tg) == \A x \in tg : ~ IsIn(rw, x) => rw[x].changed

\* A version that waits has its manifest, and the one that takes over is linked already.
WaitsForLinked(rw, tg) ==
    \A x \in Keys : Waits(rw, x) =>
        /\ x \in tg /\ x \in em.manifests
        /\ \E t \in Keys : t.name = x.name /\ IsIn(rw, t) /\ rw[t].element

\* A linked version runs, or is going to.
LinkedRuns(rw) ==
    \A k \in Keys : IsIn(rw, k) /\ rw[k].element =>
        em.run[k.name] = k \/ \E x \in Keys : Waits(rw, x) /\ x.name = k.name

\* A version that was dropped, and is installed again before the agent has removed its
\* manifest, is not linked, and there is no other manifest.
DroppedUnlinked(rw, tg) ==
    \A k \in em.manifests : IsIn(rw, k) /\ k \notin tg =>
        ~ rw[k].element /\ \A j \in tg \union em.manifests : j.name = k.name => j = k

\* Of two manifests of an element, the one of the installed version runs.
InstalledRuns(rw) ==
    \A t, x \in em.manifests : IsIn(rw, t) /\ x # t /\ x.name = t.name => em.run[t.name] = t

\* What an element requires is installed and bound to it, or waits, in some version.
Bound(rw, bd, tg) ==
    \A k \in tg : IsIn(rw, k) /\ ~ rw[k].changed =>
        \A r \in Requires[k] : \E d \in Keys :
            d.name = r.name /\ (d = k \/ <<k, d>> \in bd) /\ (IsIn(rw, d) \/ Waits(rw, d))

TablesHold(rw, bd, tg) ==
    /\ OneInstalled(rw) /\ OneLeft(rw, tg) /\ LeftIsChanged(rw, tg)
    /\ WaitsForLinked(rw, tg) /\ LinkedRuns(rw) /\ DroppedUnlinked(rw, tg)
    /\ InstalledRuns(rw) /\ Bound(rw, bd, tg)

\* Between iterations a version that was uninstalled has no successor.
NoSuccessor(rw, tg) ==
    \A x \in tg : ~ IsIn(rw, x) /\ ~ Waits(rw, x) =>
        \A t \in Keys : t.name = x.name => ~ IsIn(rw, t)

\* In an iteration a dependency may have installed one, before the other is handled.
SuccessorIsNew(rw, tg, todo) ==
    \A x \in tg : ~ IsIn(rw, x) /\ ~ Waits(rw, x) =>
        /\ x \in todo
        /\ \A t \in Keys : t.name = x.name /\ IsIn(rw, t) =>
              t \notin em.manifests /\ ~ rw[t].element

\* What has been handled, and is not installed, waits and still runs.
HandledRuns(rw, done) ==
    \A x \in done : ~ IsIn(rw, x) => Waits(rw, x) /\ em.run[x.name] = x

\* Manifests and what runs.
ManifestsRun ==
    /\ \A n \in Names : em.run[n] # None => em.run[n] \in em.manifests /\ em.run[n].name = n
    /\ \A k \in em.manifests : em.run[k.name] # None

Iteration ==
    CASE builder.phase = "idle" -> NoSuccessor(row, target)
      [] builder.phase = "update" ->
            /\ SuccessorIsNew(row, target, builder.todo)
            /\ HandledRuns(row, target \ builder.todo)
            /\ \A k \in builder.todo : row[k] # None
            /\ builder.before # None
            /\ TablesHold(builder.before.row, builder.before.bind, builder.before.target)
            /\ NoSuccessor(builder.before.row, builder.before.target)
      [] builder.phase = "outdated" -> HandledRuns(row, target) /\ builder.todo \subseteq target

RepoTyped ==
    /\ row \in [Keys -> Rows \union {None}]
    /\ bind \subseteq Bindings /\ target \subseteq Keys
    /\ em = [manifests |-> em.manifests, run |-> em.run]
    /\ em.manifests \subseteq Keys /\ em.run \in [Names -> Keys \union {None}]
    /\ builder = [phase |-> builder.phase, todo |-> builder.todo, before |-> builder.before]
    /\ builder.phase \in {"idle", "update", "outdated"} /\ builder.todo \subseteq Keys
    /\ builder.before # None =>
          /\ builder.before.row \in [Keys -> Rows \union {None}]
          /\ builder.before.bind \subseteq Bindings /\ builder.before.target \subseteq Keys

RepoInv ==
    /\ RepoTyped
    /\ ManifestsRun
    /\ TablesHold(row, bind, target)
    /\ Iteration

-----------------------------------------------------------------------------
\* Dependencies.

\* Keys have names and versions, and requirements name elements.
LEMMA KeysTyped ==
    /\ \A k \in Keys : k.name \in Names /\ k.version \in Nat
    /\ \A k \in Keys : \A r \in Requires[k] : r.name \in Names
BY RepoElementsAssumption

\* Of some versions one is the highest.
LEMMA HighestExists ==
    ASSUME NEW S, S \subseteq Keys, S # {}
    PROVE  \E k \in S : \A x \in S : x.version <= k.version
<1> DEFINE T == {A \in SUBSET S : A # {} /\ ~ \E k \in A : \A x \in A : x.version <= k.version}
<1>1. ASSUME T # {} PROVE FALSE
  <2>1. T \subseteq SUBSET Keys OBVIOUS
  <2>2. IsFiniteSet(Keys) BY RepoElementsAssumption
  <2> HIDE DEF T
  <2>3. PICK A \in T : \A B \in T : ~ (B \subseteq A /\ B # A)
    BY <1>1, <2>1, <2>2, MinimalSubset
  <2> USE DEF T
  <2>4. PICK e \in A : TRUE BY <2>3
  <2> DEFINE B == A \ {e}
  <2>5. B \notin T BY <2>3, <2>4
  <2>6. \A x \in A : x.version \in Nat BY <2>3, KeysTyped
  <2>7. CASE B = {}
    <3>1. \A x \in A : x = e BY <2>7
    <3>2. \A x \in A : x.version <= e.version BY <2>6, <3>1
    <3>3. QED BY <2>3, <2>4, <3>2
  <2>8. CASE B # {}
    <3>1. PICK k \in B : \A x \in B : x.version <= k.version BY <2>3, <2>5, <2>8
    <3>2. CASE e.version <= k.version
      <4>1. \A x \in A : x.version <= k.version BY <3>1, <3>2
      <4>2. QED BY <2>3, <3>1, <4>1
    <3>3. CASE k.version < e.version
      <4>1. \A x \in A : x.version <= e.version BY <2>4, <2>6, <3>1, <3>3
      <4>2. QED BY <2>3, <2>4, <4>1
    <3>4. QED BY <2>4, <2>6, <3>1, <3>2, <3>3
  <2>9. QED BY <2>7, <2>8
<1>2. QED BY <1>1

\* A requirement that can be had selects what is installed, or what could be.
LEMMA SelectedFits ==
    ASSUME NEW r, ~ Unresolvable(r)
    PROVE  /\ Selected(r) \in Present /\ Selected(r).name = r.name
           /\ Installed(r.name) = {} \/ Selected(r) \in Installed(r.name)
<1> DEFINE best == IF Installed(r.name) # {} THEN Installed(r.name) ELSE Candidates(r)
<1>1. best \subseteq Keys /\ best # {}
  BY DEF Unresolvable, Candidates, Installed, Present
<1>2. Selected(r) = CHOOSE k \in best : \A x \in best : x.version <= k.version
  BY DEF Selected
<1> HIDE DEF best
<1>3. Selected(r) \in best
  BY <1>1, <1>2, HighestExists
<1> USE DEF best
<1>4. QED BY <1>3 DEF Candidates, Installed, Present, Matches

\* What an element needs, directly or not, is in its closure. All of it is there, and is
\* installed unless no version is.
LEMMA ClosureHas ==
    ASSUME NEW k \in Keys
    PROVE  /\ k \in Closure(k) /\ Closure(k) \subseteq Keys
           /\ \A r \in Requires[k] : ~ Unresolvable(r) => Selected(r) \in Closure(k)
           /\ \A d \in Closure(k) \ {k} :
                 d \in Present /\ (row[d].installed \/ Installed(d.name) = {})
<1> DEFINE edges == UNION {{<<x, d>> : d \in Needs(x)} : x \in Keys}
           needed == {e[2] : e \in edges}
           closed == {ks \in SUBSET needed :
                         \A e \in edges : e[1] \in ks \union {k} => e[2] \in ks}
           fit == {d \in needed : d \in Present /\ (row[d].installed \/ Installed(d.name) = {})}
<1>1. Closure(k) = {k} \union {d \in needed : \A ks \in closed : d \in ks}
  BY DEF Closure
<1>2. ASSUME NEW x \in Keys, NEW d \in Needs(x)
      PROVE  <<x, d>> \in edges /\ d \in Present /\ (row[d].installed \/ Installed(d.name) = {})
  <2>1. PICK r : d = Selected(r) /\ ~ Unresolvable(r) BY <1>2 DEF Needs
  <2>2. d \in Present /\ (Installed(d.name) = {} \/ d \in Installed(d.name))
    BY <2>1, SelectedFits
  <2>3. QED BY <1>2, <2>2 DEF Installed
<1>3. \A e \in edges : \E x \in Keys : \E d \in Needs(x) : e = <<x, d>>
  OBVIOUS
<1>4. fit \in closed
  <2>1. fit \subseteq needed OBVIOUS
  <2>2. ASSUME NEW e \in edges PROVE e[2] \in fit
    <3>1. PICK x \in Keys : \E d \in Needs(x) : e = <<x, d>> BY <1>3, <2>2
    <3>2. PICK d \in Needs(x) : e = <<x, d>> BY <3>1
    <3>3. QED BY <1>2, <3>2
  <2>3. QED BY <2>1, <2>2
<1> HIDE DEF edges
<1>5. ASSUME NEW r \in Requires[k], ~ Unresolvable(r) PROVE Selected(r) \in Closure(k)
  <2>1. Selected(r) \in Needs(k) BY <1>5 DEF Needs
  <2>2. <<k, Selected(r)>> \in edges /\ Selected(r) \in Keys BY <1>2, <2>1 DEF Present
  <2>3. \A ks \in closed : Selected(r) \in ks BY <2>2
  <2>4. QED BY <1>1, <2>2, <2>3
<1>6. Closure(k) \subseteq {k} \union fit BY <1>1, <1>4
<1>7. k \in Closure(k) /\ fit \subseteq Keys BY <1>1 DEF Present
<1>8. QED BY <1>1, <1>5, <1>6, <1>7

-----------------------------------------------------------------------------
\* Requests come when nothing is under way: no version waits, and what has a target or a
\* manifest is installed.

Resting ==
    /\ builder.phase = "idle"
    /\ \A x \in Keys : ~ Waits(row, x)
    /\ \A x \in target \union em.manifests : IsIn(row, x)

\* Careful clients see to that.
LEMMA RequestsRest ==
    ASSUME RepoInv, Careful, Request
    PROVE  Resting
<1>1. builder.phase = "idle" /\ \A n \in Names : Quiet(n)
  BY DEF Request
<1>2. ASSUME NEW x \in Keys PROVE ~ Waits(row, x)
  BY <1>1, KeysTyped DEF Quiet, Released, Present, Waits
<1>3. ASSUME NEW x \in target \union em.manifests PROVE IsIn(row, x)
  <2>1. x \in Keys BY <1>3 DEF RepoInv, RepoTyped
  <2>2. QED BY <1>1, <1>3, <2>1, KeysTyped DEF Quiet, Installed, Present, IsIn
<1>4. QED BY <1>1, <1>2, <1>3 DEF Resting

\* A row that is there is a record, and None is none.
LEMMA RowIsRecord ==
    ASSUME RepoTyped, NEW k \in Keys, row[k] # None
    PROVE  row[k] \in Rows
BY DEF RepoTyped

\* No record of a row is None.
LEMMA RecordIsRow == \A r \in Rows : r # None
BY NoneAssumption

\* The tables after a step that leaves the element manager alone.
LEMMA TablesAfter ==
    ASSUME UNCHANGED em, TablesHold(row', bind', target')
    PROVE  TablesHold(row, bind, target)'
<1>1. OneInstalled(row)' /\ OneLeft(row, target)' /\ LeftIsChanged(row, target)'
  BY DEF TablesHold, OneInstalled, OneLeft, LeftIsChanged, IsIn
<1>2. WaitsForLinked(row, target)' /\ LinkedRuns(row)' /\ DroppedUnlinked(row, target)'
  BY DEF TablesHold, WaitsForLinked, LinkedRuns, DroppedUnlinked, IsIn, Waits
<1>3. InstalledRuns(row)' /\ Bound(row, bind, target)'
  BY DEF TablesHold, InstalledRuns, Bound, IsIn, Waits
<1>4. QED BY <1>1, <1>2, <1>3 DEF TablesHold

\* The tables that an iteration goes back to, likewise.
LEMMA BeforeAfter ==
    ASSUME UNCHANGED em, NEW rw, NEW bd, NEW tg, TablesHold(rw, bd, tg), NoSuccessor(rw, tg),
           builder'.before.row = rw, builder'.before.bind = bd, builder'.before.target = tg
    PROVE  /\ TablesHold(builder.before.row, builder.before.bind, builder.before.target)'
           /\ NoSuccessor(builder.before.row, builder.before.target)'
<1>1. /\ OneInstalled(builder.before.row)'
      /\ OneLeft(builder.before.row, builder.before.target)'
      /\ LeftIsChanged(builder.before.row, builder.before.target)'
  BY DEF TablesHold, OneInstalled, OneLeft, LeftIsChanged, IsIn
<1>2. /\ WaitsForLinked(builder.before.row, builder.before.target)'
      /\ LinkedRuns(builder.before.row)'
      /\ DroppedUnlinked(builder.before.row, builder.before.target)'
  BY DEF TablesHold, WaitsForLinked, LinkedRuns, DroppedUnlinked, IsIn, Waits
<1>3. InstalledRuns(builder.before.row)'
  BY DEF TablesHold, InstalledRuns, IsIn
<1>4. Bound(builder.before.row, builder.before.bind, builder.before.target)'
  BY DEF TablesHold, Bound, IsIn, Waits
<1>5. NoSuccessor(builder.before.row, builder.before.target)'
  BY DEF NoSuccessor, IsIn, Waits
<1>6. QED BY <1>1, <1>2, <1>3, <1>4, <1>5 DEF TablesHold

\* Steps between iterations that write the rows of one or two elements.
LEMMA IdleKept ==
    ASSUME RepoInv, UNCHANGED em, row' \in [Keys -> Rows \union {None}], bind' \subseteq Bindings,
           target' \subseteq Keys, builder.phase = "idle", builder'.phase = "idle",
           builder' = [builder EXCEPT !.todo = builder'.todo], builder'.todo \subseteq Keys,
           TablesHold(row', bind', target'), NoSuccessor(row', target')
    PROVE  RepoInv'
<1>1. RepoTyped' BY DEF RepoInv, RepoTyped
<1>2. ManifestsRun' BY DEF RepoInv, ManifestsRun
<1>3. NoSuccessor(row, target)' BY DEF NoSuccessor, IsIn, Waits
<1>4. Iteration' BY <1>3 DEF Iteration
<1>5. QED BY <1>1, <1>2, <1>4, TablesAfter DEF RepoInv

\* An element is installed.
LEMMA InstallKeeps ==
    ASSUME RepoInv, Careful, NEW k \in Keys, Install(k)
    PROVE  RepoInv'
<1>1. Resting BY RequestsRest DEF Install
<1>2. /\ row[k] # None /\ ~ row[k].installed /\ Installed(k.name) = {}
      /\ row' = [row EXCEPT ![k].installed = TRUE, ![k].changed = TRUE]
      /\ UNCHANGED <<bind, target, em, builder>>
  BY DEF Install
<1>3. /\ row \in [Keys -> Rows \union {None}] /\ row[k] \in Rows
      /\ target \subseteq Keys /\ em.manifests \subseteq Keys
  BY <1>2, RowIsRecord DEF RepoInv, RepoTyped
<1>4. /\ row' \in [Keys -> Rows \union {None}] /\ row'[k] \in Rows
      /\ \A x \in Keys \ {k} : row'[x] = row[x]
      /\ row'[k].installed /\ row'[k].changed /\ row'[k].element = row[k].element
  BY <1>2, <1>3 DEF Rows
<1>5. /\ IsIn(row', k) /\ ~ Waits(row', k) /\ row'[k] # None /\ ~ row'[k].element
      /\ \A x \in Keys \ {k} : /\ IsIn(row', x) <=> IsIn(row, x)
                               /\ Waits(row', x) <=> Waits(row, x)
  BY <1>1, <1>2, <1>4, RecordIsRow DEF IsIn, Waits, Resting
<1>6. /\ k \notin target \union em.manifests
      /\ \A x \in Keys : x.name = k.name => ~ IsIn(row, x)
  BY <1>1, <1>2 DEF Resting, IsIn, Installed, Present
<1>7. OneInstalled(row') /\ OneLeft(row', target) /\ LeftIsChanged(row', target)
  BY <1>1, <1>3, <1>4, <1>5, <1>6
     DEF RepoInv, TablesHold, OneInstalled, OneLeft, LeftIsChanged, Resting
<1>8. WaitsForLinked(row', target) /\ LinkedRuns(row') /\ DroppedUnlinked(row', target)
  BY <1>1, <1>3, <1>4, <1>5, <1>6
     DEF RepoInv, TablesHold, WaitsForLinked, LinkedRuns, DroppedUnlinked, Resting
<1>9. InstalledRuns(row') /\ NoSuccessor(row', target)
  BY <1>1, <1>3, <1>4, <1>5, <1>6 DEF RepoInv, TablesHold, InstalledRuns, NoSuccessor, Resting
<1>10. Bound(row', bind, target)
  BY <1>1, <1>3, <1>4, <1>5, <1>6 DEF RepoInv, TablesHold, Bound, Resting
<1>11. QED
  BY <1>1, <1>2, <1>4, <1>7, <1>8, <1>9, <1>10, IdleKept DEF Resting, RepoInv, RepoTyped, TablesHold

\* An element is uninstalled, if nothing is bound to it.
LEMMA UninstallKeeps ==
    ASSUME RepoInv, Careful, NEW k \in Keys, Uninstall(k)
    PROVE  RepoInv'
<1>1. Resting BY RequestsRest DEF Uninstall
<1>2. /\ row[k] # None /\ row[k].installed /\ \A b \in bind : b[2] # k
      /\ row' = [row EXCEPT ![k].installed = FALSE, ![k].element = FALSE, ![k].changed = TRUE]
      /\ bind' = {b \in bind : b[1] # k}
      /\ UNCHANGED <<target, em, builder>>
  BY DEF Uninstall
<1>3. /\ row \in [Keys -> Rows \union {None}] /\ row[k] \in Rows
      /\ target \subseteq Keys /\ em.manifests \subseteq Keys
  BY <1>2, RowIsRecord DEF RepoInv, RepoTyped
<1>4. /\ row' \in [Keys -> Rows \union {None}] /\ row'[k] \in Rows
      /\ \A x \in Keys \ {k} : row'[x] = row[x]
      /\ ~ row'[k].installed /\ row'[k].changed /\ ~ row'[k].element
  BY <1>2, <1>3 DEF Rows
<1>5. /\ ~ IsIn(row', k) /\ ~ Waits(row', k) /\ row'[k] # None /\ IsIn(row, k)
      /\ \A x \in Keys \ {k} : /\ IsIn(row', x) <=> IsIn(row, x)
                               /\ Waits(row', x) <=> Waits(row, x)
  BY <1>2, <1>4, RecordIsRow DEF IsIn, Waits
<1>6. \A x \in Keys : x.name = k.name => ~ IsIn(row', x)
  BY <1>5 DEF RepoInv, TablesHold, OneInstalled
<1>7. OneInstalled(row') /\ OneLeft(row', target) /\ LeftIsChanged(row', target)
  BY <1>1, <1>3, <1>4, <1>5
     DEF RepoInv, TablesHold, OneInstalled, OneLeft, LeftIsChanged, Resting
<1>8. WaitsForLinked(row', target) /\ LinkedRuns(row') /\ DroppedUnlinked(row', target)
  BY <1>1, <1>3, <1>4, <1>5
     DEF RepoInv, TablesHold, WaitsForLinked, LinkedRuns, DroppedUnlinked, Resting
<1>9. InstalledRuns(row') /\ NoSuccessor(row', target)
  BY <1>1, <1>3, <1>4, <1>5, <1>6 DEF RepoInv, TablesHold, InstalledRuns, NoSuccessor, Resting
<1>10. Bound(row', bind', target)
  <2> SUFFICES ASSUME NEW x \in target, IsIn(row', x), ~ row'[x].changed, NEW r \in Requires[x]
               PROVE  \E d \in Keys : /\ d.name = r.name /\ (d = x \/ <<x, d>> \in bind')
                                      /\ IsIn(row', d) \/ Waits(row', d)
    BY DEF Bound
  <2>1. x # k /\ x \in Keys BY <1>3, <1>5
  <2>2. PICK d \in Keys : /\ d.name = r.name /\ (d = x \/ <<x, d>> \in bind)
                          /\ IsIn(row, d) \/ Waits(row, d)
    BY <1>4, <1>5, <2>1 DEF RepoInv, TablesHold, Bound
  <2>3. d # k BY <1>2, <2>1, <2>2
  <2>4. d = x \/ <<x, d>> \in bind' BY <1>2, <2>1, <2>2
  <2>5. QED BY <1>5, <2>2, <2>3, <2>4
<1>11. bind' \subseteq Bindings BY <1>2 DEF RepoInv, RepoTyped
<1>12. QED
  BY <1>1, <1>2, <1>4, <1>7, <1>8, <1>9, <1>10, <1>11, IdleKept
     DEF Resting, RepoInv, RepoTyped, TablesHold

\* A version that is linked waits for another one.
LEMMA UpgradeKeeps ==
    ASSUME RepoInv, Careful, NEW k \in Keys, NEW t \in Keys, Upgrade(k, t)
    PROVE  RepoInv'
<1>1. Resting BY RequestsRest DEF Upgrade
<1>2. /\ row[k] # None /\ row[k].element /\ t # k /\ t.name = k.name
      /\ row[t] # None /\ ~ row[t].installed
      /\ row' = [row EXCEPT ![k].installed = FALSE, ![k].changed = TRUE,
                            ![t].installed = TRUE, ![t].element = TRUE, ![t].changed = TRUE]
      /\ UNCHANGED <<bind, target, em, builder>>
  BY DEF Upgrade
<1>3. /\ row \in [Keys -> Rows \union {None}] /\ row[k] \in Rows /\ row[t] \in Rows
      /\ target \subseteq Keys /\ em.manifests \subseteq Keys
  BY <1>2, RowIsRecord DEF RepoInv, RepoTyped
<1>4. /\ row' \in [Keys -> Rows \union {None}] /\ row'[k] \in Rows /\ row'[t] \in Rows
      /\ \A x \in Keys \ {k, t} : row'[x] = row[x]
      /\ ~ row'[k].installed /\ row'[k].changed /\ row'[k].element
      /\ row'[t].installed /\ row'[t].changed /\ row'[t].element
  BY <1>2, <1>3 DEF Rows
<1>5. /\ ~ IsIn(row', k) /\ Waits(row', k) /\ row'[k] # None
      /\ IsIn(row', t) /\ ~ Waits(row', t) /\ row'[t] # None /\ ~ IsIn(row, t)
      /\ \A x \in Keys \ {k, t} : /\ IsIn(row', x) <=> IsIn(row, x)
                                  /\ Waits(row', x) <=> Waits(row, x)
  BY <1>2, <1>4, RecordIsRow DEF IsIn, Waits
<1>6. IsIn(row, k) /\ t \notin target \union em.manifests
  BY <1>1, <1>2, <1>3, <1>5 DEF Resting, IsIn, Waits, Rows
<1>7. em.run[k.name] = k /\ k \in em.manifests /\ k \in target
  <2>1. em.run[k.name] = k
    BY <1>1, <1>2, <1>6 DEF RepoInv, TablesHold, LinkedRuns, Resting
  <2>2. k \in em.manifests
    BY <2>1, KeysTyped, NoneAssumption DEF RepoInv, ManifestsRun
  <2>3. QED BY <1>2, <1>6, <2>1, <2>2 DEF RepoInv, TablesHold, DroppedUnlinked
<1>8. \A x \in Keys : x.name = k.name /\ x # t => ~ IsIn(row', x)
  BY <1>5, <1>6 DEF RepoInv, TablesHold, OneInstalled
<1>9. OneInstalled(row') /\ OneLeft(row', target) /\ LeftIsChanged(row', target)
  <2>1. OneInstalled(row')
    BY <1>2, <1>5, <1>8 DEF RepoInv, TablesHold, OneInstalled
  <2>2. OneLeft(row', target) /\ LeftIsChanged(row', target)
    BY <1>1, <1>3, <1>4, <1>5, <1>6 DEF RepoInv, TablesHold, OneLeft, LeftIsChanged, Resting
  <2>3. QED BY <2>1, <2>2
<1>10. WaitsForLinked(row', target) /\ LinkedRuns(row') /\ DroppedUnlinked(row', target)
  <2>1. WaitsForLinked(row', target)
    BY <1>1, <1>2, <1>4, <1>5, <1>7 DEF WaitsForLinked, Resting
  <2>2. LinkedRuns(row')
    BY <1>1, <1>2, <1>4, <1>5 DEF RepoInv, TablesHold, LinkedRuns, Resting
  <2>3. DroppedUnlinked(row', target)
    BY <1>1, <1>2, <1>3, <1>4, <1>5, <1>6 DEF RepoInv, TablesHold, DroppedUnlinked, Resting
  <2>4. QED BY <2>1, <2>2, <2>3
<1>11. InstalledRuns(row') /\ NoSuccessor(row', target)
  BY <1>1, <1>3, <1>4, <1>5, <1>6, <1>8 DEF RepoInv, TablesHold, InstalledRuns, NoSuccessor, Resting
<1>12. Bound(row', bind, target)
  <2>1. \A x \in Keys : IsIn(row, x) \/ Waits(row, x) => IsIn(row', x) \/ Waits(row', x) BY <1>5
  <2>2. ASSUME NEW x \in target, IsIn(row', x), ~ row'[x].changed
        PROVE  IsIn(row, x) /\ ~ row[x].changed
    BY <1>3, <1>4, <1>5, <1>6, <2>2
  <2>3. QED BY <1>3, <2>1, <2>2 DEF RepoInv, TablesHold, Bound
<1>13. QED
  BY <1>1, <1>2, <1>4, <1>9, <1>10, <1>11, <1>12, IdleKept
     DEF Resting, RepoInv, RepoTyped, TablesHold

\* A row is edited, or goes.
LEMMA EditKeeps ==
    ASSUME RepoInv, Careful, NEW k \in Keys, Edit(k)
    PROVE  RepoInv'
<1>1. Resting BY RequestsRest DEF Edit
<1>2. /\ row[k] # None /\ row' = [row EXCEPT ![k].changed = TRUE]
      /\ UNCHANGED <<bind, target, em, builder>>
  BY DEF Edit
<1>3. /\ row \in [Keys -> Rows \union {None}] /\ row[k] \in Rows
      /\ target \subseteq Keys /\ em.manifests \subseteq Keys
  BY <1>2, RowIsRecord DEF RepoInv, RepoTyped
<1>4. /\ row' \in [Keys -> Rows \union {None}] /\ row'[k] \in Rows
      /\ \A x \in Keys \ {k} : row'[x] = row[x]
      /\ row'[k].installed = row[k].installed /\ row'[k].changed /\ row'[k].element = row[k].element
  BY <1>2, <1>3 DEF Rows
<1>5. \A x \in Keys : /\ IsIn(row', x) <=> IsIn(row, x)
                      /\ Waits(row', x) <=> Waits(row, x)
                      /\ row'[x] # None <=> row[x] # None
                      /\ row[x] # None => row'[x].element = row[x].element
  BY <1>2, <1>4, RecordIsRow DEF IsIn, Waits
<1>6. OneInstalled(row') /\ OneLeft(row', target) /\ LeftIsChanged(row', target)
  BY <1>3, <1>4, <1>5 DEF RepoInv, TablesHold, OneInstalled, OneLeft, LeftIsChanged
<1>7. WaitsForLinked(row', target) /\ LinkedRuns(row') /\ DroppedUnlinked(row', target)
  BY <1>3, <1>4, <1>5
     DEF RepoInv, TablesHold, OneLeft, WaitsForLinked, LinkedRuns, DroppedUnlinked, IsIn
<1>8. InstalledRuns(row') /\ NoSuccessor(row', target)
  BY <1>1, <1>3, <1>5 DEF RepoInv, TablesHold, InstalledRuns, NoSuccessor, Resting
<1>9. Bound(row', bind, target)
  BY <1>3, <1>4, <1>5 DEF RepoInv, TablesHold, Bound
<1>10. QED
  BY <1>1, <1>2, <1>4, <1>6, <1>7, <1>8, <1>9, IdleKept DEF Resting, RepoInv, RepoTyped, TablesHold

\* A row that goes is neither installed nor has it a target or a manifest.
LEMMA DeleteRowKeeps ==
    ASSUME RepoInv, Careful, NEW k \in Keys, DeleteRow(k)
    PROVE  RepoInv'
<1>1. Resting BY RequestsRest DEF DeleteRow
<1>2. /\ row[k] # None /\ ~ row[k].installed /\ row' = [row EXCEPT ![k] = None]
      /\ bind' = {b \in bind : b[1] # k /\ b[2] # k} /\ target' = target \ {k}
      /\ builder' = [builder EXCEPT !.todo = builder.todo \ {k}] /\ UNCHANGED em
  BY DEF DeleteRow
<1>3. /\ row \in [Keys -> Rows \union {None}] /\ target \subseteq Keys /\ em.manifests \subseteq Keys
      /\ ~ IsIn(row, k)
  BY <1>2 DEF RepoInv, RepoTyped, IsIn
<1>4. /\ row' \in [Keys -> Rows \union {None}] /\ \A x \in Keys \ {k} : row'[x] = row[x]
      /\ row'[k] = None
  BY <1>2, <1>3
<1>5. /\ \A x \in Keys : (IsIn(row', x) <=> IsIn(row, x)) /\ ~ Waits(row', x)
      /\ k \notin target \union em.manifests /\ target' = target
  BY <1>1, <1>2, <1>3, <1>4 DEF IsIn, Waits, Resting
<1>6. OneInstalled(row') /\ OneLeft(row', target) /\ LeftIsChanged(row', target)
  BY <1>1, <1>3, <1>4, <1>5 DEF RepoInv, TablesHold, OneInstalled, OneLeft, LeftIsChanged, Resting
<1>7. WaitsForLinked(row', target) /\ LinkedRuns(row') /\ DroppedUnlinked(row', target)
  BY <1>1, <1>3, <1>4, <1>5
     DEF RepoInv, TablesHold, WaitsForLinked, LinkedRuns, DroppedUnlinked, Resting
<1>8. InstalledRuns(row') /\ NoSuccessor(row', target)
  BY <1>1, <1>3, <1>5 DEF RepoInv, TablesHold, InstalledRuns, NoSuccessor, Resting
<1>9. Bound(row', bind', target)
  <2> SUFFICES ASSUME NEW x \in target, IsIn(row', x), ~ row'[x].changed, NEW r \in Requires[x]
               PROVE  \E d \in Keys : /\ d.name = r.name /\ (d = x \/ <<x, d>> \in bind')
                                      /\ IsIn(row', d) \/ Waits(row', d)
    BY DEF Bound
  <2>1. x # k /\ x \in Keys BY <1>3, <1>5
  <2>2. PICK d \in Keys : /\ d.name = r.name /\ (d = x \/ <<x, d>> \in bind)
                          /\ IsIn(row, d) \/ Waits(row, d)
    BY <1>4, <1>5, <2>1 DEF RepoInv, TablesHold, Bound
  <2>3. IsIn(row, d) /\ d # k BY <1>1, <1>3, <2>2 DEF Resting
  <2>4. d = x \/ <<x, d>> \in bind' BY <1>2, <2>1, <2>2, <2>3
  <2>5. QED BY <1>5, <2>2, <2>3, <2>4
<1>10. /\ bind' \subseteq Bindings /\ target' \subseteq Keys
       /\ builder'.todo \subseteq Keys /\ builder'.phase = "idle"
       /\ builder' = [builder EXCEPT !.todo = builder'.todo]
  BY <1>1, <1>2, <1>3 DEF RepoInv, RepoTyped, Resting
<1>11. TablesHold(row', bind', target') /\ NoSuccessor(row', target')
  BY <1>5, <1>6, <1>7, <1>8, <1>9 DEF TablesHold
<1>12. QED BY <1>1, <1>2, <1>4, <1>10, <1>11, IdleKept DEF Resting

-----------------------------------------------------------------------------
\* Iterations of the builder.

\* An iteration starts with what has changed, ends, or is rolled back.
LEMMA IterationKeeps ==
    ASSUME RepoInv, StartIteration \/ RollBack \/ EndUpdates \/ EndIteration
    PROVE  RepoInv'
<1>1. CASE StartIteration
  <2>1. /\ builder.phase = "idle" /\ builder'.phase = "update"
        /\ builder'.todo = {k \in Present : row[k].changed}
        /\ builder'.before = [row |-> row, bind |-> bind, target |-> target]
        /\ builder' = [phase |-> builder'.phase, todo |-> builder'.todo, before |-> builder'.before]
        /\ UNCHANGED <<row, bind, target, em>>
    BY <1>1 DEF StartIteration
  <2>2. NoSuccessor(row, target) BY <2>1 DEF RepoInv, Iteration
  <2>3. RepoTyped' BY <2>1 DEF RepoInv, RepoTyped, Present
  <2>4. builder'.before # None
    <3>1. builder'.before \in Tables
      BY <2>1 DEF RepoInv, RepoTyped, Tables
    <3>2. QED BY <3>1, NoneAssumption
  <2>5. \A x \in target : ~ IsIn(row, x) => x \in builder'.todo
    BY <2>1 DEF RepoInv, RepoTyped, TablesHold, OneLeft, LeftIsChanged, Present
  <2>6. /\ SuccessorIsNew(row, target, builder.todo)' /\ HandledRuns(row, target \ builder.todo)'
    BY <2>1, <2>2, <2>5 DEF SuccessorIsNew, HandledRuns, NoSuccessor, IsIn, Waits
  <2>7. TablesHold(row, bind, target)' BY <2>1, TablesAfter DEF RepoInv
  <2>8. /\ TablesHold(builder.before.row, builder.before.bind, builder.before.target)'
        /\ NoSuccessor(builder.before.row, builder.before.target)'
    BY <2>1, <2>2, BeforeAfter DEF RepoInv
  <2>9. \A k \in builder'.todo : row'[k] # None BY <2>1 DEF Present
  <2>10. Iteration' BY <2>1, <2>4, <2>6, <2>7, <2>8, <2>9 DEF Iteration
  <2>11. ManifestsRun' BY <2>1 DEF RepoInv, ManifestsRun
  <2>12. QED BY <2>3, <2>7, <2>10, <2>11 DEF RepoInv
<1>2. CASE RollBack
  <2>1. /\ builder.phase = "update" /\ builder'.phase = "idle" /\ builder'.todo = {}
        /\ builder'.before = None
        /\ builder' = [phase |-> builder'.phase, todo |-> builder'.todo, before |-> builder'.before]
        /\ row' = builder.before.row /\ bind' = builder.before.bind
        /\ target' = builder.before.target /\ UNCHANGED em
    BY <1>2 DEF RollBack
  <2>2. /\ builder.before # None
        /\ TablesHold(builder.before.row, builder.before.bind, builder.before.target)
        /\ NoSuccessor(builder.before.row, builder.before.target)
    BY <2>1 DEF RepoInv, Iteration
  <2>3. RepoTyped' BY <2>1, <2>2 DEF RepoInv, RepoTyped
  <2>4. TablesHold(row, bind, target)' BY <2>1, <2>2, TablesAfter
  <2>5. NoSuccessor(row, target)' BY <2>1, <2>2 DEF NoSuccessor, IsIn, Waits
  <2>6. Iteration' BY <2>1, <2>5 DEF Iteration
  <2>7. ManifestsRun' BY <2>1 DEF RepoInv, ManifestsRun
  <2>8. QED BY <2>3, <2>4, <2>6, <2>7 DEF RepoInv
<1>3. CASE EndUpdates
  <2>1. /\ builder.phase = "update" /\ builder'.phase = "outdated" /\ builder.todo = {}
        /\ builder'.todo = Outdated /\ builder'.before = None
        /\ builder' = [phase |-> builder'.phase, todo |-> builder'.todo, before |-> builder'.before]
        /\ UNCHANGED <<row, bind, target, em>>
    BY <1>3 DEF EndUpdates
  <2>2. Outdated \subseteq target BY DEF Outdated
  <2>3. RepoTyped' BY <2>1, <2>2 DEF RepoInv, RepoTyped
  <2>4. TablesHold(row, bind, target)' BY <2>1, TablesAfter DEF RepoInv
  <2>5. HandledRuns(row, target)'
    <3>1. HandledRuns(row, target \ builder.todo) /\ target \ builder.todo = target
      BY <2>1 DEF RepoInv, Iteration
    <3>2. QED BY <2>1, <3>1 DEF HandledRuns, IsIn, Waits
  <2>6. Iteration' BY <2>1, <2>2, <2>5 DEF Iteration
  <2>7. ManifestsRun' BY <2>1 DEF RepoInv, ManifestsRun
  <2>8. QED BY <2>3, <2>4, <2>6, <2>7 DEF RepoInv
<1>4. CASE EndIteration
  <2>1. /\ builder.phase = "outdated" /\ builder'.phase = "idle" /\ builder'.todo = {}
        /\ builder'.before = None
        /\ builder' = [phase |-> builder'.phase, todo |-> builder'.todo, before |-> builder'.before]
        /\ UNCHANGED <<row, bind, target, em>>
    BY <1>4 DEF EndIteration
  <2>2. RepoTyped' BY <2>1 DEF RepoInv, RepoTyped
  <2>3. TablesHold(row, bind, target)' BY <2>1, TablesAfter DEF RepoInv
  <2>4. NoSuccessor(row, target)'
    BY <2>1 DEF RepoInv, Iteration, HandledRuns, NoSuccessor, IsIn, Waits
  <2>5. Iteration' BY <2>1, <2>4 DEF Iteration
  <2>6. ManifestsRun' BY <2>1 DEF RepoInv, ManifestsRun
  <2>7. QED BY <2>2, <2>3, <2>5, <2>6 DEF RepoInv
<1>5. QED BY <1>1, <1>2, <1>3, <1>4

\* A step of an iteration that handles one row.
LEMMA UpdateKept ==
    ASSUME RepoInv, UNCHANGED em, NEW k \in builder.todo, builder.phase = "update",
           builder' = [builder EXCEPT !.todo = builder.todo \ {k}],
           row' \in [Keys -> Rows \union {None}], bind' \subseteq Bindings, target' \subseteq Keys,
           \A x \in Keys : row[x] # None => row'[x] # None,
           TablesHold(row', bind', target'), SuccessorIsNew(row', target', builder.todo \ {k}),
           HandledRuns(row', target' \ (builder.todo \ {k}))
    PROVE  RepoInv'
<1>1. /\ builder'.phase = "update" /\ builder'.before = builder.before
      /\ builder'.todo = builder.todo \ {k}
      /\ builder' = [phase |-> builder'.phase, todo |-> builder'.todo, before |-> builder'.before]
  BY DEF RepoInv, RepoTyped
<1>2. RepoTyped' BY <1>1 DEF RepoInv, RepoTyped
<1>3. ManifestsRun' BY DEF RepoInv, ManifestsRun
<1>4. /\ SuccessorIsNew(row, target, builder.todo)' /\ HandledRuns(row, target \ builder.todo)'
  BY <1>1 DEF SuccessorIsNew, HandledRuns, IsIn, Waits
<1>5. /\ builder.before # None
      /\ TablesHold(builder.before.row, builder.before.bind, builder.before.target)
      /\ NoSuccessor(builder.before.row, builder.before.target)
      /\ \A x \in builder.todo : row[x] # None /\ x \in Keys
  BY DEF RepoInv, RepoTyped, Iteration
<1>6. /\ TablesHold(builder.before.row, builder.before.bind, builder.before.target)'
      /\ NoSuccessor(builder.before.row, builder.before.target)'
  BY <1>1, <1>5, BeforeAfter
<1>7. Iteration' BY <1>1, <1>4, <1>5, <1>6 DEF Iteration
<1>8. QED BY <1>2, <1>3, <1>7, TablesAfter DEF RepoInv

\* The row of a version that is not installed is dropped. If it has waited, the one that is
\* installed runs.
LEMMA DropKeeps ==
    ASSUME RepoInv, UNCHANGED em, NEW k \in builder.todo, builder.phase = "update",
           builder' = [builder EXCEPT !.todo = builder.todo \ {k}],
           ~ row[k].installed, Drop(k), bind' \subseteq Bindings, Bound(row', bind', target'),
           Waits(row, k) => \A j \in Keys : IsIn(row, j) /\ j.name = k.name => em.run[k.name] = j
    PROVE  RepoInv'
<1>1. /\ k \in Keys /\ row[k] # None
      /\ SuccessorIsNew(row, target, builder.todo) /\ HandledRuns(row, target \ builder.todo)
  BY DEF RepoInv, RepoTyped, Iteration
<1>2. /\ row' = [row EXCEPT ![k].element = FALSE, ![k].status = "AVAILABLE",
                            ![k].fresh = FALSE, ![k].changed = FALSE, ![k].synced = None]
      /\ target' = target \ {k}
  BY DEF Drop
<1>3. /\ row \in [Keys -> Rows \union {None}] /\ row[k] \in Rows
      /\ target \subseteq Keys /\ em.manifests \subseteq Keys
  BY <1>1, RowIsRecord DEF RepoInv, RepoTyped
<1>4. /\ row' \in [Keys -> Rows \union {None}] /\ row'[k] \in Rows
      /\ \A x \in Keys \ {k} : row'[x] = row[x]
      /\ row'[k].installed = row[k].installed /\ ~ row'[k].element
  BY <1>1, <1>2, <1>3 DEF Rows, Reports
<1>5. /\ ~ IsIn(row', k) /\ ~ IsIn(row, k) /\ ~ Waits(row', k) /\ row'[k] # None
      /\ \A x \in Keys \ {k} : /\ IsIn(row', x) <=> IsIn(row, x)
                               /\ Waits(row', x) <=> Waits(row, x)
  BY <1>1, <1>4, RecordIsRow DEF IsIn, Waits
<1>6. OneInstalled(row') /\ OneLeft(row', target') /\ LeftIsChanged(row', target')
  <2>1. OneInstalled(row') BY <1>5 DEF RepoInv, TablesHold, OneInstalled
  <2>2. \A x \in target' : x \in target /\ x # k /\ x \in Keys BY <1>2, <1>3
  <2>3. OneLeft(row, target) /\ LeftIsChanged(row, target) BY DEF RepoInv, TablesHold
  <2>4. \A x \in target' \union em.manifests : /\ x \in target \union em.manifests
                                               /\ IsIn(row', x) <=> IsIn(row, x)
                                               /\ row[x] # None => row'[x] # None
    BY <1>3, <1>4, <1>5, <2>2
  <2>5. OneLeft(row', target') BY <2>3, <2>4 DEF OneLeft
  <2>6. LeftIsChanged(row', target') BY <1>4, <2>2, <2>3, <2>4 DEF LeftIsChanged
  <2>7. QED BY <2>1, <2>5, <2>6
<1>7. WaitsForLinked(row', target') /\ DroppedUnlinked(row', target')
  <2>1. WaitsForLinked(row', target')
    <3> SUFFICES ASSUME NEW x \in Keys, Waits(row', x)
                 PROVE  /\ x \in target' /\ x \in em.manifests
                        /\ \E t \in Keys : t.name = x.name /\ IsIn(row', t) /\ row'[t].element
      BY DEF WaitsForLinked
    <3>1. x # k /\ Waits(row, x) BY <1>5
    <3>2. /\ x \in target /\ x \in em.manifests
          /\ \E t \in Keys : t.name = x.name /\ IsIn(row, t) /\ row[t].element
      BY <3>1 DEF RepoInv, TablesHold, WaitsForLinked
    <3>3. PICK t \in Keys : t.name = x.name /\ IsIn(row, t) /\ row[t].element BY <3>2
    <3>4. t # k BY <1>5, <3>3
    <3>5. IsIn(row', t) /\ row'[t].element BY <1>4, <1>5, <3>3, <3>4
    <3>6. QED BY <1>2, <3>1, <3>2, <3>3, <3>5
  <2>2. DroppedUnlinked(row', target')
    <3> SUFFICES ASSUME NEW x \in em.manifests, IsIn(row', x), x \notin target'
                 PROVE  /\ ~ row'[x].element
                        /\ \A j \in target' \union em.manifests : j.name = x.name => j = x
      BY DEF DroppedUnlinked
    <3>1. x # k /\ x \in Keys /\ IsIn(row, x) /\ x \notin target BY <1>2, <1>3, <1>5
    <3>2. ~ row[x].element /\ \A j \in target \union em.manifests : j.name = x.name => j = x
      BY <3>1 DEF RepoInv, TablesHold, DroppedUnlinked
    <3>3. QED BY <1>2, <1>4, <3>1, <3>2
  <2>3. QED BY <2>1, <2>2
<1>8. LinkedRuns(row')
  BY <1>3, <1>4, <1>5 DEF RepoInv, TablesHold, LinkedRuns
<1>9. InstalledRuns(row')
  BY <1>3, <1>5 DEF RepoInv, TablesHold, InstalledRuns
<1>10. SuccessorIsNew(row', target', builder.todo \ {k})
  BY <1>1, <1>2, <1>3, <1>4, <1>5 DEF SuccessorIsNew
<1>11. HandledRuns(row', target' \ (builder.todo \ {k}))
  BY <1>1, <1>2, <1>3, <1>5 DEF HandledRuns
<1>12. TablesHold(row', bind', target') BY <1>6, <1>7, <1>8, <1>9 DEF TablesHold
<1>13. target' \subseteq Keys /\ \A x \in Keys : row[x] # None => row'[x] # None
  BY <1>2, <1>3, <1>4, <1>5
<1>14. QED BY <1>4, <1>10, <1>11, <1>12, <1>13, UpdateKept

\* The row of a version that waits, is gone, or has nothing to be done.
LEMMA ReleaseKeeps ==
    ASSUME RepoInv, NEW k \in Keys, Build(k), ~ row[k].installed
    PROVE  RepoInv'
<1>1. /\ k \in builder.todo /\ builder.phase = "update" /\ row[k] # None
      /\ builder' = [builder EXCEPT !.todo = builder.todo \ {k}] /\ UNCHANGED em
      /\ SuccessorIsNew(row, target, builder.todo) /\ HandledRuns(row, target \ builder.todo)
      /\ row \in [Keys -> Rows \union {None}] /\ row[k] \in Rows
      /\ target \subseteq Keys /\ em.manifests \subseteq Keys /\ bind \subseteq Bindings
  BY DEF Build, RepoInv, RepoTyped, Iteration
<1>2. /\ ~ IsIn(row, k)
      /\ Waits(row, k) <=> row[k].element
  BY <1>1 DEF IsIn, Waits
<1>3. ASSUME Drop(k)
      PROVE  /\ target' \subseteq target
             /\ \A x \in Keys \ {k} : /\ IsIn(row', x) <=> IsIn(row, x)
                                      /\ Waits(row', x) <=> Waits(row, x)
                                      /\ row'[x] = row[x]
             /\ ~ IsIn(row', k)
  <2>1. /\ \A x \in Keys \ {k} : row'[x] = row[x]
        /\ ~ row'[k].installed
    BY <1>1, <1>3 DEF Drop, Rows
  <2>2. QED BY <1>3, <2>1 DEF Drop, IsIn, Waits
<1>4. CASE ~ row[k].element /\ k \in target
  <2>1. Drop(k) /\ bind' = bind BY <1>4 DEF Build
  <2>2. Bound(row', bind', target')
    <3> SUFFICES ASSUME NEW x \in target', IsIn(row', x), ~ row'[x].changed, NEW r \in Requires[x]
                 PROVE  \E d \in Keys : /\ d.name = r.name /\ (d = x \/ <<x, d>> \in bind')
                                        /\ IsIn(row', d) \/ Waits(row', d)
      BY DEF Bound
    <3>1. x # k /\ x \in Keys /\ x \in target BY <1>1, <1>3, <2>1
    <3>2. PICK d \in Keys : /\ d.name = r.name /\ (d = x \/ <<x, d>> \in bind)
                            /\ IsIn(row, d) \/ Waits(row, d)
      BY <1>3, <2>1, <3>1 DEF RepoInv, TablesHold, Bound
    <3>3. d # k BY <1>2, <1>4, <3>2
    <3>4. QED BY <1>3, <2>1, <3>2, <3>3
  <2>3. QED BY <1>1, <1>2, <1>4, <2>1, <2>2, DropKeeps
<1>5. CASE ~ row[k].element /\ k \notin target
  <2>1. /\ row' = [row EXCEPT ![k].status = IF row[k].fresh THEN "AVAILABLE" ELSE @,
                              ![k].fresh = FALSE, ![k].changed = FALSE]
        /\ UNCHANGED <<bind, target>>
    BY <1>5 DEF Build, Keep
  <2>2. /\ row' \in [Keys -> Rows \union {None}] /\ row'[k] \in Rows
        /\ \A x \in Keys \ {k} : row'[x] = row[x]
        /\ row'[k].installed = row[k].installed /\ row'[k].element = row[k].element
    BY <1>1, <2>1 DEF Rows
  <2>3. /\ \A x \in Keys : /\ IsIn(row', x) <=> IsIn(row, x)
                           /\ Waits(row', x) <=> Waits(row, x)
                           /\ row'[x] # None <=> row[x] # None
        /\ ~ IsIn(row, k) /\ ~ Waits(row, k)
    BY <1>1, <1>2, <1>5, <2>2, RecordIsRow DEF IsIn, Waits
  <2>4. OneInstalled(row') /\ OneLeft(row', target) /\ LeftIsChanged(row', target)
    BY <1>1, <1>5, <2>2, <2>3 DEF RepoInv, TablesHold, OneInstalled, OneLeft, LeftIsChanged
  <2>5. WaitsForLinked(row', target) /\ LinkedRuns(row') /\ DroppedUnlinked(row', target)
    BY <1>1, <2>2, <2>3 DEF RepoInv, TablesHold, WaitsForLinked, LinkedRuns, DroppedUnlinked
  <2>6. InstalledRuns(row') /\ Bound(row', bind, target)
    BY <1>1, <2>2, <2>3 DEF RepoInv, TablesHold, InstalledRuns, Bound
  <2>7. /\ SuccessorIsNew(row', target, builder.todo \ {k})
        /\ HandledRuns(row', target \ (builder.todo \ {k}))
    BY <1>1, <1>5, <2>2, <2>3 DEF SuccessorIsNew, HandledRuns
  <2>8. TablesHold(row', bind', target') BY <2>1, <2>4, <2>5, <2>6 DEF TablesHold
  <2>9. QED BY <1>1, <2>1, <2>2, <2>3, <2>7, <2>8, UpdateKept
<1>6. CASE row[k].element
  <2>1. /\ k \in target /\ k \in em.manifests /\ Waits(row, k)
        /\ \E t \in Keys : t.name = k.name /\ IsIn(row, t)
    BY <1>2, <1>6 DEF RepoInv, TablesHold, WaitsForLinked
  <2>2. Installed(k.name) # {} BY <2>1 DEF Installed, Present, IsIn
  <2>3. PICK new \in Installed(k.name) :
           IF TakesOver(new) THEN Drop(k) /\ bind' = HandOver(k, new)
           ELSE UNCHANGED <<row, bind, target>>
    BY <1>6, <2>2 DEF Build, Release
  <2>4. new \in Keys /\ new.name = k.name /\ IsIn(row, new) /\ new # k
    BY <1>2, <2>3 DEF Installed, Present, IsIn
  <2>5. k.name \in Names BY KeysTyped
  <2>6. /\ em.run[k.name] \in em.manifests /\ em.run[k.name].name = k.name
        /\ em.run[k.name] \in {k, new}
    <3>1. em.run[k.name] \in em.manifests /\ em.run[k.name].name = k.name
      BY <2>1, <2>5 DEF RepoInv, ManifestsRun
    <3>2. em.run[k.name] \in Keys BY <1>1, <3>1
    <3>3. CASE IsIn(row, em.run[k.name])
      BY <2>4, <3>1, <3>2, <3>3 DEF RepoInv, TablesHold, OneInstalled
    <3>4. CASE ~ IsIn(row, em.run[k.name])
      BY <1>2, <2>1, <3>1, <3>4 DEF RepoInv, TablesHold, OneLeft
    <3>5. QED BY <3>1, <3>3, <3>4
  <2>7. CASE TakesOver(new)
    <3>1. em.run[k.name] = new BY <2>4, <2>7, <1>1 DEF TakesOver, Listed
    <3>2. Drop(k) /\ bind' = HandOver(k, new) BY <2>3, <2>7
    <3>3. bind' \subseteq Bindings
      BY <1>1, <2>4, <3>2 DEF HandOver, Bindings
    <3>4. Bound(row', bind', target')
      <4> SUFFICES ASSUME NEW x \in target', IsIn(row', x), ~ row'[x].changed, NEW r \in Requires[x]
                   PROVE  \E d \in Keys : /\ d.name = r.name /\ (d = x \/ <<x, d>> \in bind')
                                          /\ IsIn(row', d) \/ Waits(row', d)
        BY DEF Bound
      <4>1. x # k /\ x \in Keys /\ x \in target BY <1>1, <1>3, <3>2
      <4>2. PICK d \in Keys : /\ d.name = r.name /\ (d = x \/ <<x, d>> \in bind)
                              /\ IsIn(row, d) \/ Waits(row, d)
        BY <1>3, <3>2, <4>1 DEF RepoInv, TablesHold, Bound
      <4>3. CASE d # k
        <5>1. d = x \/ <<x, d>> \in bind' BY <3>2, <4>1, <4>2, <4>3 DEF HandOver
        <5>2. QED BY <1>3, <3>2, <4>2, <4>3, <5>1
      <4>4. CASE d = k
        <5>1. <<x, new>> \in bind'
          <6>1. <<x, k>> \in bind /\ <<x, k>>[1] = x /\ <<x, k>>[2] = k BY <4>1, <4>2, <4>4
          <6>2. <<x, k>> \in {c \in bind : c[1] # k} BY <4>1, <6>1
          <6>3. QED BY <3>2, <6>1, <6>2 DEF HandOver
        <5>2. IsIn(row', new) BY <1>3, <2>4, <3>2
        <5>3. QED BY <2>4, <4>2, <4>4, <5>1, <5>2
      <4>5. QED BY <4>3, <4>4
    <3>5. \A j \in Keys : IsIn(row, j) /\ j.name = k.name => em.run[k.name] = j
      BY <2>4, <3>1 DEF RepoInv, TablesHold, OneInstalled
    <3>6. QED BY <1>1, <3>2, <3>3, <3>4, <3>5, DropKeeps
  <2>8. CASE ~ TakesOver(new)
    <3>1. UNCHANGED <<row, bind, target>> BY <2>3, <2>8
    <3>2. em.run[k.name] # new
      <4> SUFFICES ASSUME em.run[k.name] = new PROVE FALSE OBVIOUS
      <4>1. Listed[new] = [linked |-> TRUE] BY <2>4, <2>6 DEF Listed
      <4>2. [linked |-> TRUE] \in [linked : BOOLEAN] OBVIOUS
      <4>3. [linked |-> TRUE] # None BY <4>2, NoneAssumption
      <4>4. QED BY <2>8, <4>1, <4>3 DEF TakesOver
    <3>3. em.run[k.name] = k BY <2>6, <3>2
    <3>4. SuccessorIsNew(row, target, builder.todo \ {k})
      BY <1>1, <2>1 DEF SuccessorIsNew
    <3>5. HandledRuns(row, target \ (builder.todo \ {k}))
      BY <1>1, <2>1, <3>3 DEF HandledRuns
    <3>6. QED BY <1>1, <3>1, <3>4, <3>5, UpdateKept DEF RepoInv
  <2>9. QED BY <2>7, <2>8
<1>7. QED BY <1>4, <1>5, <1>6

\* The row of an installed version: what it needs is installed too, or it is refused.
LEMMA InstalledBuildKeeps ==
    ASSUME RepoInv, NEW k \in Keys, Build(k), row[k].installed
    PROVE  RepoInv'
<1>1. /\ k \in builder.todo /\ builder.phase = "update" /\ row[k] # None
      /\ builder' = [builder EXCEPT !.todo = builder.todo \ {k}] /\ UNCHANGED em
      /\ SuccessorIsNew(row, target, builder.todo) /\ HandledRuns(row, target \ builder.todo)
      /\ row \in [Keys -> Rows \union {None}] /\ row[k] \in Rows
      /\ target \subseteq Keys /\ em.manifests \subseteq Keys /\ bind \subseteq Bindings
  BY DEF Build, RepoInv, RepoTyped, Iteration
<1>2. IsIn(row, k) BY <1>1 DEF IsIn
<1>3. CASE ~ DependenciesAvailable(k)
  <2>1. row' = [row EXCEPT ![k].status = "ERROR"] /\ UNCHANGED <<bind, target>>
    BY <1>3 DEF Build, Refuse
  <2>2. /\ row' \in [Keys -> Rows \union {None}] /\ row'[k] \in Rows
        /\ \A x \in Keys \ {k} : row'[x] = row[x]
        /\ row'[k].installed = row[k].installed /\ row'[k].element = row[k].element
        /\ row'[k].changed = row[k].changed
    BY <1>1, <2>1 DEF Rows
  <2>3. \A x \in Keys : /\ IsIn(row', x) <=> IsIn(row, x)
                        /\ Waits(row', x) <=> Waits(row, x)
                        /\ row'[x] # None <=> row[x] # None
                        /\ row[x] # None => /\ row'[x].element = row[x].element
                                            /\ row'[x].changed = row[x].changed
    BY <1>1, <2>2, RecordIsRow DEF IsIn, Waits
  <2>4. OneInstalled(row') /\ OneLeft(row', target) /\ LeftIsChanged(row', target)
    BY <1>1, <2>3 DEF RepoInv, TablesHold, OneInstalled, OneLeft, LeftIsChanged
  <2>5. WaitsForLinked(row', target) /\ LinkedRuns(row') /\ DroppedUnlinked(row', target)
    BY <1>1, <2>3
       DEF RepoInv, TablesHold, OneLeft, WaitsForLinked, LinkedRuns, DroppedUnlinked, IsIn
  <2>6. InstalledRuns(row') /\ Bound(row', bind, target)
    BY <1>1, <2>2, <2>3 DEF RepoInv, TablesHold, InstalledRuns, Bound
  <2>7. SuccessorIsNew(row', target, builder.todo \ {k})
    BY <1>1, <1>2, <2>2, <2>3 DEF SuccessorIsNew, IsIn
  <2>8. HandledRuns(row', target \ (builder.todo \ {k}))
    BY <1>1, <1>2, <2>3 DEF HandledRuns
  <2>9. TablesHold(row', bind', target') BY <2>1, <2>4, <2>5, <2>6 DEF TablesHold
  <2>10. QED BY <1>1, <2>1, <2>2, <2>3, <2>7, <2>8, <2>9, UpdateKept
<1>4. CASE DependenciesAvailable(k)
  <2> DEFINE new == {d \in Closure(k) \ {k} : ~ row[d].installed}
  <2>1. InstallManifest(k) /\ ~ Clash(k) BY <1>4 DEF Build, Raises
  <2>2. /\ row' = [x \in Keys |->
                      IF x = k THEN [row[x] EXCEPT !.status = "IN_PROGRESS", !.fresh = FALSE,
                                                   !.changed = FALSE, !.synced = None]
                      ELSE IF x \in new
                           THEN [row[x] EXCEPT !.installed = TRUE, !.changed = TRUE]
                      ELSE row[x]]
        /\ bind' = bind \union {<<k, d>> : d \in Closure(k) \ {k}}
        /\ target' = target \union {k}
    BY <2>1 DEF InstallManifest
  <2>3. /\ new \subseteq Keys /\ k \notin new
        /\ \A d \in new : row[d] # None /\ ~ IsIn(row, d)
        /\ \A d \in new : \A x \in Keys : x.name = d.name => ~ IsIn(row, x)
    BY ClosureHas DEF IsIn, Installed, Present
  <2>4. \A d, e \in new : d.name = e.name => d = e
    BY <2>1 DEF Clash
  <2> HIDE DEF new
  <2>5. \A d \in new : ~ Waits(row, d) /\ ~ row[d].element /\ d.name # k.name
    <3>1. ASSUME NEW d \in new PROVE ~ Waits(row, d)
      BY <2>3, <3>1 DEF RepoInv, TablesHold, WaitsForLinked
    <3>2. QED BY <1>2, <2>3, <3>1 DEF IsIn, Waits
  <2>6. /\ row' \in [Keys -> Rows \union {None}] /\ row'[k] \in Rows
        /\ row'[k].installed /\ row'[k].element = row[k].element /\ ~ row'[k].changed
        /\ \A x \in Keys \ ({k} \union new) : row'[x] = row[x]
    BY <1>1, <2>2, <2>3 DEF Rows, Reports
  <2>7. \A d \in new : /\ row'[d] \in Rows /\ row'[d].installed /\ row'[d].changed
                       /\ row'[d].element = row[d].element
    BY <1>1, <2>2, <2>3 DEF Rows, Reports
  <2>8. \A x \in Keys : /\ IsIn(row', x) <=> IsIn(row, x) \/ x \in new
                        /\ Waits(row', x) <=> Waits(row, x)
                        /\ row'[x] # None <=> row[x] # None
                        /\ row[x] # None => row'[x].element = row[x].element
    BY <1>1, <1>2, <2>3, <2>5, <2>6, <2>7, RecordIsRow DEF IsIn, Waits
  <2>9. OneInstalled(row')
    BY <2>3, <2>4, <2>8 DEF RepoInv, TablesHold, OneInstalled
  <2>10. OneLeft(row', target') /\ LeftIsChanged(row', target')
    <3>1. \A x \in target' \union em.manifests : /\ x \in Keys
                                                 /\ x = k \/ x \in target \union em.manifests
      BY <1>1, <2>2
    <3>2. OneLeft(row, target) /\ LeftIsChanged(row, target) BY DEF RepoInv, TablesHold
    <3>3. OneLeft(row', target') BY <1>1, <1>2, <2>8, <3>1, <3>2 DEF OneLeft
    <3>4. ASSUME NEW x \in target', ~ IsIn(row', x) PROVE row'[x].changed
      <4>1. x \in Keys /\ x \in target /\ x # k /\ x \notin new /\ ~ IsIn(row, x)
        BY <1>1, <1>2, <2>2, <2>8, <3>4
      <4>2. QED BY <2>6, <3>2, <4>1 DEF LeftIsChanged
    <3>5. QED BY <3>3, <3>4 DEF LeftIsChanged
  <2>11. WaitsForLinked(row', target')
    <3> SUFFICES ASSUME NEW x \in Keys, Waits(row', x)
                 PROVE  /\ x \in target' /\ x \in em.manifests
                        /\ \E t \in Keys : t.name = x.name /\ IsIn(row', t) /\ row'[t].element
      BY DEF WaitsForLinked
    <3>1. /\ x \in target /\ x \in em.manifests
          /\ \E t \in Keys : t.name = x.name /\ IsIn(row, t) /\ row[t].element
      BY <2>8 DEF RepoInv, TablesHold, WaitsForLinked
    <3>2. PICK t \in Keys : t.name = x.name /\ IsIn(row, t) /\ row[t].element BY <3>1
    <3>3. IsIn(row', t) /\ row'[t].element BY <2>8, <3>2 DEF IsIn
    <3>4. QED BY <2>2, <3>1, <3>2, <3>3
  <2>12. LinkedRuns(row')
    <3> SUFFICES ASSUME NEW x \in Keys, IsIn(row', x), row'[x].element
                 PROVE  em.run[x.name] = x \/ \E y \in Keys : Waits(row', y) /\ y.name = x.name
      BY DEF LinkedRuns
    <3>1. IsIn(row, x) /\ row[x].element BY <2>3, <2>5, <2>8 DEF IsIn
    <3>2. em.run[x.name] = x \/ \E y \in Keys : Waits(row, y) /\ y.name = x.name
      BY <3>1 DEF RepoInv, TablesHold, LinkedRuns
    <3>3. QED BY <2>8, <3>2
  <2>13. DroppedUnlinked(row', target')
    <3> SUFFICES ASSUME NEW x \in em.manifests, IsIn(row', x), x \notin target'
                 PROVE  /\ ~ row'[x].element
                        /\ \A j \in target' \union em.manifests : j.name = x.name => j = x
      BY DEF DroppedUnlinked
    <3>1. x \in Keys /\ x # k /\ x \notin target BY <1>1, <2>2
    <3>2. CASE x \in new
      <4>1. ~ row'[x].element BY <2>5, <2>7, <3>2
      <4>2. ASSUME NEW j \in target' \union em.manifests, j.name = x.name PROVE j = x
        <5>1. j \in Keys /\ j # k /\ j \in target \union em.manifests
          BY <1>1, <2>2, <2>5, <3>2, <4>2
        <5>2. ~ IsIn(row, j) /\ ~ IsIn(row, x) BY <2>3, <3>2, <4>2, <5>1
        <5>3. QED BY <4>2, <5>1, <5>2 DEF RepoInv, TablesHold, OneLeft
      <4>3. QED BY <4>1, <4>2
    <3>3. CASE x \notin new
      <4>1. IsIn(row, x) BY <2>8, <3>1, <3>3
      <4>2. ~ row[x].element /\ \A j \in target \union em.manifests : j.name = x.name => j = x
        BY <3>1, <4>1 DEF RepoInv, TablesHold, DroppedUnlinked
      <4>3. k.name # x.name BY <1>2, <3>1, <4>1 DEF RepoInv, TablesHold, OneInstalled
      <4>4. ~ row'[x].element BY <2>6, <3>1, <3>3, <4>2
      <4>5. QED BY <2>2, <4>2, <4>3, <4>4
    <3>4. QED BY <3>2, <3>3
  <2>14. InstalledRuns(row')
    <3> SUFFICES ASSUME NEW t \in em.manifests, NEW x \in em.manifests,
                        IsIn(row', t), x # t, x.name = t.name
                 PROVE  em.run[t.name] = t
      BY DEF InstalledRuns
    <3>1. t \in Keys /\ x \in Keys BY <1>1
    <3>2. t \notin new
      BY <2>3, <3>1 DEF RepoInv, TablesHold, OneLeft
    <3>3. QED BY <2>8, <3>1, <3>2 DEF RepoInv, TablesHold, InstalledRuns
  <2>15. Bound(row', bind', target')
    <3> SUFFICES ASSUME NEW x \in target', IsIn(row', x), ~ row'[x].changed, NEW r \in Requires[x]
                 PROVE  \E d \in Keys : /\ d.name = r.name /\ (d = x \/ <<x, d>> \in bind')
                                        /\ IsIn(row', d) \/ Waits(row', d)
      BY DEF Bound
    <3>1. CASE x = k
      <4>1. ~ Unresolvable(r) BY <1>4, <3>1, ClosureHas DEF DependenciesAvailable
      <4>2. Selected(r) \in Closure(k) /\ Selected(r).name = r.name /\ Selected(r) \in Present
        BY <3>1, <4>1, ClosureHas, SelectedFits
      <4>3. Selected(r) = k \/ (Selected(r) # k /\ <<k, Selected(r)>> \in bind')
        BY <2>2, <4>2
      <4>4. IsIn(row, Selected(r)) \/ Selected(r) \in new
        BY <1>2, <4>2 DEF new, IsIn, Present
      <4>5. Selected(r) \in Keys /\ IsIn(row', Selected(r)) BY <2>8, <4>2, <4>4 DEF Present
      <4>6. QED BY <3>1, <4>2, <4>3, <4>5
    <3>2. CASE x # k
      <4>1. x \in Keys /\ x \in target /\ x \notin new BY <1>1, <2>2, <2>7, <3>2
      <4>2. IsIn(row, x) /\ ~ row[x].changed BY <2>6, <2>8, <3>2, <4>1
      <4>3. PICK d \in Keys : /\ d.name = r.name /\ (d = x \/ <<x, d>> \in bind)
                              /\ IsIn(row, d) \/ Waits(row, d)
        BY <4>1, <4>2 DEF RepoInv, TablesHold, Bound
      <4>4. QED BY <2>2, <2>8, <4>3
    <3>3. QED BY <3>1, <3>2
  <2>16. SuccessorIsNew(row', target', builder.todo \ {k})
    <3> SUFFICES ASSUME NEW x \in target', ~ IsIn(row', x), ~ Waits(row', x)
                 PROVE  /\ x \in builder.todo \ {k}
                        /\ \A t \in Keys : t.name = x.name /\ IsIn(row', t) =>
                              t \notin em.manifests /\ ~ row'[t].element
      BY DEF SuccessorIsNew
    <3>1. x \in Keys /\ x # k /\ x \in target /\ ~ IsIn(row, x) /\ ~ Waits(row, x) /\ x \notin new
      BY <1>1, <1>2, <2>2, <2>8
    <3>2. /\ x \in builder.todo
          /\ \A t \in Keys : t.name = x.name /\ IsIn(row, t) =>
                t \notin em.manifests /\ ~ row[t].element
      BY <1>1, <3>1 DEF SuccessorIsNew
    <3>3. ASSUME NEW t \in Keys, t.name = x.name, IsIn(row', t)
          PROVE  t \notin em.manifests /\ ~ row'[t].element
      <4>1. CASE IsIn(row, t) BY <2>8, <3>2, <3>3, <4>1 DEF IsIn
      <4>2. CASE t \in new
        <5>1. ~ row'[t].element /\ ~ IsIn(row, t) /\ t # x BY <2>3, <2>5, <2>7, <3>1, <4>2
        <5>2. t \notin em.manifests
          BY <3>1, <3>3, <5>1 DEF RepoInv, TablesHold, OneLeft
        <5>3. QED BY <5>1, <5>2
      <4>3. QED BY <2>8, <3>3, <4>1, <4>2
    <3>4. QED BY <3>1, <3>2, <3>3
  <2>17. HandledRuns(row', target' \ (builder.todo \ {k}))
    BY <1>1, <1>2, <2>2, <2>8 DEF HandledRuns
  <2>18. TablesHold(row', bind', target')
    BY <2>9, <2>10, <2>11, <2>12, <2>13, <2>14, <2>15 DEF TablesHold
  <2>19. target' \subseteq Keys /\ bind' \subseteq Bindings
    <3>1. \A d \in Closure(k) : d \in Keys BY ClosureHas
    <3>2. \A d \in Closure(k) : <<k, d>> \in Bindings BY <3>1 DEF Bindings
    <3>3. QED BY <1>1, <2>2, <3>2
  <2>20. QED BY <1>1, <2>6, <2>8, <2>16, <2>17, <2>18, <2>19, UpdateKept
<1>5. QED BY <1>3, <1>4

\* A report is copied: whether the manifest is that of the running element.
LEMMA ActualizeKeeps ==
    ASSUME RepoInv, NEW k \in Keys, ActualizeElement(k)
    PROVE  RepoInv'
<1>1. /\ k \in builder.todo /\ builder.phase = "outdated"
      /\ builder'.phase = "outdated" /\ builder'.todo = builder.todo \ {k}
      /\ builder'.before = builder.before
      /\ builder' = [phase |-> builder'.phase, todo |-> builder'.todo, before |-> builder'.before]
      /\ UNCHANGED <<bind, target, em>>
      /\ HandledRuns(row, target) /\ builder.todo \subseteq target
      /\ row \in [Keys -> Rows \union {None}] /\ target \subseteq Keys /\ em.manifests \subseteq Keys
  BY DEF ActualizeElement, RepoInv, RepoTyped, Iteration
<1>2. row[k] # None /\ row[k] \in Rows /\ k \in target
  BY <1>1 DEF RepoInv, TablesHold, OneLeft
<1>3. ASSUME Listed[k] # None
      PROVE  Listed[k] \in [linked : BOOLEAN] /\ (Listed[k].linked <=> em.run[k.name] = k)
  <2>1. CASE em.run[k.name] = k
    <3>1. Listed[k] = [linked |-> TRUE] BY <1>3, <2>1 DEF Listed
    <3>2. QED BY <2>1, <3>1
  <2>2. CASE em.run[k.name] # k
    <3>1. Listed[k] = [linked |-> FALSE] BY <1>3, <2>2 DEF Listed
    <3>2. QED BY <2>2, <3>1
  <2>3. QED BY <2>1, <2>2
<1>4. /\ row' \in [Keys -> Rows \union {None}] /\ \A x \in Keys \ {k} : row'[x] = row[x]
      /\ row'[k] \in Rows /\ row'[k].installed = row[k].installed
      /\ row'[k].changed = row[k].changed
  <2>1. CASE Listed[k] = None BY <1>1, <1>2, <2>1 DEF ActualizeElement
  <2>2. CASE Listed[k] # None
    <3>1. Listed[k].linked \in BOOLEAN /\ Listed[k] \in Reports BY <1>3, <2>2 DEF Reports
    <3>2. row' = [row EXCEPT ![k].element = Listed[k].linked, ![k].status = "ACTIVE",
                             ![k].synced = Listed[k]]
      BY <2>2 DEF ActualizeElement
    <3>3. QED BY <1>1, <1>2, <3>1, <3>2 DEF Rows
  <2>3. QED BY <2>1, <2>2
<1>5. row'[k].element = row[k].element \/ (row'[k].element <=> em.run[k.name] = k)
  <2>1. CASE Listed[k] = None BY <2>1 DEF ActualizeElement
  <2>2. CASE Listed[k] # None
    <3>1. Listed[k].linked <=> em.run[k.name] = k BY <1>3, <2>2
    <3>2. row' = [row EXCEPT ![k].element = Listed[k].linked, ![k].status = "ACTIVE",
                             ![k].synced = Listed[k]]
      BY <2>2 DEF ActualizeElement
    <3>3. row'[k].element = Listed[k].linked BY <1>1, <1>2, <3>2 DEF Rows
    <3>4. QED BY <3>1, <3>3
  <2>3. QED BY <2>1, <2>2
<1>6. ~ IsIn(row, k) => Waits(row, k) /\ em.run[k.name] = k
  BY <1>1, <1>2 DEF HandledRuns
<1>7. \A x \in Keys : /\ IsIn(row', x) <=> IsIn(row, x)
                      /\ Waits(row', x) <=> Waits(row, x)
                      /\ row'[x] # None <=> row[x] # None
                      /\ row[x] # None => row'[x].changed = row[x].changed
  <2>1. /\ IsIn(row', k) <=> IsIn(row, k)
        /\ row'[k] # None
    BY <1>2, <1>4, RecordIsRow DEF IsIn
  <2>2. Waits(row', k) <=> Waits(row, k)
    BY <1>2, <1>4, <1>5, <1>6, <2>1 DEF IsIn, Waits
  <2>3. QED BY <1>2, <1>4, <2>1, <2>2 DEF IsIn, Waits
<1>8. OneInstalled(row') /\ OneLeft(row', target) /\ LeftIsChanged(row', target)
  BY <1>1, <1>7 DEF RepoInv, TablesHold, OneInstalled, OneLeft, LeftIsChanged
<1>9. WaitsForLinked(row', target)
  <2> SUFFICES ASSUME NEW x \in Keys, Waits(row', x)
               PROVE  /\ x \in target /\ x \in em.manifests
                      /\ \E t \in Keys : t.name = x.name /\ IsIn(row', t) /\ row'[t].element
    BY DEF WaitsForLinked
  <2>1. /\ x \in target /\ x \in em.manifests /\ ~ IsIn(row, x)
        /\ \E t \in Keys : t.name = x.name /\ IsIn(row, t) /\ row[t].element
    BY <1>7 DEF RepoInv, TablesHold, WaitsForLinked, Waits, IsIn
  <2>2. PICK t \in Keys : t.name = x.name /\ IsIn(row, t) /\ row[t].element BY <2>1
  <2>3. CASE t # k BY <1>4, <1>7, <2>1, <2>2, <2>3
  <2>4. CASE t = k
    <3>1. em.run[x.name] = x /\ x # k BY <1>1, <2>1, <2>2, <2>4 DEF HandledRuns
    <3>2. k \notin em.manifests
      BY <2>1, <2>2, <2>4, <3>1 DEF RepoInv, TablesHold, InstalledRuns
    <3>3. row' = row BY <3>2 DEF ActualizeElement, Listed
    <3>4. QED BY <2>1, <2>2, <3>3
  <2>5. QED BY <2>3, <2>4
<1>10. LinkedRuns(row') /\ DroppedUnlinked(row', target)
  BY <1>1, <1>2, <1>4, <1>5, <1>7 DEF RepoInv, TablesHold, LinkedRuns, DroppedUnlinked
<1>11. InstalledRuns(row') /\ Bound(row', bind, target)
  <2>1. InstalledRuns(row') BY <1>1, <1>7 DEF RepoInv, TablesHold, InstalledRuns
  <2>2. Bound(row', bind, target)
    BY <1>1, <1>7 DEF RepoInv, TablesHold, OneLeft, Bound
  <2>3. QED BY <2>1, <2>2
<1>12. TablesHold(row, bind, target)'
  BY <1>1, <1>8, <1>9, <1>10, <1>11, TablesAfter DEF TablesHold
<1>13. HandledRuns(row', target) BY <1>1, <1>7 DEF HandledRuns
<1>14. HandledRuns(row, target)' BY <1>1, <1>13 DEF HandledRuns, IsIn, Waits
<1>15. Iteration' BY <1>1, <1>14 DEF Iteration
<1>16. RepoTyped' BY <1>1, <1>4 DEF RepoInv, RepoTyped
<1>17. ManifestsRun' BY <1>1 DEF RepoInv, ManifestsRun
<1>18. QED BY <1>12, <1>15, <1>16, <1>17 DEF RepoInv

\* The agent creates a manifest, and its element runs.
LEMMA CreateKeeps ==
    ASSUME RepoInv, NEW k \in Keys, AgentCreates(k)
    PROVE  RepoInv'
<1>1. /\ builder.phase = "idle" /\ k \in target /\ k \notin em.manifests
      /\ em' = [manifests |-> em.manifests \union {k}, run |-> [em.run EXCEPT ![k.name] = k]]
      /\ UNCHANGED <<row, bind, target, builder>>
      /\ em.run \in [Names -> Keys \union {None}] /\ em.manifests \subseteq Keys
      /\ target \subseteq Keys /\ k.name \in Names /\ NoSuccessor(row, target)
      /\ k # None
  BY KeysTyped, NoneAssumption DEF AgentCreates, RepoInv, RepoTyped, Iteration
<1>2. /\ em'.manifests = em.manifests \union {k} /\ em'.run \in [Names -> Keys \union {None}]
      /\ em'.run[k.name] = k /\ \A n \in Names \ {k.name} : em'.run[n] = em.run[n]
      /\ em' = [manifests |-> em'.manifests, run |-> em'.run]
      /\ target \union em'.manifests = target \union em.manifests
  BY <1>1
<1>3. ~ IsIn(row, k) => \A j \in Keys : j.name = k.name => ~ IsIn(row, j)
  <2>1. ~ Waits(row, k) BY <1>1 DEF RepoInv, TablesHold, WaitsForLinked
  <2>2. QED BY <1>1, <2>1 DEF NoSuccessor
<1>4. \A j \in Keys : j.name = k.name /\ IsIn(row, j) => j = k
  BY <1>3 DEF RepoInv, TablesHold, OneInstalled
<1>5. ManifestsRun'
  <2>1. ASSUME NEW n \in Names, em'.run[n] # None
        PROVE  em'.run[n] \in em'.manifests /\ em'.run[n].name = n
    <3>1. CASE n = k.name BY <1>2, <3>1
    <3>2. CASE n # k.name BY <1>2, <2>1, <3>2 DEF RepoInv, ManifestsRun
    <3>3. QED BY <3>1, <3>2
  <2>2. ASSUME NEW j \in em'.manifests PROVE em'.run[j.name] # None
    <3>1. CASE j.name = k.name BY <1>1, <1>2, <3>1
    <3>2. CASE j.name # k.name
      <4>1. j \in em.manifests /\ j.name \in Names BY <1>1, <1>2, <2>2, <3>2, KeysTyped
      <4>2. QED BY <1>2, <3>2, <4>1 DEF RepoInv, ManifestsRun
    <3>3. QED BY <3>1, <3>2
  <2>3. QED BY <2>1, <2>2 DEF ManifestsRun
<1>6. OneInstalled(row)' /\ LeftIsChanged(row, target)' /\ Bound(row, bind, target)'
  BY <1>1 DEF RepoInv, TablesHold, OneInstalled, LeftIsChanged, Bound, IsIn, Waits
<1>7. OneLeft(row, target)' BY <1>1, <1>2 DEF RepoInv, TablesHold, OneLeft, IsIn
<1>8. WaitsForLinked(row, target)'
  BY <1>1, <1>2 DEF RepoInv, TablesHold, WaitsForLinked, IsIn, Waits
<1>9. LinkedRuns(row)'
  <2>1. ASSUME NEW j \in Keys, IsIn(row, j), row[j].element
        PROVE  em'.run[j.name] = j \/ \E x \in Keys : Waits(row, x) /\ x.name = j.name
    <3>1. CASE j.name = k.name BY <1>2, <1>4, <2>1, <3>1
    <3>2. CASE j.name # k.name
      BY <1>2, <2>1, <3>2, KeysTyped DEF RepoInv, TablesHold, LinkedRuns
    <3>3. QED BY <3>1, <3>2
  <2>2. QED BY <1>1, <2>1 DEF LinkedRuns, IsIn, Waits
<1>10. DroppedUnlinked(row, target)'
  <2>1. ASSUME NEW j \in em'.manifests, IsIn(row, j), j \notin target
        PROVE  ~ row[j].element /\ \A x \in target \union em'.manifests : x.name = j.name => x = j
    BY <1>1, <1>2, <2>1 DEF RepoInv, TablesHold, DroppedUnlinked
  <2>2. QED BY <1>1, <2>1 DEF DroppedUnlinked, IsIn
<1>11. InstalledRuns(row)'
  <2>1. ASSUME NEW t \in em'.manifests, NEW x \in em'.manifests, IsIn(row, t), x # t,
               x.name = t.name
        PROVE  em'.run[t.name] = t
    <3>1. CASE t.name = k.name BY <1>1, <1>2, <1>4, <2>1, <3>1
    <3>2. CASE t.name # k.name
      <4>1. t \in em.manifests /\ x \in em.manifests /\ t.name \in Names
        BY <1>1, <1>2, <2>1, <3>2, KeysTyped
      <4>2. QED BY <1>2, <2>1, <3>2, <4>1 DEF RepoInv, TablesHold, InstalledRuns
    <3>3. QED BY <3>1, <3>2
  <2>2. QED BY <1>1, <2>1 DEF InstalledRuns, IsIn
<1>12. TablesHold(row, bind, target)' BY <1>6, <1>7, <1>8, <1>9, <1>10, <1>11 DEF TablesHold
<1>13. NoSuccessor(row, target)' BY <1>1 DEF NoSuccessor, IsIn, Waits
<1>14. Iteration' BY <1>1, <1>13 DEF Iteration
<1>15. RepoTyped' BY <1>1, <1>2 DEF RepoInv, RepoTyped
<1>16. QED BY <1>5, <1>12, <1>14, <1>15 DEF RepoInv

\* A manifest that runs and has no target is the only one of its element, and no version
\* waits.
LEMMA DeletedAlone ==
    ASSUME RepoInv, NEW k \in em.manifests, k \notin target, em.run[k.name] = k
    PROVE  /\ \A j \in em.manifests : j.name = k.name => j = k
           /\ \A x \in Keys : x.name = k.name => ~ Waits(row, x)
<1>1. em.manifests \subseteq Keys /\ target \subseteq Keys BY DEF RepoInv, RepoTyped
<1>2. ASSUME NEW j \in em.manifests, j.name = k.name PROVE j = k
  <2>1. CASE IsIn(row, k) BY <1>2, <2>1 DEF RepoInv, TablesHold, DroppedUnlinked
  <2>2. CASE ~ IsIn(row, k) /\ ~ IsIn(row, j) BY <1>2, <2>2 DEF RepoInv, TablesHold, OneLeft
  <2>3. CASE ~ IsIn(row, k) /\ IsIn(row, j) BY <1>2, <2>3 DEF RepoInv, TablesHold, InstalledRuns
  <2>4. QED BY <2>1, <2>2, <2>3
<1>3. ASSUME NEW x \in Keys, x.name = k.name, Waits(row, x) PROVE FALSE
  <2>1. x \in target /\ x \in em.manifests BY <1>3 DEF RepoInv, TablesHold, WaitsForLinked
  <2>2. QED BY <1>2, <1>3, <2>1
<1>4. QED BY <1>2, <1>3

\* The agent deletes a manifest, and its element if it is the one that runs.
LEMMA DeleteKeeps ==
    ASSUME RepoInv, NEW k \in Keys, AgentDeletes(k)
    PROVE  RepoInv'
<1> DEFINE runs == em.run[k.name] = k
<1>1. /\ builder.phase = "idle" /\ k \in em.manifests /\ k \notin target
      /\ em' = [manifests |-> em.manifests \ {k},
                run |-> IF runs THEN [em.run EXCEPT ![k.name] = None] ELSE em.run]
      /\ row' = [x \in Keys |-> IF runs /\ x.name = k.name /\ row[x] # None
                                THEN [row[x] EXCEPT !.element = FALSE] ELSE row[x]]
      /\ UNCHANGED <<bind, target, builder>>
      /\ em.run \in [Names -> Keys \union {None}] /\ em.manifests \subseteq Keys
      /\ row \in [Keys -> Rows \union {None}]
      /\ target \subseteq Keys /\ k.name \in Names /\ NoSuccessor(row, target)
  BY KeysTyped DEF AgentDeletes, RepoInv, RepoTyped, Iteration
<1>2. /\ runs => \A j \in em.manifests : j.name = k.name => j = k
      /\ runs => \A x \in Keys : x.name = k.name => ~ Waits(row, x)
  BY <1>1, DeletedAlone
<1>3. /\ em'.manifests = em.manifests \ {k} /\ em'.run \in [Names -> Keys \union {None}]
      /\ \A n \in Names : n # k.name \/ ~ runs => em'.run[n] = em.run[n]
      /\ runs => em'.run[k.name] = None
      /\ em' = [manifests |-> em'.manifests, run |-> em'.run]
  BY <1>1
<1>4. /\ row' \in [Keys -> Rows \union {None}]
      /\ \A x \in Keys : x.name # k.name \/ ~ runs => row'[x] = row[x]
      /\ \A x \in Keys : row[x] # None =>
            /\ row'[x] \in Rows /\ row'[x].installed = row[x].installed
            /\ row'[x].changed = row[x].changed /\ (row'[x].element => row[x].element)
            /\ runs /\ x.name = k.name => ~ row'[x].element
      /\ \A x \in Keys : row[x] = None => row'[x] = None
  BY <1>1 DEF Rows
<1> HIDE DEF runs
<1>5. \A x \in Keys : /\ IsIn(row', x) <=> IsIn(row, x)
                      /\ row'[x] # None <=> row[x] # None
  BY <1>4, RecordIsRow DEF IsIn
<1>6. \A x \in Keys : Waits(row', x) <=> Waits(row, x)
  <2>1. ASSUME NEW x \in Keys PROVE Waits(row', x) <=> Waits(row, x)
    <3>1. CASE x.name # k.name \/ ~ runs BY <1>4, <3>1 DEF Waits
    <3>2. CASE runs /\ x.name = k.name BY <1>2, <1>4, <1>5, <3>2 DEF Waits
    <3>3. QED BY <3>1, <3>2
  <2>2. QED BY <2>1
<1>7. ManifestsRun'
  <2>1. ASSUME NEW n \in Names, em'.run[n] # None
        PROVE  em'.run[n] \in em'.manifests /\ em'.run[n].name = n
    <3>1. n # k.name \/ ~ runs BY <1>3, <2>1
    <3>2. em.run[n] \in em.manifests /\ em.run[n].name = n /\ em'.run[n] = em.run[n]
      BY <1>3, <2>1, <3>1 DEF RepoInv, ManifestsRun
    <3>3. em.run[n] # k BY <3>1, <3>2 DEF runs
    <3>4. QED BY <1>3, <3>2, <3>3
  <2>2. ASSUME NEW j \in em'.manifests PROVE em'.run[j.name] # None
    <3>1. j \in em.manifests /\ j # k /\ j.name \in Names BY <1>1, <1>3, <2>2, KeysTyped
    <3>2. j.name # k.name \/ ~ runs BY <1>2, <3>1
    <3>3. QED BY <1>3, <3>1, <3>2 DEF RepoInv, ManifestsRun
  <2>3. QED BY <2>1, <2>2 DEF ManifestsRun
<1>8. OneInstalled(row)'
  <2>1. OneInstalled(row') BY <1>5 DEF RepoInv, TablesHold, OneInstalled
  <2>2. QED BY <2>1 DEF OneInstalled, IsIn
<1>9. OneLeft(row, target)'
  <2>1. \A x \in target \union em'.manifests : x \in target \union em.manifests /\ x \in Keys
    BY <1>1, <1>3
  <2>2. /\ \A x \in target \union em'.manifests : row'[x] # None
        /\ \A x, y \in target \union em'.manifests :
              ~ IsIn(row', x) /\ ~ IsIn(row', y) /\ x.name = y.name => x = y
    BY <1>5, <2>1 DEF RepoInv, TablesHold, OneLeft
  <2>3. QED BY <1>1, <2>2 DEF OneLeft, IsIn
<1>10. LeftIsChanged(row, target)'
  <2>1. \A x \in target : ~ IsIn(row', x) => row'[x].changed
    BY <1>1, <1>4, <1>5 DEF RepoInv, TablesHold, OneLeft, LeftIsChanged
  <2>2. QED BY <1>1, <2>1 DEF LeftIsChanged, IsIn
<1>11. WaitsForLinked(row, target)'
  <2>1. ASSUME NEW x \in Keys, Waits(row', x)
        PROVE  /\ x \in target /\ x \in em'.manifests
               /\ \E t \in Keys : t.name = x.name /\ IsIn(row', t) /\ row'[t].element
    <3>1. Waits(row, x) /\ (x.name # k.name \/ ~ runs) BY <1>2, <1>6, <2>1
    <3>2. /\ x \in target /\ x \in em.manifests
          /\ \E t \in Keys : t.name = x.name /\ IsIn(row, t) /\ row[t].element
      BY <3>1 DEF RepoInv, TablesHold, WaitsForLinked
    <3>3. PICK t \in Keys : t.name = x.name /\ IsIn(row, t) /\ row[t].element BY <3>2
    <3>4. IsIn(row', t) /\ row'[t].element BY <1>4, <1>5, <3>1, <3>3
    <3>5. x \in em'.manifests BY <1>1, <1>3, <3>2
    <3>6. QED BY <3>2, <3>3, <3>4, <3>5
  <2>2. QED BY <1>1, <2>1 DEF WaitsForLinked, IsIn, Waits
<1>12. LinkedRuns(row)'
  <2>1. ASSUME NEW j \in Keys, IsIn(row', j), row'[j].element
        PROVE  em'.run[j.name] = j \/ \E x \in Keys : Waits(row', x) /\ x.name = j.name
    <3>1. IsIn(row, j) /\ row[j].element /\ (j.name # k.name \/ ~ runs) /\ j.name \in Names
      BY <1>4, <1>5, <2>1, KeysTyped DEF IsIn
    <3>2. em.run[j.name] = j \/ \E x \in Keys : Waits(row, x) /\ x.name = j.name
      BY <3>1 DEF RepoInv, TablesHold, LinkedRuns
    <3>3. em'.run[j.name] = em.run[j.name] BY <1>3, <3>1
    <3>4. QED BY <1>6, <3>2, <3>3
  <2>2. QED BY <2>1 DEF LinkedRuns, IsIn, Waits
<1>13. DroppedUnlinked(row, target)'
  <2>1. ASSUME NEW j \in em'.manifests, IsIn(row', j), j \notin target
        PROVE  ~ row'[j].element /\ \A x \in target \union em'.manifests : x.name = j.name => x = j
    <3>1. j \in em.manifests /\ j \in Keys /\ IsIn(row, j) /\ em'.manifests \subseteq em.manifests
      BY <1>1, <1>3, <1>5, <2>1
    <3>2. ~ row[j].element /\ \A x \in target \union em.manifests : x.name = j.name => x = j
      BY <2>1, <3>1 DEF RepoInv, TablesHold, DroppedUnlinked
    <3>3. ~ row'[j].element BY <1>4, <3>1, <3>2 DEF IsIn
    <3>4. QED BY <3>1, <3>2, <3>3
  <2>2. QED BY <1>1, <2>1 DEF DroppedUnlinked, IsIn
<1>14. InstalledRuns(row)'
  <2>1. ASSUME NEW t \in em'.manifests, NEW x \in em'.manifests, IsIn(row', t), x # t,
               x.name = t.name
        PROVE  em'.run[t.name] = t
    <3>1. t \in em.manifests /\ x \in em.manifests /\ t # k /\ t.name \in Names /\ IsIn(row, t)
      BY <1>1, <1>3, <1>5, <2>1, KeysTyped
    <3>2. t.name # k.name \/ ~ runs BY <1>2, <3>1
    <3>3. em.run[t.name] = t BY <2>1, <3>1 DEF RepoInv, TablesHold, InstalledRuns
    <3>4. QED BY <1>3, <3>1, <3>2, <3>3
  <2>2. QED BY <2>1 DEF InstalledRuns, IsIn
<1>15. Bound(row, bind, target)'
  <2>1. \A x \in Keys : IsIn(row', x) /\ ~ row'[x].changed => IsIn(row, x) /\ ~ row[x].changed
    BY <1>4, <1>5 DEF IsIn
  <2>2. Bound(row', bind, target)
    BY <1>1, <1>5, <1>6, <2>1 DEF RepoInv, TablesHold, Bound
  <2>3. QED BY <1>1, <2>2 DEF Bound, IsIn, Waits
<1>16. TablesHold(row, bind, target)'
  BY <1>8, <1>9, <1>10, <1>11, <1>12, <1>13, <1>14, <1>15 DEF TablesHold
<1>17. NoSuccessor(row, target)'
  <2>1. NoSuccessor(row', target) BY <1>1, <1>5, <1>6 DEF NoSuccessor
  <2>2. QED BY <1>1, <2>1 DEF NoSuccessor, IsIn, Waits
<1>18. Iteration' BY <1>1, <1>17 DEF Iteration
<1>19. RepoTyped' BY <1>1, <1>3, <1>4 DEF RepoInv, RepoTyped
<1>20. QED BY <1>7, <1>16, <1>18, <1>19 DEF RepoInv

-----------------------------------------------------------------------------
\* The invariant of the repository: for any elements, requirements and bounds.

\* It holds of what the repository builder has saved.
LEMMA RepoInvInit == RepoElementsInit => RepoInv
<1> SUFFICES ASSUME RepoElementsInit PROVE RepoInv OBVIOUS
<1> DEFINE first == [installed |-> FALSE, element |-> FALSE, fresh |-> TRUE,
                     changed |-> TRUE, status |-> "NEW", synced |-> None]
<1>1. /\ row = [k \in Keys |-> first] /\ bind = {} /\ target = {}
      /\ em = [manifests |-> {}, run |-> [n \in Names |-> None]]
      /\ builder = [phase |-> "idle", todo |-> {}, before |-> None]
  BY DEF RepoElementsInit
<1>2. first \in Rows /\ ~ first.installed /\ ~ first.element BY DEF Rows, Reports
<1> HIDE DEF first
<1>3. \A k \in Keys : ~ IsIn(row, k) /\ ~ Waits(row, k) BY <1>1, <1>2 DEF IsIn, Waits
<1>4. RepoTyped BY <1>1, <1>2 DEF RepoTyped
<1>5. ManifestsRun BY <1>1 DEF ManifestsRun
<1>6. TablesHold(row, bind, target)
  BY <1>1, <1>3 DEF TablesHold, OneInstalled, OneLeft, LeftIsChanged, WaitsForLinked, LinkedRuns,
                    DroppedUnlinked, InstalledRuns, Bound
<1>7. Iteration BY <1>1 DEF Iteration, NoSuccessor
<1>8. QED BY <1>4, <1>5, <1>6, <1>7 DEF RepoInv

\* Every step keeps it, where clients are careful.
LEMMA RepoInvStep == Careful /\ RepoInv /\ [RepoElementsNext]_repoVars => RepoInv'
<1> SUFFICES ASSUME Careful, RepoInv, [RepoElementsNext]_repoVars PROVE RepoInv' OBVIOUS
<1>1. CASE \E k \in Keys : Install(k) \/ Uninstall(k) \/ Edit(k) \/ DeleteRow(k)
  BY <1>1, InstallKeeps, UninstallKeeps, EditKeeps, DeleteRowKeeps
<1>2. CASE \E k, t \in Keys : Upgrade(k, t)
  BY <1>2, UpgradeKeeps
<1>3. CASE StartIteration \/ RollBack \/ EndUpdates \/ EndIteration
  BY <1>3, IterationKeeps
<1>4. CASE \E k \in Keys : Build(k)
  <2>1. PICK k \in Keys : Build(k) BY <1>4
  <2>2. CASE row[k].installed BY <2>1, <2>2, InstalledBuildKeeps
  <2>3. CASE ~ row[k].installed BY <2>1, <2>3, ReleaseKeeps
  <2>4. QED BY <2>2, <2>3
<1>5. CASE \E k \in Keys : ActualizeElement(k)
  BY <1>5, ActualizeKeeps
<1>6. CASE Agent
  BY <1>6, CreateKeeps, DeleteKeeps DEF Agent
<1>7. CASE UNCHANGED repoVars
  <2>1. UNCHANGED <<row, bind, target, em, builder>> BY <1>7 DEF repoVars
  <2>2. TablesHold(row, bind, target)' BY <2>1, TablesAfter DEF RepoInv
  <2>3. RepoTyped' /\ ManifestsRun' BY <2>1 DEF RepoInv, RepoTyped, ManifestsRun
  <2>4. Iteration'
    <3>1. CASE builder.phase = "idle"
      BY <2>1, <3>1 DEF RepoInv, Iteration, NoSuccessor, IsIn, Waits
    <3>2. CASE builder.phase = "outdated"
      BY <2>1, <3>2 DEF RepoInv, Iteration, HandledRuns, IsIn, Waits
    <3>3. CASE builder.phase = "update"
      <4>1. /\ SuccessorIsNew(row, target, builder.todo)
            /\ HandledRuns(row, target \ builder.todo)
            /\ \A k \in builder.todo : row[k] # None
            /\ builder.before # None
            /\ TablesHold(builder.before.row, builder.before.bind, builder.before.target)
            /\ NoSuccessor(builder.before.row, builder.before.target)
        BY <3>3 DEF RepoInv, Iteration
      <4>2. /\ SuccessorIsNew(row, target, builder.todo)'
            /\ HandledRuns(row, target \ builder.todo)'
        BY <2>1, <4>1 DEF SuccessorIsNew, HandledRuns, IsIn, Waits
      <4>3. /\ TablesHold(builder.before.row, builder.before.bind, builder.before.target)'
            /\ NoSuccessor(builder.before.row, builder.before.target)'
        BY <2>1, <4>1, BeforeAfter
      <4>4. QED BY <2>1, <3>3, <4>1, <4>2, <4>3 DEF Iteration
    <3>4. QED BY <3>1, <3>2, <3>3 DEF RepoInv, RepoTyped
  <2>5. QED BY <2>2, <2>3, <2>4 DEF RepoInv
<1>8. QED BY <1>1, <1>2, <1>3, <1>4, <1>5, <1>6, <1>7 DEF RepoElementsNext, Builder

\* Careful clients: what the builder has installed for an element stays installed, in
\* whatever version, as long as the element is. Uninstalling looks at the bindings, and an
\* upgrade hands them over to the version that takes the place of the other.
THEOREM DependenciesStay == Careful => (RepoElementsSpec => []DependencyKept)
<1> SUFFICES ASSUME Careful PROVE RepoElementsSpec => []DependencyKept OBVIOUS
<1>1. RepoInv /\ [RepoElementsNext]_repoVars => RepoInv' BY RepoInvStep
<1>2. RepoInv => DependencyKept
  <2> SUFFICES ASSUME RepoInv, NEW k \in target \intersect Present,
                      row[k].installed, ~ row[k].changed, NEW r \in Requires[k]
               PROVE  Installed(r.name) # {}
    BY DEF DependencyKept
  <2>1. IsIn(row, k) BY DEF IsIn, Present
  <2>2. PICK d \in Keys : d.name = r.name /\ (IsIn(row, d) \/ Waits(row, d))
    BY <2>1 DEF RepoInv, TablesHold, Bound
  <2>3. \E t \in Keys : t.name = r.name /\ IsIn(row, t)
    BY <2>2 DEF RepoInv, TablesHold, WaitsForLinked
  <2>4. QED BY <2>3 DEF Installed, Present, IsIn
<1>3. QED BY <1>1, <1>2, RepoInvInit, PTL DEF RepoElementsSpec

\* Careful clients: an element that runs keeps running while an installed version of it is
\* linked. The agent deletes a running manifest without a target only, and then no version
\* waits, so that the linked version would be the one that goes.
THEOREM ElementKeepsRunning == Careful => (RepoElementsSpec => NoGapInUpgrade)
<1> SUFFICES ASSUME Careful PROVE RepoElementsSpec => NoGapInUpgrade OBVIOUS
<1> DEFINE NoGap == \A n \in Names :
                       em.run[n] # None /\ (\E k \in Installed(n) : row[k].element)
                           => em'.run[n] # None
<1>1. RepoInv /\ [RepoElementsNext]_repoVars => RepoInv' BY RepoInvStep
<1>2. ASSUME RepoInv, [RepoElementsNext]_repoVars PROVE [NoGap]_repoVars
  <2> SUFFICES ASSUME NEW n \in Names, em.run[n] # None, NEW j \in Installed(n), row[j].element
               PROVE  em'.run[n] # None
    OBVIOUS
  <2>1. j \in Keys /\ j.name = n /\ IsIn(row, j) BY DEF Installed, Present, IsIn
  <2>2. CASE em' = em BY <2>2
  <2>3. ASSUME NEW k \in Keys, AgentCreates(k) PROVE em'.run[n] # None
    <3>1. em'.run = [em.run EXCEPT ![k.name] = k] /\ em.run \in [Names -> Keys \union {None}]
      BY <1>2, <2>3 DEF AgentCreates, RepoInv, RepoTyped
    <3>2. k # None BY NoneAssumption
    <3>3. QED BY <3>1, <3>2
  <2>4. ASSUME NEW k \in Keys, AgentDeletes(k) PROVE em'.run[n] # None
    <3>1. /\ k \in em.manifests /\ k \notin target
          /\ em'.run = IF em.run[k.name] = k THEN [em.run EXCEPT ![k.name] = None] ELSE em.run
          /\ em.run \in [Names -> Keys \union {None}]
      BY <1>2, <2>4 DEF AgentDeletes, RepoInv, RepoTyped
    <3>2. ASSUME em.run[k.name] = k, k.name = n PROVE FALSE
      <4>1. \A x \in Keys : x.name = n => ~ Waits(row, x) BY <1>2, <3>1, <3>2, DeletedAlone
      <4>2. em.run[n] = j BY <1>2, <2>1, <4>1 DEF RepoInv, TablesHold, LinkedRuns
      <4>3. QED BY <1>2, <2>1, <3>1, <3>2, <4>2 DEF RepoInv, TablesHold, DroppedUnlinked
    <3>3. QED BY <3>1, <3>2
  <2>5. CASE RepoElementsNext
    <3>1. CASE Agent BY <2>3, <2>4, <3>1 DEF Agent
    <3>2. CASE ~ Agent
      <4>1. em' = em
        BY <2>5, <3>2
           DEF RepoElementsNext, Builder, Install, Uninstall, Edit, DeleteRow, Upgrade, StartIteration,
               RollBack, EndUpdates, EndIteration, Build, ActualizeElement
      <4>2. QED BY <2>2, <4>1
    <3>3. QED BY <3>1, <3>2
  <2>6. CASE UNCHANGED repoVars BY <2>2, <2>6 DEF repoVars
  <2>7. QED BY <1>2, <2>5, <2>6
<1>3. QED BY <1>1, <1>2, RepoInvInit, PTL DEF RepoElementsSpec, NoGapInUpgrade

-----------------------------------------------------------------------------
\* The catalogue. A refresh decides by rows as it has read them, so that which of them is
\* the latest must not change under it: one stable version at most may be on its way out.

StableOf(rs) == {v \in Versions : rs[v] # Absent /\ rs[v].stable}

LatestOf(rs) == {v \in Versions : rs[v] # Absent /\ rs[v].latest}

\* Rows come from the source, which never offers again what it has withdrawn.
FromSource ==
    /\ Existing \union work.new \subseteq source.offered \union source.withdrawn
    /\ source.offered \intersect source.withdrawn = {}
    /\ work.gone \subseteq source.withdrawn

StableServed == Served \subseteq StableVersions

\* A row is added once.
NewIsNew == work.new \intersect Existing = {}

OneOnItsWayOut == \A x, y \in Coming \ source.offered : x = y

AtRest == work.phase = "idle" => work.new = {} /\ work.gone = {}

\* What is going to be removed still is as it was read, but for being installed.
ReadIsCurrent ==
    work.phase = "remove" =>
        \A v \in work.gone : /\ rows[v] # Absent /\ work.read[v] # Absent
                             /\ work.read[v].stable = rows[v].stable
                             /\ work.read[v].latest = rows[v].latest

CatalogueInv ==
    /\ CatalogueTypeOK /\ LatestIsGreatest
    /\ FromSource /\ StableServed /\ NewIsNew /\ OneOnItsWayOut /\ AtRest /\ ReadIsCurrent

\* The greatest of a set changes with the greatest alone.
LEMMA GreatestWithout ==
    ASSUME NEW S \in SUBSET Nat, NEW v \in S, v \notin Greatest(S)
    PROVE  Greatest(S \ {v}) = Greatest(S)
<1>1. PICK y \in S : ~ (y <= v) BY DEF Greatest
<1>2. ASSUME NEW m \in Greatest(S) PROVE m \in Greatest(S \ {v}) BY <1>2 DEF Greatest
<1>3. ASSUME NEW m \in Greatest(S \ {v}) PROVE m \in Greatest(S)
  <2>1. m \in S /\ \A x \in S \ {v} : x <= m BY DEF Greatest
  <2>2. y <= m BY <1>1, <2>1
  <2>3. v <= m BY <1>1, <2>1, <2>2
  <2>4. QED BY <2>1, <2>3 DEF Greatest
<1>4. QED BY <1>2, <1>3

LEMMA GreatestWith ==
    ASSUME NEW S \in SUBSET Nat, NEW v \in Nat, ~ \A x \in S : x <= v
    PROVE  Greatest(S \union {v}) = Greatest(S)
<1>1. PICK y \in S : ~ (y <= v) OBVIOUS
<1>2. ASSUME NEW m \in Greatest(S) PROVE m \in Greatest(S \union {v})
  <2>1. m \in S /\ \A x \in S : x <= m BY DEF Greatest
  <2>2. v <= m BY <1>1, <2>1
  <2>3. QED BY <2>1, <2>2 DEF Greatest
<1>3. ASSUME NEW m \in Greatest(S \union {v}) PROVE m \in Greatest(S)
  BY <1>1 DEF Greatest
<1>4. QED BY <1>2, <1>3

LEMMA GreatestNew ==
    ASSUME NEW S \in SUBSET Nat, NEW v \in Nat, \A x \in S : x <= v
    PROVE  Greatest(S \union {v}) = {v}
<1>1. v \in Greatest(S \union {v}) BY DEF Greatest
<1>2. ASSUME NEW m \in Greatest(S \union {v}) PROVE m = v
  <2>1. m \in Nat /\ v <= m /\ m <= v BY DEF Greatest
  <2>2. QED BY <2>1
<1>3. QED BY <1>1, <1>2

LEMMA LatestOfRows ==
    /\ Served = StableOf(rows)
    /\ LatestIsGreatest <=> LatestOf(rows) = Greatest(StableOf(rows))
BY DEF Served, Existing, StableOf, LatestOf, LatestIsGreatest

\* What the rows of a state are, as far as the invariant is about them.
LEMMA CatalogueRows ==
    ASSUME CatalogueTypeOK, NEW v \in Versions, rows[v] # Absent
    PROVE  rows[v] \in RepoRows
BY DEF CatalogueTypeOK

LEMMA CatalogueInvInit == CatalogueInit => CatalogueInv
<1> SUFFICES ASSUME CatalogueInit PROVE CatalogueInv OBVIOUS
<1>1. CatalogueTypeOK
  BY CatalogueAssumption DEF CatalogueInit, CatalogueTypeOK, Repositories, Idle
<1>2. Existing = {} /\ Served = {} /\ work.new = {} /\ work.gone = {} /\ work.phase = "idle"
  BY DEF CatalogueInit, Existing, Served, Idle
<1>3. LatestIsGreatest /\ OneOnItsWayOut
  BY <1>2 DEF LatestIsGreatest, OneOnItsWayOut, Coming, Greatest
<1>4. source.withdrawn = {} BY DEF CatalogueInit
<1>5. QED
  BY <1>1, <1>2, <1>3, <1>4
     DEF CatalogueInv, FromSource, StableServed, NewIsNew, AtRest, ReadIsCurrent

\* The source changes, and all but the rows stays.
LEMMA PublishKeepsCatalogue ==
    ASSUME CatalogueInv, NEW v \in Versions, Publish(v)
    PROVE  CatalogueInv'
<1>1. CatalogueTypeOK'
  BY CatalogueAssumption DEF CatalogueInv, CatalogueTypeOK, Publish
<1>2. /\ source'.offered = source.offered \union {v} /\ source'.withdrawn = source.withdrawn
      /\ v \notin source.withdrawn /\ rows' = rows /\ work' = work
  BY DEF CatalogueInv, CatalogueTypeOK, Publish
<1>3. Existing' = Existing /\ Served' = Served /\ Coming' = Coming
  BY <1>2 DEF Existing, Served, Coming
<1>4. LatestIsGreatest' BY <1>2, <1>3 DEF LatestIsGreatest, CatalogueInv
<1>5. FromSource' /\ NewIsNew' /\ OneOnItsWayOut'
  BY <1>2, <1>3 DEF CatalogueInv, FromSource, NewIsNew, OneOnItsWayOut
<1>6. AtRest' /\ ReadIsCurrent' /\ StableServed'
  BY <1>2, <1>3 DEF CatalogueInv, AtRest, ReadIsCurrent, StableServed
<1>7. QED BY <1>1, <1>4, <1>5, <1>6 DEF CatalogueInv

LEMMA WithdrawKeepsCatalogue ==
    ASSUME CatalogueInv, ~ Bulk, NEW v \in Versions, Withdraw(v)
    PROVE  CatalogueInv'
<1>1. CatalogueTypeOK'
  BY CatalogueAssumption DEF CatalogueInv, CatalogueTypeOK, Withdraw
<1>2. /\ source'.offered = source.offered \ {v}
      /\ source'.withdrawn = source.withdrawn \union {v}
      /\ v \notin StableVersions \/ Coming \subseteq source.offered
      /\ v \in source.offered /\ rows' = rows /\ work' = work
  BY DEF CatalogueInv, CatalogueTypeOK, Withdraw
<1>3. Existing' = Existing /\ Served' = Served /\ Coming' = Coming
  BY <1>2 DEF Existing, Served, Coming
<1>4. LatestIsGreatest' BY <1>2, <1>3 DEF LatestIsGreatest, CatalogueInv
<1>5. FromSource' /\ NewIsNew'
  BY <1>2, <1>3 DEF CatalogueInv, FromSource, NewIsNew
<1>6. Coming \subseteq StableVersions BY DEF CatalogueInv, StableServed, Coming
<1>7. OneOnItsWayOut'
  <2>1. CASE v \notin StableVersions
    <3>1. Coming \ source'.offered = Coming \ source.offered BY <1>2, <1>6, <2>1
    <3>2. QED BY <1>3, <3>1 DEF CatalogueInv, OneOnItsWayOut
  <2>2. CASE Coming \subseteq source.offered
    <3>1. Coming \ source'.offered \subseteq {v} BY <1>2, <2>2
    <3>2. QED BY <1>3, <3>1 DEF OneOnItsWayOut
  <2>3. QED BY <1>2, <2>1, <2>2
<1>8. AtRest' /\ ReadIsCurrent' /\ StableServed'
  BY <1>2, <1>3 DEF CatalogueInv, AtRest, ReadIsCurrent, StableServed
<1>9. QED BY <1>1, <1>4, <1>5, <1>7, <1>8 DEF CatalogueInv

\* Steps that leave the source and the rows alone: what a refresh still has to do becomes
\* less, or is begun.
LEMMA WorkKeepsCatalogue ==
    ASSUME CatalogueInv, CatalogueTypeOK', rows' = rows, source' = source,
           work'.new \subseteq source.offered \ Existing \/ work'.new = work.new,
           work'.gone \subseteq Existing \ source.offered \/ work'.gone \subseteq work.gone,
           AtRest', ReadIsCurrent'
    PROVE  CatalogueInv'
<1>1. Existing' = Existing /\ Served' = Served BY DEF Existing, Served
<1>2. LatestIsGreatest' /\ StableServed'
  BY <1>1 DEF LatestIsGreatest, StableServed, CatalogueInv
<1>3. FromSource' BY <1>1 DEF FromSource, CatalogueInv
<1>4. NewIsNew' BY <1>1 DEF NewIsNew, CatalogueInv
<1>5. Coming' \ source'.offered \subseteq Coming \ source.offered BY <1>1 DEF Coming
<1>6. OneOnItsWayOut' BY <1>5 DEF OneOnItsWayOut, CatalogueInv
<1>7. QED BY <1>2, <1>3, <1>4, <1>6 DEF CatalogueInv

LEMMA WorkStepsKeepCatalogue ==
    ASSUME CatalogueInv,
           \/ RequestRefresh \/ Elapse \/ CheckRefresh \/ Create \/ BeginRefresh
           \/ ReadStale \/ EndCreate \/ EndRefresh \/ FailRefresh
    PROVE  CatalogueInv'
<1> USE CatalogueAssumption
<1>1. CatalogueTypeOK BY DEF CatalogueInv
<1>2. ASSUME work' = work, rows' = rows, source' = source, CatalogueTypeOK'
      PROVE  CatalogueInv'
  <2>1. AtRest' /\ ReadIsCurrent' BY <1>2 DEF CatalogueInv, AtRest, ReadIsCurrent
  <2>2. QED BY <1>2, <2>1, WorkKeepsCatalogue
<1>3. CASE RequestRefresh \/ Elapse \/ CheckRefresh
  <2>1. work' = work /\ rows' = rows /\ source' = source
    BY <1>3 DEF RequestRefresh, Elapse, CheckRefresh
  <2>2. repo' \in Repositories
    BY <1>1, <1>3 DEF CatalogueTypeOK, Repositories, RequestRefresh, Elapse, CheckRefresh
  <2>3. CASE RequestRefresh
    <3>1. spent' = [spent EXCEPT !.calls = spent.calls + 1] /\ spent.calls < MaxCalls
      BY <2>3 DEF RequestRefresh, Call
    <3>2. CatalogueTypeOK' BY <1>1, <2>1, <2>2, <3>1 DEF CatalogueTypeOK
    <3>3. QED BY <1>2, <2>1, <3>2
  <2>4. CASE Elapse \/ CheckRefresh
    <3>1. spent' = spent BY <2>4 DEF Elapse, CheckRefresh
    <3>2. CatalogueTypeOK' BY <1>1, <2>1, <2>2, <3>1 DEF CatalogueTypeOK
    <3>3. QED BY <1>2, <2>1, <3>2
  <2>5. QED BY <1>3, <2>3, <2>4
<1>4. CASE Create
  <2>1. /\ work' = [phase |-> "create", new |-> source.offered \ Existing, gone |-> {},
                    read |-> [v \in Versions |-> Absent], asked |-> FALSE]
        /\ rows' = rows /\ source' = source /\ spent' = spent
        /\ repo' = [repo EXCEPT !.forced = FALSE]
    BY <1>4 DEF Create, Idle
  <2>2. CatalogueTypeOK' BY <1>1, <2>1 DEF CatalogueTypeOK, Repositories, Existing
  <2>3. AtRest' /\ ReadIsCurrent' BY <2>1 DEF AtRest, ReadIsCurrent
  <2>4. QED BY <2>1, <2>2, <2>3, WorkKeepsCatalogue
<1>5. CASE BeginRefresh
  <2>1. /\ rows' = rows /\ source' = source /\ spent' = spent
        /\ repo' = [repo EXCEPT !.forced = FALSE]
        /\ \/ work' = work
           \/ work' = [phase |-> "add", new |-> source.offered \ Existing,
                       gone |-> Existing \ source.offered,
                       read |-> [v \in Versions |-> Absent], asked |-> repo.requested]
    BY <1>5 DEF BeginRefresh, Idle
  <2>2. CatalogueTypeOK'
    <3>1. Existing \subseteq Versions BY DEF Existing
    <3>2. repo' \in Repositories BY <1>1, <2>1 DEF CatalogueTypeOK, Repositories
    <3>3. CASE work' = work BY <1>1, <2>1, <3>2, <3>3 DEF CatalogueTypeOK
    <3>4. CASE work' # work
      <4>1. repo.requested \in BOOLEAN BY <1>1 DEF CatalogueTypeOK, Repositories
      <4>2. [v \in Versions |-> Absent] \in [Versions -> RepoRows \union {Absent}] OBVIOUS
      <4>3. work' \in [phase : {"idle", "create", "add", "remove"}, new : SUBSET Versions,
                       gone : SUBSET Versions,
                       read : [Versions -> RepoRows \union {Absent}], asked : BOOLEAN]
        BY <1>1, <2>1, <3>1, <3>4, <4>1, <4>2 DEF CatalogueTypeOK
      <4>4. QED BY <1>1, <2>1, <3>2, <4>3 DEF CatalogueTypeOK
    <3>5. QED BY <3>3, <3>4
  <2>3. CASE work' = work BY <1>2, <2>1, <2>2, <2>3
  <2>4. CASE work' # work
    <3>1. AtRest' /\ ReadIsCurrent' BY <2>1, <2>4 DEF AtRest, ReadIsCurrent
    <3>2. QED BY <2>1, <2>2, <2>4, <3>1, WorkKeepsCatalogue
  <2>5. QED BY <2>3, <2>4
<1>6. CASE ReadStale
  <2> DEFINE gone == work.gone \intersect Existing
             read == [v \in Versions |-> IF v \in work.gone THEN rows[v] ELSE Absent]
  <2>1. /\ work' = [work EXCEPT !.phase = "remove", !.gone = gone, !.read = read]
        /\ rows' = rows /\ source' = source /\ repo' = repo /\ spent' = spent
    BY <1>6 DEF ReadStale
  <2>2. read \in [Versions -> RepoRows \union {Absent}] /\ gone \in SUBSET Versions
    BY <1>1 DEF CatalogueTypeOK
  <2>3. CatalogueTypeOK' BY <1>1, <2>1, <2>2 DEF CatalogueTypeOK
  <2>4. /\ work'.phase = "remove" /\ work'.gone = gone /\ work'.read = read
        /\ work'.new = work.new
    BY <1>1, <2>1 DEF CatalogueTypeOK
  <2>5. AtRest' BY <2>4 DEF AtRest
  <2>6. ReadIsCurrent' BY <2>1, <2>4 DEF ReadIsCurrent, Existing
  <2>7. QED BY <2>1, <2>3, <2>4, <2>5, <2>6, WorkKeepsCatalogue
<1>7. CASE EndCreate \/ EndRefresh \/ FailRefresh
  <2>1. /\ rows' = rows /\ source' = source
        /\ work' = [phase |-> "idle", new |-> {}, gone |-> {},
                    read |-> [v \in Versions |-> Absent], asked |-> FALSE]
    BY <1>7 DEF EndCreate, EndRefresh, FailRefresh, Idle
  <2>2. repo' \in Repositories
    <3>1. Ended(TRUE) \in Repositories /\ Ended(FALSE) \in Repositories
      BY <1>1 DEF Ended, CatalogueTypeOK, Repositories
    <3>2. [repo EXCEPT !.status = "ACTIVE", !.due = @ /\ ~ Periodic] \in Repositories
      BY <1>1 DEF CatalogueTypeOK, Repositories
    <3>3. QED BY <1>7, <3>1, <3>2 DEF EndCreate, EndRefresh, FailRefresh
  <2>3. spent' \in [changes : 0 .. MaxChanges, calls : 0 .. MaxCalls,
                    failures : 0 .. MaxFailures]
    <3>1. CASE spent' = spent BY <1>1, <3>1 DEF CatalogueTypeOK
    <3>2. CASE FailRefresh
      <4>1. spent.failures < MaxFailures /\ spent' = [spent EXCEPT !.failures = @ + 1]
        BY <3>2 DEF FailRefresh
      <4>2. QED BY <1>1, <4>1 DEF CatalogueTypeOK
    <3>3. QED BY <1>7, <3>1, <3>2 DEF EndCreate, EndRefresh
  <2>4. CatalogueTypeOK' BY <1>1, <2>1, <2>2, <2>3 DEF CatalogueTypeOK
  <2>5. AtRest' /\ ReadIsCurrent' BY <2>1 DEF AtRest, ReadIsCurrent
  <2>6. QED BY <2>1, <2>4, <2>5, WorkKeepsCatalogue
<1>8. QED BY <1>3, <1>4, <1>5, <1>6, <1>7

\* A row is installed or not, which does not matter here.
LEMMA SetInstalledKeepsCatalogue ==
    ASSUME CatalogueInv, NEW v \in Versions, NEW b \in BOOLEAN, SetInstalled(v, b)
    PROVE  CatalogueInv'
<1>1. /\ rows[v] \in RepoRows /\ rows' = [rows EXCEPT ![v].installed = b]
      /\ source' = source /\ work' = work /\ repo' = repo
  BY CatalogueRows DEF CatalogueInv, SetInstalled
<1>2. CatalogueTypeOK /\ CatalogueTypeOK'
  BY <1>1, CatalogueAssumption DEF CatalogueInv, CatalogueTypeOK, SetInstalled, Call, RepoRows
<1>3. \A x \in Versions :
        /\ (rows'[x] = Absent) <=> (rows[x] = Absent)
        /\ rows[x] # Absent => /\ rows'[x].stable = rows[x].stable
                               /\ rows'[x].latest = rows[x].latest
  <2> TAKE x \in Versions
  <2>1. CASE x # v BY <1>1, <1>2, <2>1 DEF CatalogueTypeOK
  <2>2. CASE x = v
    <3>1. rows'[v] = [rows[v] EXCEPT !.installed = b] BY <1>1, <1>2 DEF CatalogueTypeOK
    <3>2. /\ rows'[v] \in RepoRows /\ rows'[v].stable = rows[v].stable
          /\ rows'[v].latest = rows[v].latest
      BY <1>1, <3>1 DEF RepoRows
    <3>3. QED BY <1>1, <2>2, <3>2, AbsentAssumption
  <2>3. QED BY <2>1, <2>2
<1>4. /\ Existing' = Existing /\ Served' = Served /\ Coming' = Coming
      /\ {x \in Existing' : rows'[x].latest} = {x \in Existing : rows[x].latest}
  BY <1>1, <1>3 DEF Existing, Served, Coming
<1>5. LatestIsGreatest' /\ FromSource' /\ StableServed' /\ NewIsNew' /\ OneOnItsWayOut'
  BY <1>1, <1>4
     DEF CatalogueInv, LatestIsGreatest, FromSource, StableServed, NewIsNew, OneOnItsWayOut
<1>6. AtRest' BY <1>1 DEF CatalogueInv, AtRest
<1>7. ReadIsCurrent'
  <2>1. work.gone \subseteq Versions BY <1>2 DEF CatalogueTypeOK
  <2>2. QED BY <1>1, <1>3, <2>1 DEF CatalogueInv, ReadIsCurrent
<1>8. QED BY <1>2, <1>5, <1>6, <1>7 DEF CatalogueInv

\* The API deletes a version that is not the latest, between refreshes.
LEMMA DeleteKeepsCatalogue ==
    ASSUME CatalogueInv, ~ Racing, NEW v \in Versions, DeleteElement(v)
    PROVE  CatalogueInv'
<1>1. /\ rows[v] # Absent /\ ~ rows[v].latest /\ work.phase = "idle"
      /\ rows' = [rows EXCEPT ![v] = Absent]
      /\ source' = source /\ work' = work /\ repo' = repo
      /\ spent.calls < MaxCalls /\ spent' = [spent EXCEPT !.calls = spent.calls + 1]
  BY DEF DeleteElement, Call
<1>2. CatalogueTypeOK /\ work.new = {} /\ work.gone = {} BY <1>1 DEF CatalogueInv, AtRest
<1>3. CatalogueTypeOK' BY <1>1, <1>2, CatalogueAssumption DEF CatalogueTypeOK
<1>4. /\ Existing' = Existing \ {v} /\ Served' = Served \ {v} /\ Coming' = Served \ {v}
      /\ {x \in Existing' : rows'[x].latest} = {x \in Existing : rows[x].latest}
      /\ Coming = Served
  <2>1. rows'[v] = Absent /\ \A x \in Versions \ {v} : rows'[x] = rows[x]
    BY <1>1, <1>2 DEF CatalogueTypeOK
  <2>2. QED BY <1>1, <1>2, <2>1 DEF Existing, Served, Coming
<1>5. LatestIsGreatest'
  <2>1. Served \in SUBSET Nat BY CatalogueAssumption DEF Served, Existing
  <2>2. v \notin Greatest(Served) BY <1>1 DEF CatalogueInv, LatestIsGreatest, Existing
  <2>3. CASE v \notin Served
    <3>1. Served' = Served BY <1>4, <2>3
    <3>2. QED BY <1>4, <3>1 DEF CatalogueInv, LatestIsGreatest
  <2>4. CASE v \in Served
    <3>1. Greatest(Served \ {v}) = Greatest(Served) BY <2>1, <2>2, <2>4, GreatestWithout
    <3>2. QED BY <1>4, <3>1 DEF CatalogueInv, LatestIsGreatest
  <2>5. QED BY <2>3, <2>4
<1>6. FromSource' /\ StableServed' /\ NewIsNew' /\ OneOnItsWayOut'
  BY <1>1, <1>4 DEF CatalogueInv, FromSource, StableServed, NewIsNew, OneOnItsWayOut
<1>7. AtRest' /\ ReadIsCurrent' BY <1>1, <1>2 DEF AtRest, ReadIsCurrent
<1>8. QED BY <1>3, <1>5, <1>6, <1>7 DEF CatalogueInv

\* What is added is the latest one if and only if it is the greatest.
LEMMA AddKeepsCatalogue ==
    ASSUME CatalogueInv, NEW v \in Versions, AddElement(v)
    PROVE  CatalogueInv'
<1> DEFINE all == [rows EXCEPT ![v] = FromInventory(v)]
           first == v \in StableVersions /\ \A x \in Served : x <= v
<1>1. /\ work.phase \in {"create", "add"} /\ v \in work.new
      /\ rows' = IF first THEN SetLatest(all, v) ELSE all
      /\ work' = [work EXCEPT !.new = @ \ {v}]
      /\ source' = source /\ repo' = repo /\ spent' = spent
  BY DEF AddElement
<1>2. CatalogueTypeOK /\ rows[v] = Absent BY <1>1 DEF CatalogueInv, NewIsNew, Existing
<1>3. /\ work'.new = work.new \ {v} /\ work'.gone = work.gone
      /\ work'.phase = work.phase /\ work'.read = work.read /\ work'.asked = work.asked
  BY <1>1, <1>2 DEF CatalogueTypeOK
<1>4. /\ FromInventory(v) \in RepoRows /\ ~ FromInventory(v).latest
      /\ FromInventory(v).stable <=> v \in StableVersions
  <2>1. CASE v \in StableVersions
    <3>1. FromInventory(v) = [stable |-> TRUE, latest |-> FALSE, installed |-> FALSE]
      BY <2>1, Zenon DEF FromInventory
    <3>2. QED BY <2>1, <3>1 DEF RepoRows
  <2>2. CASE v \notin StableVersions
    <3>1. (v \in StableVersions) = FALSE BY <2>2
    <3>2. FromInventory(v) = [stable |-> FALSE, latest |-> FALSE, installed |-> FALSE]
      BY <3>1, Zenon DEF FromInventory
    <3>3. QED BY <2>2, <3>2 DEF RepoRows
  <2>3. QED BY <2>1, <2>2
<1>5. /\ all \in [Versions -> RepoRows \union {Absent}] /\ all[v] = FromInventory(v)
      /\ \A x \in Versions \ {v} : all[x] = rows[x]
  BY <1>2, <1>4 DEF CatalogueTypeOK
<1> HIDE DEF all
\* The rows are those there were and the new one; which is the latest depends on first.
<1>6. /\ rows' \in [Versions -> RepoRows \union {Absent}]
      /\ rows'[v] # Absent /\ (rows'[v].stable <=> v \in StableVersions)
      /\ \A x \in Versions \ {v} : /\ (rows'[x] = Absent) <=> (rows[x] = Absent)
                                   /\ rows[x] # Absent => rows'[x].stable = rows[x].stable
      /\ first => \A x \in Versions : rows'[x] # Absent => rows'[x].latest = (x = v)
      /\ ~ first => /\ ~ rows'[v].latest
                    /\ \A x \in Versions \ {v} : rows'[x] = rows[x]
  <2>1. CASE ~ first
    <3>1. rows' = all BY <1>1, <2>1
    <3>2. QED BY <1>4, <1>5, <2>1, <3>1, AbsentAssumption
  <2>2. CASE first
    <3>1. rows' = [x \in Versions |->
                     IF all[x] = Absent THEN Absent ELSE [all[x] EXCEPT !.latest = (x = v)]]
      BY <1>1, <2>2 DEF SetLatest
    <3>2. ASSUME NEW x \in Versions, all[x] # Absent
          PROVE  /\ rows'[x] \in RepoRows /\ rows'[x] # Absent
                 /\ rows'[x].stable = all[x].stable /\ rows'[x].latest = (x = v)
      <4>1. all[x] \in RepoRows BY <1>5, <3>2
      <4>2. rows'[x] = [all[x] EXCEPT !.latest = (x = v)] BY <3>1, <3>2
      <4>3. (x = v) \in BOOLEAN OBVIOUS
      <4>4. rows'[x] = [stable |-> all[x].stable, latest |-> (x = v),
                        installed |-> all[x].installed]
        BY <4>1, <4>2 DEF RepoRows
      <4>5. rows'[x] \in RepoRows BY <4>1, <4>3, <4>4 DEF RepoRows
      <4>6. QED BY <4>4, <4>5, AbsentAssumption
    <3>3. ASSUME NEW x \in Versions, all[x] = Absent PROVE rows'[x] = Absent BY <3>1, <3>3
    <3>4. rows' \in [Versions -> RepoRows \union {Absent}] BY <3>1, <3>2, <3>3
    <3>5. all[v] # Absent BY <1>4, <1>5, AbsentAssumption
    <3>6. rows'[v] # Absent /\ (rows'[v].stable <=> v \in StableVersions)
      BY <1>4, <1>5, <3>2, <3>5
    <3>7. \A x \in Versions : rows'[x] # Absent => rows'[x].latest = (x = v)
      BY <3>2, <3>3
    <3>8. \A x \in Versions \ {v} : /\ (rows'[x] = Absent) <=> (rows[x] = Absent)
                                    /\ rows[x] # Absent => rows'[x].stable = rows[x].stable
      BY <1>5, <3>2, <3>3
    <3>9. QED BY <2>2, <3>4, <3>6, <3>7, <3>8
  <2>3. QED BY <2>1, <2>2
<1>7. CatalogueTypeOK'
  BY <1>1, <1>2, <1>6 DEF CatalogueTypeOK
<1>8. /\ Existing' = Existing \union {v}
      /\ Served' = IF v \in StableVersions THEN Served \union {v} ELSE Served
      /\ v \notin Existing
  BY <1>2, <1>6 DEF Existing, Served
<1>9. Coming' = Coming BY <1>1, <1>3, <1>8 DEF Coming
<1>10. LatestIsGreatest'
  <2>1. Served \in SUBSET Nat /\ v \in Nat BY CatalogueAssumption DEF Served, Existing
  <2>2. CASE first
    <3>1. {x \in Existing' : rows'[x].latest} = {v} BY <1>6, <1>8, <2>2 DEF Existing
    <3>2. Greatest(Served \union {v}) = {v} BY <2>1, <2>2, GreatestNew
    <3>3. QED BY <1>8, <2>2, <3>1, <3>2 DEF LatestIsGreatest
  <2>3. CASE ~ first
    <3>1. {x \in Existing' : rows'[x].latest} = {x \in Existing : rows[x].latest}
      BY <1>6, <1>8, <2>3 DEF Existing
    <3>2. CASE v \notin StableVersions
      BY <1>8, <3>1, <3>2 DEF CatalogueInv, LatestIsGreatest
    <3>3. CASE v \in StableVersions
      <4>1. Greatest(Served \union {v}) = Greatest(Served)
        BY <2>1, <2>3, <3>3, GreatestWith
      <4>2. QED BY <1>8, <3>1, <3>3, <4>1 DEF CatalogueInv, LatestIsGreatest
    <3>4. QED BY <3>2, <3>3
  <2>4. QED BY <2>2, <2>3
<1>11. FromSource' /\ StableServed' /\ NewIsNew' /\ OneOnItsWayOut'
  BY <1>1, <1>3, <1>8, <1>9
     DEF CatalogueInv, FromSource, StableServed, NewIsNew, OneOnItsWayOut
<1>12. AtRest' /\ ReadIsCurrent' BY <1>1, <1>3 DEF AtRest, ReadIsCurrent
<1>13. QED BY <1>7, <1>10, <1>11, <1>12 DEF CatalogueInv

\* A row that goes is the latest one only if its row was when it was read, and then it is
\* the only stable one to go, so that the one promoted is the greatest that stays.
LEMMA RemoveKeepsCatalogue ==
    ASSUME CatalogueInv, NEW v \in Versions, RemoveElement(v)
    PROVE  CatalogueInv'
<1> DEFINE old == work.read[v]
           left == IF rows[v] = Absent THEN rows
                   ELSE IF old.installed
                        THEN [rows EXCEPT ![v].stable = @ /\ ~ old.stable,
                                          ![v].latest = @ /\ ~ old.latest]
                   ELSE [rows EXCEPT ![v] = Absent]
           best == Greatest({x \in Versions : left[x] # Absent /\ left[x].stable})
<1>1. /\ work.phase = "remove" /\ v \in work.gone
      /\ rows' = IF old.stable /\ old.latest THEN Promote(left) ELSE left
      /\ work' = [work EXCEPT !.gone = @ \ {v}]
      /\ source' = source /\ repo' = repo /\ spent' = spent
  BY DEF RemoveElement
<1>2. /\ CatalogueTypeOK /\ rows[v] # Absent /\ rows[v] \in RepoRows
      /\ old \in RepoRows /\ old.stable = rows[v].stable /\ old.latest = rows[v].latest
  BY <1>1 DEF CatalogueInv, ReadIsCurrent, CatalogueTypeOK
<1>3. /\ work'.new = work.new /\ work'.gone = work.gone \ {v}
      /\ work'.phase = work.phase /\ work'.read = work.read /\ work'.asked = work.asked
  BY <1>1, <1>2 DEF CatalogueTypeOK
\* The row goes, or stays and is neither stable nor the latest.
<1>4. /\ left \in [Versions -> RepoRows \union {Absent}]
      /\ left[v] # Absent => ~ left[v].stable /\ ~ left[v].latest
      /\ \A x \in Versions \ {v} : left[x] = rows[x]
  <2>1. CASE old.installed
    <3>1. left = [rows EXCEPT ![v] = [stable |-> FALSE, latest |-> FALSE,
                                      installed |-> rows[v].installed]]
      <4>1. (rows[v].stable /\ ~ old.stable) = FALSE /\ (rows[v].latest /\ ~ old.latest) = FALSE
        BY <1>2, Zenon
      <4>2. left = [rows EXCEPT ![v].stable = FALSE, ![v].latest = FALSE]
        BY <1>2, <2>1, <4>1, Zenon
      <4>3. QED BY <1>2, <4>2 DEF RepoRows, CatalogueTypeOK
    <3>2. [stable |-> FALSE, latest |-> FALSE, installed |-> rows[v].installed] \in RepoRows
      BY <1>2 DEF RepoRows
    <3> HIDE DEF left
    <3>3. QED BY <1>2, <3>1, <3>2 DEF CatalogueTypeOK
  <2>2. CASE ~ old.installed
    <3>1. left = [rows EXCEPT ![v] = Absent] BY <1>2, <2>2
    <3> HIDE DEF left
    <3>2. QED BY <1>2, <3>1 DEF CatalogueTypeOK
  <2>3. QED BY <2>1, <2>2
<1> HIDE DEF left
<1> DEFINE wasLatest == old.stable /\ old.latest
<1>5. /\ {x \in Versions : left[x] # Absent /\ left[x].stable} = Served \ {v}
      /\ {x \in Versions : left[x] # Absent /\ left[x].latest}
            = {x \in Existing : rows[x].latest} \ {v}
  BY <1>4 DEF Served, Existing
<1>6. best = Greatest(Served \ {v}) BY <1>5
<1>7. best \subseteq {x \in Versions : left[x] # Absent} BY DEF Greatest
\* Only marks of the one that is promoted change, and only if the one that goes had it.
<1>8. /\ rows' \in [Versions -> RepoRows \union {Absent}]
      /\ \A x \in Versions : /\ (rows'[x] = Absent) <=> (left[x] = Absent)
                             /\ left[x] # Absent => rows'[x].stable = left[x].stable
      /\ \A x \in Versions \ best : rows'[x] = left[x]
      /\ ~ wasLatest => rows' = left
      /\ wasLatest => \A x \in best : rows'[x].latest
  <2>1. CASE ~ wasLatest BY <1>1, <1>4, <2>1
  <2>2. CASE wasLatest
    <3>1. rows' = [x \in Versions |->
                     IF x \in best THEN [left[x] EXCEPT !.latest = TRUE] ELSE left[x]]
      BY <1>1, <2>2 DEF Promote
    <3> HIDE DEF best
    <3>2. ASSUME NEW x \in best
          PROVE  /\ rows'[x] \in RepoRows /\ rows'[x] # Absent
                 /\ rows'[x].stable = left[x].stable /\ rows'[x].latest
      <4>1. x \in Versions /\ left[x] \in RepoRows BY <1>4, <1>7
      <4>2. rows'[x] = [left[x] EXCEPT !.latest = TRUE] BY <3>1, <4>1
      <4>3. rows'[x] \in RepoRows /\ rows'[x].stable = left[x].stable /\ rows'[x].latest
        BY <4>1, <4>2 DEF RepoRows
      <4>4. QED BY <4>3, AbsentAssumption
    <3>3. \A x \in Versions \ best : rows'[x] = left[x] BY <3>1
    <3>4. rows' \in [Versions -> RepoRows \union {Absent}] BY <1>4, <3>1, <3>2, <3>3
    <3>5. QED BY <1>7, <2>2, <3>2, <3>3, <3>4
  <2>3. QED BY <2>1, <2>2
<1> HIDE DEF best
<1>9. CatalogueTypeOK' BY <1>1, <1>2, <1>8 DEF CatalogueTypeOK
<1>10. /\ Existing' \subseteq Existing /\ Existing \ {v} \subseteq Existing'
       /\ Served' = Served \ {v}
  <2>1. \A x \in Versions : /\ (rows'[x] = Absent) <=> (left[x] = Absent)
                            /\ left[x] # Absent => rows'[x].stable = left[x].stable
    BY <1>8
  <2>2. Existing' = {x \in Versions : left[x] # Absent} BY <2>1 DEF Existing
  <2>3. Served' = {x \in Versions : left[x] # Absent /\ left[x].stable}
    BY <2>1, <2>2 DEF Served
  <2>4. Existing' \subseteq Existing /\ Existing \ {v} \subseteq Existing'
    BY <1>2, <1>4, <2>2 DEF Existing
  <2>5. QED BY <1>5, <2>3, <2>4
<1>11. Coming' \subseteq Coming BY <1>3, <1>10 DEF Coming
<1>12. Served \in SUBSET Nat BY CatalogueAssumption DEF Served, Existing
<1>13. LatestIsGreatest'
  <2>1. v \in Existing BY <1>2 DEF Existing
  <2>2. {x \in Existing : rows[x].latest} = Greatest(Served)
    BY DEF CatalogueInv, LatestIsGreatest
  <2>3. CASE wasLatest
    <3>1. v \in Greatest(Served) BY <1>2, <2>1, <2>2, <2>3
    <3>2. \A x \in Greatest(Served) : x = v
      <4> TAKE x \in Greatest(Served)
      <4>1. x \in Nat /\ v \in Nat /\ x <= v /\ v <= x BY <1>12, <3>1 DEF Greatest
      <4>2. QED BY <4>1
    <3>3. {x \in Versions : left[x] # Absent /\ left[x].latest} = {} BY <1>5, <2>2, <3>2
    <3>4. {x \in Existing' : rows'[x].latest} = best
      BY <1>7, <1>8, <2>3, <3>3 DEF Existing
    <3>5. QED BY <1>6, <1>10, <3>4 DEF LatestIsGreatest
  <2>4. CASE ~ wasLatest
    <3>1. v \notin Greatest(Served) BY <1>2, <2>1, <2>2, <2>4 DEF Greatest, Served
    <3>2. {x \in Existing' : rows'[x].latest} = Greatest(Served)
      <4>1. rows' = left BY <1>8, <2>4
      <4>2. {x \in Existing' : rows'[x].latest}
              = {x \in Versions : left[x] # Absent /\ left[x].latest}
        BY <4>1 DEF Existing
      <4>3. QED BY <1>5, <2>2, <3>1, <4>2
    <3>3. Greatest(Served \ {v}) = Greatest(Served)
      <4>1. CASE v \in Served BY <1>12, <3>1, <4>1, GreatestWithout
      <4>2. CASE v \notin Served
        <5>1. Served \ {v} = Served BY <4>2
        <5>2. QED BY <5>1
      <4>3. QED BY <4>1, <4>2
    <3>4. QED BY <1>10, <3>2, <3>3 DEF LatestIsGreatest
  <2>5. QED BY <2>3, <2>4
<1>14. FromSource' /\ StableServed' /\ NewIsNew' /\ OneOnItsWayOut'
  <2>1. Coming' \ source'.offered \subseteq Coming \ source.offered BY <1>1, <1>11
  <2>2. OneOnItsWayOut' BY <2>1 DEF CatalogueInv, OneOnItsWayOut
  <2>3. QED BY <1>1, <1>3, <1>10, <2>2 DEF CatalogueInv, FromSource, StableServed, NewIsNew
<1>15. AtRest' BY <1>1, <1>3 DEF AtRest
\* What is promoted stays in the catalogue, or it would be the second to go.
<1>16. ReadIsCurrent'
  <2>1. ASSUME NEW x \in work.gone \ {v}
        PROVE  rows'[x] = rows[x]
    <3>1. x \in Versions BY <1>2 DEF CatalogueTypeOK
    <3>2. left[x] = rows[x] BY <1>4, <2>1, <3>1
    <3>3. CASE x \notin best BY <1>8, <3>1, <3>2, <3>3
    <3>4. CASE ~ wasLatest BY <1>8, <3>2, <3>4
    <3>5. ASSUME x \in best, wasLatest PROVE FALSE
      <4>1. x \in Served /\ v \in Served
        BY <1>2, <1>6, <3>5 DEF Greatest, Served, Existing
      <4>2. x \notin source.offered /\ v \notin source.offered
        BY <1>1, <2>1 DEF CatalogueInv, FromSource
      <4>3. QED BY <2>1, <4>1, <4>2 DEF CatalogueInv, OneOnItsWayOut, Coming
    <3>6. QED BY <3>3, <3>4, <3>5
  <2>2. work'.gone = work.gone \ {v} /\ work'.read = work.read BY <1>3
  <2>3. QED BY <1>1, <2>1, <2>2 DEF CatalogueInv, ReadIsCurrent
<1>17. QED BY <1>9, <1>13, <1>14, <1>15, <1>16 DEF CatalogueInv

LEMMA CatalogueInvStep ==
    ~ Racing /\ ~ Bulk /\ CatalogueInv /\ [CatalogueNext]_catalogueVars => CatalogueInv'
<1> SUFFICES ASSUME ~ Racing, ~ Bulk, CatalogueInv, [CatalogueNext]_catalogueVars
             PROVE  CatalogueInv'
  OBVIOUS
<1>1. ASSUME NEW v \in Versions, Publish(v) \/ Withdraw(v) \/ DeleteElement(v)
      PROVE  CatalogueInv'
  BY <1>1, PublishKeepsCatalogue, WithdrawKeepsCatalogue, DeleteKeepsCatalogue
<1>2. ASSUME NEW v \in Versions, NEW b \in BOOLEAN, SetInstalled(v, b) PROVE CatalogueInv'
  BY <1>2, SetInstalledKeepsCatalogue
<1>3. ASSUME NEW v \in Versions, AddElement(v) \/ RemoveElement(v) PROVE CatalogueInv'
  BY <1>3, AddKeepsCatalogue, RemoveKeepsCatalogue
<1>4. CASE \/ RequestRefresh \/ Elapse \/ CheckRefresh \/ Create \/ BeginRefresh
           \/ ReadStale \/ EndCreate \/ EndRefresh \/ FailRefresh
  BY <1>4, WorkStepsKeepCatalogue
<1>5. CASE UNCHANGED catalogueVars
  BY <1>5
     DEF catalogueVars, CatalogueInv, CatalogueTypeOK, LatestIsGreatest, FromSource,
         StableServed, NewIsNew, OneOnItsWayOut, AtRest, ReadIsCurrent, Existing, Served, Coming
<1>6. QED BY <1>1, <1>2, <1>3, <1>4, <1>5 DEF CatalogueNext, Refreshing

\* The version marked as the latest is the greatest stable one of the catalogue, after every
\* step of every refresh, however the source, refreshes and requests alternate, as long as
\* clients leave what is being removed and what is served alone, and one stable version at
\* a time is on its way out (RepoProxyBuilderService._refresh_repository).
THEOREM CatalogueServesGreatest ==
    ~ Racing /\ ~ Bulk => (CatalogueSpec => []LatestIsGreatest)
<1> SUFFICES ASSUME ~ Racing, ~ Bulk PROVE CatalogueSpec => []LatestIsGreatest OBVIOUS
<1>1. CatalogueInv /\ [CatalogueNext]_catalogueVars => CatalogueInv' BY CatalogueInvStep
<1>2. CatalogueInv => LatestIsGreatest BY DEF CatalogueInv
<1>3. QED BY <1>1, <1>2, CatalogueInvInit, PTL DEF CatalogueSpec
=============================================================================
