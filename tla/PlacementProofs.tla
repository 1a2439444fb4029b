--------------------------- MODULE PlacementProofs ---------------------------
(***************************************************************************)
(* Proofs about Placement: the scheduler's memory is balanced and never    *)
(* overdrawn for any pools, nodes, volumes and layouts of storage, a       *)
(* machine volume is in the pool of its machine as long as users do not    *)
(* move volumes between nodes, and nodes that keep apart are apart where   *)
(* there is room for them.                                                 *)
(***************************************************************************)
EXTENDS Placement, FoldTheorems

\* A node and a pool are at hand while volumes are allocated.
InJob ==
    /\ pc \in {"pool", "alloc"} => cur \in Nodes /\ cur \notin todo /\ placed[cur] = None
    /\ pc = "alloc" => at \in Pools
    /\ \A n \in Nodes : placed[n] # None => n \notin todo
    /\ pc = "idle" => placed = NoPlace /\ taken = NoRows

\* What a memory may be at most, against the reports of the pools.
Drawn(m) == \A p \in Pools :
    /\ m.avail[p] >= 0 \/ m.avail[p] = avail[p]
    /\ \A c \in Classes : m.free[p][c] >= 0 \/ m.free[p][c] = free[p][c]

\* The pools left to try, and the one at hand, have room for the node; the
\* memory to go back to is no worse.
Covered ==
    /\ pc # "idle" => Drawn(mem)
    /\ pc \in {"pool", "alloc"} => \A p \in pools : mem.avail[p] >= Need[cur]
    /\ pc = "alloc" => /\ mem.avail[at] >= Need[cur]
                       /\ saved.avail = mem.avail /\ Drawn(saved)

\* A row of a machine volume that nobody owns.
Idle(s) == mvol[s] # None /\ mvol[s].owner = None

\* Every spare volume is in memory, in a row that was written or in the row
\* that waits for the rest of its node.
Balanced ==
    /\ \A i \in Vids : Idle(i) => mvol[i].machine = None
    /\ \A i \in Vids : taken[i] # None => taken[i].owner # None
    /\ \A i \in Vids : got[i] # None => got[i].owner # None
    /\ pc # "idle" =>
        /\ \A p \in Pools : mem.avail[p] = avail[p]
             - SumFunctionOnSet(Need, {n \in Nodes : placed[n] = p})
        /\ mem.spares = {s \in Spares : /\ Idle(s) /\ taken[s] = None
                                        /\ pc = "alloc" => got[s] = None}
        /\ \A s \in Spares : taken[s] # None => Idle(s)
    /\ pc = "alloc" =>
        /\ saved.spares = {s \in Spares : Idle(s) /\ taken[s] = None}
        /\ \A s \in Spares : got[s] # None => Idle(s) /\ taken[s] = None

\* Memory has been charged for the rows of the open transaction and of the
\* node being placed, the memory to go back to for the former only.
StorageBalanced ==
    /\ pc # "alloc" => got = NoRows
    /\ pc = "alloc" => \A v \in left : got[v] = None
    /\ pc # "idle" => \A p \in Pools, c \in Classes :
          mem.free[p][c] = free[p][c] - (Charged(taken, p, c) + Charged(got, p, c))
    /\ pc = "alloc" => \A p \in Pools, c \in Classes :
          saved.free[p][c] = free[p][c] - Charged(taken, p, c)

\* Users neither attach nor detach volumes.
NoMoves == Attachable = {}

\* Volumes come and go with their nodes.
VolumesWithNodes ==
    /\ nodes \subseteq known
    /\ \A v \in vols : vnode[v] = Owner[v] /\ (Owner[v] # None => Owner[v] \in nodes)
    /\ \A v \in Volumes : Owner[v] \in nodes => v \in vols
    /\ \A v \in Volumes \cap vbuilt : Owner[v] \in known \cup {None}

\* What a row of a machine volume says.
RowsOwned ==
    \A i \in Vids : mvol[i] # None =>
        /\ i \in Volumes => mvol[i].owner = i
        /\ i \in Spares => i \in vbuilt
        /\ mvol[i].owner \in vols \cup {None}
        /\ mvol[i].machine # None => mvol[i].owner # None /\ mvol[i].machine = Owner[mvol[i].owner]

BuiltHaveRows == \A v \in vols \cap vbuilt : mvol[v] # None

\* The row with the key of a volume follows the machine, unless the volume
\* is on a reused machine volume as well.
KeyRowFollows ==
    \A v \in Volumes :
        (Owner[v] # None /\ machine[Owner[v]] # None /\ mvol[v] # None) =>
            \/ mvol[v].pool = machine[Owner[v]]
            \/ \E s \in Spares : mvol[s] # None /\ mvol[s].owner = v

\* The volumes of a node that has yet to be placed.
BundlesWhole ==
    pc # "idle" =>
        \A n \in Nodes : (n \in todo \/ (pc \in {"pool", "alloc"} /\ n = cur)) =>
            machine[n] = None /\ bundle[n] = {v \in Volumes : Owner[v] = n}

\* The rows that the open transaction has written.
TakenInPlace ==
    /\ \A i \in Vids : taken[i] # None =>
        /\ i \in Volumes => taken[i].owner = i /\ mvol[i] = None
        /\ taken[i].owner \in vols
        /\ taken[i].machine # None /\ taken[i].machine = Owner[taken[i].owner]
        /\ taken[i].pool = MachineRow(taken[i].machine)
    /\ \A n \in Nodes : placed[n] # None =>
        /\ machine[n] = None
        /\ \A v \in Volumes : Owner[v] = n =>
              \E i \in Vids : (i = v \/ i \in Spares) /\ taken[i] # None /\ taken[i].owner = v

\* The rows that wait for the rest of their node.
GotInPlace ==
    pc = "alloc" =>
        /\ left \subseteq bundle[cur]
        /\ \A i \in Vids : got[i] # None =>
            /\ i \in Volumes => got[i].owner = i
            /\ got[i].owner \in bundle[cur] \ left
            /\ got[i].machine = cur /\ got[i].pool = at
        /\ \A v \in bundle[cur] \ left :
              \E i \in Vids : (i = v \/ i \in Spares) /\ got[i] # None /\ got[i].owner = v

-----------------------------------------------------------------------------
\* Facts about the operators of the model.

\* A machine volume record is well formed and is not None.
LEMMA RowFormed ==
    ASSUME NEW p \in Pools, NEW n \in Nodes \cup {None}, NEW v \in Volumes \cup {None}
    PROVE  [pool |-> p, machine |-> n, owner |-> v] \in MachineVolumes
BY DEF MachineVolumes

\* The sums of the reports are numbers.
LEMMA SumsTyped ==
    /\ \A A \in SUBSET Nodes : SumFunctionOnSet(Need, A) \in Int
    /\ \A A \in SUBSET Vids, f \in [Vids -> Nat] : SumFunctionOnSet(f, A) \in Int
<1>1. ASSUME NEW A \in SUBSET Nodes PROVE SumFunctionOnSet(Need, A) \in Int
  <2>1. IsFiniteSet(A) BY ConstantsAssumption, FS_Subset
  <2>2. \A x \in A : Need[x] \in Int BY ConstantsAssumption
  <2>3. QED BY <2>1, <2>2, SumStep
<1>2. ASSUME NEW A \in SUBSET Vids, NEW f \in [Vids -> Nat]
      PROVE  SumFunctionOnSet(f, A) \in Int
  <2>1. IsFiniteSet(A) BY ConstantsAssumption, FS_Subset DEF Vids
  <2>2. \A x \in A : f[x] \in Int OBVIOUS
  <2>3. QED BY <2>1, <2>2, SumStep
<1>3. QED BY <1>1, <1>2

\* What an agent reports is made of numbers.
LEMMA ReportsTyped ==
    ASSUME TypeOK
    PROVE  /\ \A p \in Pools : Left(p) \in Int
           /\ \A p \in Pools, c \in Classes : LeftOf(p, c) \in Int
<1>1. ASSUME NEW p \in Pools PROVE Left(p) \in Int
  <2>1. SumFunctionOnSet(Need, {n \in Nodes : runs[n] = p}) \in Int BY SumsTyped
  <2>2. QED BY <2>1, ConstantsAssumption DEF Left
<1>2. ASSUME NEW p \in Pools, NEW c \in Classes PROVE LeftOf(p, c) \in Int
  <2>1. StoredSize \in [Vids -> Nat]
    <3>1. \A i \in Vids : Size[i] \in Nat BY ConstantsAssumption DEF Vids
    <3>2. synced \subseteq Vids BY DEF TypeOK, Vids
    <3>3. QED BY <3>1, <3>2 DEF StoredSize
  <2> DEFINE A == {i \in Vids : stored[i] = p /\ Class[i] = c}
  <2>2. A \in SUBSET Vids OBVIOUS
  <2> HIDE DEF A
  <2>3. SumFunctionOnSet(StoredSize, A) \in Int BY <2>1, <2>2, SumsTyped
  <2>4. disk[p][c] \in Int BY DEF TypeOK
  <2> USE DEF A
  <2>5. QED BY <2>3, <2>4 DEF LeftOf
<1>3. QED BY <1>1, <1>2

\* What is given to a volume is there, and memory loses just that.
LEMMA CandidateFits ==
    ASSUME TypeOK, NEW v \in Volumes, NEW p \in Pools, NEW i \in Candidates(v, p)
    PROVE  /\ i \in Vids /\ (i = v \/ i \in mem.spares)
           /\ MemoryWith(v, p, i) \in Memories
           /\ MemoryWith(v, p, i).avail = mem.avail
           /\ MemoryWith(v, p, i).spares = mem.spares \ {i}
           /\ MemoryWith(v, p, i).free[p][Class[v]] >= 0
           /\ \A q \in Pools, c \in Classes : (q # p \/ c # Class[v]) =>
                 MemoryWith(v, p, i).free[q][c] = mem.free[q][c]
<1> DEFINE d == Size[v] - IF i = v THEN 0 ELSE Size[i]
           c0 == Class[v]
           f0 == mem.free
           new == [f0 EXCEPT ![p] = [f0[p] EXCEPT ![c0] = f0[p][c0] - d]]
<1>1. MemoryWith(v, p, i) = [avail |-> mem.avail, free |-> new, spares |-> mem.spares \ {i}]
  BY DEF MemoryWith
<1>2. (i = v \/ i \in mem.spares) /\ i \in Vids /\ v \in Vids
  BY DEF Candidates, Suitable, TypeOK, Memories, Vids
<1>3. c0 \in Classes /\ f0 \in [Pools -> [Classes -> Int]] /\ f0[p][c0] \in Int
  BY <1>2, ConstantsAssumption DEF TypeOK, Memories, Vids
<1>4. d \in Int /\ f0[p][c0] - d >= 0
  <2>1. Size[v] \in Nat /\ Size[i] \in Nat BY <1>2, ConstantsAssumption DEF Vids
  <2>2. CASE i = v
    <3>1. v \notin Suitable(v, p)
      BY ConstantsAssumption DEF Suitable, TypeOK, Memories
    <3>2. f0[p][c0] >= Size[v]
      BY <2>2, <3>1 DEF Candidates, CanBuild
    <3>3. d = Size[v] BY <2>1, <2>2
    <3> HIDE DEF d, f0, c0
    <3>4. QED BY <1>3, <2>1, <3>2, <3>3
  <2>3. CASE i # v
    <3>1. i \in Suitable(v, p) BY <2>3 DEF Candidates
    <3>2. f0[p][c0] >= Size[v] - Size[i] BY <3>1 DEF Suitable
    <3>3. d = Size[v] - Size[i] BY <2>3
    <3> HIDE DEF d, f0, c0
    <3>4. QED BY <1>3, <2>1, <3>2, <3>3
  <2>4. QED BY <2>2, <2>3
<1> HIDE DEF d, c0, f0
<1>5. new \in [Pools -> [Classes -> Int]]
  <2>1. f0[p][c0] - d \in Int BY <1>3, <1>4
  <2>2. QED BY <1>3, <2>1
<1>6. new[p][c0] = f0[p][c0] - d BY <1>3
<1>7. \A q \in Pools, c \in Classes : (q # p \/ c # c0) => new[q][c] = f0[q][c]
  BY <1>3
<1> HIDE DEF new
<1>8. mem.avail \in [Pools -> Int] /\ mem.spares \in SUBSET Spares BY DEF TypeOK, Memories
<1>9. MemoryWith(v, p, i) \in Memories BY <1>1, <1>5, <1>8 DEF Memories
<1>10. QED
  <2>1. MemoryWith(v, p, i).free = new BY <1>1
  <2>2. new[p][Class[v]] >= 0 BY <1>4, <1>6 DEF c0
  <2>3. QED BY <1>1, <1>2, <1>7, <1>9, <2>1, <2>2 DEF c0, f0

\* The locals of an ended iteration are well formed.
LEMMA CleanTyped ==
    /\ NoMem \in Memories /\ NoPlace \in [Nodes -> Pools \cup {None}]
    /\ NoRows \in [Vids -> MachineVolumes \cup {None}] /\ NoBundle \in [Nodes -> SUBSET Volumes]
BY DEF NoMem, Memories, NoPlace, NoRows, NoBundle

\* Taking machines from the rows of their volumes leaves well formed rows.
LEMMA WithoutMachineRows ==
    ASSUME NEW f \in [Vids -> MachineVolumes \cup {None}], NEW ns
    PROVE  /\ WithoutMachine(f, ns) \in [Vids -> MachineVolumes \cup {None}]
           /\ \A i \in Vids :
                /\ WithoutMachine(f, ns)[i] = None <=> f[i] = None
                /\ f[i] # None =>
                     /\ WithoutMachine(f, ns)[i].owner = f[i].owner
                     /\ WithoutMachine(f, ns)[i].pool = f[i].pool
                     /\ WithoutMachine(f, ns)[i].machine =
                           IF f[i].machine \in ns THEN None ELSE f[i].machine
<1>1. ASSUME NEW i \in Vids
      PROVE  /\ WithoutMachine(f, ns)[i] \in MachineVolumes \cup {None}
             /\ WithoutMachine(f, ns)[i] = None <=> f[i] = None
             /\ f[i] # None =>
                  /\ WithoutMachine(f, ns)[i].owner = f[i].owner
                  /\ WithoutMachine(f, ns)[i].pool = f[i].pool
                  /\ WithoutMachine(f, ns)[i].machine =
                        IF f[i].machine \in ns THEN None ELSE f[i].machine
  <2>1. CASE f[i] = None BY <2>1 DEF WithoutMachine
  <2>2. CASE f[i] # None
    <3> DEFINE r == [f[i] EXCEPT !.machine = None]
    <3>1. f[i] \in MachineVolumes BY <2>2
    <3>2. r \in MachineVolumes /\ r.owner = f[i].owner /\ r.pool = f[i].pool /\ r.machine = None
      BY <3>1 DEF MachineVolumes
    <3>3. r # None BY <3>2, NoneAssumption
    <3>4. WithoutMachine(f, ns)[i] = IF f[i].machine \in ns THEN r ELSE f[i]
      BY <2>2 DEF WithoutMachine
    <3> HIDE DEF r
    <3>5. QED BY <2>2, <3>1, <3>2, <3>3, <3>4
  <2>3. QED BY <2>1, <2>2
<1>2. WithoutMachine(f, ns) \in [Vids -> MachineVolumes \cup {None}] BY <1>1 DEF WithoutMachine
<1>3. QED BY <1>1, <1>2

-----------------------------------------------------------------------------
\* Types.

\* The initial rows, reports and memory are well formed.
LEMMA InitTypeOK == Init => TypeOK /\ InJob
<1> SUFFICES ASSUME Init PROVE TypeOK /\ InJob OBVIOUS
<1>1. disk \in [Pools -> [Classes -> Nat]] BY ConstantsAssumption DEF Init
<1>2. mvol \in [Vids -> MachineVolumes \cup {None}]
  BY ConstantsAssumption DEF Init, MachineVolumes, Vids
<1>3. free \in [Pools -> [Classes -> Int]]
  <2>1. ASSUME NEW p \in Pools, NEW c \in Classes
        PROVE  disk[p][c] - SumFunctionOnSet(Size, {i \in Spares : Home[i] = p /\ Class[i] = c})
                  \in Int
    <3> DEFINE A == {i \in Spares : Home[i] = p /\ Class[i] = c}
    <3>1. A \in SUBSET Vids BY DEF Vids
    <3>2. Size \in [Vids -> Nat] BY ConstantsAssumption DEF Vids
    <3> HIDE DEF A
    <3>3. SumFunctionOnSet(Size, A) \in Int BY <3>1, <3>2, SumsTyped
    <3>4. disk[p][c] \in Int BY <1>1
    <3> USE DEF A
    <3>5. QED BY <3>3, <3>4
  <2>2. QED BY <2>1 DEF Init
<1>4. stored \in [Vids -> Pools \cup {None}] BY ConstantsAssumption DEF Init, Vids
<1>5. avail \in [Pools -> Int] BY ConstantsAssumption DEF Init
<1>6. TypeOK
  BY <1>1, <1>2, <1>3, <1>4, <1>5, CleanTyped DEF Init, TypeOK, Vids
<1>7. InJob BY DEF Init, InJob, NoPlace
<1>8. QED BY <1>6, <1>7

\* A step of the scheduler keeps its locals, memory and rows well formed.
LEMMA SchedulerTypeOK == TypeOK /\ InJob /\ Scheduler => TypeOK' /\ InJob'
<1> SUFFICES ASSUME TypeOK, InJob, Scheduler PROVE TypeOK' /\ InJob' OBVIOUS
<1> USE DEF rows, agent, job, hist
<1>1. CASE StartIteration
  <2>1. mem' \in Memories BY <1>1 DEF StartIteration, TypeOK, Memories
  <2>2. bundle' \in [Nodes -> SUBSET Volumes] BY <1>1 DEF StartIteration, TypeOK
  <2>3. QED BY <1>1, <2>1, <2>2 DEF StartIteration, TypeOK, InJob, NoPlace
<1>2. ASSUME NEW n \in Nodes, ChooseNode(n) PROVE TypeOK' /\ InJob'
  <2>1. pools' \subseteq Pools
    BY <1>2 DEF ChooseNode, TypeOK, SoftAntiAffinity, CoresRamAvailable
  <2>2. todo' = todo \ {n} /\ pc = "nodes" BY <1>2 DEF ChooseNode
  <2>3. \/ pc' = "nodes" /\ UNCHANGED cur
        \/ pc' = "pool" /\ cur' = n
    BY <1>2, <2>2 DEF ChooseNode
  <2>4. UNCHANGED <<nodes, vols, vnode, machine, mvol, built, vbuilt, synced, avail, free, runs,
                    stored, disk, bundle, at, left, got, saved, mem, placed, taken, returned,
                    known>>
    BY <1>2 DEF ChooseNode
  <2>5. placed[n] = None
    <3>1. n \in todo BY <1>2 DEF ChooseNode
    <3>2. QED BY <3>1 DEF InJob
  <2>6. TypeOK' BY <2>1, <2>2, <2>3, <2>4 DEF TypeOK
  <2>7. InJob' BY <2>2, <2>3, <2>4, <2>5 DEF InJob
  <2>8. QED BY <2>6, <2>7
<1>3. ASSUME NEW p \in Pools, TryPool(p) PROVE TypeOK' /\ InJob'
  <2>1. bundle[cur] \subseteq Volumes BY <1>3 DEF TryPool, TypeOK, InJob
  <2>2. QED BY <1>3, <2>1, CleanTyped DEF TryPool, TypeOK, InJob
<1>4. CASE NoPoolLeft
  BY <1>4, CleanTyped DEF NoPoolLeft, DropJob, TypeOK, InJob
<1>5. ASSUME NEW v \in Volumes, NEW i \in Vids, AllocateVolume(v, i) PROVE TypeOK' /\ InJob'
  <2>1. at \in Pools /\ cur \in Nodes BY <1>5 DEF AllocateVolume, InJob
  <2>2. mem' \in Memories BY <1>5, <2>1, CandidateFits DEF AllocateVolume
  <2>3. [pool |-> at, machine |-> cur, owner |-> v] \in MachineVolumes BY <2>1, RowFormed
  <2>4. got' \in [Vids -> MachineVolumes \cup {None}] BY <1>5, <2>3 DEF AllocateVolume, TypeOK
  <2>5. QED BY <1>5, <2>2, <2>4 DEF AllocateVolume, TypeOK, InJob
<1>6. ASSUME NEW v \in Volumes, NEW i \in Vids, PlaceVolume(v, i) PROVE TypeOK' /\ InJob'
  <2> DEFINE p == MachineRow(vnode[v])
  <2>1. vnode[v] \in Nodes BY <1>6 DEF PlaceVolume, Followable, TypeOK
  <2>2. p \in Pools BY <1>6, <2>1 DEF PlaceVolume, Followable, TypeOK, MachineRow
  <2>3. CASE v \notin vols \/ Breaks({i})
    <3>1. EndOfIteration /\ UNCHANGED <<rows, agent, hist>> BY <1>6, <2>3 DEF PlaceVolume
    <3>2. QED BY <3>1, CleanTyped DEF EndOfIteration, DropJob, TypeOK, InJob, NoPlace
  <2>4. CASE ~ (v \notin vols \/ Breaks({i}))
    <3>1. /\ mem' = MemoryWith(v, p, i)
          /\ taken' = [taken EXCEPT ![i] = [pool |-> p, machine |-> vnode[v], owner |-> v]]
          /\ left' = left \ {v} /\ i \in Candidates(v, p) /\ pc = "volumes"
          /\ UNCHANGED <<pc, todo, bundle, cur, pools, at, got, saved, placed, rows, agent, hist>>
      BY <1>6, <2>4 DEF PlaceVolume
    <3> HIDE DEF p
    <3>2. mem' \in Memories BY <2>2, <3>1, CandidateFits
    <3>3. [pool |-> p, machine |-> vnode[v], owner |-> v] \in MachineVolumes
      BY <2>1, <2>2, RowFormed
    <3>4. taken' \in [Vids -> MachineVolumes \cup {None}] BY <3>1, <3>3 DEF TypeOK
    <3>5. QED BY <3>1, <3>2, <3>4 DEF TypeOK, InJob
  <2>5. QED BY <2>3, <2>4
<1>7. ASSUME NEW v \in Volumes, AllocateFails(v) PROVE TypeOK' /\ InJob'
  BY <1>7, CleanTyped DEF AllocateFails, MemoryRestored, TypeOK, InJob
<1>8. ASSUME NEW v \in Volumes, SkipVolume(v) \/ VolumeFails(v) PROVE TypeOK' /\ InJob'
  BY <1>8 DEF SkipVolume, VolumeFails, TypeOK, InJob
<1>9. CASE PlaceNode
  <2> DEFINE mine == {i \in Vids : got[i] # None}
             ends == cur \notin nodes \/ ~(bundle[cur] \subseteq vols) \/ Breaks(mine)
  <2>1. CASE ends
    <3>1. EndOfIteration /\ UNCHANGED <<rows, agent, hist>> BY <1>9, <2>1 DEF PlaceNode
    <3>2. QED BY <3>1, CleanTyped DEF EndOfIteration, DropJob, TypeOK, InJob, NoPlace
  <2>2. CASE ~ ends
    <3>1. /\ pc = "alloc" /\ pc' = "nodes" /\ DropJob
          /\ placed' = [placed EXCEPT ![cur] = at]
          /\ taken' = [i \in Vids |-> IF i \in mine THEN got[i] ELSE taken[i]]
          /\ mem' = [mem EXCEPT !.avail = [mem.avail EXCEPT ![at] = mem.avail[at] - Need[cur]]]
          /\ UNCHANGED <<todo, bundle, rows, agent, hist>>
      BY <1>9, <2>2 DEF PlaceNode
    <3> HIDE DEF mine, ends
    <3>2. at \in Pools /\ cur \in Nodes /\ cur \notin todo BY <3>1 DEF InJob
    <3>3. Need[cur] \in Int /\ mem.avail \in [Pools -> Int] /\ mem \in Memories
      BY <3>2, ConstantsAssumption DEF TypeOK, Memories
    <3>4. mem.avail[at] - Need[cur] \in Int BY <3>2, <3>3
    <3>5. [mem.avail EXCEPT ![at] = mem.avail[at] - Need[cur]] \in [Pools -> Int]
      BY <3>2, <3>3, <3>4
    <3>6. mem' \in Memories BY <3>1, <3>3, <3>5 DEF Memories
    <3>7. taken' \in [Vids -> MachineVolumes \cup {None}] BY <3>1 DEF TypeOK
    <3>8. placed' \in [Nodes -> Pools \cup {None}] BY <3>1, <3>2 DEF TypeOK
    <3>9. TypeOK' BY <3>1, <3>6, <3>7, <3>8, CleanTyped DEF DropJob, TypeOK
    <3>10. InJob' BY <3>1, <3>2 DEF InJob, TypeOK
    <3>11. QED BY <3>9, <3>10
  <2>3. QED BY <2>1, <2>2
<1>10. CASE StartVolumes
  BY <1>10 DEF StartVolumes, TypeOK, InJob
<1>11. CASE Commit
  <2>1. machine' \in [Nodes -> Pools \cup {None}] BY <1>11 DEF Commit, TypeOK, MachineRow
  <2>2. mvol' \in [Vids -> MachineVolumes \cup {None}] BY <1>11 DEF Commit, TypeOK, VolumeRow
  <2>3. synced' \subseteq Volumes /\ returned' \subseteq Nodes BY <1>11 DEF Commit, TypeOK
  <2>4. QED BY <1>11, <2>1, <2>2, <2>3, CleanTyped
            DEF Commit, EndOfIteration, DropJob, TypeOK, InJob, NoPlace
<1>12. QED
  BY <1>1, <1>2, <1>3, <1>4, <1>5, <1>6, <1>7, <1>8, <1>9, <1>10, <1>11 DEF Scheduler

\* The builders, the API and the agents keep all rows and reports well formed.
LEMMA OthersTypeOK == TypeOK /\ InJob /\ (Builders \/ API \/ Agents) => TypeOK' /\ InJob'
<1> SUFFICES ASSUME TypeOK, InJob, Builders \/ API \/ Agents PROVE TypeOK' /\ InJob' OBVIOUS
<1> USE DEF rows, agent, job, hist, sched
<1>1. ASSUME NEW n \in Nodes, CreateMachineResource(n) PROVE TypeOK' /\ InJob'
  <2>1. mvol' \in [Vids -> MachineVolumes \cup {None}]
    BY <1>1, WithoutMachineRows DEF CreateMachineResource, TypeOK
  <2>2. machine' \in [Nodes -> Pools \cup {None}] BY <1>1 DEF CreateMachineResource, TypeOK
  <2>3. built' \subseteq Nodes /\ returned' \subseteq Nodes BY <1>1 DEF CreateMachineResource, TypeOK
  <2>4. QED BY <1>1, <2>1, <2>2, <2>3 DEF CreateMachineResource, TypeOK, InJob
<1>2. ASSUME NEW i \in Vids, CreateVolumeResource(i) PROVE TypeOK' /\ InJob'
  <2> DEFINE r == mvol[i]
             gone == IF r.owner \in Root /\ r.machine # None THEN {r.machine} ELSE {}
             f == [mvol EXCEPT ![i] = None]
  <2>1. r \in MachineVolumes BY <1>2 DEF CreateVolumeResource, TypeOK
  <2>2. gone \subseteq Nodes BY <2>1 DEF MachineVolumes
  <2>3. f \in [Vids -> MachineVolumes \cup {None}] BY DEF TypeOK
  <2>4. UNCHANGED <<nodes, vols, vnode, synced, avail, free, agent, sched, known>>
    BY <1>2 DEF CreateVolumeResource
  <2>5. CASE free[r.pool][Class[i]] < Size[i]
    <3>1. /\ mvol' = WithoutMachine(f, gone)
          /\ machine' = [n \in Nodes |-> IF n \in gone THEN None ELSE machine[n]]
          /\ built' = built \ gone /\ returned' = returned \cup gone /\ UNCHANGED vbuilt
      BY <1>2, <2>5 DEF CreateVolumeResource
    <3> HIDE DEF r, gone, f
    <3>2. mvol' \in [Vids -> MachineVolumes \cup {None}] BY <2>3, <3>1, WithoutMachineRows
    <3>3. machine' \in [Nodes -> Pools \cup {None}] BY <3>1 DEF TypeOK
    <3>4. built' \subseteq Nodes /\ returned' \subseteq Nodes BY <2>2, <3>1 DEF TypeOK
    <3>5. QED BY <2>4, <3>1, <3>2, <3>3, <3>4 DEF TypeOK, InJob
  <2>6. CASE ~ (free[r.pool][Class[i]] < Size[i])
    <3>1. vbuilt' = vbuilt \cup {i} /\ UNCHANGED <<mvol, machine, built, returned>>
      BY <1>2, <2>6 DEF CreateVolumeResource
    <3>2. QED BY <2>4, <3>1 DEF TypeOK, InJob
  <2>7. QED BY <2>5, <2>6
<1>3. ASSUME NEW n \in Nodes, DeleteMachineResource(n) PROVE TypeOK' /\ InJob'
  BY <1>3 DEF DeleteMachineResource, TypeOK, InJob
<1>4. ASSUME NEW i \in Vids, DeleteVolumeResource(i) PROVE TypeOK' /\ InJob'
  BY <1>4 DEF DeleteVolumeResource, TypeOK, InJob
<1>5. ASSUME NEW v \in Volumes, ActualizeMachineVolume(v) PROVE TypeOK' /\ InJob'
  <2>1. MachineOf(v) \in Nodes \cup {None} BY DEF MachineOf, TypeOK
  <2>2. ASSUME NEW i \in Vids, mvol[i] # None
        PROVE  [mvol[i] EXCEPT !.machine = MachineOf(v)] \in MachineVolumes
    <3>1. mvol[i] \in MachineVolumes BY <2>2 DEF TypeOK
    <3>2. QED BY <2>1, <3>1 DEF MachineVolumes
  <2>3. mvol' \in [Vids -> MachineVolumes \cup {None}]
    BY <1>5, <2>2 DEF ActualizeMachineVolume, TypeOK
  <2>4. QED BY <1>5, <2>3 DEF ActualizeMachineVolume, TypeOK, InJob
<1>6. ASSUME NEW n \in Nodes, CreateNode(n) PROVE TypeOK' /\ InJob'
  <2>1. vnode' \in [Volumes -> Nodes \cup {None}] BY <1>6 DEF CreateNode, TypeOK
  <2>2. QED BY <1>6, <2>1 DEF CreateNode, TypeOK, InJob
<1>7. ASSUME NEW n \in Nodes, DeleteNode(n) PROVE TypeOK' /\ InJob'
  <2>1. vnode' \in [Volumes -> Nodes \cup {None}] BY <1>7 DEF DeleteNode, TypeOK
  <2>2. WithoutMachine(mvol, {n}) \in [Vids -> MachineVolumes \cup {None}]
    BY WithoutMachineRows DEF TypeOK
  <2>3. mvol' \in [Vids -> MachineVolumes \cup {None}] BY <1>7, <2>2 DEF DeleteNode
  <2>4. machine' \in [Nodes -> Pools \cup {None}] BY <1>7 DEF DeleteNode, TypeOK
  <2>5. QED BY <1>7, <2>1, <2>3, <2>4 DEF DeleteNode, TypeOK, InJob
<1>8. ASSUME NEW v \in Volumes, NEW n \in Nodes, Attach(v, n) PROVE TypeOK' /\ InJob'
  BY <1>8 DEF Attach, TypeOK, InJob
<1>9. ASSUME NEW v \in Volumes, Detach(v) PROVE TypeOK' /\ InJob'
  BY <1>9 DEF Detach, TypeOK, InJob
<1>10. ASSUME NEW n \in Nodes, AgentCreates(n) \/ AgentRemoves(n) PROVE TypeOK' /\ InJob'
  BY <1>10 DEF AgentCreates, AgentRemoves, TypeOK, InJob
<1>11. ASSUME NEW i \in Vids, AgentStores(i) \/ AgentErases(i) PROVE TypeOK' /\ InJob'
  <2>1. mvol[i] # None => mvol[i].pool \in Pools BY DEF TypeOK, MachineVolumes
  <2>2. stored' \in [Vids -> Pools \cup {None}] BY <1>11, <2>1 DEF AgentStores, AgentErases, TypeOK
  <2>3. QED BY <1>11, <2>2 DEF AgentStores, AgentErases, TypeOK, InJob
<1>12. ASSUME NEW p \in Pools, ReportPool(p) PROVE TypeOK' /\ InJob'
  <2>1. avail' \in [Pools -> Int] BY <1>12, ReportsTyped DEF ReportPool, TypeOK
  <2>2. [c \in Classes |-> LeftOf(p, c)] \in [Classes -> Int] BY ReportsTyped
  <2>3. free' \in [Pools -> [Classes -> Int]] BY <1>12, <2>2 DEF ReportPool, TypeOK
  <2>4. QED BY <1>12, <2>1, <2>3 DEF ReportPool, TypeOK, InJob
<1>13. QED
  BY <1>1, <1>2, <1>3, <1>4, <1>5, <1>6, <1>7, <1>8, <1>9, <1>10, <1>11, <1>12
     DEF Builders, API, Agents

\* Rows, reports and the scheduler's memory stay well formed, for any pools,
\* nodes and volumes.
THEOREM TypeCorrect == Spec => [](TypeOK /\ InJob)
<1>1. ASSUME TypeOK /\ InJob, [Next]_vars PROVE TypeOK' /\ InJob'
  <2>1. CASE Next BY <1>1, <2>1, SchedulerTypeOK, OthersTypeOK DEF Next
  <2>2. CASE UNCHANGED vars
    BY <1>1, <2>2 DEF vars, rows, agent, sched, job, hist, TypeOK, InJob
  <2>3. QED BY <1>1, <2>1, <2>2
<1>2. QED BY <1>1, InitTypeOK, PTL DEF Spec

-----------------------------------------------------------------------------
\* Memory.

\* Nobody but the scheduler touches its iteration, and reports are not read
\* while it runs.
LEMMA OthersKeepIteration ==
    Builders \/ API \/ Agents =>
        /\ UNCHANGED sched
        /\ pc # "idle" => UNCHANGED <<avail, free>> /\ (API \/ Agents)
        /\ pc # "idle" /\ Agents => UNCHANGED rows
<1> SUFFICES ASSUME Builders \/ API \/ Agents
             PROVE  /\ UNCHANGED sched
                    /\ pc # "idle" => UNCHANGED <<avail, free>> /\ (API \/ Agents)
                    /\ pc # "idle" /\ Agents => UNCHANGED rows
  OBVIOUS
<1>1. Builders => UNCHANGED sched /\ pc = "idle"
  BY DEF Builders, CreateMachineResource, CreateVolumeResource, DeleteMachineResource,
         DeleteVolumeResource, ActualizeMachineVolume
<1>2. API => UNCHANGED <<sched, avail, free>>
  BY DEF API, CreateNode, DeleteNode, Attach, Detach
<1>3. Agents => UNCHANGED sched /\ (pc = "idle" \/ UNCHANGED <<rows, avail, free>>)
  BY DEF Agents, AgentCreates, AgentRemoves, AgentStores, AgentErases, ReportPool, rows
<1>4. QED BY <1>1, <1>2, <1>3

\* Memory within bounds stays so when it takes what a candidate needs.
LEMMA TakeDrawn ==
    ASSUME TypeOK, Drawn(mem), NEW v \in Volumes, NEW p \in Pools, NEW i \in Candidates(v, p)
    PROVE  Drawn(MemoryWith(v, p, i))
<1> DEFINE m == MemoryWith(v, p, i)
<1>1. /\ m.avail = mem.avail /\ m.free[p][Class[v]] >= 0
      /\ \A q \in Pools, c \in Classes : (q # p \/ c # Class[v]) => m.free[q][c] = mem.free[q][c]
  BY CandidateFits
<1> HIDE DEF m
<1>2. Drawn(m) BY <1>1 DEF Drawn
<1>3. QED BY <1>2 DEF m

\* No step of the scheduler takes what a pool row does not have.
LEMMA SchedulerCovered == TypeOK /\ InJob /\ Covered /\ Scheduler => Covered'
<1> SUFFICES ASSUME TypeOK, InJob, Covered, Scheduler PROVE Covered' OBVIOUS
<1> USE DEF rows
<1>1. CASE StartIteration
  <2>1. mem'.avail = avail /\ mem'.free = free /\ pc' = "nodes" /\ UNCHANGED <<avail, free>>
    BY <1>1 DEF StartIteration
  <2>2. QED BY <2>1 DEF Covered, Drawn
<1>2. ASSUME NEW n \in Nodes, ChooseNode(n) PROVE Covered'
  <2>1. Drawn(mem) BY <1>2 DEF ChooseNode, Covered
  <2>2. UNCHANGED <<mem, avail, free>> BY <1>2 DEF ChooseNode
  <2>3. \/ pc' = "nodes"
        \/ pc' = "pool" /\ cur' = n
           /\ pools' = SoftAntiAffinity(n, CoresRamAvailable(n))
    BY <1>2 DEF ChooseNode
  <2>4. SoftAntiAffinity(n, CoresRamAvailable(n)) \subseteq CoresRamAvailable(n)
    BY DEF SoftAntiAffinity
  <2>5. QED BY <2>1, <2>2, <2>3, <2>4 DEF Covered, Drawn, CoresRamAvailable
<1>3. ASSUME NEW p \in Pools, TryPool(p) PROVE Covered'
  <2>1. Drawn(mem) BY <1>3 DEF TryPool, Covered
  <2>2. UNCHANGED <<mem, avail, free, cur>> /\ at' = p /\ pools' = pools \ {p} /\ saved' = mem
        /\ p \in pools /\ pc = "pool" /\ pc' = "alloc"
    BY <1>3 DEF TryPool
  <2>3. Drawn(mem)' /\ Drawn(saved)' BY <2>1, <2>2 DEF Drawn
  <2>4. QED BY <2>2, <2>3 DEF Covered
<1>4. CASE NoPoolLeft
  BY <1>4 DEF NoPoolLeft, Covered, Drawn
<1>5. ASSUME NEW v \in Volumes, NEW i \in Vids, AllocateVolume(v, i) PROVE Covered'
  <2>1. /\ pc = "alloc" /\ UNCHANGED <<pc, avail, free, cur, at, pools, saved>>
        /\ i \in Candidates(v, at) /\ mem' = MemoryWith(v, at, i)
    BY <1>5 DEF AllocateVolume
  <2>2. at \in Pools /\ Drawn(mem) /\ Drawn(saved) BY <2>1 DEF InJob, Covered
  <2>3. Drawn(MemoryWith(v, at, i)) /\ MemoryWith(v, at, i).avail = mem.avail
    BY <2>1, <2>2, TakeDrawn, CandidateFits
  <2>4. Drawn(mem)' /\ Drawn(saved)'
    <3> DEFINE m == MemoryWith(v, at, i)
    <3> HIDE DEF m
    <3>1. mem' = m /\ Drawn(m) BY <2>1, <2>3 DEF m
    <3>2. QED BY <2>1, <2>2, <3>1 DEF Drawn
  <2>5. mem'.avail = mem.avail BY <2>1, <2>3
  <2>6. QED BY <2>1, <2>4, <2>5 DEF Covered
<1>6. ASSUME NEW v \in Volumes, NEW i \in Vids, PlaceVolume(v, i) PROVE Covered'
  <2> DEFINE p == MachineRow(vnode[v])
  <2>1. p \in Pools BY <1>6 DEF PlaceVolume, Followable, TypeOK, MachineRow
  <2>2. pc = "volumes" /\ UNCHANGED <<avail, free>> /\ i \in Candidates(v, p)
    BY <1>6 DEF PlaceVolume
  <2>3. (pc' = "idle") \/ (pc' = "volumes" /\ mem' = MemoryWith(v, p, i))
    BY <1>6 DEF PlaceVolume, EndOfIteration
  <2> DEFINE m == MemoryWith(v, p, i)
  <2> HIDE DEF p
  <2>4. Drawn(m) BY <2>1, <2>2, TakeDrawn DEF Covered
  <2>5. pc' = "volumes" => mem' = m BY <2>3
  <2> HIDE DEF m
  <2>6. QED BY <2>2, <2>3, <2>4, <2>5 DEF Covered, Drawn
<1>7. ASSUME NEW v \in Volumes, AllocateFails(v) PROVE Covered'
  BY <1>7 DEF AllocateFails, MemoryRestored, Covered, Drawn
<1>8. ASSUME NEW v \in Volumes, SkipVolume(v) \/ VolumeFails(v) PROVE Covered'
  BY <1>8 DEF SkipVolume, VolumeFails, Covered, Drawn
<1>9. CASE PlaceNode
  <2>1. CASE pc' = "idle" BY <2>1 DEF Covered
  <2>2. CASE pc' # "idle"
    <3>1. /\ pc = "alloc" /\ pc' = "nodes" /\ UNCHANGED <<avail, free>>
          /\ mem' = [mem EXCEPT !.avail = [mem.avail EXCEPT ![at] = mem.avail[at] - Need[cur]]]
      BY <1>9, <2>2 DEF PlaceNode, EndOfIteration
    <3>2. at \in Pools /\ cur \in Nodes /\ mem.avail[at] >= Need[cur] /\ Drawn(mem)
      BY <3>1 DEF InJob, Covered
    <3>3. mem.avail[at] \in Int /\ Need[cur] \in Int
      BY <3>2, ConstantsAssumption DEF TypeOK, Memories
    <3>4. mem.avail[at] - Need[cur] >= 0 BY <3>2, <3>3
    <3>5. mem'.avail[at] = mem.avail[at] - Need[cur] /\ mem'.free = mem.free
          /\ \A q \in Pools : q # at => mem'.avail[q] = mem.avail[q]
      BY <3>1, <3>2 DEF TypeOK, Memories
    <3>6. QED BY <3>1, <3>2, <3>4, <3>5 DEF Covered, Drawn
  <2>3. QED BY <2>1, <2>2
<1>10. CASE StartVolumes
  BY <1>10 DEF StartVolumes, Covered, Drawn
<1>11. CASE Commit
  BY <1>11 DEF Commit, EndOfIteration, Covered
<1>12. QED
  BY <1>1, <1>2, <1>3, <1>4, <1>5, <1>6, <1>7, <1>8, <1>9, <1>10, <1>11 DEF Scheduler

\* No step of anybody overdraws the memory.
LEMMA StepCovered == TypeOK /\ InJob /\ Covered /\ [Next]_vars => Covered'
<1> SUFFICES ASSUME TypeOK, InJob, Covered, [Next]_vars PROVE Covered' OBVIOUS
<1>1. CASE Scheduler BY <1>1, SchedulerCovered
<1>2. CASE Builders \/ API \/ Agents
  <2>1. UNCHANGED sched /\ (pc # "idle" => UNCHANGED <<avail, free>>)
    BY <1>2, OthersKeepIteration
  <2>2. QED BY <2>1 DEF sched, job, Covered, Drawn
<1>3. CASE UNCHANGED vars
  BY <1>3 DEF vars, rows, sched, job, Covered, Drawn
<1>4. QED BY <1>1, <1>2, <1>3 DEF Next

\* Within one iteration the scheduler never hands out cores, RAM or storage
\* that a pool row does not have, whatever is placed and whoever deletes
\* nodes meanwhile.
THEOREM NothingOverdrawn == Spec => []NeverOverdrawn
<1>1. Init => Covered BY DEF Init, Covered
<1>2. Covered => NeverOverdrawn BY DEF Covered, Drawn, NeverOverdrawn
<1>3. QED BY <1>1, <1>2, StepCovered, TypeCorrect, PTL DEF Spec

\* Rows that nobody owns are in no machine, and rows are neither given away
\* nor released to nobody while the scheduler's iteration runs.
LEMMA OthersKeepIdle ==
    ASSUME TypeOK, \A i \in Vids : Idle(i) => mvol[i].machine = None,
           Builders \/ API \/ Agents
    PROVE  /\ \A i \in Vids : Idle(i)' => mvol'[i].machine = None
           /\ pc # "idle" => \A i \in Vids : Idle(i)' <=> Idle(i)
<1> USE DEF rows
<1>1. mvol \in [Vids -> MachineVolumes \cup {None}] BY DEF TypeOK
<1>2. ASSUME UNCHANGED mvol
      PROVE  /\ \A i \in Vids : Idle(i)' => mvol'[i].machine = None
             /\ pc # "idle" => \A i \in Vids : Idle(i)' <=> Idle(i)
  BY <1>2 DEF Idle
<1>3. ASSUME NEW n \in Nodes, CreateMachineResource(n), ~ UNCHANGED mvol
      PROVE  pc = "idle" /\ \A i \in Vids : Idle(i)' => mvol'[i].machine = None
  <2>1. mvol' = WithoutMachine(mvol, {n}) /\ pc = "idle" BY <1>3 DEF CreateMachineResource
  <2>2. QED BY <1>1, <2>1, WithoutMachineRows DEF Idle
<1>4. ASSUME NEW j \in Vids, CreateVolumeResource(j), ~ UNCHANGED mvol
      PROVE  pc = "idle" /\ \A i \in Vids : Idle(i)' => mvol'[i].machine = None
  <2> DEFINE f == [mvol EXCEPT ![j] = None]
  <2>1. pc = "idle" /\ \E gone : mvol' = WithoutMachine(f, gone)
    BY <1>4 DEF CreateVolumeResource
  <2>2. f \in [Vids -> MachineVolumes \cup {None}] BY <1>1
  <2>3. \A i \in Vids : f[i] # None => f[i] = mvol[i] BY <1>1
  <2> HIDE DEF f
  <2>4. QED BY <2>1, <2>2, <2>3, WithoutMachineRows DEF Idle
<1>5. ASSUME NEW v \in Volumes, ActualizeMachineVolume(v)
      PROVE  pc = "idle" /\ \A i \in Vids : Idle(i)' => mvol'[i].machine = None
  <2> DEFINE own == {i \in Vids : mvol[i] # None /\ mvol[i].owner = v}
  <2>1. /\ pc = "idle"
        /\ mvol' = [i \in Vids |-> IF i \in own
                       THEN [mvol[i] EXCEPT !.machine = MachineOf(v)] ELSE mvol[i]]
    BY <1>5 DEF ActualizeMachineVolume
  <2>2. ASSUME NEW i \in Vids, Idle(i)' PROVE mvol'[i].machine = None
    <3>1. CASE i \in own
      <4>1. mvol[i] \in MachineVolumes /\ mvol[i].owner = v BY <1>1, <3>1
      <4>2. mvol'[i] = [mvol[i] EXCEPT !.machine = MachineOf(v)] BY <2>1, <3>1
      <4>3. mvol'[i].owner = v BY <4>1, <4>2 DEF MachineVolumes
      <4>4. v # None BY NoneAssumption
      <4>5. QED BY <2>2, <4>3, <4>4 DEF Idle
    <3>2. CASE i \notin own
      <4>1. mvol'[i] = mvol[i] BY <2>1, <3>2
      <4>2. QED BY <2>2, <4>1 DEF Idle
    <3>3. QED BY <3>1, <3>2
  <2>3. QED BY <2>1, <2>2
<1>6. ASSUME NEW n \in Nodes, DeleteNode(n)
      PROVE  /\ \A i \in Vids : Idle(i)' => mvol'[i].machine = None
             /\ \A i \in Vids : Idle(i)' <=> Idle(i)
  <2> DEFINE gone == {v \in vols : vnode[v] = n}
  <2>1. mvol' = [i \in Vids |-> IF mvol[i] # None /\ mvol[i].owner \in gone
                     THEN None ELSE WithoutMachine(mvol, {n})[i]]
    BY <1>6 DEF DeleteNode
  <2>2. None \notin gone BY NoneAssumption DEF TypeOK
  <2> HIDE DEF gone
  <2>3. QED BY <1>1, <2>1, <2>2, WithoutMachineRows DEF Idle
<1>7. Builders => (\E n \in Nodes : CreateMachineResource(n))
                  \/ (\E j \in Vids : CreateVolumeResource(j))
                  \/ (\E v \in Volumes : ActualizeMachineVolume(v)) \/ UNCHANGED mvol
  BY DEF Builders, DeleteMachineResource, DeleteVolumeResource
<1>8. API => (\E n \in Nodes : DeleteNode(n)) \/ UNCHANGED mvol
  BY DEF API, CreateNode, Attach, Detach
<1>9. Agents => UNCHANGED mvol
  BY DEF Agents, AgentCreates, AgentRemoves, AgentStores, AgentErases, ReportPool
<1>10. CASE UNCHANGED mvol BY <1>2, <1>10
<1>11. CASE ~ UNCHANGED mvol
  <2>1. CASE Builders BY <1>3, <1>4, <1>5, <1>7, <1>11, <2>1
  <2>2. CASE API BY <1>6, <1>8, <1>11, <2>2
  <2>3. QED BY <1>9, <1>11, <2>1, <2>2
<1>12. QED BY <1>10, <1>11

\* Every step of the scheduler pays for what it writes and takes back what
\* it does not write.
LEMMA SchedulerBalanced == TypeOK /\ InJob /\ Covered /\ Balanced /\ Scheduler => Balanced'
<1> SUFFICES ASSUME TypeOK, InJob, Covered, Balanced, Scheduler PROVE Balanced' OBVIOUS
<1> USE DEF rows
<1>0. \A v \in Volumes : v # None /\ v \notin Spares BY NoneAssumption, ConstantsAssumption
<1>r. \A p \in Pools, n \in Nodes \cup {None}, v \in Volumes \cup {None} :
          [pool |-> p, machine |-> n, owner |-> v] # None
  BY RowFormed, NoneAssumption
<1>1. CASE StartIteration
  <2>1. /\ mem'.avail = avail /\ pc' = "nodes" /\ pc = "idle"
        /\ mem'.spares = {s \in Spares : mvol[s] # None /\ mvol[s].machine = None
                                                        /\ mvol[s].owner = None}
        /\ UNCHANGED <<avail, mvol, placed, taken, got, saved>>
    BY <1>1 DEF StartIteration, job
  <2>2. placed = NoPlace /\ taken = NoRows BY <2>1 DEF InJob
  <2>3. ASSUME NEW p \in Pools
        PROVE  mem'.avail[p] = avail'[p] - SumFunctionOnSet(Need, {n \in Nodes : placed'[n] = p})
    <3>1. {n \in Nodes : placed'[n] = p} = {} BY <2>1, <2>2, NoneAssumption DEF NoPlace
    <3>2. SumFunctionOnSet(Need, {}) = 0
      <4>1. IsFiniteSet({}) BY FS_EmptySet
      <4>2. QED BY <4>1, SumStep
    <3>3. avail[p] - 0 = avail[p] BY DEF TypeOK
    <3>4. SumFunctionOnSet(Need, {n \in Nodes : placed'[n] = p}) = 0 BY <3>1, <3>2
    <3>5. QED BY <2>1, <3>3, <3>4
  <2>4. Spares \subseteq Vids BY DEF Vids
  <2>5. mem'.spares = {s \in Spares : Idle(s) /\ taken[s] = None}
    BY <2>1, <2>2, <2>4 DEF Balanced, Idle, NoRows
  <2>6. \A s \in Spares : taken[s] = None BY <2>2, <2>4 DEF NoRows
  <2>7. QED BY <2>1, <2>3, <2>5, <2>6 DEF Balanced, Idle
<1>2. ASSUME NEW n \in Nodes, ChooseNode(n) PROVE Balanced'
  <2>1. pc = "nodes" /\ pc' \in {"nodes", "pool"}
        /\ UNCHANGED <<mvol, mem, avail, placed, taken, got, saved>>
    BY <1>2 DEF ChooseNode
  <2>2. QED BY <2>1 DEF Balanced, Idle
<1>3. ASSUME NEW p \in Pools, TryPool(p) PROVE Balanced'
  <2>1. pc = "pool" /\ pc' = "alloc" /\ got' = NoRows /\ saved' = mem
        /\ UNCHANGED <<mvol, mem, avail, placed, taken>>
    BY <1>3 DEF TryPool
  <2>2. \A i \in Vids : got'[i] = None BY <2>1 DEF NoRows
  <2>3. Spares \subseteq Vids BY DEF Vids
  <2>4. QED BY <2>1, <2>2, <2>3 DEF Balanced, Idle
<1>4. CASE NoPoolLeft
  <2>1. pc = "pool" /\ pc' = "nodes" /\ got' = NoRows
        /\ UNCHANGED <<mvol, mem, avail, placed, taken>>
    BY <1>4 DEF NoPoolLeft, DropJob
  <2>2. \A i \in Vids : got'[i] = None BY <2>1 DEF NoRows
  <2>3. QED BY <2>1, <2>2 DEF Balanced, Idle
<1>5. ASSUME NEW v \in Volumes, NEW i \in Vids, AllocateVolume(v, i) PROVE Balanced'
  <2> DEFINE r == [pool |-> at, machine |-> cur, owner |-> v]
  <2>1. /\ pc = "alloc" /\ UNCHANGED <<pc, mvol, avail, saved, placed, taken>>
        /\ i \in Candidates(v, at) /\ mem' = MemoryWith(v, at, i)
        /\ got' = [got EXCEPT ![i] = r]
    BY <1>5 DEF AllocateVolume
  <2>2. at \in Pools /\ cur \in Nodes BY <2>1 DEF InJob
  <2>3. r # None /\ r.owner = v BY <1>r, <2>2
  <2>4. /\ mem'.avail = mem.avail /\ mem'.spares = mem.spares \ {i}
        /\ i = v \/ i \in mem.spares
    BY <2>1, <2>2, CandidateFits
  <2> HIDE DEF r
  <2>5. \A j \in Vids : got'[j] = IF j = i THEN r ELSE got[j] BY <2>1 DEF TypeOK
  <2>6. Spares \subseteq Vids BY DEF Vids
  <2>7. \A j \in Vids : got'[j] # None => got'[j].owner # None BY <1>0, <2>3, <2>5 DEF Balanced
  <2>8. mem'.spares = {s \in Spares : /\ Idle(s) /\ taken[s] = None /\ got'[s] = None}
    BY <1>0, <2>1, <2>3, <2>4, <2>5, <2>6 DEF Balanced
  <2>9. \A s \in Spares : got'[s] # None => Idle(s) /\ taken[s] = None
    BY <1>0, <2>1, <2>4, <2>5, <2>6 DEF Balanced
  <2>10. QED BY <2>1, <2>4, <2>7, <2>8, <2>9 DEF Balanced, Idle
<1>6. ASSUME NEW v \in Volumes, NEW i \in Vids, PlaceVolume(v, i) PROVE Balanced'
  <2> DEFINE p == MachineRow(vnode[v])
             r == [pool |-> p, machine |-> vnode[v], owner |-> v]
  <2>1. vnode[v] \in Nodes /\ p \in Pools
    BY <1>6 DEF PlaceVolume, Followable, TypeOK, MachineRow
  <2>2. pc = "volumes" /\ UNCHANGED <<mvol, avail>> /\ i \in Candidates(v, p)
    BY <1>6 DEF PlaceVolume
  <2>3. \/ pc' = "idle" /\ taken' = NoRows /\ got' = NoRows
        \/ /\ pc' = "volumes" /\ mem' = MemoryWith(v, p, i) /\ taken' = [taken EXCEPT ![i] = r]
           /\ UNCHANGED <<got, saved, placed>>
    BY <1>6 DEF PlaceVolume, EndOfIteration, DropJob
  <2>4. r # None /\ r.owner = v BY <1>r, <2>1
  <2> HIDE DEF p
  <2>5. /\ MemoryWith(v, p, i).avail = mem.avail
        /\ MemoryWith(v, p, i).spares = mem.spares \ {i}
        /\ i = v \/ i \in mem.spares
    BY <2>1, <2>2, CandidateFits
  <2> HIDE DEF r
  <2>6. CASE pc' = "idle"
    <3>1. \A j \in Vids : taken'[j] = None /\ got'[j] = None BY <2>3, <2>2, <2>6 DEF NoRows
    <3>2. QED BY <2>2, <2>6, <3>1 DEF Balanced, Idle
  <2>7. CASE pc' = "volumes"
    <3>1. /\ mem'.avail = mem.avail /\ mem'.spares = mem.spares \ {i}
          /\ UNCHANGED <<got, saved, placed>>
      BY <2>3, <2>5, <2>7
    <3>2. \A j \in Vids : taken'[j] = IF j = i THEN r ELSE taken[j] BY <2>3, <2>7 DEF TypeOK
    <3>3. Spares \subseteq Vids BY DEF Vids
    <3>4. \A j \in Vids : taken'[j] # None => taken'[j].owner # None
      BY <1>0, <2>4, <3>2 DEF Balanced
    <3>5. mem'.spares = {s \in Spares : Idle(s) /\ taken'[s] = None}
      BY <1>0, <2>2, <2>4, <2>5, <3>1, <3>2, <3>3 DEF Balanced
    <3>6. \A s \in Spares : taken'[s] # None => Idle(s)
      BY <1>0, <2>2, <2>5, <3>2, <3>3 DEF Balanced
    <3>7. QED BY <2>2, <2>7, <3>1, <3>4, <3>5, <3>6 DEF Balanced, Idle
  <2>8. QED BY <2>3, <2>6, <2>7
<1>7. ASSUME NEW v \in Volumes, AllocateFails(v) PROVE Balanced'
  <2>1. pc = "alloc" /\ pc' = "pool" /\ mem' = saved /\ got' = NoRows
        /\ UNCHANGED <<mvol, avail, placed, taken>>
    BY <1>7 DEF AllocateFails, MemoryRestored
  <2>2. \A i \in Vids : got'[i] = None BY <2>1 DEF NoRows
  <2>3. mem'.avail = mem.avail /\ mem'.spares = {s \in Spares : Idle(s) /\ taken[s] = None}
    BY <2>1 DEF Covered, Balanced
  <2>4. QED BY <2>1, <2>2, <2>3 DEF Balanced, Idle
<1>8. ASSUME NEW v \in Volumes, SkipVolume(v) \/ VolumeFails(v) PROVE Balanced'
  BY <1>8 DEF SkipVolume, VolumeFails, Balanced, Idle
<1>9. CASE PlaceNode
  <2>1. CASE pc' = "idle"
    <3>1. taken' = NoRows /\ got' = NoRows /\ UNCHANGED mvol
      BY <1>9, <2>1 DEF PlaceNode, EndOfIteration, DropJob
    <3>2. \A j \in Vids : taken'[j] = None /\ got'[j] = None BY <3>1 DEF NoRows
    <3>3. QED BY <2>1, <3>1, <3>2 DEF Balanced, Idle
  <2>2. CASE pc' # "idle"
    <3>1. /\ pc = "alloc" /\ pc' = "nodes" /\ got' = NoRows /\ UNCHANGED <<avail, mvol>>
          /\ placed' = [placed EXCEPT ![cur] = at]
          /\ taken' = [i \in Vids |-> IF i \in {j \in Vids : got[j] # None}
                                      THEN got[i] ELSE taken[i]]
          /\ mem' = [mem EXCEPT !.avail = [mem.avail EXCEPT ![at] = mem.avail[at] - Need[cur]]]
      BY <1>9, <2>2 DEF PlaceNode, EndOfIteration, DropJob
    <3>2. at \in Pools /\ cur \in Nodes /\ placed[cur] = None BY <3>1 DEF InJob
    <3>3. mem'.avail[at] = mem.avail[at] - Need[cur] /\ mem'.spares = mem.spares
          /\ \A q \in Pools : q # at => mem'.avail[q] = mem.avail[q]
      BY <3>1, <3>2 DEF TypeOK, Memories
    <3>4. ASSUME NEW p \in Pools
          PROVE  mem'.avail[p] = avail'[p] - SumFunctionOnSet(Need, {n \in Nodes : placed'[n] = p})
      <4> DEFINE A == {n \in Nodes : placed[n] = p}
                 B == {n \in Nodes : placed'[n] = p}
      <4>1. mem.avail[p] = avail[p] - SumFunctionOnSet(Need, A) BY <3>1 DEF Balanced
      <4>2. CASE p # at
        <5>1. p # None BY NoneAssumption
        <5>2. B = A BY <3>1, <3>2, <4>2, <5>1 DEF TypeOK
        <5> HIDE DEF A, B
        <5>3. mem'.avail[p] = avail'[p] - SumFunctionOnSet(Need, B)
          BY <3>1, <3>3, <4>1, <4>2, <5>2
        <5>4. QED BY <5>3 DEF B
      <4>3. CASE p = at
        <5>1. p # None BY NoneAssumption
        <5>2. cur \in B /\ B \ {cur} = A BY <3>1, <3>2, <4>3, <5>1 DEF TypeOK
        <5>3. IsFiniteSet(B) /\ \A n \in B : Need[n] \in Int
          BY ConstantsAssumption, FS_Subset
        <5>4. SumFunctionOnSet(Need, A) \in Int BY SumsTyped
        <5> HIDE DEF A, B
        <5>5. SumFunctionOnSet(Need, B) = Need[cur] + SumFunctionOnSet(Need, A)
          BY <5>2, <5>3, SumAdds
        <5>6. avail[p] \in Int /\ Need[cur] \in Int BY <3>2, ConstantsAssumption DEF TypeOK
        <5>7. mem'.avail[p] = (avail[p] - SumFunctionOnSet(Need, A)) - Need[cur]
          BY <3>3, <4>1, <4>3
        <5>8. mem'.avail[p] = avail[p] - (Need[cur] + SumFunctionOnSet(Need, A))
          BY <5>4, <5>6, <5>7
        <5>9. mem'.avail[p] = avail'[p] - SumFunctionOnSet(Need, B) BY <3>1, <5>5, <5>8
        <5>10. QED BY <5>9 DEF B
      <4>4. QED BY <4>2, <4>3
    <3>5. Spares \subseteq Vids BY DEF Vids
    <3>6. \A j \in Vids : taken'[j] = (IF got[j] # None THEN got[j] ELSE taken[j])
      BY <3>1
    <3>7. \A j \in Vids : got'[j] = None /\ (taken'[j] # None => taken'[j].owner # None)
      BY <3>1, <3>6 DEF Balanced, NoRows
    <3>8. mem'.spares = {s \in Spares : Idle(s) /\ taken'[s] = None}
      BY <3>1, <3>3, <3>5, <3>6 DEF Balanced
    <3>9. \A s \in Spares : taken'[s] # None => Idle(s) BY <3>1, <3>5, <3>6 DEF Balanced
    <3>10. QED BY <3>1, <3>4, <3>7, <3>8, <3>9 DEF Balanced, Idle
  <2>3. QED BY <2>1, <2>2
<1>10. CASE StartVolumes
  <2>1. pc = "nodes" /\ pc' = "volumes"
        /\ UNCHANGED <<mvol, mem, avail, placed, taken, got, saved>>
    BY <1>10 DEF StartVolumes
  <2>2. QED BY <2>1 DEF Balanced, Idle
<1>11. CASE Commit
  <2>1. pc' = "idle" /\ taken' = NoRows /\ got' = NoRows /\ mvol' = [i \in Vids |-> VolumeRow(i)]
    BY <1>11 DEF Commit, EndOfIteration, DropJob
  <2>2. \A j \in Vids : taken'[j] = None /\ got'[j] = None BY <2>1 DEF NoRows
  <2>3. \A i \in Vids : Idle(i)' => mvol'[i].machine = None
    BY <2>1 DEF VolumeRow, Balanced, Idle
  <2>4. QED BY <2>1, <2>2, <2>3 DEF Balanced
<1>12. QED
  BY <1>1, <1>2, <1>3, <1>4, <1>5, <1>6, <1>7, <1>8, <1>9, <1>10, <1>11 DEF Scheduler

-----------------------------------------------------------------------------
\* Storage.

\* Rows of machine volumes that all have an owner.
Owned(f) == /\ f \in [Vids -> MachineVolumes \cup {None}]
            /\ \A i \in Vids : f[i] # None => f[i].owner # None

\* The two halves of what is charged.
Costs(f)    == [i \in Vids |-> IF f[i] = None THEN 0 ELSE Cost(f, i)]
RowsAt(f, p, c) == {i \in Vids : f[i] # None /\ f[i].pool = p /\ Class[i] = c}

\* A row costs a number, and what is charged is their sum over a finite set.
LEMMA CostsTyped ==
    ASSUME NEW f, Owned(f), NEW p \in Pools, NEW c \in Classes
    PROVE  /\ Charged(f, p, c) = SumFunctionOnSet(Costs(f), RowsAt(f, p, c))
           /\ \A i \in Vids : Costs(f)[i] \in Int
           /\ RowsAt(f, p, c) \subseteq Vids /\ IsFiniteSet(RowsAt(f, p, c))
           /\ Charged(f, p, c) \in Int
<1>1. Charged(f, p, c) = SumFunctionOnSet(Costs(f), RowsAt(f, p, c))
  BY DEF Charged, Costs, RowsAt
<1>2. ASSUME NEW i \in Vids PROVE Costs(f)[i] \in Int
  <2>1. CASE f[i] = None BY <2>1 DEF Costs
  <2>2. CASE f[i] # None
    <3>1. f[i].owner \in Volumes BY <2>2 DEF Owned, MachineVolumes
    <3>2. Size[f[i].owner] \in Nat /\ Size[i] \in Nat BY <3>1, ConstantsAssumption DEF Vids
    <3>3. Cost(f, i) \in Int BY <3>2 DEF Cost
    <3>4. QED BY <2>2, <3>3 DEF Costs
  <2>3. QED BY <2>1, <2>2
<1>3. RowsAt(f, p, c) \subseteq Vids BY DEF RowsAt
<1>4. IsFiniteSet(RowsAt(f, p, c)) BY <1>3, ConstantsAssumption, FS_Subset DEF Vids
<1>5. SumFunctionOnSet(Costs(f), RowsAt(f, p, c)) \in Int BY <1>2, <1>3, <1>4, SumStep
<1>6. QED BY <1>1, <1>2, <1>3, <1>4, <1>5

\* No rows cost nothing.
LEMMA NothingCharged ==
    ASSUME NEW p \in Pools, NEW c \in Classes
    PROVE  Charged(NoRows, p, c) = 0 /\ Owned(NoRows)
<1>1. Owned(NoRows) BY DEF Owned, NoRows
<1>2. RowsAt(NoRows, p, c) = {} BY DEF RowsAt, NoRows
<1>3. Charged(NoRows, p, c) = SumFunctionOnSet(Costs(NoRows), {}) BY <1>1, <1>2, CostsTyped
<1>4. IsFiniteSet({}) BY FS_EmptySet
<1>5. SumFunctionOnSet(Costs(NoRows), {}) = 0 BY <1>4, SumStep
<1>6. QED BY <1>1, <1>3, <1>5

\* Rows of two tables that share no key cost the sum of both.
LEMMA ChargedTogether ==
    ASSUME NEW f, Owned(f), NEW g, Owned(g), \A i \in Vids : f[i] = None \/ g[i] = None,
           NEW h, h = [i \in Vids |-> IF g[i] # None THEN g[i] ELSE f[i]],
           NEW p \in Pools, NEW c \in Classes
    PROVE  Owned(h) /\ Charged(h, p, c) = Charged(f, p, c) + Charged(g, p, c)
<1> DEFINE A == RowsAt(f, p, c)
           B == RowsAt(g, p, c)
           C == RowsAt(h, p, c)
<1>1. Owned(h) BY DEF Owned
<1>2. C = A \cup B /\ A \cap B = {} BY DEF RowsAt
<1>3. /\ \A i \in A : Costs(f)[i] = Costs(h)[i]
      /\ \A i \in B : Costs(g)[i] = Costs(h)[i]
  <2>1. \A i \in A : i \in Vids /\ f[i] # None /\ h[i] = f[i] BY DEF RowsAt
  <2>2. \A i \in B : i \in Vids /\ g[i] # None /\ h[i] = g[i] BY DEF RowsAt
  <2> HIDE DEF A, B
  <2>3. QED BY <2>1, <2>2 DEF Costs, Cost
<1>4. /\ IsFiniteSet(A) /\ IsFiniteSet(B) /\ A \subseteq Vids /\ B \subseteq Vids
      /\ \A i \in Vids : Costs(h)[i] \in Int
  BY <1>1, CostsTyped
<1>5. /\ Charged(f, p, c) = SumFunctionOnSet(Costs(f), A)
      /\ Charged(g, p, c) = SumFunctionOnSet(Costs(g), B)
      /\ Charged(h, p, c) = SumFunctionOnSet(Costs(h), C)
  BY <1>1, CostsTyped
<1> HIDE DEF A, B, C
<1>6. SumFunctionOnSet(Costs(f), A) = SumFunctionOnSet(Costs(h), A)
  <2>1. \A i \in A : Costs(h)[i] \in Int BY <1>4
  <2>2. QED BY <1>3, <1>4, <2>1, SumAgrees
<1>7. SumFunctionOnSet(Costs(g), B) = SumFunctionOnSet(Costs(h), B)
  <2>1. \A i \in B : Costs(h)[i] \in Int BY <1>4
  <2>2. QED BY <1>3, <1>4, <2>1, SumAgrees
<1>8. SumFunctionOnSet(Costs(h), A \cup B)
        = SumFunctionOnSet(Costs(h), A) + SumFunctionOnSet(Costs(h), B)
  <2>1. \A i \in A \cup B : Costs(h)[i] \in Int BY <1>4
  <2>2. QED BY <1>2, <1>4, <2>1, SumSplits
<1>9. QED BY <1>1, <1>2, <1>5, <1>6, <1>7, <1>8

\* What a row costs the storage of class c in pool p.
RowCost(r, i, p, c) ==
    IF r.pool = p /\ Class[i] = c THEN Size[r.owner] - (IF r.owner = i THEN 0 ELSE Size[i]) ELSE 0

\* A row more costs what the row costs.
LEMMA ChargedMore ==
    ASSUME NEW f, Owned(f), NEW i \in Vids, f[i] = None,
           NEW r \in MachineVolumes, r # None, r.owner # None,
           NEW p \in Pools, NEW c \in Classes
    PROVE  /\ Owned([f EXCEPT ![i] = r])
           /\ Charged([f EXCEPT ![i] = r], p, c) = Charged(f, p, c) + RowCost(r, i, p, c)
<1> DEFINE g == [NoRows EXCEPT ![i] = r]
           h == [f EXCEPT ![i] = r]
<1>1. Owned(g) /\ Owned(h)
  <2>1. NoRows \in [Vids -> MachineVolumes \cup {None}] BY DEF NoRows
  <2>2. QED BY <2>1 DEF Owned, NoRows
<1>2. \A j \in Vids : (f[j] = None \/ g[j] = None) /\ g[j] = IF j = i THEN r ELSE None
  BY DEF NoRows
<1>3. h = [j \in Vids |-> IF g[j] # None THEN g[j] ELSE f[j]] BY <1>2 DEF Owned
<1>4. Charged(h, p, c) = Charged(f, p, c) + Charged(g, p, c)
  <2> HIDE DEF g, h
  <2>1. \A j \in Vids : f[j] = None \/ g[j] = None BY <1>2
  <2>2. QED BY <1>1, <1>3, <2>1, ChargedTogether
<1>5. Charged(g, p, c) = RowCost(r, i, p, c)
  <2>1. /\ Charged(g, p, c) = SumFunctionOnSet(Costs(g), RowsAt(g, p, c))
        /\ \A j \in Vids : Costs(g)[j] \in Int
    BY <1>1, CostsTyped
  <2>2. g[i] = r BY <1>2
  <2>3. IsFiniteSet({}) /\ IsFiniteSet({i}) BY FS_EmptySet, FS_Singleton
  <2>4. SumFunctionOnSet(Costs(g), {}) = 0 BY <2>3, SumStep
  <2>5. CASE r.pool = p /\ Class[i] = c
    <3>1. RowsAt(g, p, c) = {i} BY <1>2, <2>5 DEF RowsAt
    <3>2. SumFunctionOnSet(Costs(g), {i}) = Costs(g)[i] + SumFunctionOnSet(Costs(g), {i} \ {i})
      <4>1. \A j \in {i} : Costs(g)[j] \in Int BY <2>1
      <4>2. i \in {i} OBVIOUS
      <4>3. QED BY <2>3, <4>1, <4>2, SumAdds
    <3>3. {i} \ {i} = {} OBVIOUS
    <3>4. Costs(g)[i] \in Int BY <2>1
    <3> HIDE DEF g
    <3>5. SumFunctionOnSet(Costs(g), {i}) = Costs(g)[i]
      <4>1. SumFunctionOnSet(Costs(g), {i}) = Costs(g)[i] + SumFunctionOnSet(Costs(g), {})
        BY <3>2, <3>3
      <4> DEFINE e == Costs(g)[i]
                 t == SumFunctionOnSet(Costs(g), {i})
      <4>2. t = e + 0 /\ e \in Int BY <2>4, <3>4, <4>1
      <4> HIDE DEF e, t
      <4>3. t = e BY <4>2
      <4>4. QED BY <4>3 DEF e, t
    <3>6. Costs(g)[i] = Size[r.owner] - (IF r.owner = i THEN 0 ELSE Size[i])
      BY <2>2 DEF Costs, Cost
    <3>7. QED BY <2>1, <2>5, <3>1, <3>5, <3>6 DEF RowCost
  <2>6. CASE ~ (r.pool = p /\ Class[i] = c)
    <3>1. RowsAt(g, p, c) = {} BY <1>2, <2>6 DEF RowsAt
    <3>2. QED BY <2>1, <2>4, <2>6, <3>1 DEF RowCost
  <2>7. QED BY <2>5, <2>6
<1>6. QED BY <1>1, <1>4, <1>5

\* Memory is charged for a candidate what the row of it costs.
LEMMA CandidateCosts ==
    ASSUME TypeOK, NEW v \in Volumes, NEW p \in Pools, NEW i \in Candidates(v, p), NEW r,
           r.owner = v, r.pool = p
    PROVE  \A q \in Pools, c \in Classes : /\ RowCost(r, i, q, c) \in Int
              /\ MemoryWith(v, p, i).free[q][c] = mem.free[q][c] - RowCost(r, i, q, c)
<1> DEFINE d == Size[v] - IF i = v THEN 0 ELSE Size[i]
<1>1. (i = v \/ i \in mem.spares) /\ i \in Vids /\ v \in Vids
  BY DEF Candidates, Suitable, TypeOK, Memories, Vids
<1>2. Class[i] = Class[v]
  <2>1. i = v \/ i \in Suitable(v, p) BY DEF Candidates
  <2>2. QED BY <2>1 DEF Suitable
<1>3. Class[v] \in Classes /\ d \in Int
  <2>1. Class[v] \in Classes BY <1>1, ConstantsAssumption DEF Vids
  <2>2. Size[v] \in Nat /\ Size[i] \in Nat BY <1>1, ConstantsAssumption DEF Vids
  <2>3. QED BY <2>1, <2>2
<1>4. \A q \in Pools, c \in Classes :
          RowCost(r, i, q, c) = IF q = p /\ c = Class[v] THEN d ELSE 0
  BY <1>2 DEF RowCost
<1>5. mem.free \in [Pools -> [Classes -> Int]] BY DEF TypeOK, Memories
<1>6. MemoryWith(v, p, i).free = [mem.free EXCEPT ![p][Class[v]] = @ - d]
  BY DEF MemoryWith
<1> HIDE DEF d
<1>7. ASSUME NEW q \in Pools, NEW c \in Classes
      PROVE  MemoryWith(v, p, i).free[q][c]
                = mem.free[q][c] - (IF q = p /\ c = Class[v] THEN d ELSE 0)
  <2>1. CASE q = p /\ c = Class[v] BY <1>3, <1>5, <1>6, <2>1
  <2>2. CASE ~ (q = p /\ c = Class[v])
    <3>1. mem.free[q][c] \in Int BY <1>5
    <3>2. MemoryWith(v, p, i).free[q][c] = mem.free[q][c] BY <1>3, <1>5, <1>6, <2>2
    <3>3. QED BY <2>2, <3>1, <3>2
  <2>3. QED BY <2>1, <2>2
<1>8. QED BY <1>3, <1>4, <1>7

\* The rows of the open transaction and those that wait all have owners.
LEMMA RowsOfIteration == TypeOK /\ Balanced => Owned(taken) /\ Owned(got)
BY DEF TypeOK, Balanced, Owned

\* Every step of the scheduler charges the storage of what it takes, and a
\* node that does not fit gives back what was charged for it.
LEMMA SchedulerStores ==
    TypeOK /\ InJob /\ Balanced /\ StorageBalanced /\ Scheduler => StorageBalanced'
<1> SUFFICES ASSUME TypeOK, InJob, Balanced, StorageBalanced, Scheduler PROVE StorageBalanced'
  OBVIOUS
<1> USE DEF rows
<1>0. \A v \in Volumes : v # None /\ v \notin Spares BY NoneAssumption, ConstantsAssumption
<1>o. Owned(taken) /\ Owned(got) BY RowsOfIteration
<1>t. \A p \in Pools, c \in Classes :
          /\ free[p][c] \in Int /\ mem.free[p][c] \in Int
          /\ Charged(taken, p, c) \in Int /\ Charged(got, p, c) \in Int
          /\ Charged(NoRows, p, c) = 0
  BY <1>o, CostsTyped, NothingCharged DEF TypeOK, Memories
<1>e. pc' = "idle" /\ got' = NoRows => StorageBalanced' BY DEF StorageBalanced
<1>1. CASE StartIteration
  <2>1. /\ mem'.free = free /\ pc' = "nodes" /\ pc = "idle" /\ UNCHANGED <<free, taken, got>>
    BY <1>1 DEF StartIteration, job
  <2>2. taken = NoRows /\ got = NoRows BY <2>1 DEF InJob, StorageBalanced
  <2>3. ASSUME NEW p \in Pools, NEW c \in Classes
        PROVE  mem'.free[p][c] = free'[p][c] - (Charged(taken', p, c) + Charged(got', p, c))
    BY <1>t, <2>1, <2>2
  <2>4. QED BY <2>1, <2>2, <2>3 DEF StorageBalanced
<1>2. ASSUME NEW n \in Nodes, ChooseNode(n) PROVE StorageBalanced'
  <2>1. pc = "nodes" /\ pc' \in {"nodes", "pool"} /\ UNCHANGED <<mem, free, taken, got>>
    BY <1>2 DEF ChooseNode
  <2>2. QED BY <2>1 DEF StorageBalanced
<1>3. ASSUME NEW p \in Pools, TryPool(p) PROVE StorageBalanced'
  <2>1. pc = "pool" /\ pc' = "alloc" /\ got' = NoRows /\ saved' = mem
        /\ UNCHANGED <<mem, free, taken>>
    BY <1>3 DEF TryPool
  <2>2. got = NoRows BY <2>1 DEF StorageBalanced
  <2>3. left' \subseteq Volumes BY <1>3 DEF TryPool, TypeOK, InJob
  <2>4. \A v \in left' : got'[v] = None BY <2>1, <2>3 DEF NoRows, Vids
  <2>5. ASSUME NEW q \in Pools, NEW c \in Classes
        PROVE  saved'.free[q][c] = free'[q][c] - Charged(taken', q, c)
    <3>1. mem.free[q][c] = free[q][c] - (Charged(taken, q, c) + Charged(got, q, c))
      BY <2>1 DEF StorageBalanced
    <3>2. QED BY <1>t, <2>1, <2>2, <3>1
  <2>6. QED BY <2>1, <2>2, <2>4, <2>5 DEF StorageBalanced
<1>4. CASE NoPoolLeft
  <2>1. pc = "pool" /\ pc' = "nodes" /\ got' = NoRows /\ UNCHANGED <<mem, free, taken>>
    BY <1>4 DEF NoPoolLeft, DropJob
  <2>2. got = NoRows BY <2>1 DEF StorageBalanced
  <2>3. QED BY <2>1, <2>2 DEF StorageBalanced
<1>5. ASSUME NEW v \in Volumes, NEW i \in Vids, AllocateVolume(v, i) PROVE StorageBalanced'
  <2> DEFINE r == [pool |-> at, machine |-> cur, owner |-> v]
  <2>1. /\ pc = "alloc" /\ UNCHANGED <<pc, free, saved, taken>>
        /\ i \in Candidates(v, at) /\ mem' = MemoryWith(v, at, i)
        /\ got' = [got EXCEPT ![i] = r] /\ v \in left /\ left' = left \ {v}
    BY <1>5 DEF AllocateVolume
  <2>2. at \in Pools /\ cur \in Nodes BY <2>1 DEF InJob
  <2>3. r \in MachineVolumes /\ r # None /\ r.owner = v /\ r.pool = at /\ v # None
    BY <1>0, <2>2, RowFormed, NoneAssumption
  <2>4. i = v \/ i \in mem.spares BY <2>1, <2>2, CandidateFits
  <2>5. got[i] = None
    <3>1. CASE i = v BY <2>1, <3>1 DEF StorageBalanced
    <3>2. CASE i \in mem.spares BY <2>1, <3>2 DEF Balanced
    <3>3. QED BY <2>4, <3>1, <3>2
  <2> HIDE DEF r
  <2>6. ASSUME NEW p \in Pools, NEW c \in Classes
        PROVE  mem'.free[p][c] = free'[p][c] - (Charged(taken', p, c) + Charged(got', p, c))
    <3>1. mem.free[p][c] = free[p][c] - (Charged(taken, p, c) + Charged(got, p, c))
      BY <2>1 DEF StorageBalanced
    <3>2. mem'.free[p][c] = mem.free[p][c] - RowCost(r, i, p, c) /\ RowCost(r, i, p, c) \in Int
      BY <2>1, <2>2, <2>3, CandidateCosts
    <3>3. Charged(got', p, c) = Charged(got, p, c) + RowCost(r, i, p, c)
      BY <1>o, <2>1, <2>3, <2>5, ChargedMore
    <3> DEFINE a == free[p][c]
               t == Charged(taken, p, c)
               g == Charged(got, p, c)
               d == RowCost(r, i, p, c)
    <3>4. a \in Int /\ t \in Int /\ g \in Int /\ d \in Int BY <1>t, <3>2
    <3>5. mem'.free[p][c] = (a - (t + g)) - d BY <3>1, <3>2
    <3>6. free'[p][c] - (Charged(taken', p, c) + Charged(got', p, c)) = a - (t + (g + d))
      BY <2>1, <3>3
    <3> HIDE DEF a, t, g, d
    <3>7. (a - (t + g)) - d = a - (t + (g + d)) BY <3>4
    <3>8. QED BY <3>5, <3>6, <3>7
  <2>7. \A u \in left' : got'[u] = None
    <3>1. \A u \in left' : u # i BY <1>0, <2>1, <2>4 DEF TypeOK, Memories
    <3>2. \A u \in left' : u \in Vids /\ got[u] = None BY <2>1 DEF StorageBalanced, TypeOK, Vids
    <3>3. QED BY <2>1, <3>1, <3>2 DEF TypeOK
  <2>8. QED BY <2>1, <2>6, <2>7 DEF StorageBalanced
<1>6. ASSUME NEW v \in Volumes, NEW i \in Vids, PlaceVolume(v, i) PROVE StorageBalanced'
  <2> DEFINE p == MachineRow(vnode[v])
             r == [pool |-> p, machine |-> vnode[v], owner |-> v]
  <2>1. vnode[v] \in Nodes /\ p \in Pools
    BY <1>6 DEF PlaceVolume, Followable, TypeOK, MachineRow
  <2>2. pc = "volumes" /\ UNCHANGED free /\ i \in Candidates(v, p)
    BY <1>6 DEF PlaceVolume
  <2>3. \/ pc' = "idle" /\ got' = NoRows
        \/ /\ pc' = "volumes" /\ mem' = MemoryWith(v, p, i) /\ taken' = [taken EXCEPT ![i] = r]
           /\ UNCHANGED got /\ ~ Breaks({i})
    BY <1>6 DEF PlaceVolume, EndOfIteration, DropJob
  <2>4. r \in MachineVolumes /\ r # None /\ r.owner = v /\ r.pool = p /\ v # None
    BY <1>0, <2>1, RowFormed, NoneAssumption
  <2> HIDE DEF p
  <2>5. i = v \/ i \in mem.spares BY <2>1, <2>2, CandidateFits
  <2> HIDE DEF r
  <2>6. CASE pc' = "idle" BY <1>e, <2>2, <2>3, <2>6
  <2>7. CASE pc' = "volumes"
    <3>1. /\ mem' = MemoryWith(v, p, i) /\ taken' = [taken EXCEPT ![i] = r]
          /\ UNCHANGED got /\ ~ Breaks({i})
      BY <2>3, <2>7
    <3>2. taken[i] = None
      <4>1. CASE i = v BY <3>1, <4>1 DEF Breaks, VolumeRow
      <4>2. CASE i \in mem.spares BY <2>2, <4>2 DEF Balanced
      <4>3. QED BY <2>5, <4>1, <4>2
    <3>3. ASSUME NEW q \in Pools, NEW c \in Classes
          PROVE  mem'.free[q][c] = free'[q][c] - (Charged(taken', q, c) + Charged(got', q, c))
      <4>1. mem.free[q][c] = free[q][c] - (Charged(taken, q, c) + Charged(got, q, c))
        BY <2>2 DEF StorageBalanced
      <4>2. mem'.free[q][c] = mem.free[q][c] - RowCost(r, i, q, c) /\ RowCost(r, i, q, c) \in Int
        BY <2>1, <2>2, <2>4, <3>1, CandidateCosts
      <4>3. Charged(taken', q, c) = Charged(taken, q, c) + RowCost(r, i, q, c)
        BY <1>o, <2>4, <3>1, <3>2, ChargedMore
      <4> DEFINE a == free[q][c]
                 t == Charged(taken, q, c)
                 g == Charged(got, q, c)
                 d == RowCost(r, i, q, c)
      <4>4. a \in Int /\ t \in Int /\ g \in Int /\ d \in Int BY <1>t, <4>2
      <4>5. mem'.free[q][c] = (a - (t + g)) - d BY <4>1, <4>2
      <4>6. free'[q][c] - (Charged(taken', q, c) + Charged(got', q, c)) = a - ((t + d) + g)
        BY <2>2, <3>1, <4>3
      <4> HIDE DEF a, t, g, d
      <4>7. (a - (t + g)) - d = a - ((t + d) + g) BY <4>4
      <4>8. QED BY <4>5, <4>6, <4>7
    <3>4. got' = NoRows BY <2>2, <3>1 DEF StorageBalanced
    <3>5. QED BY <2>7, <3>3, <3>4 DEF StorageBalanced
  <2>8. QED BY <2>3, <2>6, <2>7
<1>7. ASSUME NEW v \in Volumes, AllocateFails(v) PROVE StorageBalanced'
  <2>1. pc = "alloc" /\ pc' = "pool" /\ mem' = saved /\ got' = NoRows /\ UNCHANGED <<free, taken>>
    BY <1>7 DEF AllocateFails, MemoryRestored
  <2>2. ASSUME NEW p \in Pools, NEW c \in Classes
        PROVE  mem'.free[p][c] = free'[p][c] - (Charged(taken', p, c) + Charged(got', p, c))
    <3>1. saved.free[p][c] = free[p][c] - Charged(taken, p, c) BY <2>1 DEF StorageBalanced
    <3>2. QED BY <1>t, <2>1, <3>1
  <2>3. QED BY <2>1, <2>2 DEF StorageBalanced
<1>8. ASSUME NEW v \in Volumes, SkipVolume(v) \/ VolumeFails(v) PROVE StorageBalanced'
  <2>1. pc = "volumes" /\ UNCHANGED <<pc, mem, free, taken, got>>
    BY <1>8 DEF SkipVolume, VolumeFails
  <2>2. QED BY <2>1 DEF StorageBalanced
<1>9. CASE PlaceNode
  <2>1. CASE pc' = "idle"
    <3>1. got' = NoRows BY <1>9, <2>1 DEF PlaceNode, EndOfIteration, DropJob
    <3>2. QED BY <1>e, <2>1, <3>1
  <2>2. CASE pc' # "idle"
    <3> DEFINE mine == {j \in Vids : got[j] # None}
    <3>1. /\ pc = "alloc" /\ pc' = "nodes" /\ got' = NoRows /\ UNCHANGED free /\ ~ Breaks(mine)
          /\ taken' = [i \in Vids |-> IF i \in mine THEN got[i] ELSE taken[i]]
          /\ mem' = [mem EXCEPT !.avail = [mem.avail EXCEPT ![at] = mem.avail[at] - Need[cur]]]
      BY <1>9, <2>2 DEF PlaceNode, EndOfIteration, DropJob
    <3>2. mem'.free = mem.free BY <3>1 DEF TypeOK, Memories
    <3>3. \A i \in Vids : taken[i] = None \/ got[i] = None
      <4>1. \A i \in Volumes : i \in mine => VolumeRow(i) = None BY <3>1 DEF Breaks
      <4>2. \A i \in Spares : got[i] # None => taken[i] = None BY <3>1 DEF Balanced
      <4>3. QED BY <4>1, <4>2 DEF VolumeRow, Vids
    <3>4. taken' = [i \in Vids |-> IF got[i] # None THEN got[i] ELSE taken[i]] BY <3>1
    <3> HIDE DEF mine
    <3>5. ASSUME NEW p \in Pools, NEW c \in Classes
          PROVE  mem'.free[p][c] = free'[p][c] - (Charged(taken', p, c) + Charged(got', p, c))
      <4>1. mem.free[p][c] = free[p][c] - (Charged(taken, p, c) + Charged(got, p, c))
        BY <3>1 DEF StorageBalanced
      <4>2. Charged(taken', p, c) = Charged(taken, p, c) + Charged(got, p, c)
        BY <1>o, <3>3, <3>4, ChargedTogether
      <4>3. Charged(got', p, c) = 0 BY <1>t, <3>1
      <4>4. free'[p][c] = free[p][c] BY <3>1
      <4> DEFINE a == free[p][c]
                 s == Charged(taken, p, c) + Charged(got, p, c)
      <4>5. s \in Int /\ a \in Int BY <1>t
      <4>6. mem'.free[p][c] = a - s BY <3>2, <4>1
      <4>7. free'[p][c] - (Charged(taken', p, c) + Charged(got', p, c)) = a - (s + 0)
        BY <4>2, <4>3, <4>4
      <4> HIDE DEF a, s
      <4>8. a - s = a - (s + 0) BY <4>5
      <4>9. QED BY <4>6, <4>7, <4>8
    <3>6. QED BY <3>1, <3>5 DEF StorageBalanced
  <2>3. QED BY <2>1, <2>2
<1>10. CASE StartVolumes
  <2>1. pc = "nodes" /\ pc' = "volumes" /\ UNCHANGED <<mem, free, taken, got>>
    BY <1>10 DEF StartVolumes
  <2>2. QED BY <2>1 DEF StorageBalanced
<1>11. CASE Commit
  <2>1. pc' = "idle" /\ got' = NoRows BY <1>11 DEF Commit, EndOfIteration, DropJob
  <2>2. QED BY <1>e, <2>1
<1>12. QED
  BY <1>1, <1>2, <1>3, <1>4, <1>5, <1>6, <1>7, <1>8, <1>9, <1>10, <1>11 DEF Scheduler

\* Nobody else touches what the scheduler has in memory.
LEMMA StepStores ==
    TypeOK /\ InJob /\ Balanced /\ StorageBalanced /\ [Next]_vars => StorageBalanced'
<1> SUFFICES ASSUME TypeOK, InJob, Balanced, StorageBalanced, [Next]_vars
             PROVE  StorageBalanced'
  OBVIOUS
<1>1. CASE Scheduler BY <1>1, SchedulerStores
<1>2. CASE Builders \/ API \/ Agents
  <2>1. UNCHANGED sched /\ (pc # "idle" => UNCHANGED <<avail, free>>)
    BY <1>2, OthersKeepIteration
  <2>2. UNCHANGED <<pc, mem, taken, got, left, saved>> BY <2>1 DEF sched, job
  <2>3. QED BY <2>1, <2>2 DEF StorageBalanced
<1>3. CASE UNCHANGED vars
  <2>1. UNCHANGED <<pc, mem, taken, got, left, saved, free>> BY <1>3 DEF vars, rows, sched, job
  <2>2. QED BY <2>1 DEF StorageBalanced
<1>4. QED BY <1>1, <1>2, <1>3 DEF Next

\* The memory is balanced along with everything else.
LEMMA StepBalanced ==
    TypeOK /\ InJob /\ Covered /\ Balanced /\ [Next]_vars => Balanced'
<1> SUFFICES ASSUME TypeOK, InJob, Covered, Balanced, [Next]_vars PROVE Balanced' OBVIOUS
<1>1. CASE Scheduler BY <1>1, SchedulerBalanced
<1>2. CASE Builders \/ API \/ Agents
  <2>1. UNCHANGED sched /\ (pc # "idle" => UNCHANGED <<avail, free>>)
    BY <1>2, OthersKeepIteration
  <2>2. /\ \A i \in Vids : Idle(i)' => mvol'[i].machine = None
        /\ pc # "idle" => \A i \in Vids : Idle(i)' <=> Idle(i)
    BY <1>2, OthersKeepIdle DEF Balanced
  <2>3. Spares \subseteq Vids BY DEF Vids
  <2>4. CASE pc = "idle" BY <2>1, <2>2, <2>4 DEF sched, job, Balanced
  <2>5. CASE pc # "idle"
    <3>1. UNCHANGED <<pc, mem, placed, taken, got, saved, avail>> BY <2>1, <2>5 DEF sched, job
    <3>2. \A s \in Spares : Idle(s)' <=> Idle(s) BY <2>2, <2>3, <2>5
    <3>3. QED BY <2>2, <2>5, <3>1, <3>2 DEF Balanced
  <2>6. QED BY <2>4, <2>5
<1>3. CASE UNCHANGED vars
  BY <1>3 DEF vars, rows, sched, job, Balanced, Idle
<1>4. QED BY <1>1, <1>2, <1>3 DEF Next

\* Nothing has been given away at first.
LEMMA InitBalanced == Init => Covered /\ Balanced
<1> SUFFICES ASSUME Init PROVE Covered /\ Balanced OBVIOUS
<1>1. \A i \in Vids : mvol[i] # None => mvol[i].machine = None BY DEF Init
<1>2. \A i \in Vids : taken[i] = None /\ got[i] = None BY DEF Init, NoRows
<1>3. pc = "idle" BY DEF Init
<1>4. QED BY <1>1, <1>2, <1>3 DEF Covered, Balanced, Idle

\* At any point of an iteration memory has given away exactly what the open
\* transaction has written and the node being placed has taken, of cores and
\* RAM, of storage and of spare volumes: a pool that turned out not to fit
\* got everything back.
THEOREM MemoryInBalance == Spec => []MemoryBalanced
<1>1. Balanced /\ StorageBalanced => MemoryBalanced
  BY DEF Balanced, StorageBalanced, MemoryBalanced, Idle
<1>2. Init => StorageBalanced BY DEF Init, StorageBalanced
<1>3. QED
  BY <1>1, <1>2, InitBalanced, StepCovered, StepBalanced, StepStores, TypeCorrect, PTL DEF Spec

-----------------------------------------------------------------------------
\* Machine volumes in the pools of their machines.

\* The part of the invariant about committed rows, and about the iteration.
RowsInPlace == VolumesWithNodes /\ RowsOwned /\ BuiltHaveRows /\ KeyRowFollows
               /\ VolumeInPoolOfMachine
JobInPlace  == BundlesWhole /\ TakenInPlace /\ GotInPlace

\* The pool of a node, by the rows that are not committed and those that are.
PoolOf(pl, ma, n) == IF pl[n] # None THEN pl[n] ELSE ma[n]

\* An iteration that ends without a trace is in place.
LEMMA EndedInPlace == TypeOK /\ EndOfIteration => JobInPlace'
<1> SUFFICES ASSUME EndOfIteration PROVE JobInPlace' OBVIOUS
<1>1. pc' = "idle" /\ (\A i \in Vids : taken'[i] = None) /\ (\A n \in Nodes : placed'[n] = None)
  BY DEF EndOfIteration, NoRows, NoPlace
<1>2. QED BY <1>1 DEF JobInPlace, BundlesWhole, TakenInPlace, GotInPlace

\* A row that waits for its node replaces nothing.
LEMMA GotIsNew ==
    ASSUME Balanced, pc = "alloc", NEW i \in Vids, got[i] # None,
           ~ Breaks({j \in Vids : got[j] # None})
    PROVE  taken[i] = None /\ (i \in Volumes => mvol[i] = None)
<1>1. i \in Volumes => VolumeRow(i) = None BY DEF Breaks
<1>2. i \in Volumes \/ i \in Spares BY DEF Vids
<1>3. QED BY <1>1, <1>2 DEF VolumeRow, Balanced

\* A step of the scheduler before the commit.
LEMMA IterationInPlace ==
    TypeOK /\ InJob /\ Balanced /\ RowsInPlace /\ JobInPlace /\ Scheduler /\ ~ Commit
        => JobInPlace'
<1> SUFFICES ASSUME TypeOK, InJob, Balanced, RowsInPlace, JobInPlace, Scheduler, ~ Commit
             PROVE  JobInPlace'
  OBVIOUS
<1> USE DEF rows, JobInPlace
<1>0. \A v \in Volumes : v # None /\ v \notin Spares BY NoneAssumption, ConstantsAssumption
<1>r. \A p \in Pools, n \in Nodes \cup {None}, v \in Volumes \cup {None} :
          [pool |-> p, machine |-> n, owner |-> v] # None
  BY RowFormed, NoneAssumption
<1>1. CASE StartIteration
  <2>1. /\ pc' = "nodes" /\ pc = "idle" /\ todo' = {n \in nodes : machine[n] = None}
        /\ bundle' = [n \in Nodes |-> {v \in vols : vnode[v] = n}]
        /\ UNCHANGED <<vols, machine, mvol, placed, taken>>
    BY <1>1 DEF StartIteration
  <2>2. ASSUME NEW n \in Nodes, n \in nodes
        PROVE  bundle'[n] = {v \in Volumes : Owner[v] = n}
    BY <2>1, <2>2 DEF RowsInPlace, VolumesWithNodes, TypeOK
  <2>3. BundlesWhole' BY <2>1, <2>2 DEF BundlesWhole
  <2>4. TakenInPlace' BY <2>1 DEF TakenInPlace, MachineRow
  <2>5. QED BY <2>1, <2>3, <2>4 DEF GotInPlace
<1>2. ASSUME NEW n \in Nodes, ChooseNode(n) PROVE JobInPlace'
  <2>1. /\ pc = "nodes" /\ todo' = todo \ {n} /\ n \in todo
        /\ pc' = "nodes" \/ (pc' = "pool" /\ cur' = n)
        /\ UNCHANGED <<vols, machine, mvol, bundle, placed, taken>>
    BY <1>2 DEF ChooseNode
  <2>2. BundlesWhole' BY <2>1 DEF BundlesWhole
  <2>3. TakenInPlace' BY <2>1 DEF TakenInPlace, MachineRow
  <2>4. QED BY <2>1, <2>2, <2>3 DEF GotInPlace
<1>3. ASSUME NEW p \in Pools, TryPool(p) PROVE JobInPlace'
  <2>1. /\ pc = "pool" /\ pc' = "alloc" /\ left' = bundle[cur] /\ got' = NoRows
        /\ UNCHANGED <<vols, machine, mvol, bundle, todo, cur, placed, taken>>
    BY <1>3 DEF TryPool
  <2>2. BundlesWhole' BY <2>1 DEF BundlesWhole
  <2>3. TakenInPlace' BY <2>1 DEF TakenInPlace, MachineRow
  <2>4. GotInPlace' BY <2>1 DEF GotInPlace, NoRows
  <2>5. QED BY <2>2, <2>3, <2>4
<1>4. CASE NoPoolLeft
  <2>1. /\ pc = "pool" /\ pc' = "nodes"
        /\ UNCHANGED <<vols, machine, mvol, bundle, todo, placed, taken>>
    BY <1>4 DEF NoPoolLeft
  <2>2. BundlesWhole' BY <2>1 DEF BundlesWhole
  <2>3. TakenInPlace' BY <2>1 DEF TakenInPlace, MachineRow
  <2>4. QED BY <2>1, <2>2, <2>3 DEF GotInPlace
<1>5. ASSUME NEW v \in Volumes, NEW i \in Vids, AllocateVolume(v, i) PROVE JobInPlace'
  <2> DEFINE r == [pool |-> at, machine |-> cur, owner |-> v]
  <2>1. /\ pc = "alloc" /\ v \in left /\ left' = left \ {v}
        /\ i \in Candidates(v, at) /\ got' = [got EXCEPT ![i] = r]
        /\ UNCHANGED <<pc, vols, machine, mvol, todo, bundle, cur, at, placed, taken>>
    BY <1>5 DEF AllocateVolume
  <2>2. at \in Pools /\ cur \in Nodes BY <2>1 DEF InJob
  <2>3. r # None /\ r.owner = v /\ r.machine = cur /\ r.pool = at BY <1>r, <2>2
  <2>4. i = v \/ (i \in Spares /\ got[i] = None)
    <3>1. i = v \/ i \in mem.spares BY <2>1, <2>2, CandidateFits
    <3>2. QED BY <2>1, <3>1 DEF Balanced
  <2> HIDE DEF r
  <2>5. \A j \in Vids : got'[j] = IF j = i THEN r ELSE got[j] BY <2>1 DEF TypeOK
  <2>6. BundlesWhole' BY <2>1 DEF BundlesWhole
  <2>7. TakenInPlace' BY <2>1 DEF TakenInPlace, MachineRow
  <2>8. left \subseteq bundle[cur] BY <2>1 DEF GotInPlace
  <2>9. \A j \in Vids : got'[j] # None =>
            /\ j \in Volumes => got'[j].owner = j
            /\ got'[j].owner \in bundle[cur] \ left'
            /\ got'[j].machine = cur /\ got'[j].pool = at
    BY <1>0, <2>1, <2>3, <2>4, <2>5, <2>8 DEF GotInPlace
  <2>10. ASSUME NEW w \in bundle[cur] \ left'
         PROVE  \E j \in Vids : (j = w \/ j \in Spares) /\ got'[j] # None /\ got'[j].owner = w
    <3>1. CASE w = v BY <2>3, <2>4, <2>5, <3>1
    <3>2. CASE w # v
      <4>1. w \in bundle[cur] \ left BY <2>1, <3>2
      <4>2. PICK j \in Vids : (j = w \/ j \in Spares) /\ got[j] # None /\ got[j].owner = w
        BY <2>1, <4>1 DEF GotInPlace
      <4>3. j # i BY <1>0, <2>4, <3>2, <4>2
      <4>4. QED BY <2>5, <4>2, <4>3
    <3>3. QED BY <3>1, <3>2
  <2>11. GotInPlace' BY <2>1, <2>8, <2>9, <2>10 DEF GotInPlace
  <2>12. QED BY <2>6, <2>7, <2>11
<1>6. ASSUME NEW v \in Volumes, NEW i \in Vids, PlaceVolume(v, i) PROVE JobInPlace'
  <2> DEFINE p == MachineRow(vnode[v])
             r == [pool |-> p, machine |-> vnode[v], owner |-> v]
  <2>1. CASE v \notin vols \/ Breaks({i})
    <3>1. EndOfIteration BY <1>6, <2>1 DEF PlaceVolume
    <3>2. QED BY <3>1, EndedInPlace
  <2>2. CASE v \in vols /\ ~ Breaks({i})
    <3>1. vnode[v] \in Nodes /\ p \in Pools
      BY <1>6 DEF PlaceVolume, Followable, TypeOK, MachineRow
    <3>2. /\ pc = "volumes" /\ i \in Candidates(v, p) /\ taken' = [taken EXCEPT ![i] = r]
          /\ UNCHANGED <<pc, vols, machine, mvol, todo, bundle, cur, at, placed>>
      BY <1>6, <2>2 DEF PlaceVolume
    <3>3. r # None /\ r.owner = v /\ r.machine = vnode[v] /\ r.pool = MachineRow(vnode[v])
      BY <1>r, <3>1
    <3>4. vnode[v] = Owner[v] BY <2>2 DEF RowsInPlace, VolumesWithNodes
    <3>5. taken[i] = None /\ ((i = v /\ mvol[i] = None) \/ i \in Spares)
      <4> HIDE DEF p
      <4>1. i = v \/ i \in mem.spares BY <3>1, <3>2, CandidateFits
      <4>2. CASE i = v
        <5>1. VolumeRow(i) = None BY <2>2, <4>2 DEF Breaks
        <5>2. QED BY <4>2, <5>1 DEF VolumeRow
      <4>3. CASE i \in mem.spares BY <3>2, <4>3 DEF Balanced
      <4>4. QED BY <4>1, <4>2, <4>3
    <3> HIDE DEF p, r
    <3>6. \A j \in Vids : taken'[j] = IF j = i THEN r ELSE taken[j] BY <3>2 DEF TypeOK
    <3>7. \A n : PoolOf(placed', machine', n) = MachineRow(n) BY <3>2 DEF MachineRow, PoolOf
    <3>8. \A j \in Vids : taken'[j] # None =>
            /\ j \in Volumes => taken'[j].owner = j /\ mvol'[j] = None
            /\ taken'[j].owner \in vols'
            /\ taken'[j].machine # None /\ taken'[j].machine = Owner[taken'[j].owner]
            /\ taken'[j].pool = PoolOf(placed', machine', taken'[j].machine)
      <4>1. vnode[v] # None BY <3>1, NoneAssumption
      <4>2. ASSUME NEW j \in Vids, taken'[j] # None
            PROVE  /\ j \in Volumes => taken'[j].owner = j /\ mvol[j] = None
                   /\ taken'[j].owner \in vols
                   /\ taken'[j].machine # None /\ taken'[j].machine = Owner[taken'[j].owner]
                   /\ taken'[j].pool = MachineRow(taken'[j].machine)
        <5>1. CASE j = i
          <6>1. taken'[j] = r BY <3>6, <5>1
          <6>2. QED BY <1>0, <2>2, <3>3, <3>4, <3>5, <4>1, <5>1, <6>1
        <5>2. CASE j # i
          <6>1. taken'[j] = taken[j] BY <3>6, <5>2
          <6>2. QED BY <4>2, <6>1 DEF TakenInPlace
        <5>3. QED BY <5>1, <5>2
      <4>3. QED BY <3>2, <3>7, <4>2
    <3>9. \A n \in Nodes : placed'[n] # None =>
            /\ machine'[n] = None
            /\ \A w \in Volumes : Owner[w] = n =>
                  \E j \in Vids : (j = w \/ j \in Spares) /\ taken'[j] # None /\ taken'[j].owner = w
      BY <3>2, <3>5, <3>6 DEF TakenInPlace
    <3>10. TakenInPlace' BY <3>8, <3>9 DEF TakenInPlace, MachineRow, PoolOf
    <3>11. BundlesWhole' BY <3>2 DEF BundlesWhole
    <3>12. GotInPlace' BY <3>2 DEF GotInPlace
    <3>13. QED BY <3>10, <3>11, <3>12
  <2>3. QED BY <2>1, <2>2
<1>7. ASSUME NEW v \in Volumes, AllocateFails(v) PROVE JobInPlace'
  <2>1. /\ pc = "alloc" /\ pc' = "pool"
        /\ UNCHANGED <<vols, machine, mvol, bundle, todo, cur, placed, taken>>
    BY <1>7 DEF AllocateFails
  <2>2. BundlesWhole' BY <2>1 DEF BundlesWhole
  <2>3. TakenInPlace' BY <2>1 DEF TakenInPlace, MachineRow
  <2>4. QED BY <2>1, <2>2, <2>3 DEF GotInPlace
<1>8. ASSUME NEW v \in Volumes, SkipVolume(v) \/ VolumeFails(v) PROVE JobInPlace'
  <2>1. /\ pc = "volumes" /\ pc' = "volumes"
        /\ UNCHANGED <<vols, machine, mvol, bundle, todo, cur, placed, taken>>
    BY <1>8 DEF SkipVolume, VolumeFails
  <2>2. BundlesWhole' BY <2>1 DEF BundlesWhole
  <2>3. TakenInPlace' BY <2>1 DEF TakenInPlace, MachineRow
  <2>4. QED BY <2>1, <2>2, <2>3 DEF GotInPlace
<1>9. CASE PlaceNode
  <2> DEFINE mine == {i \in Vids : got[i] # None}
             ends == cur \notin nodes \/ ~(bundle[cur] \subseteq vols) \/ Breaks(mine)
  <2>1. CASE ends
    <3>1. EndOfIteration BY <1>9, <2>1 DEF PlaceNode
    <3>2. QED BY <3>1, EndedInPlace
  <2>2. CASE ~ ends
    <3>1. /\ pc = "alloc" /\ pc' = "nodes" /\ left = {}
          /\ placed' = [placed EXCEPT ![cur] = at]
          /\ taken' = [i \in Vids |-> IF i \in mine THEN got[i] ELSE taken[i]]
          /\ UNCHANGED <<todo, bundle, vols, machine, mvol>>
      BY <1>9, <2>2 DEF PlaceNode
    <3>2. at \in Pools /\ cur \in Nodes /\ at # None /\ placed[cur] = None
      BY <3>1, NoneAssumption DEF InJob
    <3>3. machine[cur] = None /\ bundle[cur] = {v \in Volumes : Owner[v] = cur}
      BY <3>1, <3>2 DEF BundlesWhole
    <3>4. \A j \in Vids : got[j] # None => taken[j] = None /\ (j \in Volumes => mvol[j] = None)
      BY <2>2, <3>1, GotIsNew
    <3>5. \A j \in Vids : taken'[j] = IF got[j] # None THEN got[j] ELSE taken[j]
      BY <3>1
    <3>6. \A n \in Nodes : placed'[n] = IF n = cur THEN at ELSE placed[n]
      BY <3>1, <3>2 DEF TypeOK
    <3>7. /\ PoolOf(placed', machine', cur) = at
          /\ \A n \in Nodes : n # cur => PoolOf(placed', machine', n) = MachineRow(n)
      BY <3>1, <3>2, <3>6 DEF MachineRow, PoolOf
    <3>8. bundle[cur] \subseteq vols BY <2>2
    <3> HIDE DEF mine, ends
    <3>9. ASSUME NEW j \in Vids, taken'[j] # None
          PROVE  /\ j \in Volumes => taken'[j].owner = j /\ mvol[j] = None
                 /\ taken'[j].owner \in vols
                 /\ taken'[j].machine # None /\ taken'[j].machine = Owner[taken'[j].owner]
                 /\ taken'[j].pool = PoolOf(placed', machine', taken'[j].machine)
      <4>1. CASE got[j] # None
        <5>1. taken'[j] = got[j] BY <3>5, <4>1
        <5>2. /\ j \in Volumes => got[j].owner = j /\ mvol[j] = None
              /\ got[j].owner \in bundle[cur]
              /\ got[j].machine = cur /\ got[j].pool = at
          BY <3>1, <3>4, <4>1 DEF GotInPlace
        <5>3. cur # None BY <3>2, NoneAssumption
        <5>4. QED BY <3>3, <3>7, <3>8, <5>1, <5>2, <5>3
      <4>2. CASE got[j] = None
        <5>1. taken'[j] = taken[j] /\ taken[j] # None BY <3>5, <3>9, <4>2
        <5>2. taken[j] \in MachineVolumes BY <5>1 DEF TypeOK
        <5>3. taken[j].machine \in Nodes /\ taken[j].pool # None
          BY <5>1, <5>2, NoneAssumption DEF TakenInPlace, MachineVolumes
        <5>4. taken[j].pool = MachineRow(taken[j].machine) BY <5>1 DEF TakenInPlace
        <5>5. taken[j].machine # cur BY <3>2, <3>3, <5>3, <5>4 DEF MachineRow
        <5>6. QED BY <3>7, <5>1, <5>3, <5>4, <5>5 DEF TakenInPlace
      <4>3. QED BY <4>1, <4>2
    <3>10. ASSUME NEW n \in Nodes, placed'[n] # None
           PROVE  /\ machine[n] = None
                  /\ \A v \in Volumes : Owner[v] = n =>
                        \E j \in Vids : (j = v \/ j \in Spares) /\ taken'[j] # None
                                                                /\ taken'[j].owner = v
      <4>1. CASE n = cur
        <5>1. ASSUME NEW v \in Volumes, Owner[v] = n
              PROVE  \E j \in Vids : (j = v \/ j \in Spares) /\ taken'[j] # None
                                                             /\ taken'[j].owner = v
          <6>1. v \in bundle[cur] \ left BY <3>1, <3>3, <4>1, <5>1
          <6>2. PICK j \in Vids : (j = v \/ j \in Spares) /\ got[j] # None /\ got[j].owner = v
            BY <3>1, <6>1 DEF GotInPlace
          <6>3. QED BY <3>5, <6>2
        <5>2. QED BY <3>3, <4>1, <5>1
      <4>2. CASE n # cur
        <5>1. placed[n] # None BY <3>6, <3>10, <4>2
        <5>2. ASSUME NEW v \in Volumes, Owner[v] = n
              PROVE  \E j \in Vids : (j = v \/ j \in Spares) /\ taken'[j] # None
                                                             /\ taken'[j].owner = v
          <6>1. PICK j \in Vids : (j = v \/ j \in Spares) /\ taken[j] # None /\ taken[j].owner = v
            BY <5>1, <5>2 DEF TakenInPlace
          <6>2. QED BY <3>4, <3>5, <6>1
        <5>3. QED BY <5>1, <5>2 DEF TakenInPlace
      <4>3. QED BY <4>1, <4>2
    <3>11. TakenInPlace' BY <3>1, <3>9, <3>10 DEF TakenInPlace, MachineRow, PoolOf
    <3>12. BundlesWhole' BY <3>1 DEF BundlesWhole
    <3>13. QED BY <3>1, <3>11, <3>12 DEF GotInPlace
  <2>3. QED BY <2>1, <2>2
<1>10. CASE StartVolumes
  <2>1. /\ pc = "nodes" /\ pc' = "volumes"
        /\ UNCHANGED <<vols, machine, mvol, bundle, todo, cur, placed, taken>>
    BY <1>10 DEF StartVolumes
  <2>2. BundlesWhole' BY <2>1 DEF BundlesWhole
  <2>3. TakenInPlace' BY <2>1 DEF TakenInPlace, MachineRow
  <2>4. QED BY <2>1, <2>2, <2>3 DEF GotInPlace
<1>12. QED
  BY <1>1, <1>2, <1>3, <1>4, <1>5, <1>6, <1>7, <1>8, <1>9, <1>10 DEF Scheduler

\* The commit writes rows that agree with the machines it writes.
LEMMA CommitInPlace ==
    TypeOK /\ Balanced /\ RowsInPlace /\ JobInPlace /\ Commit => RowsInPlace' /\ JobInPlace'
<1> SUFFICES ASSUME TypeOK, Balanced, RowsInPlace, JobInPlace, Commit
             PROVE  RowsInPlace' /\ JobInPlace'
  OBVIOUS
<1> USE DEF RowsInPlace, JobInPlace
<1>1. /\ machine' = [n \in Nodes |-> MachineRow(n)] /\ mvol' = [i \in Vids |-> VolumeRow(i)]
      /\ UNCHANGED <<nodes, vols, vnode, vbuilt, known>> /\ EndOfIteration
  BY DEF Commit
<1>2. JobInPlace' BY <1>1, EndedInPlace
<1>3. Spares \subseteq Vids /\ Volumes \subseteq Vids BY DEF Vids
<1>4. VolumesWithNodes' BY <1>1 DEF VolumesWithNodes
<1>5. \A s \in Spares : taken[s] # None => mvol[s] # None /\ mvol[s].owner = None
  <2>1. pc # "idle" BY DEF Commit
  <2>2. QED BY <2>1 DEF Balanced, Idle
<1>6. ASSUME NEW i \in Vids, mvol'[i] # None
      PROVE  /\ i \in Volumes => mvol'[i].owner = i
             /\ i \in Spares => i \in vbuilt
             /\ mvol'[i].owner \in vols \cup {None}
             /\ mvol'[i].machine # None => mvol'[i].owner # None
                                           /\ mvol'[i].machine = Owner[mvol'[i].owner]
             /\ mvol'[i].machine # None => mvol'[i].pool = machine'[mvol'[i].machine]
  <2>1. CASE taken[i] # None
    <3>1. mvol'[i] = taken[i] BY <1>1, <2>1 DEF VolumeRow
    <3>2. taken[i] \in MachineVolumes BY <2>1 DEF TypeOK
    <3>3. taken[i].machine \in Nodes BY <2>1, <3>2 DEF TakenInPlace, MachineVolumes
    <3>4. machine'[taken[i].machine] = MachineRow(taken[i].machine) BY <1>1, <3>3
    <3>5. taken[i].owner # None BY <2>1 DEF Balanced
    <3>6. i \in Spares => i \in vbuilt
      <4>1. i \in Spares => mvol[i] # None BY <1>5, <2>1
      <4>2. QED BY <4>1 DEF RowsOwned
    <3>7. QED BY <2>1, <3>1, <3>4, <3>5, <3>6 DEF TakenInPlace
  <2>2. CASE taken[i] = None
    <3>1. mvol'[i] = mvol[i] /\ mvol[i] # None BY <1>1, <1>6, <2>2 DEF VolumeRow
    <3>2. ASSUME mvol[i].machine # None PROVE mvol[i].pool = machine'[mvol[i].machine]
      <4>1. mvol[i] \in MachineVolumes BY <3>1 DEF TypeOK
      <4>2. mvol[i].machine \in Nodes /\ mvol[i].pool # None
        BY <3>2, <4>1, NoneAssumption DEF MachineVolumes
      <4>3. mvol[i].pool = machine[mvol[i].machine] BY <3>1, <3>2 DEF VolumeInPoolOfMachine
      <4>4. placed[mvol[i].machine] = None BY <4>2, <4>3 DEF TakenInPlace
      <4>5. machine'[mvol[i].machine] = machine[mvol[i].machine] BY <1>1, <4>2, <4>4 DEF MachineRow
      <4>6. QED BY <4>3, <4>5
    <3>3. QED BY <3>1, <3>2 DEF RowsOwned
  <2>3. QED BY <2>1, <2>2
<1>7. RowsOwned' BY <1>1, <1>6 DEF RowsOwned
<1>8. VolumeInPoolOfMachine' BY <1>6 DEF VolumeInPoolOfMachine
<1>9. BuiltHaveRows'
  <2>1. ASSUME NEW v \in vols \cap vbuilt PROVE mvol'[v] # None
    <3>1. mvol[v] # None /\ v \in Vids BY <1>3 DEF BuiltHaveRows, TypeOK
    <3>2. QED BY <1>1, <3>1 DEF VolumeRow
  <2>2. QED BY <1>1, <2>1 DEF BuiltHaveRows
<1>10. ASSUME NEW v \in Volumes, Owner[v] # None, machine'[Owner[v]] # None, mvol'[v] # None
       PROVE  \/ mvol'[v].pool = machine'[Owner[v]]
              \/ \E s \in Spares : mvol'[s] # None /\ mvol'[s].owner = v
  <2> DEFINE n == Owner[v]
  <2>1. n \in Nodes /\ v \in Vids BY <1>3, <1>10, ConstantsAssumption
  <2> HIDE DEF n
  <2>2. machine'[n] = MachineRow(n) BY <1>1, <2>1
  <2>3. CASE taken[v] # None
    <3>1. mvol'[v] = taken[v] BY <1>1, <2>1, <2>3 DEF VolumeRow
    <3>2. taken[v].owner = v BY <2>1, <2>3 DEF TakenInPlace
    <3>3. taken[v].machine = n /\ taken[v].pool = MachineRow(taken[v].machine)
      BY <2>1, <2>3, <3>2 DEF TakenInPlace, n
    <3>4. mvol'[v].pool = machine'[n] BY <2>2, <3>1, <3>3
    <3>5. QED BY <3>4 DEF n
  <2>4. CASE taken[v] = None /\ placed[n] # None
    <3>1. PICK j \in Vids : (j = v \/ j \in Spares) /\ taken[j] # None /\ taken[j].owner = v
      BY <2>1, <2>4 DEF TakenInPlace, n
    <3>2. j \in Spares BY <2>4, <3>1
    <3>3. mvol'[j] = taken[j] BY <1>1, <3>1 DEF VolumeRow
    <3>4. QED BY <3>1, <3>2, <3>3
  <2>5. CASE taken[v] = None /\ placed[n] = None
    <3>1. mvol'[v] = mvol[v] BY <1>1, <2>1, <2>5 DEF VolumeRow
    <3>2. machine'[n] = machine[n] BY <2>2, <2>5 DEF MachineRow
    <3>3. \/ mvol[v].pool = machine[n]
          \/ \E s \in Spares : mvol[s] # None /\ mvol[s].owner = v
      BY <1>10, <3>1, <3>2 DEF KeyRowFollows, n
    <3>4. ASSUME NEW s \in Spares, mvol[s] # None, mvol[s].owner = v
          PROVE  mvol'[s] # None /\ mvol'[s].owner = v
      <4>1. v # None BY NoneAssumption
      <4>2. taken[s] = None BY <1>5, <3>4, <4>1
      <4>3. QED BY <1>1, <1>3, <3>4, <4>2 DEF VolumeRow
    <3>5. CASE mvol[v].pool = machine[n]
      <4>1. mvol'[v].pool = machine'[n] BY <3>1, <3>2, <3>5
      <4>2. QED BY <4>1 DEF n
    <3>6. QED BY <3>3, <3>4, <3>5
  <2>6. QED BY <2>3, <2>4, <2>5
<1>11. KeyRowFollows' BY <1>10 DEF KeyRowFollows
<1>12. QED BY <1>2, <1>4, <1>7, <1>8, <1>9, <1>11

\* Machines and machine volumes that only go away, or lose their machine,
\* leave the rest in place.
LEMMA ShrinkInPlace ==
    ASSUME TypeOK, RowsInPlace, NEW gone,
           machine' = [n \in Nodes |-> IF n \in gone THEN None ELSE machine[n]],
           mvol' \in [Vids -> MachineVolumes \cup {None}],
           \A i \in Vids : mvol'[i] # None =>
              /\ mvol[i] # None /\ mvol'[i].owner = mvol[i].owner /\ mvol'[i].pool = mvol[i].pool
              /\ mvol'[i].machine = IF mvol[i].machine \in gone THEN None ELSE mvol[i].machine,
           \A s \in Spares : mvol[s] # None /\ mvol'[s] = None => mvol[s].owner \notin vols'
    PROVE  /\ VolumeInPoolOfMachine'
           /\ vols' \subseteq vols /\ (\A v \in Volumes : mvol'[v] # None => v \in vols')
                 => KeyRowFollows'
<1> USE DEF RowsInPlace
<1>1. Spares \subseteq Vids /\ Volumes \subseteq Vids BY DEF Vids
<1>2. ASSUME NEW i \in Vids, mvol'[i] # None, mvol'[i].machine # None
      PROVE  mvol'[i].pool = machine'[mvol'[i].machine]
  <2>1. mvol[i] # None /\ mvol[i].machine # None /\ mvol'[i].machine = mvol[i].machine
        /\ mvol[i].machine \notin gone /\ mvol'[i].pool = mvol[i].pool
    BY <1>2
  <2>2. mvol[i].machine \in Nodes
    <3>1. mvol[i] \in MachineVolumes BY <2>1 DEF TypeOK
    <3>2. QED BY <2>1, <3>1 DEF MachineVolumes
  <2>3. mvol[i].pool = machine[mvol[i].machine] BY <2>1 DEF VolumeInPoolOfMachine
  <2>4. QED BY <2>1, <2>2, <2>3
<1>3. VolumeInPoolOfMachine' BY <1>2 DEF VolumeInPoolOfMachine
<1>4. ASSUME vols' \subseteq vols, \A v \in Volumes : mvol'[v] # None => v \in vols'
      PROVE  KeyRowFollows'
  <2>1. ASSUME NEW v \in Volumes, Owner[v] # None, machine'[Owner[v]] # None, mvol'[v] # None
        PROVE  \/ mvol'[v].pool = machine'[Owner[v]]
               \/ \E s \in Spares : mvol'[s] # None /\ mvol'[s].owner = v
    <3>1. Owner[v] \in Nodes /\ v \in Vids BY <1>1, <2>1, ConstantsAssumption
    <3>2. machine'[Owner[v]] = machine[Owner[v]] BY <2>1, <3>1
    <3>3. mvol[v] # None /\ mvol'[v].pool = mvol[v].pool BY <2>1, <3>1
    <3>4. CASE mvol[v].pool = machine[Owner[v]] BY <3>2, <3>3, <3>4
    <3>5. CASE \E s \in Spares : mvol[s] # None /\ mvol[s].owner = v
      <4>1. PICK s \in Spares : mvol[s] # None /\ mvol[s].owner = v BY <3>5
      <4>2. v \in vols' BY <1>4, <2>1
      <4>3. mvol'[s] # None BY <4>1, <4>2
      <4>4. mvol'[s].owner = v BY <1>1, <4>1, <4>3
      <4>5. QED BY <4>3, <4>4
    <3>6. QED BY <2>1, <3>2, <3>3, <3>4, <3>5 DEF KeyRowFollows
  <2>2. QED BY <2>1 DEF KeyRowFollows
<1>5. QED BY <1>3, <1>4

\* The builders only take machines and rows back, or carry an attachment to
\* the one row that a volume has.
LEMMA BuildersInPlace == TypeOK /\ RowsInPlace /\ Builders => RowsInPlace'
<1> SUFFICES ASSUME TypeOK, RowsInPlace, Builders PROVE RowsInPlace' OBVIOUS
<1> USE DEF RowsInPlace
<1>1. Spares \subseteq Vids /\ Volumes \subseteq Vids BY DEF Vids
<1>2. mvol \in [Vids -> MachineVolumes \cup {None}] BY DEF TypeOK
<1>3. \A v \in Volumes : mvol[v] # None => v \in vols
  <2>1. \A v \in Volumes : v # None BY NoneAssumption
  <2>2. QED BY <1>1, <2>1 DEF RowsOwned
<1>4. ASSUME NEW n \in Nodes, CreateMachineResource(n) PROVE RowsInPlace'
  <2>1. UNCHANGED <<nodes, vols, vnode, vbuilt, known>> BY <1>4 DEF CreateMachineResource
  <2>2. VolumesWithNodes' BY <2>1 DEF VolumesWithNodes
  <2>3. CASE UNCHANGED <<machine, mvol>>
    BY <2>1, <2>2, <2>3 DEF RowsOwned, BuiltHaveRows, KeyRowFollows, VolumeInPoolOfMachine
  <2>4. CASE machine' = [machine EXCEPT ![n] = None] /\ mvol' = WithoutMachine(mvol, {n})
    <3>1. machine' = [m \in Nodes |-> IF m \in {n} THEN None ELSE machine[m]]
      BY <2>4 DEF TypeOK
    <3>2. /\ mvol' \in [Vids -> MachineVolumes \cup {None}]
          /\ \A i \in Vids : mvol'[i] # None =>
                /\ mvol[i] # None /\ mvol'[i].owner = mvol[i].owner /\ mvol'[i].pool = mvol[i].pool
                /\ mvol'[i].machine = IF mvol[i].machine \in {n} THEN None ELSE mvol[i].machine
          /\ \A i \in Vids : mvol'[i] = None <=> mvol[i] = None
      BY <1>2, <2>4, WithoutMachineRows
    <3>3. VolumeInPoolOfMachine' /\ KeyRowFollows'
      <4>1. \A s \in Spares : ~ (mvol[s] # None /\ mvol'[s] = None) BY <1>1, <3>2
      <4>2. vols' \subseteq vols /\ (\A v \in Volumes : mvol'[v] # None => v \in vols')
        BY <1>1, <1>3, <2>1, <3>2
      <4>3. QED BY <3>1, <3>2, <4>1, <4>2, ShrinkInPlace
    <3>4. RowsOwned' BY <2>1, <3>2 DEF RowsOwned
    <3>5. BuiltHaveRows' BY <1>1, <2>1, <3>2 DEF BuiltHaveRows, TypeOK
    <3>6. QED BY <2>2, <3>3, <3>4, <3>5
  <2>5. QED BY <1>4, <2>3, <2>4 DEF CreateMachineResource
<1>5. ASSUME NEW i \in Vids, CreateVolumeResource(i) PROVE RowsInPlace'
  <2>1. /\ UNCHANGED <<nodes, vols, vnode, known>>
        /\ i \notin vbuilt /\ mvol[i] # None
    BY <1>5 DEF CreateVolumeResource
  <2>2. i \in Volumes /\ i \in vols
    <3>1. i \notin Spares BY <2>1 DEF RowsOwned
    <3>2. QED BY <1>3, <2>1, <3>1 DEF Vids
  <2>3. CASE vbuilt' = vbuilt \cup {i} /\ UNCHANGED <<mvol, machine>>
    <3>1. Owner[i] \in known \cup {None} BY <2>2 DEF VolumesWithNodes
    <3>2. VolumesWithNodes' BY <2>1, <2>3, <3>1 DEF VolumesWithNodes
    <3>3. BuiltHaveRows' BY <2>1, <2>3 DEF BuiltHaveRows
    <3>4. QED BY <2>1, <2>3, <3>2, <3>3 DEF RowsOwned, KeyRowFollows, VolumeInPoolOfMachine
  <2>4. CASE \E gone : /\ mvol' = WithoutMachine([mvol EXCEPT ![i] = None], gone)
                       /\ machine' = [n \in Nodes |-> IF n \in gone THEN None ELSE machine[n]]
                       /\ UNCHANGED vbuilt
    <3>1. PICK gone : /\ mvol' = WithoutMachine([mvol EXCEPT ![i] = None], gone)
                      /\ machine' = [n \in Nodes |-> IF n \in gone THEN None ELSE machine[n]]
                      /\ UNCHANGED vbuilt
      BY <2>4
    <3> DEFINE f == [mvol EXCEPT ![i] = None]
    <3>2. /\ f \in [Vids -> MachineVolumes \cup {None}]
          /\ \A j \in Vids : f[j] = IF j = i THEN None ELSE mvol[j]
      BY <1>2
    <3>3. mvol' = WithoutMachine(f, gone) BY <3>1
    <3> HIDE DEF f
    <3>4. /\ mvol' \in [Vids -> MachineVolumes \cup {None}]
          /\ \A j \in Vids : mvol'[j] # None =>
                /\ mvol[j] # None /\ mvol'[j].owner = mvol[j].owner /\ mvol'[j].pool = mvol[j].pool
                /\ mvol'[j].machine = IF mvol[j].machine \in gone THEN None ELSE mvol[j].machine
          /\ \A j \in Vids : mvol'[j] = None => mvol[j] = None \/ j = i
      BY <3>2, <3>3, WithoutMachineRows
    <3>5. VolumeInPoolOfMachine' /\ KeyRowFollows'
      <4>1. \A s \in Spares : ~ (mvol[s] # None /\ mvol'[s] = None)
        BY <1>1, <2>2, <3>4, ConstantsAssumption
      <4>2. vols' \subseteq vols /\ (\A v \in Volumes : mvol'[v] # None => v \in vols')
        BY <1>1, <1>3, <2>1, <3>4
      <4>3. QED BY <3>1, <3>4, <4>1, <4>2, ShrinkInPlace
    <3>6. RowsOwned'
      <4>1. ASSUME NEW j \in Vids, mvol'[j] # None
            PROVE  /\ j \in Volumes => mvol'[j].owner = j
                   /\ j \in Spares => j \in vbuilt
                   /\ mvol'[j].owner \in vols \cup {None}
                   /\ mvol'[j].machine # None => mvol'[j].owner # None
                                                 /\ mvol'[j].machine = Owner[mvol'[j].owner]
        BY <3>4, <4>1 DEF RowsOwned
      <4>2. UNCHANGED <<vbuilt, vols>> BY <2>1, <3>1
      <4>3. QED BY <4>1, <4>2 DEF RowsOwned
    <3>7. BuiltHaveRows' BY <1>1, <2>1, <3>1, <3>4 DEF BuiltHaveRows, TypeOK
    <3>8. VolumesWithNodes' BY <2>1, <3>1 DEF VolumesWithNodes
    <3>9. QED BY <3>5, <3>6, <3>7, <3>8
  <2>5. QED BY <1>5, <2>3, <2>4 DEF CreateVolumeResource
<1>6. ASSUME NEW n \in Nodes, DeleteMachineResource(n) PROVE RowsInPlace'
  BY <1>6 DEF DeleteMachineResource, VolumesWithNodes, RowsOwned, BuiltHaveRows, KeyRowFollows,
              VolumeInPoolOfMachine, hist
<1>7. ASSUME NEW i \in Vids, DeleteVolumeResource(i) PROVE RowsInPlace'
  <2>1. /\ vbuilt' = vbuilt \ {i} /\ mvol[i] = None
        /\ UNCHANGED <<nodes, vols, vnode, known, mvol, machine>>
    BY <1>7 DEF DeleteVolumeResource, hist
  <2>2. VolumesWithNodes' BY <2>1 DEF VolumesWithNodes
  <2>3. RowsOwned' BY <2>1 DEF RowsOwned
  <2>4. BuiltHaveRows' BY <2>1 DEF BuiltHaveRows
  <2>5. QED BY <2>1, <2>2, <2>3, <2>4 DEF KeyRowFollows, VolumeInPoolOfMachine
<1>8. ASSUME NEW v \in Volumes, ActualizeMachineVolume(v) PROVE RowsInPlace'
  <2> DEFINE own == {i \in Vids : mvol[i] # None /\ mvol[i].owner = v}
  <2>1. /\ v \in vols \cap vbuilt /\ Cardinality(own) = 1
        /\ mvol' = [i \in Vids |-> IF i \in own
                       THEN [mvol[i] EXCEPT !.machine = MachineOf(v)] ELSE mvol[i]]
        /\ UNCHANGED <<nodes, vols, vnode, machine, vbuilt, known>>
    BY <1>8 DEF ActualizeMachineVolume, hist
  <2>2. mvol[v] # None /\ v \in own
    <3>1. mvol[v] # None BY <2>1 DEF BuiltHaveRows
    <3>2. QED BY <1>1, <3>1 DEF RowsOwned
  <2>3. \A i \in own : i = v
    <3>1. IsFiniteSet(own) BY ConstantsAssumption, FS_Subset DEF Vids
    <3> HIDE DEF own
    <3>2. PICK x : own = {x} BY <2>1, <3>1, FS_Singleton
    <3>3. QED BY <2>2, <3>2
  <2>4. vnode[v] = Owner[v] BY <2>1 DEF VolumesWithNodes
  <2>5. mvol[v] \in MachineVolumes BY <1>1, <1>2, <2>2
  <2>6. mvol'[v] = [mvol[v] EXCEPT !.machine = MachineOf(v)] BY <1>1, <2>1, <2>2
  <2>7. mvol'[v].owner = v /\ mvol'[v].pool = mvol[v].pool /\ mvol'[v].machine = MachineOf(v)
        /\ mvol'[v] # None
    <3>1. mvol[v].owner = v BY <2>2
    <3>2. MachineOf(v) \in Nodes \cup {None} BY DEF MachineOf, TypeOK
    <3>3. mvol'[v] \in MachineVolumes BY <2>5, <2>6, <3>2 DEF MachineVolumes
    <3>4. QED BY <2>5, <2>6, <3>1, <3>3, NoneAssumption DEF MachineVolumes
  <2>8. \A i \in Vids : i # v => mvol'[i] = mvol[i] BY <2>1, <2>3
  <2>9. \A s \in Spares : ~ (mvol[s] # None /\ mvol[s].owner = v)
    BY <1>1, <2>3, ConstantsAssumption
  <2> HIDE DEF own
  <2>10. v \notin Spares BY ConstantsAssumption
  <2>11. VolumesWithNodes' BY <2>1 DEF VolumesWithNodes
  <2>12. BuiltHaveRows' BY <1>1, <2>1, <2>7, <2>8 DEF BuiltHaveRows, TypeOK
  <2>13. RowsOwned'
    <3>1. v # None BY NoneAssumption
    <3>2. MachineOf(v) # None => MachineOf(v) = Owner[v] BY <2>4 DEF MachineOf
    <3>3. ASSUME NEW i \in Vids, mvol'[i] # None
          PROVE  /\ i \in Volumes => mvol'[i].owner = i
                 /\ i \in Spares => i \in vbuilt
                 /\ mvol'[i].owner \in vols \cup {None}
                 /\ mvol'[i].machine # None => mvol'[i].owner # None
                                               /\ mvol'[i].machine = Owner[mvol'[i].owner]
      <4>1. CASE i = v BY <2>1, <2>7, <2>10, <3>1, <3>2, <4>1
      <4>2. CASE i # v
        <5>1. mvol'[i] = mvol[i] BY <2>8, <4>2
        <5>2. QED BY <3>3, <5>1 DEF RowsOwned
      <4>3. QED BY <4>1, <4>2
    <3>4. QED BY <2>1, <3>3 DEF RowsOwned
  <2>14. KeyRowFollows'
    <3>1. ASSUME NEW w \in Volumes, Owner[w] # None, machine[Owner[w]] # None, mvol'[w] # None
          PROVE  \/ mvol'[w].pool = machine[Owner[w]]
                 \/ \E s \in Spares : mvol'[s] # None /\ mvol'[s].owner = w
      <4>1. mvol[w] # None /\ mvol'[w].pool = mvol[w].pool BY <1>1, <2>2, <2>7, <2>8, <3>1
      <4>2. \A s \in Spares : mvol'[s] = mvol[s] BY <1>1, <2>8, <2>10
      <4>3. QED BY <3>1, <4>1, <4>2 DEF KeyRowFollows
    <3>2. QED BY <2>1, <3>1 DEF KeyRowFollows
  <2>15. VolumeInPoolOfMachine'
    <3>1. ASSUME MachineOf(v) # None PROVE mvol[v].pool = machine[MachineOf(v)]
      <4>1. MachineOf(v) = Owner[v] /\ Owner[v] # None /\ machine[Owner[v]] # None
        BY <2>4, <3>1 DEF MachineOf
      <4>2. QED BY <2>2, <2>9, <4>1 DEF KeyRowFollows
    <3>2. ASSUME NEW i \in Vids, mvol'[i] # None, mvol'[i].machine # None
          PROVE  mvol'[i].pool = machine[mvol'[i].machine]
      <4>1. CASE i = v BY <2>7, <3>1, <3>2, <4>1
      <4>2. CASE i # v
        <5>1. mvol'[i] = mvol[i] BY <2>8, <4>2
        <5>2. QED BY <3>2, <5>1 DEF VolumeInPoolOfMachine
      <4>3. QED BY <4>1, <4>2
    <3>3. QED BY <2>1, <3>2 DEF VolumeInPoolOfMachine
  <2>16. QED BY <2>11, <2>12, <2>13, <2>14, <2>15
<1>9. QED BY <1>4, <1>5, <1>6, <1>7, <1>8 DEF Builders

\* A new node brings volumes that have no machine volume yet; a node that
\* goes takes its volumes and their machine volumes with it, and the node of
\* a row in the open transaction is locked.
LEMMA ApiInPlace ==
    NoMoves /\ TypeOK /\ RowsInPlace /\ JobInPlace /\ API => RowsInPlace' /\ JobInPlace'
<1> SUFFICES ASSUME NoMoves, TypeOK, RowsInPlace, JobInPlace, API
             PROVE  RowsInPlace' /\ JobInPlace'
  OBVIOUS
<1> USE DEF RowsInPlace, JobInPlace
<1>1. Spares \subseteq Vids /\ Volumes \subseteq Vids BY DEF Vids
<1>2. mvol \in [Vids -> MachineVolumes \cup {None}] BY DEF TypeOK
<1>3. ASSUME NEW n \in Nodes, CreateNode(n) PROVE RowsInPlace' /\ JobInPlace'
  <2>1. /\ n \notin known /\ known' = known \cup {n} /\ nodes' = nodes \cup {n}
        /\ vols' = vols \cup {v \in Volumes : Owner[v] = n}
        /\ vnode' = [v \in Volumes |-> IF Owner[v] = n THEN n ELSE vnode[v]]
        /\ UNCHANGED <<machine, mvol, vbuilt, sched>>
    BY <1>3 DEF CreateNode
  <2>2. n # None BY NoneAssumption
  <2>3. VolumesWithNodes' BY <2>1, <2>2 DEF VolumesWithNodes, TypeOK
  <2>4. RowsOwned' BY <2>1 DEF RowsOwned
  <2>5. BuiltHaveRows'
    <3>1. ASSUME NEW v \in vols' \cap vbuilt PROVE mvol[v] # None
      <4>1. CASE v \in vols BY <3>1, <4>1 DEF BuiltHaveRows
      <4>2. CASE v \in Volumes /\ Owner[v] = n BY <2>1, <2>2, <3>1, <4>2 DEF VolumesWithNodes
      <4>3. QED BY <2>1, <4>1, <4>2
    <3>2. QED BY <2>1, <3>1 DEF BuiltHaveRows
  <2>6. KeyRowFollows' /\ VolumeInPoolOfMachine'
    BY <2>1 DEF KeyRowFollows, VolumeInPoolOfMachine
  <2>7. UNCHANGED <<pc, todo, bundle, cur, at, left, got, placed, taken>>
    BY <2>1 DEF sched, job
  <2>8. BundlesWhole' BY <2>1, <2>7 DEF BundlesWhole
  <2>9. TakenInPlace' BY <2>1, <2>7 DEF TakenInPlace, MachineRow
  <2>10. GotInPlace' BY <2>7 DEF GotInPlace
  <2>11. QED BY <2>3, <2>4, <2>5, <2>6, <2>8, <2>9, <2>10
<1>4. ASSUME NEW n \in Nodes, DeleteNode(n) PROVE RowsInPlace' /\ JobInPlace'
  <2> DEFINE gone == {v \in vols : vnode[v] = n}
             bare == WithoutMachine(mvol, {n})
  <2>1. /\ n \in nodes /\ ~ Locked(n) /\ nodes' = nodes \ {n} /\ vols' = vols \ gone
        /\ vnode' = [v \in Volumes |-> IF v \in gone THEN None ELSE vnode[v]]
        /\ machine' = [machine EXCEPT ![n] = None]
        /\ mvol' = [i \in Vids |-> IF mvol[i] # None /\ mvol[i].owner \in gone
                       THEN None ELSE bare[i]]
        /\ UNCHANGED <<vbuilt, sched, known>>
    BY <1>4 DEF DeleteNode
  <2>2. \A v \in gone : Owner[v] = n /\ v \in vols BY DEF VolumesWithNodes
  <2>3. \A v \in Volumes : Owner[v] = n => v \in gone BY <2>1 DEF VolumesWithNodes
  <2>4. None \notin gone /\ n # None BY NoneAssumption DEF TypeOK
  <2>5. /\ bare \in [Vids -> MachineVolumes \cup {None}]
        /\ \A i \in Vids :
             /\ bare[i] = None <=> mvol[i] = None
             /\ mvol[i] # None => /\ bare[i].owner = mvol[i].owner /\ bare[i].pool = mvol[i].pool
                                  /\ bare[i].machine = IF mvol[i].machine \in {n} THEN None
                                                       ELSE mvol[i].machine
    BY <1>2, WithoutMachineRows
  <2> HIDE DEF bare
  <2>6. /\ mvol' \in [Vids -> MachineVolumes \cup {None}]
        /\ \A i \in Vids : mvol'[i] # None =>
              /\ mvol[i] # None /\ mvol'[i].owner = mvol[i].owner /\ mvol'[i].pool = mvol[i].pool
              /\ mvol'[i].machine = IF mvol[i].machine \in {n} THEN None ELSE mvol[i].machine
              /\ mvol[i].owner \notin gone
        /\ \A i \in Vids : (mvol[i] # None /\ mvol'[i] = None) => mvol[i].owner \in gone
    BY <2>1, <2>5
  <2>7. machine' = [m \in Nodes |-> IF m \in {n} THEN None ELSE machine[m]]
    BY <2>1 DEF TypeOK
  <2>8. VolumesWithNodes'
    <3>1. nodes' \subseteq known' BY <2>1 DEF VolumesWithNodes
    <3>2. ASSUME NEW v \in vols' PROVE vnode'[v] = Owner[v] /\ (Owner[v] # None => Owner[v] \in nodes')
      <4>1. v \in vols /\ v \notin gone /\ v \in Volumes BY <2>1 DEF TypeOK
      <4>2. vnode'[v] = vnode[v] BY <2>1, <4>1
      <4>3. Owner[v] # n BY <2>3, <4>1
      <4>4. QED BY <2>1, <4>1, <4>2, <4>3 DEF VolumesWithNodes
    <3>3. ASSUME NEW v \in Volumes, Owner[v] \in nodes' PROVE v \in vols'
      <4>1. v \in vols /\ Owner[v] # n BY <2>1, <3>3 DEF VolumesWithNodes
      <4>2. QED BY <2>1, <2>2, <4>1
    <3>4. \A v \in Volumes \cap vbuilt' : Owner[v] \in known' \cup {None}
      BY <2>1 DEF VolumesWithNodes
    <3>5. QED BY <3>1, <3>2, <3>3, <3>4 DEF VolumesWithNodes
  <2>9. RowsOwned'
    <3>1. ASSUME NEW i \in Vids, mvol'[i] # None
          PROVE  /\ i \in Volumes => mvol'[i].owner = i
                 /\ i \in Spares => i \in vbuilt
                 /\ mvol'[i].owner \in vols' \cup {None}
                 /\ mvol'[i].machine # None => mvol'[i].owner # None
                                               /\ mvol'[i].machine = Owner[mvol'[i].owner]
      <4>1. mvol'[i].owner \in vols' \cup {None} BY <2>1, <2>6, <3>1 DEF RowsOwned
      <4>2. QED BY <2>6, <3>1, <4>1 DEF RowsOwned
    <3>2. QED BY <2>1, <3>1 DEF RowsOwned
  <2>10. BuiltHaveRows'
    <3>1. ASSUME NEW v \in vols' \cap vbuilt PROVE mvol'[v] # None
      <4>1. v \in vols /\ v \notin gone /\ v \in Volumes BY <2>1 DEF TypeOK
      <4>2. mvol[v] # None BY <3>1, <4>1 DEF BuiltHaveRows
      <4>3. mvol[v].owner = v BY <1>1, <4>1, <4>2 DEF RowsOwned
      <4>4. QED BY <1>1, <2>6, <4>1, <4>2, <4>3
    <3>2. QED BY <2>1, <3>1 DEF BuiltHaveRows
  <2>11. VolumeInPoolOfMachine' /\ KeyRowFollows'
    <3>1. \A s \in Spares : mvol[s] # None /\ mvol'[s] = None => mvol[s].owner \notin vols'
      BY <1>1, <2>1, <2>6
    <3>2. \A v \in Volumes : mvol'[v] # None => v \in vols'
      <4>1. ASSUME NEW v \in Volumes, mvol'[v] # None PROVE v \in vols'
        <5>1. mvol'[v].owner = v /\ mvol'[v].owner \in vols' \cup {None} /\ v # None
          BY <1>1, <2>9, <4>1, NoneAssumption DEF RowsOwned
        <5>2. QED BY <5>1
      <4>2. QED BY <4>1
    <3>3. vols' \subseteq vols BY <2>1
    <3>4. QED BY <2>6, <2>7, <3>1, <3>2, <3>3, ShrinkInPlace, ZenonT(30)
  <2>12. UNCHANGED <<pc, todo, bundle, cur, at, left, got, placed, taken>>
    BY <2>1 DEF sched, job
  <2>13. BundlesWhole' BY <2>7, <2>12 DEF BundlesWhole
  <2>14. GotInPlace' BY <2>12 DEF GotInPlace
  <2>15. placed[n] = None /\ \A i \in Vids : taken[i] # None => vnode[taken[i].owner] # n
    BY <2>1 DEF Locked
  <2>16. ASSUME NEW i \in Vids, taken[i] # None
         PROVE  /\ i \in Volumes => taken[i].owner = i /\ mvol'[i] = None
                /\ taken[i].owner \in vols'
                /\ taken[i].machine # None /\ taken[i].machine = Owner[taken[i].owner]
                /\ taken[i].pool = PoolOf(placed, machine', taken[i].machine)
    <3>1. taken[i].owner \in vols BY <2>16 DEF TakenInPlace
    <3>2. vnode[taken[i].owner] = Owner[taken[i].owner] BY <3>1 DEF VolumesWithNodes
    <3>3. taken[i].machine # n BY <2>15, <2>16, <3>2 DEF TakenInPlace
    <3>4. taken[i].owner \in vols' BY <2>1, <2>15, <2>16, <3>1
    <3>5. taken[i].machine \in Nodes
      <4>1. taken[i] \in MachineVolumes BY <2>16 DEF TypeOK
      <4>2. QED BY <2>16, <4>1 DEF TakenInPlace, MachineVolumes
    <3>6. PoolOf(placed, machine', taken[i].machine) = MachineRow(taken[i].machine)
      BY <2>7, <3>3, <3>5 DEF PoolOf, MachineRow
    <3>7. i \in Volumes => mvol'[i] = None BY <2>6, <2>16 DEF TakenInPlace
    <3>8. QED BY <2>16, <3>4, <3>6, <3>7 DEF TakenInPlace
  <2>17. TakenInPlace'
    <3>1. \A m \in Nodes : placed[m] # None => machine'[m] = None
      BY <2>7 DEF TakenInPlace
    <3>2. QED BY <2>12, <2>16, <3>1 DEF TakenInPlace, MachineRow, PoolOf
  <2>18. QED BY <2>8, <2>9, <2>10, <2>11, <2>13, <2>14, <2>17
<1>5. API => \E n \in Nodes : CreateNode(n) \/ DeleteNode(n)
  BY DEF API, Attach, Detach, NoMoves
<1>6. QED BY <1>3, <1>4, <1>5

\* Rows and iteration stay in place in every step.
LEMMA StepInPlace ==
    NoMoves /\ TypeOK /\ InJob /\ Balanced /\ RowsInPlace /\ JobInPlace /\ [Next]_vars
        => RowsInPlace' /\ JobInPlace'
<1> SUFFICES ASSUME NoMoves, TypeOK, InJob, Balanced, RowsInPlace, JobInPlace, [Next]_vars
             PROVE  RowsInPlace' /\ JobInPlace'
  OBVIOUS
<1>0. UNCHANGED <<nodes, vols, vnode, machine, mvol, vbuilt, known>> => RowsInPlace'
  BY DEF RowsInPlace, VolumesWithNodes, RowsOwned, BuiltHaveRows, KeyRowFollows,
         VolumeInPoolOfMachine
<1>1. CASE Commit BY <1>1, CommitInPlace
<1>2. CASE Scheduler /\ ~ Commit
  <2>1. UNCHANGED <<rows, known>>
    BY <1>2 DEF Scheduler, StartIteration, ChooseNode, TryPool, NoPoolLeft, AllocateVolume,
        PlaceVolume, AllocateFails, SkipVolume, VolumeFails, PlaceNode, StartVolumes, hist
  <2>2. RowsInPlace' BY <1>0, <2>1 DEF rows
  <2>3. QED BY <1>2, <2>2, IterationInPlace
<1>3. CASE Builders
  <2>1. RowsInPlace' BY <1>3, BuildersInPlace
  <2>2. pc = "idle" /\ UNCHANGED sched
    BY <1>3 DEF Builders, CreateMachineResource, CreateVolumeResource, DeleteMachineResource,
                DeleteVolumeResource, ActualizeMachineVolume
  <2>3. /\ pc' = "idle" /\ (\A i \in Vids : taken'[i] = None)
        /\ (\A n \in Nodes : placed'[n] = None)
    BY <2>2 DEF sched, job, InJob, NoRows, NoPlace
  <2>4. JobInPlace' BY <2>3 DEF JobInPlace, BundlesWhole, TakenInPlace, GotInPlace
  <2>5. QED BY <2>1, <2>4
<1>4. CASE API BY <1>4, ApiInPlace
<1>5. CASE Agents \/ UNCHANGED vars
  <2>1. UNCHANGED <<sched, nodes, vols, vnode, machine, mvol, vbuilt, known>>
    BY <1>5 DEF Agents, AgentCreates, AgentRemoves, AgentStores, AgentErases, ReportPool,
                vars, rows, hist
  <2>2. RowsInPlace' BY <1>0, <2>1
  <2>3. JobInPlace'
    BY <2>1 DEF sched, job, JobInPlace, BundlesWhole, TakenInPlace, GotInPlace, MachineRow
  <2>4. QED BY <2>2, <2>3
<1>6. QED BY <1>1, <1>2, <1>3, <1>4, <1>5 DEF Next

\* As long as users neither attach nor detach volumes, a machine volume is in
\* the pool of its machine: also when machines are taken back, volumes are
\* reused, and nodes are deleted in the middle of an iteration.
THEOREM VolumesFollowMachines == NoMoves => (Spec => []VolumeInPoolOfMachine)
<1> SUFFICES ASSUME NoMoves PROVE Spec => []VolumeInPoolOfMachine OBVIOUS
<1>1. Init => Covered /\ Balanced /\ RowsInPlace /\ JobInPlace
  <2> SUFFICES ASSUME Init PROVE Covered /\ Balanced /\ RowsInPlace /\ JobInPlace OBVIOUS
  <2>1. Covered /\ Balanced BY InitBalanced
  <2>2. \A v \in Volumes : v \notin Spares /\ v \in Vids BY ConstantsAssumption DEF Vids
  <2>3. VolumesWithNodes BY <2>2 DEF Init, VolumesWithNodes
  <2>4. \A i \in Vids : mvol[i] # None =>
            i \in Spares /\ mvol[i].machine = None /\ mvol[i].owner = None
    BY DEF Init
  <2>5. RowsOwned BY <2>2, <2>4 DEF Init, RowsOwned
  <2>6. BuiltHaveRows BY <2>2 DEF Init, BuiltHaveRows
  <2>7. KeyRowFollows BY <2>2, <2>4 DEF KeyRowFollows
  <2>8. VolumeInPoolOfMachine BY <2>4 DEF VolumeInPoolOfMachine
  <2>9. pc = "idle" /\ (\A i \in Vids : taken[i] = None) /\ (\A n \in Nodes : placed[n] = None)
    BY DEF Init, NoRows, NoPlace
  <2>10. JobInPlace BY <2>9 DEF JobInPlace, BundlesWhole, TakenInPlace, GotInPlace
  <2>11. QED BY <2>1, <2>3, <2>5, <2>6, <2>7, <2>8, <2>10 DEF RowsInPlace
<1>2. TypeOK /\ InJob /\ Balanced /\ RowsInPlace /\ JobInPlace /\ [Next]_vars
         => RowsInPlace' /\ JobInPlace'
  BY StepInPlace
<1>3. RowsInPlace => VolumeInPoolOfMachine BY DEF RowsInPlace
<1>4. QED BY <1>1, <1>2, <1>3, StepCovered, StepBalanced, TypeCorrect, PTL DEF Spec

-----------------------------------------------------------------------------
\* Nodes that keep apart.

Total == SumFunctionOnSet(Need, Nodes)

\* Pools with room for all nodes twice: once for machines that were taken
\* back and that the agent still runs, once for where they are placed then.
Spacious == {p \in Pools : Cap[p] >= 2 * Total}

\* Every node of the group can have such a pool of its own.
RoomForGroup == IsFiniteSet(Spacious) /\ Cardinality(Spacious) >= Cardinality(Group)

\* A report misses at most all nodes.
Reported == \A p \in Pools : avail[p] >= Cap[p] - Total

\* Who has a machine, and who gets one, is there: a node cannot be deleted
\* while the open transaction refers to it.
PlacedExist == \A n \in Nodes : machine[n] # None \/ placed[n] # None => n \in nodes

\* The rows that a query inside the transaction sees are apart too.
RowsApart ==
    \A m, n \in Group : (m # n /\ MachineRow(m) # None) => MachineRow(m) # MachineRow(n)

\* The pools to try for a node, and the one at hand, are nobody's of its
\* group, though they were looked up earlier.
PoolsOwn ==
    pc \in {"pool", "alloc"} /\ cur \in Group =>
        \A m \in Group \ {cur} : /\ MachineRow(m) \notin pools
                                 /\ pc = "alloc" => MachineRow(m) # at

PeersInv == Reported /\ PlacedExist /\ RowsApart /\ PoolsOwn /\ PeersApart

\* Needs add up to no less than those of some of the nodes.
LEMMA TotalCovers ==
    /\ Total \in Nat
    /\ \A A \in SUBSET Nodes : /\ SumFunctionOnSet(Need, A) \in Int
                               /\ SumFunctionOnSet(Need, A) <= Total
    /\ \A A \in SUBSET Nodes : \A n \in Nodes \ A :
          SumFunctionOnSet(Need, A) + Need[n] <= Total
<1>1. IsFiniteSet(Nodes) /\ \A n \in Nodes : Need[n] \in Nat BY ConstantsAssumption
<1>2. ASSUME NEW A \in SUBSET Nodes
      PROVE  SumFunctionOnSet(Need, A) \in Int /\ Total \in Int
             /\ SumFunctionOnSet(Need, A) <= Total
  BY <1>1, SumGrows DEF Total
<1>3. Total \in Nat
  <2>1. \A n \in Nodes : Need[n] \in Int BY <1>1
  <2>2. SumFunctionOnSet(Need, {}) = 0 BY <1>1, <2>1, SumStep
  <2>3. {} \in SUBSET Nodes OBVIOUS
  <2>4. QED BY <1>2, <2>2, <2>3
<1>4. ASSUME NEW A \in SUBSET Nodes, NEW n \in Nodes \ A
      PROVE  SumFunctionOnSet(Need, A) + Need[n] <= Total
  <2> DEFINE B == A \cup {n}
  <2>1. B \in SUBSET Nodes /\ n \in B /\ B \ {n} = A OBVIOUS
  <2> HIDE DEF B
  <2>2. IsFiniteSet(B) /\ \A x \in B : Need[x] \in Int BY <1>1, <2>1, FS_Subset
  <2>3. SumFunctionOnSet(Need, B) = Need[n] + SumFunctionOnSet(Need, A)
    BY <2>1, <2>2, SumAdds
  <2>4. QED BY <1>1, <1>2, <2>1, <2>3
<1>5. QED BY <1>2, <1>3, <1>4

\* The needs of a node that waits fit into every spacious pool.
LEMMA SpaciousAvailable ==
    ASSUME TypeOK, InJob, Balanced, Reported, pc = "nodes", NEW n \in todo
    PROVE  Spacious \subseteq CoresRamAvailable(n)
<1> SUFFICES ASSUME NEW p \in Spacious PROVE mem.avail[p] >= Need[n]
  BY DEF CoresRamAvailable, Spacious
<1>1. p \in Pools /\ Cap[p] >= 2 * Total /\ n \in Nodes BY DEF Spacious, TypeOK
<1> DEFINE A == {m \in Nodes : placed[m] = p}
<1>2. n \notin A
  <2>1. p # None BY <1>1, NoneAssumption
  <2>2. QED BY <2>1 DEF InJob
<1>3. A \in SUBSET Nodes OBVIOUS
<1>4. mem.avail[p] = avail[p] - SumFunctionOnSet(Need, A) BY <1>1 DEF Balanced
<1> HIDE DEF A
<1>5. SumFunctionOnSet(Need, A) \in Int /\ SumFunctionOnSet(Need, A) + Need[n] <= Total
      /\ Total \in Nat
  BY <1>1, <1>2, <1>3, TotalCovers
<1>6. avail[p] >= Cap[p] - Total /\ avail[p] \in Int /\ Cap[p] \in Nat /\ Need[n] \in Nat
  BY <1>1, ConstantsAssumption DEF Reported, TypeOK
<1>7. QED BY <1>1, <1>4, <1>5, <1>6

\* The rest of the group cannot take all spacious pools.
LEMMA PeersLeaveOne ==
    ASSUME RoomForGroup, NEW n \in Group
    PROVE  ~ (Spacious \subseteq PeerPools(n))
<1> DEFINE others == (Group \cap nodes) \ {n}
           f == [m \in others |-> MachineRow(m)]
<1>1. IsFiniteSet(Group) BY ConstantsAssumption, FS_Subset
<1>2. IsFiniteSet(Group \ {n}) /\ Cardinality(Group \ {n}) = Cardinality(Group) - 1
  BY <1>1, FS_RemoveElement
<1>3. others \in SUBSET (Group \ {n}) OBVIOUS
<1>4. IsFiniteSet(others) /\ Cardinality(others) <= Cardinality(Group) - 1
  BY <1>2, <1>3, FS_Subset
<1>5. PeerPools(n) = {MachineRow(m) : m \in others} BY DEF PeerPools
<1>6. f \in Surjection(others, PeerPools(n)) BY <1>5 DEF Surjection
<1> HIDE DEF f, others
<1>7. IsFiniteSet(PeerPools(n)) /\ Cardinality(PeerPools(n)) <= Cardinality(others)
  BY <1>4, <1>6, FS_Surjection
<1>8. ASSUME Spacious \subseteq PeerPools(n) PROVE FALSE
  <2>1. Cardinality(Spacious) <= Cardinality(PeerPools(n)) BY <1>7, <1>8, FS_Subset
  <2>2. /\ Cardinality(Spacious) \in Nat /\ Cardinality(PeerPools(n)) \in Nat
        /\ Cardinality(others) \in Nat /\ Cardinality(Group) \in Nat
    BY <1>1, <1>4, <1>7, FS_CardinalityType DEF RoomForGroup
  <2>3. QED BY <1>4, <1>7, <2>1, <2>2 DEF RoomForGroup
<1>9. QED BY <1>8

\* The scheduler: a node of the group is offered pools that are nobody's, and
\* until it is placed nobody else gets a machine.
LEMMA SchedulerPeers ==
    RoomForGroup /\ TypeOK /\ InJob /\ Balanced /\ PeersInv /\ Scheduler => PeersInv'
<1> SUFFICES ASSUME RoomForGroup, TypeOK, InJob, Balanced, PeersInv, Scheduler
             PROVE  PeersInv'
  OBVIOUS
<1>0. /\ machine \in [Nodes -> Pools \cup {None}] /\ placed \in [Nodes -> Pools \cup {None}]
      /\ Group \subseteq Nodes /\ None \notin Pools
  BY ConstantsAssumption, NoneAssumption DEF TypeOK
<1>1. CASE /\ UNCHANGED <<avail, nodes, machine, placed>>
           /\ pc' \in {"pool", "alloc"} =>
                 /\ UNCHANGED cur /\ pc \in {"pool", "alloc"} /\ pools' \subseteq pools
                 /\ pc' = "alloc" => (UNCHANGED at /\ pc = "alloc") \/ at' \in pools
  <2>1. \A n \in Nodes : MachineRow(n)' = MachineRow(n) BY <1>1 DEF MachineRow
  <2>2. Reported' /\ PlacedExist' /\ PeersApart'
    BY <1>1 DEF PeersInv, Reported, PlacedExist, PeersApart
  <2>3. RowsApart' BY <1>0, <2>1 DEF PeersInv, RowsApart
  <2>4. PoolsOwn' BY <1>0, <1>1, <2>1 DEF PeersInv, PoolsOwn
  <2>5. QED BY <2>2, <2>3, <2>4 DEF PeersInv
<1>2. CASE \/ StartIteration \/ \E p \in Pools : TryPool(p)
           \/ NoPoolLeft \/ StartVolumes
  BY <1>1, <1>2 DEF StartIteration, TryPool, NoPoolLeft, StartVolumes, DropJob, rows, job
<1>3. CASE \/ \E v \in Volumes, i \in Vids : AllocateVolume(v, i)
           \/ \E v \in Volumes : AllocateFails(v) \/ SkipVolume(v) \/ VolumeFails(v)
  BY <1>1, <1>3 DEF AllocateVolume, AllocateFails, SkipVolume, VolumeFails, rows
<1>4. ASSUME NEW n \in Nodes, ChooseNode(n) PROVE PeersInv'
  <2>1. pc = "nodes" /\ n \in todo /\ UNCHANGED <<avail, nodes, machine, placed>>
    BY <1>4 DEF ChooseNode, rows
  <2> DEFINE ps == SoftAntiAffinity(n, CoresRamAvailable(n))
  <2>2. \/ pc' = "nodes"
        \/ pc' = "pool" /\ cur' = n /\ pools' = ps
    BY <1>4 DEF ChooseNode
  <2>3. ASSUME n \in Group PROVE ps \cap PeerPools(n) = {} /\ ps \subseteq Pools
    <3>1. CoresRamAvailable(n) \ PeerPools(n) # {}
      BY <2>1, <2>3, SpaciousAvailable, PeersLeaveOne DEF PeersInv
    <3>2. QED BY <3>1 DEF SoftAntiAffinity, CoresRamAvailable
  <2> HIDE DEF ps
  <2>4. \A m \in Nodes : MachineRow(m)' = MachineRow(m) BY <2>1 DEF MachineRow
  <2>5. ASSUME n \in Group, NEW m \in Group \ {n} PROVE MachineRow(m) \notin ps
    <3>1. CASE m \in nodes BY <2>3, <2>5, <3>1 DEF PeerPools
    <3>2. CASE m \notin nodes
      BY <1>0, <2>3, <2>5, <3>2 DEF PeersInv, PlacedExist, MachineRow
    <3>3. QED BY <3>1, <3>2
  <2>6. Reported' /\ PlacedExist' /\ PeersApart'
    BY <2>1 DEF PeersInv, Reported, PlacedExist, PeersApart
  <2>7. RowsApart' BY <1>0, <2>4 DEF PeersInv, RowsApart
  <2>8. PoolsOwn' BY <1>0, <2>2, <2>4, <2>5 DEF PoolsOwn
  <2>9. QED BY <2>6, <2>7, <2>8 DEF PeersInv
<1>5. ASSUME EndOfIteration, UNCHANGED <<avail, nodes, machine>> PROVE PeersInv'
  <2>1. pc' = "idle" /\ placed' = NoPlace BY <1>5 DEF EndOfIteration
  <2>2. \A n \in Nodes : placed'[n] = None BY <2>1 DEF NoPlace
  <2>3. \A n \in Nodes : MachineRow(n)' = machine[n] BY <1>5, <2>2 DEF MachineRow
  <2>4. Reported' /\ PlacedExist' /\ PeersApart'
    BY <1>5, <2>2 DEF PeersInv, Reported, PlacedExist, PeersApart
  <2>5. RowsApart' BY <1>0, <2>3 DEF PeersInv, RowsApart, PeersApart
  <2>6. PoolsOwn' BY <2>1 DEF PoolsOwn
  <2>7. QED BY <2>4, <2>5, <2>6 DEF PeersInv
<1>6. CASE PlaceNode
  <2>1. CASE EndOfIteration BY <1>5, <1>6, <2>1 DEF PlaceNode, rows
  <2>2. CASE ~ EndOfIteration
    <3>1. /\ cur \in nodes /\ pc = "alloc" /\ pc' = "nodes"
          /\ placed' = [placed EXCEPT ![cur] = at]
          /\ UNCHANGED <<avail, nodes, machine>>
      BY <1>6, <2>2 DEF PlaceNode, rows
    <3>2. cur \in Nodes /\ at \in Pools BY <3>1 DEF InJob
    <3>3. \A n \in Nodes : MachineRow(n)' = IF n = cur THEN at ELSE MachineRow(n)
      BY <1>0, <3>1, <3>2 DEF MachineRow
    <3>4. Reported' /\ PeersApart'
      BY <3>1 DEF PeersInv, Reported, PeersApart
    <3>5. PlacedExist' BY <1>0, <3>1, <3>2 DEF PeersInv, PlacedExist
    <3>6. RowsApart'
      <4>1. ASSUME NEW m \in Group, NEW n \in Group, m # n, MachineRow(m)' # None
            PROVE  MachineRow(m)' # MachineRow(n)'
        <5>1. CASE m # cur /\ n # cur
          BY <1>0, <3>3, <4>1, <5>1 DEF PeersInv, RowsApart
        <5>2. CASE m = cur
          BY <1>0, <3>1, <3>3, <4>1, <5>2 DEF PeersInv, PoolsOwn, RowsApart
        <5>3. CASE n = cur
          BY <1>0, <3>1, <3>3, <4>1, <5>3 DEF PeersInv, PoolsOwn
        <5>4. QED BY <5>1, <5>2, <5>3
      <4>2. QED BY <4>1 DEF RowsApart, MachineRow
    <3>7. PoolsOwn' BY <3>1 DEF PoolsOwn
    <3>8. QED BY <3>4, <3>5, <3>6, <3>7 DEF PeersInv
  <2>3. QED BY <2>1, <2>2
<1>7. ASSUME NEW v \in Volumes, NEW i \in Vids, PlaceVolume(v, i) PROVE PeersInv'
  <2>1. pc = "volumes" /\ UNCHANGED <<avail, nodes, machine>> BY <1>7 DEF PlaceVolume, rows
  <2>2. EndOfIteration \/ UNCHANGED <<pc, placed>> BY <1>7 DEF PlaceVolume
  <2>3. QED BY <1>1, <1>5, <2>1, <2>2
<1>8. CASE Commit
  <2>1. /\ machine' = [n \in Nodes |-> MachineRow(n)] /\ UNCHANGED <<avail, nodes>>
        /\ pc' = "idle" /\ placed' = NoPlace
    BY <1>8 DEF Commit, EndOfIteration
  <2>2. \A n \in Nodes : placed'[n] = None /\ machine'[n] = MachineRow(n)
    BY <2>1 DEF NoPlace
  <2>3. \A n \in Nodes : MachineRow(n)' = MachineRow(n) BY <2>2 DEF MachineRow
  <2>4. Reported' BY <2>1 DEF PeersInv, Reported
  <2>5. PlacedExist' BY <2>1, <2>2 DEF PeersInv, PlacedExist, MachineRow
  <2>6. RowsApart' BY <1>0, <2>3 DEF PeersInv, RowsApart
  <2>7. PeersApart' BY <1>0, <2>2 DEF PeersInv, RowsApart, PeersApart
  <2>8. PoolsOwn' BY <2>1 DEF PoolsOwn
  <2>9. QED BY <2>4, <2>5, <2>6, <2>7, <2>8 DEF PeersInv
<1>9. QED
  BY <1>2, <1>3, <1>4, <1>6, <1>7, <1>8 DEF Scheduler

\* Everybody else only takes machines away, and reports what runs.
LEMMA OthersPeers ==
    TypeOK /\ InJob /\ PeersInv /\ (Builders \/ API \/ Agents) => PeersInv'
<1> SUFFICES ASSUME TypeOK, InJob, PeersInv, Builders \/ API \/ Agents PROVE PeersInv'
  OBVIOUS
<1>0. /\ machine \in [Nodes -> Pools \cup {None}] /\ placed \in [Nodes -> Pools \cup {None}]
      /\ Group \subseteq Nodes /\ None \notin Pools
  BY ConstantsAssumption, NoneAssumption DEF TypeOK
<1>1. UNCHANGED <<pc, cur, pools, at, placed>>
  BY OthersKeepIteration DEF sched, job
<1>2. Reported'
  <2>1. UNCHANGED avail \/ \E p \in Pools : avail' = [avail EXCEPT ![p] = Left(p)]
    BY DEF Builders, CreateMachineResource, CreateVolumeResource, DeleteMachineResource,
           DeleteVolumeResource, ActualizeMachineVolume, API, CreateNode, DeleteNode,
           Attach, Detach, Agents, AgentCreates, AgentRemoves, AgentStores, AgentErases,
           ReportPool, rows
  <2>2. ASSUME NEW p \in Pools PROVE Left(p) >= Cap[p] - Total
    <3> DEFINE A == {n \in Nodes : runs[n] = p}
    <3>1. A \in SUBSET Nodes OBVIOUS
    <3>2. Left(p) = Cap[p] - SumFunctionOnSet(Need, A) BY DEF Left
    <3> HIDE DEF A
    <3>3. SumFunctionOnSet(Need, A) \in Int /\ SumFunctionOnSet(Need, A) <= Total
          /\ Total \in Nat /\ Cap[p] \in Nat
      BY <3>1, TotalCovers, ConstantsAssumption
    <3>4. QED BY <3>2, <3>3
  <2>3. avail \in [Pools -> Int] BY DEF TypeOK
  <2>4. QED BY <2>1, <2>2, <2>3 DEF PeersInv, Reported
<1>3. ASSUME \A n \in Nodes : machine'[n] \in {machine[n], None},
             \A n \in Nodes : machine'[n] # None \/ placed[n] # None => n \in nodes',
             \A n \in Nodes : machine'[n] # machine[n] => placed[n] = None
      PROVE  PeersInv'
  <2>1. \A n \in Nodes : MachineRow(n)' \in {MachineRow(n), None}
    BY <1>1, <1>3 DEF MachineRow
  <2>2. PlacedExist' BY <1>1, <1>3 DEF PlacedExist
  <2>3. RowsApart' BY <1>0, <2>1 DEF PeersInv, RowsApart
  <2>4. PeersApart' BY <1>0, <1>3 DEF PeersInv, PeersApart
  <2>5. PoolsOwn'
    <3>1. pc = "alloc" => at # None BY <1>0 DEF InJob
    <3>2. pools \subseteq Pools BY DEF TypeOK
    <3>3. QED BY <1>0, <1>1, <2>1, <3>1, <3>2 DEF PeersInv, PoolsOwn
  <2>6. QED BY <1>2, <2>2, <2>3, <2>4, <2>5 DEF PeersInv
<1>4. CASE UNCHANGED machine /\ nodes \subseteq nodes'
  BY <1>0, <1>3, <1>4 DEF PeersInv, PlacedExist
<1>5. CASE Builders
  <2>1. UNCHANGED nodes /\ \A n \in Nodes : machine'[n] \in {machine[n], None}
    BY <1>0, <1>5 DEF Builders, CreateMachineResource, CreateVolumeResource,
       DeleteMachineResource, DeleteVolumeResource, ActualizeMachineVolume
  <2>2. pc = "idle"
    BY <1>5 DEF Builders, CreateMachineResource, CreateVolumeResource,
       DeleteMachineResource, DeleteVolumeResource, ActualizeMachineVolume
  <2>3. \A n \in Nodes : placed[n] = None BY <2>2 DEF InJob, NoPlace
  <2>4. QED BY <1>3, <2>1, <2>3 DEF PeersInv, PlacedExist
<1>6. ASSUME NEW n \in Nodes, DeleteNode(n) PROVE PeersInv'
  <2>1. /\ placed[n] = None /\ nodes' = nodes \ {n}
        /\ machine' = [machine EXCEPT ![n] = None]
    BY <1>6 DEF DeleteNode, Locked
  <2>2. QED BY <1>0, <1>3, <2>1 DEF PeersInv, PlacedExist
<1>7. CASE API
  BY <1>4, <1>6, <1>7 DEF API, CreateNode, Attach, Detach
<1>8. CASE Agents
  BY <1>4, <1>8 DEF Agents, AgentCreates, AgentRemoves, AgentStores, AgentErases,
     ReportPool, rows
<1>9. QED BY <1>5, <1>7, <1>8

\* Nothing is placed at first, and pools report all they have.
LEMMA InitPeers == Init => PeersInv
<1> SUFFICES ASSUME Init PROVE PeersInv OBVIOUS
<1>1. \A n \in Nodes : machine[n] = None /\ placed[n] = None BY DEF Init, NoPlace
<1>2. \A n \in Nodes : MachineRow(n) = None BY <1>1 DEF MachineRow
<1>3. Group \subseteq Nodes BY ConstantsAssumption
<1>4. Reported BY TotalCovers, ConstantsAssumption DEF Init, Reported
<1>5. RowsApart /\ PeersApart BY <1>1, <1>2, <1>3 DEF RowsApart, PeersApart
<1>6. PoolsOwn BY DEF Init, PoolsOwn
<1>7. QED BY <1>1, <1>4, <1>5, <1>6 DEF PeersInv, PlacedExist

\* Where as many pools as the group has nodes have room for all nodes twice,
\* the soft policy keeps the group apart: no two of its nodes are ever in
\* one pool, placed in the same iteration or taken back and placed again.
THEOREM GroupKeptApart == RoomForGroup => (Spec => []PeersApart)
<1> SUFFICES ASSUME RoomForGroup PROVE Spec => []PeersApart OBVIOUS
<1>1. PeersInv => PeersApart BY DEF PeersInv
<1>2. TypeOK /\ InJob /\ Balanced /\ PeersInv /\ [Next]_vars => PeersInv'
  <2> SUFFICES ASSUME TypeOK, InJob, Balanced, PeersInv, [Next]_vars
               PROVE  PeersInv'
    OBVIOUS
  <2>1. CASE UNCHANGED vars
    BY <2>1 DEF vars, rows, sched, job, PeersInv, Reported, PlacedExist, RowsApart,
       PoolsOwn, PeersApart, MachineRow
  <2>2. QED BY <2>1, SchedulerPeers, OthersPeers DEF Next
<1>3. QED
  BY <1>1, <1>2, InitPeers, InitBalanced, StepCovered, StepBalanced, TypeCorrect, PTL
     DEF Spec
=============================================================================
