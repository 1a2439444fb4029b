------------------------------ MODULE Placement ------------------------------
(***************************************************************************)
(* Placement of nodes and their volumes on machine pools: the scheduler's  *)
(* iteration, the capacity checks of the pool builder that take a          *)
(* placement back, the volume builder that follows attachments, the agents *)
(* whose reports are the only source of free capacity, and the user API.   *)
(*                                                                         *)
(* The scheduler's iteration is one transaction and is split into steps;   *)
(* `placed' and `taken' hold its uncommitted rows and `mem' the capacities *)
(* and spare volumes it keeps in memory.  The builders run in the same     *)
(* process, hence never inside an iteration of the scheduler; the API and  *)
(* the agents do.                                                          *)
(*                                                                         *)
(* Cores and RAM are compared in the same way everywhere and are one       *)
(* quantity here; a storage pool is chosen by its ephemeral policy, which  *)
(* is mandatory (`Class'), and among equals by tier, which is only a       *)
(* preference and left open, as is the weight order of the pools.          *)
(***************************************************************************)
EXTENDS Integers, FiniteSets, FiniteSetsExt

CONSTANTS
    Nodes, Pools, Classes,
    Volumes,    \* volumes of users
    Spares,     \* idle machine volumes that hold an image already
    Need,       \* cores and RAM of a node
    Cap,        \* what a pool has of them
    Size,       \* of Volumes \cup Spares
    Class,      \* ephemeral policy of a volume
    Disks,      \* storage of each class in the pools, as it may be laid out
    Home,       \* pool of a spare
    Owner,      \* node a volume is created with, None for a loose volume
    Root,       \* the volumes with index 0
    Group,      \* nodes that share an anti affinity policy
    Attachable, \* pairs of a volume and a node users attach and detach
    None

ASSUME ConstantsAssumption ==
    /\ Need \in [Nodes -> Nat] /\ Cap \in [Pools -> Nat]
    /\ Size \in [Volumes \cup Spares -> Nat]
    /\ Class \in [Volumes \cup Spares -> Classes]
    /\ Disks \subseteq [Pools -> [Classes -> Nat]]
    /\ Home \in [Spares -> Pools]
    /\ Owner \in [Volumes -> Nodes \cup {None}]
    /\ Root \subseteq Volumes /\ Group \subseteq Nodes
    /\ Attachable \subseteq Volumes \X Nodes
    /\ Volumes \cap Spares = {}
    /\ IsFiniteSet(Nodes) /\ IsFiniteSet(Volumes \cup Spares)

Vids == Volumes \cup Spares
MachineVolumes == [pool : Pools, machine : Nodes \cup {None},
                   owner : Volumes \cup {None}]

ASSUME NoneAssumption ==
    None \notin UNION {Nodes, Pools, Volumes, MachineVolumes}

VARIABLES
    nodes,   \* node rows
    vols,    \* volume rows
    vnode,   \* the node a volume is attached to
    machine, \* pool of the machine row of a node, None without a row
    mvol,    \* machine volume rows
    built,   \* machines whose target resource was created
    vbuilt,  \* machine volumes whose target resource was created
    synced,  \* volumes the volume builder has carried to the machine volume
    avail,   \* free cores and RAM in a pool row
    free,    \* free storage in a pool row
    runs,    \* pool where the agent runs the machine of a node
    stored,  \* pool where the agent stores a machine volume
    disk,    \* storage of each class in a pool
    pc,      \* control of the scheduler's iteration
    todo, bundle,             \* unscheduled nodes and their volumes
    cur, pools, at, left, got, \* the node being placed
    saved,   \* memory to go back to when its volumes do not fit
    mem, placed, taken,
    returned, \* nodes whose machine the pool builder took back
    known    \* keys of nodes that were ever used

rows  == <<nodes, vols, vnode, machine, mvol, built, vbuilt, synced, avail, free>>
agent == <<runs, stored, disk>>
job   == <<cur, pools, at, left, got, saved>>
sched == <<pc, todo, bundle, job, mem, placed, taken>>
hist  == <<returned, known>>
vars  == <<rows, agent, sched, hist>>

NoRows == [i \in Vids |-> None]
NoMem  == [avail |-> [p \in Pools |-> 0],
           free |-> [p \in Pools |-> [c \in Classes |-> 0]], spares |-> {}]

NoBundle == [n \in Nodes |-> {}]
NoPlace  == [n \in Nodes |-> None]

Init ==
    /\ nodes = {} /\ vols = {v \in Volumes : Owner[v] = None}
    /\ vnode = [v \in Volumes |-> None]
    /\ machine = NoPlace
    /\ mvol = [i \in Vids |-> IF i \in Spares
                 THEN [pool |-> Home[i], machine |-> None, owner |-> None]
                 ELSE None]
    /\ built = {} /\ vbuilt = Spares /\ synced = {}
    /\ stored = [i \in Vids |-> IF i \in Spares THEN Home[i] ELSE None]
    /\ runs = NoPlace
    /\ disk \in Disks
    /\ avail = Cap
    /\ free = [p \in Pools |-> [c \in Classes |->
                disk[p][c] - SumFunctionOnSet(Size,
                    {i \in Spares : Home[i] = p /\ Class[i] = c})]]
    /\ pc = "idle" /\ todo = {} /\ bundle = NoBundle
    /\ cur = None /\ pools = {} /\ at = None /\ left = {} /\ got = NoRows
    /\ saved = NoMem /\ mem = NoMem
    /\ placed = NoPlace /\ taken = NoRows
    /\ returned = {} /\ known = {}

-----------------------------------------------------------------------------
(* What a query inside the scheduler's transaction sees, and what it       *)
(* forgets. *)

(* The locals of a node that is done with, and of the whole iteration.     *)
DropJob  == /\ cur' = None /\ pools' = {} /\ at' = None /\ left' = {}
            /\ got' = NoRows /\ saved' = NoMem
EndOfIteration == /\ pc' = "idle" /\ todo' = {} /\ bundle' = NoBundle /\ mem' = NoMem
                  /\ placed' = NoPlace /\ taken' = NoRows /\ DropJob

MachineRow(n) == IF placed[n] # None THEN placed[n] ELSE machine[n]
VolumeRow(i)  == IF taken[i] # None THEN taken[i] ELSE mvol[i]

HasMachineVolume(v) == \E i \in Vids : VolumeRow(i) # None /\ VolumeRow(i).owner = v

-----------------------------------------------------------------------------
(* The iteration: pools, spare volumes and unscheduled nodes are read, *)

StartIteration ==
    /\ pc = "idle"
    /\ pc' = "nodes"
    /\ mem' = [avail |-> avail, free |-> free,
               spares |-> {s \in Spares : mvol[s] # None /\ mvol[s].machine = None
                                                         /\ mvol[s].owner = None}]
    /\ todo' = {n \in nodes : machine[n] = None}
    /\ bundle' = [n \in Nodes |-> {v \in vols : vnode[v] = n}]
    /\ UNCHANGED <<rows, agent, job, placed, taken, hist>>

(* each node gets the pools that pass the filters, *)
CoresRamAvailable(n) == {p \in Pools : mem.avail[p] >= Need[n]}

PeerPoolsCommitted(n) ==
    IF n \in Group THEN {machine[m] : m \in (Group \cap nodes) \ {n}} ELSE {}

PeerPools(n) ==
    IF n \in Group
    THEN {MachineRow(m) : m \in (Group \cap nodes) \ {n}} ELSE {}

HardAntiAffinity(n, ps) == ps \ PeerPools(n)

SoftAntiAffinity(n, ps) == IF ps \ PeerPools(n) = {} THEN ps ELSE ps \ PeerPools(n)

ChooseNode(n) ==
    /\ pc = "nodes" /\ n \in todo
    /\ todo' = todo \ {n}
    /\ LET ps == SoftAntiAffinity(n, CoresRamAvailable(n))
       IN IF ps = {} THEN UNCHANGED <<pc, cur, pools>>
          ELSE pc' = "pool" /\ cur' = n /\ pools' = ps
    /\ UNCHANGED <<rows, agent, bundle, at, left, got, saved, mem, placed, taken,
                   hist>>

(* which are tried until one has room for all volumes of the node. *)
TryPool(p) ==
    /\ pc = "pool" /\ p \in pools
    /\ pc' = "alloc" /\ at' = p /\ pools' = pools \ {p}
    /\ left' = bundle[cur] /\ got' = NoRows /\ saved' = mem
    /\ UNCHANGED <<rows, agent, todo, bundle, cur, mem, placed, taken, hist>>

NoPoolLeft ==
    /\ pc = "pool" /\ pools = {}
    /\ pc' = "nodes" /\ DropJob
    /\ UNCHANGED <<rows, agent, todo, bundle, mem, placed, taken, hist>>

-----------------------------------------------------------------------------
(* One volume: reuse a spare one and grow it, or build a new one. *)

Suitable(v, p) ==
    {s \in mem.spares : /\ Home[s] = p /\ Size[s] <= Size[v] /\ Class[s] = Class[v]
                        /\ mem.free[p][Class[v]] >= Size[v] - Size[s]}

BuildsAlways(v, p) == TRUE

CanBuild(v, p) == mem.free[p][Class[v]] >= Size[v]

(* The machine volumes that v may get in pool p, and memory afterwards.    *)
Candidates(v, p) ==
    IF Suitable(v, p) # {} THEN Suitable(v, p)
    ELSE IF CanBuild(v, p) THEN {v} ELSE {}

MemoryWith(v, p, i) ==
    [avail  |-> mem.avail,
     free   |-> [mem.free EXCEPT ![p][Class[v]] =
                    @ - (Size[v] - IF i = v THEN 0 ELSE Size[i])],
     spares |-> mem.spares \ {i}]

AllocateVolume(v, i) ==
    /\ pc = "alloc" /\ v \in left
    /\ i \in Candidates(v, at) /\ mem' = MemoryWith(v, at, i)
    /\ got' = [got EXCEPT ![i] = [pool |-> at, machine |-> cur, owner |-> v]]
    /\ left' = left \ {v}
    /\ UNCHANGED <<rows, agent, pc, todo, bundle, cur, pools, at, saved, placed,
                   taken, hist>>

(* A volume that fits nowhere gives everything back. *)
StorageKept == [saved EXCEPT !.free = mem.free]

MemoryRestored == saved

AllocateFails(v) ==
    /\ pc = "alloc" /\ v \in left /\ Candidates(v, at) = {}
    /\ mem' = MemoryRestored
    /\ pc' = "pool" /\ at' = None /\ left' = {} /\ got' = NoRows /\ saved' = NoMem
    /\ UNCHANGED <<rows, agent, todo, bundle, cur, pools, placed, taken, hist>>

-----------------------------------------------------------------------------
(* Rows are written once all volumes have their place.  Inserting a        *)
(* machine volume whose key exists, or a machine for a node that was       *)
(* deleted meanwhile, breaks the transaction: the following statements     *)
(* fail as well and all of the iteration is rolled back.                   *)

Breaks(inserted) == \E i \in inserted : i \in Volumes /\ VolumeRow(i) # None

PlaceNode ==
    LET mine == {i \in Vids : got[i] # None}
    IN /\ pc = "alloc" /\ left = {}
       /\ IF cur \notin nodes \/ ~(bundle[cur] \subseteq vols) \/ Breaks(mine)
          THEN EndOfIteration
          ELSE /\ pc' = "nodes" /\ DropJob
               /\ placed' = [placed EXCEPT ![cur] = at]
               /\ taken' = [i \in Vids |-> IF i \in mine THEN got[i] ELSE taken[i]]
               /\ mem' = [mem EXCEPT !.avail[at] = @ - Need[cur]]
               /\ UNCHANGED <<todo, bundle>>
       /\ UNCHANGED <<rows, agent, hist>>

-----------------------------------------------------------------------------
(* Volumes attached to a placed node follow it to its pool. *)

StartVolumes ==
    /\ pc = "nodes" /\ todo = {}
    /\ pc' = "volumes"
    /\ left' = {v \in vols : ~HasMachineVolume(v)}
    /\ UNCHANGED <<rows, agent, todo, bundle, cur, pools, at, got, saved, mem,
                   placed, taken, hist>>

Followable(v) == vnode[v] # None /\ MachineRow(vnode[v]) # None

SkipVolume(v) ==
    /\ pc = "volumes" /\ v \in left /\ ~Followable(v)
    /\ left' = left \ {v}
    /\ UNCHANGED <<rows, agent, pc, todo, bundle, cur, pools, at, got, saved, mem,
                   placed, taken, hist>>

PlaceVolume(v, i) ==
    LET p == MachineRow(vnode[v])
    IN /\ pc = "volumes" /\ v \in left /\ Followable(v)
       /\ i \in Candidates(v, p)
       /\ IF v \notin vols \/ Breaks({i})
          THEN EndOfIteration
          ELSE /\ mem' = MemoryWith(v, p, i)
               /\ taken' = [taken EXCEPT ![i] = [pool |-> p, machine |-> vnode[v],
                                                 owner |-> v]]
               /\ left' = left \ {v}
               /\ UNCHANGED <<pc, todo, bundle, cur, pools, at, got, saved, placed>>
       /\ UNCHANGED <<rows, agent, hist>>

(* The handler of a volume that does not fit raises itself and so ends the *)
(* phase for the volumes after it.                                         *)
VolumeFails(v) ==
    /\ pc = "volumes" /\ v \in left /\ Followable(v)
    /\ Candidates(v, MachineRow(vnode[v])) = {}
    /\ left' = {}
    /\ UNCHANGED <<rows, agent, pc, todo, bundle, cur, pools, at, got, saved, mem,
                   placed, taken, hist>>

Commit ==
    /\ pc = "volumes" /\ left = {}
    /\ machine' = [n \in Nodes |-> MachineRow(n)]
    /\ mvol' = [i \in Vids |-> VolumeRow(i)]
    /\ synced' = synced \ {v \in Volumes : \E i \in Vids :
                              taken[i] # None /\ taken[i].owner = v}
    /\ returned' = {n \in returned : MachineRow(n) = None}
    /\ EndOfIteration
    /\ UNCHANGED <<nodes, vols, vnode, built, vbuilt, avail, free, agent, known>>

-----------------------------------------------------------------------------
(* The pool builder checks capacity again before a target resource is      *)
(* created and takes the placement back when it is gone.                   *)

(* Deleting a machine row leaves its machine volumes, without a machine.   *)
MachineKept(f, ns) == f

WithoutMachine(f, ns) ==
    [i \in Vids |-> IF f[i] # None /\ f[i].machine \in ns
                    THEN [f[i] EXCEPT !.machine = None] ELSE f[i]]

CreateMachineResource(n) ==
    /\ pc = "idle" /\ machine[n] # None /\ n \notin built
    /\ IF avail[machine[n]] < Need[n]
       THEN /\ machine' = [machine EXCEPT ![n] = None]
            /\ mvol' = WithoutMachine(mvol, {n})
            /\ returned' = returned \cup {n} /\ UNCHANGED built
       ELSE /\ \E i \in Vids : mvol[i] # None /\ mvol[i].machine = n
            /\ built' = built \cup {n} /\ UNCHANGED <<machine, mvol, returned>>
    /\ UNCHANGED <<nodes, vols, vnode, vbuilt, synced, avail, free, agent, sched,
                   known>>

CreateVolumeResource(i) ==
    LET r == mvol[i]
    IN /\ pc = "idle" /\ r # None /\ i \notin vbuilt
       /\ IF free[r.pool][Class[i]] < Size[i]
          THEN LET gone == IF r.owner \in Root /\ r.machine # None
                           THEN {r.machine} ELSE {}
               IN /\ mvol' = WithoutMachine([mvol EXCEPT ![i] = None], gone)
                  /\ machine' = [n \in Nodes |-> IF n \in gone THEN None
                                                 ELSE machine[n]]
                  /\ built' = built \ gone
                  /\ returned' = returned \cup gone
                  /\ UNCHANGED vbuilt
          ELSE vbuilt' = vbuilt \cup {i} /\ UNCHANGED <<mvol, machine, built, returned>>
       /\ UNCHANGED <<nodes, vols, vnode, synced, avail, free, agent, sched, known>>

(* Resources of deleted rows go away, and with them the agents of the      *)
(* machine.                                                                *)
DeleteMachineResource(n) ==
    /\ pc = "idle" /\ n \in built /\ machine[n] = None
    /\ built' = built \ {n}
    /\ UNCHANGED <<nodes, vols, vnode, machine, mvol, vbuilt, synced, avail, free,
                   agent, sched, hist>>

DeleteVolumeResource(i) ==
    /\ pc = "idle" /\ i \in vbuilt /\ mvol[i] = None
    /\ vbuilt' = vbuilt \ {i}
    /\ UNCHANGED <<nodes, vols, vnode, machine, mvol, built, synced, avail, free,
                   agent, sched, hist>>

-----------------------------------------------------------------------------
(* The volume builder carries the attachment of a volume to its machine    *)
(* volume.  It waits for the target resource with the key of the volume,   *)
(* which a reused machine volume does not have, and two machine volumes of *)
(* one volume make its query fail.                                         *)

MachineOfNone(v) == None

MachineOf(v) == IF vnode[v] # None /\ machine[vnode[v]] # None
                THEN vnode[v] ELSE None

ActualizeMachineVolume(v) ==
    LET own == {i \in Vids : mvol[i] # None /\ mvol[i].owner = v}
    IN /\ pc = "idle" /\ v \in (vols \cap vbuilt) \ synced /\ Cardinality(own) = 1
       /\ mvol' = [i \in Vids |-> IF i \in own
                     THEN [mvol[i] EXCEPT !.machine = MachineOf(v)] ELSE mvol[i]]
       /\ synced' = synced \cup {v}
       /\ UNCHANGED <<nodes, vols, vnode, machine, built, vbuilt, avail, free, agent,
                      sched, hist>>

-----------------------------------------------------------------------------
(* The user API.  A row that the open transaction of the scheduler refers  *)
(* to is locked.                                                           *)

(* Keys are never used twice. *)
CreateNode(n) ==
    /\ n \notin known
    /\ known' = known \cup {n}
    /\ nodes' = nodes \cup {n}
    /\ vols' = vols \cup {v \in Volumes : Owner[v] = n}
    /\ vnode' = [v \in Volumes |-> IF Owner[v] = n THEN n ELSE vnode[v]]
    /\ UNCHANGED <<machine, mvol, built, vbuilt, synced, avail, free, agent, sched,
                   returned>>

Locked(n) == placed[n] # None
             \/ \E i \in Vids : taken[i] # None /\ vnode[taken[i].owner] = n

DeleteNode(n) ==
    LET gone == {v \in vols : vnode[v] = n}
    IN /\ n \in nodes /\ ~Locked(n)
       /\ nodes' = nodes \ {n} /\ vols' = vols \ gone
       /\ vnode' = [v \in Volumes |-> IF v \in gone THEN None ELSE vnode[v]]
       /\ machine' = [machine EXCEPT ![n] = None]
       /\ mvol' = [i \in Vids |-> IF mvol[i] # None /\ mvol[i].owner \in gone
                     THEN None ELSE WithoutMachine(mvol, {n})[i]]
       /\ synced' = synced \ gone /\ returned' = returned \ {n}
       /\ UNCHANGED <<built, vbuilt, avail, free, agent, sched, known>>

Attach(v, n) ==
    /\ <<v, n>> \in Attachable /\ v \in vols /\ n \in nodes /\ vnode[v] = None
    /\ vnode' = [vnode EXCEPT ![v] = n] /\ synced' = synced \ {v}
    /\ UNCHANGED <<nodes, vols, machine, mvol, built, vbuilt, avail, free, agent,
                   sched, hist>>

Detach(v) ==
    /\ v \in vols /\ <<v, vnode[v]>> \in Attachable
    /\ \A i \in Vids : taken[i] # None => taken[i].owner # v
    /\ vnode' = [vnode EXCEPT ![v] = None] /\ synced' = synced \ {v}
    /\ UNCHANGED <<nodes, vols, machine, mvol, built, vbuilt, avail, free, agent,
                   sched, hist>>

-----------------------------------------------------------------------------
(* The agent of a pool (external) creates and removes what the target      *)
(* resources say, and reports what is left.                                *)

AgentCreates(n) ==
    /\ n \in built /\ machine[n] # None /\ runs[n] = None
    /\ runs' = [runs EXCEPT ![n] = machine[n]]
    /\ UNCHANGED <<rows, stored, disk, sched, hist>>

AgentStores(i) ==
    /\ i \in vbuilt /\ mvol[i] # None /\ stored[i] = None
    /\ stored' = [stored EXCEPT ![i] = mvol[i].pool]
    /\ UNCHANGED <<rows, runs, disk, sched, hist>>

AgentRemoves(n) ==
    /\ n \notin built /\ runs[n] # None
    /\ runs' = [runs EXCEPT ![n] = None]
    /\ UNCHANGED <<rows, stored, disk, sched, hist>>

AgentErases(i) ==
    /\ i \notin vbuilt /\ stored[i] # None
    /\ stored' = [stored EXCEPT ![i] = None]
    /\ UNCHANGED <<rows, runs, disk, sched, hist>>

(* A reused volume grows when the volume builder has carried the new size. *)
StoredSize ==
    [i \in Vids |-> IF mvol[i] # None /\ mvol[i].owner \in synced
                    THEN Size[mvol[i].owner] ELSE Size[i]]

Left(p) == Cap[p] - SumFunctionOnSet(Need, {n \in Nodes : runs[n] = p})

LeftOf(p, c) ==
    disk[p][c] - SumFunctionOnSet(StoredSize, {i \in Vids : stored[i] = p /\ Class[i] = c})

ReportPool(p) ==
    /\ pc = "idle"
    /\ avail[p] # Left(p) \/ \E c \in Classes : free[p][c] # LeftOf(p, c)
    /\ avail' = [avail EXCEPT ![p] = Left(p)]
    /\ free' = [free EXCEPT ![p] = [c \in Classes |-> LeftOf(p, c)]]
    /\ UNCHANGED <<nodes, vols, vnode, machine, mvol, built, vbuilt, synced, agent,
                   sched, hist>>

-----------------------------------------------------------------------------
Scheduler ==
    \/ StartIteration
    \/ \E n \in Nodes : ChooseNode(n)
    \/ \E p \in Pools : TryPool(p)
    \/ NoPoolLeft
    \/ \E v \in Volumes, i \in Vids : AllocateVolume(v, i) \/ PlaceVolume(v, i)
    \/ \E v \in Volumes : AllocateFails(v) \/ SkipVolume(v) \/ VolumeFails(v)
    \/ PlaceNode \/ StartVolumes \/ Commit

Builders ==
    \/ \E n \in Nodes : CreateMachineResource(n) \/ DeleteMachineResource(n)
    \/ \E i \in Vids : CreateVolumeResource(i) \/ DeleteVolumeResource(i)
    \/ \E v \in Volumes : ActualizeMachineVolume(v)

API ==
    \/ \E n \in Nodes : CreateNode(n) \/ DeleteNode(n)
    \/ \E v \in Volumes : Detach(v) \/ \E n \in Nodes : Attach(v, n)

Agents ==
    \/ \E n \in Nodes : AgentCreates(n) \/ AgentRemoves(n)
    \/ \E i \in Vids : AgentStores(i) \/ AgentErases(i)
    \/ \E p \in Pools : ReportPool(p)

Next == Scheduler \/ Builders \/ API \/ Agents

(* The scheduler and the builders run in turn for ever and agents poll;    *)
(* a builder only waits for the iteration of the scheduler to end.         *)
Fairness == WF_vars(Scheduler) /\ SF_vars(Builders) /\ SF_vars(Agents)

Spec == Init /\ [][Next]_vars
FairSpec == Spec /\ Fairness
-----------------------------------------------------------------------------
(* Properties. *)

Memories == [avail : [Pools -> Int], free : [Pools -> [Classes -> Int]],
             spares : SUBSET Spares]

(* Rows, reports and the scheduler's memory stay well formed while nodes,  *)
(* volumes and machine volumes come and go in the middle of an iteration.  *)
TypeOK ==
    /\ nodes \subseteq Nodes /\ vols \subseteq Volumes
    /\ vnode \in [Volumes -> Nodes \cup {None}]
    /\ machine \in [Nodes -> Pools \cup {None}]
    /\ mvol \in [Vids -> MachineVolumes \cup {None}]
    /\ built \subseteq Nodes /\ vbuilt \subseteq Vids /\ synced \subseteq Volumes
    /\ avail \in [Pools -> Int] /\ free \in [Pools -> [Classes -> Int]]
    /\ runs \in [Nodes -> Pools \cup {None}] /\ stored \in [Vids -> Pools \cup {None}]
    /\ disk \in [Pools -> [Classes -> Nat]]
    /\ pc \in {"idle", "nodes", "pool", "alloc", "volumes"}
    /\ todo \subseteq Nodes /\ bundle \in [Nodes -> SUBSET Volumes]
    /\ cur \in Nodes \cup {None} /\ pools \subseteq Pools /\ at \in Pools \cup {None}
    /\ left \subseteq Volumes /\ got \in [Vids -> MachineVolumes \cup {None}]
    /\ saved \in Memories /\ mem \in Memories
    /\ placed \in [Nodes -> Pools \cup {None}]
    /\ taken \in [Vids -> MachineVolumes \cup {None}]
    /\ returned \subseteq Nodes /\ known \subseteq Nodes

(* Within one iteration the scheduler never hands out cores, RAM or        *)
(* storage a pool row does not have, counting all nodes and volumes it has *)
(* already placed in that iteration.                                       *)
NeverOverdrawn ==
    pc # "idle" => \A p \in Pools :
        /\ mem.avail[p] >= 0 \/ mem.avail[p] = avail[p]
        /\ \A c \in Classes : mem.free[p][c] >= 0 \/ mem.free[p][c] = free[p][c]

(* Storage that a row of a machine volume costs: a new one has the size of *)
(* its volume, a spare one grows to it.                                    *)
Cost(f, i) == Size[f[i].owner] - (IF f[i].owner = i THEN 0 ELSE Size[i])

(* What the rows of f cost a class of storage in a pool. *)
Charged(f, p, c) ==
    SumFunctionOnSet([i \in Vids |-> IF f[i] = None THEN 0 ELSE Cost(f, i)],
                     {i \in Vids : f[i] # None /\ f[i].pool = p /\ Class[i] = c})

(* What memory has given away is exactly what the rows of the open         *)
(* transaction and the node being placed use, of cores and RAM, of storage *)
(* and of spare volumes: a pool that turned out not to fit got everything  *)
(* back.                                                                   *)
MemoryBalanced ==
    pc # "idle" => \A p \in Pools :
        /\ mem.avail[p] = avail[p]
             - SumFunctionOnSet(Need, {n \in Nodes : placed[n] = p})
        /\ \A c \in Classes : mem.free[p][c]
             = free[p][c] - (Charged(taken, p, c) + Charged(got, p, c))
        /\ \A s \in Spares :
             (taken[s] # None \/ (pc = "alloc" /\ got[s] # None)) <=>
             (s \notin mem.spares /\ mvol[s] # None /\ mvol[s].owner = None)

(* The scheduler's comment: a volume is placed into the pool of its        *)
(* machine.                                                                *)
VolumeInPoolOfMachine ==
    \A i \in Vids : (mvol[i] # None /\ mvol[i].machine # None) =>
        mvol[i].pool = machine[mvol[i].machine]

(* Nodes under the anti affinity policy are kept apart as long as every    *)
(* one of them finds a pool of its own, also when they are placed in the   *)
(* same iteration.                                                         *)
PeersApart ==
    \A m, n \in Group : (m # n /\ machine[m] # None) => machine[m] # machine[n]

(* Every node is placed in the end. *)
EventuallyPlaced ==
    \A n \in Nodes : (n \in nodes) ~> (machine[n] # None \/ n \notin nodes)

(* The pool builder's comment: when it takes a machine back the scheduler  *)
(* tries to schedule the node again.                                       *)
ReturnedIsPlacedAgain ==
    \A n \in Nodes : (n \in returned) ~> (n \notin returned)

(* The machine volume follows the attachment of its volume. *)
AttachmentFollowed ==
    \A a \in Attachable :
        (vnode[a[1]] = a[2] /\ machine[a[2]] # None) ~>
            \/ \E i \in Vids : mvol[i] # None /\ mvol[i].owner = a[1]
                                              /\ mvol[i].machine = a[2]
            \/ vnode[a[1]] # a[2] \/ machine[a[2]] = None
=============================================================================
