------------------------------ MODULE Network -------------------------------
(***************************************************************************)
(* The network service (network/service.py) and the flat driver            *)
(* (network/driver/flat.py): an iteration reads nodes and ports, allocates *)
(* an address and a port for each node without one, brings the DHCP server *)
(* in line and commits. It is one transaction, beside which the API        *)
(* creates and deletes nodes; what it does to DHCP is not rolled back.     *)
(*                                                                         *)
(* There is one subnet. The id of a port is any that is not in use.        *)
(***************************************************************************)
EXTENDS Ipam

CONSTANTS
    None,
    VmNodes, HwNodes,   \* ids of nodes
    PortIds,            \* bound: ids of ports
    FirstIp, LastIp,        \* the range of the subnet
    Targets,            \* addresses that clients ask for, or None
    Room,               \* bound: addresses that older nodes leave free
    MaxFaults,          \* bound: failed restarts of DHCP and crashes
    Careful             \* do clients ask for distinct addresses, and wait for the port
                        \* before they delete a node?

Nodes == VmNodes \union HwNodes

NodeRows == [target : Targets, net : PortIds \union {None}]

PortRows == [node : Nodes, ip : Nat, asked : BOOLEAN, status : {"NEW", "ACTIVE"}]

ASSUME NetworkAssumption ==
    /\ FirstIp \in Nat /\ LastIp \in Nat /\ FirstIp <= LastIp
    /\ MaxFaults \in Nat /\ Room \in Nat /\ IsFiniteSet(PortIds) /\ IsFiniteSet(Nodes)
    /\ Careful \in BOOLEAN
    /\ Targets \subseteq Nat \union {None}
    /\ None \notin Nat \union PortIds \union Nodes \union NodeRows \union PortRows

VARIABLES
    node,       \* rows of compute_nodes
    made,       \* nodes that are or were there
    port,       \* rows of compute_ports
    reserved,   \* addresses of ports of older nodes
    dhcp,       \* configuration file, context file, and does the stored hash fit?
    iter,       \* iteration of the service
    faults      \* faults so far

networkVars == <<node, made, port, reserved, dhcp, iter, faults>>

Ports == [PortIds -> PortRows \union {None}]

\* Hosts of the subnet, by port; None when the subnet is not there.
Hosts == (SUBSET (PortIds \X Nat)) \union {None}

Iterations ==
    [stage : {"allocate", "commit"}, todo : SUBSET Nodes, map : Ports,
     new : SUBSET PortIds, pool : Seq(Nat \X Nat), taken : SUBSET Nat,
     last : PortIds \union {None}, aborted : BOOLEAN, learn : SUBSET PortIds]

NetworkTypeOK ==
    /\ node \in [Nodes -> NodeRows \union {None}]
    /\ made \subseteq Nodes
    /\ port \in Ports
    /\ reserved \subseteq FirstIp .. LastIp
    /\ dhcp \in [cfg : Hosts, ctx : Hosts, fits : BOOLEAN]
    /\ iter \in Iterations \union {None}
    /\ faults \in Nat

NetworkInit ==
    /\ node = [n \in Nodes |-> None]
    /\ made = {}
    /\ port = [p \in PortIds |-> None]
    /\ reserved \in {s \in SUBSET (FirstIp .. LastIp) : Cardinality(s) = LastIp - FirstIp + 1 - Room}
    /\ dhcp = [cfg |-> None, ctx |-> None, fits |-> FALSE]
    /\ iter = None
    /\ faults = 0

Rows(ps) == {p \in PortIds : ps[p] # None}

PortsOf(n, ps) == {p \in Rows(ps) : ps[p].node = n}

-----------------------------------------------------------------------------
\* Clients of the compute API.

CreateNode(n, target) ==
    /\ n \notin made
    /\ n \in HwNodes => target = None
    /\ Careful /\ target # None =>
          \A m \in Nodes : node[m] # None => node[m].target # target
    /\ made' = made \union {n}
    /\ node' = [node EXCEPT ![n] = [target |-> target, net |-> None]]
    /\ UNCHANGED <<port, reserved, dhcp, iter, faults>>

\* The ports go with the node. An insert under way that refers to it makes this wait.
DeleteNode(n) ==
    /\ node[n] # None
    /\ Careful => PortsOf(n, port) # {}
    /\ iter # None => \A p \in iter.new : iter.map[p].node # n
    /\ node' = [node EXCEPT ![n] = None]
    /\ port' = [p \in PortIds |-> IF p \in PortsOf(n, port) THEN None ELSE port[p]]
    /\ UNCHANGED <<made, reserved, dhcp, iter, faults>>

-----------------------------------------------------------------------------
\* An iteration of the service: what it reads.

WithoutPorts(ns) == {n \in ns : node[n] # None /\ PortsOf(n, port) = {}}

\* Machines of hardware nodes have an interface with an address in the subnet.
NewHwPorts == WithoutPorts(HwNodes)

TakenActive == reserved \union {port[p].ip : p \in {q \in Rows(port) : port[q].status = "ACTIVE"}}

Taken == reserved \union {port[p].ip : p \in Rows(port)}

Snapshot ==
    /\ iter = None
    /\ iter' = [stage |-> "allocate", todo |-> WithoutPorts(VmNodes) \union NewHwPorts, map |-> port, new |-> {},
                pool |-> CalculatePool(FirstIp, LastIp, Taken), taken |-> Taken,
                last |-> None, aborted |-> FALSE, learn |-> {}]
    /\ UNCHANGED <<node, made, port, reserved, dhcp, faults>>

\* Ids that nobody has seen yet, and the one that the next port gets.
FreshIds ==
    {p \in PortIds :
        /\ port[p] = None /\ iter.map[p] = None
        /\ \A h \in {dhcp.cfg, dhcp.ctx} \ {None} : \A x \in h : x[1] # p}

Fresh == CHOOSE p \in FreshIds : TRUE

NewPort(n, ip) ==
    [node |-> n, ip |-> ip, asked |-> node[n] # None /\ node[n].target # None,
     status |-> "NEW"]

\* The handler of a failed allocation gives back the address of `port`: of the last node
\* that got that far. Without one the name is unbound, and the iteration ends.
Handled(i) ==
    IF i.last = None THEN None
    ELSE [i EXCEPT !.pool = DeallocateIp(i.map[i.last].ip, i.pool)]

\* A target address is unique among the ports of the subnet.
TargetTaken(n) ==
    /\ node[n].target # None
    /\ \E p \in Rows(port) \union iter.new :
          LET row == IF p \in iter.new THEN iter.map[p] ELSE port[p]
          IN  row.asked /\ row.ip = node[n].target

\* The outcomes of one node, from the iteration i without the node: an empty pool; a node
\* that is gone, or whatever is read after a statement has failed, raises before `port`
\* is set; a failing insert aborts the transaction, and the port stays in the map.
Allocated(n, i) ==
    IF i.pool = <<>> THEN {Handled(i)}
    ELSE LET target == IF node[n] = None THEN None ELSE node[n].target
             got    == AllocateIp(i.pool, target, None)
             drawn  == [i EXCEPT !.pool = got.pool]
             listed == [drawn EXCEPT !.map[Fresh] = NewPort(n, got.ip), !.last = Fresh]
             failed == [Handled(listed) EXCEPT !.aborted = TRUE]
         IN  IF i.aborted THEN {Handled(drawn)}
             ELSE IF node[n] = None THEN {Handled(drawn), failed}
             ELSE IF TargetTaken(n) THEN {failed}
             ELSE {[listed EXCEPT !.new = @ \union {Fresh}]}

AllocateVm(n) ==
    /\ iter # None /\ iter.stage = "allocate"
    /\ n \in iter.todo \intersect VmNodes
    /\ FreshIds # {}
    /\ iter' \in Allocated(n, [iter EXCEPT !.todo = @ \ {n}])
    /\ UNCHANGED <<node, made, port, reserved, dhcp, faults>>

\* Hardware nodes come after the others. An error is logged and the address is lost.
AllocateHw(n) ==
    LET rest == [iter EXCEPT !.todo = @ \ {n}]
        got  == AllocateIp(iter.pool, None, None)
    IN  /\ iter # None /\ iter.stage = "allocate"
        /\ n \in iter.todo /\ iter.todo \subseteq HwNodes
        /\ FreshIds # {}
        /\ iter' = IF iter.pool = <<>> THEN rest
                   ELSE IF iter.aborted \/ node[n] = None
                        THEN [rest EXCEPT !.pool = got.pool, !.aborted = TRUE]
                   ELSE [rest EXCEPT !.pool = got.pool, !.map[Fresh] = NewPort(n, got.ip),
                                     !.new = @ \union {Fresh}]
        /\ UNCHANGED <<node, made, port, reserved, dhcp, faults>>

-----------------------------------------------------------------------------
\* The driver. Its context is void when the stored hash is not that of the file.

LoadCtx(d) == IF d.fits THEN d.ctx ELSE None

ApplyCfgEarly(d, ctx, ok) == [cfg |-> ctx, ctx |-> ctx, fits |-> TRUE]

\* The file is written, DHCP restarted, then hash and context are saved.
ApplyCfg(d, ctx, ok) ==
    IF ok THEN [cfg |-> ctx, ctx |-> ctx, fits |-> TRUE]
    ELSE [cfg |-> ctx, ctx |-> d.ctx, fits |-> FALSE]

CreateSubnet(d, ok) == ApplyCfg(d, {}, ok)

Host(p) == <<p, iter.map[p].ip>>

CreatePorts(d, ps, ok) ==
    IF ps = {} THEN d ELSE ApplyCfg(d, LoadCtx(d) \union {Host(p) : p \in ps}, ok)

\* A context that has become void meanwhile is applied as it is: without the subnet.
DeletePorts(d, hosts, ok) ==
    IF hosts = {} THEN d
    ELSE ApplyCfg(d, IF LoadCtx(d) = None THEN None ELSE LoadCtx(d) \ hosts, ok)

\* A subnet that the driver does not know is created, its ports follow in the next
\* iteration. Otherwise ports are created, superfluous ones deleted, and the status of
\* the others is copied.
DataPlane(okCreate, okDelete) ==
    LET actual == LoadCtx(dhcp)
        known  == {h[1] : h \in actual}
        target == Rows(iter.map)
        create == target \ known
        after  == CreatePorts(dhcp, create, okCreate)
        active == (target \intersect known) \union (IF okCreate THEN create ELSE {})
        first  == {p \in IF okCreate THEN create ELSE {} :
                      node[iter.map[p].node] # None /\ node[iter.map[p].node].net = None}
        failed == (IF okCreate THEN 0 ELSE 1) + (IF okDelete THEN 0 ELSE 1)
    IN  /\ iter # None /\ iter.stage = "allocate" /\ iter.todo = {}
        /\ faults + failed <= MaxFaults
        /\ faults' = faults + failed
        /\ IF actual = None
           THEN /\ okDelete
                /\ dhcp' = CreateSubnet(dhcp, okCreate)
                /\ iter' = [iter EXCEPT !.stage = "commit"]
           ELSE /\ okCreate \/ create # {}
                /\ okDelete \/ known \ target # {}
                /\ dhcp' = DeletePorts(after, {h \in actual : h[1] \notin target}, okDelete)
                /\ iter' = [iter EXCEPT
                               !.stage = "commit",
                               !.learn = first,
                               !.map = [p \in PortIds |->
                                           IF p \in active
                                           THEN [iter.map[p] EXCEPT !.status = "ACTIVE"]
                                           ELSE iter.map[p]]]
        /\ UNCHANGED <<node, made, port, reserved>>

\* An aborted transaction is rolled back. Rows deleted meanwhile stay deleted.
Commit ==
    /\ iter # None /\ iter.stage = "commit"
    /\ IF iter.aborted THEN UNCHANGED <<node, port>>
       ELSE /\ port' = [p \in PortIds |->
                           IF p \in iter.new \/ port[p] # None THEN iter.map[p] ELSE None]
            /\ node' = [n \in Nodes |->
                           IF node[n] # None /\ \E p \in iter.learn : iter.map[p].node = n
                           THEN [node[n] EXCEPT !.net =
                                    CHOOSE p \in iter.learn : iter.map[p].node = n]
                           ELSE node[n]]
    /\ iter' = None
    /\ UNCHANGED <<made, reserved, dhcp, faults>>

\* Hashes of strings differ from process to process, so a restart voids the context.
Crash ==
    /\ faults < MaxFaults
    /\ faults' = faults + 1
    /\ iter' = None
    /\ dhcp' = [dhcp EXCEPT !.fits = FALSE]
    /\ UNCHANGED <<node, made, port, reserved>>

Iterate ==
    \/ Snapshot
    \/ \E n \in Nodes : AllocateVm(n) \/ AllocateHw(n)
    \/ \E a, b \in BOOLEAN : DataPlane(a, b)
    \/ Commit

NetworkNext ==
    \/ \E n \in Nodes, t \in Targets : CreateNode(n, t)
    \/ \E n \in Nodes : DeleteNode(n)
    \/ Iterate
    \/ Crash

\* The service runs its iterations for ever. A step of it is always possible, so that
\* this is weak fairness of Iterate.
NetworkFairness == []<><<Iterate>>_networkVars

NetworkSpec == NetworkInit /\ [][NetworkNext]_networkVars /\ NetworkFairness

-----------------------------------------------------------------------------
\* Addresses handed out by the service, by node.
leaseOf ==
    [n \in Nodes |->
        IF \E p \in PortsOf(n, port) : ~ port[p].asked
        THEN port[CHOOSE p \in PortsOf(n, port) : ~ port[p].asked].ip ELSE None]

Book == INSTANCE Leases WITH
    Holders <- Nodes, Addresses <- FirstIp .. LastIp, Free <- None, lease <- leaseOf

\* The committed ports behave as a book of leases: whatever fails, crashes or is deleted,
\* a node is given an address that no other one holds and keeps it (NetworkService).
LeasesHonoured == Book!LeasesSpec

\* The intervals of free addresses stay in order and never contain an address that a port
\* had when the iteration began (Ipam.calculate_pool, occupy_ip, deallocate_ip).
PoolExcludesTaken ==
    iter # None => WellFormed(iter.pool) /\ FreeAddresses(iter.pool) \intersect iter.taken = {}

\* When clients and faults have come to rest and addresses suffice, every node has its
\* port, DHCP serves exactly these ports, and every node knows its own.
NetworkConverges ==
    <>[]( Cardinality({n \in Nodes : node[n] # None}) <= Room =>
            /\ \A n \in Nodes : node[n] # None =>
                  \E p \in PortsOf(n, port) : port[p].status = "ACTIVE" /\ node[n].net = p
            /\ dhcp.cfg = {<<p, port[p].ip>> : p \in Rows(port)} )
=============================================================================
