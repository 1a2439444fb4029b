------------------------------ MODULE Delivery ------------------------------
(***************************************************************************)
(* What is rolled out to the nodes of a set: a node set that grows and     *)
(* shrinks (compute/builders/node_set.py), and a config or an SSH key for  *)
(* all of its nodes. Configs and SSH keys take the same way                *)
(* (config/service.py, secret/service.py): a master resource, a resource   *)
(* for every node, reports of the nodes, and a status made of them.        *)
(***************************************************************************)
EXTENDS Integers, FiniteSets

CONSTANTS
    Void,
    MaxNodes,       \* bound: nodes made for the set; nodes are numbered as they are made
    MaxReplicas,    \* bound: size of the set
    MaxVersion,     \* bound: versions of the item
    MaxResizes,     \* bound: changes of the number of replicas
    Early,          \* may an item be made before the set has nodes?
    Racing          \* do requests come in the midst of an iteration?

ASSUME DeliveryAssumption ==
    /\ MaxReplicas \in Nat \ {0} /\ MaxVersion \in Nat \ {0} /\ MaxResizes \in Nat
    /\ MaxNodes \in Nat /\ 2 * MaxNodes >= MaxReplicas * (2 + MaxResizes)
    /\ Early \in BOOLEAN /\ Racing \in BOOLEAN

NodeIds == 1 .. MaxNodes

VARIABLES
    set,        \* node set: wanted replicas, nodes it targets, status; nodes made, resizes
    node,       \* status of the nodes there are
    item,       \* row of the config, or of the key; version 0 before it is made
    master,     \* is there a target resource of the item?
    host,       \* target resources for nodes: version and status
    held,       \* version that a node holds
    news,       \* nodes whose report has not been handled
    pass,       \* pass of the service's iteration
    read        \* the row and the nodes as the pass has read them

deliveryVars == <<set, node, item, master, host, held, news, pass, read>>

serviceVars == <<master, host, pass, read>>

Statuses == {"NEW", "IN_PROGRESS", "ACTIVE"}

HostResources == [version : 1 .. MaxVersion, status : Statuses]

\* Void is neither a status nor a resource.
ASSUME VoidAssumption == Void \notin Statuses \union HostResources

Items == [version : 0 .. MaxVersion, status : Statuses, changed : BOOLEAN] \union {Void}

DeliveryTypeOK ==
    /\ set \in [replicas : 0 .. MaxReplicas, nodes : SUBSET NodeIds, status : Statuses,
                made : 0 .. MaxNodes, resizes : 0 .. MaxResizes]
    /\ node \in [NodeIds -> Statuses \union {Void}]
    /\ item \in Items
    /\ master \in BOOLEAN
    /\ host \in [NodeIds -> HostResources \union {Void}]
    /\ held \in [NodeIds -> 0 .. MaxVersion]
    /\ news \subseteq NodeIds
    /\ pass \in {"new", "changed", "outdated", "deleted"}
    /\ read \in [item : Items, nodes : SUBSET NodeIds] \union {Void}

NoHosts == [n \in NodeIds |-> Void]

DeliveryInit ==
    /\ set \in [replicas : 1 .. MaxReplicas, nodes : {{}}, status : {"NEW"}, made : {0},
                resizes : {0}]
    /\ node = [n \in NodeIds |-> Void]
    /\ item = [version |-> 0, status |-> "NEW", changed |-> TRUE]
    /\ master = FALSE
    /\ host = NoHosts
    /\ held = [n \in NodeIds |-> 0]
    /\ news = {} /\ pass = "new" /\ read = Void

Alive == {n \in NodeIds : node[n] # Void}

Made(i) == i # Void /\ i.version > 0

-----------------------------------------------------------------------------
\* The node set.

Resize(r) ==
    /\ set.resizes < MaxResizes /\ r # set.replicas
    /\ set' = [set EXCEPT !.replicas = r, !.resizes = @ + 1]
    /\ UNCHANGED <<node, item, held, news, serviceVars>>

Fresh(k) == (set.made + 1) .. (set.made + k)

\* Nodes the set has are kept as far as there is room, in no order; the others are new
\* (NodeSet.gen_nodes).
GenNodes ==
    IF Cardinality(set.nodes) >= set.replicas
    THEN {ns \in SUBSET set.nodes : Cardinality(ns) = set.replicas}
    ELSE {set.nodes \union Fresh(set.replicas - Cardinality(set.nodes))}

\* The status follows the nodes that are still wanted (actualize_infra).
SetStatus(ns) ==
    LET seen == {node[n] : n \in ns \intersect Alive}
    IN  IF Cardinality(ns \intersect Alive) >= set.replicas /\ seen \subseteq {"ACTIVE"}
        THEN "ACTIVE"
        ELSE IF "NEW" \in seen THEN "NEW"
        ELSE IF "IN_PROGRESS" \in seen THEN "IN_PROGRESS"
        ELSE set.status

\* NodeSetBuilderService.actualize_infra, and create_infra when the set is new.
BuildSet ==
    /\ \E ns \in GenNodes :
          set' = [set EXCEPT !.nodes = ns, !.status = SetStatus(ns),
                             !.made = @ + Cardinality(ns \ set.nodes)]
    /\ set' # set
    /\ UNCHANGED <<node, item, held, news, serviceVars>>

\* The agent of the set makes and removes nodes. What a node held goes with it.
NodeStep(n) ==
    /\ \/ /\ n \in set.nodes /\ node[n] # "ACTIVE"
          /\ node' = [node EXCEPT ![n] = CASE node[n] = Void -> "NEW"
                                           [] node[n] = "NEW" -> "IN_PROGRESS"
                                           [] OTHER -> "ACTIVE"]
          /\ UNCHANGED <<held, news>>
       \/ /\ n \in Alive \ set.nodes
          /\ node' = [node EXCEPT ![n] = Void]
          /\ held' = [held EXCEPT ![n] = 0]
          /\ news' = news \ {n}
    /\ UNCHANGED <<set, item, serviceVars>>

-----------------------------------------------------------------------------
\* The item: requests. The controller makes an item it has edited NEW again.

Request(i) ==
    /\ Racing \/ (pass = "new" /\ read = Void)
    /\ item' = i
    /\ UNCHANGED <<set, node, held, news, serviceVars>>

Create ==
    /\ item # Void /\ item.version = 0
    /\ Early \/ Alive # {}
    /\ Request([item EXCEPT !.version = 1])

Edit ==
    /\ Made(item) /\ item.version < MaxVersion
    /\ Request([version |-> item.version + 1, status |-> "NEW", changed |-> TRUE])

Delete == Made(item) /\ Request(Void)

-----------------------------------------------------------------------------
\* The item: passes of the service. Each reads rows first and writes them afterwards.

ReadRows ==
    /\ read = Void
    /\ read' = [item |-> item, nodes |-> Alive]
    /\ UNCHANGED <<set, node, item, master, host, held, news, pass>>

TrackNot(status) == item' = [item EXCEPT !.status = status]

\* Of the row only the status is written, and the time up to which it is tracked.
Track(status) == item' = [item EXCEPT !.status = status, !.changed = FALSE]

\* The resource of a node is yet to be applied.
HostResource(i) == [version |-> i.version, status |-> "IN_PROGRESS"]

\* Every node of the set gets one.
Placed(hosts) ==
    [n \in NodeIds |-> IF n \in read.nodes THEN HostResource(read.item) ELSE hosts[n]]

\* An item without a node is removed; otherwise it gets its resources, in the version that
\* was read. If the row has gone meanwhile, the savepoint undoes this.
RollOut(hosts) ==
    IF item = Void THEN UNCHANGED <<item, master, host>>
    ELSE IF read.nodes = {}
    THEN item' = Void /\ host' = hosts /\ master' = FALSE
    ELSE host' = Placed(hosts) /\ master' = TRUE /\ Track("IN_PROGRESS")

Pass(here, next) ==
    /\ pass = here /\ read # Void
    /\ pass' = next /\ read' = Void
    /\ UNCHANGED <<set, node, held>>

IsNew == Made(read.item) /\ ~ master

ActualizeNew ==
    /\ Pass("new", "changed")
    /\ IF IsNew THEN RollOut(host) ELSE UNCHANGED <<item, master, host>>
    /\ UNCHANGED news

IsChanged == Made(read.item) /\ master /\ read.item.changed

\* Resources are deleted, and made anew.
ActualizeChanged ==
    /\ Pass("changed", "outdated")
    /\ IF IsChanged THEN RollOut(NoHosts)
       ELSE UNCHANGED <<item, master, host>>
    /\ UNCHANGED news

SameHashIgnored(n) == TRUE

SameHash(n) == held[n] = host[n].version

\* Host resources of nodes that have reported.
Outdated == {n \in news : host[n] # Void /\ held[n] # 0}

StatusOf(seen) ==
    IF seen = {"ACTIVE"} THEN "ACTIVE" ELSE IF "NEW" \in seen THEN "NEW" ELSE "IN_PROGRESS"

\* A host resource becomes active only if the node holds what it should; the status of
\* the item is made of the host resources at hand.
ActualizeOutdated ==
    /\ Pass("outdated", "deleted")
    /\ LET after == [n \in NodeIds |-> IF n \in Outdated /\ SameHash(n)
                                       THEN [host[n] EXCEPT !.status = "ACTIVE"] ELSE host[n]]
           status == StatusOf({after[n].status : n \in Outdated})
       IN  IF ~ Made(read.item) \/ item = Void \/ ~ master \/ Outdated = {}
           THEN UNCHANGED <<item, host>>
           ELSE /\ host' = after
                /\ IF status = read.item.status THEN UNCHANGED item ELSE Track(status)
    /\ news' = news \ Outdated
    /\ UNCHANGED master

ActualizeDeleted ==
    /\ Pass("deleted", "new")
    /\ IF read.item = Void
       THEN master' = FALSE /\ host' = NoHosts
       ELSE UNCHANGED <<master, host>>
    /\ UNCHANGED <<item, news>>

\* The agent of a node takes what there is for it, and reports.
Apply(n) ==
    /\ node[n] = "ACTIVE"
    /\ held[n] # (IF host[n] = Void THEN 0 ELSE host[n].version)
    /\ held' = [held EXCEPT ![n] = IF host[n] = Void THEN 0 ELSE host[n].version]
    /\ news' = IF host[n] = Void THEN news \ {n} ELSE news \union {n}
    /\ UNCHANGED <<set, node, item, serviceVars>>

Service == ReadRows \/ ActualizeNew \/ ActualizeChanged \/ ActualizeOutdated \/ ActualizeDeleted

DeliveryNext ==
    \/ \E r \in 0 .. MaxReplicas : Resize(r)
    \/ BuildSet \/ Create \/ Edit \/ Delete
    \/ ReadRows \/ ActualizeNew \/ ActualizeChanged \/ ActualizeOutdated \/ ActualizeDeleted
    \/ \E n \in NodeIds : NodeStep(n) \/ Apply(n)

\* Builder, service and agents run for ever.
DeliveryFairness ==
    /\ WF_deliveryVars(BuildSet) /\ WF_deliveryVars(Service)
    /\ \A n \in NodeIds : WF_deliveryVars(NodeStep(n)) /\ WF_deliveryVars(Apply(n))

DeliverySpec == DeliveryInit /\ [][DeliveryNext]_deliveryVars /\ DeliveryFairness

-----------------------------------------------------------------------------
\* An active item was applied, in its current version, by a node, and a resource that is
\* active is held by its node as it is: a report about an earlier version makes neither
\* active (_actualize_outdated_config, _actualize_outdated_ssh_key).
ActiveMeansReached ==
    LET reached == {n \in NodeIds : host[n] # Void /\ host[n].status = "ACTIVE"}
    IN  Made(item) /\ item.status = "ACTIVE" =>
           /\ \E n \in reached : host[n].version = item.version
           /\ \A n \in reached \intersect Alive : held[n] = host[n].version

\* In the end the set has as many nodes as it should, all active, and so is the set; nodes
\* hold the version of the item that its row has, or nothing if their resources have gone;
\* and an item that some node holds is active, unless a node that has left had a resource.
DeliveryConverges ==
    LET rolledOut == {n \in NodeIds : host[n] # Void}
    IN  <>[](/\ Alive = set.nodes /\ Cardinality(Alive) = set.replicas
             /\ set.status = "ACTIVE"
             /\ \A n \in Alive : held[n] = (IF item = Void \/ host[n] = Void THEN 0
                                            ELSE item.version)
             /\ Made(item) /\ rolledOut # {} /\ rolledOut \subseteq Alive
                   => item.status = "ACTIVE")

\* Only a request removes an item: while its set has no node yet, it waits
\* (_actualize_new_config, _actualize_new_ssh_key).
ItemWaits == [][Made(item) /\ item' = Void => read' = read]_deliveryVars
=============================================================================
