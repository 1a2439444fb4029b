---------------------------- MODULE LoadBalancer ----------------------------
(***************************************************************************)
(* A load balancer, or a border: the tables that the network API edits     *)
(* (user_api/network/dm/models.py), the builder that keeps machines for it *)
(* (network/lb/builders/iaas.py), the one that tells agents what to serve  *)
(* (network/lb/builders/paas.py), and the agents. Both builders write the  *)
(* same row, and so wake each other. A border is built alike from fewer    *)
(* parts (network/border); its rules stand for its tables.                 *)
(*                                                                         *)
(* A request that validates against other rows is two actions: nothing     *)
(* locks what it has looked at.                                            *)
(***************************************************************************)
EXTENDS Integers, FiniteSets

CONSTANTS
    NoRow,
    Vhosts, Routes, Pools,  \* ids of rows
    Listens,                \* protocols and ports that clients ask for
    MaxSize,                \* bound: machines of a balancer
    Requesters,             \* workers of the user API
    MaxOrders,              \* bound: requests, and reports of errors
    Unlocked,               \* may requests overlap that validate what the other writes?
    ToCore                  \* may a balancer without machines be given some?

ASSUME BalancerAssumption ==
    /\ MaxSize \in Nat \ {0} /\ MaxOrders \in Nat
    /\ Unlocked \in BOOLEAN /\ ToCore \in BOOLEAN
    /\ Listens \subseteq [protocol : {"http", "https", "tcp", "udp"}, port : Nat]

VARIABLES
    lb,         \* row of net_lb or net_border
    vhost, route, pool, rules,  \* its tables; numbers stand for what pools and rules say
    wake,       \* builders for which the row or a report is new
    infra,      \* target node set, and what its agent reports
    plan,       \* what the second builder has read of vhosts
    told,       \* target resources of agents
    serves,     \* what agents serve, and report
    order,      \* requests that have validated
    orders      \* requests and errors so far

tables == <<vhost, route, pool, rules>>

lbVars == <<lb, vhost, route, pool, rules, wake, infra, plan, told, serves, order, orders>>

Machines == 1 .. MaxSize

\* The agent of the core, those of machines, and the one of an external node.
CoreAgent == 0

ExternalNode == MaxSize + 1

Agents == CoreAgent .. ExternalNode

Kinds == {"core", "core_agent", "external_node"}

Protocols == {"http", "https", "tcp", "udp"}

LbRows ==
    [what : {"lb", "border"}, kind : Kinds, size : Machines, ips : SUBSET Machines,
     status : {"NEW", "IN_PROGRESS", "ACTIVE", "ERROR"}]

VhostRows == [protocol : Protocols, port : Nat]

RouteRows == [vhost : Vhosts, pool : Pools, writable : BOOLEAN]

PoolRows == 0 .. MaxOrders

\* What an agent is to serve.
Contents ==
    [vhosts : [Vhosts -> VhostRows \union {NoRow}], routes : [Routes -> RouteRows \union {NoRow}],
     pools : [Pools -> PoolRows \union {NoRow}], rules : 0 .. MaxOrders]

OrderRows ==
    [op : {"vhost"}, id : Vhosts, row : VhostRows, new : BOOLEAN]
    \union [op : {"route"}, id : Routes, row : RouteRows]
    \union [op : {"pool"}, id : Pools]
    \union [op : {"type"}, kind : Kinds, size : Machines]

\* A row that is not there is told from those that are.
ASSUME NoRowAssumption ==
    NoRow \notin Nat \union LbRows \union VhostRows \union RouteRows \union OrderRows

LbTypeOK ==
    /\ lb \in LbRows \union {NoRow}
    /\ vhost \in [Vhosts -> VhostRows \union {NoRow}]
    /\ route \in [Routes -> RouteRows \union {NoRow}]
    /\ pool \in [Pools -> PoolRows \union {NoRow}]
    /\ rules \in 0 .. MaxOrders
    /\ wake \subseteq {"iaas", "paas"}
    /\ infra \in [made : BOOLEAN, target : 0 .. MaxSize,
                  report : [nodes : SUBSET Machines, status : {"IN_PROGRESS", "ACTIVE"}]
                           \union {NoRow}]
    /\ plan \in Contents \union {NoRow}
    /\ told \in [Agents -> Contents \union {NoRow}]
    /\ serves \in [Agents -> [content : Contents, status : {"ACTIVE", "ERROR"}] \union {NoRow}]
    /\ order \in [Requesters -> OrderRows \union {NoRow}]
    /\ orders \in 0 .. MaxOrders

\* Clients may have made a vhost before the builders see the balancer.
LbInit ==
    /\ lb \in [what : {"lb", "border"}, kind : Kinds, size : Machines, ips : {{}}, status : {"NEW"}]
    /\ lb.what = "border" \/ lb.kind # "core" => lb.size = 1
    /\ \E row \in Listens \union {NoRow} :
          vhost = [h \in Vhosts |-> IF h = (CHOOSE g \in Vhosts : TRUE) /\ lb.what = "lb"
                                    THEN row ELSE NoRow]
    /\ route = [r \in Routes |-> NoRow]
    /\ pool = [p \in Pools |-> IF lb.what = "lb" THEN 0 ELSE NoRow]
    /\ rules = 0
    /\ wake = {"iaas", "paas"}
    /\ infra = [made |-> FALSE, target |-> 0, report |-> NoRow]
    /\ plan = NoRow
    /\ told = [a \in Agents |-> NoRow]
    /\ serves = [a \in Agents |-> NoRow]
    /\ order = [w \in Requesters |-> NoRow]
    /\ orders = 0

-----------------------------------------------------------------------------
\* What a request may find wrong.

\* PROTOCOL_CONFLICT_MAPPING
ConflictMapping ==
    [http |-> {"https", "tcp"}, https |-> {"http", "tcp"}, tcp |-> {"http", "https", "tcp"},
     udp |-> {"udp"}]

Conflicts(h, row) ==
    {g \in Vhosts \ {h} : /\ vhost[g] # NoRow /\ vhost[g].port = row.port
                          /\ vhost[g].protocol \in ConflictMapping[row.protocol]}

\* A writable directory needs a balancer of its own, on one machine.
WritableDirError(kind, size) == kind = "core_agent" \/ (kind = "core" /\ size > 1)

WritableRoutes == {r \in Routes : route[r] # NoRow /\ route[r].writable}

\* Raw routes are for TCP and UDP, and write nothing.
RouteValid(row) ==
    /\ vhost[row.vhost] # NoRow /\ pool[row.pool] # NoRow
    /\ row.writable => /\ vhost[row.vhost].protocol \in {"http", "https"}
                       /\ ~ WritableDirError(lb.kind, lb.size)

PoolUnused(p) == \A r \in Routes : route[r] # NoRow => route[r].pool # p

\* Does one of two requests validate against what the other writes?
Clash(c, d) ==
    \/ c.op = d.op /\ (c.op \in {"vhost", "type"} \/ c.id = d.id)
    \/ c.op = "route" /\ d.op = "pool" /\ c.row.pool = d.id
    \/ c.op = "route" /\ d.op = "type" /\ c.row.writable

-----------------------------------------------------------------------------
\* Requests.

\* Requests that come while a builder reads are lost on it, unless they wait.
Order ==
    /\ lb # NoRow /\ (Unlocked \/ plan = NoRow)
    /\ orders < MaxOrders /\ orders' = orders + 1

\* A child touches its parent, whose row is new for both builders.
TouchParent == wake' = {"iaas", "paas"}

Submit(w, o) ==
    /\ Order /\ lb.what = "lb"
    /\ order[w] = NoRow
    /\ Unlocked \/ \A x \in Requesters :
          order[x] # NoRow => ~ Clash(o, order[x]) /\ ~ Clash(order[x], o)
    /\ order' = [order EXCEPT ![w] = o]
    /\ UNCHANGED <<lb, vhost, route, pool, rules, wake, infra, plan, told, serves>>

\* A new vhost, or another port for one; its protocol stays.
SubmitVhost(w, h, row) ==
    /\ vhost[h] # NoRow => row.protocol = vhost[h].protocol /\ row.port # vhost[h].port
    /\ Conflicts(h, row) = {}
    /\ Submit(w, [op |-> "vhost", id |-> h, row |-> row, new |-> vhost[h] = NoRow])

SubmitRoute(w, r, row) ==
    /\ route[r] = NoRow /\ RouteValid(row)
    /\ Submit(w, [op |-> "route", id |-> r, row |-> row])

SubmitPoolDelete(w, p) ==
    /\ pool[p] # NoRow /\ PoolUnused(p)
    /\ Submit(w, [op |-> "pool", id |-> p])

TypeValidAlways(kind, size) == TRUE

TypeValid(kind, size) == WritableDirError(kind, size) => WritableRoutes = {}

SubmitType(w, kind, size) ==
    /\ lb # NoRow /\ <<kind, size>> # <<lb.kind, lb.size>>
    /\ kind # "core" => size = lb.size
    /\ ToCore \/ kind = lb.kind \/ kind # "core"
    /\ TypeValid(kind, size)
    /\ Submit(w, [op |-> "type", kind |-> kind, size |-> size])

\* Foreign keys undo a request whose vhost has gone, and rows that have gone one that
\* updates or deletes them; no key leads from routes to pools.
Write(w) ==
    LET o == order[w] IN
    /\ o # NoRow /\ (Unlocked \/ plan = NoRow)
    /\ order' = [order EXCEPT ![w] = NoRow]
    /\ IF \/ lb = NoRow
          \/ o.op = "route" /\ vhost[o.row.vhost] = NoRow
          \/ o.op = "vhost" /\ ~ o.new /\ vhost[o.id] = NoRow
       THEN UNCHANGED <<lb, vhost, route, pool, wake>>
       ELSE /\ vhost' = IF o.op = "vhost" THEN [vhost EXCEPT ![o.id] = o.row] ELSE vhost
            /\ route' = IF o.op = "route" THEN [route EXCEPT ![o.id] = o.row] ELSE route
            /\ pool' = IF o.op = "pool" THEN [pool EXCEPT ![o.id] = NoRow] ELSE pool
            /\ lb' = IF o.op = "type" THEN [lb EXCEPT !.kind = o.kind, !.size = o.size] ELSE lb
            /\ TouchParent
    /\ UNCHANGED <<rules, infra, plan, told, serves, orders>>

WithoutRoutes(h) == [r \in Routes |-> IF route[r] # NoRow /\ route[r].vhost = h THEN NoRow ELSE route[r]]

DeleteVhost(h) ==
    /\ Order /\ vhost[h] # NoRow
    /\ vhost' = [vhost EXCEPT ![h] = NoRow]
    /\ route' = WithoutRoutes(h)
    /\ TouchParent
    /\ UNCHANGED <<lb, pool, rules, infra, plan, told, serves, order>>

DeleteRoute(r) ==
    /\ Order /\ route[r] # NoRow
    /\ route' = [route EXCEPT ![r] = NoRow]
    /\ TouchParent
    /\ UNCHANGED <<lb, vhost, pool, rules, infra, plan, told, serves, order>>

EditPool(p) ==
    /\ Order /\ pool[p] # NoRow
    /\ pool' = [pool EXCEPT ![p] = orders + 1]
    /\ TouchParent
    /\ UNCHANGED <<lb, vhost, route, rules, infra, plan, told, serves, order>>

\* The inline rules of a border, its type, or the node it is pinned to.
EditBorder(kind) ==
    /\ Order /\ lb.what = "border"
    /\ ToCore \/ kind = lb.kind \/ kind # "core"
    /\ rules' = orders + 1
    /\ lb' = [lb EXCEPT !.kind = kind]
    /\ TouchParent
    /\ UNCHANGED <<vhost, route, pool, infra, plan, told, serves, order>>

\* Vhosts go first, and their routes with them, so that no pool is in use.
DeleteLb ==
    /\ Order /\ plan = NoRow
    /\ lb' = NoRow
    /\ vhost' = [h \in Vhosts |-> NoRow]
    /\ route' = [r \in Routes |-> NoRow]
    /\ pool' = [p \in Pools |-> NoRow]
    /\ wake' = {"iaas", "paas"}
    /\ UNCHANGED <<rules, infra, plan, told, serves, order>>

-----------------------------------------------------------------------------
\* The builder of machines.

SaveQuietly(row) == lb' = row /\ wake' = wake \ {"iaas"}

\* A builder that changes the row wakes the other one.
SaveIaas(row) == lb' = row /\ wake' = IF row = lb THEN wake \ {"iaas"} ELSE {"paas"}

\* Addresses are those of the nodes that the set reports.
Addresses(row) == IF infra.report # NoRow /\ infra.report.nodes # {} THEN infra.report.nodes ELSE row.ips

SetReported == IF infra.report = NoRow THEN "IN_PROGRESS" ELSE infra.report.status

\* A balancer takes the status of its node set; a border leaves it to the other builder.
ActualizedIaas ==
    IF lb.kind = "core"
    THEN [lb EXCEPT !.ips = Addresses(lb), !.status = IF lb.what = "lb" THEN SetReported ELSE @]
    ELSE IF lb.what = "lb" THEN [lb EXCEPT !.ips = {}] ELSE lb

\* What was created without a node set cannot be given one: actualize_infra raises.
BuildInfra ==
    /\ "iaas" \in wake /\ plan = NoRow
    /\ IF lb = NoRow
       THEN /\ infra' = [infra EXCEPT !.target = 0]
            /\ wake' = wake \ {"iaas"} /\ UNCHANGED lb
       ELSE IF ~ infra.made
       THEN /\ infra' = [infra EXCEPT !.made = TRUE, !.target = IF lb.kind = "core" THEN lb.size ELSE 0]
            /\ wake' = wake \ {"iaas"} /\ UNCHANGED lb
       ELSE /\ lb.kind = "core" => infra.target # 0
            /\ infra' = [infra EXCEPT !.target = IF lb.kind = "core" THEN lb.size ELSE 0]
            /\ SaveIaas(ActualizedIaas)
    /\ UNCHANGED <<tables, plan, told, serves, order, orders>>

\* The node set makes as many nodes as it should have, and reports twice: nodes, and that
\* they are active. What a node serves goes with it.
NodeSetReports ==
    /\ plan = NoRow
    /\ LET nodes == 1 .. infra.target IN
       /\ infra' = [infra EXCEPT !.report =
             IF infra.target = 0 THEN NoRow
             ELSE [nodes |-> nodes, status |-> IF @ # NoRow /\ @.nodes = nodes THEN "ACTIVE"
                                               ELSE "IN_PROGRESS"]]
       /\ infra' # infra
       /\ serves' = [a \in Agents |-> IF a \in Machines \ nodes THEN NoRow ELSE serves[a]]
    /\ wake' = IF lb = NoRow THEN wake ELSE wake \union {"iaas"}
    /\ UNCHANGED <<lb, tables, plan, told, order, orders>>

-----------------------------------------------------------------------------
\* The builder of what agents serve. Vhosts with their routes, and pools, are read apart.

\* A balancer on machines waits for the first report; a border has none to tell until then.
Placeable == lb.what = "lb" /\ lb.kind = "core" => infra.report # NoRow

Placement ==
    CASE lb.kind = "core" -> IF infra.report = NoRow THEN {} ELSE infra.report.nodes
      [] lb.kind = "external_node" -> {ExternalNode}
      [] lb.kind = "core_agent" -> {CoreAgent}

GetVhosts ==
    /\ "paas" \in wake /\ plan = NoRow
    /\ lb # NoRow /\ Placeable
    /\ plan' = [vhosts |-> vhost, routes |-> route, pools |-> pool, rules |-> rules]
    /\ UNCHANGED <<lb, tables, wake, infra, told, serves, order, orders>>

\* The status is that of what agents were told before, as they report it.
PaasStatus ==
    LET asked == {a \in Agents : told[a] # NoRow}
    IN  IF asked # {} /\ \A a \in asked : serves[a] # NoRow /\ serves[a].status = "ACTIVE"
        THEN "ACTIVE"
        ELSE IF \E a \in asked : serves[a] # NoRow /\ serves[a].status = "ERROR"
        THEN "ERROR" ELSE "IN_PROGRESS"

\* A resource made anew takes up the report there is already.
Reported == {a \in Placement : told[a] = NoRow /\ serves[a] # NoRow}

TellAgents ==
    /\ plan # NoRow
    /\ plan' = NoRow
    /\ told' = [a \in Agents |-> IF a \in Placement THEN [plan EXCEPT !.pools = pool] ELSE NoRow]
    /\ lb' = [lb EXCEPT !.status = PaasStatus]
    /\ wake' = (IF lb' = lb THEN wake ELSE wake \union {"iaas"})
               \ (IF Reported = {} THEN {"paas"} ELSE {})
    /\ UNCHANGED <<tables, infra, serves, order, orders>>

ForgetAgents ==
    /\ "paas" \in wake /\ lb = NoRow
    /\ told' = [a \in Agents |-> NoRow]
    /\ wake' = wake \ {"paas"}
    /\ UNCHANGED <<lb, tables, infra, plan, serves, order, orders>>

\* A report that comes while a builder reads is handled in its next iteration.
Report(a, report) ==
    /\ plan = NoRow
    /\ serves' = [serves EXCEPT ![a] = report]
    /\ wake' = IF told[a] = NoRow THEN wake ELSE wake \union {"paas"}
    /\ UNCHANGED <<lb, tables, infra, plan, told, order>>

\* Nodes of the set are there as long as the set has them.
Up(a) == a \in Machines => infra.report # NoRow /\ a \in infra.report.nodes

Serve(a) ==
    /\ Up(a)
    /\ LET report == IF told[a] = NoRow THEN NoRow ELSE [content |-> told[a], status |-> "ACTIVE"]
       IN  report # serves[a] /\ Report(a, report)
    /\ UNCHANGED orders

FailToServe(a) ==
    /\ Up(a) /\ told[a] # NoRow
    /\ orders < MaxOrders /\ orders' = orders + 1
    /\ Report(a, [content |-> told[a], status |-> "ERROR"])

\* An iteration with nothing to do.
LbIdle == wake = {} /\ plan = NoRow /\ UNCHANGED lbVars

Ordering ==
    \/ \E w \in Requesters, h \in Vhosts, row \in Listens : SubmitVhost(w, h, row)
    \/ \E w \in Requesters, r \in Routes, h \in Vhosts, p \in Pools, b \in BOOLEAN :
          SubmitRoute(w, r, [vhost |-> h, pool |-> p, writable |-> b])
    \/ \E w \in Requesters, p \in Pools : SubmitPoolDelete(w, p)
    \/ \E w \in Requesters, k \in Kinds, n \in Machines : SubmitType(w, k, n)
    \/ \E w \in Requesters : Write(w)

LbNext ==
    \/ Ordering
    \/ \E h \in Vhosts : DeleteVhost(h)
    \/ \E r \in Routes : DeleteRoute(r)
    \/ \E p \in Pools : EditPool(p)
    \/ \E k \in Kinds : EditBorder(k)
    \/ DeleteLb
    \/ BuildInfra \/ NodeSetReports \/ GetVhosts \/ TellAgents \/ ForgetAgents \/ LbIdle
    \/ \E a \in Agents : Serve(a) \/ FailToServe(a)

\* Builders, agents and requests run on; an iteration of a builder puts off the others,
\* and does not keep them from running.
LbFairness ==
    /\ WF_lbVars(BuildInfra) /\ SF_lbVars(NodeSetReports)
    /\ WF_lbVars(GetVhosts \/ TellAgents \/ ForgetAgents)
    /\ SF_lbVars(\E a \in Agents : Serve(a))
    /\ SF_lbVars(\E w \in Requesters : Write(w))

LbSpec == LbInit /\ [][LbNext]_lbVars /\ LbFairness

-----------------------------------------------------------------------------
\* Whatever was validated against other rows stays true: a route leads to a pool that is
\* there, no two vhosts fight for a port, and a writable directory is on a balancer of its
\* own with one machine (BackendPool.delete, Vhost._validate, Route._validate, LB.update).
BalancerSound ==
    /\ \A r \in Routes : route[r] # NoRow => vhost[route[r].vhost] # NoRow /\ pool[route[r].pool] # NoRow
    /\ \A g, h \in Vhosts : g # h /\ vhost[g] # NoRow /\ vhost[h] # NoRow /\ vhost[g].port = vhost[h].port
          => /\ {"tcp"} # {vhost[g].protocol, vhost[h].protocol}
             /\ {"udp"} # {vhost[g].protocol, vhost[h].protocol}
             /\ {vhost[g].protocol, vhost[h].protocol} \notin
                   {{"http", "https"}, {"http", "tcp"}, {"https", "tcp"}}
    /\ WritableRoutes # {} => lb.kind # "core_agent" /\ (lb.kind = "core" => lb.size = 1)

\* In the end just the agents that the balancer or the border is placed on serve, and what
\* they serve is what the tables say; it is active and has the addresses of its machines;
\* and a balancer without machines, or deleted, keeps none (LBBuilder, BorderBuilder).
LbConverges ==
    <>[](/\ \A a \in Agents :
              IF lb # NoRow /\ a \in Placement
              THEN serves[a] # NoRow /\ serves[a].content =
                   [vhosts |-> vhost, routes |-> route, pools |-> pool, rules |-> rules]
              ELSE serves[a] = NoRow
         /\ lb = NoRow => infra.report = NoRow
         /\ lb # NoRow =>
              /\ lb.status = "ACTIVE"
              /\ lb.kind = "core" => lb.ips = 1 .. lb.size /\ infra.report.nodes = lb.ips
              /\ lb.what = "lb" /\ lb.kind # "core" => lb.ips = {} /\ infra.report = NoRow)
=============================================================================
