----------------------------- MODULE MCNetwork ------------------------------
(***************************************************************************)
(* The network for TLC: ports and DHCP of nodes, and a load balancer or a  *)
(* border. Each behaviour exercises one of the two.                        *)
(***************************************************************************)
EXTENDS Network, LoadBalancer

VARIABLE part       \* which of the two this behaviour is about

mcVars == <<networkVars, lbVars, part>>

MCTargets == {None, 2}

MCListens == [protocol : {"http", "tcp"}, port : {80}]

MCInit ==
    /\ part \in {"ports", "balancer"}
    /\ NetworkInit /\ LbInit
    /\ part = "ports" => lb.what = "border" /\ lb.kind = "core"
    /\ part = "balancer" => reserved = FirstIp .. (LastIp - Room)

MCNext ==
    /\ UNCHANGED part
    /\ \/ part = "ports" /\ NetworkNext /\ UNCHANGED lbVars
       \/ part = "balancer" /\ LbNext /\ UNCHANGED networkVars

MCFairness ==
    \/ part = "ports" /\ NetworkFairness
    \/ part = "balancer" /\ LbFairness

MCSpec == MCInit /\ [][MCNext]_mcVars /\ MCFairness

\* NetworkConverges, of the behaviours that are about ports: in the end nodes, rows of ports
\* and DHCP agree (NetworkService, FlatBridgeNetworkDriver).
PortsConverge == part = "ports" => NetworkConverges

\* LbConverges, of the behaviours that are about a balancer or a border: in the end agents
\* serve what the tables say, and it is active (LBBuilder, BorderBuilder).
BalancerConverges == part = "balancer" => LbConverges
=============================================================================
