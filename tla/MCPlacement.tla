----------------------------- MODULE MCPlacement -----------------------------
(* TLC instances of Placement. *)
EXTENDS Placement, TLC

CONSTANTS n1, n2, p1, p2, v1, v2, v3, s1, s2, durable, ephemeral

MCNeed == (n1 :> 1) @@ (n2 :> 1)

(* Two nodes that keep apart and two spare volumes, one of which has the   *)
(* wrong policy.  The volumes of n1 do not both fit into p1, so placing n1 *)
(* there fails after one has its place, possibly on a spare.  Both nodes   *)
(* fit into p2 in the first layout; in the second they do not, and stale   *)
(* reports overcommit the pool.                                            *)
PairCap   == (p1 :> 2) @@ (p2 :> 2)
PairSize  == (v1 :> 1) @@ (v2 :> 2) @@ (v3 :> 2) @@ (s1 :> 1) @@ (s2 :> 1)
PairClass == [i \in {v1, v2, v3, s1} |-> durable] @@ (s2 :> ephemeral)
PairDisks == {(p1 :> ((durable :> 2) @@ (ephemeral :> 2)))
              @@ (p2 :> ((durable :> d) @@ (ephemeral :> 0))) : d \in {5, 4}}
PairHome  == (s1 :> p1) @@ (s2 :> p1)
PairOwner == (v1 :> n1) @@ (v3 :> n1) @@ (v2 :> n2)

(* Two nodes that keep apart where there is one pool.  Users detach the    *)
(* volume of one of them and attach it again.                              *)
OnePoolCap   == p1 :> 2
OnePoolSize  == (v1 :> 1) @@ (v2 :> 1)
OnePoolClass == [i \in {v1, v2} |-> durable]
OnePoolDisks == {p1 :> (durable :> 2)}
OnePoolOwner == (v1 :> n1) @@ (v2 :> n2)
OnePoolAttachable == {<<v1, n1>>}

(* Two nodes, each of which fills a pool. *)
TightCap   == (p1 :> 1) @@ (p2 :> 1)
TightSize  == (v1 :> 1) @@ (v2 :> 1)
TightClass == [i \in {v1, v2} |-> durable]
TightDisks == {(p1 :> (durable :> 2)) @@ (p2 :> (durable :> 2))}
TightOwner == (v1 :> n1) @@ (v2 :> n2)

NoSpares == [i \in {} |-> p1]
=============================================================================
