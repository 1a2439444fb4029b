------------------------------- MODULE Leases -------------------------------
(***************************************************************************)
(* What the network service promises: a node gets an address that no other *)
(* node holds and keeps it until it is deleted.                            *)
(***************************************************************************)
CONSTANTS Holders, Addresses, Free

VARIABLE lease

LeasesInit == lease = [h \in Holders |-> Free]

\* Nodes that have no address get one, several at once.
Assign ==
    /\ lease' \in [Holders -> Addresses \union {Free}]
    /\ \A h \in Holders : lease[h] # Free => lease'[h] = lease[h]
    /\ \A h, g \in Holders : h # g /\ lease'[h] # Free => lease'[h] # lease'[g]

Release(h) == lease' = [lease EXCEPT ![h] = Free]

LeasesNext == Assign \/ \E h \in Holders : Release(h)

LeasesSpec == LeasesInit /\ [][LeasesNext]_lease
=============================================================================
