-------------------------------- MODULE Ipam --------------------------------
(***************************************************************************)
(* Address management of the network service (network/ipam.py): the free   *)
(* addresses of a subnet as a list of intervals <<first, last>>.           *)
(***************************************************************************)
EXTENDS Integers, Sequences, FiniteSets, SequencesExt

\* The addresses in the intervals.
FreeAddresses(pool) == UNION {pool[i][1] .. pool[i][2] : i \in DOMAIN pool}

\* Intervals are not empty, in ascending order and apart.
WellFormed(pool) ==
    /\ \A i \in DOMAIN pool : pool[i][1] <= pool[i][2]
    /\ \A i, j \in DOMAIN pool : i < j => pool[i][2] < pool[j][1]

OccupyIpShort(a, pool) ==
    LET i == SelectInSeq(pool, LAMBDA r : a \in r[1] .. r[2])
        s == pool[i][1]
        e == pool[i][2]
    IN  IF i = 0 THEN pool
        ELSE IF s = e THEN RemoveAt(pool, i)
        ELSE IF a = s THEN ReplaceAt(pool, i, <<s + 1, e>>)
        ELSE IF a = e THEN ReplaceAt(pool, i, <<s, e - 1>>)
        ELSE InsertAt(ReplaceAt(pool, i, <<s, a>>), i + 1, <<a + 1, e>>)

\* An address that is not in the pool is logged and changes nothing.
OccupyIp(a, pool) ==
    LET i == SelectInSeq(pool, LAMBDA r : a \in r[1] .. r[2])
        s == pool[i][1]
        e == pool[i][2]
    IN  IF i = 0 THEN pool
        ELSE IF s = e THEN RemoveAt(pool, i)
        ELSE IF a = s THEN ReplaceAt(pool, i, <<s + 1, e>>)
        ELSE IF a = e THEN ReplaceAt(pool, i, <<s, e - 1>>)
        ELSE InsertAt(ReplaceAt(pool, i, <<s, a - 1>>), i + 1, <<a + 1, e>>)

\* Addresses of the discovery range are not in the range of the subnet: skipped.
CalculatePool(first, last, taken) ==
    FoldSet(OccupyIp, <<<<first, last>>>>, taken)

\* The pool is not empty. Without a target the first free address is taken; a target is
\* the answer whether it was free or not.
AllocateIp(pool, target, none) ==
    LET ip == IF target # none THEN target ELSE pool[1][1]
    IN  [ip |-> ip, pool |-> OccupyIp(ip, pool)]

\* The first interval that the address lies below, touches or is strictly inside of
\* decides; only the interval to the right is merged.
DeallocateIp(a, pool) ==
    LET i == SelectInSeq(pool, LAMBDA r : a < r[1] \/ a = r[2] + 1 \/ (r[1] < a /\ a < r[2]))
        s == pool[i][1]
        e == pool[i][2]
    IN  IF i = 0 THEN Append(pool, <<a, a>>)
        ELSE IF a < s - 1 THEN InsertAt(pool, i, <<a, a>>)
        ELSE IF a = s - 1 THEN ReplaceAt(pool, i, <<a, e>>)
        ELSE IF a # e + 1 THEN pool
        ELSE IF i < Len(pool) /\ pool[i + 1][1] = a + 1
             THEN RemoveAt(ReplaceAt(pool, i, <<s, pool[i + 1][2]>>), i + 1)
        ELSE ReplaceAt(pool, i, <<s, a>>)
=============================================================================
