--------------------------- MODULE MCNodeLifecycle ---------------------------
(* TLC instances of NodeLifecycle. *)
EXTENDS NodeLifecycle, TLC

CONSTANTS a, b, ua, ub, w1, w2

MCImages == {a, b}
MCUris == {ua, ub}
MCResolve == (a :> ua) @@ (b :> ub)
WorkerSymmetry == Permutations({w1, w2})

Scenario(core, client, power, image, fault) ==
    [core |-> core, client |-> client, power |-> power, image |-> image,
     fault |-> fault]

(* Clients that never wait, everything else going wrong once. *)
AnyScenarios == {Scenario(c, "any", 2, 1, 1) : c \in BOOLEAN}

(* Clients that wait for ACTIVE: power actions with an image update, on an *)
(* ordinary and on a core machine, and power actions with faults.          *)
SettledScenarios ==
    {Scenario(FALSE, "settled", 2, 1, 0), Scenario(TRUE, "settled", 2, 1, 0),
     Scenario(FALSE, "settled", 2, 0, 2)}

(* One power action as soon as the node's target resource exists. *)
NewScenarios == {Scenario(FALSE, "created", 1, 0, 0)}
=============================================================================
