----------------------------- MODULE MCServices -----------------------------
(***************************************************************************)
(* The services that share nothing but the loop of the general service,    *)
(* and the bootstrap, for TLC. Each behaviour exercises one of them and    *)
(* leaves the others where they start.                                     *)
(***************************************************************************)
EXTENDS Delivery, Secrets, DnsMirror, Bootstrap

VARIABLE part       \* which of them this behaviour is about

mcVars == <<deliveryVars, secretVars, mirrorVars, bootVars, part>>

MCInit ==
    /\ part \in {"delivery", "secrets", "mirror", "bootstrap"}
    /\ DeliveryInit /\ SecretsInit /\ MirrorInit /\ BootstrapInit
    /\ part # "delivery" => set.replicas = 1
    /\ part # "secrets" => kind = "secret" /\ row.value = Nil /\ row.default = Nil
    /\ part # "mirror" => modern /\ ~ zone.there
    /\ part # "bootstrap" => there = {}

MCNext ==
    /\ UNCHANGED part
    /\ \/ part = "delivery" /\ DeliveryNext /\ UNCHANGED <<secretVars, mirrorVars, bootVars>>
       \/ part = "secrets" /\ SecretsNext /\ UNCHANGED <<deliveryVars, mirrorVars, bootVars>>
       \/ part = "mirror" /\ MirrorNext /\ UNCHANGED <<deliveryVars, secretVars, bootVars>>
       \/ part = "bootstrap" /\ BootstrapNext
             /\ UNCHANGED <<deliveryVars, secretVars, mirrorVars>>

MCFairness ==
    \/ part = "delivery" /\ DeliveryFairness
    \/ part = "secrets" /\ SecretsFairness
    \/ part = "mirror" /\ MirrorFairness
    \/ part = "bootstrap" /\ BootstrapFairness

MCSpec == MCInit /\ [][MCNext]_mcVars /\ MCFairness

\* What must happen is asked of the behaviours that are about it. DeliveryConverges: the
\* node set, its config and the statuses settle (actualize_infra, ConfigServiceBuilder).
RolloutConverges == part = "delivery" => DeliveryConverges

\* SecretsConverge: the agent keeps what was asked for last (builders and backend clients).
StoreConverges == part = "secrets" => SecretsConverge

\* MirrorConverges: records of the realm are upstream as they are here (_sync_all_domains).
RecordsConverge == part = "mirror" => MirrorConverges

\* BootstrapEnds: the script gets through (main).
ScriptEnds == part = "bootstrap" => BootstrapEnds
=============================================================================
