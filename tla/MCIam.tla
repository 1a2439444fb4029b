------------------------------- MODULE MCIam -------------------------------
(***************************************************************************)
(* IAM for TLC: tokens and accounts share no row that either decides on    *)
(* (removing a user takes the tokens, see DeleteOwner), so a behaviour is  *)
(* one of the two.                                                         *)
(***************************************************************************)
EXTENDS Tokens, Accounts

VARIABLE part

mcVars == <<tokensVars, accountsVars, part>>

MCInit ==
    /\ TokensInit /\ AccountsInit
    /\ part \in {"tokens", "accounts"}
    /\ part = "tokens" => ~ overlap
    /\ part = "accounts" => requests.managed = 0

MCNext ==
    \/ part = "tokens" /\ TokensNext /\ UNCHANGED <<accountsVars, part>>
    \/ part = "accounts" /\ AccountsNext /\ UNCHANGED <<tokensVars, part>>

MCFairness == part = "accounts" => AccountsFairness

MCSpec == MCInit /\ [][MCNext]_mcVars /\ MCFairness

MCBudgets ==
    {[session |-> 5, managed |-> 0, ticks |-> 3, keys |-> 1],
     [session |-> 0, managed |-> 3, ticks |-> 5, keys |-> 0]}

\* Every variable of the two modules has its type.
IamTypeOK == TokensTypeOK /\ AccountsTypeOK
=============================================================================
