------------------------------ MODULE IamProofs ------------------------------
(***************************************************************************)
(* Proofs about Tokens, for any sessions, managed tokens, authorization    *)
(* requests, workers, lifetimes and bounds, and about Accounts, for any    *)
(* users, organizations, projects, workers and bounds.                     *)
(***************************************************************************)
EXTENDS Tokens, Accounts, FiniteSetTheorems, TLAPS

USE TokensAssumption

-----------------------------------------------------------------------------
\* Every row has its type.

\* The renewal service has loaded the rows it is going to renew.
RenewalLoaded == renewal # None => \A m \in renewal.todo : renewal.row[m] # None

Budget == [session : Nat, managed : Nat, ticks : Nat, keys : Nat]

\* A request that is still allowed may be used up.
LEMMA Spending ==
    ASSUME requests \in Budget, NEW k \in {"session", "managed", "ticks", "keys"}, Request(k)
    PROVE  requests' \in Budget
<1>1. requests[k] \in Nat /\ requests[k] - 1 \in Nat
  BY DEF Budget, Request
<1>2. CASE k = "session" BY <1>1, <1>2 DEF Budget, Request
<1>3. CASE k = "managed" BY <1>1, <1>3 DEF Budget, Request
<1>4. CASE k = "ticks" BY <1>1, <1>4 DEF Budget, Request
<1>5. CASE k = "keys" BY <1>1, <1>5 DEF Budget, Request
<1>6. QED BY <1>2, <1>3, <1>4, <1>5

\* A new row, and the value that a row and the key in use give.
LEMMA RowsTyped ==
    ASSUME TokensTypeOK
    PROVE  /\ \A d \in Nat, a \in BOOLEAN : NewRow(d, a) \in TokenRows
           /\ \A t \in Ids, row \in TokenRows, n \in Nat : Signed(t, row, n) \in Values
           /\ \A t \in Ids : Kind(t) \in {"session", "managed"}
BY DEF TokensTypeOK, NewRow, TokenRows, Signed, Values, Kind

\* What a request writes keeps the type of the row.
LEMMA WrittenTyped ==
    ASSUME NEW row \in TokenRows, NEW c \in Calls,
           c.op \in {"refresh", "lifetime", "regenerate"}
    PROVE  /\ Written(row, c) \in TokenRows
           /\ c.exp \in Nat /\ c.delta \in Nat /\ c.gen \in Nat /\ c.id \in Ids /\ c.at \in Nat
           /\ Written(row, c).exp = c.exp
           /\ Written(row, c).rexp = row.rexp
           /\ Written(row, c).auto = row.auto
           /\ Written(row, c).gen = IF c.op = "regenerate" THEN c.gen ELSE row.gen
           /\ Written(row, c).delta = IF c.op = "lifetime" THEN c.delta ELSE row.delta
<1>1. c.exp \in Nat /\ c.delta \in Nat /\ c.gen \in Nat /\ c.id \in Ids /\ c.at \in Nat
  BY DEF Calls
<1>2. CASE c.op = "refresh" BY <1>1, <1>2 DEF Written, TokenRows
<1>3. CASE c.op = "lifetime" BY <1>1, <1>3 DEF Written, TokenRows
<1>4. CASE c.op = "regenerate" BY <1>1, <1>4 DEF Written, TokenRows
<1>5. QED BY <1>1, <1>2, <1>3, <1>4

\* Types hold at the start, when the renewal service has loaded nothing.
LEMMA InitTypeOK == TokensInit => TokensTypeOK /\ RenewalLoaded
BY DEF TokensInit, TokensTypeOK, RenewalLoaded

\* Beginning a request keeps every type, whatever it is going to write.
LEMMA BeginTyped ==
    ASSUME TokensTypeOK, NEW w \in Workers, NEW c \in Calls, c.id \in Ids, Begin(w, c)
    PROVE  TokensTypeOK'
<1>1. requests' \in Budget
  BY Spending, RowsTyped DEF Begin, TokensTypeOK, Budget
<1>2. call' \in [Workers -> Calls \union {None}]
  BY DEF Begin, TokensTypeOK
<1>3. QED BY <1>1, <1>2 DEF Begin, TokensTypeOK, Budget

\* The columns that a request on a row is going to write.
LEMMA WriteTyped ==
    ASSUME TokensTypeOK, NEW t \in Ids, NEW row \in TokenRows, NEW e \in Nat,
           NEW op \in {"refresh", "lifetime", "regenerate"}
    PROVE  Write(op, t, e, row) \in Calls /\ Write(op, t, e, row).id = t
BY DEF TokensTypeOK, Write, Calls, TokenRows

\* Every request, tick, rotation and step of the renewal service keeps the types.
LEMMA StepTypeOK ==
    TokensTypeOK /\ RenewalLoaded /\ [TokensNext]_tokensVars => TokensTypeOK'
<1> SUFFICES ASSUME TokensTypeOK, RenewalLoaded, [TokensNext]_tokensVars PROVE TokensTypeOK' OBVIOUS
<1>1. CASE UNCHANGED tokensVars
  BY <1>1 DEF tokensVars, TokensTypeOK
<1>2. CASE Tick
  <2>1. requests' \in Budget BY <1>2, Spending DEF Tick, TokensTypeOK, Budget
  <2>2. lag' \in Nat /\ now' \in Nat BY <1>2 DEF Tick, TokensTypeOK
  <2>3. QED BY <1>2, <2>1, <2>2 DEF Tick, TokensTypeOK, Budget
<1>3. ASSUME NEW t \in Ids, NEW row \in TokenRows, Insert(t, row)
      PROVE  /\ token' \in [Ids -> TokenRows \union {None}]
             /\ created' \subseteq Ids /\ values' \subseteq Values
  BY <1>3, RowsTyped DEF Insert, TokensTypeOK
<1>4. ASSUME NEW t \in Sessions, Login(t) PROVE TokensTypeOK'
  <2>1. requests' \in Budget BY <1>4, Spending DEF Login, TokensTypeOK, Budget
  <2>2. NewRow(Lifetime, FALSE) \in TokenRows /\ t \in Ids BY RowsTyped DEF Ids
  <2>3. QED BY <1>3, <1>4, <2>1, <2>2 DEF Login, TokensTypeOK, Budget
<1>5. ASSUME NEW m \in Managed, NEW d \in Lifetimes, NEW a \in BOOLEAN, IssueManaged(m, d, a)
      PROVE  TokensTypeOK'
  <2>1. requests' \in Budget BY <1>5, Spending DEF IssueManaged, TokensTypeOK, Budget
  <2>2. NewRow(d, a) \in TokenRows /\ m \in Ids BY RowsTyped DEF Ids
  <2>3. QED BY <1>3, <1>5, <2>1, <2>2 DEF IssueManaged, TokensTypeOK, Budget
<1>6. ASSUME NEW t \in Ids, Revoke(t) PROVE TokensTypeOK'
  <2>1. requests' \in Budget BY <1>6, Spending, RowsTyped DEF Revoke, TokensTypeOK, Budget
  <2>2. QED BY <1>6, <2>1 DEF Revoke, TokensTypeOK, Budget
<1>7. CASE DeleteOwner
  <2>1. requests' \in Budget BY <1>7, Spending DEF DeleteOwner, TokensTypeOK, Budget
  <2>2. QED BY <1>7, <2>1 DEF DeleteOwner, TokensTypeOK, Budget
<1>8. ASSUME NEW safe \in BOOLEAN, RotateKey(safe) PROVE TokensTypeOK'
  <2>1. requests' \in Budget BY <1>8, Spending DEF RotateKey, TokensTypeOK, Budget
  <2>2. key' \in [secret : Nat, previous : Nat \union {None}]
    BY <1>8 DEF RotateKey, TokensTypeOK
  <2>3. QED BY <1>8, <2>1, <2>2 DEF RotateKey, TokensTypeOK, Budget
<1>9. ASSUME NEW w \in Workers, NEW v \in values, BeginRefresh(w, v) PROVE TokensTypeOK'
  <2>1. v.id \in Ids /\ token[v.id] \in TokenRows
    BY <1>9 DEF BeginRefresh, CanRefresh, TokensTypeOK, Ids
  <2>2. now + token[v.id].delta \in Nat BY <2>1 DEF TokensTypeOK, TokenRows
  <2>3. QED BY <1>9, <2>1, <2>2, WriteTyped, BeginTyped DEF BeginRefresh
<1>10. ASSUME NEW w \in Workers, Finish(w) PROVE TokensTypeOK'
  <2> DEFINE c == call[w]
  <2> DEFINE new == Updated(c.id, c)
  <2>1. c \in Calls /\ c.op \in {"refresh", "lifetime", "regenerate"}
    BY <1>10 DEF Finish, TokensTypeOK
  <2>2. c.id \in Ids /\ c.exp \in Nat /\ c.gen \in Nat
    BY <2>1 DEF Calls
  <2>3. new \in TokenRows \union {None}
    BY <2>1, <2>2, WrittenTyped DEF Updated, TokensTypeOK
  <2>4. regens' \in [Managed -> Nat]
    <3>1. CASE regens' = regens BY <3>1 DEF TokensTypeOK
    <3>2. CASE regens' = [regens EXCEPT ![c.id] = @ + 1] /\ c.id \in Managed
      <4>1. regens[c.id] + 1 \in Nat BY <3>2 DEF TokensTypeOK
      <4> HIDE DEF c
      <4>2. QED BY <3>2, <4>1 DEF TokensTypeOK
    <3>3. CASE regens' = [regens EXCEPT ![c.id] = @ + 1] /\ c.id \notin Managed
      <4> HIDE DEF c
      <4>1. QED BY <3>3 DEF TokensTypeOK
    <3>4. QED BY <1>10, <3>1, <3>2, <3>3 DEF Finish
  <2>5. values' \subseteq Values
    <3> DEFINE s == IF c.id \in Managed THEN regens'[c.id] ELSE 0
    <3>1. s \in Nat BY <2>4
    <3>2. Signed(c.id, c, s) \in Values
      BY <2>2, <3>1 DEF Signed, Values, TokensTypeOK
    <3>3. values' \subseteq values \union {Signed(c.id, c, s)}
      BY <1>10 DEF Finish
    <3> HIDE DEF s
    <3>4. QED BY <3>2, <3>3 DEF TokensTypeOK
  <2>6. token' \in [Ids -> TokenRows \union {None}]
    BY <1>10, <2>2, <2>3 DEF Finish, TokensTypeOK
  <2>7. call' \in [Workers -> Calls \union {None}]
    BY <1>10 DEF Finish, TokensTypeOK
  <2> HIDE DEF c, new
  <2>8. QED BY <1>10, <2>4, <2>5, <2>6, <2>7 DEF Finish, TokensTypeOK
<1>11. ASSUME NEW m \in Managed, RenderManaged(m) PROVE TokensTypeOK'
  <2>1. requests' \in Budget BY <1>11, Spending DEF RenderManaged, TokensTypeOK, Budget
  <2>2. token[m] \in TokenRows /\ m \in Ids /\ regens[m] \in Nat
    BY <1>11 DEF RenderManaged, TokensTypeOK, Ids
  <2>3. values' \subseteq Values
    BY <1>11, <2>2, RowsTyped DEF RenderManaged, TokensTypeOK
  <2>4. QED BY <1>11, <2>1, <2>3 DEF RenderManaged, TokensTypeOK, Budget
<1>12. ASSUME NEW w \in Workers, NEW m \in Managed, BeginRegenerate(w, m) PROVE TokensTypeOK'
  <2>1. m \in Ids /\ token[m] \in TokenRows
    BY <1>12 DEF BeginRegenerate, TokensTypeOK, Ids
  <2>2. now + token[m].delta \in Nat /\ [token[m] EXCEPT !.gen = token[m].gen + 1] \in TokenRows
    BY <2>1 DEF TokensTypeOK, TokenRows
  <2>3. QED BY <1>12, <2>1, <2>2, WriteTyped, BeginTyped DEF BeginRegenerate
<1>13. ASSUME NEW w \in Workers, NEW m \in Managed, NEW d \in Lifetimes, BeginUpdate(w, m, d)
       PROVE  TokensTypeOK'
  <2>1. m \in Ids /\ token[m] \in TokenRows
    BY <1>13 DEF BeginUpdate, TokensTypeOK, Ids
  <2>2. now + d \in Nat /\ [token[m] EXCEPT !.delta = d] \in TokenRows
    BY <2>1 DEF TokensTypeOK, TokenRows
  <2>3. QED BY <1>13, <2>1, <2>2, WriteTyped, BeginTyped DEF BeginUpdate
<1>14. ASSUME NEW g \in Grants, NEW p \in BOOLEAN, Authorize(g, p) PROVE TokensTypeOK'
  <2>1. requests' \in Budget BY <1>14, Spending DEF Authorize, TokensTypeOK, Budget
  <2>2. grant' \in [Grants -> GrantRows \union {None}]
    BY <1>14 DEF Authorize, TokensTypeOK, GrantRows
  <2>3. QED BY <1>14, <2>1, <2>2 DEF Authorize, TokensTypeOK, Budget
<1>15. ASSUME NEW w \in Workers, NEW g \in Grants, BeginExchange(w, g) PROVE TokensTypeOK'
  <2> DEFINE c == [op |-> "exchange", grant |-> g, id |-> grant[g].token, at |-> now]
  <2>1. c \in Calls /\ c.id \in Ids
    BY <1>15 DEF BeginExchange, TokensTypeOK, GrantRows, Calls, Ids
  <2>2. Begin(w, c) BY <1>15 DEF BeginExchange
  <2> HIDE DEF c
  <2>3. QED BY <2>1, <2>2, BeginTyped
<1>16. ASSUME NEW w \in Workers, NEW g \in Grants, NEW v \in values, NEW t \in Sessions,
              BeginConfirm(w, g, v, t)
       PROVE  TokensTypeOK'
  <2> DEFINE c == [op |-> "confirm", grant |-> g, id |-> t, at |-> now]
  <2>1. c \in Calls /\ c.id \in Ids
    BY <1>16 DEF BeginConfirm, TokensTypeOK, Calls, Ids
  <2>2. Begin(w, c) BY <1>16 DEF BeginConfirm
  <2> HIDE DEF c
  <2>3. QED BY <2>1, <2>2, BeginTyped
<1>17. ASSUME NEW w \in Workers, FinishConfirm(w) PROVE TokensTypeOK'
  <2>1. /\ call[w].grant \in Grants /\ call[w].id \in Sessions /\ call[w].id \in Ids
    BY <1>17 DEF FinishConfirm, TokensTypeOK, Calls, Ids
  <2>2. call' \in [Workers -> Calls \union {None}] BY <1>17 DEF FinishConfirm, TokensTypeOK
  <2>3. CASE UNCHANGED <<token, created, grant>>
    BY <1>17, <2>2, <2>3 DEF FinishConfirm, TokensTypeOK
  <2>4. CASE ~ (grant[call[w].grant] = None \/ call[w].id \in created)
    <3>1. NewRow(Lifetime, FALSE) \in TokenRows BY RowsTyped
    <3>2. token' \in [Ids -> TokenRows \union {None}] /\ created' \subseteq Ids
      <4>1. /\ token' = [token EXCEPT ![call[w].id] = NewRow(Lifetime, FALSE)]
            /\ created' = created \union {call[w].id}
        BY <1>17, <2>4 DEF FinishConfirm
      <4>2. QED BY <2>1, <3>1, <4>1 DEF TokensTypeOK
    <3>3. grant[call[w].grant] \in GrantRows BY <2>1, <2>4 DEF TokensTypeOK
    <3>4. [grant[call[w].grant] EXCEPT !.token = call[w].id] \in GrantRows
      BY <2>1, <3>3 DEF GrantRows
    <3>5. grant' = [grant EXCEPT ![call[w].grant] =
                      [grant[call[w].grant] EXCEPT !.token = call[w].id]]
      BY <1>17, <2>4 DEF FinishConfirm
    <3>6. grant' \in [Grants -> GrantRows \union {None}]
      BY <2>1, <3>4, <3>5 DEF TokensTypeOK
    <3>7. QED BY <1>17, <2>2, <3>2, <3>6 DEF FinishConfirm, TokensTypeOK
  <2>5. QED BY <1>17, <2>3, <2>4 DEF FinishConfirm
<1>18. ASSUME NEW w \in Workers, FinishExchange(w) PROVE TokensTypeOK'
  <2>1. /\ call[w].grant \in Grants /\ call[w].id \in Ids
    BY <1>18 DEF FinishExchange, TokensTypeOK, Calls, Ids
  <2>2. call' \in [Workers -> Calls \union {None}] BY <1>18 DEF FinishExchange, TokensTypeOK
  <2>3. grant' \in [Grants -> GrantRows \union {None}] /\ redeemed' \in [Grants -> Nat]
    BY <1>18, <2>1 DEF FinishExchange, TokensTypeOK
  <2>4. values' \subseteq Values
    BY <1>18, <2>1, RowsTyped DEF FinishExchange, TokensTypeOK
  <2>5. QED BY <1>18, <2>2, <2>3, <2>4 DEF FinishExchange, TokensTypeOK
<1>19. CASE StartRenewal
  BY <1>19 DEF StartRenewal, Standing, TokensTypeOK, Ids
<1>20. ASSUME NEW m \in Managed, RenewToken(m) PROVE TokensTypeOK'
  <2>1. renewal' \in [at : Nat, todo : SUBSET Managed, row : [Managed -> TokenRows \union {None}]]
    BY <1>20 DEF RenewToken, TokensTypeOK
  <2>2. token' \in [Ids -> TokenRows \union {None}]
    <3>1. CASE token' = token BY <3>1 DEF TokensTypeOK
    <3>2. CASE /\ NeedsRenewal(renewal.row[m], renewal.at) /\ token[m] # None
      <4>1. renewal.row[m] \in TokenRows /\ renewal.at \in Nat
        BY <1>20 DEF RenewToken, RenewalLoaded, TokensTypeOK
      <4>2. token[m] \in TokenRows /\ m \in Ids BY <3>2 DEF TokensTypeOK, Ids
      <4>3. [token[m] EXCEPT !.exp = renewal.at + renewal.row[m].delta] \in TokenRows
        BY <4>1, <4>2 DEF TokenRows
      <4>4. token' = [token EXCEPT ![m] =
                        [token[m] EXCEPT !.exp = renewal.at + renewal.row[m].delta]]
        BY <1>20, <3>2 DEF RenewToken
      <4>5. QED BY <4>2, <4>3, <4>4 DEF TokensTypeOK
    <3>3. QED BY <1>20, <3>1, <3>2 DEF RenewToken
  <2>3. QED BY <1>20, <2>1, <2>2 DEF RenewToken, TokensTypeOK
<1>21. CASE EndRenewal
  BY <1>21 DEF EndRenewal, TokensTypeOK
<1>22. QED
  BY <1>1, <1>2, <1>4, <1>5, <1>6, <1>7, <1>8, <1>9, <1>10, <1>11, <1>12, <1>13, <1>14,
     <1>15, <1>16, <1>17, <1>18, <1>19, <1>20, <1>21
  DEF TokensNext, Manage, Flow

\* Only the renewal service touches what it has loaded.
LEMMA StepLoaded ==
    TokensTypeOK /\ RenewalLoaded /\ [TokensNext]_tokensVars => RenewalLoaded'
<1> SUFFICES ASSUME TokensTypeOK, RenewalLoaded, [TokensNext]_tokensVars
             PROVE  RenewalLoaded'
  OBVIOUS
<1>1. CASE UNCHANGED renewal BY <1>1 DEF RenewalLoaded
<1>2. CASE StartRenewal BY <1>2 DEF StartRenewal, Standing, RenewalLoaded
<1>3. ASSUME NEW m \in Managed, RenewToken(m) PROVE RenewalLoaded'
  BY <1>3 DEF RenewToken, RenewalLoaded, TokensTypeOK
<1>4. CASE EndRenewal BY <1>4 DEF EndRenewal, RenewalLoaded
<1>5. QED
  BY <1>1, <1>2, <1>3, <1>4
  DEF TokensNext, tokensVars, Manage, Flow, Tick, Login, IssueManaged, Revoke, DeleteOwner,
      RotateKey, BeginRefresh, BeginUpdate, BeginRegenerate, BeginConfirm, BeginExchange,
      Begin, Finish, FinishConfirm, FinishExchange, RenderManaged, Authorize

\* Rows, grants, requests in flight and the renewal service keep their types. The type
\* invariant needs to know that what is to be renewed was there when it was loaded.
THEOREM TokensTypeCorrect == TokensSpec => [](TokensTypeOK /\ RenewalLoaded)
BY InitTypeOK, StepTypeOK, StepLoaded, PTL DEF TokensSpec

-----------------------------------------------------------------------------
\* An authorization code is redeemed once.

Exchanging(w, g) == call[w] # None /\ call[w].op = "exchange" /\ call[w].grant = g

\* A code that is still there was not redeemed, a request that redeems it has locked it,
\* and nobody else has.
CodeHeld ==
    /\ \A g \in Grants : redeemed[g] <= 1 /\ (grant[g] # None => redeemed[g] = 0)
    /\ \A w \in Workers, g \in Grants : Exchanging(w, g) => grant[g] # None
    /\ \A w, x \in Workers, g \in Grants : Exchanging(w, g) /\ Exchanging(x, g) => w = x

\* A request that begins and does not redeem a code.
LEMMA BeginKeepsCodes ==
    ASSUME TokensTypeOK, CodeHeld, NEW w \in Workers, NEW c, c.op # "exchange", Begin(w, c)
    PROVE  CodeHeld'
<1>1. \A x \in Workers, g \in Grants : Exchanging(x, g)' => Exchanging(x, g)
  BY DEF Begin, Exchanging, TokensTypeOK
<1>2. UNCHANGED <<grant, redeemed>> BY DEF Begin
<1>3. QED BY <1>1, <1>2 DEF CodeHeld

\* Only redeeming writes the lock and the counter of a code, and it takes the code with it.
LEMMA StepCodeHeld ==
    TokensTypeOK /\ CodeHeld /\ [TokensNext]_tokensVars => CodeHeld'
<1> SUFFICES ASSUME TokensTypeOK, CodeHeld, [TokensNext]_tokensVars PROVE CodeHeld'
  OBVIOUS
<1>1. CASE UNCHANGED <<grant, redeemed, call>>
  BY <1>1 DEF CodeHeld, Exchanging
<1>2. ASSUME NEW g \in Grants, NEW p \in BOOLEAN, Authorize(g, p) PROVE CodeHeld'
  <2>1. UNCHANGED <<redeemed, call>> /\ redeemed[g] = 0 /\ grant[g] = None
    BY <1>2 DEF Authorize
  <2>2. \A h \in Grants : h # g => grant'[h] = grant[h]
    BY <1>2 DEF Authorize, TokensTypeOK
  <2>3. QED BY <2>1, <2>2 DEF CodeHeld, Exchanging
<1>3. ASSUME NEW w \in Workers, NEW v \in values, BeginRefresh(w, v) PROVE CodeHeld'
  BY <1>3, BeginKeepsCodes DEF BeginRefresh, Write
<1>4. ASSUME NEW w \in Workers, NEW m \in Managed, BeginRegenerate(w, m) PROVE CodeHeld'
  BY <1>4, BeginKeepsCodes DEF BeginRegenerate, Write
<1>5. ASSUME NEW w \in Workers, NEW m \in Managed, NEW d \in Lifetimes, BeginUpdate(w, m, d)
      PROVE  CodeHeld'
  BY <1>5, BeginKeepsCodes DEF BeginUpdate, Write
<1>6. ASSUME NEW w \in Workers, NEW g \in Grants, NEW v \in values, NEW t \in Sessions,
             BeginConfirm(w, g, v, t)
      PROVE  CodeHeld'
  BY <1>6, BeginKeepsCodes DEF BeginConfirm
<1>7. ASSUME NEW w \in Workers, NEW g \in Grants, BeginExchange(w, g) PROVE CodeHeld'
  <2>1. UNCHANGED <<grant, redeemed>> /\ grant[g] # None /\ ~ Locked(g)
    BY <1>7 DEF BeginExchange, Begin
  <2>2. \A x \in Workers, h \in Grants :
          Exchanging(x, h)' => Exchanging(x, h) \/ (x = w /\ h = g)
    BY <1>7 DEF BeginExchange, Begin, Exchanging, TokensTypeOK
  <2>3. \A x \in Workers : ~ Exchanging(x, g)
    BY <2>1 DEF Locked, Exchanging
  <2>4. \A h \in Grants : ~ Exchanging(w, h)
    BY <1>7 DEF BeginExchange, Begin, Exchanging
  <2>5. QED BY <2>1, <2>2, <2>3, <2>4 DEF CodeHeld
<1>8. ASSUME NEW w \in Workers, call' = [call EXCEPT ![w] = None]
      PROVE  \A x \in Workers, h \in Grants :
                Exchanging(x, h)' => Exchanging(x, h) /\ x # w
  BY <1>8 DEF Exchanging, TokensTypeOK
<1>9. ASSUME NEW w \in Workers, Finish(w) PROVE CodeHeld'
  <2>1. call' = [call EXCEPT ![w] = None] /\ UNCHANGED <<grant, redeemed>>
    BY <1>9 DEF Finish
  <2>2. QED BY <1>8, <2>1 DEF CodeHeld
<1>10. ASSUME NEW w \in Workers, FinishConfirm(w) PROVE CodeHeld'
  <2>1. call' = [call EXCEPT ![w] = None] /\ UNCHANGED redeemed
    BY <1>10 DEF FinishConfirm
  <2>2. CASE UNCHANGED grant BY <1>8, <2>1, <2>2 DEF CodeHeld
  <2>3. CASE grant[call[w].grant] # None
    <3>1. \A h \in Grants : h # call[w].grant => grant'[h] = grant[h]
      BY <1>10, <2>3 DEF FinishConfirm, TokensTypeOK
    <3>2. \A x \in Workers : ~ Exchanging(x, call[w].grant)
      BY <1>10 DEF FinishConfirm, Locked, Exchanging
    <3>3. \A x \in Workers, h \in Grants : Exchanging(x, h)' => Exchanging(x, h)
      BY <1>8, <2>1
    <3>4. \A x \in Workers, h \in Grants : Exchanging(x, h)' => grant'[h] # None
      BY <3>1, <3>2, <3>3 DEF CodeHeld
    <3>5. \A h \in Grants : grant'[h] # None => grant[h] # None
      BY <2>3, <3>1
    <3>6. QED BY <2>1, <3>3, <3>4, <3>5 DEF CodeHeld
  <2>4. QED BY <1>10, <2>2, <2>3 DEF FinishConfirm
<1>11. ASSUME NEW w \in Workers, FinishExchange(w) PROVE CodeHeld'
  <2>1. call[w].grant \in Grants /\ Exchanging(w, call[w].grant)
    BY <1>11 DEF FinishExchange, TokensTypeOK, Calls, Exchanging
  <2>2. redeemed[call[w].grant] = 0 BY <2>1 DEF CodeHeld
  <2>3. /\ \A h \in Grants : h # call[w].grant => grant'[h] = grant[h]
                                              /\ redeemed'[h] = redeemed[h]
        /\ grant'[call[w].grant] = None /\ redeemed'[call[w].grant] = 1
    BY <1>11, <2>1, <2>2 DEF FinishExchange, TokensTypeOK
  <2>4. call' = [call EXCEPT ![w] = None] BY <1>11 DEF FinishExchange
  <2>5. \A x \in Workers : x # w => ~ Exchanging(x, call[w].grant)
    BY <2>1 DEF CodeHeld
  <2>6. \A x \in Workers, h \in Grants :
          Exchanging(x, h)' => Exchanging(x, h) /\ h # call[w].grant
    BY <1>8, <2>4, <2>5
  <2>7. \A h \in Grants : redeemed'[h] <= 1 /\ (grant'[h] # None => redeemed'[h] = 0)
    BY <2>3 DEF CodeHeld
  <2>8. \A x \in Workers, h \in Grants : Exchanging(x, h)' => grant'[h] # None
    BY <2>3, <2>6 DEF CodeHeld
  <2>9. QED BY <2>6, <2>7, <2>8 DEF CodeHeld
<1>12. QED
  BY <1>1, <1>2, <1>3, <1>4, <1>5, <1>6, <1>7, <1>9, <1>10, <1>11
  DEF TokensNext, tokensVars, Manage, Flow, Tick, Login, IssueManaged, Revoke, DeleteOwner,
      RotateKey, RenderManaged, StartRenewal, RenewToken, EndRenewal

\* However many requests carry a code at the same time, one of them buys a token
\* (IamClient.get_token_by_authorization_code).
THEOREM CodesRedeemedOnce == TokensSpec => []CodeRedeemedOnce
<1>1. TokensInit => CodeHeld BY DEF TokensInit, CodeHeld, Exchanging
<1>2. CodeHeld => CodeRedeemedOnce BY DEF CodeHeld, CodeRedeemedOnce
<1>3. QED BY <1>1, <1>2, StepCodeHeld, TokensTypeCorrect, PTL DEF TokensSpec

-----------------------------------------------------------------------------
\* Rows come and go.

\* A row is new, goes, or is written by a request or by the renewal service, which both
\* write nothing when it is gone.
LEMMA RowStep ==
    ASSUME TokensTypeOK, [TokensNext]_tokensVars, NEW t \in Ids
    PROVE  \/ token'[t] = token[t]
           \/ token'[t] = None
           \/ (t \notin created /\ created' = created \union {t})
           \/ (token[t] # None /\ UNCHANGED created)
<1>1. CASE UNCHANGED token BY <1>1
<1>2. ASSUME NEW u \in Ids, NEW row, Insert(u, row)
      PROVE  token'[t] = token[t] \/ (t \notin created /\ created' = created \union {t})
  BY <1>2 DEF Insert, TokensTypeOK
<1>3. ASSUME NEW u \in Sessions, Login(u)
      PROVE  token'[t] = token[t] \/ (t \notin created /\ created' = created \union {t})
  BY <1>2, <1>3 DEF Login, Ids
<1>4. ASSUME NEW u \in Managed, NEW d \in Lifetimes, NEW a \in BOOLEAN, IssueManaged(u, d, a)
      PROVE  token'[t] = token[t] \/ (t \notin created /\ created' = created \union {t})
  BY <1>2, <1>4 DEF IssueManaged, Ids
<1>5. ASSUME NEW u \in Ids, Revoke(u) PROVE token'[t] = token[t] \/ token'[t] = None
  BY <1>5 DEF Revoke, TokensTypeOK
<1>6. CASE DeleteOwner BY <1>6 DEF DeleteOwner
<1>7. ASSUME NEW w \in Workers, Finish(w)
      PROVE  \/ token'[t] = token[t]
             \/ token'[t] = None
             \/ (token[t] # None /\ UNCHANGED created)
  BY <1>7 DEF Finish, Updated, TokensTypeOK
<1>8. ASSUME NEW w \in Workers, FinishConfirm(w)
      PROVE  token'[t] = token[t] \/ (t \notin created /\ created' = created \union {t})
  BY <1>8 DEF FinishConfirm, TokensTypeOK
<1>9. ASSUME NEW m \in Managed, RenewToken(m)
      PROVE  token'[t] = token[t] \/ (token[t] # None /\ UNCHANGED created)
  BY <1>9 DEF RenewToken, TokensTypeOK
<1>10. QED
  BY <1>1, <1>3, <1>4, <1>5, <1>6, <1>7, <1>8, <1>9
  DEF TokensNext, tokensVars, Manage, Flow, Tick, RotateKey, RenderManaged, Authorize,
      BeginRefresh, BeginUpdate, BeginRegenerate, BeginConfirm, BeginExchange, Begin,
      FinishExchange, StartRenewal, EndRenewal

\* Logging out or deleting a token is final, whichever requests and renewals of it are
\* under way (Token.refresh, Token.renew, ManagedToken.regenerate).
THEOREM RevocationIsFinal == TokensSpec => RevokedStaysRevoked
<1>1. TokensTypeOK /\ [TokensNext]_tokensVars =>
        [\A t \in Ids : t \in created /\ token[t] = None => token'[t] = None]_tokensVars
  BY RowStep
<1>2. QED BY <1>1, TokensTypeCorrect, PTL DEF TokensSpec, RevokedStaysRevoked

\* An id is taken before it has a row, and as long as requests work on it.
IdsTaken ==
    /\ \A t \in Ids : token[t] # None => t \in created
    /\ \A w \in Workers : call[w] # None /\ call[w].op \in {"refresh", "lifetime", "regenerate"}
          => call[w].id \in created

\* Ids are taken once and for all, by the step that makes the row.
LEMMA StepIdsTaken == TokensTypeOK /\ IdsTaken /\ [TokensNext]_tokensVars => IdsTaken'
<1> SUFFICES ASSUME TokensTypeOK, IdsTaken, [TokensNext]_tokensVars PROVE IdsTaken'
  OBVIOUS
<1>1. created \subseteq created'
  BY DEF TokensNext, tokensVars, Manage, Flow, Tick, RotateKey, RenderManaged, Authorize,
         BeginRefresh, BeginUpdate, BeginRegenerate, BeginConfirm, BeginExchange, Begin,
         Finish, FinishConfirm, FinishExchange, StartRenewal, RenewToken, EndRenewal, Login,
         IssueManaged, Insert, Revoke, DeleteOwner, TokensTypeOK
<1>2. \A t \in Ids : token'[t] # None => t \in created'
  BY <1>1, RowStep DEF IdsTaken
<1>3. ASSUME NEW w \in Workers
      PROVE  \/ call'[w] = call[w]
             \/ call'[w] = None
             \/ call'[w].op \in {"confirm", "exchange"}
             \/ call'[w].id \in created
  <2>1. CASE UNCHANGED call BY <2>1
  <2>2. ASSUME NEW x \in Workers, call' = [call EXCEPT ![x] = None]
        PROVE  call'[w] = call[w] \/ call'[w] = None
    BY <2>2 DEF TokensTypeOK
  <2>3. ASSUME NEW x \in Workers, NEW v \in values, BeginRefresh(x, v)
        PROVE  call'[w] = call[w] \/ call'[w].id \in created
    <3>1. v.id \in Ids /\ token[v.id] # None BY <2>3 DEF BeginRefresh, CanRefresh, Ids
    <3>2. QED BY <2>3, <3>1 DEF BeginRefresh, Begin, Write, TokensTypeOK, IdsTaken
  <2>4. ASSUME NEW x \in Workers, NEW m \in Managed, BeginRegenerate(x, m)
        PROVE  call'[w] = call[w] \/ call'[w].id \in created
    BY <2>4 DEF BeginRegenerate, Begin, Write, TokensTypeOK, IdsTaken, Ids
  <2>5. ASSUME NEW x \in Workers, NEW m \in Managed, NEW d \in Lifetimes, BeginUpdate(x, m, d)
        PROVE  call'[w] = call[w] \/ call'[w].id \in created
    BY <2>5 DEF BeginUpdate, Begin, Write, TokensTypeOK, IdsTaken, Ids
  <2>6. ASSUME NEW x \in Workers, NEW g \in Grants, NEW v \in values, NEW t \in Sessions,
               BeginConfirm(x, g, v, t)
        PROVE  call'[w] = call[w] \/ call'[w].op = "confirm"
    BY <2>6 DEF BeginConfirm, Begin, TokensTypeOK
  <2>7. ASSUME NEW x \in Workers, NEW g \in Grants, BeginExchange(x, g)
        PROVE  call'[w] = call[w] \/ call'[w].op = "exchange"
    BY <2>7 DEF BeginExchange, Begin, TokensTypeOK
  <2>8. ASSUME NEW x \in Workers, Finish(x) \/ FinishConfirm(x) \/ FinishExchange(x)
        PROVE  call'[w] = call[w] \/ call'[w] = None
    BY <2>2, <2>8 DEF Finish, FinishConfirm, FinishExchange
  <2>9. QED
    BY <2>1, <2>3, <2>4, <2>5, <2>6, <2>7, <2>8
    DEF TokensNext, tokensVars, Manage, Flow, Tick, Login, IssueManaged, Revoke, DeleteOwner,
        RotateKey, RenderManaged, Authorize, StartRenewal, RenewToken, EndRenewal
<1>4. QED BY <1>1, <1>2, <1>3 DEF IdsTaken

-----------------------------------------------------------------------------
\* Regeneration.

Regenerating(w, m) == call[w] # None /\ call[w].op = "regenerate" /\ call[w].id = m

\* The generation in a row counts the regenerations, values carry the one they were signed
\* with, and one request at a time is about to write the next.
GenerationsCount ==
    /\ \A m \in Managed : (m \notin created => regens[m] = 0)
                         /\ (token[m] # None => token[m].gen = regens[m])
    /\ \A v \in values : v.id \in Managed => v.seq = v.gen
    /\ \A w \in Workers, m \in Managed :
          Regenerating(w, m) /\ token[m] # None => call[w].gen = regens[m] + 1
    /\ \A w, x \in Workers, m \in Managed : Regenerating(w, m) /\ Regenerating(x, m) => w = x
    /\ \A w \in Workers : call[w] # None /\ call[w].op = "refresh" => call[w].id \in Sessions

\* A request that begins and does not regenerate.
LEMMA BeginKeepsGenerations ==
    ASSUME TokensTypeOK, GenerationsCount, NEW w \in Workers, NEW c,
           c.op # "regenerate", c.op = "refresh" => c.id \in Sessions, Begin(w, c)
    PROVE  GenerationsCount'
<1>1. \A x \in Workers : call'[x] = call[x] \/ call'[x] = c
  BY DEF Begin, TokensTypeOK
<1>2. \A x \in Workers, m \in Managed :
        Regenerating(x, m)' => Regenerating(x, m) /\ call'[x] = call[x]
  BY <1>1 DEF Regenerating
<1>3. UNCHANGED <<token, created, values, regens>> BY DEF Begin
<1>4. QED BY <1>1, <1>2, <1>3 DEF GenerationsCount

\* A request that ends without a new generation or value.
LEMMA EndKeepsGenerations ==
    ASSUME TokensTypeOK, GenerationsCount, NEW w \in Workers,
           call' = [call EXCEPT ![w] = None] \/ call' = call, UNCHANGED regens,
           created \subseteq created',
           \A m \in Managed : token'[m] # None => token[m] # None /\ token'[m].gen = token[m].gen,
           \A v \in values' : v \in values \/ v.id \notin Managed \/ v.seq = v.gen
    PROVE  GenerationsCount'
<1>1. \A x \in Workers : call'[x] # None => call'[x] = call[x]
  BY DEF TokensTypeOK
<1>2. \A x \in Workers, m \in Managed :
        Regenerating(x, m)' => Regenerating(x, m) /\ call'[x] = call[x]
  BY <1>1 DEF Regenerating
<1>3. QED BY <1>1, <1>2 DEF GenerationsCount

\* A new token is in its first generation.
LEMMA InsertKeepsGenerations ==
    ASSUME TokensTypeOK, GenerationsCount, IdsTaken, NEW t \in Ids, NEW row \in TokenRows,
           row.gen = 0, Insert(t, row), UNCHANGED <<regens, call>>
    PROVE  GenerationsCount'
<1>1. \A m \in Managed : m # t => token'[m] = token[m]
  BY DEF Insert, TokensTypeOK, Ids
<1>2. token'[t] = row /\ t \notin created /\ created \subseteq created'
  BY DEF Insert, TokensTypeOK
<1>3. \A v \in values' : v.id \in Managed => v.seq = v.gen
  BY DEF Insert, Signed, GenerationsCount
<1>4. \A w \in Workers, m \in Managed : Regenerating(w, m) => m # t
  BY <1>2 DEF Regenerating, IdsTaken
<1>5. \A m \in Managed : (m \notin created' => regens[m] = 0)
                         /\ (token'[m] # None => token'[m].gen = regens[m])
  BY <1>1, <1>2 DEF GenerationsCount
<1>6. \A w \in Workers, m \in Managed : Regenerating(w, m)' <=> Regenerating(w, m)
  BY DEF Regenerating
<1>7. QED BY <1>1, <1>3, <1>4, <1>5, <1>6 DEF GenerationsCount

\* Where regenerations of a token do not overlap, each raises its generation by one.
LEMMA StepGenerations ==
    ASSUME ~ Overlapping
    PROVE  TokensTypeOK /\ GenerationsCount /\ IdsTaken /\ [TokensNext]_tokensVars
             => GenerationsCount'
<1> SUFFICES ASSUME TokensTypeOK, GenerationsCount, IdsTaken, [TokensNext]_tokensVars
             PROVE  GenerationsCount'
  OBVIOUS
<1>1. CASE UNCHANGED <<token, created, values, regens, call>>
  BY <1>1 DEF GenerationsCount, Regenerating
<1>2. ASSUME NEW t \in Sessions, Login(t) PROVE GenerationsCount'
  <2>1. NewRow(Lifetime, FALSE) \in TokenRows /\ NewRow(Lifetime, FALSE).gen = 0 /\ t \in Ids
    BY RowsTyped DEF Ids, NewRow
  <2>2. QED BY <1>2, <2>1, InsertKeepsGenerations DEF Login
<1>3. ASSUME NEW m \in Managed, NEW d \in Lifetimes, NEW a \in BOOLEAN, IssueManaged(m, d, a)
      PROVE  GenerationsCount'
  <2>1. NewRow(d, a) \in TokenRows /\ NewRow(d, a).gen = 0 /\ m \in Ids
    BY RowsTyped DEF Ids, NewRow
  <2>2. QED BY <1>3, <2>1, InsertKeepsGenerations DEF IssueManaged
<1>4. ASSUME NEW t \in Ids, Revoke(t) PROVE GenerationsCount'
  <2>1. \A m \in Managed : token'[m] = token[m] \/ token'[m] = None
    BY <1>4 DEF Revoke, TokensTypeOK, Ids
  <2>2. UNCHANGED <<created, values, regens, call>> BY <1>4 DEF Revoke
  <2>3. QED BY <2>1, <2>2 DEF GenerationsCount, Regenerating
<1>5. CASE DeleteOwner
  <2>1. \A m \in Managed : token'[m] = None /\ m \in created'
    BY <1>5 DEF DeleteOwner, Ids
  <2>2. UNCHANGED <<values, regens, call>> BY <1>5 DEF DeleteOwner
  <2>3. QED BY <2>1, <2>2 DEF GenerationsCount, Regenerating
<1>6. ASSUME NEW w \in Workers, NEW v \in values, BeginRefresh(w, v) PROVE GenerationsCount'
  BY <1>6, BeginKeepsGenerations DEF BeginRefresh, CanRefresh, Write
<1>7. ASSUME NEW w \in Workers, NEW m \in Managed, NEW d \in Lifetimes, BeginUpdate(w, m, d)
      PROVE  GenerationsCount'
  BY <1>7, BeginKeepsGenerations DEF BeginUpdate, Write
<1>8. ASSUME NEW w \in Workers, NEW g \in Grants, NEW v \in values, NEW t \in Sessions,
             BeginConfirm(w, g, v, t)
      PROVE  GenerationsCount'
  BY <1>8, BeginKeepsGenerations DEF BeginConfirm
<1>9. ASSUME NEW w \in Workers, NEW g \in Grants, BeginExchange(w, g) PROVE GenerationsCount'
  BY <1>9, BeginKeepsGenerations DEF BeginExchange
<1>10. ASSUME NEW w \in Workers, NEW m \in Managed, BeginRegenerate(w, m)
       PROVE  GenerationsCount'
  <2>1. UNCHANGED <<token, created, values, regens>> /\ token[m] \in TokenRows
    BY <1>10 DEF BeginRegenerate, Begin, TokensTypeOK, Ids
  <2>2. \A x \in Workers : ~ Regenerating(x, m)
    BY <1>10 DEF BeginRegenerate, Regenerating
  <2>3. /\ \A x \in Workers : x # w => call'[x] = call[x]
        /\ call'[w].op = "regenerate" /\ call'[w].id = m /\ call'[w].gen = token[m].gen + 1
    BY <1>10, <2>1 DEF BeginRegenerate, Begin, Write, TokensTypeOK, TokenRows
  <2>4. \A x \in Workers, k \in Managed :
          Regenerating(x, k)' => \/ x # w /\ Regenerating(x, k)
                                 \/ x = w /\ k = m
    BY <2>3 DEF Regenerating
  <2>5. token[m].gen = regens[m] BY <1>10 DEF BeginRegenerate, GenerationsCount
  <2>6. \A x \in Workers, k \in Managed :
          Regenerating(x, k)' /\ token[k] # None => call'[x].gen = regens[k] + 1
    BY <2>3, <2>4, <2>5 DEF GenerationsCount
  <2>7. \A x, y \in Workers, k \in Managed :
          Regenerating(x, k)' /\ Regenerating(y, k)' => x = y
    BY <2>2, <2>4 DEF GenerationsCount
  <2>8. \A x \in Workers : call'[x] # None /\ call'[x].op = "refresh" => call'[x].id \in Sessions
    BY <2>3 DEF GenerationsCount
  <2>9. QED BY <2>1, <2>6, <2>7, <2>8 DEF GenerationsCount
<1>11. ASSUME NEW w \in Workers, Finish(w) PROVE GenerationsCount'
  <2> DEFINE c == call[w]
  <2>1. c \in Calls /\ c.op \in {"refresh", "lifetime", "regenerate"} /\ c # None
    BY <1>11 DEF Finish, TokensTypeOK
  <2>2. c.id \in Ids BY <2>1 DEF Calls
  <2>3. /\ token' = [token EXCEPT ![c.id] = Updated(c.id, c)]
        /\ call' = [call EXCEPT ![w] = None]
        /\ UNCHANGED created
    BY <1>11 DEF Finish
  <2>4. CASE Updated(c.id, c) = None
    <3>1. \A m \in Managed : token'[m] = token[m] \/ token'[m] = None
      BY <2>2, <2>3, <2>4 DEF TokensTypeOK, Ids
    <3>2. UNCHANGED <<values, regens>> BY <1>11, <2>4 DEF Finish
    <3> HIDE DEF c
    <3>3. QED BY <2>3, <3>1, <3>2, EndKeepsGenerations
  <2>5. CASE Updated(c.id, c) # None
    <3>1. token[c.id] \in TokenRows /\ Updated(c.id, c) = Written(token[c.id], c)
      BY <2>2, <2>5 DEF Updated, TokensTypeOK
    <3>2. /\ Written(token[c.id], c).gen = IF c.op = "regenerate" THEN c.gen ELSE token[c.id].gen
      BY <2>1, <3>1, WrittenTyped
    <3>3. CASE c.op = "lifetime"
      <4>1. UNCHANGED <<values, regens>> BY <1>11, <3>3 DEF Finish
      <4>2. \A m \in Managed : token'[m] # None => token[m] # None /\ token'[m].gen = token[m].gen
        BY <2>2, <2>3, <2>5, <3>1, <3>2, <3>3 DEF TokensTypeOK, Ids, Updated
      <4> HIDE DEF c
      <4>3. QED BY <2>3, <4>1, <4>2, EndKeepsGenerations
    <3>4. CASE c.op = "refresh"
      <4>1. c.id \in Sessions /\ c.id \notin Managed
        BY <2>1, <3>4 DEF GenerationsCount
      <4>2. UNCHANGED regens /\ values' = values \union {Signed(c.id, c, 0)}
        BY <1>11, <2>5, <3>4, <4>1 DEF Finish
      <4>3. \A m \in Managed : token'[m] = token[m]
        BY <2>3, <4>1 DEF TokensTypeOK, Ids
      <4>4. Signed(c.id, c, 0).id \notin Managed BY <4>1 DEF Signed
      <4> HIDE DEF c
      <4>5. QED BY <2>3, <4>2, <4>3, <4>4, EndKeepsGenerations
    <3>5. CASE c.op = "regenerate"
      <4>1. CASE c.id \notin Managed
        <5>1. \A m \in Managed : token'[m] = token[m] /\ regens'[m] = regens[m]
          BY <1>11, <2>3, <4>1 DEF Finish, TokensTypeOK, Ids
        <5>2. \A v \in values' : v \in values \/ v.id \notin Managed
          BY <1>11, <4>1 DEF Finish, Signed
        <5>3. \A x \in Workers : call'[x] # None => call'[x] = call[x]
          BY <2>3 DEF TokensTypeOK
        <5>4. \A x \in Workers, m \in Managed :
                Regenerating(x, m)' => Regenerating(x, m) /\ call'[x] = call[x]
          BY <5>3 DEF Regenerating
        <5> HIDE DEF c
        <5>5. QED BY <2>3, <5>1, <5>2, <5>3, <5>4 DEF GenerationsCount
      <4>2. CASE c.id \in Managed
        <5>1. Regenerating(w, c.id) BY <2>1, <3>5 DEF Regenerating
        <5>2. token[c.id] # None BY <2>5 DEF Updated
        <5>3. c.gen = regens[c.id] + 1 /\ regens[c.id] \in Nat
          BY <4>2, <5>1, <5>2 DEF GenerationsCount, TokensTypeOK
        <5>4. regens' = [regens EXCEPT ![c.id] = regens[c.id] + 1]
          BY <1>11, <2>5, <3>5 DEF Finish
        <5>5. regens'[c.id] = c.gen /\ \A m \in Managed : m # c.id => regens'[m] = regens[m]
          BY <4>2, <5>3, <5>4 DEF TokensTypeOK
        <5>6. values' = values \union {Signed(c.id, c, regens'[c.id])}
          BY <1>11, <2>5, <3>5, <4>2 DEF Finish
        <5>7. \A v \in values' : v.id \in Managed => v.seq = v.gen
          BY <5>5, <5>6 DEF Signed, GenerationsCount
        <5>8. \A m \in Managed : m # c.id => token'[m] = token[m]
          BY <2>3 DEF TokensTypeOK, Ids
        <5>9. token'[c.id].gen = c.gen
          BY <2>2, <2>3, <3>1, <3>2, <3>5 DEF TokensTypeOK
        <5>10. c.id \in created BY <2>1 DEF IdsTaken
        <5>11. \A m \in Managed : (m \notin created => regens'[m] = 0)
                         /\ (token'[m] # None => token'[m].gen = regens'[m])
          BY <5>5, <5>8, <5>9, <5>10 DEF GenerationsCount
        <5>12. \A x \in Workers : call'[x] # None => call'[x] = call[x] /\ x # w
          BY <2>3 DEF TokensTypeOK
        <5>13. \A x \in Workers, m \in Managed :
                 Regenerating(x, m)' => Regenerating(x, m) /\ call'[x] = call[x] /\ m # c.id
          BY <5>1, <5>12, <4>2 DEF Regenerating, GenerationsCount
        <5>14. \A x \in Workers, m \in Managed :
                 Regenerating(x, m)' /\ token'[m] # None => call'[x].gen = regens'[m] + 1
          BY <5>5, <5>8, <5>13 DEF GenerationsCount
        <5> HIDE DEF c
        <5>15. QED BY <2>3, <5>7, <5>11, <5>12, <5>13, <5>14 DEF GenerationsCount
      <4>3. QED BY <4>1, <4>2
    <3>6. QED BY <2>1, <3>3, <3>4, <3>5
  <2>6. QED BY <2>4, <2>5
<1>12. ASSUME NEW w \in Workers, FinishConfirm(w) PROVE GenerationsCount'
  <2>1. call[w].id \in Sessions BY <1>12 DEF FinishConfirm, TokensTypeOK, Calls
  <2>2. /\ call' = [call EXCEPT ![w] = None]
        /\ UNCHANGED <<values, regens>> /\ created \subseteq created'
    BY <1>12 DEF FinishConfirm
  <2>3. \A m \in Managed : token'[m] = token[m]
    BY <1>12, <2>1 DEF FinishConfirm, TokensTypeOK, Ids
  <2>4. QED BY <2>2, <2>3, EndKeepsGenerations
<1>13. ASSUME NEW w \in Workers, FinishExchange(w) PROVE GenerationsCount'
  <2>1. call[w].id \in Sessions BY <1>13 DEF FinishExchange, TokensTypeOK, Calls
  <2>2. /\ call' = [call EXCEPT ![w] = None]
        /\ UNCHANGED <<token, created, regens>>
    BY <1>13 DEF FinishExchange
  <2>3. \A v \in values' : v \in values \/ v.id \notin Managed
    BY <1>13, <2>1 DEF FinishExchange, Signed
  <2>4. QED BY <2>2, <2>3, EndKeepsGenerations
<1>14. ASSUME NEW m \in Managed, RenewToken(m) PROVE GenerationsCount'
  <2>1. \A k \in Managed : token'[k] # None => token[k] # None /\ token'[k].gen = token[k].gen
    BY <1>14 DEF RenewToken, TokensTypeOK, TokenRows, Ids
  <2>2. UNCHANGED <<created, values, regens, call>> BY <1>14 DEF RenewToken
  <2>3. QED BY <2>1, <2>2 DEF GenerationsCount, Regenerating
<1>15. ASSUME NEW m \in Managed, RenderManaged(m) PROVE GenerationsCount'
  <2>1. UNCHANGED <<token, created, regens, call>> BY <1>15 DEF RenderManaged
  <2>2. \A v \in values' : v.id \in Managed => v.seq = v.gen
    BY <1>15 DEF RenderManaged, Signed, GenerationsCount
  <2>3. QED BY <2>1, <2>2 DEF GenerationsCount, Regenerating
<1>16. QED
  BY <1>1, <1>2, <1>3, <1>4, <1>5, <1>6, <1>7, <1>8, <1>9, <1>10, <1>11, <1>12, <1>13, <1>14,
     <1>15
  DEF TokensNext, tokensVars, Manage, Flow, Tick, RotateKey, Authorize, StartRenewal,
      EndRenewal

\* A value signed before the last regeneration is refused, whatever the renewal service and
\* other requests write in between, when regenerations of a token do not overlap
\* (Token.generation).
THEOREM RegenerationRefuses == ~ Overlapping => (TokensSpec => []RegeneratedRefused)
<1> SUFFICES ASSUME ~ Overlapping PROVE TokensSpec => []RegeneratedRefused OBVIOUS
<1>1. TokensInit => GenerationsCount /\ IdsTaken
  BY DEF TokensInit, GenerationsCount, IdsTaken, Regenerating, Ids
<1>2. TokensTypeOK /\ GenerationsCount => RegeneratedRefused
  BY DEF GenerationsCount, RegeneratedRefused, Accepted
<1>3. TokensTypeOK /\ GenerationsCount /\ IdsTaken /\ [TokensNext]_tokensVars
        => GenerationsCount'
  BY StepGenerations
<1>4. QED
  BY <1>1, <1>2, <1>3, StepIdsTaken, TokensTypeCorrect, PTL DEF TokensSpec

-----------------------------------------------------------------------------
\* Expiration.

\* A row of a session carries the lifetime of sessions, and a refresh under way was begun
\* while it was allowed.
RefreshBounded ==
    /\ \A t \in Sessions : token[t] # None =>
          token[t].delta = Lifetime /\ token[t].exp <= token[t].rexp + Lifetime
    /\ \A w \in Workers : call[w] # None /\ call[w].op \in {"refresh", "lifetime", "regenerate"} =>
          /\ call[w].op = "refresh" <=> call[w].id \in Sessions
          /\ call[w].op = "refresh" /\ token[call[w].id] # None =>
                call[w].exp <= token[call[w].id].rexp + Lifetime

\* Steps that leave the sessions alone.
SessionsAlone == \A t \in Sessions : token'[t] = token[t] \/ token'[t] = None

RefreshesAlone ==
    \A w \in Workers :
        \/ call'[w] = call[w]
        \/ call'[w] = None
        \/ call'[w].op \in {"confirm", "exchange"}
        \/ (call'[w].op \in {"lifetime", "regenerate"} /\ call'[w].id \in Managed)

\* Steps that leave the rows of sessions and the refreshes under way alone keep the bound.
LEMMA SessionsKept ==
    ASSUME TokensTypeOK, RefreshBounded, SessionsAlone, RefreshesAlone
    PROVE  RefreshBounded'
<1> USE DEF SessionsAlone, RefreshesAlone
<1>1. \A t \in Sessions : token'[t] # None =>
        token'[t].delta = Lifetime /\ token'[t].exp <= token'[t].rexp + Lifetime
  BY DEF RefreshBounded
<1>2. ASSUME NEW w \in Workers, call'[w] # None,
             call'[w].op \in {"refresh", "lifetime", "regenerate"}
      PROVE  /\ call'[w].op = "refresh" <=> call'[w].id \in Sessions
             /\ call'[w].op = "refresh" /\ token'[call'[w].id] # None =>
                   call'[w].exp <= token'[call'[w].id].rexp + Lifetime
  <2>1. CASE call'[w] = call[w] BY <1>2, <2>1 DEF RefreshBounded
  <2>2. CASE call'[w].op \in {"lifetime", "regenerate"} /\ call'[w].id \in Managed
    BY <2>2
  <2>3. QED BY <1>2, <2>1, <2>2
<1>3. QED BY <1>1, <1>2 DEF RefreshBounded

\* A new session is bounded, and no refresh of it is under way.
LEMMA NewSessionBounded ==
    ASSUME TokensTypeOK, RefreshBounded, IdsTaken, NEW t \in Ids, t \notin created, NEW d \in Nat,
           NEW a \in BOOLEAN, token' = [token EXCEPT ![t] = NewRow(d, a)],
           t \in Sessions => d = Lifetime,
           \A w \in Workers : call'[w] = call[w] \/ call'[w] = None
    PROVE  RefreshBounded'
<1>1. NewRow(d, a).delta = d /\ NewRow(d, a).exp = now + d /\ NewRow(d, a).rexp = now + RefreshLifetime
  BY DEF NewRow
<1>2. \A u \in Sessions : u # t => token'[u] = token[u]
  BY DEF TokensTypeOK, Ids
<1>3. token'[t] = NewRow(d, a) BY DEF TokensTypeOK
<1>4. now \in Nat BY DEF TokensTypeOK
<1>5. \A u \in Sessions : token'[u] # None =>
        token'[u].delta = Lifetime /\ token'[u].exp <= token'[u].rexp + Lifetime
  BY <1>1, <1>2, <1>3, <1>4 DEF RefreshBounded
<1>6. ASSUME NEW w \in Workers, call'[w] # None,
             call'[w].op \in {"refresh", "lifetime", "regenerate"}
      PROVE  /\ call'[w].op = "refresh" <=> call'[w].id \in Sessions
             /\ call'[w].op = "refresh" /\ token'[call'[w].id] # None =>
                   call'[w].exp <= token'[call'[w].id].rexp + Lifetime
  <2>1. call'[w] = call[w] /\ call[w].id # t BY <1>6 DEF IdsTaken
  <2>2. QED BY <1>2, <1>6, <2>1 DEF RefreshBounded
<1>7. QED BY <1>5, <1>6 DEF RefreshBounded

\* A refresh writes what is within the bound of the row, however late it writes.
LEMMA StepRefreshBounded ==
    TokensTypeOK /\ IdsTaken /\ RefreshBounded /\ [TokensNext]_tokensVars => RefreshBounded'
<1> SUFFICES ASSUME TokensTypeOK, IdsTaken, RefreshBounded, [TokensNext]_tokensVars
             PROVE  RefreshBounded'
  OBVIOUS
<1>1. CASE UNCHANGED <<token, call>> BY <1>1 DEF RefreshBounded
<1>2. ASSUME NEW t \in Sessions, Login(t) PROVE RefreshBounded'
  BY <1>2, NewSessionBounded DEF Login, Insert, Ids
<1>3. ASSUME NEW m \in Managed, NEW d \in Lifetimes, NEW a \in BOOLEAN, IssueManaged(m, d, a)
      PROVE  RefreshBounded'
  BY <1>3, NewSessionBounded DEF IssueManaged, Insert, Ids
<1>4. ASSUME NEW t \in Ids, Revoke(t) PROVE RefreshBounded'
  <2>1. SessionsAlone /\ RefreshesAlone
    BY <1>4 DEF Revoke, TokensTypeOK, Ids, SessionsAlone, RefreshesAlone
  <2>2. QED BY <2>1, SessionsKept
<1>5. CASE DeleteOwner
  <2>1. SessionsAlone /\ RefreshesAlone
    BY <1>5 DEF DeleteOwner, Ids, SessionsAlone, RefreshesAlone
  <2>2. QED BY <2>1, SessionsKept
<1>6. ASSUME NEW w \in Workers, NEW v \in values, BeginRefresh(w, v) PROVE RefreshBounded'
  <2>1. v.id \in Sessions /\ token[v.id] # None /\ now < token[v.id].rexp
    BY <1>6 DEF BeginRefresh, CanRefresh
  <2>2. token[v.id] \in TokenRows /\ now \in Nat BY <2>1 DEF TokensTypeOK, Ids
  <2>3. token[v.id].delta = Lifetime /\ token[v.id].rexp \in Nat
    BY <2>1, <2>2 DEF RefreshBounded, TokenRows
  <2>4. /\ \A x \in Workers : x # w => call'[x] = call[x]
        /\ call'[w].op = "refresh" /\ call'[w].id = v.id /\ call'[w].exp = now + token[v.id].delta
        /\ UNCHANGED token
    BY <1>6 DEF BeginRefresh, Begin, Write, TokensTypeOK
  <2>5. call'[w].exp <= token[v.id].rexp + Lifetime BY <2>1, <2>2, <2>3, <2>4
  <2>6. QED BY <2>1, <2>4, <2>5 DEF RefreshBounded
<1>7. ASSUME NEW w \in Workers, NEW m \in Managed, NEW d \in Lifetimes, BeginUpdate(w, m, d)
      PROVE  RefreshBounded'
  <2>1. /\ \A x \in Workers : x # w => call'[x] = call[x]
        /\ call'[w].op = "lifetime" /\ call'[w].id = m /\ UNCHANGED token
    BY <1>7 DEF BeginUpdate, Begin, Write, TokensTypeOK
  <2>2. SessionsAlone /\ RefreshesAlone BY <2>1 DEF SessionsAlone, RefreshesAlone
  <2>3. QED BY <2>2, SessionsKept
<1>8. ASSUME NEW w \in Workers, NEW m \in Managed, BeginRegenerate(w, m) PROVE RefreshBounded'
  <2>1. /\ \A x \in Workers : x # w => call'[x] = call[x]
        /\ call'[w].op = "regenerate" /\ call'[w].id = m /\ UNCHANGED token
    BY <1>8 DEF BeginRegenerate, Begin, Write, TokensTypeOK
  <2>2. SessionsAlone /\ RefreshesAlone BY <2>1 DEF SessionsAlone, RefreshesAlone
  <2>3. QED BY <2>2, SessionsKept
<1>9. ASSUME NEW w \in Workers, NEW g \in Grants, NEW v \in values, NEW t \in Sessions,
             BeginConfirm(w, g, v, t)
      PROVE  RefreshBounded'
  <2>1. /\ \A x \in Workers : x # w => call'[x] = call[x]
        /\ call'[w].op = "confirm" /\ UNCHANGED token
    BY <1>9 DEF BeginConfirm, Begin, TokensTypeOK
  <2>2. SessionsAlone /\ RefreshesAlone BY <2>1 DEF SessionsAlone, RefreshesAlone
  <2>3. QED BY <2>2, SessionsKept
<1>10. ASSUME NEW w \in Workers, NEW g \in Grants, BeginExchange(w, g) PROVE RefreshBounded'
  <2>1. /\ \A x \in Workers : x # w => call'[x] = call[x]
        /\ call'[w].op = "exchange" /\ UNCHANGED token
    BY <1>10 DEF BeginExchange, Begin, TokensTypeOK
  <2>2. SessionsAlone /\ RefreshesAlone BY <2>1 DEF SessionsAlone, RefreshesAlone
  <2>3. QED BY <2>2, SessionsKept
<1>11. ASSUME NEW w \in Workers, Finish(w) PROVE RefreshBounded'
  <2> DEFINE c == call[w]
  <2>1. c \in Calls /\ c.op \in {"refresh", "lifetime", "regenerate"} /\ c # None /\ c.id \in Ids
    BY <1>11 DEF Finish, TokensTypeOK, Calls
  <2>2. /\ \A t \in Ids : t # c.id => token'[t] = token[t]
        /\ token'[c.id] = Updated(c.id, c)
        /\ \A x \in Workers : call'[x] = call[x] \/ call'[x] = None
    BY <1>11, <2>1 DEF Finish, TokensTypeOK
  <2>3. CASE c.id \notin Sessions \/ token[c.id] = None
    <3> HIDE DEF c
    <3>1. SessionsAlone /\ RefreshesAlone
      BY <2>2, <2>3 DEF Ids, Updated, SessionsAlone, RefreshesAlone
    <3>2. QED BY <3>1, SessionsKept
  <2>4. CASE c.id \in Sessions /\ token[c.id] # None
    <3>1. c.op = "refresh" /\ c.exp <= token[c.id].rexp + Lifetime
      BY <2>1, <2>4 DEF RefreshBounded
    <3>2. token[c.id] \in TokenRows BY <2>1, <2>4 DEF TokensTypeOK
    <3>3. /\ token'[c.id].exp = c.exp /\ token'[c.id].rexp = token[c.id].rexp
          /\ token'[c.id].delta = token[c.id].delta
      BY <2>1, <2>2, <2>4, <3>1, <3>2, WrittenTyped DEF Updated
    <3>4. \A t \in Sessions : token'[t] # None =>
             /\ token'[t].delta = Lifetime /\ token'[t].exp <= token'[t].rexp + Lifetime
             /\ token[t] # None /\ token'[t].rexp = token[t].rexp
      BY <2>2, <2>4, <3>1, <3>3 DEF RefreshBounded, Ids
    <3> HIDE DEF c
    <3>5. ASSUME NEW x \in Workers, call'[x] # None,
                 call'[x].op \in {"refresh", "lifetime", "regenerate"}
          PROVE  /\ call'[x].op = "refresh" <=> call'[x].id \in Sessions
                 /\ call'[x].op = "refresh" /\ token'[call'[x].id] # None =>
                       call'[x].exp <= token'[call'[x].id].rexp + Lifetime
      BY <2>2, <3>4, <3>5 DEF RefreshBounded
    <3>6. QED BY <3>4, <3>5 DEF RefreshBounded
  <2>5. QED BY <2>3, <2>4
<1>12. ASSUME NEW w \in Workers, FinishConfirm(w) PROVE RefreshBounded'
  <2>1. call[w].id \in Sessions /\ call[w].id \in Ids
    BY <1>12 DEF FinishConfirm, TokensTypeOK, Calls, Ids
  <2>2. \A x \in Workers : call'[x] = call[x] \/ call'[x] = None
    BY <1>12 DEF FinishConfirm, TokensTypeOK
  <2>3. CASE UNCHANGED token
    BY <2>2, <2>3, SessionsKept DEF SessionsAlone, RefreshesAlone
  <2>4. CASE ~ (grant[call[w].grant] = None \/ call[w].id \in created)
    <3>1. token' = [token EXCEPT ![call[w].id] = NewRow(Lifetime, FALSE)]
      BY <1>12, <2>4 DEF FinishConfirm
    <3>2. QED BY <2>1, <2>2, <2>4, <3>1, NewSessionBounded
  <2>5. QED BY <1>12, <2>3, <2>4 DEF FinishConfirm
<1>13. ASSUME NEW w \in Workers, FinishExchange(w) PROVE RefreshBounded'
  <2>1. SessionsAlone /\ RefreshesAlone
    BY <1>13 DEF FinishExchange, TokensTypeOK, SessionsAlone, RefreshesAlone
  <2>2. QED BY <2>1, SessionsKept
<1>14. ASSUME NEW m \in Managed, RenewToken(m) PROVE RefreshBounded'
  <2>1. SessionsAlone /\ RefreshesAlone
    BY <1>14 DEF RenewToken, TokensTypeOK, Ids, SessionsAlone, RefreshesAlone
  <2>2. QED BY <2>1, SessionsKept
<1>15. QED
  BY <1>1, <1>2, <1>3, <1>4, <1>5, <1>6, <1>7, <1>8, <1>9, <1>10, <1>11, <1>12, <1>13, <1>14
  DEF TokensNext, tokensVars, Manage, Flow, Tick, RotateKey, Authorize, RenderManaged,
      StartRenewal, EndRenewal

\* Whatever a client refreshes, and however late its requests are served, a session ends
\* with the refresh lifetime and one more lifetime (Token.refresh).
THEOREM SessionsEnd == TokensSpec => []SessionBounded
<1>1. TokensInit => RefreshBounded /\ IdsTaken
  BY DEF TokensInit, RefreshBounded, IdsTaken, Ids
<1>2. RefreshBounded => SessionBounded BY DEF RefreshBounded, SessionBounded
<1>3. QED
  BY <1>1, <1>2, StepRefreshBounded, StepIdsTaken, TokensTypeCorrect, PTL DEF TokensSpec

\* Renewal keeps up. Since the renewal service last ended (at now - lag) no more than MaxLag
\* has passed, an iteration under way began after that, and
\*   - a standing token lasts beyond the next end of the service,
\*   - one that the iteration has seen to lasts for two periods from its start,
\*   - one that it has not is as it was loaded, or was written since,
\*   - a request under way writes an expiration that is nearly a whole lifetime ahead.
IterationInTime ==
    /\ lag <= MaxLag
    /\ renewal # None => now - lag <= renewal.at /\ renewal.at <= now

StandingLast ==
    \A m \in Managed : token[m] # None =>
        /\ token[m].delta \in Lifetimes
        /\ token[m].auto => token[m].exp > now - lag + MaxLag

RenewalSees ==
    renewal # None =>
        /\ \A m \in Managed : token[m] # None /\ token[m].auto /\ m \notin renewal.todo =>
              token[m].exp > renewal.at + 2 * MaxLag
        /\ \A m \in renewal.todo :
              /\ renewal.row[m].delta \in Lifetimes
              /\ token[m] # None => \/ token[m].exp = renewal.row[m].exp
                                    \/ token[m].exp > renewal.at + 2 * MaxLag

WritesAhead ==
    \A w \in Workers : call[w] # None /\ call[w].op \in {"refresh", "lifetime", "regenerate"} =>
        /\ call[w].op = "refresh" <=> call[w].id \in Sessions
        /\ call[w].op # "refresh" =>
              /\ call[w].exp > call[w].at + 4 * MaxLag
              /\ call[w].at <= now /\ now <= call[w].at + MaxLag
              /\ call[w].op = "lifetime" => call[w].delta \in Lifetimes

KeepsUp == IterationInTime /\ StandingLast /\ RenewalSees /\ WritesAhead

\* A row that is written lasts for two periods.
RowsAhead ==
    \A m \in Managed :
        \/ token'[m] = token[m]
        \/ token'[m] = None
        \/ (token'[m].delta \in Lifetimes /\ token'[m].exp > now + 2 * MaxLag)

\* A row that is written ahead of the clock leaves the renewal service enough time.
LEMMA RowsAheadKept ==
    ASSUME TokensTypeOK, TokensTypeOK', RenewalLoaded, KeepsUp, RowsAhead,
           UNCHANGED <<now, lag, renewal>>, WritesAhead'
    PROVE  KeepsUp'
<1>1. now \in Nat /\ lag \in Nat /\ lag <= MaxLag
  BY DEF TokensTypeOK, KeepsUp, IterationInTime
<1>2. \A m \in Managed : token'[m] # None => token'[m].exp \in Nat
  BY DEF TokensTypeOK, TokenRows, Ids
<1>3. StandingLast'
  BY <1>1, <1>2 DEF KeepsUp, StandingLast, RowsAhead
<1>4. RenewalSees'
  <2> SUFFICES ASSUME renewal # None PROVE RenewalSees' BY DEF RenewalSees
  <2>1. renewal.at \in Nat /\ renewal.at <= now /\ renewal.todo \subseteq Managed
    BY DEF TokensTypeOK, KeepsUp, IterationInTime
  <2>2. QED BY <1>1, <1>2, <2>1 DEF KeepsUp, RenewalSees, RowsAhead
<1>5. QED BY <1>3, <1>4 DEF KeepsUp, IterationInTime

\* Requests that begin, or end, apart from what they write.
CallsAhead ==
    \A w \in Workers :
        \/ call'[w] = call[w]
        \/ call'[w] = None
        \/ call'[w].op \in {"confirm", "exchange"}
        \/ (call'[w].op = "refresh" /\ call'[w].id \in Sessions)
        \/ (/\ call'[w].op \in {"lifetime", "regenerate"} /\ call'[w].id \in Managed
            /\ call'[w].at = now /\ call'[w].exp > now + 4 * MaxLag
            /\ call'[w].op = "lifetime" => call'[w].delta \in Lifetimes)

\* So does a request that begins now.
LEMMA CallsAheadKept ==
    ASSUME TokensTypeOK, KeepsUp, CallsAhead, UNCHANGED now
    PROVE  WritesAhead'
<1> SUFFICES ASSUME NEW w \in Workers, call'[w] # None,
                    call'[w].op \in {"refresh", "lifetime", "regenerate"}
             PROVE  /\ call'[w].op = "refresh" <=> call'[w].id \in Sessions
                    /\ call'[w].op # "refresh" =>
                       /\ call'[w].exp > call'[w].at + 4 * MaxLag
                       /\ call'[w].at <= now' /\ now' <= call'[w].at + MaxLag
                       /\ call'[w].op = "lifetime" => call'[w].delta \in Lifetimes
  BY DEF WritesAhead
<1>1. now \in Nat BY DEF TokensTypeOK
<1>2. CASE call'[w] = call[w] BY <1>2 DEF KeepsUp, WritesAhead
<1>3. CASE call'[w].op = "refresh" /\ call'[w].id \in Sessions BY <1>3
<1>4. CASE /\ call'[w].op \in {"lifetime", "regenerate"} /\ call'[w].id \in Managed
           /\ call'[w].at = now /\ call'[w].exp > now + 4 * MaxLag
           /\ call'[w].op = "lifetime" => call'[w].delta \in Lifetimes
  BY <1>1, <1>4
<1>5. QED BY <1>2, <1>3, <1>4 DEF CallsAhead

\* Every lifetime of a managed token is longer than four lags of the renewal service: the
\* service may come late to a token, and to the request that has written it.
LongLifetimes == \A d \in Lifetimes : d > 4 * MaxLag

\* Where lifetimes are long against the lag, every step leaves the renewal service enough time.
LEMMA StepKeepsUp ==
    ASSUME LongLifetimes
    PROVE  TokensTypeOK /\ TokensTypeOK' /\ RenewalLoaded /\ KeepsUp /\ [TokensNext]_tokensVars
             => KeepsUp'
<1> SUFFICES ASSUME TokensTypeOK, TokensTypeOK', RenewalLoaded, KeepsUp,
                    [TokensNext]_tokensVars
             PROVE  KeepsUp'
  OBVIOUS
<1>0. now \in Nat /\ lag \in Nat BY DEF TokensTypeOK
<1>1. CASE UNCHANGED <<now, token, call, renewal, lag>>
  BY <1>1 DEF KeepsUp, IterationInTime, StandingLast, RenewalSees, WritesAhead
<1>2. ASSUME UNCHANGED <<now, lag, renewal>>, RowsAhead, CallsAhead PROVE KeepsUp'
  BY <1>2, RowsAheadKept, CallsAheadKept
<1>3. ASSUME NEW t \in Ids, NEW d \in Nat, NEW a \in BOOLEAN, t \in Managed => d \in Lifetimes,
             token' = [token EXCEPT ![t] = NewRow(d, a)]
      PROVE  RowsAhead
  <2>1. \A m \in Managed : m # t => token'[m] = token[m] BY <1>3 DEF TokensTypeOK, Ids
  <2>2. token'[t].exp = now + d /\ token'[t].delta = d BY <1>3 DEF TokensTypeOK, NewRow
  <2>3. QED BY <1>0, <1>3, <2>1, <2>2 DEF RowsAhead, LongLifetimes
<1>4. ASSUME NEW t \in Sessions, Login(t) PROVE KeepsUp'
  <2>1. RowsAhead BY <1>3, <1>4 DEF Login, Insert, Ids
  <2>2. QED BY <1>2, <1>4, <2>1 DEF Login, CallsAhead
<1>5. ASSUME NEW m \in Managed, NEW d \in Lifetimes, NEW a \in BOOLEAN, IssueManaged(m, d, a)
      PROVE  KeepsUp'
  <2>1. RowsAhead BY <1>3, <1>5 DEF IssueManaged, Insert, Ids
  <2>2. QED BY <1>2, <1>5, <2>1 DEF IssueManaged, CallsAhead
<1>6. ASSUME NEW t \in Ids, Revoke(t) PROVE KeepsUp'
  <2>1. RowsAhead BY <1>6 DEF Revoke, RowsAhead, TokensTypeOK, Ids
  <2>2. QED BY <1>2, <1>6, <2>1 DEF Revoke, CallsAhead
<1>7. CASE DeleteOwner
  <2>1. RowsAhead BY <1>7 DEF DeleteOwner, RowsAhead, Ids
  <2>2. QED BY <1>2, <1>7, <2>1 DEF DeleteOwner, CallsAhead
<1>8. ASSUME NEW w \in Workers, NEW v \in values, BeginRefresh(w, v) PROVE KeepsUp'
  <2>1. CallsAhead
    BY <1>8 DEF BeginRefresh, CanRefresh, Begin, Write, CallsAhead, TokensTypeOK
  <2>2. QED BY <1>2, <1>8, <2>1 DEF BeginRefresh, Begin, RowsAhead
<1>9. ASSUME NEW w \in Workers, NEW m \in Managed, NEW d \in Lifetimes, BeginUpdate(w, m, d)
      PROVE  KeepsUp'
  <2>1. /\ \A x \in Workers : x # w => call'[x] = call[x]
        /\ call'[w] = Write("lifetime", m, now + d, [token[m] EXCEPT !.delta = d])
        /\ token[m] \in TokenRows
    BY <1>9 DEF BeginUpdate, Begin, TokensTypeOK, Ids
  <2>2. /\ call'[w].op = "lifetime" /\ call'[w].id = m /\ call'[w].at = now
        /\ call'[w].exp = now + d /\ call'[w].delta = d
    BY <2>1 DEF Write, TokenRows
  <2>3. call'[w].exp > now + 4 * MaxLag
    <3>1. now \in Nat /\ d \in Nat /\ MaxLag \in Nat BY DEF TokensTypeOK
    <3>2. d > 4 * MaxLag BY <1>0 DEF LongLifetimes
    <3>3. now + d > now + 4 * MaxLag BY <3>1, <3>2
    <3>4. QED BY <2>2, <3>3
  <2>4. CallsAhead BY <2>1, <2>2, <2>3 DEF CallsAhead
  <2>5. QED BY <1>2, <1>9, <2>4 DEF BeginUpdate, Begin, RowsAhead
<1>10. ASSUME NEW w \in Workers, NEW m \in Managed, BeginRegenerate(w, m) PROVE KeepsUp'
  <2>1. /\ \A x \in Workers : x # w => call'[x] = call[x]
        /\ call'[w] = Write("regenerate", m, now + token[m].delta,
                             [token[m] EXCEPT !.gen = token[m].gen + 1])
        /\ token[m] # None
    BY <1>10 DEF BeginRegenerate, Begin, TokensTypeOK
  <2>2. token[m].delta \in Lifetimes BY <2>1 DEF KeepsUp, StandingLast
  <2>3. /\ call'[w].op = "regenerate" /\ call'[w].id = m /\ call'[w].at = now
        /\ call'[w].exp = now + token[m].delta
    BY <2>1 DEF Write
  <2>4. call'[w].exp > now + 4 * MaxLag
    <3>1. token[m].delta \in Nat /\ token[m].delta > 4 * MaxLag BY <2>2 DEF LongLifetimes
    <3>2. QED BY <1>0, <2>3, <3>1
  <2>5. CallsAhead BY <2>1, <2>3, <2>4 DEF CallsAhead
  <2>6. QED BY <1>2, <1>10, <2>5 DEF BeginRegenerate, Begin, RowsAhead
<1>11. ASSUME NEW w \in Workers, NEW g \in Grants, NEW v \in values, NEW t \in Sessions,
              BeginConfirm(w, g, v, t)
       PROVE  KeepsUp'
  <2>1. CallsAhead BY <1>11 DEF BeginConfirm, Begin, CallsAhead, TokensTypeOK
  <2>2. QED BY <1>2, <1>11, <2>1 DEF BeginConfirm, Begin, RowsAhead
<1>12. ASSUME NEW w \in Workers, NEW g \in Grants, BeginExchange(w, g) PROVE KeepsUp'
  <2>1. CallsAhead BY <1>12 DEF BeginExchange, Begin, CallsAhead, TokensTypeOK
  <2>2. QED BY <1>2, <1>12, <2>1 DEF BeginExchange, Begin, RowsAhead
<1>13. ASSUME NEW w \in Workers, Finish(w) PROVE KeepsUp'
  <2> DEFINE c == call[w]
  <2>1. c \in Calls /\ c.op \in {"refresh", "lifetime", "regenerate"} /\ c # None /\ c.id \in Ids
    BY <1>13 DEF Finish, TokensTypeOK, Calls
  <2>2. /\ \A t \in Ids : t # c.id => token'[t] = token[t]
        /\ token'[c.id] = Updated(c.id, c)
        /\ \A x \in Workers : call'[x] = call[x] \/ call'[x] = None
    BY <1>13, <2>1 DEF Finish, TokensTypeOK
  <2>3. CASE c.id \notin Managed \/ token[c.id] = None
    BY <1>2, <1>13, <2>2, <2>3 DEF Finish, Ids, Updated, RowsAhead, CallsAhead
  <2>4. CASE c.id \in Managed /\ token[c.id] # None
    <3>1. /\ c.op # "refresh" /\ c.exp > c.at + 4 * MaxLag /\ now <= c.at + MaxLag
          /\ c.op = "lifetime" => c.delta \in Lifetimes
      BY <2>1, <2>4 DEF KeepsUp, WritesAhead
    <3>2. token[c.id] \in TokenRows /\ token[c.id].delta \in Lifetimes
      BY <2>1, <2>4 DEF TokensTypeOK, KeepsUp, StandingLast
    <3>3. /\ token'[c.id].exp = c.exp
          /\ token'[c.id].delta = IF c.op = "lifetime" THEN c.delta ELSE token[c.id].delta
          /\ c.exp \in Nat /\ c.at \in Nat
      BY <2>1, <2>2, <2>4, <3>2, WrittenTyped DEF Updated
    <3>4. token'[c.id].delta \in Lifetimes BY <3>1, <3>2, <3>3
    <3> HIDE DEF c
    <3>5. token'[c.id].exp > now + 2 * MaxLag BY <1>0, <3>1, <3>3
    <3>6. RowsAhead BY <2>2, <3>4, <3>5 DEF RowsAhead, Ids
    <3>7. QED BY <1>2, <1>13, <2>2, <3>6 DEF Finish, CallsAhead
  <2>5. QED BY <2>3, <2>4
<1>14. ASSUME NEW w \in Workers, FinishConfirm(w) PROVE KeepsUp'
  <2>1. call[w].id \in Sessions BY <1>14 DEF FinishConfirm, TokensTypeOK, Calls
  <2>2. CallsAhead BY <1>14 DEF FinishConfirm, TokensTypeOK, CallsAhead
  <2>3. RowsAhead BY <1>14, <2>1 DEF FinishConfirm, RowsAhead, TokensTypeOK, Ids
  <2>4. QED BY <1>2, <1>14, <2>2, <2>3 DEF FinishConfirm
<1>15. ASSUME NEW w \in Workers, FinishExchange(w) PROVE KeepsUp'
  <2>1. CallsAhead BY <1>15 DEF FinishExchange, TokensTypeOK, CallsAhead
  <2>2. QED BY <1>2, <1>15, <2>1 DEF FinishExchange, RowsAhead
<1>16. CASE StartRenewal
  <2>1. UNCHANGED <<now, lag, token, call>> BY <1>16 DEF StartRenewal
  <2>2. /\ renewal'.at = now /\ renewal'.todo = Standing
        /\ \A m \in Managed : renewal'.row[m] = token[m]
    BY <1>16 DEF StartRenewal
  <2>3. IterationInTime' BY <1>0, <2>1, <2>2 DEF KeepsUp, IterationInTime
  <2>4. RenewalSees'
    <3>1. \A m \in Managed : token[m] # None /\ token[m].auto => m \in renewal'.todo
      BY <2>2 DEF Standing
    <3>2. \A m \in renewal'.todo : m \in Managed /\ token[m] # None BY <2>2 DEF Standing
    <3>3. QED BY <2>1, <2>2, <3>1, <3>2 DEF RenewalSees, KeepsUp, StandingLast
  <2>5. QED BY <2>1, <2>3, <2>4 DEF KeepsUp, StandingLast, WritesAhead
<1>17. ASSUME NEW m \in Managed, RenewToken(m) PROVE KeepsUp'
  <2>1. UNCHANGED <<now, lag, call>> /\ renewal # None /\ m \in renewal.todo
    BY <1>17 DEF RenewToken
  <2>2. /\ renewal'.at = renewal.at /\ renewal'.todo = renewal.todo \ {m}
        /\ renewal'.row = renewal.row
    BY <1>17 DEF RenewToken, TokensTypeOK
  <2>3. /\ renewal.row[m] \in TokenRows /\ renewal.row[m].delta \in Lifetimes
        /\ renewal.at \in Nat /\ now - lag <= renewal.at /\ renewal.at <= now /\ lag <= MaxLag
    BY <2>1 DEF RenewalLoaded, TokensTypeOK, KeepsUp, RenewalSees, IterationInTime
  <2>4. renewal.row[m].exp \in Nat /\ renewal.row[m].delta \in Nat
        /\ renewal.row[m].delta > 4 * MaxLag
    BY <2>3 DEF TokenRows, LongLifetimes
  <2>5. \A k \in Ids : k # m => token'[k] = token[k]
    BY <1>17 DEF RenewToken, TokensTypeOK
  <2>6. token'[m] # None => /\ token[m] # None
                            /\ token'[m].delta = token[m].delta
                            /\ token'[m].exp > renewal.at + 2 * MaxLag
    <3>1. CASE NeedsRenewal(renewal.row[m], renewal.at) /\ token[m] # None
      <4>1. token'[m] = [token[m] EXCEPT !.exp = renewal.at + renewal.row[m].delta]
        BY <1>17, <3>1 DEF RenewToken, TokensTypeOK, Ids
      <4>2. token[m] \in TokenRows BY <3>1 DEF TokensTypeOK, Ids
      <4>3. token'[m].delta = token[m].delta /\ token'[m].exp = renewal.at + renewal.row[m].delta
        BY <4>1, <4>2 DEF TokenRows
      <4>4. QED BY <2>3, <2>4, <3>1, <4>3
    <3>2. CASE ~ NeedsRenewal(renewal.row[m], renewal.at) /\ token[m] # None
      <4>1. token'[m] = token[m] BY <1>17, <3>2 DEF RenewToken
      <4>2. 2 * (renewal.row[m].exp - renewal.at) >= renewal.row[m].delta
        BY <2>3, <2>4, <3>2 DEF NeedsRenewal
      <4>3. renewal.row[m].exp > renewal.at + 2 * MaxLag BY <2>3, <2>4, <4>2
      <4>4. \/ token[m].exp = renewal.row[m].exp
            \/ token[m].exp > renewal.at + 2 * MaxLag
        BY <2>1, <3>2 DEF KeepsUp, RenewalSees
      <4>5. QED BY <3>2, <4>1, <4>3, <4>4
    <3>3. CASE token[m] = None BY <1>17, <3>3 DEF RenewToken
    <3>4. QED BY <3>1, <3>2, <3>3
  <2>7. token'[m] # None => token'[m].exp \in Nat BY DEF TokensTypeOK, TokenRows, Ids
  <2>8. StandingLast'
    <3>1. token'[m] # None => token'[m].exp > now - lag + MaxLag
      BY <1>0, <2>3, <2>6, <2>7
    <3>2. QED BY <2>1, <2>5, <2>6, <3>1 DEF KeepsUp, StandingLast, Ids
  <2>9. renewal.todo \subseteq Managed BY <2>1 DEF TokensTypeOK
  <2>10. RenewalSees'
    BY <2>1, <2>2, <2>5, <2>6, <2>9 DEF KeepsUp, RenewalSees, Ids
  <2>11. IterationInTime' BY <2>1, <2>2 DEF KeepsUp, IterationInTime
  <2>12. QED BY <2>1, <2>8, <2>10, <2>11 DEF KeepsUp, WritesAhead
<1>18. CASE EndRenewal
  <2>1. /\ UNCHANGED <<now, token, call>> /\ lag' = 0 /\ renewal' = None
        /\ renewal # None /\ renewal.todo = {} /\ renewal.at \in Nat
    BY <1>18 DEF EndRenewal, TokensTypeOK
  <2>2. now - lag <= renewal.at /\ lag <= MaxLag BY <2>1 DEF KeepsUp, IterationInTime
  <2>3. \A m \in Managed : token[m] # None => token[m].exp \in Nat
    BY DEF TokensTypeOK, TokenRows, Ids
  <2>4. \A m \in Managed : token[m] # None /\ token[m].auto => token[m].exp > now + MaxLag
    BY <1>0, <2>1, <2>2, <2>3 DEF KeepsUp, RenewalSees
  <2>5. StandingLast' BY <1>0, <2>1, <2>4 DEF KeepsUp, StandingLast
  <2>6. QED BY <2>1, <2>5 DEF KeepsUp, IterationInTime, RenewalSees, WritesAhead
<1>19. CASE Tick
  <2>1. /\ UNCHANGED <<token, call, renewal>> /\ now' = now + 1 /\ lag < MaxLag
        /\ lag' = IF Standing = {} /\ renewal = None THEN 0 ELSE lag + 1
        /\ \A w \in Workers : call[w] # None => now - call[w].at < MaxLag
    BY <1>19 DEF Tick
  <2>2. \A w \in Workers : call[w] # None => call[w].at \in Nat
    BY DEF TokensTypeOK, Calls
  <2>3. WritesAhead' BY <1>0, <2>1, <2>2 DEF KeepsUp, WritesAhead
  <2>4. CASE Standing = {} /\ renewal = None
    BY <1>0, <2>1, <2>3, <2>4
    DEF KeepsUp, IterationInTime, StandingLast, RenewalSees, Standing
  <2>5. CASE ~ (Standing = {} /\ renewal = None)
    <3>1. now' - lag' = now - lag /\ lag' <= MaxLag BY <1>0, <2>1, <2>5
    <3>2. renewal # None => renewal.at \in Nat BY DEF TokensTypeOK
    <3>3. IterationInTime' BY <1>0, <2>1, <3>1, <3>2 DEF KeepsUp, IterationInTime
    <3>4. StandingLast' BY <2>1, <3>1 DEF KeepsUp, StandingLast
    <3>5. QED BY <2>1, <2>3, <3>3, <3>4 DEF KeepsUp, RenewalSees
  <2>6. QED BY <2>4, <2>5
<1>20. QED
  BY <1>1, <1>4, <1>5, <1>6, <1>7, <1>8, <1>9, <1>10, <1>11, <1>12, <1>13, <1>14, <1>15,
     <1>16, <1>17, <1>18, <1>19
  DEF TokensNext, tokensVars, Manage, Flow, RotateKey, Authorize, RenderManaged

\* A token that renews itself never lapses, whatever requests race with the renewal service,
\* when lifetimes are more than four times as long as a pause of the service
\* (Token.needs_renewal).
THEOREM StandingTokensServed == LongLifetimes => (TokensSpec => []StandingTokenServed)
<1> SUFFICES ASSUME LongLifetimes PROVE TokensSpec => []StandingTokenServed OBVIOUS
<1>1. TokensInit => KeepsUp
  BY DEF TokensInit, KeepsUp, IterationInTime, StandingLast, RenewalSees, WritesAhead, Ids
<1>2. TokensTypeOK /\ TokensTypeOK' /\ RenewalLoaded /\ KeepsUp /\ [TokensNext]_tokensVars
        => KeepsUp'
  BY StepKeepsUp
<1>3. TokensTypeOK /\ KeepsUp => StandingTokenServed
  <2> SUFFICES ASSUME TokensTypeOK, KeepsUp, NEW m \in Managed, token[m] # None, token[m].auto
               PROVE  now < token[m].exp
    BY DEF StandingTokenServed
  <2>1. now \in Nat /\ lag \in Nat /\ lag <= MaxLag /\ token[m].exp \in Nat
    BY DEF TokensTypeOK, TokenRows, Ids, KeepsUp, IterationInTime
  <2>2. QED BY <2>1 DEF KeepsUp, StandingLast
<1>4. QED BY <1>1, <1>2, <1>3, TokensTypeCorrect, PTL DEF TokensSpec

-----------------------------------------------------------------------------
\* Accounts: one personal workspace.

\* A user is registered once.
RegisteredOnce ==
    /\ user = [u \in Users |-> user[u]]
    /\ \A u \in Users : user[u] # None => u \in known

\* Rows of organizations and of their members.
MembersTyped ==
    /\ org = [o \in Orgs |-> org[o]]
    /\ member \in [Orgs -> [Users -> Roles]]

\* The personal workspace of a user.
Personal(o, u) == org[o] # None /\ org[o].personal = u

\* A user that is there, and whose memberships nobody has touched, owns the workspace that
\* was provisioned for him. So the lookup of a default organization finds it.
OwnsWorkspace ==
    \A o \in Orgs, u \in Users \ left :
        Personal(o, u) => u \in known /\ (user[u] = None \/ member[o][u] = "OWNER")

WorkspaceUnique ==
    \A o, p \in Orgs, u \in Users \ left : Personal(o, u) /\ Personal(p, u) => o = p

WorkspaceInv == RegisteredOnce /\ MembersTyped /\ OwnsWorkspace /\ WorkspaceUnique

\* At first there is neither a user nor an organization.
LEMMA WorkspaceStarts == AccountsInit => WorkspaceInv
BY DEF AccountsInit, WorkspaceInv, RegisteredOnce, MembersTyped, OwnsWorkspace, WorkspaceUnique,
       Personal, Roles

\* Requests that leave organizations alone, and bring no user back, keep the invariant.
LEMMA UsersMayGo ==
    ASSUME WorkspaceInv, RegisteredOnce', UNCHANGED <<org, member, left>>, known \subseteq known',
           \A u \in known : user[u] = None => user'[u] = None
    PROVE  WorkspaceInv'
<1>1. MembersTyped' /\ WorkspaceUnique'
  BY DEF WorkspaceInv, MembersTyped, WorkspaceUnique, Personal
<1>2. OwnsWorkspace'
  BY DEF WorkspaceInv, OwnsWorkspace, Personal
<1>3. QED BY <1>1, <1>2 DEF WorkspaceInv

\* Requests that change memberships keep the invariant, if those whose membership of a
\* personal workspace goes have left.
LEMMA MembersMayLeave ==
    ASSUME WorkspaceInv, UNCHANGED <<user, known>>, MembersTyped', left \subseteq left',
           \A o \in Orgs : org'[o] # org[o] => org'[o] = None \/ org'[o].personal \notin Users,
           \A o \in Orgs, u \in Users \ left' : member[o][u] = "OWNER" => member'[o][u] = "OWNER"
    PROVE  WorkspaceInv'
<1>1. RegisteredOnce'
  BY DEF WorkspaceInv, RegisteredOnce
<1>2. \A o \in Orgs, u \in Users : Personal(o, u)' => Personal(o, u)
  BY DEF Personal
<1>3. OwnsWorkspace' /\ WorkspaceUnique'
  BY <1>2 DEF WorkspaceInv, OwnsWorkspace, WorkspaceUnique
<1>4. QED BY <1>1, <1>3 DEF WorkspaceInv

\* Registration, and steps that write columns of a user's row.
LEMMA AccountKeepsWorkspace ==
    ASSUME WorkspaceInv, Account
    PROVE  WorkspaceInv'
<1>1. UNCHANGED <<org, member, left>>
  BY DEF Account, Register, Expire, BeginSend, BeginByCode, BeginForced, BeginDeleteUser, BeginAct,
         orgVars
<1>2. ASSUME NEW u \in Users, NEW auto \in BOOLEAN, Register(u, auto) PROVE WorkspaceInv'
  <2>1. PICK r : /\ user' = [user EXCEPT ![u] = r] /\ known' = known \union {u} /\ u \notin known
    BY <1>2 DEF Register
  <2>2. RegisteredOnce'
    BY <2>1 DEF WorkspaceInv, RegisteredOnce
  <2>3. \A x \in known : user[x] = None => user'[x] = None
    BY <2>1 DEF WorkspaceInv, RegisteredOnce
  <2>4. QED BY <1>1, <2>1, <2>2, <2>3, UsersMayGo
<1>3. ASSUME NEW u \in Users, Expire(u) PROVE WorkspaceInv'
  <2>1. PICK r : user' = [user EXCEPT ![u] = r] /\ known' = known /\ user[u] # None
    BY <1>3 DEF Expire
  <2>2. RegisteredOnce'
    BY <2>1 DEF WorkspaceInv, RegisteredOnce
  <2>3. \A x \in known : user[x] = None => user'[x] = None
    BY <2>1 DEF WorkspaceInv, RegisteredOnce
  <2>4. QED BY <1>1, <2>1, <2>2, <2>3, UsersMayGo
<1>4. CASE UNCHANGED <<user, known>>
  <2>1. RegisteredOnce' BY <1>4 DEF WorkspaceInv, RegisteredOnce
  <2>2. QED BY <1>1, <1>4, <2>1, UsersMayGo
<1>5. QED
  BY <1>2, <1>3, <1>4 DEF Account, BeginSend, BeginByCode, BeginForced, BeginDeleteUser, BeginAct

\* Organizations and their members.
LEMMA RequestsKeepWorkspace ==
    ASSUME WorkspaceInv, Workspace
    PROVE  WorkspaceInv'
<1> USE AccountsAssumption
<1>1. ASSUME NEW u \in Users, NEW o \in Orgs, CreateOrganization(u, o) PROVE WorkspaceInv'
  <2>1. /\ org[o] = None /\ org' = [org EXCEPT ![o] = [personal |-> None]]
        /\ member' = [member EXCEPT ![o][u] = "OWNER"]
        /\ UNCHANGED <<user, known, left>>
    BY <1>1 DEF CreateOrganization
  <2>2. MembersTyped'
    BY <2>1 DEF WorkspaceInv, MembersTyped, Roles
  <2>3. /\ \A x \in Orgs : org'[x] # org[x] => org'[x].personal \notin Users
        /\ \A x \in Orgs, y \in Users : member[x][y] = "OWNER" => member'[x][y] = "OWNER"
    BY <2>1 DEF WorkspaceInv, MembersTyped
  <2>4. QED BY <2>1, <2>2, <2>3, MembersMayLeave
<1>2. ASSUME NEW u \in Users, NEW o \in Orgs, DeleteOrganization(u, o) PROVE WorkspaceInv'
  <2>1. /\ org' = [org EXCEPT ![o] = None]
        /\ left' = left \union {y \in Users : member[o][y] # None}
        /\ member' = [member EXCEPT ![o] = [y \in Users |-> None]]
        /\ UNCHANGED <<user, known>>
    BY <1>2 DEF DeleteOrganization
  <2>2. MembersTyped'
    BY <2>1 DEF WorkspaceInv, MembersTyped, Roles
  <2>3. /\ \A x \in Orgs : org'[x] # org[x] => org'[x] = None
        /\ \A x \in Orgs, y \in Users \ left' : member[x][y] = "OWNER" => member'[x][y] = "OWNER"
    BY <2>1 DEF WorkspaceInv, MembersTyped
  <2>4. QED BY <2>1, <2>2, <2>3, MembersMayLeave
<1>3. ASSUME NEW a \in Users, NEW u \in Users, NEW o \in Orgs, NEW r \in {None, "OWNER", "MEMBER"},
             member' = [member EXCEPT ![o][u] = r], UNCHANGED <<user, known, org>>,
             left \subseteq left', u \in left' \/ member[o][u] = None
      PROVE  WorkspaceInv'
  <2>1. MembersTyped'
    BY <1>3 DEF WorkspaceInv, MembersTyped, Roles
  <2>2. \A x \in Orgs, y \in Users \ left' : member[x][y] = "OWNER" => member'[x][y] = "OWNER"
    BY <1>3 DEF WorkspaceInv, MembersTyped
  <2>3. QED BY <1>3, <2>1, <2>2, MembersMayLeave
<1>4. ASSUME NEW a \in Users, NEW u \in Users, NEW o \in Orgs, RemoveMember(a, o, u) PROVE WorkspaceInv'
  BY <1>3, <1>4 DEF RemoveMember
<1>5. ASSUME NEW a \in Users, NEW u \in Users, NEW o \in Orgs, NEW r \in {"OWNER", "MEMBER"},
             AddMember(a, o, u, r)
      PROVE  WorkspaceInv'
  BY <1>3, <1>5 DEF AddMember
<1>6. ASSUME NEW a \in Users, NEW u \in Users, NEW o \in Orgs, NEW r \in {"OWNER", "MEMBER"},
             ChangeRole(a, o, u, r)
      PROVE  WorkspaceInv'
  BY <1>3, <1>6 DEF ChangeRole
<1>7. CASE UNCHANGED <<user, known, org, member, left>>
  <2>1. RegisteredOnce' BY <1>7 DEF WorkspaceInv, RegisteredOnce
  <2>2. QED BY <1>7, <2>1, UsersMayGo
<1>8. ASSUME NEW u \in Users, NEW o \in Orgs, NEW p \in Projects, CreateProject(u, o, p)
      PROVE  UNCHANGED <<user, known, org, member, left>>
  BY <1>8 DEF CreateProject
<1>9. ASSUME NEW w \in Workers, NEW a \in Users, NEW p \in Projects,
             BeginDeleteProject(w, a, p) \/ \E u \in Users : BeginAddUser(w, a, u, p)
      PROVE  UNCHANGED <<user, known, org, member, left>>
  BY <1>9 DEF BeginDeleteProject, BeginAddUser, BeginAct, orgVars
<1>10. QED BY <1>1, <1>2, <1>4, <1>5, <1>6, <1>7, <1>8, <1>9 DEF Workspace

\* Confirming an address provisions a workspace for a user that has none.
LEMMA EmailKeepsWorkspace ==
    ASSUME WorkspaceInv, NEW w \in Workers, FinishEmail(w)
    PROVE  WorkspaceInv'
<1> USE AccountsAssumption
<1>1. PICK u, row, r :
        /\ u = act[w].user /\ row = act[w].row /\ user[u] # None /\ user' = [user EXCEPT ![u] = r]
        /\ known' = known
        /\ IF NeedsWorkspace(u, row) THEN ProvisionWorkspace(u) ELSE UNCHANGED orgVars
  BY DEF FinishEmail
<1>2. RegisteredOnce' /\ \A x \in known : user[x] = None => user'[x] = None
  BY <1>1 DEF WorkspaceInv, RegisteredOnce
<1>3. CASE UNCHANGED orgVars
  BY <1>1, <1>2, <1>3, UsersMayGo DEF orgVars
<1>4. CASE NeedsWorkspace(u, row) /\ ProvisionWorkspace(u)
  <2>1. PICK o \in Orgs : /\ org[o] = None
                          /\ org' = [org EXCEPT ![o] = [personal |-> u]]
                          /\ member' = [member EXCEPT ![o][u] = "OWNER"]
                          /\ UNCHANGED left
    BY <1>4 DEF ProvisionWorkspace
  <2>2. MembersTyped'
    BY <2>1 DEF WorkspaceInv, MembersTyped, Roles
  <2>3. /\ \A x \in Orgs, y \in Users : Personal(x, y)' => Personal(x, y) \/ (x = o /\ y = u)
        /\ \A x \in Orgs, y \in Users : member[x][y] = "OWNER" => member'[x][y] = "OWNER"
        /\ u \in Users => member'[o][u] = "OWNER"
    BY <2>1 DEF WorkspaceInv, MembersTyped, Personal
  <2>4. u \in Users \ left => u \in known /\ \A x \in Orgs : ~ Personal(x, u)
    BY <1>1, <1>4 DEF NeedsWorkspace, HasDefault, WorkspaceInv, OwnsWorkspace, RegisteredOnce
  <2>5. OwnsWorkspace'
    BY <1>1, <1>2, <2>1, <2>3, <2>4 DEF WorkspaceInv, OwnsWorkspace
  <2>6. WorkspaceUnique'
    BY <2>1, <2>3, <2>4 DEF WorkspaceInv, WorkspaceUnique
  <2>7. QED BY <1>2, <2>2, <2>5, <2>6 DEF WorkspaceInv
<1>5. QED BY <1>1, <1>3, <1>4

\* The second halves of the other requests, and the janitor.
LEMMA CommitsKeepWorkspace ==
    ASSUME WorkspaceInv,
           JanitorLoads \/ JanitorClears \/ \E w \in Workers : Commit(w)
    PROVE  WorkspaceInv'
<1>1. ASSUME UNCHANGED <<org, member, left, known>>, RegisteredOnce',
             \A x \in Users : user[x] = None => user'[x] = None
      PROVE  WorkspaceInv'
  <2>1. \A x \in Users : x \in known /\ user[x] = None => user'[x] = None
    BY <1>1
  <2>2. MembersTyped' /\ WorkspaceUnique'
    BY <1>1 DEF WorkspaceInv, MembersTyped, WorkspaceUnique, Personal
  <2>3. OwnsWorkspace'
    BY <1>1 DEF WorkspaceInv, OwnsWorkspace, Personal
  <2>4. QED BY <1>1, <2>2, <2>3 DEF WorkspaceInv
<1>2. ASSUME NEW u, NEW r, user[u] # None, user' = [user EXCEPT ![u] = r],
             UNCHANGED <<org, member, left, known>>
      PROVE  WorkspaceInv'
  <2>1. RegisteredOnce' /\ \A x \in Users : user[x] = None => user'[x] = None
    BY <1>2 DEF WorkspaceInv, RegisteredOnce
  <2>2. QED BY <1>1, <1>2, <2>1
<1>3. ASSUME UNCHANGED <<user, org, member, left, known>> PROVE WorkspaceInv'
  <2>1. RegisteredOnce' BY <1>3 DEF WorkspaceInv, RegisteredOnce
  <2>2. QED BY <1>1, <1>3, <2>1
<1>4. ASSUME NEW w \in Workers, Fails(w) \/ FinishAddUser(w) \/ FinishDeleteProject(w) PROVE WorkspaceInv'
  <2>1. UNCHANGED <<user, org, member, left, known>>
    BY <1>4 DEF Fails, FinishAddUser, FinishDeleteProject, orgVars
  <2>2. QED BY <1>3, <2>1
<1>5. ASSUME NEW w \in Workers, FinishSend(w) PROVE WorkspaceInv'
  <2>1. PICK r : /\ user[act[w].user] # None /\ user' = [user EXCEPT ![act[w].user] = r]
                 /\ UNCHANGED <<org, member, left, known>>
    BY <1>5 DEF FinishSend, orgVars
  <2>2. QED BY <1>2, <2>1
<1>6. ASSUME NEW w \in Workers, FinishReset(w) PROVE WorkspaceInv'
  <2>1. PICK r : /\ user[act[w].user] # None /\ user' = [user EXCEPT ![act[w].user] = r]
                 /\ UNCHANGED <<org, member, left, known>>
    BY <1>6 DEF FinishReset, orgVars
  <2>2. QED BY <1>2, <2>1
<1>7. ASSUME NEW w \in Workers, FinishDeleteUser(w) PROVE WorkspaceInv'
  <2>1. UNCHANGED <<org, left, known>>
    BY <1>7 DEF FinishDeleteUser
  <2>2. CASE UNCHANGED <<user, member>>
    BY <1>3, <2>1, <2>2
  <2>3. CASE /\ user' = [user EXCEPT ![act[w].user] = None]
             /\ member' = [o \in Orgs |-> [member[o] EXCEPT ![act[w].user] = None]]
    <3>1. RegisteredOnce'
      BY <2>1, <2>3 DEF WorkspaceInv, RegisteredOnce
    <3>2. MembersTyped'
      BY <2>1, <2>3 DEF WorkspaceInv, MembersTyped, Roles
    <3>3. OwnsWorkspace'
      <4>1. \A o \in Orgs, u \in Users :
               IF u = act[w].user THEN user'[u] = None
               ELSE user'[u] = user[u] /\ member'[o][u] = member[o][u]
        BY <2>3 DEF WorkspaceInv, RegisteredOnce, MembersTyped
      <4>2. QED BY <2>1, <4>1 DEF WorkspaceInv, OwnsWorkspace, Personal
    <3>4. WorkspaceUnique'
      BY <2>1 DEF WorkspaceInv, WorkspaceUnique, Personal
    <3>5. QED BY <3>1, <3>2, <3>3, <3>4 DEF WorkspaceInv
  <2>4. QED BY <1>7, <2>2, <2>3 DEF FinishDeleteUser
<1>8. CASE JanitorLoads
  BY <1>3, <1>8 DEF JanitorLoads, orgVars
<1>9. CASE JanitorClears
  <2>1. UNCHANGED <<org, member, left, known>>
    BY <1>9 DEF JanitorClears, orgVars
  <2>2. CASE user' = user BY <1>3, <2>1, <2>2
  <2>3. CASE /\ \A u \in DOMAIN janitor : user[u] # None
             /\ user' = [u \in Users |-> IF u \in DOMAIN janitor
                                         THEN Saved(user[u], CodeCleared(janitor[u]))
                                         ELSE user[u]]
    <3>1. RegisteredOnce' /\ \A x \in Users : user[x] = None => user'[x] = None
      BY <2>1, <2>3 DEF WorkspaceInv, RegisteredOnce
    <3>2. QED BY <1>1, <2>1, <3>1
  <2>4. QED BY <1>9, <2>2, <2>3 DEF JanitorClears
<1>10. QED BY <1>4, <1>5, <1>6, <1>7, <1>8, <1>9, EmailKeepsWorkspace DEF Commit

\* However many confirmations of an address race, with each other, with requests about
\* members and with the janitor, one personal workspace is provisioned: for any users,
\* organizations and workers (UserController._maybe_provision_workspace).
THEOREM OneWorkspaceEach == AccountsSpec => []OneWorkspace
<1>1. AccountsInit => WorkspaceInv
  BY WorkspaceStarts
<1>2. WorkspaceInv /\ [AccountsNext]_accountsVars => WorkspaceInv'
  <2> SUFFICES ASSUME WorkspaceInv, [AccountsNext]_accountsVars PROVE WorkspaceInv'
    OBVIOUS
  <2>1. CASE Account BY <2>1, AccountKeepsWorkspace
  <2>2. CASE Workspace BY <2>2, RequestsKeepWorkspace
  <2>3. CASE JanitorLoads \/ JanitorClears \/ \E w \in Workers : Commit(w)
    BY <2>3, CommitsKeepWorkspace
  <2>4. CASE UNCHANGED accountsVars
    <3>1. UNCHANGED <<user, known, org, member, left>> BY <2>4 DEF accountsVars
    <3>2. RegisteredOnce' BY <3>1 DEF WorkspaceInv, RegisteredOnce
    <3>3. QED BY <3>1, <3>2, UsersMayGo
  <2>5. QED BY <2>1, <2>2, <2>3, <2>4 DEF AccountsNext
<1>3. WorkspaceInv => OneWorkspace
  <2> SUFFICES ASSUME WorkspaceInv, NEW u \in Users \ left
               PROVE  Cardinality({o \in Orgs : org[o] # None /\ org[o].personal = u}) <= 1
    BY DEF OneWorkspace
  <2> DEFINE S == {o \in Orgs : org[o] # None /\ org[o].personal = u}
  <2>1. \A o, p \in S : o = p
    BY DEF WorkspaceInv, WorkspaceUnique, Personal
  <2> HIDE DEF S
  <2>2. CASE S = {}
    <3>1. Cardinality(S) = 0 BY <2>2, FS_EmptySet
    <3>2. QED BY <3>1 DEF S
  <2>3. CASE S # {}
    <3>1. PICK o : S = {o} BY <2>1, <2>3
    <3>2. Cardinality(S) = 1 BY <3>1, FS_Singleton
    <3>3. QED BY <3>2 DEF S
  <2>4. QED BY <2>2, <2>3
<1>4. QED BY <1>1, <1>2, <1>3, PTL DEF AccountsSpec

-----------------------------------------------------------------------------
\* Accounts: the code in the last mail.

\* Rows of users hold a code and its age; requests in flight are kept by worker.
CodesTyped ==
    /\ user = [u \in Users |-> user[u]]
    /\ \A u \in Users : user[u] # None => {"code", "made"} \subseteq DOMAIN user[u]
    /\ mail = [u \in Users |-> mail[u]]
    /\ act = [w \in Workers |-> act[w]]
    /\ codes \in Nat

\* One request at a time is between its halves, and none while the janitor works.
OneInFlight ==
    /\ \A v, w \in Workers : act[v] # None /\ act[w] # None => v = w
    /\ janitor # None => \A w \in Workers : act[w] = None

\* A request that sends a code has loaded the code that the row still holds.
LoadedIsCurrent ==
    \A w \in Workers : act[w] # None /\ act[w].op = "send" =>
        LET u == act[w].user
        IN  u \in Users /\ (user[u] = None \/ user[u].code = act[w].row.code)

\* The janitor has loaded users whose last mail is of no use any more.
JanitorLoadedStale == janitor # None => \A u \in Users \cap DOMAIN janitor : mail[u] = None

MailedWorks ==
    \A u \in Users : mail[u] # None /\ user[u] # None => CodeAccepted(user[u], mail[u])

CodesInv ==
    /\ CodesTyped
    /\ ~ overlap => OneInFlight /\ LoadedIsCurrent /\ JanitorLoadedStale /\ MailedWorks

\* Steps that leave codes, rows of users and requests alone, if they change none of what the
\* invariant speaks of.
LEMMA CodesUntouched ==
    ASSUME CodesInv, UNCHANGED <<user, mail, act, codes, janitor, overlap>>
    PROVE  CodesInv'
BY DEF CodesInv, CodesTyped, OneInFlight, LoadedIsCurrent, JanitorLoadedStale, MailedWorks,
       CodeAccepted

\* A request that begins, where requests do not overlap, is the only one.
LEMMA BeginKeepsMail ==
    ASSUME CodesInv, NEW w \in Workers, NEW a, BeginAct(w, a),
           a # None /\ a.op = "send" => a.user \in Users /\ a.row = user[a.user]
    PROVE  CodesInv'
<1>1. /\ act' = [act EXCEPT ![w] = a] /\ UNCHANGED <<user, mail, codes, janitor, overlap>>
      /\ ~ overlap => janitor = None /\ \A v \in Workers : act[v] = None
  BY DEF BeginAct, Act, Quiet
<1>2. CodesTyped'
  BY <1>1 DEF CodesInv, CodesTyped
<1>3. ASSUME ~ overlap PROVE OneInFlight' /\ LoadedIsCurrent'
  <2>1. /\ janitor' = None
        /\ \A v \in Workers : act'[v] = IF v = w THEN a ELSE None
    BY <1>1, <1>3 DEF CodesInv, CodesTyped
  <2>2. OneInFlight'
    BY <2>1 DEF OneInFlight
  <2>3. LoadedIsCurrent'
    BY <1>1, <2>1 DEF LoadedIsCurrent
  <2>4. QED BY <2>2, <2>3
<1>4. ASSUME ~ overlap PROVE JanitorLoadedStale' /\ MailedWorks'
  BY <1>1, <1>4 DEF CodesInv, JanitorLoadedStale, MailedWorks, CodeAccepted
<1>5. QED BY <1>1, <1>2, <1>3, <1>4 DEF CodesInv

\* Registration, requests about a user, and an hour that passes.
LEMMA AccountKeepsCodes ==
    ASSUME CodesInv, Account
    PROVE  CodesInv'
<1> USE AccountsAssumption
<1>1. ASSUME NEW u \in Users, NEW auto \in BOOLEAN, Register(u, auto) PROVE CodesInv'
  <2> DEFINE r == [verified |-> FALSE, code |-> codes + 1, made |-> "fresh",
                   secret |-> "first", auto |-> auto]
  <2>1. /\ user' = [user EXCEPT ![u] = r] /\ mail' = [mail EXCEPT ![u] = codes + 1]
        /\ codes' = codes + 1 /\ UNCHANGED <<act, janitor, overlap>>
        /\ ~ overlap => janitor = None /\ \A v \in Workers : act[v] = None
    BY <1>1 DEF Register, Act, Quiet
  <2>2. CodesTyped'
    <3>1. {"code", "made"} \subseteq DOMAIN r OBVIOUS
    <3> HIDE DEF r
    <3>2. \A x \in Users : user'[x] = IF x = u THEN r ELSE user[x]
      BY <2>1 DEF CodesInv, CodesTyped
    <3>3. \A x \in Users : user'[x] # None => {"code", "made"} \subseteq DOMAIN user'[x]
      BY <3>1, <3>2 DEF CodesInv, CodesTyped
    <3>4. user' = [x \in Users |-> user'[x]] /\ mail' = [x \in Users |-> mail'[x]]
      BY <2>1 DEF CodesInv, CodesTyped
    <3>5. act' = [w \in Workers |-> act'[w]] /\ codes' \in Nat
      BY <2>1 DEF CodesInv, CodesTyped
    <3>6. QED BY <3>3, <3>4, <3>5 DEF CodesTyped
  <2>3. CodeAccepted(r, codes + 1)
    BY DEF CodesInv, CodesTyped, CodeAccepted
  <2> HIDE DEF r
  <2>4. ASSUME ~ overlap PROVE MailedWorks'
    <3>1. \A x \in Users : IF x = u THEN user'[x] = r /\ mail'[x] = codes + 1
                           ELSE user'[x] = user[x] /\ mail'[x] = mail[x]
      BY <2>1 DEF CodesInv, CodesTyped
    <3>2. QED BY <2>3, <2>4, <3>1 DEF CodesInv, MailedWorks, CodeAccepted
  <2>5. ASSUME ~ overlap PROVE OneInFlight' /\ LoadedIsCurrent' /\ JanitorLoadedStale'
    BY <2>1, <2>5 DEF OneInFlight, LoadedIsCurrent, JanitorLoadedStale
  <2>6. QED BY <2>1, <2>2, <2>4, <2>5 DEF CodesInv
<1>2. ASSUME NEW u \in Users, Expire(u) PROVE CodesInv'
  <2>1. /\ user[u] # None /\ user' = [user EXCEPT ![u].made = "old"]
        /\ mail' = [mail EXCEPT ![u] = None] /\ UNCHANGED <<act, codes, janitor, overlap>>
    BY <1>2 DEF Expire
  <2>2. /\ \A x \in Users \ {u} : user'[x] = user[x] /\ mail'[x] = mail[x]
        /\ user'[u].code = user[u].code /\ DOMAIN user'[u] = DOMAIN user[u] /\ mail'[u] = None
        /\ user' = [x \in Users |-> user'[x]] /\ mail' = [x \in Users |-> mail'[x]]
    BY <2>1 DEF CodesInv, CodesTyped
  <2>3. CodesTyped'
    BY <2>1, <2>2 DEF CodesInv, CodesTyped
  <2>4. ASSUME ~ overlap PROVE MailedWorks' /\ JanitorLoadedStale' /\ OneInFlight'
    BY <2>1, <2>2, <2>4 DEF CodesInv, MailedWorks, JanitorLoadedStale, OneInFlight, CodeAccepted
  <2>5. ASSUME ~ overlap PROVE LoadedIsCurrent'
    BY <2>1, <2>2, <2>5 DEF CodesInv, LoadedIsCurrent
  <2>6. QED BY <2>1, <2>3, <2>4, <2>5 DEF CodesInv
<1>3. ASSUME NEW w \in Workers, NEW u \in Users, NEW op, NEW m \in BOOLEAN,
             BeginAct(w, Loaded(op, u, m))
      PROVE  CodesInv'
  BY <1>3, BeginKeepsMail DEF Loaded
<1>4. ASSUME NEW w \in Workers, NEW u \in Users, BeginDeleteUser(w, u) PROVE CodesInv'
  BY <1>4, BeginKeepsMail DEF BeginDeleteUser
<1>5. QED BY <1>1, <1>2, <1>3, <1>4 DEF Account, BeginSend, BeginByCode, BeginForced

\* Requests about organizations and projects.
LEMMA WorkspaceKeepsCodes ==
    ASSUME CodesInv, Workspace
    PROVE  CodesInv'
<1>1. ASSUME NEW w \in Workers, NEW a \in Users, NEW p \in Projects, BeginDeleteProject(w, a, p)
      PROVE  CodesInv'
  BY <1>1, BeginKeepsMail DEF BeginDeleteProject
<1>2. ASSUME NEW w \in Workers, NEW a \in Users, NEW u \in Users, NEW p \in Projects,
             BeginAddUser(w, a, u, p)
      PROVE  CodesInv'
  BY <1>2, BeginKeepsMail DEF BeginAddUser
<1>3. CASE UNCHANGED <<user, mail, act, codes, janitor, overlap>>
  BY <1>3, CodesUntouched
<1>4. ASSUME NEW u \in Users, NEW o \in Orgs, NEW p \in Projects,
             \/ CreateOrganization(u, o) \/ DeleteOrganization(u, o) \/ CreateProject(u, o, p)
      PROVE  UNCHANGED <<user, mail, act, codes, janitor, overlap>>
  BY <1>4 DEF CreateOrganization, DeleteOrganization, CreateProject
<1>5. ASSUME NEW a \in Users, NEW u \in Users, NEW o \in Orgs, NEW r,
             RemoveMember(a, o, u) \/ AddMember(a, o, u, r) \/ ChangeRole(a, o, u, r)
      PROVE  UNCHANGED <<user, mail, act, codes, janitor, overlap>>
  BY <1>5 DEF RemoveMember, AddMember, ChangeRole
<1>6. ASSUME NEW u \in Users, NEW o \in Orgs, CreateOrganization(u, o) \/ DeleteOrganization(u, o)
      PROVE  UNCHANGED <<user, mail, act, codes, janitor, overlap>>
  BY <1>6 DEF CreateOrganization, DeleteOrganization
<1>7. QED BY <1>1, <1>2, <1>3, <1>4, <1>5, <1>6 DEF Workspace

\* A request ends and at most the row and the mail of one user change: where requests do not
\* overlap it was the only one.
LEMMA EndKeepsCodes ==
    ASSUME CodesInv, NEW w \in Workers, act[w] # None, End(w), UNCHANGED <<janitor, overlap>>,
           codes' \in Nat,
           NEW u, NEW r, NEW m, user' = [user EXCEPT ![u] = r], mail' = [mail EXCEPT ![u] = m],
           u \in Users /\ r # None => {"code", "made"} \subseteq DOMAIN r,
           ~ overlap /\ u \in Users /\ r # None /\ m # None => CodeAccepted(r, m)
    PROVE  CodesInv'
<1>1. CodesTyped'
  BY DEF CodesInv, CodesTyped, End
<1>2. ASSUME ~ overlap PROVE janitor' = None /\ \A v \in Workers : act'[v] = None
  BY <1>2 DEF CodesInv, CodesTyped, OneInFlight, End
<1>3. ASSUME ~ overlap PROVE OneInFlight' /\ LoadedIsCurrent' /\ JanitorLoadedStale'
  BY <1>2, <1>3 DEF OneInFlight, LoadedIsCurrent, JanitorLoadedStale
<1>4. ASSUME ~ overlap PROVE MailedWorks'
  <2>1. \A x \in Users : IF x = u THEN user'[x] = r /\ mail'[x] = m
                         ELSE user'[x] = user[x] /\ mail'[x] = mail[x]
    BY DEF CodesInv, CodesTyped
  <2>2. QED BY <1>4, <2>1 DEF CodesInv, MailedWorks, CodeAccepted
<1>5. QED BY <1>1, <1>3, <1>4 DEF CodesInv

\* What a request has decided is written.
LEMMA CommitKeepsCodes ==
    ASSUME CodesInv, NEW w \in Workers, Commit(w)
    PROVE  CodesInv'
<1> USE AccountsAssumption
<1>1. ASSUME act[w] # None, End(w), UNCHANGED <<user, mail, codes, janitor, overlap>>
      PROVE  CodesInv'
  <2>1. PICK u : u = act[w].user OBVIOUS
  <2>2. CodesTyped'
    BY <1>1 DEF CodesInv, CodesTyped, End
  <2>3. ASSUME ~ overlap PROVE janitor' = None /\ \A v \in Workers : act'[v] = None
    BY <1>1, <2>3 DEF CodesInv, CodesTyped, OneInFlight, End
  <2>4. ASSUME ~ overlap PROVE OneInFlight' /\ LoadedIsCurrent' /\ JanitorLoadedStale'
    BY <2>3, <2>4 DEF OneInFlight, LoadedIsCurrent, JanitorLoadedStale
  <2>5. ASSUME ~ overlap PROVE MailedWorks'
    BY <1>1, <2>5 DEF CodesInv, MailedWorks, CodeAccepted
  <2>6. QED BY <1>1, <2>2, <2>4, <2>5 DEF CodesInv
<1>2. CASE Fails(w) \/ FinishAddUser(w) \/ FinishDeleteProject(w)
  BY <1>1, <1>2 DEF Fails, FinishAddUser, FinishDeleteProject
<1>3. CASE FinishSend(w)
  <2> DEFINE u == act[w].user
             old == act[w].row.code
             r == Saved(user[u], CodeMade(act[w].row))
             m == IF old = None THEN codes + 1 ELSE old
  <2>1. /\ act[w] # None /\ act[w].op = "send" /\ user[u] # None /\ End(w)
        /\ user' = [user EXCEPT ![u] = r] /\ mail' = [mail EXCEPT ![u] = m]
        /\ codes' = IF old = None THEN codes + 1 ELSE codes
        /\ UNCHANGED <<janitor, overlap>>
    BY <1>3 DEF FinishSend
  <2>2. codes' \in Nat
    BY <2>1 DEF CodesInv, CodesTyped
  <2>3. u \in Users => {"code", "made"} \subseteq DOMAIN user[u]
    BY <2>1 DEF CodesInv, CodesTyped
  <2>4. DOMAIN r = DOMAIN user[u]
    BY DEF Saved
  <2>5. ASSUME ~ overlap, u \in Users PROVE CodeAccepted(r, m)
    <3>1. user[u].code = old
      BY <2>1, <2>5 DEF CodesInv, LoadedIsCurrent
    <3>2. CASE old = None
      <4>1. r.code = codes + 1 /\ r.made = "fresh"
        BY <2>3, <2>5, <3>2 DEF Saved, CodeMade
      <4>2. QED BY <3>2, <4>1 DEF CodeAccepted, CodesInv, CodesTyped
    <3>3. CASE old # None
      <4>1. r.code = old /\ r.made = "fresh"
        BY <2>3, <2>5, <3>1, <3>3 DEF Saved, CodeMade
      <4>2. QED BY <3>3, <4>1 DEF CodeAccepted
    <3>4. QED BY <3>2, <3>3
  <2> HIDE DEF u, old, r, m
  <2>6. QED BY <2>1, <2>2, <2>3, <2>4, <2>5, EndKeepsCodes
<1>4. ASSUME NEW u, NEW mid, NEW c, act[w] # None, End(w), UNCHANGED <<janitor, codes, overlap>>,
             user[u] # None, DOMAIN mid = DOMAIN user[u],
             user' = [user EXCEPT ![u] = Saved(mid, c)], mail' = [mail EXCEPT ![u] = None]
      PROVE  CodesInv'
  <2>1. DOMAIN Saved(mid, c) = DOMAIN user[u]
    BY <1>4 DEF Saved
  <2>2. codes' \in Nat /\ (u \in Users => {"code", "made"} \subseteq DOMAIN Saved(mid, c))
    BY <1>4, <2>1 DEF CodesInv, CodesTyped
  <2>3. PICK r : r = Saved(mid, c) OBVIOUS
  <2>4. PICK m : m = None OBVIOUS
  <2>5. QED BY <1>4, <2>2, <2>3, <2>4, EndKeepsCodes
<1>5. CASE FinishEmail(w)
  <2>1. /\ act[w] # None /\ End(w) /\ UNCHANGED <<janitor, codes, overlap>>
        /\ user[act[w].user] # None
        /\ user' = [user EXCEPT ![act[w].user] =
                       Saved([user[act[w].user] EXCEPT !.verified = TRUE], CodeCleared(act[w].row))]
        /\ mail' = [mail EXCEPT ![act[w].user] = None]
    BY <1>5 DEF FinishEmail
  <2>2. DOMAIN [user[act[w].user] EXCEPT !.verified = TRUE] = DOMAIN user[act[w].user]
    OBVIOUS
  <2>3. QED BY <1>4, <2>1, <2>2
<1>6. CASE FinishReset(w)
  <2>1. /\ act[w] # None /\ End(w) /\ UNCHANGED <<janitor, codes, overlap>>
        /\ user[act[w].user] # None
        /\ user' = [user EXCEPT ![act[w].user] =
                       Saved([user[act[w].user] EXCEPT !.secret = "changed"],
                             CodeCleared(act[w].row))]
        /\ mail' = [mail EXCEPT ![act[w].user] = None]
    BY <1>6 DEF FinishReset
  <2>2. DOMAIN [user[act[w].user] EXCEPT !.secret = "changed"] = DOMAIN user[act[w].user]
    OBVIOUS
  <2>3. QED BY <1>4, <2>1, <2>2
<1>7. CASE FinishDeleteUser(w)
  <2>1. act[w] # None /\ End(w) /\ UNCHANGED <<janitor, codes, overlap>>
    BY <1>7 DEF FinishDeleteUser
  <2>2. CASE UNCHANGED <<user, mail>>
    BY <1>1, <2>1, <2>2
  <2>3. CASE /\ user' = [user EXCEPT ![act[w].user] = None]
             /\ mail' = [mail EXCEPT ![act[w].user] = None]
    <3>1. PICK u, r : u = act[w].user /\ r = None OBVIOUS
    <3>2. codes' \in Nat BY <2>1 DEF CodesInv, CodesTyped
    <3>3. QED BY <2>1, <2>3, <3>1, <3>2, EndKeepsCodes
  <2>4. QED BY <1>7, <2>2, <2>3 DEF FinishDeleteUser
<1>8. QED BY <1>2, <1>3, <1>5, <1>6, <1>7 DEF Commit

\* The janitor loads users whose codes are old, or have no time, and clears the codes.
LEMMA JanitorKeepsCodes ==
    ASSUME CodesInv, JanitorLoads \/ JanitorClears
    PROVE  CodesInv'
<1>1. CASE JanitorLoads
  <2> DEFINE bad == {u \in Users : user[u] # None /\ BadCode(user[u])}
  <2>1. /\ janitor' = [u \in bad |-> user[u]] /\ UNCHANGED <<user, mail, act, codes, overlap>>
        /\ ~ overlap => \A w \in Workers : act[w] = None
    BY <1>1 DEF JanitorLoads, Quiet
  <2>2. CodesTyped'
    BY <2>1 DEF CodesInv, CodesTyped
  <2>3. ASSUME ~ overlap PROVE OneInFlight' /\ LoadedIsCurrent' /\ MailedWorks'
    BY <2>1, <2>3 DEF CodesInv, OneInFlight, LoadedIsCurrent, MailedWorks, CodeAccepted
  <2>4. ASSUME ~ overlap PROVE JanitorLoadedStale'
    <3>1. \A u \in bad : mail[u] = None
      BY <2>4, AccountsAssumption DEF CodesInv, MailedWorks, CodeAccepted, BadCode
    <3>2. DOMAIN janitor' = bad BY <2>1
    <3> HIDE DEF bad
    <3>3. QED BY <2>1, <3>1, <3>2 DEF JanitorLoadedStale
  <2>5. QED BY <2>1, <2>2, <2>3, <2>4 DEF CodesInv
<1>2. CASE JanitorClears
  <2>1. janitor # None /\ janitor' = None /\ UNCHANGED <<mail, act, codes, overlap>>
    BY <1>2 DEF JanitorClears
  <2>2. /\ user' = [u \in Users |-> user'[u]]
        /\ \A u \in Users :
              \/ user'[u] = user[u]
              \/ u \in DOMAIN janitor /\ user[u] # None /\ DOMAIN user'[u] = DOMAIN user[u]
    BY <1>2 DEF JanitorClears, CodesInv, CodesTyped, Saved
  <2>3. CodesTyped'
    BY <2>1, <2>2 DEF CodesInv, CodesTyped
  <2>4. ASSUME ~ overlap PROVE OneInFlight' /\ LoadedIsCurrent' /\ JanitorLoadedStale'
    BY <2>1, <2>4 DEF CodesInv, OneInFlight, LoadedIsCurrent, JanitorLoadedStale
  <2>5. ASSUME ~ overlap PROVE MailedWorks'
    BY <2>1, <2>2, <2>5 DEF CodesInv, MailedWorks, JanitorLoadedStale, CodeAccepted
  <2>6. QED BY <2>1, <2>3, <2>4, <2>5 DEF CodesInv
<1>3. QED BY <1>1, <1>2

\* Where requests do not overlap, the code of the last mail is accepted until it is used,
\* cleared or an hour old: a code that is there is sent again, never replaced, and the janitor
\* clears none that could still be used (User.create_confirmation_code, janitor/service.py).
THEOREM MailedCodeAccepted == AccountsSpec => []EmailedCodeWorks
<1>1. AccountsInit => CodesInv
  BY DEF AccountsInit, CodesInv, CodesTyped, OneInFlight, LoadedIsCurrent, JanitorLoadedStale,
         MailedWorks
<1>2. CodesInv /\ [AccountsNext]_accountsVars => CodesInv'
  <2> SUFFICES ASSUME CodesInv, [AccountsNext]_accountsVars PROVE CodesInv'
    OBVIOUS
  <2>1. CASE Account BY <2>1, AccountKeepsCodes
  <2>2. CASE Workspace BY <2>2, WorkspaceKeepsCodes
  <2>3. CASE \E w \in Workers : Commit(w) BY <2>3, CommitKeepsCodes
  <2>4. CASE JanitorLoads \/ JanitorClears BY <2>4, JanitorKeepsCodes
  <2>5. CASE UNCHANGED accountsVars BY <2>5, CodesUntouched DEF accountsVars
  <2>6. QED BY <2>1, <2>2, <2>3, <2>4, <2>5 DEF AccountsNext
<1>3. CodesInv => EmailedCodeWorks
  BY DEF CodesInv, MailedWorks, EmailedCodeWorks
<1>4. QED BY <1>1, <1>2, <1>3, PTL DEF AccountsSpec
=============================================================================
