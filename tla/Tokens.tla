------------------------------- MODULE Tokens -------------------------------
(***************************************************************************)
(* Tokens of IAM (user_api/iam/dm/models.py): login sessions with their    *)
(* refresh, the authorization code flow, tokens managed by a manifest or   *)
(* the tokens API, their renewal, and the rotation of the signing key.     *)
(*                                                                         *)
(* A request that decides on a row and writes it later is two actions; in  *)
(* between, other workers and the renewal service write the same row. An   *)
(* update writes the columns it has changed, whatever the others are now.  *)
(* Time is a counter. Users, scopes and permissions are left out.          *)
(***************************************************************************)
EXTENDS Integers, FiniteSets, Api

CONSTANTS
    Sessions,         \* ids of tokens that are login sessions
    Managed,          \* ids of tokens that the tokens API manages
    Grants,           \* ids of authorization requests
    Lifetime,         \* lifetime of an access token of a session
    RefreshLifetime,  \* how long a session can be refreshed
    GrantLifetime,    \* how long a code with a PKCE challenge can be redeemed
    Lifetimes,        \* lifetimes that a managed token may be given
    Budgets,          \* bounds: requests by kind, ticks of the clock, rotations of the key
    MaxLag,           \* longest time between two iterations of the renewal service
    Overlapping       \* may the owner regenerate a token twice at once?

Ids == Sessions \union Managed

ASSUME TokensAssumption ==
    /\ Lifetime \in Nat /\ RefreshLifetime \in Nat /\ GrantLifetime \in Nat
    /\ Lifetimes \subseteq Nat
    /\ MaxLag \in Nat
    /\ Overlapping \in BOOLEAN
    /\ Budgets \subseteq [session : Nat, managed : Nat, ticks : Nat, keys : Nat]
    /\ Sessions \intersect Managed = {}

VARIABLES
    now,        \* the clock
    token,      \* rows of iam_tokens
    created,    \* ids that are or were in use
    grant,      \* rows of iam_idp_authorization_info
    key,        \* signature_algorithm of the client
    values,     \* signed values that clients hold
    regens,     \* history: regenerations of a managed token
    redeemed,   \* history: how often a code was redeemed
    call,       \* requests in flight, by worker
    renewal,    \* iteration of the renewal service
    lag,        \* time since the last iteration of the renewal service ended
    requests    \* what is still to come of each kind

tokensVars == <<now, token, created, grant, key, values, regens, redeemed, call,
                renewal, lag, requests>>

TokenRows == [exp : Nat, rexp : Nat, delta : Nat, gen : Nat, auto : BOOLEAN]

GrantRows == [pkce : BOOLEAN, exp : Nat, token : Sessions \union {None}]

\* The access token and, for a session, the refresh token signed with it.
Values == [id : Ids, exp : Nat, gen : Nat, key : Nat, seq : Nat]

\* A request: what it works on and the columns it is going to write.
Calls ==
    [op : {"refresh", "lifetime", "regenerate"}, id : Ids, exp : Nat, delta : Nat,
     gen : Nat, at : Nat]
    \union [op : {"confirm", "exchange"}, grant : Grants, id : Sessions, at : Nat]

TokensTypeOK ==
    /\ now \in Nat /\ lag \in Nat
    /\ requests \in [session : Nat, managed : Nat, ticks : Nat, keys : Nat]
    /\ created \subseteq Ids
    /\ token \in [Ids -> TokenRows \union {None}]
    /\ grant \in [Grants -> GrantRows \union {None}]
    /\ key \in [secret : Nat, previous : Nat \union {None}]
    /\ values \subseteq Values
    /\ regens \in [Managed -> Nat]
    /\ redeemed \in [Grants -> Nat]
    /\ call \in [Workers -> Calls \union {None}]
    /\ renewal \in [at : Nat, todo : SUBSET Managed,
                    row : [Managed -> TokenRows \union {None}]] \union {None}

TokensInit ==
    /\ now = 0 /\ lag = 0
    /\ requests \in Budgets
    /\ created = {}
    /\ token = [t \in Ids |-> None]
    /\ grant = [g \in Grants |-> None]
    /\ key = [secret |-> 0, previous |-> None]
    /\ values = {}
    /\ regens = [m \in Managed |-> 0]
    /\ redeemed = [g \in Grants |-> 0]
    /\ call = [w \in Workers |-> None]
    /\ renewal = None

-----------------------------------------------------------------------------
\* A signed value and how it is judged.

SigningKeys == {key.secret, key.previous}

\* The value that the row and the current key of the client give.
Signed(t, row, seq) ==
    [id |-> t, exp |-> row.exp, gen |-> row.gen, key |-> key.secret, seq |-> seq]

Accepted(v) ==
    /\ v.key \in SigningKeys
    /\ now < v.exp
    /\ token[v.id] # None
    /\ now < token[v.id].exp
    /\ v.gen = token[v.id].gen

NewRow(delta, auto) ==
    [exp |-> now + delta, rexp |-> now + RefreshLifetime, delta |-> delta, gen |-> 0,
     auto |-> auto]

-----------------------------------------------------------------------------
\* Requests that are one transaction.

Request(kind) ==
    /\ requests[kind] > 0
    /\ requests' = [requests EXCEPT ![kind] = @ - 1]

Kind(t) == IF t \in Managed THEN "managed" ELSE "session"

Insert(t, row) ==
    /\ t \notin created
    /\ created' = created \union {t}
    /\ token' = [token EXCEPT ![t] = row]
    /\ values' = values \union {Signed(t, row, 0)}

Login(t) ==
    /\ Request("session")
    /\ t \in Sessions
    /\ Insert(t, NewRow(Lifetime, FALSE))
    /\ UNCHANGED <<now, grant, key, regens, redeemed, call, renewal, lag>>

IssueManaged(t, delta, auto) ==
    /\ Request("managed")
    /\ t \in Managed
    /\ Insert(t, NewRow(delta, auto))
    /\ UNCHANGED <<now, grant, key, regens, redeemed, call, renewal, lag>>

\* Logging out, or deleting a managed token. A session that a code still refers to
\* is held by nobody, so nobody asks for it.
Revoke(t) ==
    /\ Request(Kind(t))
    /\ token[t] # None
    /\ t \in Managed \/ \E v \in values : v.id = t /\ Accepted(v)
    /\ token' = [token EXCEPT ![t] = None]
    /\ UNCHANGED <<now, created, grant, key, values, regens, redeemed, call, renewal, lag>>

\* Tokens go with their user, unless an authorization request refers to one.
DeleteOwner ==
    /\ \E kind \in {"session", "managed"} : Request(kind)
    /\ \A g \in Grants : grant[g] # None => grant[g].token = None
    /\ token' = [t \in Ids |-> None]
    /\ created' = Ids
    /\ UNCHANGED <<now, grant, key, values, regens, redeemed, call, renewal, lag>>

Authorize(g, pkce) ==
    /\ Request("session")
    /\ grant[g] = None /\ redeemed[g] = 0
    /\ grant' = [grant EXCEPT ![g] =
                    [pkce |-> pkce, exp |-> now + GrantLifetime, token |-> None]]
    /\ UNCHANGED <<now, token, created, key, values, regens, redeemed, call, renewal, lag>>

\* The key in use becomes the previous one (safe), or is dropped.
RotateKey(safe) ==
    /\ Request("keys")
    /\ key' = [secret |-> key.secret + 1,
               previous |-> IF safe THEN key.secret ELSE key.previous]
    /\ UNCHANGED <<now, token, created, grant, values, regens, redeemed, call, renewal, lag>>

-----------------------------------------------------------------------------
\* Requests that load a row and write it later.

Begin(w, c) ==
    /\ Request(Kind(c.id))
    /\ call[w] = None
    /\ call' = [call EXCEPT ![w] = c]
    /\ UNCHANGED <<now, token, created, grant, key, values, regens, redeemed, renewal, lag>>

Write(op, t, exp, row) ==
    [op |-> op, id |-> t, exp |-> exp, delta |-> row.delta, gen |-> row.gen,
     at |-> now]

CanRefreshAlways(v) ==
    /\ v.id \in Sessions
    /\ v.key \in SigningKeys
    /\ token[v.id] # None

\* A refresh token is as good as its signature and the row's refresh_expiration_at.
CanRefresh(v) ==
    /\ v.id \in Sessions
    /\ v.key \in SigningKeys
    /\ token[v.id] # None
    /\ now < token[v.id].rexp

BeginRefresh(w, v) ==
    /\ CanRefresh(v)
    /\ Begin(w, Write("refresh", v.id, now + token[v.id].delta, token[v.id]))

BeginUpdate(w, t, delta) ==
    /\ t \in Managed /\ token[t] # None
    /\ delta # token[t].delta
    /\ Begin(w, Write("lifetime", t, now + delta, [token[t] EXCEPT !.delta = delta]))

BeginRegenerate(w, t) ==
    /\ t \in Managed /\ token[t] # None
    /\ Overlapping \/ \A x \in Workers :
          call[x] # None => ~(call[x].op = "regenerate" /\ call[x].id = t)
    /\ Begin(w, Write("regenerate", t, now + token[t].delta,
                      [token[t] EXCEPT !.gen = token[t].gen + 1]))

WrittenAll(row, c) == [row EXCEPT !.exp = c.exp, !.delta = c.delta, !.gen = c.gen]

\* The columns of the row that the request has changed.
Written(row, c) ==
    CASE c.op = "refresh"    -> [row EXCEPT !.exp = c.exp]
      [] c.op = "lifetime"   -> [row EXCEPT !.exp = c.exp, !.delta = c.delta]
      [] c.op = "regenerate" -> [row EXCEPT !.exp = c.exp, !.gen = c.gen]

UpdatedOrInserted(t, c) ==
    Written(IF token[t] = None THEN NewRow(c.delta, FALSE) ELSE token[t], c)

\* A statement that finds no row raises, and the request fails.
Updated(t, c) == IF token[t] = None THEN None ELSE Written(token[t], c)

\* The answer signs the row as the request has it in memory. An update of the lifetime
\* answers with no value; the owner reads nothing but the row.
Finish(w) ==
    LET c   == call[w]
        t   == c.id
        new == Updated(t, c)
    IN  /\ c # None
        /\ c.op \in {"refresh", "lifetime", "regenerate"}
        /\ token' = [token EXCEPT ![t] = new]
        /\ regens' = IF c.op = "regenerate" /\ new # None
                     THEN [regens EXCEPT ![t] = @ + 1] ELSE regens
        /\ values' = IF c.op # "lifetime" /\ new # None
                     THEN values \union
                          {Signed(t, c, IF t \in Managed THEN regens'[t] ELSE 0)}
                     ELSE values
        /\ call' = [call EXCEPT ![w] = None]
        /\ UNCHANGED <<now, created, grant, key, redeemed, renewal, lag, requests>>

\* The user's session confirms an authorization request; a token is made for the client.
BeginConfirm(w, g, v, t) ==
    /\ grant[g] # None
    /\ v.id \in Sessions /\ Accepted(v)
    /\ t \in Sessions /\ t \notin created
    /\ Begin(w, [op |-> "confirm", grant |-> g, id |-> t, at |-> now])

NeverLocked(g) == FALSE

\* SELECT ... FOR UPDATE on the authorization request.
Locked(g) == \E x \in Workers :
    call[x] # None /\ call[x].op = "exchange" /\ call[x].grant = g

\* Waits for the lock. A row that is gone by then fails the request, and so does an id
\* that a second confirmation in flight has taken.
FinishConfirm(w) ==
    LET c == call[w]
    IN  /\ c # None
        /\ c.op = "confirm"
        /\ ~ Locked(c.grant)
        /\ call' = [call EXCEPT ![w] = None]
        /\ IF grant[c.grant] = None \/ c.id \in created
           THEN UNCHANGED <<token, created, grant>>
           ELSE /\ token' = [token EXCEPT ![c.id] = NewRow(Lifetime, FALSE)]
                /\ created' = created \union {c.id}
                /\ grant' = [grant EXCEPT ![c.grant].token = c.id]
        /\ UNCHANGED <<now, key, values, regens, redeemed, renewal, lag, requests>>

\* The client learns the code when the request is confirmed. Only a code with a PKCE
\* challenge expires.
BeginExchange(w, g) ==
    /\ grant[g] # None /\ grant[g].token # None
    /\ ~ Locked(g)
    /\ grant[g].pkce => now < grant[g].exp
    /\ Begin(w, [op |-> "exchange", grant |-> g, id |-> grant[g].token, at |-> now])

\* The code goes, the client gets the token.
FinishExchange(w) ==
    LET c == call[w]
    IN  /\ c # None
        /\ c.op = "exchange"
        /\ grant' = [grant EXCEPT ![c.grant] = None]
        /\ redeemed' = [redeemed EXCEPT ![c.grant] = @ + 1]
        /\ values' = IF token[c.id] = None THEN values
                     ELSE values \union {Signed(c.id, token[c.id], 0)}
        /\ call' = [call EXCEPT ![w] = None]
        /\ UNCHANGED <<now, token, created, key, regens, renewal, lag, requests>>

-----------------------------------------------------------------------------
\* The renewal service (iam/service.py) loads all standing tokens, then renews those
\* that need it, each in a transaction of its own.

Standing == {m \in Managed : token[m] # None /\ token[m].auto}

\* An iteration that finds no token does nothing and is left out.
StartRenewal ==
    /\ renewal = None /\ Standing # {}
    /\ renewal' = [at   |-> now,
                   todo |-> Standing,
                   row  |-> [m \in Managed |-> token[m]]]
    /\ UNCHANGED <<now, token, created, grant, key, values, regens, redeemed, call, lag,
                   requests>>

NeedsRenewalLate(row, at) == row.exp < at

NeedsRenewal(row, at) == 2 * (row.exp - at) < row.delta

\* A token deleted meanwhile raises; the exception is logged and the others go on.
RenewToken(m) ==
    /\ renewal # None /\ m \in renewal.todo
    /\ token' = IF NeedsRenewal(renewal.row[m], renewal.at) /\ token[m] # None
                THEN [token EXCEPT ![m].exp = renewal.at + renewal.row[m].delta]
                ELSE token
    /\ renewal' = [renewal EXCEPT !.todo = @ \ {m}]
    /\ UNCHANGED <<now, created, grant, key, values, regens, redeemed, call, lag, requests>>

EndRenewal ==
    /\ renewal # None /\ renewal.todo = {}
    /\ renewal' = None
    /\ lag' = 0
    /\ UNCHANGED <<now, token, created, grant, key, values, regens, redeemed, call, requests>>

\* An element renders a managed token: it takes the value of the row as it is.
RenderManaged(m) ==
    /\ Request("managed")
    /\ token[m] # None
    /\ values' = values \union {Signed(m, token[m], regens[m])}
    /\ UNCHANGED <<now, token, created, grant, key, regens, redeemed, call, renewal, lag>>

\* Lifetimes are long: a request and an iteration of the renewal service take little
\* of them, and the service does not pause for long.
Tick ==
    /\ Request("ticks")
    /\ lag < MaxLag
    /\ \A w \in Workers : call[w] # None => now - call[w].at < MaxLag
    /\ now' = now + 1
    /\ lag' = IF Standing = {} /\ renewal = None THEN 0 ELSE lag + 1
    /\ UNCHANGED <<token, created, grant, key, values, regens, redeemed, call, renewal>>

Manage ==
    \/ \E m \in Managed : RenderManaged(m)
    \/ \E m \in Managed, d \in Lifetimes, a \in BOOLEAN : IssueManaged(m, d, a)
    \/ \E w \in Workers, m \in Managed :
          BeginRegenerate(w, m) \/ \E d \in Lifetimes : BeginUpdate(w, m, d)

Flow ==
    \/ \E g \in Grants, p \in BOOLEAN : Authorize(g, p)
    \/ \E w \in Workers, g \in Grants : BeginExchange(w, g)
    \/ \E w \in Workers, g \in Grants, v \in values, t \in Sessions : BeginConfirm(w, g, v, t)
    \/ \E w \in Workers : FinishConfirm(w) \/ FinishExchange(w)

TokensNext ==
    \/ Tick
    \/ \E t \in Sessions : Login(t)
    \/ \E t \in Ids : Revoke(t)
    \/ DeleteOwner
    \/ \E safe \in BOOLEAN : RotateKey(safe)
    \/ \E w \in Workers, v \in values : BeginRefresh(w, v)
    \/ \E w \in Workers : Finish(w)
    \/ Manage
    \/ Flow
    \/ StartRenewal \/ (\E m \in Managed : RenewToken(m)) \/ EndRenewal

TokensSpec == TokensInit /\ [][TokensNext]_tokensVars

-----------------------------------------------------------------------------
\* An authorization code buys a token once, however many requests carry it at the same
\* time (IamClient.get_token_by_authorization_code locks the row).
CodeRedeemedOnce == \A g \in Grants : redeemed[g] <= 1

\* A value signed before the last regeneration is refused, also when the renewal service
\* or a change of the lifetime writes the row in between (Token.generation).
RegeneratedRefused ==
    \A v \in values : v.id \in Managed /\ Accepted(v) => v.seq = regens[v.id]

\* A token that renews itself never lapses while the renewal service keeps running,
\* whatever races with it (Token.needs_renewal).
StandingTokenServed ==
    \A m \in Managed : token[m] # None /\ token[m].auto => now < token[m].exp

\* A session cannot be kept alive for ever: whatever a client refreshes, its values end
\* with the refresh lifetime and one more lifetime (Token.refresh).
SessionBounded ==
    \A t \in Sessions : token[t] # None => token[t].exp <= token[t].rexp + Lifetime

\* A token that was revoked never comes back, whichever requests and renewals of it
\* were under way (Token.refresh, Token.renew, ManagedToken.regenerate).
RevokedStaysRevoked ==
    [][\A t \in Ids : t \in created /\ token[t] = None => token'[t] = None]_tokensVars
=============================================================================
