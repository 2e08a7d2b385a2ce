------------------------------ MODULE McpOAuth ------------------------------
(* The connections of one account's AI clients (modules/roomora-mcp): a       *)
(* client asks, the owner decides, the client exchanges the code for tokens   *)
(* and then each refresh token for the next.  Clients repeat requests whose   *)
(* answer they lost.  What an exchange reads before it takes its lock is kept *)
(* in exchange[c]; a transaction is one step.  Sessions come from SignIn,     *)
(* which shows that a locked or closed account has none.                      *)
EXTENDS Community, Integers, FiniteSets

CONSTANTS
  Sessions,
  Authorizations,  \* mcp_authorizations, and the codes they are approved with
  Grants,          \* mcp_grants
  Exchanges,       \* requests for tokens in progress at the same time
  MaxGrants,       \* the limit on connections in use
  MaxTokens        \* bound on the refresh tokens of a grant

ASSUME McpAssumption ==
  /\ None \notin Authorizations \cup Sessions \cup Grants
  /\ MaxGrants \in Nat /\ MaxTokens \in Nat \ {0}

VARIABLES
  session,        \* "none", "live", "over" (revoked), "expired"
  authorization,  \* authorization[a]: state, and the session that approved it
  mcpGrant,       \* mcpGrant[g]: state, code and session, refresh tokens made and spent
  exchange,       \* requests for tokens in progress
  renewals,       \* history: how often a refresh token of g was exchanged for the next
  reused          \* history: grants of which a spent token was presented

mcpVars == <<session, authorization, mcpGrant, exchange, renewals, reused>>

NoGrant == [state |-> "none", code |-> None, session |-> None, made |-> 0, spent |-> {}]
Quiet == [op |-> "quiet"]

\* active(): the session of whoever approved can be used.
LiveSession(s) == session[s] = "live"

\* What counts towards the limit, and what the owner is shown of it.
Counted == {g \in Grants : mcpGrant[g].state = "live"}
Listed == {g \in Counted : LiveSession(mcpGrant[g].session)}

-----------------------------------------------------------------------------
(* The owner.                                                                 *)

Authorize(a) ==
  /\ authorization[a].state = "none"
  /\ authorization' = [authorization EXCEPT ![a].state = "asked"]
  /\ UNCHANGED <<session, mcpGrant, exchange, renewals, reused>>

Decide(a, s, allow) ==
  /\ LiveSession(s) /\ authorization[a].state = "asked"
  /\ authorization' = [authorization EXCEPT ![a] =
       IF allow THEN [state |-> "approved", session |-> s] ELSE [@ EXCEPT !.state = "used"]]
  /\ UNCHANGED <<session, mcpGrant, exchange, renewals, reused>>

Revokes(g) ==
  /\ mcpGrant[g].state = "live"
  /\ mcpGrant' = [mcpGrant EXCEPT ![g].state = "revoked"]

\* connections() and disconnect(), of a connection the owner is shown.
DisconnectGrant(g) ==
  /\ g \in Listed /\ Revokes(g)
  /\ UNCHANGED <<session, authorization, exchange, renewals, reused>>

SessionOpens(s) ==
  /\ session[s] = "none"
  /\ session' = [session EXCEPT ![s] = "live"]
  /\ UNCHANGED <<authorization, mcpGrant, exchange, renewals, reused>>

\* A sign-out, a reset, a lock or a closure revokes sessions, and nothing else.
SessionsEnd(S) ==
  /\ S # {} /\ \A s \in S : LiveSession(s)
  /\ session' = [s \in Sessions |-> IF s \in S THEN "over" ELSE session[s]]
  /\ UNCHANGED <<authorization, mcpGrant, exchange, renewals, reused>>

-----------------------------------------------------------------------------
(* The client.                                                                *)

Asks(c, row) == exchange[c] = Quiet /\ exchange' = [exchange EXCEPT ![c] = row]
Answered(c) == exchange' = [exchange EXCEPT ![c] = Quiet]

\* The request is refused, or its process stops.
GivesUp(c) ==
  /\ exchange[c] # Quiet /\ Answered(c)
  /\ UNCHANGED <<session, authorization, mcpGrant, renewals, reused>>

\* The code is found and still good before the user row is locked.
PresentCode(c, a) ==
  /\ authorization[a].state = "approved"
  /\ Asks(c, [op |-> "code", code |-> a])
  /\ UNCHANGED <<session, authorization, mcpGrant, renewals, reused>>

Unused(a) == authorization[a].state # "used"

HasRoom == Cardinality(Counted) < MaxGrants

\* Under the lock it may have expired meanwhile, but not been used.
ExchangeCode(c, g) ==
  LET a == exchange[c].code IN
  /\ exchange[c].op = "code"
  /\ LiveSession(authorization[a].session) /\ Unused(a) /\ HasRoom
  /\ mcpGrant[g] = NoGrant
  /\ authorization' = [authorization EXCEPT ![a].state = "used"]
  /\ mcpGrant' = [mcpGrant EXCEPT ![g] =
       [state |-> "live", code |-> a, session |-> authorization[a].session,
        made |-> 1, spent |-> {}]]
  /\ Answered(c)
  /\ UNCHANGED <<session, renewals, reused>>

\* Any refresh token the client was ever given, found before its grant is locked.
PresentToken(c, g, n) ==
  /\ n \in 1..mcpGrant[g].made
  /\ Asks(c, [op |-> "refresh", grant |-> g, token |-> n, spent |-> n \in mcpGrant[g].spent])
  /\ UNCHANGED <<session, authorization, mcpGrant, renewals, reused>>

\* Whether the token was exchanged before, read again under the lock.
Faulty_IsSpent(c) == exchange[c].spent
IsSpent(c) == exchange[c].token \in mcpGrant[exchange[c].grant].spent

InUse(g) == mcpGrant[g].state = "live" /\ LiveSession(mcpGrant[g].session)

Refresh(c) ==
  LET g == exchange[c].grant IN
  /\ exchange[c].op = "refresh" /\ InUse(g) /\ ~IsSpent(c)
  /\ mcpGrant[g].made < MaxTokens
  /\ mcpGrant' = [mcpGrant EXCEPT ![g].spent = @ \cup {exchange[c].token}, ![g].made = @ + 1]
  /\ renewals' = [renewals EXCEPT ![g][exchange[c].token] = @ + 1]
  /\ Answered(c)
  /\ UNCHANGED <<session, authorization, reused>>

\* A spent token is a copy: the connection is revoked, and only then refused.
Punishes(g) == Revokes(g)
ReuseToken(c) ==
  LET g == exchange[c].grant IN
  /\ exchange[c].op = "refresh" /\ InUse(g) /\ IsSpent(c)
  /\ Punishes(g)
  /\ reused' = reused \cup {g}
  /\ Answered(c)
  /\ UNCHANGED <<session, authorization, renewals>>

\* revokeToken(), by any token of the connection.
RevokeToken(g) ==
  /\ Revokes(g)
  /\ UNCHANGED <<session, authorization, exchange, renewals, reused>>

-----------------------------------------------------------------------------
(* Time.                                                                      *)

\* A grant never outlives the session it was made in.
SessionExpires(s) ==
  /\ LiveSession(s)
  /\ session' = [session EXCEPT ![s] = "expired"]
  /\ mcpGrant' = [g \in Grants |->
       IF mcpGrant[g].session = s /\ mcpGrant[g].state = "live"
       THEN [mcpGrant[g] EXCEPT !.state = "expired"] ELSE mcpGrant[g]]
  /\ UNCHANGED <<authorization, exchange, renewals, reused>>

GrantExpires(g) ==
  /\ mcpGrant[g].state = "live"
  /\ mcpGrant' = [mcpGrant EXCEPT ![g].state = "expired"]
  /\ UNCHANGED <<session, authorization, exchange, renewals, reused>>

CodeExpires(a) ==
  /\ authorization[a].state \in {"asked", "approved"}
  /\ authorization' = [authorization EXCEPT ![a].state = "expired"]
  /\ UNCHANGED <<session, mcpGrant, exchange, renewals, reused>>

-----------------------------------------------------------------------------
McpInit ==
  /\ session = [s \in Sessions |-> "none"]
  /\ authorization = [a \in Authorizations |-> [state |-> "none", session |-> None]]
  /\ mcpGrant = [g \in Grants |-> NoGrant]
  /\ exchange = [c \in Exchanges |-> Quiet]
  /\ renewals = [g \in Grants |-> [n \in 1..MaxTokens |-> 0]]
  /\ reused = {}

McpNext ==
  \/ \E a \in Authorizations :
       \/ Authorize(a) \/ CodeExpires(a)
       \/ \E s \in Sessions, allow \in BOOLEAN : Decide(a, s, allow)
  \/ \E c \in Exchanges :
       \/ \E a \in Authorizations : PresentCode(c, a)
       \/ \E g \in Grants : ExchangeCode(c, g) \/ \E n \in 1..MaxTokens : PresentToken(c, g, n)
       \/ Refresh(c) \/ ReuseToken(c) \/ GivesUp(c)
  \/ \E g \in Grants : DisconnectGrant(g) \/ RevokeToken(g) \/ GrantExpires(g)
  \/ \E s \in Sessions : SessionOpens(s) \/ SessionExpires(s)
  \/ \E S \in SUBSET Sessions : SessionsEnd(S)

McpSpec == McpInit /\ [][McpNext]_mcpVars

-----------------------------------------------------------------------------
(* Properties.                                                                *)

TokenRequests ==
  {Quiet} \cup [op : {"code"}, code : Authorizations]
  \cup [op : {"refresh"}, grant : Grants, token : 1..MaxTokens, spent : BOOLEAN]

\* The types of the rows; only approved requests and their grants have a session.
McpTypeOK ==
  /\ session \in [Sessions -> {"none", "live", "over", "expired"}]
  /\ authorization \in [Authorizations ->
       [state : {"none", "asked", "approved", "used", "expired"}, session : Sessions \cup {None}]]
  /\ mcpGrant \in [Grants ->
       [state : {"none", "live", "revoked", "expired"}, code : Authorizations \cup {None},
        session : Sessions \cup {None}, made : 0..MaxTokens, spent : SUBSET (1..MaxTokens)]]
  /\ exchange \in [Exchanges -> TokenRequests]
  /\ renewals \in [Grants -> [1..MaxTokens -> Nat]]
  /\ reused \subseteq Grants

\* An approval becomes one connection, however often and however simultaneously its
\* code is presented (McpOAuthService.exchangeAuthorizationCode).
OneGrantPerCode ==
  \A g, h \in Grants : mcpGrant[g].code # None /\ mcpGrant[g].code = mcpGrant[h].code => g = h

\* The limit on connections in use holds through codes exchanged at the same time.
GrantsWithinLimit == Cardinality(Counted) <= MaxGrants

\* The chain of refresh tokens never forks: each gives the next one once, at every
\* moment one is unspent, and when a spent one comes back, from a copy or from a
\* client that lost an answer, the connection is over (exchangeRefreshToken).
ChainNeverForks ==
  \A g \in Grants :
    /\ \A n \in 1..MaxTokens : renewals[g][n] <= 1
    /\ mcpGrant[g] # NoGrant => Cardinality((1..mcpGrant[g].made) \ mcpGrant[g].spent) = 1
    /\ g \in reused => mcpGrant[g].state # "live"

\* Neither an approval nor a refresh token gives two connections, and the limit
\* holds, whatever the clients repeat and however their requests interleave.
TokensActOnce == OneGrantPerCode /\ GrantsWithinLimit /\ ChainNeverForks

\* Whoever is signed in and refused a connection because of the limit is shown one
\* to revoke ("Revoke an existing connection before creating another.").
LimitCanBeLifted ==
  ~HasRoom /\ (\E s \in Sessions : LiveSession(s)) => Listed # {}
=============================================================================
