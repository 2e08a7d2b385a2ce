-------------------------- MODULE HouseMembership --------------------------
(* Houses, members and invitations, with the transactions of concurrent       *)
(* requests step by step: what a request reads before its transaction, the    *)
(* row locks it waits for (users first, then the house), and the write with   *)
(* which it commits.  Events and notifications reference users, so a write    *)
(* also waits for whoever holds those user rows FOR UPDATE: a request that    *)
(* locked the house first and one that locked the user first can wait for     *)
(* each other, and the database then rolls one of them back.                  *)
EXTENDS HouseRoster

CONSTANTS
  Calls,     \* requests in progress at the same time
  Connected  \* pairs of people with an ACCEPTED connection

ASSUME CallsAssumption == None \notin Calls

VARIABLES
  invite,     \* house_invites by house and email
  call,       \* requests in progress
  userLock,   \* who holds a user row FOR UPDATE
  houseLock   \* who holds a house row

houseVars == <<rosterVars, invite, call, userLock, houseLock>>

HouseOps == {"found", "accept", "invite", "revoke", "transfer", "leave", "close"}
NoRequest == [stage |-> "idle"]

MayAccept(h, u) == invite[h][u] = "PENDING"

(* --------------------------- Locks of a request -------------------------- *)

Active(c) == call[c].stage # "idle"

\* The houses a closure still has to lock: those u was ever a member of, in order.
ToLock(c) ==
  {h \in Houses : joins[h][call[c].user] > 0 /\ houseLock[h] # c}
NextHouse(c) == CHOOSE h \in ToLock(c) : \A k \in ToLock(c) : h <= k

Wanted(c) == IF call[c].op = "close" THEN NextHouse(c) ELSE call[c].house

\* The user rows that the rows a request writes refer to, besides its own.
Mentioned(c) ==
  CASE call[c].op = "accept" -> {owner[call[c].house]}
    [] call[c].op \in {"invite", "revoke", "transfer"} -> {call[c].other}
    [] OTHER -> {}

WaitsFor(c) ==
  CASE call[c].stage = "user" -> {userLock[call[c].user]}
    [] call[c].stage = "house" -> {houseLock[Wanted(c)]}
    [] call[c].stage = "write" -> {userLock[u] : u \in Mentioned(c) \cup {call[c].user}}
    [] OTHER -> {}

Blockers(c) == WaitsFor(c) \ {None, c}

\* c is one of the requests that wait for each other.
Faulty_Deadlocked(c) == FALSE
Deadlocked(c) ==
  \E S \in SUBSET Calls : c \in S /\ \A x \in S : Blockers(x) \cap S # {}

Released(lock, c) == [x \in DOMAIN lock |-> IF lock[x] = c THEN None ELSE lock[x]]

\* The request ends: committed, refused or rolled back, it holds nothing more.
Ends(c) ==
  /\ call' = [call EXCEPT ![c] = NoRequest]
  /\ userLock' = Released(userLock, c)
  /\ houseLock' = Released(houseLock, c)

Moves(c, stage) == call' = [call EXCEPT ![c].stage = stage]

(* ------------------------------ The requests ----------------------------- *)

\* What is read before any lock: the invitation of an accept, and, for the
\* operations on a house, the open house with the caller among its members.
ReadFirst(op, u, h) ==
  CASE op \in {"found", "close"} -> TRUE
    [] op = "accept" -> MayAccept(h, u)
    [] OTHER -> IsOpen(h) /\ u \in active[h]

Begin(c, op, u, h, w) ==
  /\ ~Active(c)
  /\ u \notin gone
  /\ ReadFirst(op, u, h)
  /\ call' = [call EXCEPT ![c] =
       [op |-> op, user |-> u, house |-> h, other |-> w,
        stage |-> IF op \in {"found", "accept", "close"} THEN "user" ELSE "house"]]
  /\ UNCHANGED <<rosterVars, invite, userLock, houseLock>>

\* requireNoActiveHouse, and the first checks of a closure: the user row, then
\* what it protects.
Faulty_MayGoOn(u) == Homeless(u)
MayGoOn(u) == u \notin gone /\ Homeless(u)

LockUser(c) ==
  LET u == call[c].user IN
  /\ call[c].stage = "user"
  /\ userLock[u] = None
  /\ IF MayGoOn(u)
     THEN /\ userLock' = [userLock EXCEPT ![u] = c]
          /\ Moves(c, IF call[c].op = "accept" \/ (call[c].op = "close" /\ ToLock(c) # {})
                      THEN "house" ELSE "write")
          /\ UNCHANGED houseLock
     ELSE Ends(c)
  /\ UNCHANGED <<rosterVars, invite>>

\* The row of the house, if it is still open; a closure takes them all, open or not.
LockHouse(c) ==
  /\ call[c].stage = "house"
  /\ LET h == Wanted(c) IN
       /\ houseLock[h] = None
       /\ IF call[c].op = "close" \/ IsOpen(h)
          THEN /\ houseLock' = [houseLock EXCEPT ![h] = c]
               /\ Moves(c, IF call[c].op = "close" /\ ToLock(c) # {h}
                           THEN "house" ELSE "write")
               /\ UNCHANGED userLock
          ELSE Ends(c)
  /\ UNCHANGED <<rosterVars, invite>>

(* ------------------------------- The writes ------------------------------ *)

\* A house keeps an owner among its members: the next one is a member, and an
\* owner leaves only as the last.
Succeeds(w, h) == w \in active[h]

Faulty_LeavesLast(u, h) == TRUE
LeavesLast(u, h) == owner[h] = u => active[h] = {u}

\* What each operation checks under its locks.
Allowed(c) ==
  LET u == call[c].user  h == call[c].house  w == call[c].other IN
  CASE call[c].op = "found" -> Homeless(u) /\ \E k \in Houses : owner[k] = None
    [] call[c].op = "accept" -> MayAccept(h, u) /\ Homeless(u)
    [] call[c].op = "invite" ->
         /\ owner[h] = u
         /\ w \notin active[h]
         /\ invite[h][w] # "PENDING"
         /\ {u, w} \in Connected
         /\ joins[h][w] < MaxJoins
    [] call[c].op = "revoke" ->
         owner[h] = u /\ u \in active[h] /\ invite[h][w] \in {"PENDING", "EXPIRED"}
    [] call[c].op = "transfer" -> owner[h] = u /\ u \in active[h] /\ u # w /\ Succeeds(w, h)
    [] call[c].op = "leave" -> u \in active[h] /\ LeavesLast(u, h)
    [] OTHER -> TRUE

Writes(c, op) ==
  /\ call[c].stage = "write"
  /\ call[c].op = op
  /\ Blockers(c) = {}
  /\ Allowed(c)
  /\ Ends(c)

CommitFound(c) ==
  /\ Writes(c, "found")
  /\ \E h \in Houses : Found(call[c].user, h)
  /\ UNCHANGED invite

CommitAccept(c) ==
  LET u == call[c].user  h == call[c].house IN
  /\ Writes(c, "accept")
  /\ invite' = [invite EXCEPT ![h][u] = "ACCEPTED"]
  /\ joins' = [joins EXCEPT ![h][u] = @ + 1]
  /\ active' = [active EXCEPT ![h] = @ \cup {u}]
  /\ UNCHANGED <<owner, shut, gone>>

CommitInvite(c) ==
  /\ Writes(c, "invite")
  /\ invite' = [invite EXCEPT ![call[c].house][call[c].other] = "PENDING"]
  /\ UNCHANGED rosterVars

CommitRevoke(c) ==
  /\ Writes(c, "revoke")
  /\ invite' = [invite EXCEPT ![call[c].house][call[c].other] = "REVOKED"]
  /\ UNCHANGED rosterVars

CommitTransfer(c) ==
  /\ Writes(c, "transfer")
  /\ owner' = [owner EXCEPT ![call[c].house] = call[c].other]
  /\ UNCHANGED <<shut, joins, active, gone, invite>>

\* updateMany of the invitations that are PENDING, whether or not they expired.
Revoked(row) == IF row \in {"PENDING", "EXPIRED"} THEN "REVOKED" ELSE row

CommitLeave(c) ==
  LET u == call[c].user  h == call[c].house  last == owner[h] = u IN
  /\ Writes(c, "leave")
  /\ active' = [active EXCEPT ![h] = @ \ {u}]
  /\ shut' = IF last THEN shut \cup {h} ELSE shut
  /\ invite' = IF last THEN [invite EXCEPT ![h] = [w \in People |-> Revoked(@[w])]]
                       ELSE invite
  /\ UNCHANGED <<owner, joins, gone>>

CommitClose(c) ==
  LET u == call[c].user IN
  /\ Writes(c, "close")
  /\ gone' = gone \cup {u}
  /\ invite' = [h \in Houses |-> [invite[h] EXCEPT ![u] = Revoked(@)]]
  /\ UNCHANGED <<owner, shut, joins, active>>

Commit(c) ==
  \/ CommitFound(c) \/ CommitAccept(c) \/ CommitInvite(c) \/ CommitRevoke(c)
  \/ CommitTransfer(c) \/ CommitLeave(c) \/ CommitClose(c)

Refuse(c) ==
  /\ call[c].stage = "write"
  /\ Blockers(c) = {}
  /\ ~Allowed(c)
  /\ Ends(c)
  /\ UNCHANGED <<rosterVars, invite>>

\* A transaction is rolled back: by its timeout, by a crash of the server, or by
\* the deadlock detection of the database.
RollBack(c) ==
  /\ Active(c)
  /\ Ends(c)
  /\ UNCHANGED <<rosterVars, invite>>

\* Seven days pass for an invitation.
InviteExpires(h, u) ==
  /\ invite[h][u] = "PENDING"
  /\ invite' = [invite EXCEPT ![h][u] = "EXPIRED"]
  /\ UNCHANGED <<rosterVars, call, userLock, houseLock>>

-----------------------------------------------------------------------------

MembershipInit ==
  /\ RosterInit
  /\ invite = [h \in Houses |-> [u \in People |-> "NONE"]]
  /\ call = [c \in Calls |-> NoRequest]
  /\ userLock = [u \in People |-> None]
  /\ houseLock = [h \in Houses |-> None]

\* Parameters an operation does not have are given one value.
Requests(c) ==
  \E op \in HouseOps, u, w \in People, h \in Houses :
    /\ (w = u) <=> op \in {"found", "accept", "leave", "close"}
    /\ op \in {"found", "close"} => \A k \in Houses : h <= k
    /\ Begin(c, op, u, h, w)

Proceeds(c) == LockUser(c) \/ LockHouse(c) \/ Commit(c) \/ Refuse(c)

MembershipNext ==
  \/ \E c \in Calls : Requests(c) \/ Proceeds(c) \/ RollBack(c)
  \/ \E h \in Houses, u \in People : InviteExpires(h, u)

MembershipSpec == MembershipInit /\ [][MembershipNext]_houseVars

\* Row locks are granted in the order they were asked for, so a request that can
\* proceed again and again does; the database looks for deadlocks.
MembershipFairness ==
  \A c \in Calls :
    SF_houseVars(Proceeds(c)) /\ WF_houseVars(Deadlocked(c) /\ RollBack(c))

-----------------------------------------------------------------------------

CallRows ==
  [op : HouseOps, user : People, house : Houses, other : People,
   stage : {"user", "house", "write"}]

MembershipTypeOK ==
  /\ RosterTypeOK
  /\ invite \in [Houses -> [People -> {"NONE", "PENDING", "EXPIRED", "ACCEPTED", "REVOKED"}]]
  /\ call \in [Calls -> CallRows \cup {NoRequest}]
  /\ userLock \in [People -> Calls \cup {None}]
  /\ houseLock \in [Houses -> Calls \cup {None}]
  /\ \A u \in People : userLock[u] # None => Active(userLock[u]) /\ call[userLock[u]].user = u
  /\ \A h \in Houses : houseLock[h] # None => Active(houseLock[h])

\* A join that passed its checks is never stopped by the unique index on active
\* memberships: between the check and the write nobody gives the caller a house.
ChecksSuffice ==
  \A c \in Calls :
    (call[c].stage = "write" /\ call[c].op \in {"found", "accept"}) =>
      Homeless(call[c].user) /\ call[c].user \notin gone

\* A closed house has no invitation that could still be answered.
ShutHasNoInvites ==
  \A h \in shut : \A u \in People : invite[h][u] \notin {"PENDING", "EXPIRED"}

\* However requests and their locks interleave, the house keeps its promises
\* (HouseMembershipAccessService, HouseInvitesService).
HousesAreSound == OneHome /\ OwnerIsMember /\ ChecksSuffice /\ ShutHasNoInvites

\* Every request ends, also when it waits for one that waits for it.
EveryCallEnds == \A c \in Calls : Active(c) ~> ~Active(c)
=============================================================================
