----------------------- MODULE HouseMembership_proofs -----------------------
(* Proofs about HouseMembership, for any people, houses and requests, about   *)
(* CostSharing, for any people, rules and bounds, and about AiCredits, for    *)
(* any users, packs, uses, instances and allowances.                          *)
(*                                                                            *)
(* The argument for the houses: what a request found under its locks still    *)
(* holds when it writes.  A join or a closure holds the row of its user, so   *)
(* nobody else gives that user a house (UserInv); every other write, and an   *)
(* accept, holds the row of its house, so nobody closes that house (HouseInv). *)
(* With that, each commit is a step of HouseRoster, which has no locks.       *)
EXTENDS HouseMembership, CostSharing, AiCredits, FiniteSetTheorems, TLAPS

-----------------------------------------------------------------------------
\* A request that passed the user row, or the row of its house.
PastUser(c) ==
  call[c].stage \in {"house", "write"} /\ call[c].op \in {"found", "accept", "close"}
PastHouse(c) == call[c].stage = "write" /\ call[c].op \notin {"found", "close"}

KeepsUser(c) ==
  PastUser(c) => userLock[call[c].user] = c /\ MayGoOn(call[c].user)
KeepsHouse(c) ==
  PastHouse(c) => houseLock[call[c].house] = c /\ IsOpen(call[c].house)

UserInv == \A c \in Calls : KeepsUser(c)
HouseInv == \A c \in Calls : KeepsHouse(c)

\* Only houses that exist are closed or invite; an invitation is to join once more.
InviteInv ==
  /\ \A h \in shut : owner[h] # None
  /\ \A h \in Houses, u \in People :
       /\ invite[h][u] # "NONE" => owner[h] # None
       /\ invite[h][u] = "PENDING" => joins[h][u] < MaxJoins

\* Requests whose first lock is the row of their user.
UserFirst == {"found", "accept", "close"}
FirstInv == \A c \in Calls : call[c].stage = "user" => call[c].op \in UserFirst

\* The tables of requests and locks, and the others.
LockTypes ==
  /\ call \in [Calls -> CallRows \cup {NoRequest}]
  /\ userLock \in [People -> Calls \cup {None}]
  /\ houseLock \in [Houses -> Calls \cup {None}]
  /\ \A u \in People : userLock[u] # None => Active(userLock[u]) /\ call[userLock[u]].user = u
  /\ \A h \in Houses : houseLock[h] # None => Active(houseLock[h])

TableTypes ==
  /\ RosterTypeOK
  /\ invite \in [Houses -> [People -> {"NONE", "PENDING", "EXPIRED", "ACCEPTED", "REVOKED"}]]

\* What is about requests, and what is about houses.
CallsInv == LockTypes /\ FirstInv /\ UserInv /\ HouseInv
HousesInv == TableTypes /\ InviteInv /\ OneHome /\ OwnerIsMember /\ ShutHasNoInvites
IInv == CallsInv /\ HousesInv

-----------------------------------------------------------------------------
(* Types.                                                                     *)

LEMMA RowTypes ==
  ASSUME MembershipTypeOK, NEW c \in Calls, Active(c)
  PROVE  /\ call[c] \in CallRows
         /\ call[c].op \in HouseOps /\ call[c].user \in People
         /\ call[c].house \in Houses /\ call[c].other \in People
         /\ call[c].stage \in {"user", "house", "write"}
BY DEF MembershipTypeOK, Active, CallRows, NoRequest

LEMMA Typed == ASSUME IInv PROVE MembershipTypeOK
BY DEF IInv, CallsInv, HousesInv, MembershipTypeOK, TableTypes, LockTypes

\* What a request that ends leaves of the others and of their locks.
LEMMA EndsFacts ==
  ASSUME MembershipTypeOK, NEW c \in Calls, Ends(c)
  PROVE  /\ call'[c].stage = "idle"
         /\ \A d \in Calls \ {c} : call'[d] = call[d]
         /\ \A u \in People : userLock'[u] = IF userLock[u] = c THEN None ELSE userLock[u]
         /\ \A h \in Houses : houseLock'[h] = IF houseLock[h] = c THEN None ELSE houseLock[h]
         /\ LockTypes'
<1>1. /\ call'[c] = NoRequest /\ call' \in [Calls -> CallRows \cup {NoRequest}]
      /\ \A d \in Calls \ {c} : call'[d] = call[d]
  BY DEF MembershipTypeOK, Ends
<1>2. /\ userLock' = [u \in People |-> IF userLock[u] = c THEN None ELSE userLock[u]]
      /\ houseLock' = [h \in Houses |-> IF houseLock[h] = c THEN None ELSE houseLock[h]]
  BY DEF MembershipTypeOK, Ends, Released
<1>3. userLock' \in [People -> Calls \cup {None}] /\ houseLock' \in [Houses -> Calls \cup {None}]
  BY <1>2 DEF MembershipTypeOK
<1>4. (\A u \in People : userLock[u] # None => Active(userLock[u]) /\ call[userLock[u]].user = u)'
  BY <1>1, <1>2 DEF MembershipTypeOK, Active
<1>5. (\A h \in Houses : houseLock[h] # None => Active(houseLock[h]))'
  BY <1>1, <1>2 DEF MembershipTypeOK, Active
<1>. QED
  BY <1>1, <1>2, <1>3, <1>4, <1>5 DEF LockTypes, NoRequest

\* What a request that takes a lock and goes on keeps.
LEMMA MovesFacts ==
  ASSUME MembershipTypeOK, NEW c \in Calls, Active(c),
         NEW stage \in {"user", "house", "write"}, Moves(c, stage)
  PROVE  /\ call'[c] \in CallRows
         /\ call'[c].stage = stage
         /\ call'[c].op = call[c].op /\ call'[c].user = call[c].user
         /\ call'[c].house = call[c].house /\ call'[c].other = call[c].other
         /\ \A d \in Calls \ {c} : call'[d] = call[d]
         /\ call' \in [Calls -> CallRows \cup {NoRequest}]
<1>1. call[c] \in CallRows
  BY RowTypes
<1>2. call'[c] = [call[c] EXCEPT !.stage = stage]
      /\ \A d \in Calls \ {c} : call'[d] = call[d]
  BY DEF MembershipTypeOK, Moves
<1>3. [call[c] EXCEPT !.stage = stage] \in CallRows
  BY <1>1 DEF CallRows
<1>. QED
  BY <1>1, <1>2, <1>3 DEF MembershipTypeOK, Moves, CallRows

-----------------------------------------------------------------------------
(* Locks.                                                                     *)

\* A request that ends leaves the others what they found under their locks, if
\* what it writes does.
LEMMA EndsLocks ==
  ASSUME IInv, NEW c \in Calls, Ends(c),
         \A u \in People : userLock[u] \in Calls \ {c} /\ MayGoOn(u) => MayGoOn(u)',
         \A h \in Houses : houseLock[h] \in Calls \ {c} /\ IsOpen(h) => IsOpen(h)'
  PROVE  CallsInv'
<1>1. MembershipTypeOK
  BY Typed
<1>2. /\ LockTypes' /\ call'[c].stage = "idle" /\ \A d \in Calls \ {c} : call'[d] = call[d]
      /\ \A u \in People : userLock'[u] = IF userLock[u] = c THEN None ELSE userLock[u]
      /\ \A h \in Houses : houseLock'[h] = IF houseLock[h] = c THEN None ELSE houseLock[h]
  BY <1>1, EndsFacts
<1>3. ASSUME NEW d \in Calls, PastUser(d)'
      PROVE  KeepsUser(d)'
  <2>1. d # c /\ call'[d] = call[d] /\ PastUser(d)
    BY <1>2, <1>3 DEF PastUser
  <2>2. call[d].user \in People
    BY <1>1, <2>1, RowTypes DEF PastUser, Active
  <2>3. userLock[call[d].user] = d /\ MayGoOn(call[d].user)
    BY <2>1 DEF IInv, CallsInv, UserInv, KeepsUser
  <2>4. \A u \in People : u = call[d].user => MayGoOn(u)'
    BY <2>1, <2>2, <2>3
  <2>5. MayGoOn(call[d].user)'
    BY <2>1, <2>2, <2>4
  <2>. QED
    BY <1>2, <2>1, <2>2, <2>3, <2>5 DEF KeepsUser
<1>4. ASSUME NEW d \in Calls, PastHouse(d)'
      PROVE  KeepsHouse(d)'
  <2>1. d # c /\ call'[d] = call[d] /\ PastHouse(d)
    BY <1>2, <1>4 DEF PastHouse
  <2>2. call[d].house \in Houses
    BY <1>1, <2>1, RowTypes DEF PastHouse, Active
  <2>3. houseLock[call[d].house] = d /\ IsOpen(call[d].house)
    BY <2>1 DEF IInv, CallsInv, HouseInv, KeepsHouse
  <2>4. \A h \in Houses : h = call[d].house => IsOpen(h)'
    BY <2>1, <2>2, <2>3
  <2>5. IsOpen(call[d].house)'
    BY <2>1, <2>2, <2>4
  <2>. QED
    BY <1>2, <2>1, <2>2, <2>3, <2>5 DEF KeepsHouse
<1>5. FirstInv'
  BY <1>2 DEF IInv, CallsInv, FirstInv
<1>. QED
  BY <1>2, <1>3, <1>4, <1>5 DEF CallsInv, UserInv, HouseInv, KeepsUser, KeepsHouse

LEMMA SameHouses ==
  ASSUME HousesInv, UNCHANGED <<rosterVars, invite>>
  PROVE  HousesInv'
BY DEF HousesInv, TableTypes, RosterTypeOK, rosterVars, InviteInv, OneHome, OwnerIsMember,
       ShutHasNoInvites

LEMMA EndsKeep ==
  ASSUME IInv, NEW c \in Calls, Ends(c), UNCHANGED <<rosterVars, invite>>
  PROVE  IInv'
<1>1. \A u \in People : MayGoOn(u) => MayGoOn(u)'
  BY DEF rosterVars, MayGoOn, Homeless
<1>2. \A h \in Houses : IsOpen(h) => IsOpen(h)'
  BY DEF rosterVars, IsOpen
<1>. QED
  BY <1>1, <1>2, EndsLocks, SameHouses DEF IInv

LEMMA BeginKeeps ==
  ASSUME IInv, NEW c \in Calls, NEW op \in HouseOps, NEW u \in People, NEW h \in Houses,
         NEW w \in People, Begin(c, op, u, h, w)
  PROVE  IInv'
<1>. DEFINE row == [op |-> op, user |-> u, house |-> h, other |-> w,
                    stage |-> IF op \in UserFirst THEN "user" ELSE "house"]
<1>. USE Typed
<1>1. row \in CallRows /\ ~PastHouse(c)' /\ ~PastUser(c)' /\ call'[c] = row
  <2>1. call'[c] = row
    BY DEF Begin, MembershipTypeOK, UserFirst
  <2>. QED
    BY <2>1 DEF CallRows, PastHouse, PastUser, UserFirst
<1>2. \A d \in Calls \ {c} : call'[d] = call[d]
  BY DEF Begin, MembershipTypeOK
<1>3. call' \in [Calls -> CallRows \cup {NoRequest}]
  BY <1>1 DEF Begin, MembershipTypeOK, UserFirst
<1>4. LockTypes'
  <2>1. (\A x \in People : userLock[x] # None => Active(userLock[x]) /\ call[userLock[x]].user = x)'
    BY <1>2 DEF Begin, MembershipTypeOK, Active
  <2>2. (\A x \in Houses : houseLock[x] # None => Active(houseLock[x]))'
    BY <1>2 DEF Begin, MembershipTypeOK, Active
  <2>. QED
    BY <1>3, <2>1, <2>2 DEF Begin, MembershipTypeOK, LockTypes
<1>5. UserInv'
  BY <1>1, <1>2 DEF Begin, IInv, CallsInv, UserInv, KeepsUser, PastUser, MayGoOn, Homeless, rosterVars
<1>6. HouseInv'
  BY <1>1, <1>2 DEF Begin, IInv, CallsInv, HouseInv, KeepsHouse, PastHouse, IsOpen, rosterVars
<1>7. FirstInv'
  BY <1>1, <1>2 DEF IInv, CallsInv, FirstInv
<1>. QED
  BY <1>4, <1>5, <1>6, <1>7, SameHouses DEF Begin, IInv, CallsInv

LEMMA LockUserKeeps ==
  ASSUME IInv, NEW c \in Calls, LockUser(c)
  PROVE  IInv'
<1>. DEFINE u == call[c].user
<1>1. Active(c) /\ MembershipTypeOK /\ u \in People /\ call[c].op \in HouseOps
  BY RowTypes, Typed DEF LockUser, Active
<1>2. CASE ~MayGoOn(u)
  BY <1>2, EndsKeep DEF LockUser
<1>3. CASE MayGoOn(u)
  <2>1. PICK stage \in {"house", "write"} : Moves(c, stage) /\ (call[c].op = "accept" => stage = "house")
    BY <1>3 DEF LockUser
  <2>2. /\ call'[c].stage = stage /\ call'[c].op = call[c].op /\ call'[c].user = u
        /\ call'[c].house = call[c].house
        /\ \A d \in Calls \ {c} : call'[d] = call[d]
        /\ call' \in [Calls -> CallRows \cup {NoRequest}]
    BY <1>1, <2>1, MovesFacts
  <2>3. /\ userLock[u] = None /\ userLock' = [userLock EXCEPT ![u] = c]
        /\ UNCHANGED <<houseLock, rosterVars, invite>>
    BY <1>3 DEF LockUser
  <2>4. LockTypes'
    <3>1. (\A x \in People : userLock[x] # None => Active(userLock[x]) /\ call[userLock[x]].user = x)'
      BY <1>1, <2>2, <2>3 DEF MembershipTypeOK, Active
    <3>2. (\A x \in Houses : houseLock[x] # None => Active(houseLock[x]))'
      BY <1>1, <2>2, <2>3 DEF MembershipTypeOK, Active
    <3>. QED
      BY <1>1, <2>2, <2>3, <3>1, <3>2 DEF MembershipTypeOK, LockTypes
  <2>5. ASSUME NEW d \in Calls, PastUser(d)'
        PROVE  KeepsUser(d)'
    <3>1. CASE d = c
      BY <1>1, <1>3, <2>2, <2>3, <3>1 DEF KeepsUser, MembershipTypeOK, MayGoOn, Homeless, rosterVars
    <3>2. CASE d # c
      <4>1. PastUser(d) /\ call'[d] = call[d]
        BY <2>2, <2>5, <3>2 DEF PastUser
      <4>2. call[d].user \in People /\ userLock[call[d].user] = d /\ MayGoOn(call[d].user)
        BY <1>1, <4>1, RowTypes DEF PastUser, Active, IInv, CallsInv, UserInv, KeepsUser
      <4>3. call[d].user # u
        BY <2>3, <4>2, CallsAssumption
      <4>. QED
        BY <1>1, <2>3, <4>1, <4>2, <4>3 DEF KeepsUser, MembershipTypeOK, MayGoOn, Homeless, rosterVars
    <3>. QED
      BY <3>1, <3>2
  <2>6. ASSUME NEW d \in Calls, PastHouse(d)'
        PROVE  KeepsHouse(d)'
    <3>1. d # c
      BY <2>1, <2>2, <2>6, <1>1 DEF PastHouse, LockUser, IInv, CallsInv, FirstInv, UserFirst
    <3>. QED
      BY <2>2, <2>3, <2>6, <3>1 DEF PastHouse, IInv, CallsInv, HouseInv, KeepsHouse, IsOpen, rosterVars
  <2>7. FirstInv'
    BY <2>2 DEF IInv, CallsInv, FirstInv
  <2>. QED
    BY <2>3, <2>4, <2>5, <2>6, <2>7, SameHouses
    DEF IInv, CallsInv, UserInv, HouseInv, KeepsUser, KeepsHouse
<1>. QED
  BY <1>2, <1>3

LEMMA LockHouseKeeps ==
  ASSUME IInv, NEW c \in Calls, LockHouse(c)
  PROVE  IInv'
<1>. DEFINE h == Wanted(c)
<1>1. Active(c) /\ MembershipTypeOK /\ call[c].house \in Houses
  BY RowTypes, Typed DEF LockHouse, Active
<1>2. CASE ~(call[c].op = "close" \/ IsOpen(h))
  BY <1>2, EndsKeep DEF LockHouse
<1>3. CASE call[c].op = "close" \/ IsOpen(h)
  <2>1. PICK stage \in {"house", "write"} : Moves(c, stage)
    BY <1>3 DEF LockHouse
  <2>2. /\ call'[c].stage = stage /\ call'[c].op = call[c].op /\ call'[c].user = call[c].user
        /\ call'[c].house = call[c].house
        /\ \A d \in Calls \ {c} : call'[d] = call[d]
        /\ call' \in [Calls -> CallRows \cup {NoRequest}]
    BY <1>1, <2>1, MovesFacts
  <2>3. /\ houseLock[h] = None /\ houseLock' = [houseLock EXCEPT ![h] = c]
        /\ UNCHANGED <<userLock, rosterVars, invite>>
    BY <1>3 DEF LockHouse
  <2>4. LockTypes'
    <3>1. (\A x \in People : userLock[x] # None => Active(userLock[x]) /\ call[userLock[x]].user = x)'
      BY <1>1, <2>2, <2>3 DEF MembershipTypeOK, Active
    <3>2. (\A x \in Houses : houseLock[x] # None => Active(houseLock[x]))'
      BY <1>1, <2>2, <2>3 DEF MembershipTypeOK, Active
    <3>. QED
      BY <1>1, <2>2, <2>3, <3>1, <3>2 DEF MembershipTypeOK, LockTypes
  <2>5. ASSUME NEW d \in Calls, PastUser(d)'
        PROVE  KeepsUser(d)'
    <3>1. PastUser(d) /\ call'[d].user = call[d].user
      BY <2>2, <2>5 DEF PastUser, LockHouse
    <3>. QED
      BY <2>3, <3>1 DEF IInv, CallsInv, UserInv, KeepsUser, MayGoOn, Homeless, rosterVars
  <2>6. ASSUME NEW d \in Calls, PastHouse(d)'
        PROVE  KeepsHouse(d)'
    <3>1. CASE d = c
      <4>1. h = call[c].house /\ IsOpen(h)
        BY <1>3, <2>2, <2>6, <3>1 DEF PastHouse, Wanted
      <4>. QED
        BY <1>1, <2>2, <2>3, <3>1, <4>1 DEF KeepsHouse, MembershipTypeOK, IsOpen, rosterVars
    <3>2. CASE d # c
      <4>1. PastHouse(d) /\ call'[d] = call[d]
        BY <2>2, <2>6, <3>2 DEF PastHouse
      <4>2. call[d].house \in Houses /\ houseLock[call[d].house] = d /\ IsOpen(call[d].house)
        BY <1>1, <4>1, RowTypes DEF PastHouse, Active, IInv, CallsInv, HouseInv, KeepsHouse
      <4>3. call[d].house # h
        BY <2>3, <4>2, CallsAssumption
      <4>. QED
        BY <1>1, <2>3, <4>1, <4>2, <4>3 DEF KeepsHouse, MembershipTypeOK, IsOpen, rosterVars
    <3>. QED
      BY <3>1, <3>2
  <2>7. FirstInv'
    BY <2>2 DEF IInv, CallsInv, FirstInv
  <2>. QED
    BY <2>3, <2>4, <2>5, <2>6, <2>7, SameHouses
    DEF IInv, CallsInv, UserInv, HouseInv, KeepsUser, KeepsHouse
<1>. QED
  BY <1>2, <1>3

-----------------------------------------------------------------------------
(* Writes.                                                                    *)

\* What a request that writes has found, and what still holds.
LEMMA WriterFacts ==
  ASSUME IInv, NEW c \in Calls, NEW op \in HouseOps, Writes(c, op)
  PROVE  /\ call[c].user \in People /\ call[c].house \in Houses /\ call[c].other \in People
         /\ Ends(c) /\ Allowed(c) /\ call[c].op = op
         /\ op \in UserFirst => userLock[call[c].user] = c /\ MayGoOn(call[c].user)
         /\ op \notin {"found", "close"} => houseLock[call[c].house] = c /\ IsOpen(call[c].house)
<1>1. Active(c) /\ MembershipTypeOK
  BY Typed DEF Writes, Active
<1>2. KeepsUser(c) /\ KeepsHouse(c)
  BY DEF IInv, CallsInv, UserInv, HouseInv
<1>. QED
  BY <1>1, <1>2, RowTypes DEF Writes, KeepsUser, PastUser, KeepsHouse, PastHouse, UserFirst

LEMMA FoundKeeps ==
  ASSUME IInv, NEW c \in Calls, CommitFound(c)
  PROVE  IInv' /\ RosterNext
<1>. DEFINE u == call[c].user
<1>1. /\ u \in People /\ Ends(c) /\ userLock[u] = c /\ MayGoOn(u)
  BY WriterFacts DEF CommitFound, UserFirst, HouseOps
<1>2. PICK h \in Houses : Found(u, h)
  BY DEF CommitFound
<1>3. TableTypes /\ InviteInv /\ OneHome /\ OwnerIsMember /\ ShutHasNoInvites
  BY DEF IInv, HousesInv
<1>4. /\ owner[h] = None /\ Homeless(u) /\ u \notin gone /\ h \notin shut
      /\ \A w \in People : invite[h][w] = "NONE"
      /\ invite' = invite /\ shut' = shut /\ gone' = gone
      /\ owner' = [owner EXCEPT ![h] = u] /\ active' = [active EXCEPT ![h] = {u}]
      /\ joins' = [joins EXCEPT ![h][u] = 1]
  BY <1>2, <1>3 DEF CommitFound, Found, InviteInv
<1>5. CallsInv'
  <2>1. \A v \in People : userLock[v] \in Calls \ {c} /\ MayGoOn(v) => MayGoOn(v)'
    BY <1>1, <1>3, <1>4 DEF MayGoOn, Homeless, TableTypes, RosterTypeOK
  <2>2. \A k \in Houses : IsOpen(k) => IsOpen(k)'
    BY <1>3, <1>4 DEF IsOpen, TableTypes, RosterTypeOK
  <2>. QED
    BY <1>1, <2>1, <2>2, EndsLocks
<1>6. TableTypes'
  BY <1>1, <1>3, <1>4 DEF TableTypes, RosterTypeOK
<1>7. InviteInv'
  BY <1>1, <1>3, <1>4, NobodyAssumption DEF InviteInv, TableTypes, RosterTypeOK
<1>8. OneHome'
  BY <1>1, <1>3, <1>4 DEF OneHome, Homeless, TableTypes, RosterTypeOK
<1>9. OwnerIsMember' /\ ShutHasNoInvites'
  BY <1>1, <1>3, <1>4 DEF OwnerIsMember, ShutHasNoInvites, TableTypes, RosterTypeOK
<1>. QED
  BY <1>1, <1>2, <1>5, <1>6, <1>7, <1>8, <1>9 DEF IInv, HousesInv, RosterNext

LEMMA AcceptKeeps ==
  ASSUME IInv, NEW c \in Calls, CommitAccept(c)
  PROVE  IInv' /\ RosterNext
<1>. DEFINE u == call[c].user
            h == call[c].house
<1>1. /\ u \in People /\ h \in Houses /\ Ends(c) /\ userLock[u] = c /\ u \notin gone
      /\ IsOpen(h) /\ Homeless(u) /\ invite[h][u] = "PENDING"
  BY WriterFacts DEF CommitAccept, UserFirst, HouseOps, MayGoOn, Allowed, MayAccept
<1>2. /\ invite' = [invite EXCEPT ![h][u] = "ACCEPTED"]
      /\ joins' = [joins EXCEPT ![h][u] = @ + 1]
      /\ active' = [active EXCEPT ![h] = @ \cup {u}]
      /\ UNCHANGED <<owner, shut, gone>>
  BY DEF CommitAccept
<1>3. TableTypes /\ InviteInv /\ OneHome /\ OwnerIsMember /\ ShutHasNoInvites
  BY DEF IInv, HousesInv
<1>4. joins[h][u] < MaxJoins
  BY <1>1, <1>3 DEF InviteInv
<1>5. CallsInv'
  <2>1. \A v \in People : userLock[v] \in Calls \ {c} /\ MayGoOn(v) => MayGoOn(v)'
    BY <1>1, <1>2, <1>3 DEF MayGoOn, Homeless, TableTypes, RosterTypeOK
  <2>2. \A k \in Houses : IsOpen(k) => IsOpen(k)'
    BY <1>2 DEF IsOpen
  <2>. QED
    BY <1>1, <2>1, <2>2, EndsLocks
<1>6. TableTypes'
  BY <1>1, <1>2, <1>3 DEF TableTypes, RosterTypeOK
<1>7. InviteInv'
  BY <1>1, <1>2, <1>3 DEF InviteInv, TableTypes, RosterTypeOK
<1>8. OneHome'
  BY <1>1, <1>2, <1>3 DEF OneHome, Homeless, TableTypes, RosterTypeOK
<1>9. OwnerIsMember' /\ ShutHasNoInvites'
  BY <1>1, <1>2, <1>3 DEF IsOpen, OwnerIsMember, ShutHasNoInvites, TableTypes, RosterTypeOK
<1>10. Join(u, h)
  BY <1>1, <1>2, <1>4 DEF Join
<1>. QED
  BY <1>1, <1>5, <1>6, <1>7, <1>8, <1>9, <1>10 DEF IInv, HousesInv, RosterNext

\* Invitations that are sent or revoked move nobody.
LEMMA InviteKeeps ==
  ASSUME IInv, NEW c \in Calls, CommitInvite(c) \/ CommitRevoke(c)
  PROVE  IInv' /\ UNCHANGED rosterVars
<1>. DEFINE h == call[c].house
            w == call[c].other
<1>1. h \in Houses /\ w \in People /\ Ends(c) /\ IsOpen(h)
  BY WriterFacts DEF CommitInvite, CommitRevoke, HouseOps
<1>2. UNCHANGED rosterVars
  BY DEF CommitInvite, CommitRevoke
<1>3. \/ invite' = [invite EXCEPT ![h][w] = "PENDING"] /\ joins[h][w] < MaxJoins
      \/ invite' = [invite EXCEPT ![h][w] = "REVOKED"]
  BY WriterFacts DEF CommitInvite, CommitRevoke, HouseOps, Allowed
<1>4. TableTypes /\ InviteInv /\ OneHome /\ OwnerIsMember /\ ShutHasNoInvites
  BY DEF IInv, HousesInv
<1>5. CallsInv'
  <2>1. \A v \in People : MayGoOn(v) => MayGoOn(v)'
    BY <1>2 DEF rosterVars, MayGoOn, Homeless
  <2>2. \A k \in Houses : IsOpen(k) => IsOpen(k)'
    BY <1>2 DEF rosterVars, IsOpen
  <2>. QED
    BY <1>1, <2>1, <2>2, EndsLocks
<1>6. UNCHANGED <<owner, shut, joins, active, gone>>
  BY <1>2 DEF rosterVars
<1>7. PICK s \in {"PENDING", "REVOKED"} :
        /\ invite' = [invite EXCEPT ![h][w] = s]
        /\ s = "PENDING" => joins[h][w] < MaxJoins
  BY <1>3
<1>8. /\ invite' \in [Houses -> [People -> {"NONE", "PENDING", "EXPIRED", "ACCEPTED", "REVOKED"}]]
      /\ \A k \in Houses, v \in People :
           invite'[k][v] = IF k = h /\ v = w THEN s ELSE invite[k][v]
  BY <1>1, <1>4, <1>7 DEF TableTypes
<1>9. TableTypes'
  BY <1>4, <1>6, <1>8 DEF TableTypes, RosterTypeOK
<1>10. OneHome' /\ OwnerIsMember'
  BY <1>4, <1>6 DEF OneHome, OwnerIsMember
<1>11. InviteInv'
  BY <1>1, <1>4, <1>6, <1>7, <1>8 DEF InviteInv, IsOpen
<1>12. ShutHasNoInvites'
  BY <1>1, <1>4, <1>6, <1>8 DEF ShutHasNoInvites, IsOpen, TableTypes, RosterTypeOK
<1>. QED
  BY <1>2, <1>5, <1>9, <1>10, <1>11, <1>12 DEF IInv, HousesInv

LEMMA TransferKeeps ==
  ASSUME IInv, NEW c \in Calls, CommitTransfer(c)
  PROVE  IInv' /\ RosterNext
<1>. DEFINE u == call[c].user
            h == call[c].house
            w == call[c].other
<1>1. /\ u \in People /\ h \in Houses /\ w \in People /\ Ends(c) /\ IsOpen(h)
      /\ owner[h] = u /\ u \in active[h] /\ u # w /\ w \in active[h]
  BY WriterFacts DEF CommitTransfer, HouseOps, Allowed, Succeeds
<1>2. owner' = [owner EXCEPT ![h] = w] /\ UNCHANGED <<shut, joins, active, gone, invite>>
  BY DEF CommitTransfer
<1>3. TableTypes /\ InviteInv /\ OneHome /\ OwnerIsMember /\ ShutHasNoInvites
  BY DEF IInv, HousesInv
<1>4. CallsInv'
  <2>1. \A v \in People : MayGoOn(v) => MayGoOn(v)'
    BY <1>2 DEF MayGoOn, Homeless
  <2>2. \A k \in Houses : IsOpen(k) => IsOpen(k)'
    BY <1>1, <1>2, <1>3, NobodyAssumption DEF IsOpen, TableTypes, RosterTypeOK
  <2>. QED
    BY <1>1, <2>1, <2>2, EndsLocks
<1>5. TableTypes' /\ InviteInv' /\ OneHome' /\ ShutHasNoInvites'
  BY <1>1, <1>2, <1>3, NobodyAssumption
  DEF TableTypes, RosterTypeOK, InviteInv, OneHome, ShutHasNoInvites
<1>6. OwnerIsMember'
  BY <1>1, <1>2, <1>3 DEF TableTypes, RosterTypeOK, OwnerIsMember, IsOpen
<1>7. Transfer(u, w, h)
  BY <1>1, <1>2 DEF Transfer
<1>. QED
  BY <1>1, <1>4, <1>5, <1>6, <1>7 DEF IInv, HousesInv, RosterNext

LEMMA LeaveKeeps ==
  ASSUME IInv, NEW c \in Calls, CommitLeave(c)
  PROVE  IInv' /\ RosterNext
<1>. DEFINE u == call[c].user
            h == call[c].house
<1>1. /\ u \in People /\ h \in Houses /\ Ends(c) /\ houseLock[h] = c /\ IsOpen(h)
      /\ u \in active[h]
      /\ owner[h] = u => active[h] = {u}
  BY WriterFacts DEF CommitLeave, HouseOps, Allowed, LeavesLast
<1>2. /\ active' = [active EXCEPT ![h] = @ \ {u}]
      /\ shut' = IF owner[h] = u THEN shut \cup {h} ELSE shut
      /\ invite' = IF owner[h] = u
                   THEN [invite EXCEPT ![h] = [w \in People |-> Revoked(@[w])]] ELSE invite
      /\ UNCHANGED <<owner, joins, gone>>
  BY DEF CommitLeave
<1>3. TableTypes /\ InviteInv /\ OneHome /\ OwnerIsMember /\ ShutHasNoInvites
  BY DEF IInv, HousesInv
<1>4. CallsInv'
  <2>1. \A v \in People : MayGoOn(v) => MayGoOn(v)'
    BY <1>1, <1>2, <1>3 DEF MayGoOn, Homeless, TableTypes, RosterTypeOK
  <2>2. \A k \in Houses : houseLock[k] \in Calls \ {c} /\ IsOpen(k) => IsOpen(k)'
    BY <1>1, <1>2 DEF IsOpen
  <2>. QED
    BY <1>1, <2>1, <2>2, EndsLocks
<1>5. /\ invite' \in [Houses -> [People -> {"NONE", "PENDING", "EXPIRED", "ACCEPTED", "REVOKED"}]]
      /\ \A k \in Houses, w \in People :
           /\ invite'[k][w] # "NONE" => invite[k][w] # "NONE"
           /\ invite'[k][w] \in {"PENDING", "EXPIRED"} =>
                invite'[k][w] = invite[k][w] /\ (k = h => owner[h] # u)
  <2>1. CASE owner[h] # u
    BY <1>2, <1>3, <2>1 DEF TableTypes
  <2>2. CASE owner[h] = u
    <3>1. \A w \in People : /\ Revoked(invite[h][w]) \in {"NONE", "ACCEPTED", "REVOKED"}
                            /\ Revoked(invite[h][w]) # "NONE" => invite[h][w] # "NONE"
      BY <1>1, <1>3 DEF Revoked, TableTypes
    <3>2. invite'[h] = [w \in People |-> Revoked(invite[h][w])]
          /\ \A k \in Houses \ {h} : invite'[k] = invite[k]
      BY <1>1, <1>2, <1>3, <2>2 DEF TableTypes
    <3>3. invite' \in [Houses -> [People -> {"NONE", "PENDING", "EXPIRED", "ACCEPTED", "REVOKED"}]]
      BY <1>1, <1>2, <1>3, <2>2, <3>1 DEF TableTypes
    <3>. QED
      BY <3>1, <3>2, <3>3
  <2>. QED
    BY <2>1, <2>2
<1>6. TableTypes'
  BY <1>1, <1>2, <1>3, <1>5 DEF TableTypes, RosterTypeOK
<1>7. InviteInv'
  BY <1>1, <1>2, <1>3, <1>5 DEF InviteInv, IsOpen
<1>8. OneHome'
  BY <1>1, <1>2, <1>3 DEF OneHome, TableTypes, RosterTypeOK
<1>9. OwnerIsMember'
  BY <1>1, <1>2, <1>3 DEF OwnerIsMember, TableTypes, RosterTypeOK, IsOpen
<1>10. ShutHasNoInvites'
  BY <1>1, <1>2, <1>3, <1>5 DEF ShutHasNoInvites, TableTypes, RosterTypeOK
<1>11. Leave(u, h)
  BY <1>1, <1>2 DEF Leave
<1>. QED
  BY <1>1, <1>4, <1>6, <1>7, <1>8, <1>9, <1>10, <1>11 DEF IInv, HousesInv, RosterNext

LEMMA CloseKeeps ==
  ASSUME IInv, NEW c \in Calls, CommitClose(c)
  PROVE  IInv' /\ RosterNext
<1>. DEFINE u == call[c].user
<1>1. u \in People /\ Ends(c) /\ userLock[u] = c /\ u \notin gone /\ Homeless(u)
  BY WriterFacts DEF CommitClose, UserFirst, HouseOps, MayGoOn
<1>2. /\ gone' = gone \cup {u}
      /\ invite' = [h \in Houses |-> [invite[h] EXCEPT ![u] = Revoked(@)]]
      /\ UNCHANGED <<owner, shut, joins, active>>
  BY DEF CommitClose
<1>3. TableTypes /\ InviteInv /\ OneHome /\ OwnerIsMember /\ ShutHasNoInvites
  BY DEF IInv, HousesInv
<1>4. CallsInv'
  <2>1. \A v \in People : userLock[v] \in Calls \ {c} /\ MayGoOn(v) => MayGoOn(v)'
    BY <1>1, <1>2 DEF MayGoOn, Homeless
  <2>2. \A k \in Houses : IsOpen(k) => IsOpen(k)'
    BY <1>2 DEF IsOpen
  <2>. QED
    BY <1>1, <2>1, <2>2, EndsLocks
<1>5. /\ invite' \in [Houses -> [People -> {"NONE", "PENDING", "EXPIRED", "ACCEPTED", "REVOKED"}]]
      /\ \A k \in Houses, w \in People :
           /\ invite'[k][w] # "NONE" => invite[k][w] # "NONE"
           /\ invite'[k][w] \in {"PENDING", "EXPIRED"} => invite'[k][w] = invite[k][w]
  BY <1>1, <1>2, <1>3 DEF TableTypes, Revoked
<1>6. TableTypes' /\ OneHome' /\ OwnerIsMember'
  BY <1>1, <1>2, <1>3, <1>5 DEF TableTypes, RosterTypeOK, OneHome, OwnerIsMember, Homeless
<1>7. InviteInv' /\ ShutHasNoInvites'
  BY <1>2, <1>3, <1>5 DEF InviteInv, ShutHasNoInvites, TableTypes, RosterTypeOK
<1>8. Depart(u)
  BY <1>1, <1>2 DEF Depart
<1>. QED
  BY <1>1, <1>4, <1>6, <1>7, <1>8 DEF IInv, HousesInv, RosterNext

LEMMA InviteExpiresKeeps ==
  ASSUME IInv, NEW h \in Houses, NEW u \in People, InviteExpires(h, u)
  PROVE  IInv'
<1>1. TableTypes /\ InviteInv /\ OneHome /\ OwnerIsMember /\ ShutHasNoInvites
  BY DEF IInv, HousesInv
<1>2. /\ invite[h][u] = "PENDING" /\ invite' = [invite EXCEPT ![h][u] = "EXPIRED"]
      /\ UNCHANGED <<rosterVars, call, userLock, houseLock>>
  BY DEF InviteExpires
<1>3. CallsInv'
  BY <1>2 DEF IInv, CallsInv, LockTypes, FirstInv, UserInv, KeepsUser, PastUser, MayGoOn, Homeless,
     HouseInv, KeepsHouse, PastHouse, IsOpen, rosterVars, Active
<1>4. TableTypes' /\ OneHome' /\ OwnerIsMember'
  BY <1>1, <1>2 DEF TableTypes, RosterTypeOK, rosterVars, OneHome, OwnerIsMember
<1>5. InviteInv' /\ ShutHasNoInvites'
  BY <1>1, <1>2 DEF TableTypes, RosterTypeOK, rosterVars, InviteInv, ShutHasNoInvites
<1>. QED
  BY <1>3, <1>4, <1>5 DEF IInv, HousesInv

-----------------------------------------------------------------------------

LEMMA StepKeeps ==
  ASSUME IInv, [MembershipNext]_houseVars
  PROVE  IInv' /\ [RosterNext]_rosterVars
<1>1. ASSUME NEW c \in Calls, Requests(c) \/ LockUser(c) \/ LockHouse(c) \/ Refuse(c) \/ RollBack(c)
      PROVE  IInv' /\ UNCHANGED rosterVars
  <2>1. CASE Requests(c)
    BY <2>1, BeginKeeps DEF Requests, Begin
  <2>2. CASE LockUser(c) \/ LockHouse(c)
    BY <2>2, LockUserKeeps, LockHouseKeeps DEF LockUser, LockHouse
  <2>3. CASE Refuse(c) \/ RollBack(c)
    BY <2>3, EndsKeep DEF Refuse, RollBack
  <2>. QED
    BY <1>1, <2>1, <2>2, <2>3
<1>2. ASSUME NEW c \in Calls, Commit(c)
      PROVE  IInv' /\ [RosterNext]_rosterVars
  BY <1>2, FoundKeeps, AcceptKeeps, InviteKeeps, TransferKeeps, LeaveKeeps, CloseKeeps DEF Commit
<1>3. ASSUME NEW h \in Houses, NEW u \in People, InviteExpires(h, u)
      PROVE  IInv' /\ UNCHANGED rosterVars
  BY <1>3, InviteExpiresKeeps DEF InviteExpires
<1>4. CASE UNCHANGED houseVars
  <2>1. CallsInv'
    BY <1>4 DEF houseVars, IInv, CallsInv, LockTypes, FirstInv, UserInv, KeepsUser, PastUser, MayGoOn,
       Homeless, HouseInv, KeepsHouse, PastHouse, IsOpen, rosterVars, Active
  <2>2. HousesInv'
    BY <1>4, SameHouses DEF houseVars, IInv
  <2>. QED
    BY <1>4, <2>1, <2>2 DEF IInv, houseVars
<1>. QED
  BY <1>1, <1>2, <1>3, <1>4 DEF MembershipNext, Proceeds

LEMMA StartsSound == MembershipInit => IInv /\ RosterInit
<1>. SUFFICES ASSUME MembershipInit PROVE IInv /\ RosterInit
  OBVIOUS
<1>1. /\ RosterInit /\ invite = [h \in Houses |-> [u \in People |-> "NONE"]]
      /\ call = [c \in Calls |-> NoRequest]
      /\ userLock = [u \in People |-> None] /\ houseLock = [h \in Houses |-> None]
  BY DEF MembershipInit
<1>2. CallsInv
  BY <1>1 DEF CallsInv, LockTypes, FirstInv, UserInv, KeepsUser, PastUser, HouseInv, KeepsHouse,
     PastHouse, NoRequest
<1>3. HousesInv
  BY <1>1 DEF RosterInit, HousesInv, TableTypes, RosterTypeOK, InviteInv, OneHome, OwnerIsMember,
     ShutHasNoInvites
<1>. QED
  BY <1>1, <1>2, <1>3 DEF IInv

\* The types of houses, members, invitations, requests and locks.
THEOREM TypeCorrect == MembershipSpec => []MembershipTypeOK
<1>1. IInv /\ [MembershipNext]_houseVars => IInv'
  BY StepKeeps
<1>2. IInv => MembershipTypeOK
  BY Typed
<1>. QED
  BY <1>1, <1>2, StartsSound, PTL DEF MembershipSpec

\* Nobody lives in two houses and an open house keeps its owner, however the
\* requests of any number of people interleave and wait for each other's rows
\* (HouseMembershipAccessService, HouseInvitesService).
THEOREM HousesSound == MembershipSpec => []HousesAreSound
<1>1. IInv /\ [MembershipNext]_houseVars => IInv'
  BY StepKeeps
<1>2. IInv => HousesAreSound
  <2>. SUFFICES ASSUME IInv PROVE HousesAreSound
    OBVIOUS
  <2>1. ChecksSuffice
    BY DEF IInv, CallsInv, UserInv, KeepsUser, PastUser, MayGoOn, ChecksSuffice
  <2>. QED
    BY <2>1 DEF IInv, HousesInv, HousesAreSound
<1>. QED
  BY <1>1, <1>2, StartsSound, PTL DEF MembershipSpec

\* Transactions that take row locks one after the other do what one step does.
THEOREM Implements == MembershipSpec => RosterSpec
<1>1. IInv /\ [MembershipNext]_houseVars => IInv' /\ [RosterNext]_rosterVars
  BY StepKeeps
<1>. QED
  BY <1>1, StartsSound, PTL DEF MembershipSpec, RosterSpec

-----------------------------------------------------------------------------
(* CostSharing.  The argument: a vote is counted only for the round whose     *)
(* members and rule the voter saw, so whatever a round decides was agreed to  *)
(* by each member it names, and a decided round is never decided again.       *)

\* The rule a round puts to the vote.
RuleOf(round) == IF round.phase = "PREFERENCE" THEN EqualParts ELSE round.rule

\* Only members vote, and those whose vote agrees are on record for the rule.
RoundSound(round, agreed) ==
  /\ round.phase = "PROPOSAL" => round.rule \in Rules
  /\ \A u \in People : round.votes[u] # None =>
       /\ \E m \in round.hash : m[1] = u
       /\ round.votes[u].choice = Agreeing(round.phase) =>
            \A m \in round.hash : m[1] = u => <<u, m[2], RuleOf(round)>> \in agreed

\* Everybody whom the outcome names agreed to its rule.
Backed(outcome, pledged) == \A m \in outcome.hash : <<m[1], m[2], outcome.rule>> \in pledged

RowSound(row, agreed, pledged) ==
  /\ row \in PeriodRows
  /\ row.result # None <=> row.status \in {"AGREED", "FALLBACK"}
  /\ RoundSound(row.round, agreed)
  /\ row.result # None => Backed(row.result, pledged)
  /\ row.fallback # None => Backed(row.fallback, pledged)

PeopleInv == RosterTypeOK /\ IsFiniteSet(active[Home])
RowsInv == \A p \in Periods : period[p] # None => RowSound(period[p], assent[p], pledges)
HistoryTypes ==
  /\ assent \in [Periods -> SUBSET (People \X Nat \X Rules)]
  /\ pledges \in SUBSET (People \X Nat \X Rules)
SharingIInv ==
  /\ PeopleInv
  /\ sharing \in Settings /\ clock \in Nat
  /\ period \in [Periods -> PeriodRows \cup {None}]
  /\ HistoryTypes
  /\ RowsInv
  /\ OneOpenDefault

-----------------------------------------------------------------------------
LEMMA PresentFacts ==
  ASSUME PeopleInv
  PROVE  /\ Present \in SUBSET Memberships
         /\ active[Home] \in SUBSET People /\ IsFiniteSet(active[Home])
         /\ \A u \in People : joins[Home][u] \in Nat
         /\ \A m \in Present : m[1] \in active[Home] /\ m = <<m[1], joins[Home][m[1]]>>
BY SharingAssumption DEF PeopleInv, RosterTypeOK, Present, Memberships

LEMMA SoundForMore ==
  ASSUME NEW row, NEW agreed, NEW pledged, NEW more, RowSound(row, agreed, pledged), pledged \subseteq more
  PROVE  RowSound(row, agreed, more)
BY DEF RowSound, Backed

LEMMA RowFacts ==
  ASSUME NEW row \in PeriodRows
  PROVE  /\ row.round \in RoundRows /\ row.deadline \in Nat /\ row.decided \in Nat \cup {None}
         /\ row.fallback \in Outcomes \cup {None} /\ row.result \in Outcomes \cup {None}
         /\ row.status \in {"OPEN", "AGREED", "FALLBACK", "UNRESOLVED", "NEEDS_REVIEW"}
         /\ row.round.number \in Nat \ {0} /\ row.round.phase \in {"PREFERENCE", "PROPOSAL"}
         /\ row.round.hash \in SUBSET Memberships /\ row.round.rule \in Rules \cup {None}
         /\ row.round.votes \in [People -> Votings \cup {None}]
BY DEF PeriodRows, RoundRows

\* What closes an open period.
Endings == {"FALLBACK", "UNRESOLVED"}
Closed(row, ending, result, t) ==
  [row EXCEPT !.status = ending, !.round.status = ending, !.result = result, !.decided = t]

LEMMA ClosedFacts ==
  ASSUME NEW row \in PeriodRows, NEW ending \in Endings,
         NEW result \in Outcomes \cup {None}, NEW t \in Nat
  PROVE  /\ Closed(row, ending, result, t) \in PeriodRows
         /\ Closed(row, ending, result, t).status = ending /\ Closed(row, ending, result, t).result = result /\ Closed(row, ending, result, t).fallback = row.fallback
         /\ Closed(row, ending, result, t).round.number = row.round.number /\ Closed(row, ending, result, t).round.phase = row.round.phase
         /\ Closed(row, ending, result, t).round.hash = row.round.hash
         /\ Closed(row, ending, result, t).round.rule = row.round.rule /\ Closed(row, ending, result, t).round.votes = row.round.votes
<1>1. row.round \in RoundRows
  BY DEF PeriodRows
<1>2. [row.round EXCEPT !.status = ending] \in RoundRows
  BY <1>1 DEF RoundRows, Endings
<1>3. Closed(row, ending, result, t) \in PeriodRows
  BY <1>1, <1>2 DEF PeriodRows, Closed, Endings
<1>4. /\ Closed(row, ending, result, t).status = ending
      /\ Closed(row, ending, result, t).result = result
      /\ Closed(row, ending, result, t).fallback = row.fallback
      /\ Closed(row, ending, result, t).round = [row.round EXCEPT !.status = ending]
  BY DEF PeriodRows, Closed
<1>. QED
  BY <1>1, <1>3, <1>4 DEF RoundRows

\* A period that is brought up to date keeps its round, and ends on a rule only
\* if it falls back on one.
LEMMA RefreshedFacts ==
  ASSUME NEW p, NEW row, NEW agreed, NEW pledged, RowSound(row, agreed, pledged), NEW t \in Nat
  PROVE  LET new == Refreshed(p, row, t) IN
         /\ RowSound(new, agreed, pledged)
         /\ new.status = "OPEN" => row.status = "OPEN"
         /\ row.result # None => new = row
<1>1. row \in PeriodRows
  BY DEF RowSound
<1>2. CASE row.status # "OPEN" \/ (row.round.hash = Present /\ ~PastDeadline(row, t))
  BY <1>1, <1>2 DEF Refreshed, RowSound
<1>3. CASE row.status = "OPEN" /\ row.round.hash # Present
  <2>1. Refreshed(p, row, t) = [row EXCEPT !.status = "NEEDS_REVIEW"]
    BY <1>3 DEF Refreshed
  <2>2. Refreshed(p, row, t) \in PeriodRows
    BY <1>1, <2>1 DEF PeriodRows
  <2>3. /\ Refreshed(p, row, t).status = "NEEDS_REVIEW" /\ Refreshed(p, row, t).round = row.round
        /\ Refreshed(p, row, t).result = row.result /\ Refreshed(p, row, t).fallback = row.fallback
    BY <1>1, <2>1 DEF PeriodRows
  <2>. QED
    BY <1>3, <2>2, <2>3 DEF RowSound
<1>4. CASE row.status = "OPEN" /\ row.round.hash = Present /\ PastDeadline(row, t)
  <2>1. row.result = None
    BY <1>4 DEF RowSound
  <2>2. row.fallback \in Outcomes \cup {None}
    BY <1>1, RowFacts
  <2>3. PICK outcome \in Endings, result \in Outcomes \cup {None} :
          /\ Refreshed(p, row, t) = Closed(row, outcome, result, t)
          /\ result # None <=> outcome = "FALLBACK"
          /\ result # None => Backed(result, pledged)
    <3>1. CASE FallsBack(p, row)
      <4>1. Refreshed(p, row, t) = Closed(row, "FALLBACK", row.fallback, t)
        BY <1>1, <1>4, <3>1 DEF Refreshed, Closed
      <4>. QED
        BY <2>2, <3>1, <4>1 DEF FallsBack, RowSound, Endings
    <3>2. CASE ~FallsBack(p, row)
      <4>1. Refreshed(p, row, t) = Closed(row, "UNRESOLVED", row.result, t)
        BY <1>1, <1>4, <3>2 DEF Refreshed, Closed
      <4>. QED
        BY <2>1, <4>1 DEF Endings
    <3>. QED
      BY <3>1, <3>2
  <2>4. /\ Closed(row, outcome, result, t) \in PeriodRows
        /\ Closed(row, outcome, result, t).status = outcome /\ Closed(row, outcome, result, t).result = result /\ Closed(row, outcome, result, t).fallback = row.fallback
        /\ Closed(row, outcome, result, t).round.phase = row.round.phase /\ Closed(row, outcome, result, t).round.hash = row.round.hash
        /\ Closed(row, outcome, result, t).round.rule = row.round.rule /\ Closed(row, outcome, result, t).round.votes = row.round.votes
    BY <1>1, <2>3, ClosedFacts
  <2>5. RoundSound(Closed(row, outcome, result, t).round, agreed)
    BY <2>4 DEF RowSound, RoundSound, RuleOf
  <2>6. RowSound(Closed(row, outcome, result, t), agreed, pledged)
    BY <2>3, <2>4, <2>5 DEF RowSound, Endings
  <2>. QED
    BY <2>1, <2>3, <2>4, <2>6 DEF Endings
<1>. QED
  BY <1>2, <1>3, <1>4

LEMMA FreshFacts ==
  ASSUME PeopleInv, NEW n \in Nat \ {0}, NEW agreed
  PROVE  /\ FreshRound(n) \in RoundRows /\ RoundSound(FreshRound(n), agreed)
<1>1. NoVotes \in [People -> Votings \cup {None}] /\ \A u \in People : NoVotes[u] = None
  BY DEF NoVotes
<1>2. Present \in SUBSET Memberships
  BY PresentFacts
<1>. QED
  BY <1>1, <1>2 DEF FreshRound, RoundRows, RoundSound

LEMMA NewFacts ==
  ASSUME PeopleInv, NEW deadline \in Nat, NEW fallback \in Outcomes \cup {None}, NEW agreed, NEW pledged,
         fallback # None => Backed(fallback, pledged)
  PROVE  RowSound(NewPeriod(deadline, fallback), agreed, pledged)
<1>1. FreshRound(1) \in RoundRows /\ RoundSound(FreshRound(1), agreed)
  BY FreshFacts
<1>. QED
  BY <1>1 DEF NewPeriod, RowSound, PeriodRows

LEMMA ReopenedFacts ==
  ASSUME PeopleInv, NEW row, NEW agreed, NEW pledged, RowSound(row, agreed, pledged), NEW deadline \in Nat
  PROVE  RowSound(Reopened(row, deadline), {}, pledged) /\ Reopened(row, deadline).status = "OPEN"
<1>1. row \in PeriodRows /\ row.round \in RoundRows /\ row.round.number + 1 \in Nat \ {0}
  BY RowFacts DEF RowSound
<1>2. FreshRound(row.round.number + 1) \in RoundRows /\ RoundSound(FreshRound(row.round.number + 1), {})
  BY <1>1, FreshFacts
<1>3. Reopened(row, deadline) \in PeriodRows
  BY <1>1, <1>2 DEF Reopened, PeriodRows
<1>4. LET new == Reopened(row, deadline) IN
      /\ new.round = FreshRound(row.round.number + 1) /\ new.status = "OPEN"
      /\ new.result = None /\ new.fallback = row.fallback
  BY <1>1 DEF Reopened, PeriodRows
<1>. QED
  BY <1>2, <1>3, <1>4 DEF RowSound

\* The rows that a vote and a proposal write.
Voted(row, votes) == [row EXCEPT !.round.votes = votes]
Rejected(row) == [row EXCEPT !.round.status = "REJECTED"]
Proposed(row, round) == [row EXCEPT !.round = round]
NextRound(row, rule) ==
  [number |-> row.round.number + 1, phase |-> "PROPOSAL", status |-> "OPEN", hash |-> row.round.hash,
   rule |-> rule, votes |-> NoVotes]

LEMMA VotedFacts ==
  ASSUME NEW row \in PeriodRows, NEW votes \in [People -> Votings \cup {None}]
  PROVE  /\ Voted(row, votes) \in PeriodRows
         /\ Voted(row, votes).status = row.status /\ Voted(row, votes).result = row.result
         /\ Voted(row, votes).fallback = row.fallback
         /\ Voted(row, votes).round = [row.round EXCEPT !.votes = votes]
         /\ Voted(row, votes).round.phase = row.round.phase /\ Voted(row, votes).round.hash = row.round.hash
         /\ Voted(row, votes).round.rule = row.round.rule /\ Voted(row, votes).round.votes = votes
<1>1. row.round \in RoundRows
  BY DEF PeriodRows
<1>2. [row.round EXCEPT !.votes = votes] \in RoundRows
  BY <1>1 DEF RoundRows
<1>3. Voted(row, votes) \in PeriodRows
  BY <1>1, <1>2 DEF PeriodRows, Voted
<1>4. /\ Voted(row, votes).status = row.status /\ Voted(row, votes).result = row.result
      /\ Voted(row, votes).fallback = row.fallback
      /\ Voted(row, votes).round = [row.round EXCEPT !.votes = votes]
  BY DEF PeriodRows, Voted
<1>. QED
  BY <1>1, <1>3, <1>4 DEF RoundRows

LEMMA RejectedFacts ==
  ASSUME NEW row \in PeriodRows
  PROVE  /\ Rejected(row) \in PeriodRows
         /\ Rejected(row).status = row.status /\ Rejected(row).result = row.result
         /\ Rejected(row).fallback = row.fallback
         /\ Rejected(row).round.phase = row.round.phase /\ Rejected(row).round.hash = row.round.hash
         /\ Rejected(row).round.rule = row.round.rule /\ Rejected(row).round.votes = row.round.votes
<1>1. row.round \in RoundRows
  BY DEF PeriodRows
<1>2. [row.round EXCEPT !.status = "REJECTED"] \in RoundRows
  BY <1>1 DEF RoundRows
<1>3. Rejected(row) \in PeriodRows
  BY <1>1, <1>2 DEF PeriodRows, Rejected
<1>4. /\ Rejected(row).status = row.status /\ Rejected(row).result = row.result
      /\ Rejected(row).fallback = row.fallback
      /\ Rejected(row).round = [row.round EXCEPT !.status = "REJECTED"]
  BY DEF PeriodRows, Rejected
<1>. QED
  BY <1>1, <1>3, <1>4 DEF RoundRows

LEMMA AgreedFacts ==
  ASSUME NEW row \in PeriodRows, NEW rule \in Rules, clock \in Nat
  PROVE  /\ Agreed(row, rule) \in PeriodRows
         /\ Agreed(row, rule).status = "AGREED"
         /\ Agreed(row, rule).result = [rule |-> rule, hash |-> row.round.hash]
         /\ Agreed(row, rule).result \in Outcomes
         /\ Agreed(row, rule).fallback = row.fallback
         /\ Agreed(row, rule).round.phase = row.round.phase /\ Agreed(row, rule).round.hash = row.round.hash
         /\ Agreed(row, rule).round.rule = rule /\ Agreed(row, rule).round.votes = row.round.votes
<1>1. row.round \in RoundRows /\ row.round.hash \in SUBSET Memberships
  BY RowFacts
<1>. DEFINE round == [row.round EXCEPT !.status = "AGREED", !.rule = rule]
            outcome == [rule |-> rule, hash |-> row.round.hash]
<1>2. round \in RoundRows
  BY <1>1 DEF RoundRows
<1>3. outcome \in Outcomes
  BY <1>1 DEF Outcomes
<1>4. Agreed(row, rule) = [row EXCEPT !.status = "AGREED", !.round = round, !.result = outcome, !.decided = clock]
  BY DEF Agreed, PeriodRows
<1>5. /\ round.phase = row.round.phase /\ round.hash = row.round.hash
      /\ round.rule = rule /\ round.votes = row.round.votes
  BY <1>1 DEF RoundRows
<1>. HIDE DEF round, outcome
<1>6. Agreed(row, rule) \in PeriodRows
  BY <1>2, <1>3, <1>4 DEF PeriodRows
<1>7. /\ Agreed(row, rule).status = "AGREED" /\ Agreed(row, rule).result = outcome
      /\ Agreed(row, rule).fallback = row.fallback /\ Agreed(row, rule).round = round
  BY <1>4 DEF PeriodRows
<1>. QED
  BY <1>3, <1>5, <1>6, <1>7 DEF outcome

-----------------------------------------------------------------------------
(* Steps.                                                                     *)

LEMMA SharingStarts == SharingInit => SharingIInv
<1>. SUFFICES ASSUME SharingInit PROVE SharingIInv
  OBVIOUS
<1>1. PeopleInv
  BY FS_EmptySet, SharingAssumption DEF SharingInit, RosterInit, PeopleInv, RosterTypeOK
<1>2. sharing \in Settings /\ clock \in Nat
  BY SharingAssumption DEF SharingInit, Settings
<1>3. period \in [Periods -> PeriodRows \cup {None}] /\ HistoryTypes
  BY DEF SharingInit, HistoryTypes
<1>4. \A p \in Periods : period[p] = None
  BY DEF SharingInit
<1>5. RowsInv /\ OneOpenDefault
  BY <1>4 DEF RowsInv, OneOpenDefault, Open, Periods
<1>. QED
  BY <1>1, <1>2, <1>3, <1>5 DEF SharingIInv

LEMMA MovingKeepsPeople == PeopleInv /\ Moving => PeopleInv'
<1>. SUFFICES ASSUME PeopleInv, Moving PROVE PeopleInv'
  OBVIOUS
<1>. USE SharingAssumption
<1>1. PICK u \in People : \/ Found(u, Home) \/ Join(u, Home) \/ Leave(u, Home)
                          \/ \E w \in People : Transfer(u, w, Home)
  BY DEF Moving
<1>2. IsFiniteSet(active[Home]) /\ RosterTypeOK
  BY DEF PeopleInv
<1>3. CASE Found(u, Home)
  <2>1. RosterTypeOK'
    BY <1>2, <1>3 DEF Found, RosterTypeOK
  <2>2. active'[Home] = {u}
    BY <1>2, <1>3 DEF Found, RosterTypeOK
  <2>3. IsFiniteSet({u})
    BY FS_Singleton
  <2>. QED
    BY <2>1, <2>2, <2>3 DEF PeopleInv
<1>4. CASE Join(u, Home)
  <2>1. joins[Home][u] + 1 \in Nat
    BY <1>2 DEF RosterTypeOK
  <2>2. RosterTypeOK'
    BY <1>2, <1>4, <2>1 DEF Join, RosterTypeOK
  <2>3. active'[Home] = active[Home] \cup {u}
    BY <1>2, <1>4 DEF Join, RosterTypeOK
  <2>. QED
    BY <1>2, <2>2, <2>3, FS_AddElement DEF PeopleInv
<1>5. CASE Leave(u, Home)
  <2>1. RosterTypeOK'
    BY <1>2, <1>5 DEF Leave, RosterTypeOK
  <2>2. active'[Home] = active[Home] \ {u}
    BY <1>2, <1>5 DEF Leave, RosterTypeOK
  <2>. QED
    BY <1>2, <2>1, <2>2, FS_RemoveElement DEF PeopleInv
<1>6. CASE \E w \in People : Transfer(u, w, Home)
  BY <1>2, <1>6 DEF Transfer, RosterTypeOK, PeopleInv
<1>. QED
  BY <1>1, <1>3, <1>4, <1>5, <1>6

\* What a step has to show of the periods it writes.
LEMMA PeriodsKeepSharing ==
  ASSUME SharingIInv, UNCHANGED rosterVars, sharing' \in Settings, UNCHANGED clock, HistoryTypes',
         DOMAIN period' = Periods, period' = [p \in Periods |-> period'[p]],
         \A p \in Periods : period'[p] = None \/ RowSound(period'[p], assent'[p], pledges'),
         OneOpenDefault'
  PROVE  SharingIInv'
<1>1. PeopleInv'
  BY DEF SharingIInv, PeopleInv, RosterTypeOK, rosterVars
<1>2. period' \in [Periods -> PeriodRows \cup {None}]
  BY DEF RowSound
<1>. QED
  BY <1>1, <1>2 DEF SharingIInv, RowsInv

LEMMA SyncFacts ==
  ASSUME SharingIInv, NEW t \in Nat, NEW setting \in Settings, NEW seen, Sync(t, setting, seen)
  PROVE  /\ DOMAIN period' = Periods /\ period' = [p \in Periods |-> period'[p]]
         /\ \A p \in Periods : period'[p] = None \/ RowSound(period'[p], assent[p], pledges)
         /\ OneOpenDefault'
         /\ \A p \in Periods : period[p] # None /\ period[p].result # None => period'[p] = period[p]
<1>1. PICK fallback \in Fallbacks(t) :
    period' = [p \in Periods |->
      IF period[p] = None
      THEN IF setting.enabled /\ p = <<"MONTHLY", Month(t)>>
           THEN Refreshed(p, NewPeriod(2 * Month(t) + setting.day, fallback), t)
           ELSE None
      ELSE IF ToRefresh(p, t, setting) \/ p \in seen THEN Refreshed(p, period[p], t)
      ELSE period[p]]
  BY DEF Sync
<1>2. \A p \in Periods : period[p] # None => RowSound(period[p], assent[p], pledges)
  BY DEF SharingIInv, RowsInv
<1>3. fallback \in Outcomes \cup {None} /\ (fallback # None => Backed(fallback, pledges))
  <2>1. \A d \in Defaults : d \in Periods
    BY DEF Periods
  <2>2. CASE Candidates(t) = {}
    BY <2>2 DEF Fallbacks
  <2>3. CASE Candidates(t) # {}
    <3>1. PICK d \in Candidates(t) : fallback = period[d].result
      BY <2>3 DEF Fallbacks
    <3>2. RowSound(period[d], assent[d], pledges)
      BY <1>2, <2>1, <3>1 DEF Candidates
    <3>. QED
      BY <3>1, <3>2, RowFacts DEF RowSound
  <2>. QED
    BY <2>2, <2>3
<1>4. 2 * Month(t) + setting.day \in Nat
  <2>1. setting.day \in Nat
    <3>1. setting.day \in Days
      BY DEF Settings
    <3>2. setting.day \in {1, 2}
      BY <3>1, SharingAssumption
    <3>. QED
      BY <3>2
  <2>2. Month(t) \in Nat
    BY DEF Month
  <2>. QED
    BY <2>1, <2>2
<1>5. ASSUME NEW p \in Periods
      PROVE  /\ period'[p] = None \/ RowSound(period'[p], assent[p], pledges)
             /\ Kind(p) = "DEFAULT" /\ Open(p)' => Open(p)
             /\ period[p] # None /\ period[p].result # None => period'[p] = period[p]
  <2>1. CASE period[p] = None
    <3>1. CASE setting.enabled /\ p = <<"MONTHLY", Month(t)>>
      <4>1. RowSound(NewPeriod(2 * Month(t) + setting.day, fallback), assent[p], pledges)
        BY <1>3, <1>4, NewFacts DEF SharingIInv
      <4>2. RowSound(Refreshed(p, NewPeriod(2 * Month(t) + setting.day, fallback), t), assent[p], pledges)
        BY <4>1, RefreshedFacts
      <4>3. Kind(p) = "MONTHLY"
        BY <3>1 DEF Kind
      <4>4. period'[p] = Refreshed(p, NewPeriod(2 * Month(t) + setting.day, fallback), t)
        BY <1>1, <2>1, <3>1
      <4>. QED
        BY <2>1, <4>2, <4>3, <4>4
    <3>2. CASE ~(setting.enabled /\ p = <<"MONTHLY", Month(t)>>)
      BY <1>1, <2>1, <3>2 DEF Open
    <3>. QED
      BY <3>1, <3>2
  <2>2. CASE period[p] # None /\ (ToRefresh(p, t, setting) \/ p \in seen)
    <3>1. period'[p] = Refreshed(p, period[p], t)
      BY <1>1, <2>2
    <3>2. RowSound(period[p], assent[p], pledges)
      BY <1>2, <2>2
    <3>. QED
      BY <2>2, <3>1, <3>2, RefreshedFacts DEF Open
  <2>3. CASE period[p] # None /\ ~(ToRefresh(p, t, setting) \/ p \in seen)
    BY <1>1, <1>2, <2>3 DEF Open
  <2>. QED
    BY <2>1, <2>2, <2>3
<1>6. OneOpenDefault'
  <2>1. \A d \in Defaults : d \in Periods /\ Kind(d) = "DEFAULT"
    BY DEF Periods, Defaults, Kind
  <2>. QED
    BY <1>5, <2>1 DEF OneOpenDefault, SharingIInv
<1>. QED
  BY <1>1, <1>5, <1>6

LEMMA SyncKeepsSharing ==
  ASSUME SharingIInv, NEW t \in Nat, NEW setting \in Settings, NEW seen, Sync(t, setting, seen),
         sharing' = setting, UNCHANGED <<clock, assent, pledges, rosterVars>>
  PROVE  SharingIInv' /\ \A p \in Periods : Ready(p) => period'[p].result = period[p].result
<1>1. /\ DOMAIN period' = Periods /\ period' = [p \in Periods |-> period'[p]]
      /\ \A p \in Periods : period'[p] = None \/ RowSound(period'[p], assent[p], pledges)
      /\ OneOpenDefault'
      /\ \A p \in Periods : period[p] # None /\ period[p].result # None => period'[p] = period[p]
  BY SyncFacts
<1>2. HistoryTypes'
  BY DEF SharingIInv, HistoryTypes
<1>. QED
  BY <1>1, <1>2, PeriodsKeepSharing DEF Ready, Settled

\* One period is written, and what is on record for it.
LEMMA RowKeepsSharing ==
  ASSUME SharingIInv, NEW p \in Periods, NEW row, NEW agreed \in SUBSET (People \X Nat \X Rules),
         period' = [period EXCEPT ![p] = row], assent' = [assent EXCEPT ![p] = agreed],
         pledges \subseteq pledges', pledges' \in SUBSET (People \X Nat \X Rules),
         RowSound(row, agreed, pledges'),
         row.status = "OPEN" => Open(p) \/ ~OtherOpen(p),
         UNCHANGED <<sharing, clock, rosterVars>>
  PROVE  SharingIInv'
<1>1. /\ DOMAIN period' = Periods /\ period' = [q \in Periods |-> period'[q]]
      /\ period'[p] = row /\ \A q \in Periods \ {p} : period'[q] = period[q]
  BY DEF SharingIInv
<1>2. assent'[p] = agreed /\ \A q \in Periods \ {p} : assent'[q] = assent[q]
  BY DEF SharingIInv, HistoryTypes
<1>3. HistoryTypes'
  BY DEF SharingIInv, HistoryTypes
<1>4. \A q \in Periods : period'[q] = None \/ RowSound(period'[q], assent'[q], pledges')
  BY <1>1, <1>2, SoundForMore DEF SharingIInv, RowsInv
<1>5. OneOpenDefault'
  <2>1. \A d \in Defaults : d \in Periods /\ Kind(d) = "DEFAULT"
    BY DEF Periods, Defaults, Kind
  <2>2. \A q \in Periods \ {p} : Open(q)' <=> Open(q)
    BY <1>1 DEF Open
  <2>3. p \in Defaults /\ Open(p)' => \A d \in Defaults \ {p} : ~Open(d)
    BY <1>1, <2>1 DEF Open, OtherOpen, SharingIInv, OneOpenDefault
  <2>. QED
    BY <2>1, <2>2, <2>3 DEF OneOpenDefault, SharingIInv
<1>6. sharing' \in Settings /\ UNCHANGED clock /\ UNCHANGED rosterVars
  BY DEF SharingIInv
<1>. QED
  BY <1>1, <1>3, <1>4, <1>5, <1>6, PeriodsKeepSharing

LEMMA LooksKeepSharing ==
  ASSUME SharingIInv, NEW u \in People,
         \/ Scheduler
         \/ \E m \in Months : Look(u, m)
         \/ \E setting \in Settings : Setting(u, setting)
  PROVE  SharingIInv' /\ \A p \in Periods : Ready(p) => period'[p].result = period[p].result
<1>1. sharing \in Settings /\ clock \in Nat
  BY DEF SharingIInv
<1>2. ASSUME Scheduler
      PROVE  SharingIInv' /\ \A p \in Periods : Ready(p) => period'[p].result = period[p].result
  <2>1. PICK t \in Nat : Sync(t, sharing, {})
    BY <1>1, <1>2 DEF Scheduler
  <2>. QED
    BY <1>1, <1>2, <2>1, SyncKeepsSharing DEF Scheduler
<1>3. ASSUME NEW m \in Months, Look(u, m)
      PROVE  SharingIInv' /\ \A p \in Periods : Ready(p) => period'[p].result = period[p].result
  <2>1. Sync(clock, sharing, Defaults \cup {<<"MONTHLY", m>>})
    BY <1>3 DEF Look
  <2>. QED
    BY <1>1, <1>3, <2>1, SyncKeepsSharing DEF Look
<1>4. ASSUME NEW setting \in Settings, Setting(u, setting)
      PROVE  SharingIInv' /\ \A p \in Periods : Ready(p) => period'[p].result = period[p].result
  <2>1. Sync(clock, setting, {})
    BY <1>4 DEF Setting
  <2>. QED
    BY <1>1, <1>4, <2>1, SyncKeepsSharing DEF Setting
<1>. QED
  BY <1>2, <1>3, <1>4

LEMMA ResolveKeepsSharing ==
  ASSUME SharingIInv, NEW u \in People, NEW p \in Monthly, ResolveRule(u, p)
  PROVE  SharingIInv' /\ \A q \in Periods : Ready(q) => period'[q].result = period[q].result
<1>1. /\ p \in Periods /\ clock \in Nat /\ period \in [Periods -> PeriodRows \cup {None}]
      /\ assent \in [Periods -> SUBSET (People \X Nat \X Rules)] /\ pledges \in SUBSET (People \X Nat \X Rules)
  BY DEF Periods, SharingIInv, HistoryTypes
<1>2. Open(p) /\ RowSound(period[p], assent[p], pledges)
  BY <1>1 DEF ResolveRule, SharingIInv, RowsInv, Open
<1>3. /\ RowSound(Refreshed(p, period[p], clock), assent[p], pledges)
      /\ period[p].result # None => Refreshed(p, period[p], clock) = period[p]
  BY <1>1, <1>2, RefreshedFacts
<1>4. /\ period' = [period EXCEPT ![p] = Refreshed(p, period[p], clock)]
      /\ assent' = [assent EXCEPT ![p] = assent[p]] /\ pledges' = pledges
      /\ UNCHANGED <<sharing, clock, rosterVars>>
  BY <1>1 DEF ResolveRule
<1>5. SharingIInv'
  BY <1>1, <1>2, <1>3, <1>4, RowKeepsSharing
<1>. QED
  BY <1>1, <1>3, <1>4, <1>5 DEF Ready, Settled

LEMMA OpenDefaultKeepsSharing ==
  ASSUME SharingIInv, NEW u \in People, NEW d \in Defaults, NEW deadline \in Nat,
         OpenDefault(u, d, deadline)
  PROVE  SharingIInv' /\ \A q \in Periods : Ready(q) => period'[q].result = period[q].result
<1>. DEFINE current == {e \in Defaults : Open(e)}
            after == [e \in Periods |-> IF e \in current THEN Refreshed(e, period[e], clock) ELSE period[e]]
<1>1. /\ d \in Periods /\ clock \in Nat /\ period \in [Periods -> PeriodRows \cup {None}]
      /\ HistoryTypes /\ PeopleInv /\ Defaults \subseteq Periods
  BY DEF Periods, SharingIInv
<1>2. /\ period' = IF \E e \in current : after[e].status = "OPEN" THEN after
                  ELSE [after EXCEPT ![d] = NewPeriod(deadline, None)]
      /\ period[d] = None
      /\ UNCHANGED <<sharing, clock, assent, pledges, rosterVars>>
  BY DEF OpenDefault
<1>3. \A p \in Periods : period[p] # None => RowSound(period[p], assent[p], pledges)
  BY DEF SharingIInv, RowsInv
<1>4. ASSUME NEW p \in Periods
      PROVE  /\ after[p] = None \/ RowSound(after[p], assent[p], pledges)
             /\ after[p] # None /\ after[p].status = "OPEN" => Open(p)
             /\ period[p] # None /\ period[p].result # None => after[p] = period[p]
  <2>1. CASE p \in current
    <3>1. period[p] # None /\ after[p] = Refreshed(p, period[p], clock)
      BY <2>1 DEF Open
    <3>. QED
      BY <1>1, <1>3, <2>1, <3>1, RefreshedFacts
  <2>2. CASE p \notin current
    <3>1. after[p] = period[p]
      BY <2>2
    <3>. QED
      BY <1>3, <3>1 DEF Open
  <2>. QED
    BY <2>1, <2>2
<1>5. RowSound(NewPeriod(deadline, None), assent[d], pledges)
  BY <1>1, NewFacts
<1>6. DOMAIN after = Periods /\ after = [p \in Periods |-> after[p]] /\ current \subseteq Defaults
      /\ (\A p \in Defaults : Open(p) => p \in current)
      /\ (\A p \in current : period[p] # None /\ after[p] = Refreshed(p, period[p], clock))
  BY <1>1 DEF Open
<1>. HIDE DEF after, current
<1>7. /\ DOMAIN period' = Periods /\ period' = [p \in Periods |-> period'[p]]
      /\ \A p \in Periods : period'[p] = after[p] \/ (p = d /\ period'[p] = NewPeriod(deadline, None))
  BY <1>1, <1>2, <1>6
<1>8. \A p \in Periods : period'[p] = None \/ RowSound(period'[p], assent'[p], pledges')
  BY <1>2, <1>4, <1>5, <1>7
<1>9. OneOpenDefault'
  <2>1. CASE \E e \in current : after[e].status = "OPEN"
    BY <1>1, <1>2, <1>4, <2>1 DEF OneOpenDefault, Open, SharingIInv
  <2>2. CASE \A e \in current : after[e].status # "OPEN"
    <3>1. \A p \in Defaults : ~(after[p] # None /\ after[p].status = "OPEN")
      BY <1>1, <1>4, <1>6, <2>2
    <3>2. period' = [after EXCEPT ![d] = NewPeriod(deadline, None)]
      BY <1>2, <2>2
    <3>3. \A p \in Defaults \ {d} : ~Open(p)'
      BY <1>1, <1>6, <3>1, <3>2 DEF Open
    <3>. QED
      BY <3>3 DEF OneOpenDefault
  <2>. QED
    BY <2>1, <2>2
<1>10. sharing' \in Settings /\ UNCHANGED clock /\ UNCHANGED rosterVars /\ HistoryTypes'
  BY <1>1, <1>2 DEF SharingIInv, HistoryTypes
<1>11. SharingIInv'
  BY <1>7, <1>8, <1>9, <1>10, PeriodsKeepSharing
<1>. QED
  BY <1>2, <1>4, <1>7, <1>11 DEF Ready, Settled

LEMMA OpenFacts ==
  ASSUME SharingIInv, NEW u \in People, NEW p \in Periods, NEW n, MayShare(u), AssertOpen(p, n)
  PROVE  /\ RowSound(period[p], assent[p], pledges) /\ period[p] \in PeriodRows
         /\ Open(p) /\ period[p].status = "OPEN" /\ period[p].result = None
         /\ period[p].round.number = n /\ period[p].round.hash = Present
         /\ u \in active[Home] /\ <<u, joins[Home][u]>> \in Present
         /\ PeopleInv /\ clock \in Nat /\ assent[p] \in SUBSET (People \X Nat \X Rules)
         /\ pledges \in SUBSET (People \X Nat \X Rules)
<1>1. Open(p) /\ period[p].round.number = n /\ period[p].round.hash = Present
  BY DEF AssertOpen
<1>2. RowSound(period[p], assent[p], pledges)
  BY <1>1 DEF SharingIInv, RowsInv, Open
<1>3. u \in active[Home] /\ <<u, joins[Home][u]>> \in Present
  BY DEF MayShare, Present
<1>. QED
  BY <1>1, <1>2, <1>3 DEF RowSound, Open, SharingIInv, HistoryTypes

\* Votes of members only, and as many as there are members: all of them voted.
LEMMA AllVoted ==
  ASSUME PeopleInv, NEW round, NEW votes, Unanimous(round, votes),
         \A u \in People : votes[u] # None => u \in active[Home]
  PROVE  \A u \in active[Home] : votes[u] # None /\ votes[u].choice = Agreeing(round.phase)
<1>. DEFINE voters == {u \in People : votes[u] # None}
<1>1. voters \subseteq active[Home] /\ IsFiniteSet(active[Home])
  BY DEF PeopleInv
<1>2. Cardinality(voters) = Cardinality(active[Home])
  BY DEF Unanimous
<1>3. voters = active[Home]
  BY <1>1, <1>2, FS_Subset
<1>. QED
  BY <1>3 DEF Unanimous

LEMMA VoteKeepsSharing ==
  ASSUME SharingIInv, NEW u \in People, NEW p \in Periods, NEW n,
         NEW choice \in {"EQUAL", "WEIGHTED", "AGREE", "REJECT"}, NEW version \in Nat,
         Vote(u, p, n, choice, version)
  PROVE  SharingIInv' /\ \A q \in Periods : Ready(q) => period'[q].result = period[q].result
<1>. DEFINE row == period[p]
            round == row.round
            stay == joins[Home][u]
            rule == RuleOf(round)
            votes == [round.votes EXCEPT ![u] = [choice |-> choice, version |-> version + 1]]
            agrees == choice = Agreeing(round.phase)
            agreed == IF agrees THEN assent[p] \cup {<<u, stay, rule>>}
                      ELSE {a \in assent[p] : a[1] # u}
            accepts == choice # "REJECT" /\ Unanimous(round, votes)
            new == IF choice = "REJECT" THEN Rejected(Voted(row, votes))
                   ELSE IF Unanimous(round, votes) THEN Agreed(Voted(row, votes), rule)
                   ELSE Voted(row, votes)
<1>1. MayShare(u) /\ AssertOpen(p, n)
  BY DEF Vote
<1>2. /\ RowSound(row, assent[p], pledges) /\ row \in PeriodRows
      /\ Open(p) /\ row.status = "OPEN" /\ row.result = None
      /\ round.hash = Present /\ u \in active[Home] /\ <<u, stay>> \in Present
      /\ PeopleInv /\ clock \in Nat /\ assent[p] \in SUBSET (People \X Nat \X Rules)
      /\ pledges \in SUBSET (People \X Nat \X Rules)
  BY <1>1, OpenFacts
<1>3. /\ round \in RoundRows /\ round.votes \in [People -> Votings \cup {None}]
      /\ round.phase \in {"PREFERENCE", "PROPOSAL"}
  BY <1>2, RowFacts
<1>4. rule \in Rules
  BY <1>2, <1>3 DEF RowSound, RoundSound, RuleOf, Rules
<1>5. /\ period' = [period EXCEPT ![p] = new] /\ assent' = [assent EXCEPT ![p] = agreed]
      /\ pledges' = IF period'[p].status = "AGREED" THEN pledges \cup assent'[p] ELSE pledges
      /\ UNCHANGED <<sharing, clock, rosterVars>>
  BY <1>2 DEF Vote, Voted, Rejected, RuleOf, SharingIInv, HistoryTypes
<1>6. period'[p] = new /\ assent'[p] = agreed
  BY <1>5 DEF SharingIInv, HistoryTypes
<1>7. /\ votes \in [People -> Votings \cup {None}]
      /\ votes[u] # None /\ votes[u].choice = choice
      /\ \A w \in People \ {u} : votes[w] = round.votes[w]
  <2>1. [choice |-> choice, version |-> version + 1] \in Votings
    BY DEF Votings
  <2>2. [choice |-> choice, version |-> version + 1] # None
    BY <2>1, OutcomesAssumption
  <2>. QED
    BY <1>3, <2>1, <2>2
<1>8. stay \in Nat /\ agreed \in SUBSET (People \X Nat \X Rules)
  <2>1. stay \in Nat
    BY <1>2, PresentFacts
  <2>. QED
    BY <1>2, <1>4, <2>1
<1>9. \A m \in Present : m[1] = u => m[2] = stay
  BY <1>2, PresentFacts
<1>10. \A w \in People : votes[w] # None =>
         /\ w \in active[Home] /\ \E m \in Present : m[1] = w
         /\ votes[w].choice = Agreeing(round.phase) =>
              \A m \in Present : m[1] = w => <<w, m[2], rule>> \in agreed
  <2>. SUFFICES ASSUME NEW w \in People, votes[w] # None
                PROVE  /\ w \in active[Home] /\ \E m \in Present : m[1] = w
                       /\ votes[w].choice = Agreeing(round.phase) =>
                            \A m \in Present : m[1] = w => <<w, m[2], rule>> \in agreed
    OBVIOUS
  <2>1. CASE w = u
    <3>1. \E m \in Present : m[1] = w
      BY <1>2, <2>1
    <3>2. votes[w].choice = Agreeing(round.phase) =>
            \A m \in Present : m[1] = w => <<w, m[2], rule>> \in agreed
      BY <1>7, <1>9, <2>1
    <3>. QED
      BY <1>2, <2>1, <3>1, <3>2
  <2>2. CASE w # u
    <3>1. votes[w] = round.votes[w]
      BY <1>7, <2>2
    <3>2. /\ \E m \in Present : m[1] = w
          /\ round.votes[w].choice = Agreeing(round.phase) =>
              \A m \in Present : m[1] = w => <<w, m[2], rule>> \in assent[p]
      BY <1>2, <3>1 DEF RowSound, RoundSound
    <3>3. \A k : <<w, k, rule>> \in assent[p] => <<w, k, rule>> \in agreed
      BY <2>2
    <3>4. w \in active[Home]
      BY <1>2, <3>2, PresentFacts
    <3>. QED
      BY <3>1, <3>2, <3>3, <3>4
  <2>. QED
    BY <2>1, <2>2
<1>. HIDE DEF votes, agreed, rule, stay
<1>11. /\ Voted(row, votes) \in PeriodRows
       /\ Voted(row, votes).status = "OPEN" /\ Voted(row, votes).result = None
       /\ Voted(row, votes).fallback = row.fallback
       /\ Voted(row, votes).round.phase = round.phase /\ Voted(row, votes).round.hash = Present
       /\ Voted(row, votes).round.rule = round.rule /\ Voted(row, votes).round.votes = votes
  BY <1>2, <1>7, VotedFacts, ZenonT(60)
<1>12. RoundSound(Voted(row, votes).round, agreed)
  <2>1. RuleOf(Voted(row, votes).round) = rule
    BY <1>11 DEF RuleOf, rule
  <2>2. round.phase = "PROPOSAL" => round.rule \in Rules
    BY <1>2 DEF RowSound, RoundSound
  <2>. QED
    BY <1>10, <1>11, <2>1, <2>2 DEF RoundSound
<1>13. row.fallback # None => Backed(row.fallback, pledges)
  BY <1>2 DEF RowSound
<1>14. CASE ~accepts
  <2>1. /\ new \in PeriodRows /\ new.status = "OPEN" /\ new.result = None
        /\ new.fallback = row.fallback /\ RoundSound(new.round, agreed)
    <3>1. CASE choice = "REJECT"
      <4>1. new = Rejected(Voted(row, votes))
        BY <3>1
      <4>2. /\ new \in PeriodRows /\ new.status = "OPEN" /\ new.result = None
            /\ new.fallback = row.fallback
            /\ new.round.phase = round.phase /\ new.round.hash = Present
            /\ new.round.rule = round.rule /\ new.round.votes = votes
        BY <1>11, <4>1, RejectedFacts
      <4>3. RuleOf(new.round) = rule /\ (round.phase = "PROPOSAL" => round.rule \in Rules)
        BY <1>2, <4>2 DEF RuleOf, rule, RowSound, RoundSound
      <4>. HIDE DEF new
      <4>4. RoundSound(new.round, agreed)
        BY <1>10, <4>2, <4>3 DEF RoundSound
      <4>. QED
        BY <4>2, <4>4
    <3>2. CASE choice # "REJECT"
      <4>1. new = Voted(row, votes)
        BY <1>14, <3>2
      <4>2. /\ new \in PeriodRows /\ new.status = "OPEN" /\ new.result = None
            /\ new.fallback = row.fallback
        BY <1>11, <4>1
      <4>3. RoundSound(new.round, agreed)
        BY <1>12, <4>1
      <4>. QED
        BY <4>2, <4>3
    <3>. QED
      BY <3>1, <3>2
  <2>2. pledges' = pledges
    BY <1>5, <1>6, <2>1
  <2>3. RowSound(new, agreed, pledges')
    BY <1>13, <2>1, <2>2 DEF RowSound
  <2>. HIDE DEF new
  <2>4. SharingIInv'
    BY <1>2, <1>5, <1>8, <2>2, <2>3, RowKeepsSharing
  <2>. QED
    BY <1>2, <1>5, <2>4 DEF Ready, Settled, SharingIInv
<1>15. CASE accepts
  <2>1. new = Agreed(Voted(row, votes), rule)
    BY <1>15
  <2>2. /\ new \in PeriodRows /\ new.status = "AGREED"
        /\ new.result = [rule |-> rule, hash |-> Present] /\ new.result \in Outcomes
        /\ new.fallback = row.fallback
        /\ new.round.phase = round.phase /\ new.round.hash = Present
        /\ new.round.rule = rule /\ new.round.votes = votes
    BY <1>2, <1>4, <1>11, <2>1, AgreedFacts
  <2>3. pledges' = pledges \cup agreed
    BY <1>5, <1>6, <2>2
  <2>4. \A w \in active[Home] : votes[w] # None /\ votes[w].choice = Agreeing(round.phase)
    BY <1>2, <1>10, <1>15, AllVoted
  <2>5. Backed(new.result, pledges')
    <3>1. \A m \in Present : m[1] \in active[Home] /\ m[1] \in People
      BY <1>2, PresentFacts
    <3>2. \A m \in Present : <<m[1], m[2], rule>> \in agreed
      BY <1>10, <2>4, <3>1
    <3>3. new.result.hash = Present /\ new.result.rule = rule
      BY <2>2
    <3>. QED
      BY <2>3, <3>2, <3>3 DEF Backed
  <2>6. RoundSound(new.round, agreed)
    <3>1. RuleOf(new.round) = rule
      BY <2>2 DEF RuleOf, rule
    <3>. QED
      BY <1>4, <1>10, <2>2, <3>1, SMTT(30) DEF RoundSound
  <2>7. new.fallback # None => Backed(new.fallback, pledges')
    BY <1>13, <2>2, <2>3 DEF Backed
  <2>8. RowSound(new, agreed, pledges')
    BY <2>2, <2>5, <2>6, <2>7, OutcomesAssumption DEF RowSound
  <2>9. new.status # "OPEN"
    BY <2>2
  <2>10. pledges \subseteq pledges' /\ pledges' \in SUBSET (People \X Nat \X Rules)
    BY <1>2, <1>8, <2>3
  <2>. HIDE DEF new
  <2>11. SharingIInv'
    BY <1>5, <1>8, <2>8, <2>9, <2>10, RowKeepsSharing
  <2>. QED
    BY <1>2, <1>5, <2>11 DEF Ready, Settled, SharingIInv
<1>. QED
  BY <1>14, <1>15

LEMMA ProposalKeepsSharing ==
  ASSUME SharingIInv, NEW u \in People, NEW p \in Periods, NEW n, NEW rule \in Rules,
         Proposal(u, p, n, rule)
  PROVE  SharingIInv' /\ \A q \in Periods : Ready(q) => period'[q].result = period[q].result
<1>. DEFINE row == period[p]
            round == NextRound(row, rule)
<1>1. MayShare(u) /\ AssertOpen(p, n)
  BY DEF Proposal
<1>2. /\ RowSound(row, assent[p], pledges) /\ row \in PeriodRows
      /\ Open(p) /\ row.status = "OPEN" /\ row.result = None /\ row.round.number = n
      /\ PeopleInv /\ pledges \in SUBSET (People \X Nat \X Rules)
  BY <1>1, OpenFacts
<1>3. /\ period' = [period EXCEPT ![p] = Proposed(row, round)]
      /\ assent' = [assent EXCEPT ![p] = {}] /\ pledges' = pledges
      /\ UNCHANGED <<sharing, clock, rosterVars>>
  BY <1>2 DEF Proposal, Proposed, NextRound, SharingIInv
<1>4. NoVotes \in [People -> Votings \cup {None}] /\ \A w \in People : NoVotes[w] = None
  BY DEF NoVotes
<1>5. row.round.number + 1 \in Nat \ {0} /\ row.round.hash \in SUBSET Memberships
  BY <1>2, RowFacts
<1>6. round \in RoundRows
  BY <1>4, <1>5 DEF NextRound, RoundRows
<1>7. round.phase = "PROPOSAL" /\ round.rule = rule /\ round.votes = NoVotes
  BY DEF NextRound
<1>8. RoundSound(round, {})
  BY <1>4, <1>7 DEF RoundSound
<1>. HIDE DEF round
<1>9. Proposed(row, round) \in PeriodRows
  BY <1>2, <1>6 DEF Proposed, PeriodRows
<1>10. /\ Proposed(row, round).status = row.status /\ Proposed(row, round).result = row.result
       /\ Proposed(row, round).fallback = row.fallback /\ Proposed(row, round).round = round
  BY <1>2 DEF Proposed, PeriodRows
<1>11. RowSound(Proposed(row, round), {}, pledges)
  BY <1>2, <1>8, <1>9, <1>10 DEF RowSound
<1>12. SharingIInv'
  BY <1>2, <1>3, <1>11, RowKeepsSharing
<1>. QED
  BY <1>2, <1>3, <1>12 DEF Ready, Settled, SharingIInv

LEMMA ReopenKeepsSharing ==
  ASSUME SharingIInv, NEW u \in People, NEW p \in Periods, NEW n, NEW deadline \in Nat,
         Reopen(u, p, n, deadline)
  PROVE  SharingIInv' /\ \A q \in Periods : Ready(q) => period'[q].result = period[q].result
<1>1. /\ period[p] # None /\ MayReopen(period[p]) /\ ~OtherOpen(p)
      /\ period' = [period EXCEPT ![p] = Reopened(period[p], deadline)]
      /\ assent' = [assent EXCEPT ![p] = {}] /\ pledges' = pledges
      /\ UNCHANGED <<sharing, clock, rosterVars>>
  BY DEF Reopen, SharingIInv
<1>2. /\ PeopleInv /\ RowSound(period[p], assent[p], pledges)
      /\ pledges \in SUBSET (People \X Nat \X Rules)
  BY <1>1 DEF SharingIInv, RowsInv, HistoryTypes
<1>3. RowSound(Reopened(period[p], deadline), {}, pledges)
  BY <1>2, ReopenedFacts
<1>4. SharingIInv'
  BY <1>1, <1>2, <1>3, RowKeepsSharing
<1>. QED
  BY <1>1, <1>4 DEF Ready, MayReopen, SharingIInv

\* The inductive invariant, and what no step does to an agreement.
LEMMA SharingSteps ==
  ASSUME SharingIInv, [SharingNext]_<<rosterVars, sharingVars>>
  PROVE  SharingIInv' /\ \A q \in Periods : Ready(q) => period'[q].result = period[q].result
<1>1. CASE Scheduler
  <2>1. CASE People = {}
    <3>1. PICK t \in Nat : Sync(t, sharing, {})
      BY <1>1 DEF Scheduler, SharingIInv
    <3>. QED
      BY <1>1, <3>1, SyncKeepsSharing DEF Scheduler, SharingIInv
  <2>2. CASE \E u \in People : TRUE
    BY <1>1, <2>2, LooksKeepSharing
  <2>. QED
    BY <2>1, <2>2
<1>2. CASE TimePasses
  <2>1. clock' \in Nat /\ UNCHANGED <<sharing, period, assent, pledges, rosterVars>>
    BY <1>2 DEF TimePasses, SharingIInv
  <2>2. PeopleInv'
    BY <2>1 DEF SharingIInv, PeopleInv, RosterTypeOK, rosterVars
  <2>. QED
    BY <2>1, <2>2 DEF SharingIInv, HistoryTypes, RowsInv, OneOpenDefault, Open
<1>3. CASE Moving
  <2>1. PeopleInv' /\ UNCHANGED sharingVars
    BY <1>3, MovingKeepsPeople DEF SharingIInv, Moving
  <2>. QED
    BY <2>1 DEF SharingIInv, HistoryTypes, RowsInv, OneOpenDefault, Open, sharingVars
<1>4. CASE \E u \in People :
       \/ \E m \in Months : Look(u, m)
       \/ \E setting \in Settings : Setting(u, setting)
       \/ \E d \in Defaults, t \in 1..MaxTime : OpenDefault(u, d, t)
       \/ \E p \in Periods, n \in 1..MaxRounds :
            \/ \E choice \in {"EQUAL", "WEIGHTED", "AGREE", "REJECT"},
                  version \in 0..MaxVoteVersion : Vote(u, p, n, choice, version)
            \/ \E rule \in Rules : Proposal(u, p, n, rule)
            \/ \E t \in 1..MaxTime : Reopen(u, p, n, t)
       \/ \E p \in Monthly : ResolveRule(u, p)
  <2>1. 1..MaxTime \subseteq Nat /\ 0..MaxVoteVersion \subseteq Nat
    BY SharingAssumption
  <2>2. PICK u \in People :
       \/ \E m \in Months : Look(u, m)
       \/ \E setting \in Settings : Setting(u, setting)
       \/ \E d \in Defaults, t \in Nat : OpenDefault(u, d, t)
       \/ \E p \in Periods, n \in 1..MaxRounds :
            \/ \E choice \in {"EQUAL", "WEIGHTED", "AGREE", "REJECT"},
                  version \in Nat : Vote(u, p, n, choice, version)
            \/ \E rule \in Rules : Proposal(u, p, n, rule)
            \/ \E t \in Nat : Reopen(u, p, n, t)
       \/ \E p \in Monthly : ResolveRule(u, p)
    BY <1>4, <2>1
  <2>. QED
    BY <2>2, LooksKeepSharing, OpenDefaultKeepsSharing, VoteKeepsSharing, ProposalKeepsSharing,
       ReopenKeepsSharing, ResolveKeepsSharing
<1>5. CASE UNCHANGED <<rosterVars, sharingVars>>
  <2>1. PeopleInv'
    BY <1>5 DEF SharingIInv, PeopleInv, RosterTypeOK, rosterVars
  <2>. QED
    BY <1>5, <2>1 DEF SharingIInv, HistoryTypes, RowsInv, OneOpenDefault, Open, sharingVars
<1>. QED
  BY <1>1, <1>2, <1>3, <1>4, <1>5 DEF SharingNext

LEMMA SharingHolds == SharingSpec => []SharingIInv
<1>1. SharingIInv /\ [SharingNext]_<<rosterVars, sharingVars>> => SharingIInv'
  BY SharingSteps
<1>. QED
  BY <1>1, SharingStarts, PTL DEF SharingSpec

\* Settings, periods and their rounds have their types; a period has a result
\* exactly if it ended on one.
THEOREM SharingTypeCorrect == SharingSpec => []SharingTypeOK
<1>1. SharingIInv => SharingTypeOK
  <2>. SUFFICES ASSUME SharingIInv PROVE SharingTypeOK
    OBVIOUS
  <2>1. \A p \in Periods : period[p] # None =>
          (period[p].result # None <=> period[p].status \in {"AGREED", "FALLBACK"})
    BY DEF SharingIInv, RowsInv, RowSound
  <2>. QED
    BY <2>1 DEF SharingIInv, SharingTypeOK, HistoryTypes
<1>. QED
  BY <1>1, SharingHolds, PTL

\* Nobody pays by a rule they did not agree to in this stay, and one DEFAULT rule
\* at a time is put to the vote, for any members who come and go and any proposals
\* (CostSharingService.vote, refresh, list).
THEOREM VotesSound == SharingSpec => []VotesAreSound
<1>1. SharingIInv => VotesAreSound
  <2>. SUFFICES ASSUME SharingIInv PROVE VotesAreSound
    OBVIOUS
  <2>1. ASSUME NEW p \in Periods, Ready(p), NEW u \in active[Home]
        PROVE  <<u, joins[Home][u], period[p].result.rule>> \in pledges
    <3>1. Backed(period[p].result, pledges) /\ period[p].result.hash = Present
      BY <2>1 DEF Ready, Settled, SharingIInv, RowsInv, RowSound
    <3>2. <<u, joins[Home][u]>> \in Present
      BY DEF Present
    <3>. QED
      BY <3>1, <3>2 DEF Backed
  <2>. QED
    BY <2>1 DEF VotesAreSound, ReadyRuleWasAgreed, SharingIInv
<1>. QED
  BY <1>1, SharingHolds, PTL

\* What the members agreed on stands while they are the members: no vote, setting,
\* deadline or reopening replaces it (CostSharingService.reopen).
THEOREM AgreementsStand == SharingSpec => AgreementStands
<1>1. SharingIInv /\ [SharingNext]_<<rosterVars, sharingVars>> =>
        [\A p \in Periods : (Ready(p) /\ Present' = Present) =>
           period'[p].result = period[p].result]_<<rosterVars, sharingVars>>
  BY SharingSteps
<1>. QED
  BY <1>1, SharingHolds, PTL DEF SharingSpec, AgreementStands

-----------------------------------------------------------------------------
(* AiCredits: what is promised follows once an open refund holds its pack and *)
(* a completed one has revoked it, which is why no new use can charge a pack  *)
(* under refund.                                                              *)

\* Holding and revoking follow the refund request of the pack.
RefundBlocksPack ==
  \A p \in Packs : /\ refund[p] = "OPEN" => p \in held
                   /\ refund[p] = "COMPLETED" => p \in revoked

CreditsInv ==
  /\ TypeOK
  /\ CreditsAccounted
  /\ WithinAllowance
  /\ RefundedPackUnspent
  /\ RefundBlocksPack

PendingUses == {x \in Uses : status[x] = "PENDING"}

-----------------------------------------------------------------------------
(* The charged uses of a source form a finite set.                         *)
LEMMA ChargedFinite ==
  ASSUME NEW s
  PROVE  IsFiniteSet(Charged(s)) /\ Cardinality(Charged(s)) \in Nat
<1>1. Charged(s) \in SUBSET Uses
  BY DEF Charged
<1>. QED
  BY <1>1, CreditAssumption, FS_Subset, FS_CardinalityType

(* Giving back any set of pending uses takes exactly their number off each *)
(* counter: releaseIn() of recover(), release() and nothing else.          *)
LEMMA GiveBack ==
  ASSUME TypeOK, CreditsAccounted, NEW back \in SUBSET PendingUses, NEW s \in Sources
  PROVE  /\ UsedAfter(back)[s] = Cardinality(Charged(s) \ back)
         /\ UsedAfter(back)[s] \in Nat
         /\ UsedAfter(back)[s] <= used[s]
<1>1. {x \in back : source[x] = s} = Charged(s) \cap back
  BY DEF PendingUses, Charged
<1>2. Cardinality(Charged(s) \ back)
        = Cardinality(Charged(s)) - Cardinality(Charged(s) \cap back)
  BY ChargedFinite, FS_Difference
<1>3. Cardinality(Charged(s) \ back) \in Nat
  BY ChargedFinite, FS_Difference, FS_CardinalityType
<1>4. Cardinality(Charged(s) \cap back) \in Nat
  BY ChargedFinite, FS_Intersection, FS_CardinalityType
<1>5. used[s] = Cardinality(Charged(s)) /\ used[s] \in Nat
  BY DEF CreditsAccounted, TypeOK
<1>6. UsedAfter(back)[s] = used[s] - Cardinality({x \in back : source[x] = s})
  BY DEF UsedAfter
<1>. QED
  BY <1>1, <1>2, <1>3, <1>4, <1>5, <1>6

(* The three facts a step that only gives back pending uses re-establishes. *)
LEMMA GiveBackStep ==
  ASSUME CreditsInv, NEW back \in SUBSET PendingUses,
         used' = UsedAfter(back), status' = StatusAfter(back),
         UNCHANGED <<packVars, source>>
  PROVE  /\ used' \in [Sources -> Nat]
         /\ status' \in [Uses -> {"NONE", "PENDING", "COMPLETED", "FAILED"}]
         /\ CreditsAccounted' /\ WithinAllowance'
         /\ RefundedPackUnspent' /\ RefundBlocksPack'
<1>. USE DEF CreditsInv
<1>1. used' \in [Sources -> Nat]
  BY GiveBack DEF UsedAfter
<1>2. status' \in [Uses -> {"NONE", "PENDING", "COMPLETED", "FAILED"}]
  BY DEF TypeOK, StatusAfter
<1>3. \A s : Charged(s)' = Charged(s) \ back
  BY DEF Charged, StatusAfter
<1>4. CreditsAccounted'
  BY <1>3, GiveBack DEF CreditsAccounted
<1>5. WithinAllowance'
  <2>1. \A s \in Sources : Limit(s) \in Nat
    BY CreditAssumption DEF Limit
  <2>2. \A s \in Sources : used'[s] <= used[s] /\ used'[s] \in Nat /\ used[s] \in Nat
    BY GiveBack DEF TypeOK
  <2>. QED
    BY <2>1, <2>2 DEF WithinAllowance, Limit
<1>6. RefundedPackUnspent'
  BY <1>3 DEF RefundedPackUnspent, packVars
<1>7. RefundBlocksPack'
  BY DEF RefundBlocksPack, packVars
<1>. QED
  BY <1>1, <1>2, <1>4, <1>5, <1>6, <1>7

(* A step that changes neither the counters nor the use rows.              *)
LEMMA SameCredits ==
  ASSUME CreditsInv, UNCHANGED <<used, status, source>>
  PROVE  CreditsAccounted' /\ WithinAllowance' /\ \A s : Charged(s)' = Charged(s)
BY DEF CreditsInv, CreditsAccounted, WithinAllowance, Charged, Limit

-----------------------------------------------------------------------------
(* reserve(): after the recovery, one fresh use is added to one source.    *)
LEMMA ReserveStep ==
  ASSUME CreditsInv, NEW i \in Instances, NEW u \in Users, NEW x \in Uses, Reserve(i, u, x)
  PROVE  CreditsInv'
<1>. DEFINE back == Expired(u)
<1>. USE DEF CreditsInv
<1>1. back \in SUBSET PendingUses
  BY DEF Expired, PendingUses, TypeOK
<1>2. PICK s \in Sources :
        /\ Charges(u, UsedAfter(back), s)
        /\ used' = [UsedAfter(back) EXCEPT ![s] = @ + 1]
        /\ status' = [StatusAfter(back) EXCEPT ![x] = "PENDING"]
        /\ source' = [source EXCEPT ![x] = s]
  BY DEF Reserve
<1>3. x \notin back /\ status[x] = "NONE" /\ UNCHANGED <<account, packVars, stale>>
  BY DEF Reserve, Expired
<1>4. aiCall' = [aiCall EXCEPT ![i][u] = [doing |-> "provider", use |-> x]]
  BY DEF Reserve
<1>5. UsedAfter(back) \in [Sources -> Nat]
  BY <1>1, GiveBack DEF UsedAfter
<1>6. Charged(s)' = (Charged(s) \ back) \cup {x}
  BY <1>2, <1>3 DEF Charged, StatusAfter, TypeOK
<1>7. \A t \in Sources \ {s} : Charged(t)' = Charged(t) \ back
  BY <1>2, <1>3 DEF Charged, StatusAfter, TypeOK
<1>8. x \notin Charged(s) \ back
  BY <1>3 DEF Charged
<1>9. UsedAfter(back)[s] + 1 <= Limit(s)
  <2>1. CASE s = u /\ UsedAfter(back)[u] < FreeCredits
    BY <2>1, <1>5, CreditAssumption DEF Limit, Sources
  <2>2. CASE s \in Spendable(u, UsedAfter(back))
    BY <2>2, <1>5, CreditAssumption DEF Spendable, Limit, Sources
  <2>. QED
    BY <1>2, <2>1, <2>2 DEF Charges
<1>10. TypeOK'
  <2>1. used' \in [Sources -> Nat]
    BY <1>2, <1>5
  <2>2. /\ status' \in [Uses -> {"NONE", "PENDING", "COMPLETED", "FAILED"}]
        /\ source' \in [Uses -> Sources \cup {NoSource}]
    BY <1>2 DEF TypeOK, StatusAfter
  <2>3. aiCall' \in [Instances -> [Users -> CallState]]
    <3>1. [doing |-> "provider", use |-> x] \in CallState
      BY DEF CallState
    <3>. QED
      BY <1>4, <3>1 DEF TypeOK
  <2>. QED
    BY <2>1, <2>2, <2>3, <1>3 DEF TypeOK, packVars
<1>11. CreditsAccounted'
  <2>1. used'[s] = Cardinality(Charged(s)')
    <3>1. IsFiniteSet(Charged(s) \ back)
      BY ChargedFinite, FS_Difference
    <3>2. Cardinality(Charged(s)') = Cardinality(Charged(s) \ back) + 1
      BY <1>6, <1>8, <3>1, FS_AddElement
    <3>3. UsedAfter(back)[s] = Cardinality(Charged(s) \ back)
      BY <1>1, GiveBack
    <3>. QED
      BY <1>2, <1>5, <3>2, <3>3
  <2>2. \A t \in Sources \ {s} : used'[t] = Cardinality(Charged(t)')
    <3>. SUFFICES ASSUME NEW t \in Sources \ {s}
                  PROVE  used'[t] = Cardinality(Charged(t)')
      OBVIOUS
    <3>1. UsedAfter(back)[t] = Cardinality(Charged(t) \ back)
      BY <1>1, GiveBack
    <3>2. used'[t] = UsedAfter(back)[t]
      BY <1>2, <1>5
    <3>. QED
      BY <1>7, <3>1, <3>2
  <2>. QED
    BY <2>1, <2>2 DEF CreditsAccounted
<1>12. WithinAllowance'
  <2>1. used'[s] <= Limit(s)
    BY <1>2, <1>5, <1>9
  <2>2. \A t \in Sources \ {s} : used'[t] <= Limit(t)
    <3>. SUFFICES ASSUME NEW t \in Sources \ {s}
                  PROVE  used'[t] <= Limit(t)
      OBVIOUS
    <3>1. used'[t] = UsedAfter(back)[t]
      BY <1>2, <1>5
    <3>2. UsedAfter(back)[t] \in Nat /\ UsedAfter(back)[t] <= used[t]
      BY <1>1, GiveBack
    <3>3. used[t] \in Nat /\ used[t] <= Limit(t) /\ Limit(t) \in Nat
      BY CreditAssumption DEF TypeOK, WithinAllowance, Limit
    <3>. QED
      BY <3>1, <3>2, <3>3
  <2>. QED
    BY <2>1, <2>2 DEF WithinAllowance, Limit
<1>13. RefundedPackUnspent'
  <2>. SUFFICES ASSUME NEW p \in Packs, refund[p] \in {"OPEN", "COMPLETED"}
                PROVE  Charged(p)' = {}
    BY <1>3 DEF RefundedPackUnspent, packVars
  <2>1. Charged(p) = {} /\ p \in held \cup revoked
    BY DEF RefundedPackUnspent, RefundBlocksPack
  <2>2. p # s
    BY <1>2, <2>1, CreditAssumption DEF Charges, Spendable
  <2>. QED
    BY <1>7, <2>1, <2>2 DEF Sources
<1>14. RefundBlocksPack'
  BY <1>3 DEF RefundBlocksPack, packVars
<1>. QED
  BY <1>10, <1>11, <1>12, <1>13, <1>14

(* The two ways a call moves on keep its type.                             *)
LEMMA CallMoves ==
  ASSUME TypeOK, NEW i \in Instances, NEW u \in Users, aiCall[i][u] # Idle,
         \/ aiCall' = [aiCall EXCEPT ![i][u] = Idle]
         \/ aiCall' = [aiCall EXCEPT ![i][u].doing = "release"]
  PROVE  aiCall' \in [Instances -> [Users -> CallState]]
<1>1. aiCall[i][u] \in [doing : {"provider", "release"}, use : Uses]
  BY DEF TypeOK, CallState
<1>2. Idle \in CallState /\ [aiCall[i][u] EXCEPT !.doing = "release"] \in CallState
  BY <1>1 DEF CallState
<1>3. CASE aiCall' = [aiCall EXCEPT ![i][u] = Idle]
  BY <1>2, <1>3 DEF TypeOK
<1>4. CASE aiCall' = [aiCall EXCEPT ![i][u].doing = "release"]
  <2>1. aiCall' = [aiCall EXCEPT ![i][u] = [aiCall[i][u] EXCEPT !.doing = "release"]]
    BY <1>4
  <2>. QED
    BY <1>2, <2>1 DEF TypeOK
<1>. QED
  BY <1>3, <1>4

(* complete(): a pending use becomes completed and stays charged.          *)
LEMMA CompleteStep ==
  ASSUME CreditsInv, NEW i \in Instances, NEW u \in Users, Complete(i, u)
  PROVE  CreditsInv'
<1>. DEFINE x == aiCall[i][u].use
<1>. USE DEF CreditsInv
<1>1. x \in Uses /\ status[x] = "PENDING" /\ status' = [status EXCEPT ![x] = "COMPLETED"]
  BY DEF Complete, Completes, TypeOK, CallState, Idle
<1>2. UNCHANGED <<account, used, packVars, source, stale>>
  BY DEF Complete
<1>3. aiCall' \in [Instances -> [Users -> CallState]]
  BY CallMoves DEF Complete, Idle
<1>4. \A s : Charged(s)' = Charged(s)
  BY <1>1, <1>2 DEF Charged, TypeOK
<1>5. TypeOK'
  BY <1>1, <1>2, <1>3 DEF TypeOK, packVars
<1>. QED
  BY <1>2, <1>4, <1>5
     DEF CreditsAccounted, WithinAllowance, Limit, RefundedPackUnspent, RefundBlocksPack, packVars

(* release(): the use of this call is given back if it is still pending.   *)
LEMMA ReleaseStep ==
  ASSUME CreditsInv, NEW i \in Instances, NEW u \in Users, Release(i, u)
  PROVE  CreditsInv'
<1>. DEFINE back == GivenBack(aiCall[i][u].use)
<1>1. back \in SUBSET PendingUses
  BY DEF Release, GivenBack, PendingUses, CreditsInv, TypeOK, CallState, Idle
<1>2. used' = UsedAfter(back) /\ status' = StatusAfter(back)
  BY DEF Release
<1>3. UNCHANGED <<account, packVars, source, stale>>
  BY DEF Release
<1>4. aiCall' \in [Instances -> [Users -> CallState]]
  <2>1. aiCall[i][u].doing = "release" /\ aiCall' = [aiCall EXCEPT ![i][u] = Idle]
    BY DEF Release
  <2>2. aiCall[i][u] # Idle
    BY <2>1 DEF Idle
  <2>. QED
    BY <2>1, <2>2, CallMoves DEF CreditsInv
<1>. QED
  BY <1>1, <1>2, <1>3, <1>4, GiveBackStep DEF CreditsInv, TypeOK, packVars

(* usage(): every expired use of the user is given back.                   *)
LEMMA UsageStep ==
  ASSUME CreditsInv, NEW u \in Users, Usage(u)
  PROVE  CreditsInv'
<1>1. Expired(u) \in SUBSET PendingUses
  BY DEF Expired, PendingUses, CreditsInv, TypeOK
<1>2. used' = UsedAfter(Expired(u)) /\ status' = StatusAfter(Expired(u))
  BY DEF Usage
<1>3. UNCHANGED <<account, packVars, source, stale, aiCall>>
  BY DEF Usage
<1>. QED
  BY <1>1, <1>2, <1>3, GiveBackStep DEF CreditsInv, TypeOK, packVars

(* Steps that touch only the calls, the clock, or an account.              *)
LEMMA QuietStep ==
  ASSUME CreditsInv, UNCHANGED <<used, packVars, status, source>>, TypeOK'
  PROVE  CreditsInv'
<1>1. /\ CreditsAccounted' /\ WithinAllowance'
      /\ \A s : Charged(s)' = Charged(s)
  BY SameCredits
<1>. QED
  BY <1>1 DEF CreditsInv, RefundedPackUnspent, RefundBlocksPack, packVars

(* Steps on a pack: buying it, asking for its refund, deciding the refund. *)
LEMMA PackStep ==
  ASSUME CreditsInv, NEW p \in Packs,
         Buy(p) \/ RequestRefund(p) \/ RejectRefund(p) \/ CompleteRefund(p)
  PROVE  CreditsInv'
<1>. USE DEF CreditsInv
<1>1. UNCHANGED <<used, status, source>> /\ UNCHANGED <<account, stale, aiCall>>
  BY DEF Buy, RequestRefund, RejectRefund, CompleteRefund
<1>2. /\ CreditsAccounted' /\ WithinAllowance'
      /\ \A s : Charged(s)' = Charged(s)
  BY <1>1, SameCredits
<1>3. TypeOK'
  <2>1. CASE Buy(p)
    <3>1. IsFiniteSet({q \in Packs : bought[q] # 0})
      BY CreditAssumption, FS_Subset
    <3>2. 1 + Cardinality({q \in Packs : bought[q] # 0}) \in Nat
      BY <3>1, FS_CardinalityType
    <3>. QED
      BY <2>1, <1>1, <3>2 DEF Buy, TypeOK
  <2>2. CASE RequestRefund(p) \/ RejectRefund(p) \/ CompleteRefund(p)
    BY <2>2, <1>1 DEF RequestRefund, RejectRefund, CompleteRefund, TypeOK
  <2>. QED
    BY <2>1, <2>2
<1>4. RefundBlocksPack'
  BY DEF Buy, RequestRefund, RejectRefund, CompleteRefund, RefundBlocksPack, TypeOK
<1>5. RefundedPackUnspent'
  <2>1. CASE Buy(p)
    BY <2>1, <1>2 DEF Buy, RefundedPackUnspent
  <2>2. CASE RequestRefund(p)
    <3>1. Charged(p) = {}
      <4>1. Cardinality(Charged(p)) = 0
        BY <2>2 DEF RequestRefund, CreditsAccounted, Sources
      <4>. QED
        BY <4>1, ChargedFinite, FS_EmptySet
    <3>. QED
      BY <2>2, <1>2, <3>1 DEF RequestRefund, RefundedPackUnspent, TypeOK
  <2>3. CASE RejectRefund(p) \/ CompleteRefund(p)
    BY <2>3, <1>2 DEF RejectRefund, CompleteRefund, RefundedPackUnspent, TypeOK
  <2>. QED
    BY <2>1, <2>2, <2>3
<1>. QED
  BY <1>2, <1>3, <1>4, <1>5

-----------------------------------------------------------------------------
LEMMA InitCredits == Init => CreditsInv
<1>. SUFFICES ASSUME Init PROVE CreditsInv
  OBVIOUS
<1>1. \A s : Charged(s) = {}
  BY DEF Init, Charged
<1>2. \A s \in Sources : Limit(s) \in Nat
  BY CreditAssumption DEF Limit
<1>3. Idle \in CallState
  BY DEF CallState
<1>4. TypeOK
  BY <1>3 DEF Init, TypeOK
<1>5. CreditsAccounted
  <2>1. \A s \in Sources : used[s] = 0
    BY DEF Init
  <2>. QED
    BY <1>1, <2>1, FS_EmptySet DEF CreditsAccounted
<1>6. WithinAllowance
  <2>1. \A s \in Sources : used[s] = 0
    BY DEF Init
  <2>. QED
    BY <1>2, <2>1 DEF WithinAllowance
<1>7. RefundedPackUnspent /\ RefundBlocksPack
  BY DEF Init, RefundedPackUnspent, RefundBlocksPack
<1>. QED
  BY <1>4, <1>5, <1>6, <1>7 DEF CreditsInv

LEMMA NextCredits == CreditsInv /\ [Next]_vars => CreditsInv'
<1>. SUFFICES ASSUME CreditsInv, [Next]_vars PROVE CreditsInv'
  OBVIOUS
<1>1. CASE \E i \in Instances, u \in Users, x \in Uses : Reserve(i, u, x)
  BY <1>1, ReserveStep
<1>2. CASE \E i \in Instances, u \in Users : Complete(i, u)
  BY <1>2, CompleteStep
<1>3. CASE \E i \in Instances, u \in Users : Release(i, u)
  BY <1>3, ReleaseStep
<1>4. CASE \E u \in Users : Usage(u)
  BY <1>4, UsageStep
<1>5. CASE \E p \in Packs :
             Buy(p) \/ RequestRefund(p) \/ RejectRefund(p) \/ CompleteRefund(p)
  BY <1>5, PackStep
<1>6. CASE \E i \in Instances, u \in Users : ProviderFails(i, u) \/ ReleaseLost(i, u)
  <2>1. TypeOK'
    <3>1. aiCall' \in [Instances -> [Users -> CallState]]
      BY <1>6, CallMoves DEF ProviderFails, ReleaseLost, CreditsInv, Idle
    <3>. QED
      BY <1>6, <3>1 DEF ProviderFails, ReleaseLost, CreditsInv, TypeOK, packVars
  <2>. QED
    BY <1>6, <2>1, QuietStep DEF ProviderFails, ReleaseLost
<1>7. CASE \E i \in Instances : Crash(i)
  <2>1. TypeOK'
    BY <1>7 DEF Crash, CreditsInv, TypeOK, CallState, packVars
  <2>. QED
    BY <1>7, <2>1, QuietStep DEF Crash
<1>8. CASE \E x \in Uses : Elapse(x)
  <2>1. TypeOK'
    BY <1>8 DEF Elapse, CreditsInv, TypeOK, packVars
  <2>. QED
    BY <1>8, <2>1, QuietStep DEF Elapse
<1>9. CASE \E u \in Users, to \in {"open", "locked", "closed"} : ChangeAccount(u, to)
  <2>1. TypeOK'
    BY <1>9 DEF ChangeAccount, CreditsInv, TypeOK, packVars
  <2>. QED
    BY <1>9, <2>1, QuietStep DEF ChangeAccount
<1>10. CASE UNCHANGED vars
  <2>1. TypeOK'
    BY <1>10 DEF CreditsInv, TypeOK, vars
  <2>. QED
    BY <1>10, <2>1, QuietStep DEF vars, packVars
<1>. QED
  BY <1>1, <1>2, <1>3, <1>4, <1>5, <1>6, <1>7, <1>8, <1>9, <1>10 DEF Next

(* The inductive invariant holds in every reachable state.                 *)
THEOREM CreditsInvariance == Spec => []CreditsInv
BY InitCredits, NextCredits, PTL DEF Spec

(* Every counter and row keeps its type; no counter ever goes below zero.  *)
THEOREM CreditsTypeCorrect == Spec => []TypeOK
BY CreditsInvariance, PTL DEF CreditsInv

(* freeUsed and used count exactly the running and delivered uses; no wallet *)
(* and no pack pays for more uses than it has credits; a pack under refund,  *)
(* or refunded, has paid for nothing.                                        *)
THEOREM CreditsSound == Spec => []CreditsAreSound
BY CreditsInvariance, PTL DEF CreditsInv, CreditsAreSound

(* A completed use is never given back, a given back one never delivered.  *)
THEOREM SettledForGood == Spec => SettledUseIsFinal
<1>. DEFINE Final == \A x \in Uses : status[x] \in {"COMPLETED", "FAILED"} => status'[x] = status[x]
<1>1. CreditsInv /\ [Next]_vars => [Final]_vars
  <2>. SUFFICES ASSUME CreditsInv, Next PROVE Final
    OBVIOUS
  <2>1. ASSUME NEW back \in SUBSET PendingUses, status' = StatusAfter(back) PROVE Final
    BY <2>1 DEF StatusAfter, PendingUses
  <2>2. CASE \E i \in Instances, u \in Users, x \in Uses : Reserve(i, u, x)
    <3>1. PICK i \in Instances, u \in Users, x \in Uses : Reserve(i, u, x)
      BY <2>2
    <3>2. Expired(u) \cap {y \in Uses : status[y] # "PENDING"} = {} /\ status[x] = "NONE"
      BY <3>1 DEF Expired, Reserve
    <3>3. status' = [StatusAfter(Expired(u)) EXCEPT ![x] = "PENDING"]
      BY <3>1 DEF Reserve
    <3>. QED
      BY <3>2, <3>3 DEF StatusAfter
  <2>3. CASE \E i \in Instances, u \in Users : Complete(i, u)
    BY <2>3 DEF Complete, Completes, CreditsInv, TypeOK
  <2>4. CASE \E i \in Instances, u \in Users : Release(i, u)
    BY <2>4 DEF Release, GivenBack, StatusAfter
  <2>5. CASE \E u \in Users : Usage(u)
    BY <2>5 DEF Usage, Expired, StatusAfter
  <2>6. CASE status' = status
    BY <2>6
  <2>. QED
    BY <2>2, <2>3, <2>4, <2>5, <2>6
       DEF Next, ProviderFails, ReleaseLost, Crash, Elapse, ChangeAccount,
           Buy, RequestRefund, RejectRefund, CompleteRefund
<1>. QED
  BY <1>1, CreditsInvariance, PTL DEF Spec, SettledUseIsFinal
=============================================================================
