---------------------------- MODULE HouseRoster ----------------------------
(* What a shared house promises about its members, with one atomic step per   *)
(* operation: HouseMembership, where every operation is a transaction that    *)
(* takes row locks one after the other, implements it; CostSharing is built on  *)
(* it.                                                                        *)
EXTENDS Community, Integers, FiniteSets

CONSTANTS
  Houses,   \* identifiers of houses, locked in this order by a closure
  MaxJoins  \* bound on the times one person joins one house

ASSUME HousesAssumption == Houses \subseteq Nat

VARIABLES
  owner,   \* ownerId of each house, None if there is no such house
  shut,    \* houses with closedAt
  joins,   \* joins[h][u]: which joinedAt u has in h, 0 if never a member
  active,  \* active[h]: the members without leftAt
  gone     \* closed accounts

rosterVars == <<owner, shut, joins, active, gone>>

IsOpen(h) == owner[h] # None /\ h \notin shut

\* requireNoActiveHouse, and the unique index on active memberships.
Homeless(u) == \A h \in Houses : u \notin active[h]

Found(u, h) ==
  /\ owner[h] = None
  /\ u \notin gone
  /\ Homeless(u)
  /\ owner' = [owner EXCEPT ![h] = u]
  /\ joins' = [joins EXCEPT ![h][u] = 1]
  /\ active' = [active EXCEPT ![h] = {u}]
  /\ UNCHANGED <<shut, gone>>

Join(u, h) ==
  /\ IsOpen(h)
  /\ u \notin gone
  /\ Homeless(u)
  /\ joins[h][u] < MaxJoins
  /\ joins' = [joins EXCEPT ![h][u] = @ + 1]
  /\ active' = [active EXCEPT ![h] = @ \cup {u}]
  /\ UNCHANGED <<owner, shut, gone>>

\* An owner leaves last, and closes the house.
Leave(u, h) ==
  /\ u \in active[h]
  /\ owner[h] = u => active[h] = {u}
  /\ shut' = IF owner[h] = u THEN shut \cup {h} ELSE shut
  /\ active' = [active EXCEPT ![h] = @ \ {u}]
  /\ UNCHANGED <<owner, joins, gone>>

Transfer(u, w, h) ==
  /\ owner[h] = u
  /\ u # w
  /\ {u, w} \subseteq active[h]
  /\ owner' = [owner EXCEPT ![h] = w]
  /\ UNCHANGED <<shut, joins, active, gone>>

Depart(u) ==
  /\ u \notin gone
  /\ Homeless(u)
  /\ gone' = gone \cup {u}
  /\ UNCHANGED <<owner, shut, joins, active>>

RosterInit ==
  /\ owner = [h \in Houses |-> None]
  /\ shut = {}
  /\ joins = [h \in Houses |-> [u \in People |-> 0]]
  /\ active = [h \in Houses |-> {}]
  /\ gone = {}

RosterNext ==
  \E u \in People :
    \/ \E h \in Houses :
         \/ Found(u, h) \/ Join(u, h) \/ Leave(u, h)
         \/ \E w \in People : Transfer(u, w, h)
    \/ Depart(u)

RosterSpec == RosterInit /\ [][RosterNext]_rosterVars

-----------------------------------------------------------------------------

RosterTypeOK ==
  /\ owner \in [Houses -> People \cup {None}]
  /\ shut \subseteq Houses
  /\ joins \in [Houses -> [People -> Nat]]
  /\ active \in [Houses -> SUBSET People]
  /\ gone \subseteq People

\* Nobody lives in two houses, and nobody who closed the account in any.
OneHome ==
  \A h \in Houses :
    active[h] \cap gone = {} /\ \A k \in Houses : active[h] \cap active[k] # {} => h = k

\* An open house has its owner among its members; a closed one has nobody.
OwnerIsMember ==
  \A h \in Houses : owner[h] # None =>
    IF h \in shut THEN active[h] = {} ELSE owner[h] \in active[h]

\* A member has joined.
MembersJoined == \A h \in Houses : \A u \in active[h] : joins[h][u] > 0
=============================================================================
