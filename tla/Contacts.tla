------------------------------ MODULE Contacts ------------------------------
(* Two people of Roomora: the connection between them, their blocks, the      *)
(* conversation that an accepted connection opens and the visits they arrange *)
(* in it.                                                                     *)
(*                                                                            *)
(* A pair has ONE connection row for ever (pairKey is unique), ONE            *)
(* conversation row, and both are used again when the pair parts and meets    *)
(* again, possibly the other way round.  Every operation locks the two user   *)
(* rows in the same order and reads what it needs after that, so a step here  *)
(* is a whole transaction; what is NOT serialised is what a client knows: it  *)
(* answers the terms it last loaded (seen), and repeats a request whose       *)
(* answer it lost.                                                            *)
(*                                                                            *)
(* One unit of time is the 24 hours of the cooldown.  The rate limits of the  *)
(* API (10 and 30 invitations, 30 messages, 10 proposals) are left out: they  *)
(* only ever refuse a step.                                                   *)
EXTENDS Community, Integers, Sequences, FiniteSets

CONSTANTS
  Visits,       \* appointment rows
  Texts,        \* contents of a message; the hash of a content is the content
  Keys,         \* clientId values a client puts on its messages
  Starts,       \* startsAt values of appointments
  MaxDay,       \* bound on the clock
  MaxMessages,  \* bound on the messages of a conversation
  MaxInvited,   \* bound on the version of a connection that is invited again
  MaxMoved      \* bound on the version of an appointment that is moved again

ASSUME StartsAssumption == Starts \subseteq Nat
ASSUME NoneAssumption == None \notin Texts
ASSUME BoundsAssumption == {MaxDay, MaxMessages, MaxInvited, MaxMoved} \subseteq Nat

VARIABLES
  link,     \* connections, by pair
  blocks,   \* user_blocks: <<blocker, target>>
  closed,   \* accounts closed by their owner
  room,     \* conversations, by pair
  messages, \* messages of each pair, by number
  visit,    \* appointments
  visitLog, \* appointment_changes of each appointment
  onOffer,  \* the visited listing is PUBLISHED, has a room, is of one of the two
  now,      \* the clock
  seen,     \* seen[u][v]: the appointment as u's client last loaded it
  readUpTo  \* history: the number up to which a person has marked the pair read

linkVars == <<link, blocks, closed>>
talkVars == <<room, messages, readUpTo>>
visitVars == <<visit, visitLog, onOffer>>
contactVars == <<linkVars, talkVars, visitVars, now, seen>>

Pairs == {p \in SUBSET People : \E u, w \in People : u # w /\ p = {u, w}}
Inactive == {"DECLINED", "CANCELLED"}
LinkStatus == Inactive \cup {"PENDING", "ACCEPTED"}
Live == {"PENDING", "CONFIRMED"}

\* isBlocked: either of the two blocks the other.
Blocked(p) == \E u, w \in p : <<u, w>> \in blocks

\* participant: who may use the conversation of a pair.
MayTalk(u, p) ==
  /\ u \in p
  /\ room[p] # None
  /\ link[p].status = "ACCEPTED"
  /\ ~Blocked(p)

\* The read marker of a person is kept by the side of the connection they are on.
Marker(p, u) == IF link[p].sender = u THEN "senderRead" ELSE "receiverRead"

(* ------------------------------ Appointments ----------------------------- *)

\* One appointment_changes row per version; of the older rows only that they exist.
Logged(v, who, row) ==
  [versions |-> visitLog[v].versions \cup {row.version}, count |-> visitLog[v].count + 1,
   last |-> [version |-> row.version, status |-> row.status,
             startsAt |-> row.startsAt, actor |-> who]]

NoLog == [versions |-> {}, count |-> 0, last |-> None]

CancelledRow(row) == [row EXCEPT !.status = "CANCELLED", !.version = @ + 1]

Faulty_ToCancel(row, after) == row.status = "CONFIRMED" /\ row.startsAt > after
ToCancel(row, after) == row.status \in Live /\ row.startsAt > after

\* cancelAppointments, and the same loop of an account closure: the live
\* appointments of the pairs which start after a moment, with a change each.
CancelVisits(pairs, who, after) ==
  LET gone == {v \in Visits : /\ visit[v] # None
                              /\ visit[v].pair \in pairs
                              /\ ToCancel(visit[v], after)}
  IN  /\ visit' = [v \in Visits |-> IF v \in gone THEN CancelledRow(visit[v]) ELSE visit[v]]
      /\ visitLog' = [v \in Visits |-> IF v \in gone THEN Logged(v, who, CancelledRow(visit[v]))
                                       ELSE visitLog[v]]
      /\ UNCHANGED onOffer

\* propose.  The date is checked before the transaction waits for its locks.
Propose(u, p, v, at, listed) ==
  /\ MayTalk(u, p)
  /\ visit[v] = None
  /\ \E asked \in {now - 1, now} : at > asked
  /\ listed => onOffer
  /\ LET row == [pair |-> p, proposer |-> u, startsAt |-> at, status |-> "PENDING",
                 version |-> 1, listed |-> listed]
     IN  /\ visit' = [visit EXCEPT ![v] = row]
         /\ visitLog' = [visitLog EXCEPT ![v] = Logged(v, u, row)]
  /\ UNCHANGED <<linkVars, talkVars, onOffer, now, seen>>

\* The version the client sends is the one it last loaded; it must be current.
Faulty_SawCurrent(u, v) == seen[u][v] # None
SawCurrent(u, v) == seen[u][v] # None /\ seen[u][v].version = visit[v].version

\* What the three actions of change share.
Changes(u, v, row) ==
  /\ visit[v] # None
  /\ MayTalk(u, visit[v].pair)
  /\ SawCurrent(u, v)
  /\ visit[v].status # "CANCELLED"
  /\ visit' = [visit EXCEPT ![v] = row]
  /\ visitLog' = [visitLog EXCEPT ![v] = Logged(v, u, row)]
  /\ UNCHANGED <<linkVars, talkVars, onOffer, now, seen>>

CancelVisit(u, v) == Changes(u, v, CancelledRow(visit[v]))

Confirm(u, v) ==
  /\ Changes(u, v, [visit[v] EXCEPT !.status = "CONFIRMED", !.version = @ + 1])
  /\ visit[v].listed => onOffer
  /\ visit[v].status = "PENDING"
  /\ visit[v].proposer # u
  /\ visit[v].startsAt > now

\* A new time is a new proposal, which the other one has to confirm.
Moved(row, u, at) ==
  [row EXCEPT !.status = "PENDING", !.version = @ + 1, !.startsAt = at, !.proposer = u]

Reschedule(u, v, at) ==
  /\ Changes(u, v, Moved(visit[v], u, at))
  /\ visit[v].listed => onOffer
  /\ visit[v].startsAt >= now
  /\ visit[v].version < MaxMoved
  /\ at > now

\* A client loads the conversation and shows the terms of the appointment.
LoadVisit(u, v) ==
  /\ visit[v] # None
  /\ MayTalk(u, visit[v].pair)
  /\ seen[u][v] # visit[v]
  /\ seen' = [seen EXCEPT ![u][v] = visit[v]]
  /\ UNCHANGED <<linkVars, talkVars, visitVars, now>>

\* The listing is hidden, let or published again by its owner or by staff.
ListingChanges ==
  /\ onOffer' = ~onOffer
  /\ UNCHANGED <<linkVars, talkVars, visit, visitLog, now, seen>>

(* ------------------------------- Messages -------------------------------- *)

\* A stored message answers a repeated request: same hash, or a row from before
\* hashes whose text is still the one sent.
Recognised(m, text) == m.hash = text \/ (m.hash = None /\ m.text = text)

\* send.  A request whose clientId is stored is answered from the row and adds
\* nothing, so only a new one is a step.
Send(u, p, key, text) ==
  /\ MayTalk(u, p)
  /\ Len(messages[p]) < MaxMessages
  /\ ~\E n \in DOMAIN messages[p] :
         messages[p][n].from = u /\ messages[p][n].key = key
  /\ room' = [room EXCEPT ![p].lastNumber = @ + 1]
  /\ messages' = [messages EXCEPT ![p] =
       Append(@, [from |-> u, key |-> key, text |-> text, hash |-> text,
                  deleted |-> FALSE, sent |-> text])]
  /\ UNCHANGED <<linkVars, readUpTo, visitVars, now, seen>>

\* originalTextHash is taken when the row has none.
Faulty_KeptHash(m) == m.hash
KeptHash(m) == IF m.hash = None THEN m.text ELSE m.hash

\* editMessage; a text that is the stored one changes nothing.
EditMessage(u, p, n, text) ==
  /\ MayTalk(u, p)
  /\ n \in DOMAIN messages[p]
  /\ LET m == messages[p][n] IN
       /\ m.from = u
       /\ ~m.deleted
       /\ m.text # text
       /\ messages' = [messages EXCEPT ![p][n] =
            [m EXCEPT !.text = text, !.hash = KeptHash(m)]]
  /\ UNCHANGED <<linkVars, room, readUpTo, visitVars, now, seen>>

\* deleteMessage keeps the row, its number and its clientId.
DeleteMessage(u, p, n) ==
  /\ MayTalk(u, p)
  /\ n \in DOMAIN messages[p]
  /\ LET m == messages[p][n] IN
       /\ m.from = u
       /\ ~m.deleted
       /\ messages' = [messages EXCEPT ![p][n] =
            [m EXCEPT !.text = None, !.deleted = TRUE, !.hash = KeptHash(m)]]
  /\ UNCHANGED <<linkVars, room, readUpTo, visitVars, now, seen>>

\* read: the marker of the caller's side only moves forward.
Read(u, p, n) ==
  /\ MayTalk(u, p)
  /\ n <= room[p].lastNumber
  /\ room[p][Marker(p, u)] < n
  /\ room' = [room EXCEPT ![p][Marker(p, u)] = n]
  /\ readUpTo' = [readUpTo EXCEPT ![p][u] = n]
  /\ UNCHANGED <<linkVars, messages, visitVars, now, seen>>

(* ------------------------------ Connections ------------------------------ *)

\* reverse: the side a person is on changes with the direction of the request.
Faulty_Reversed(p, u) == room[p]
Reversed(p, u) ==
  IF room[p] # None /\ link[p].sender # u
  THEN [room[p] EXCEPT !.senderRead = room[p].receiverRead,
                       !.receiverRead = room[p].senderRead]
  ELSE room[p]

\* send of a connection request; the row of the pair is used again.
Invite(u, w) ==
  LET p == {u, w} IN
  /\ u # w
  /\ u \notin closed /\ w \notin closed
  /\ ~Blocked(p)
  /\ link[p] # None =>
       /\ link[p].status \in Inactive
       /\ now - link[p].changed >= 1
       /\ link[p].version < MaxInvited
  /\ link' = [link EXCEPT ![p] =
       [sender |-> u, receiver |-> w, status |-> "PENDING",
        version |-> IF link[p] = None THEN 1 ELSE link[p].version + 1,
        changed |-> now]]
  /\ room' = IF link[p] = None THEN room ELSE [room EXCEPT ![p] = Reversed(p, u)]
  /\ UNCHANGED <<blocks, closed, messages, readUpTo, visitVars, now, seen>>

\* updateMany on the row in the status the operation starts from.
SetLink(p, from, to) ==
  /\ link[p] # None
  /\ link[p].status = from
  /\ link' = [link EXCEPT ![p].status = to, ![p].version = @ + 1, ![p].changed = now]

\* respond: accept opens the conversation of the pair or finds the old one.
Respond(u, p, action) ==
  /\ u \in p
  /\ u \notin closed
  /\ ~Blocked(p)
  /\ link[p] # None
  /\ u = IF action = "CANCELLED" THEN link[p].sender ELSE link[p].receiver
  /\ SetLink(p, "PENDING", action)
  /\ room' = IF action = "ACCEPTED" /\ room[p] = None
             THEN [room EXCEPT ![p] = [lastNumber |-> 0, senderRead |-> 0, receiverRead |-> 0]]
             ELSE room
  /\ UNCHANGED <<blocks, closed, messages, readUpTo, visitVars, now, seen>>

Disconnect(u, p) ==
  /\ u \in p
  /\ u \notin closed
  /\ ~Blocked(p)
  /\ SetLink(p, "ACCEPTED", "CANCELLED")
  /\ CancelVisits({p}, u, now)
  /\ UNCHANGED <<blocks, closed, talkVars, now, seen>>

\* The connections of the pairs that are PENDING or ACCEPTED become CANCELLED.
Severable == {"PENDING", "ACCEPTED"}
Sever(pairs) ==
  link' = [p \in Pairs |->
    IF p \in pairs /\ link[p] # None /\ link[p].status \in Severable
    THEN [link[p] EXCEPT !.status = "CANCELLED", !.version = @ + 1, !.changed = now]
    ELSE link[p]]

Block(u, w) ==
  /\ u # w
  /\ u \notin closed
  /\ <<u, w>> \notin blocks
  /\ blocks' = blocks \cup {<<u, w>>}
  /\ Sever({{u, w}})
  /\ CancelVisits({{u, w}}, u, -1)
  /\ UNCHANGED <<closed, talkVars, now, seen>>

Unblock(u, w) ==
  /\ u \notin closed
  /\ <<u, w>> \in blocks
  /\ blocks' = blocks \ {<<u, w>>}
  /\ UNCHANGED <<link, closed, talkVars, visitVars, now, seen>>

\* What closing an account does to its connections and appointments.
CloseAccount(u) ==
  /\ u \notin closed
  /\ closed' = closed \cup {u}
  /\ Sever({p \in Pairs : u \in p})
  /\ CancelVisits({p \in Pairs : u \in p}, u, now)
  /\ UNCHANGED <<blocks, talkVars, now, seen>>

DayPasses ==
  /\ now < MaxDay
  /\ now' = now + 1
  /\ UNCHANGED <<linkVars, talkVars, visitVars, seen>>

-----------------------------------------------------------------------------

LinkRows ==
  [sender : People, receiver : People, status : LinkStatus, version : Nat, changed : Nat]
RoomRows == [lastNumber : Nat, senderRead : Nat, receiverRead : Nat]
MessageRows ==
  [from : People, key : Keys, text : Texts \cup {None}, hash : Texts \cup {None},
   deleted : BOOLEAN, sent : Texts]
VisitRows ==
  [pair : Pairs, proposer : People, startsAt : Starts, status : Live \cup {"CANCELLED"},
   version : Nat, listed : BOOLEAN]
LogRows ==
  [versions : SUBSET Nat, count : Nat,
   last : {None} \cup [version : Nat, status : Live \cup {"CANCELLED"}, startsAt : Starts,
                       actor : People]]

\* The absence of a row is no row.
ASSUME RowsAssumption == None \notin LinkRows /\ None \notin RoomRows /\ None \notin VisitRows

\* Pairs that never met, and pairs connected since before messages had a hash.
ContactsInit ==
  \E old \in SUBSET Pairs, from \in [Pairs -> People], key \in Keys, text \in Texts :
    /\ \A p \in Pairs : from[p] \in p
    /\ link = [p \in Pairs |->
         IF p \notin old THEN None
         ELSE [sender |-> from[p], receiver |-> CHOOSE w \in p : w # from[p],
               status |-> "ACCEPTED", version |-> 2, changed |-> 0]]
    /\ room = [p \in Pairs |->
         IF p \notin old THEN None
         ELSE [lastNumber |-> 1, senderRead |-> 0, receiverRead |-> 0]]
    /\ messages = [p \in Pairs |->
         IF p \notin old THEN <<>>
         ELSE << [from |-> from[p], key |-> key, text |-> text, hash |-> None,
                  deleted |-> FALSE, sent |-> text] >>]
    /\ blocks = {}
    /\ closed = {}
    /\ visit = [v \in Visits |-> None]
    /\ visitLog = [v \in Visits |-> NoLog]
    /\ onOffer = TRUE
    /\ now = 0
    /\ seen = [u \in People |-> [v \in Visits |-> None]]
    /\ readUpTo = [p \in Pairs |-> [u \in p |-> 0]]

LinkNext ==
  \/ \E u, w \in People : Invite(u, w) \/ Block(u, w) \/ Unblock(u, w)
  \/ \E u \in People, p \in Pairs :
       \/ \E action \in {"ACCEPTED", "DECLINED", "CANCELLED"} : Respond(u, p, action)
       \/ Disconnect(u, p)
  \/ \E u \in People : CloseAccount(u)
  \/ DayPasses

TalkNext ==
  \E u \in People, p \in Pairs :
    \/ \E key \in Keys, text \in Texts : Send(u, p, key, text)
    \/ \E n \in 1..MaxMessages :
         \/ \E text \in Texts : EditMessage(u, p, n, text)
         \/ DeleteMessage(u, p, n)
         \/ Read(u, p, n)

VisitNext ==
  \/ \E u \in People, v \in Visits :
       \/ \E p \in Pairs, at \in Starts, listed \in BOOLEAN : Propose(u, p, v, at, listed)
       \/ CancelVisit(u, v)
       \/ Confirm(u, v)
       \/ \E at \in Starts : Reschedule(u, v, at)
       \/ LoadVisit(u, v)
  \/ ListingChanges

ContactsNext == LinkNext \/ TalkNext \/ VisitNext

ContactsSpec == ContactsInit /\ [][ContactsNext]_contactVars

-----------------------------------------------------------------------------

ContactsTypeOK ==
  /\ link \in [Pairs -> LinkRows \cup {None}]
  /\ blocks \subseteq People \X People
  /\ closed \subseteq People
  /\ room \in [Pairs -> RoomRows \cup {None}]
  /\ messages \in [Pairs -> Seq(MessageRows)]
  /\ readUpTo = [p \in Pairs |-> readUpTo[p]] /\ \A p \in Pairs : readUpTo[p] \in [p -> Nat]
  /\ visit \in [Visits -> VisitRows \cup {None}]
  /\ visitLog \in [Visits -> LogRows]
  /\ onOffer \in BOOLEAN
  /\ now \in Nat
  /\ seen \in [People -> [Visits -> VisitRows \cup {None}]]

\* Each person's own marker is the one the connection's sides give them, after
\* the pair has parted and met again in either direction.
ReadMarkersFollowPeople ==
  \A p \in Pairs : room[p] # None =>
    \A u \in p : room[p][Marker(p, u)] = readUpTo[p][u]

\* A client that lost the answer and sends the same message again is recognised,
\* whatever was edited or deleted in between and however old the row: it neither
\* meets an error nor adds a message.
RetryIsRecognised ==
  \A p \in Pairs : \A n \in DOMAIN messages[p] :
    Recognised(messages[p][n], messages[p][n].sent)

\* Blocked people and closed accounts have neither a connection nor an invitation.
ApartHasNoLink ==
  \A p \in Pairs :
    (Blocked(p) \/ p \cap closed # {}) => (link[p] = None \/ link[p].status \in Inactive)

\* An appointment still to come is between two people who are connected.
UpcomingIsBetweenContacts ==
  \A v \in Visits :
    (visit[v] # None /\ visit[v].status \in Live /\ visit[v].startsAt > now) =>
      /\ link[visit[v].pair] # None
      /\ link[visit[v].pair].status = "ACCEPTED"

\* People who parted stay apart: whoever blocks, disconnects or closes the account
\* ends the invitations and the appointments to come with it (cancelAppointments).
NothingOutlivesTheLink == ApartHasNoLink /\ UpcomingIsBetweenContacts

\* The history of an appointment has one entry for every version, and its last
\* entry is the appointment, however it was changed or cancelled.
VisitHistoryComplete ==
  \A v \in Visits : visit[v] # None =>
    /\ visitLog[v].versions = 1..visit[v].version
    /\ visitLog[v].count = visit[v].version
    /\ visitLog[v].last.version = visit[v].version
    /\ visitLog[v].last.status = visit[v].status
    /\ visitLog[v].last.startsAt = visit[v].startsAt

\* A confirmed appointment is confirmed by the one who did not propose its time,
\* and for the time that person's client has shown.
ConfirmedAsShown ==
  \A v \in Visits : (visit[v] # None /\ visit[v].status = "CONFIRMED") =>
    LET who == visitLog[v].last.actor IN
      who # visit[v].proposer /\ seen[who][v].startsAt = visit[v].startsAt

\* Both sides of a confirmed visit agreed to the same time, and the history tells
\* how they came to it (ConversationAppointmentsService.change).
VisitsAreAgreed == VisitHistoryComplete /\ ConfirmedAsShown
=============================================================================
