-------------------------- MODULE Contacts_proofs ---------------------------
(* Proofs about Contacts, for any people, texts, visits and bounds, about     *)
(* Composer, for anything that is written, attached or recorded, and about    *)
(* LiveUpdates, for any number of messages, changes and faults.               *)
EXTENDS Contacts, Composer, LiveUpdates, SequenceTheorems, TLAPS

-----------------------------------------------------------------------------
(* Pairs and rows.                                                            *)

LEMMA PairOf ==
  ASSUME NEW u \in People, NEW w \in People, u # w
  PROVE  {u, w} \in Pairs
BY DEF Pairs

LEMMA TwoOfPair ==
  ASSUME NEW p \in Pairs, NEW u \in p
  PROVE  u \in People /\ \E w \in People : w # u /\ p = {u, w}
BY DEF Pairs

LEMMA TalkFacts ==
  ASSUME ContactsTypeOK, NEW p \in Pairs, NEW u \in People, MayTalk(u, p)
  PROVE  /\ u \in p /\ room[p] \in RoomRows
         /\ link[p] # None => link[p] \in LinkRows /\ link[p].status = "ACCEPTED"
BY DEF MayTalk, ContactsTypeOK

\* What the changes to a row make of it.
Turned(row, status, day) ==
  [row EXCEPT !.status = status, !.version = @ + 1, !.changed = day]

LEMMA TurnedFacts ==
  ASSUME NEW row \in LinkRows, NEW status \in LinkStatus, NEW day \in Nat
  PROVE  /\ Turned(row, status, day) \in LinkRows
         /\ Turned(row, status, day).status = status
         /\ Turned(row, status, day).sender = row.sender
<1>1. row.version + 1 \in Nat
  BY DEF LinkRows
<1>2. Turned(row, status, day) \in LinkRows
  BY <1>1 DEF LinkRows, Turned
<1>3. Turned(row, status, day).status = status
  BY DEF LinkRows, Turned
<1>4. Turned(row, status, day).sender = row.sender
  BY DEF LinkRows, Turned
<1>. QED
  BY <1>2, <1>3, <1>4

LEMMA CancelledRowFacts ==
  ASSUME NEW row \in VisitRows
  PROVE  /\ CancelledRow(row) \in VisitRows
         /\ CancelledRow(row).status = "CANCELLED" /\ CancelledRow(row).version = row.version + 1
         /\ CancelledRow(row).startsAt = row.startsAt /\ CancelledRow(row).pair = row.pair
<1>1. row.version + 1 \in Nat
  BY DEF VisitRows
<1>2. CancelledRow(row) \in VisitRows
  BY <1>1 DEF VisitRows, CancelledRow
<1>3. CancelledRow(row).version = row.version + 1
  BY DEF VisitRows, CancelledRow
<1>4. /\ CancelledRow(row).status = "CANCELLED"
      /\ CancelledRow(row).startsAt = row.startsAt /\ CancelledRow(row).pair = row.pair
  BY DEF VisitRows, CancelledRow
<1>. QED
  BY <1>2, <1>3, <1>4

ConfirmedRow(row) == [row EXCEPT !.status = "CONFIRMED", !.version = @ + 1]

LEMMA ConfirmedRowFacts ==
  ASSUME NEW row \in VisitRows
  PROVE  /\ ConfirmedRow(row) \in VisitRows
         /\ ConfirmedRow(row).status = "CONFIRMED" /\ ConfirmedRow(row).version = row.version + 1
         /\ ConfirmedRow(row).startsAt = row.startsAt /\ ConfirmedRow(row).pair = row.pair
         /\ ConfirmedRow(row).proposer = row.proposer
<1>1. row.version + 1 \in Nat
  BY DEF VisitRows
<1>2. ConfirmedRow(row) \in VisitRows
  BY <1>1 DEF VisitRows, ConfirmedRow, Live
<1>3. ConfirmedRow(row).version = row.version + 1
  BY DEF VisitRows, ConfirmedRow
<1>4. /\ ConfirmedRow(row).status = "CONFIRMED" /\ ConfirmedRow(row).proposer = row.proposer
      /\ ConfirmedRow(row).startsAt = row.startsAt /\ ConfirmedRow(row).pair = row.pair
  BY DEF VisitRows, ConfirmedRow
<1>. QED
  BY <1>2, <1>3, <1>4

LEMMA MovedRowFacts ==
  ASSUME NEW row \in VisitRows, NEW u \in People, NEW at \in Starts
  PROVE  /\ Moved(row, u, at) \in VisitRows
         /\ Moved(row, u, at).status = "PENDING" /\ Moved(row, u, at).version = row.version + 1
         /\ Moved(row, u, at).pair = row.pair /\ Moved(row, u, at).startsAt = at
<1>1. row.version + 1 \in Nat
  BY DEF VisitRows
<1>2. Moved(row, u, at) \in VisitRows
  BY <1>1 DEF VisitRows, Moved, Live
<1>3. Moved(row, u, at).version = row.version + 1
  BY DEF VisitRows, Moved
<1>4. /\ Moved(row, u, at).status = "PENDING"
      /\ Moved(row, u, at).pair = row.pair /\ Moved(row, u, at).startsAt = at
  BY DEF VisitRows, Moved
<1>. QED
  BY <1>2, <1>3, <1>4

LEMMA LoggedFacts ==
  ASSUME ContactsTypeOK, NEW v \in Visits, NEW who \in People, NEW row \in VisitRows
  PROVE  Logged(v, who, row) \in LogRows
<1>1. visitLog[v] \in LogRows
  BY DEF ContactsTypeOK
<1>. QED
  BY <1>1 DEF Logged, LogRows, VisitRows

-----------------------------------------------------------------------------
(* Types.                                                                     *)

\* The connections after a step of their two people.
LEMMA SetLinkFacts ==
  ASSUME ContactsTypeOK, NEW p \in Pairs, NEW from, NEW to \in LinkStatus, SetLink(p, from, to)
  PROVE  /\ link[p] \in LinkRows /\ link[p].status = from
         /\ link'[p] \in LinkRows /\ link'[p].status = to /\ link'[p].sender = link[p].sender
         /\ \A q \in Pairs \ {p} : link'[q] = link[q]
         /\ link' \in [Pairs -> LinkRows \cup {None}]
<1>1. link[p] \in LinkRows /\ link[p].status = from
  BY DEF SetLink, ContactsTypeOK
<1>. DEFINE next == Turned(link[p], to, now)
<1>2. next \in LinkRows /\ next.status = to /\ next.sender = link[p].sender
  <2>1. now \in Nat
    BY DEF ContactsTypeOK
  <2>. QED
    BY <1>1, <2>1, TurnedFacts
<1>3. link' = [link EXCEPT ![p] = next]
  BY <1>1 DEF SetLink, Turned, ContactsTypeOK, LinkRows
<1>. HIDE DEF next
<1>. QED
  BY <1>1, <1>2, <1>3 DEF ContactsTypeOK

\* Of a severed pair only an invitation or a connection in force changes.
LEMMA SeverFacts ==
  ASSUME ContactsTypeOK, NEW pairs, Sever(pairs)
  PROVE  /\ link' \in [Pairs -> LinkRows \cup {None}]
         /\ \A p \in Pairs :
              /\ link'[p] = None <=> link[p] = None
              /\ link[p] # None => link'[p].sender = link[p].sender
              /\ p \notin pairs => link'[p] = link[p]
              /\ p \in pairs /\ link[p] # None => link'[p].status \in Inactive
<1>1. ASSUME NEW p \in Pairs, p \in pairs, link[p] # None, link[p].status \in Severable
      PROVE  /\ link'[p] \in LinkRows
             /\ link'[p].sender = link[p].sender /\ link'[p].status = "CANCELLED"
  <2>1. link[p] \in LinkRows
    BY <1>1 DEF ContactsTypeOK
  <2>2. link'[p] = Turned(link[p], "CANCELLED", now)
    BY <1>1 DEF Sever, Turned
  <2>3. "CANCELLED" \in LinkStatus /\ now \in Nat
    BY DEF LinkStatus, Inactive, ContactsTypeOK
  <2>. QED
    BY <2>1, <2>2, <2>3, TurnedFacts
<1>2. ASSUME NEW p \in Pairs, ~(p \in pairs /\ link[p] # None /\ link[p].status \in Severable)
      PROVE  link'[p] = link[p]
  BY <1>2 DEF Sever
<1>3. ASSUME NEW p \in Pairs, link[p] # None, link[p].status \notin Severable
      PROVE  link[p].status \in Inactive
  BY <1>3 DEF ContactsTypeOK, LinkRows, LinkStatus, Severable
<1>4. link' = [p \in Pairs |-> link'[p]]
  BY DEF Sever
<1>5. link' \in [Pairs -> LinkRows \cup {None}]
  <2>1. \A p \in Pairs : link'[p] \in LinkRows \cup {None}
    BY <1>1, <1>2 DEF ContactsTypeOK
  <2>. QED
    BY <1>4, <2>1
<1>. QED
  BY <1>1, <1>2, <1>3, <1>5, RowsAssumption DEF Inactive

\* The appointments of a pair that parts are as they were, or cancelled once more.
LEMMA CancelFacts ==
  ASSUME ContactsTypeOK, NEW pairs, NEW who \in People, NEW after \in Int,
         CancelVisits(pairs, who, after)
  PROVE  /\ visit' \in [Visits -> VisitRows \cup {None}] /\ visitLog' \in [Visits -> LogRows]
         /\ onOffer' = onOffer
         /\ \A v \in Visits :
              \/ /\ visit'[v] = visit[v] /\ visitLog'[v] = visitLog[v]
                 /\ visit[v] # None /\ visit[v].pair \in pairs => ~ToCancel(visit[v], after)
              \/ /\ visit[v] # None /\ ToCancel(visit[v], after)
                 /\ visit'[v] = CancelledRow(visit[v])
                 /\ visitLog'[v] = Logged(v, who, CancelledRow(visit[v]))
<1>. DEFINE Goes(v) == visit[v] # None /\ visit[v].pair \in pairs /\ ToCancel(visit[v], after)
<1>1. /\ visit' = [v \in Visits |-> IF Goes(v) THEN CancelledRow(visit[v]) ELSE visit[v]]
      /\ visitLog' = [v \in Visits |-> IF Goes(v) THEN Logged(v, who, CancelledRow(visit[v]))
                                       ELSE visitLog[v]]
      /\ onOffer' = onOffer
  BY DEF CancelVisits
<1>2. ASSUME NEW v \in Visits, visit[v] # None
      PROVE  CancelledRow(visit[v]) \in VisitRows
  BY <1>2, CancelledRowFacts DEF ContactsTypeOK
<1>3. ASSUME NEW v \in Visits, visit[v] # None
      PROVE  Logged(v, who, CancelledRow(visit[v])) \in LogRows
  BY <1>2, <1>3, LoggedFacts
<1>. QED
  BY <1>1, <1>2, <1>3 DEF ContactsTypeOK

LEMMA LinkTypes ==
  ASSUME ContactsTypeOK, LinkNext
  PROVE  ContactsTypeOK'
<1>. now \in Int
  BY DEF ContactsTypeOK
<1>1. ASSUME NEW u \in People, NEW w \in People, Invite(u, w)
      PROVE  ContactsTypeOK'
  <2>. DEFINE p == {u, w}
  <2>1. p \in Pairs
    BY <1>1, PairOf DEF Invite
  <2>. HIDE DEF p
  <2>2. link' \in [Pairs -> LinkRows \cup {None}]
    <3>1. \A version \in Nat :
            [sender |-> u, receiver |-> w, status |-> "PENDING", version |-> version,
             changed |-> now] \in LinkRows
      BY DEF LinkRows, LinkStatus, ContactsTypeOK
    <3>2. (IF link[p] = None THEN 1 ELSE link[p].version + 1) \in Nat
      BY <2>1 DEF ContactsTypeOK, LinkRows
    <3>. QED
      BY <1>1, <2>1, <3>1, <3>2 DEF Invite, p, ContactsTypeOK
  <2>3. room' \in [Pairs -> RoomRows \cup {None}]
    <3>1. Reversed(p, u) \in RoomRows \cup {None}
      BY <2>1, ZenonT(60) DEF Reversed, ContactsTypeOK, RoomRows
    <3>. QED
      BY <1>1, <2>1, <3>1 DEF Invite, p, ContactsTypeOK
  <2>. QED
    BY <1>1, <2>2, <2>3 DEF Invite, ContactsTypeOK, visitVars
<1>2. ASSUME NEW u \in People, NEW w \in People, Block(u, w)
      PROVE  ContactsTypeOK'
  <2>1. link' \in [Pairs -> LinkRows \cup {None}]
    BY <1>2, SeverFacts DEF Block
  <2>2. /\ visit' \in [Visits -> VisitRows \cup {None}] /\ visitLog' \in [Visits -> LogRows]
        /\ onOffer' = onOffer
    BY <1>2, CancelFacts, -1 \in Int DEF Block
  <2>. QED
    BY <1>2, <2>1, <2>2 DEF Block, ContactsTypeOK, talkVars
<1>3. ASSUME NEW u \in People, NEW w \in People, Unblock(u, w)
      PROVE  ContactsTypeOK'
  BY <1>3 DEF Unblock, ContactsTypeOK, talkVars, visitVars
<1>4. ASSUME NEW u \in People, NEW p \in Pairs,
             NEW action \in {"ACCEPTED", "DECLINED", "CANCELLED"}, Respond(u, p, action)
      PROVE  ContactsTypeOK'
  <2>1. link' \in [Pairs -> LinkRows \cup {None}]
    BY <1>4, SetLinkFacts DEF Respond, LinkStatus, Inactive
  <2>2. room' \in [Pairs -> RoomRows \cup {None}]
    BY <1>4 DEF Respond, ContactsTypeOK, RoomRows
  <2>. QED
    BY <1>4, <2>1, <2>2 DEF Respond, ContactsTypeOK, visitVars
<1>5. ASSUME NEW u \in People, NEW p \in Pairs, Disconnect(u, p)
      PROVE  ContactsTypeOK'
  <2>1. link' \in [Pairs -> LinkRows \cup {None}]
    BY <1>5, SetLinkFacts DEF Disconnect, LinkStatus, Inactive
  <2>2. /\ visit' \in [Visits -> VisitRows \cup {None}] /\ visitLog' \in [Visits -> LogRows]
        /\ onOffer' = onOffer
    BY <1>5, CancelFacts, now \in Int DEF Disconnect
  <2>. QED
    BY <1>5, <2>1, <2>2 DEF Disconnect, ContactsTypeOK, talkVars
<1>6. ASSUME NEW u \in People, CloseAccount(u)
      PROVE  ContactsTypeOK'
  <2>1. link' \in [Pairs -> LinkRows \cup {None}]
    BY <1>6, SeverFacts DEF CloseAccount
  <2>2. /\ visit' \in [Visits -> VisitRows \cup {None}] /\ visitLog' \in [Visits -> LogRows]
        /\ onOffer' = onOffer
    BY <1>6, CancelFacts, now \in Int DEF CloseAccount
  <2>. QED
    BY <1>6, <2>1, <2>2 DEF CloseAccount, ContactsTypeOK, talkVars
<1>7. CASE DayPasses
  BY <1>7 DEF DayPasses, ContactsTypeOK, linkVars, talkVars, visitVars
<1>. QED
  BY <1>1, <1>2, <1>3, <1>4, <1>5, <1>6, <1>7 DEF LinkNext

\* What a message is after its sender has changed or deleted it.
LEMMA MessageFacts ==
  ASSUME ContactsTypeOK, NEW p \in Pairs, NEW n \in DOMAIN messages[p],
         NEW row \in MessageRows, messages' = [messages EXCEPT ![p][n] = row]
  PROVE  /\ messages' \in [Pairs -> Seq(MessageRows)]
         /\ messages[p][n] \in MessageRows
         /\ messages'[p] = [messages[p] EXCEPT ![n] = row]
         /\ \A q \in Pairs \ {p} : messages'[q] = messages[q]
<1>1. messages[p] \in Seq(MessageRows) /\ n \in 1..Len(messages[p])
  BY DEF ContactsTypeOK
<1>2. [messages[p] EXCEPT ![n] = row] \in Seq(MessageRows)
  BY <1>1, ExceptSeq
<1>3. messages' = [messages EXCEPT ![p] = [messages[p] EXCEPT ![n] = row]]
  BY DEF ContactsTypeOK
<1>. QED
  BY <1>1, <1>2, <1>3 DEF ContactsTypeOK

LEMMA TalkTypes ==
  ASSUME ContactsTypeOK, TalkNext
  PROVE  ContactsTypeOK'
<1>. MaxMessages \in Nat
  BY BoundsAssumption
<1>1. ASSUME NEW u \in People, NEW p \in Pairs, NEW key \in Keys, NEW words \in Texts,
             Send(u, p, key, words)
      PROVE  ContactsTypeOK'
  <2>1. messages' \in [Pairs -> Seq(MessageRows)]
    <3>1. [from |-> u, key |-> key, text |-> words, hash |-> words, deleted |-> FALSE, sent |-> words]
            \in MessageRows
      BY DEF MessageRows
    <3>2. messages[p] \in Seq(MessageRows)
      BY DEF ContactsTypeOK
    <3>3. Append(messages[p],
            [from |-> u, key |-> key, text |-> words, hash |-> words, deleted |-> FALSE,
             sent |-> words]) \in Seq(MessageRows)
      BY <3>1, <3>2, AppendProperties
    <3>. QED
      BY <1>1, <3>3 DEF Send, ContactsTypeOK
  <2>2. room' \in [Pairs -> RoomRows \cup {None}]
    <3>1. room[p] \in RoomRows
      BY <1>1, TalkFacts DEF Send
    <3>2. [room[p] EXCEPT !.lastNumber = @ + 1] \in RoomRows
      BY <3>1 DEF RoomRows
    <3>. QED
      BY <1>1, <3>2 DEF Send, ContactsTypeOK
  <2>. QED
    BY <1>1, <2>1, <2>2 DEF Send, ContactsTypeOK, linkVars, visitVars
<1>2. ASSUME NEW u \in People, NEW p \in Pairs, NEW n \in 1..MaxMessages, NEW words \in Texts,
             EditMessage(u, p, n, words)
      PROVE  ContactsTypeOK'
  <2>1. messages[p][n] \in MessageRows /\ n \in DOMAIN messages[p]
    BY <1>2 DEF EditMessage, ContactsTypeOK
  <2>2. [messages[p][n] EXCEPT !.text = words, !.hash = KeptHash(messages[p][n])] \in MessageRows
    BY <2>1 DEF KeptHash, MessageRows
  <2>3. messages' \in [Pairs -> Seq(MessageRows)]
    BY <1>2, <2>1, <2>2, MessageFacts DEF EditMessage
  <2>. QED
    BY <1>2, <2>3 DEF EditMessage, ContactsTypeOK, linkVars, visitVars
<1>3. ASSUME NEW u \in People, NEW p \in Pairs, NEW n \in 1..MaxMessages,
             DeleteMessage(u, p, n)
      PROVE  ContactsTypeOK'
  <2>1. messages[p][n] \in MessageRows /\ n \in DOMAIN messages[p]
    BY <1>3 DEF DeleteMessage, ContactsTypeOK
  <2>2. [messages[p][n] EXCEPT !.text = None, !.deleted = TRUE, !.hash = KeptHash(messages[p][n])]
          \in MessageRows
    BY <2>1 DEF KeptHash, MessageRows
  <2>3. messages' \in [Pairs -> Seq(MessageRows)]
    BY <1>3, <2>1, <2>2, MessageFacts DEF DeleteMessage
  <2>. QED
    BY <1>3, <2>3 DEF DeleteMessage, ContactsTypeOK, linkVars, visitVars
<1>4. ASSUME NEW u \in People, NEW p \in Pairs, NEW n \in 1..MaxMessages, Read(u, p, n)
      PROVE  ContactsTypeOK'
  <2>1. room[p] \in RoomRows /\ u \in p /\ n \in Nat
    BY <1>4, TalkFacts DEF Read
  <2>2. room' \in [Pairs -> RoomRows \cup {None}]
    <3>1. [room[p] EXCEPT !["senderRead"] = n] \in RoomRows
          /\ [room[p] EXCEPT !["receiverRead"] = n] \in RoomRows
      BY <2>1 DEF RoomRows
    <3>. QED
      BY <1>4, <3>1 DEF Read, Marker, ContactsTypeOK
  <2>3. /\ readUpTo' = [q \in Pairs |-> readUpTo'[q]]
        /\ \A q \in Pairs : readUpTo'[q] \in [q -> Nat]
    BY <1>4, <2>1 DEF Read, ContactsTypeOK
  <2>. QED
    BY <1>4, <2>2, <2>3 DEF Read, ContactsTypeOK, linkVars, visitVars
<1>. QED
  BY <1>1, <1>2, <1>3, <1>4 DEF TalkNext

\* An appointment gets a new version, and the history an entry for it.
LEMMA ChangesFacts ==
  ASSUME ContactsTypeOK, NEW u \in People, NEW v \in Visits, NEW row \in VisitRows,
         Changes(u, v, row)
  PROVE  /\ visit[v] \in VisitRows /\ visit'[v] = row /\ visitLog'[v] = Logged(v, u, row)
         /\ \A w \in Visits \ {v} : visit'[w] = visit[w] /\ visitLog'[w] = visitLog[w]
         /\ ContactsTypeOK'
<1>1. Logged(v, u, row) \in LogRows
  BY LoggedFacts
<1>. QED
  BY <1>1 DEF Changes, ContactsTypeOK, linkVars, talkVars

LEMMA ProposeFacts ==
  ASSUME ContactsTypeOK, NEW u \in People, NEW p \in Pairs, NEW v \in Visits, NEW at \in Starts,
         NEW listed \in BOOLEAN, Propose(u, p, v, at, listed)
  PROVE  LET row == [pair |-> p, proposer |-> u, startsAt |-> at, status |-> "PENDING",
                     version |-> 1, listed |-> listed]
         IN  /\ row \in VisitRows /\ visit[v] = None
             /\ visit'[v] = row /\ visitLog'[v] = Logged(v, u, row)
             /\ \A w \in Visits \ {v} : visit'[w] = visit[w] /\ visitLog'[w] = visitLog[w]
             /\ ContactsTypeOK'
<1>. DEFINE row == [pair |-> p, proposer |-> u, startsAt |-> at, status |-> "PENDING",
                    version |-> 1, listed |-> listed]
<1>1. row \in VisitRows
  BY DEF VisitRows, Live
<1>2. Logged(v, u, row) \in LogRows
  BY <1>1, LoggedFacts
<1>. QED
  BY <1>1, <1>2 DEF Propose, ContactsTypeOK, linkVars, talkVars

LEMMA VisitTypes ==
  ASSUME ContactsTypeOK, VisitNext
  PROVE  ContactsTypeOK'
<1>. \A v \in Visits : visit[v] # None => visit[v] \in VisitRows
  BY DEF ContactsTypeOK
<1>1. ASSUME NEW u \in People, NEW v \in Visits, CancelVisit(u, v)
      PROVE  ContactsTypeOK'
  BY <1>1, CancelledRowFacts, ChangesFacts DEF CancelVisit, Changes
<1>2. ASSUME NEW u \in People, NEW v \in Visits, Confirm(u, v)
      PROVE  ContactsTypeOK'
  BY <1>2, ConfirmedRowFacts, ChangesFacts DEF Confirm, ConfirmedRow, Changes
<1>3. ASSUME NEW u \in People, NEW v \in Visits, NEW at \in Starts, Reschedule(u, v, at)
      PROVE  ContactsTypeOK'
  BY <1>3, MovedRowFacts, ChangesFacts DEF Reschedule, Changes
<1>4. ASSUME NEW u \in People, NEW v \in Visits, LoadVisit(u, v)
      PROVE  ContactsTypeOK'
  BY <1>4 DEF LoadVisit, ContactsTypeOK, linkVars, talkVars, visitVars
<1>5. CASE ListingChanges
  BY <1>5 DEF ListingChanges, ContactsTypeOK, linkVars, talkVars
<1>. QED
  BY <1>1, <1>2, <1>3, <1>4, <1>5, ProposeFacts DEF VisitNext

-----------------------------------------------------------------------------
(* Read markers.  The argument: the two sides of a connection are its two     *)
(* people, and what exchanges the sides exchanges the markers.                *)

MarkersOf(p) ==
  /\ link[p] # None => link[p].sender \in p
  /\ room[p] # None => link[p] # None
  /\ \A u \in p : readUpTo[p][u] = IF room[p] = None THEN 0 ELSE room[p][Marker(p, u)]

MarkersInv == \A p \in Pairs : MarkersOf(p)

\* A step that leaves the sides and the markers of a pair alone.
LEMMA SameMarkers ==
  ASSUME MarkersInv, NEW p \in Pairs, room'[p] = room[p], readUpTo'[p] = readUpTo[p],
         link'[p] = None <=> link[p] = None,
         link[p] # None => link'[p].sender = link[p].sender
  PROVE  MarkersOf(p)'
<1>1. MarkersOf(p)
  BY DEF MarkersInv
<1>. QED
  BY <1>1 DEF MarkersOf, Marker

\* A visit is arranged in a conversation, and changes nothing else of the pair.
LEMMA VisitLeaves ==
  ASSUME VisitNext
  PROVE  UNCHANGED <<link, blocks, closed, room, messages, readUpTo, now>>
<1>. USE DEF linkVars, talkVars
<1>1. ASSUME NEW u \in People, NEW v \in Visits, NEW row, Changes(u, v, row)
      PROVE  UNCHANGED <<link, blocks, closed, room, messages, readUpTo, now>>
  BY <1>1 DEF Changes
<1>2. ASSUME NEW u \in People, NEW p \in Pairs, NEW v \in Visits, NEW at \in Starts,
             NEW listed \in BOOLEAN, Propose(u, p, v, at, listed)
      PROVE  UNCHANGED <<link, blocks, closed, room, messages, readUpTo, now>>
  BY <1>2 DEF Propose
<1>3. ASSUME NEW u \in People, NEW v \in Visits, LoadVisit(u, v)
      PROVE  UNCHANGED <<link, blocks, closed, room, messages, readUpTo, now>>
  BY <1>3 DEF LoadVisit
<1>4. CASE ListingChanges
  BY <1>4 DEF ListingChanges
<1>. QED
  BY <1>1, <1>2, <1>3, <1>4 DEF VisitNext, CancelVisit, Confirm, Reschedule

LEMMA InviteMarkers ==
  ASSUME ContactsTypeOK, MarkersInv, NEW u \in People, NEW w \in People, Invite(u, w)
  PROVE  MarkersInv'
<1>. DEFINE p == {u, w}
<1>1. p \in Pairs /\ u # w
  BY PairOf DEF Invite
<1>2. p = {u, w}
  OBVIOUS
<1>. HIDE DEF p
<1>3. /\ link'[p] # None /\ link'[p].sender = u
      /\ \A q \in Pairs \ {p} : link'[q] = link[q]
  <2>1. (IF link[p] = None THEN 1 ELSE link[p].version + 1) \in Nat
    BY <1>1 DEF ContactsTypeOK, LinkRows
  <2>2. \A version \in Nat :
          [sender |-> u, receiver |-> w, status |-> "PENDING", version |-> version,
           changed |-> now] \in LinkRows
    BY DEF LinkRows, LinkStatus, ContactsTypeOK
  <2>3. PICK version \in Nat : link' = [link EXCEPT ![p] =
          [sender |-> u, receiver |-> w, status |-> "PENDING", version |-> version,
           changed |-> now]]
    BY <2>1 DEF Invite, p
  <2>. QED
    BY <1>1, <2>2, <2>3, RowsAssumption DEF ContactsTypeOK
<1>4. /\ \A q \in Pairs \ {p} : room'[q] = room[q]
      /\ room'[p] = IF link[p] = None THEN room[p] ELSE Reversed(p, u)
      /\ readUpTo' = readUpTo
  BY <1>1, <1>2 DEF Invite, ContactsTypeOK
<1>5. \A q \in Pairs \ {p} : MarkersOf(q)'
  BY <1>3, <1>4, SameMarkers
<1>6. MarkersOf(p) /\ link'[p].sender \in p
  BY <1>1, <1>2, <1>3 DEF MarkersInv
<1>7. CASE room[p] = None
  <2>1. room'[p] = None
    BY <1>4, <1>7 DEF Reversed
  <2>2. MarkersOf(p)'
    BY <1>3, <1>4, <1>6, <1>7, <2>1 DEF MarkersOf
  <2>. QED
    BY <1>5, <2>2 DEF MarkersInv
<1>8. CASE room[p] # None
  <2>1. /\ link[p] # None /\ link[p].sender \in {u, w} /\ room[p] \in RoomRows
        /\ readUpTo[p][u] = room[p][Marker(p, u)] /\ readUpTo[p][w] = room[p][Marker(p, w)]
    BY <1>1, <1>2, <1>6, <1>8 DEF MarkersOf, ContactsTypeOK
  <2>2. /\ room'[p].senderRead = readUpTo[p][u] /\ room'[p].receiverRead = readUpTo[p][w]
        /\ room'[p] \in RoomRows
    <3>1. CASE link[p].sender = u
      BY <1>1, <1>4, <2>1, <3>1 DEF Reversed, Marker
    <3>2. CASE link[p].sender = w
      BY <1>1, <1>4, <1>8, <2>1, <3>2 DEF Reversed, Marker, RoomRows
    <3>. QED
      BY <2>1, <3>1, <3>2
  <2>3. Marker(p, u)' = "senderRead" /\ Marker(p, w)' = "receiverRead"
    BY <1>1, <1>3 DEF Marker
  <2>4. MarkersOf(p)'
    BY <1>2, <1>3, <1>4, <1>6, <2>2, <2>3, RowsAssumption DEF MarkersOf
  <2>. QED
    BY <1>5, <2>4 DEF MarkersInv
<1>. QED
  BY <1>7, <1>8

LEMMA MarkersKept ==
  ASSUME ContactsTypeOK, MarkersInv, ContactsNext
  PROVE  MarkersInv'
<1>1. ASSUME UNCHANGED <<room, readUpTo>>,
             \A p \in Pairs : /\ link'[p] = None <=> link[p] = None
                              /\ link[p] # None => link'[p].sender = link[p].sender
      PROVE  MarkersInv'
  BY <1>1, SameMarkers DEF MarkersInv
<1>2. ASSUME NEW p \in Pairs, NEW from, NEW to \in LinkStatus, SetLink(p, from, to)
      PROVE  \A q \in Pairs : /\ link'[q] = None <=> link[q] = None
                              /\ link[q] # None => link'[q].sender = link[q].sender
  BY <1>2, SetLinkFacts, RowsAssumption
<1>3. ASSUME NEW u \in People, NEW w \in People, Block(u, w) \/ Unblock(u, w)
      PROVE  MarkersInv'
  BY <1>1, <1>3, SeverFacts DEF Block, Unblock, talkVars
<1>4. ASSUME NEW u \in People, NEW p \in Pairs,
             NEW action \in {"ACCEPTED", "DECLINED", "CANCELLED"}, Respond(u, p, action)
      PROVE  MarkersInv'
  <2>1. action \in LinkStatus
    BY DEF LinkStatus, Inactive
  <2>2. /\ link[p] # None
        /\ \A q \in Pairs : /\ link'[q] = None <=> link[q] = None
                            /\ link[q] # None => link'[q].sender = link[q].sender
    BY <1>2, <1>4, <2>1 DEF Respond
  <2>3. CASE UNCHANGED room
    BY <1>1, <1>4, <2>2, <2>3 DEF Respond
  <2>4. CASE room[p] = None /\ room' = [room EXCEPT ![p] =
                [lastNumber |-> 0, senderRead |-> 0, receiverRead |-> 0]]
    <3>1. /\ room'[p] = [lastNumber |-> 0, senderRead |-> 0, receiverRead |-> 0]
          /\ \A q \in Pairs \ {p} : room'[q] = room[q]
      BY <2>4 DEF ContactsTypeOK
    <3>2. room'[p].senderRead = 0 /\ room'[p].receiverRead = 0
      BY <3>1
    <3>3. readUpTo' = readUpTo /\ MarkersOf(p)
      BY <1>4, <2>4 DEF Respond, MarkersInv
    <3>4. MarkersOf(p)'
      BY <2>2, <2>4, <3>2, <3>3 DEF MarkersOf, Marker
    <3>5. \A q \in Pairs \ {p} : MarkersOf(q)'
      BY <2>2, <3>1, <3>3, SameMarkers
    <3>. QED
      BY <3>4, <3>5 DEF MarkersInv
  <2>. QED
    BY <1>4, <2>3, <2>4 DEF Respond
<1>5. ASSUME NEW u \in People, NEW p \in Pairs, Disconnect(u, p)
      PROVE  MarkersInv'
  <2>1. "CANCELLED" \in LinkStatus
    BY DEF LinkStatus, Inactive
  <2>. QED
    BY <1>1, <1>2, <1>5, <2>1 DEF Disconnect, talkVars
<1>6. ASSUME NEW u \in People, CloseAccount(u)
      PROVE  MarkersInv'
  BY <1>1, <1>6, SeverFacts DEF CloseAccount, talkVars
<1>7. ASSUME NEW u \in People, NEW p \in Pairs, NEW key \in Keys, NEW words \in Texts,
             Send(u, p, key, words)
      PROVE  MarkersInv'
  <2>1. room[p] \in RoomRows /\ room[p] # None
    BY <1>7, TalkFacts, RowsAssumption DEF Send
  <2>2. /\ room'[p] # None
        /\ room'[p].senderRead = room[p].senderRead /\ room'[p].receiverRead = room[p].receiverRead
        /\ \A q \in Pairs \ {p} : room'[q] = room[q]
    <3>1. [room[p] EXCEPT !.lastNumber = @ + 1] \in RoomRows
      BY <2>1 DEF RoomRows
    <3>2. room'[p] = [room[p] EXCEPT !.lastNumber = @ + 1]
          /\ \A q \in Pairs \ {p} : room'[q] = room[q]
      BY <1>7 DEF Send, ContactsTypeOK
    <3>. QED
      BY <2>1, <3>1, <3>2, RowsAssumption DEF RoomRows
  <2>3. link' = link /\ readUpTo' = readUpTo
    BY <1>7 DEF Send, linkVars
  <2>4. MarkersOf(p)'
    BY <2>1, <2>2, <2>3 DEF MarkersInv, MarkersOf, Marker
  <2>5. \A q \in Pairs \ {p} : MarkersOf(q)'
    BY <2>2, <2>3, SameMarkers
  <2>. QED
    BY <2>4, <2>5 DEF MarkersInv
<1>8. ASSUME NEW u \in People, NEW p \in Pairs, NEW n \in 1..MaxMessages, Read(u, p, n)
      PROVE  MarkersInv'
  <2>1. room[p] \in RoomRows /\ room[p] # None /\ u \in p /\ n \in Nat
    BY <1>8, TalkFacts, RowsAssumption, BoundsAssumption DEF Read
  <2>2. PICK w \in People : w # u /\ p = {u, w}
    BY <2>1, TwoOfPair
  <2>3. link[p] # None /\ link[p].sender \in p /\ link' = link
    BY <1>8, <2>1 DEF Read, MarkersInv, MarkersOf, linkVars
  <2>4. Marker(p, u) # Marker(p, w) /\ Marker(p, u) \in {"senderRead", "receiverRead"}
    BY <2>2, <2>3 DEF Marker
  <2>5. /\ room'[p] \in RoomRows /\ room'[p][Marker(p, u)] = n
        /\ room'[p][Marker(p, w)] = room[p][Marker(p, w)]
        /\ \A q \in Pairs \ {p} : room'[q] = room[q]
    <3>1. /\ room'[p] = [room[p] EXCEPT ![Marker(p, u)] = n]
          /\ \A q \in Pairs \ {p} : room'[q] = room[q]
      BY <1>8 DEF Read, ContactsTypeOK
    <3>. QED
      BY <2>1, <2>4, <3>1 DEF Marker, RoomRows
  <2>6. /\ readUpTo'[p][u] = n /\ readUpTo'[p][w] = readUpTo[p][w]
        /\ \A q \in Pairs \ {p} : readUpTo'[q] = readUpTo[q]
    BY <1>8, <2>1, <2>2 DEF Read, ContactsTypeOK
  <2>7. room'[p] # None
    BY <2>5, RowsAssumption
  <2>8. Marker(p, u)' = Marker(p, u) /\ Marker(p, w)' = Marker(p, w)
    BY <2>3 DEF Marker
  <2>9. readUpTo[p][w] = room[p][Marker(p, w)]
    BY <2>1, <2>2 DEF MarkersInv, MarkersOf
  <2>10. MarkersOf(p)'
    BY <2>2, <2>3, <2>5, <2>6, <2>7, <2>8, <2>9 DEF MarkersOf
  <2>11. \A q \in Pairs \ {p} : MarkersOf(q)'
    BY <2>3, <2>5, <2>6, SameMarkers
  <2>. QED
    BY <2>10, <2>11 DEF MarkersInv
<1>9. ASSUME NEW u \in People, NEW p \in Pairs, NEW n \in 1..MaxMessages,
             DeleteMessage(u, p, n) \/ \E words \in Texts : EditMessage(u, p, n, words)
      PROVE  MarkersInv'
  BY <1>1, <1>9 DEF DeleteMessage, EditMessage, linkVars
<1>10. CASE VisitNext \/ DayPasses
  <2>1. UNCHANGED <<link, room, readUpTo>>
    BY <1>10, VisitLeaves DEF DayPasses, linkVars, talkVars
  <2>. QED
    BY <1>1, <2>1
<1>. QED
  BY <1>3, <1>4, <1>5, <1>6, <1>7, <1>8, <1>9, <1>10, InviteMarkers
  DEF ContactsNext, LinkNext, TalkNext

\* What is said changes neither the link nor the visits.
LEMMA TalkLeaves ==
  ASSUME TalkNext
  PROVE  UNCHANGED <<link, blocks, closed, visit, visitLog, now, seen>>
<1>. USE DEF linkVars, visitVars
<1>1. ASSUME NEW u \in People, NEW p \in Pairs, NEW key \in Keys, NEW words \in Texts,
             Send(u, p, key, words)
      PROVE  UNCHANGED <<link, blocks, closed, visit, visitLog, now, seen>>
  BY <1>1 DEF Send
<1>2. ASSUME NEW u \in People, NEW p \in Pairs, NEW n \in 1..MaxMessages, NEW words \in Texts,
             EditMessage(u, p, n, words)
      PROVE  UNCHANGED <<link, blocks, closed, visit, visitLog, now, seen>>
  BY <1>2 DEF EditMessage
<1>3. ASSUME NEW u \in People, NEW p \in Pairs, NEW n \in 1..MaxMessages,
             DeleteMessage(u, p, n) \/ Read(u, p, n)
      PROVE  UNCHANGED <<link, blocks, closed, visit, visitLog, now, seen>>
  BY <1>3 DEF DeleteMessage, Read
<1>. QED
  BY <1>1, <1>2, <1>3 DEF TalkNext

-----------------------------------------------------------------------------
(* Messages.                                                                  *)

LEMMA MessagesKept ==
  ASSUME ContactsTypeOK, RetryIsRecognised, ContactsNext
  PROVE  RetryIsRecognised'
<1>1. ASSUME UNCHANGED messages
      PROVE  RetryIsRecognised'
  BY <1>1 DEF RetryIsRecognised, Recognised
<1>2. ASSUME NEW u \in People, NEW p \in Pairs, NEW key \in Keys, NEW words \in Texts,
             Send(u, p, key, words)
      PROVE  RetryIsRecognised'
  <2>. DEFINE row == [from |-> u, key |-> key, text |-> words, hash |-> words, deleted |-> FALSE,
                      sent |-> words]
  <2>1. messages[p] \in Seq(MessageRows) /\ row \in MessageRows
    BY DEF ContactsTypeOK, MessageRows
  <2>2. messages'[p] = Append(messages[p], row) /\ \A q \in Pairs \ {p} : messages'[q] = messages[q]
    BY <1>2 DEF Send, ContactsTypeOK
  <2>3. Recognised(row, row.sent)
    BY DEF Recognised
  <2>. HIDE DEF row
  <2>4. /\ DOMAIN messages'[p] = 1..(Len(messages[p]) + 1)
        /\ \A n \in 1..Len(messages[p]) : messages'[p][n] = messages[p][n]
        /\ messages'[p][Len(messages[p]) + 1] = row
    BY <2>1, <2>2, AppendProperties
  <2>5. ASSUME NEW n \in DOMAIN messages'[p]
        PROVE  Recognised(messages'[p][n], messages'[p][n].sent)
    <3>1. CASE n = Len(messages[p]) + 1
      BY <2>3, <2>4, <3>1
    <3>2. CASE n # Len(messages[p]) + 1
      <4>1. n \in DOMAIN messages[p] /\ messages'[p][n] = messages[p][n]
        BY <2>1, <2>4, <2>5, <3>2
      <4>. QED
        BY <4>1 DEF RetryIsRecognised
    <3>. QED
      BY <3>1, <3>2
  <2>6. ASSUME NEW q \in Pairs \ {p}, NEW n \in DOMAIN messages'[q]
        PROVE  Recognised(messages'[q][n], messages'[q][n].sent)
    BY <2>2, <2>6 DEF RetryIsRecognised
  <2>. QED
    BY <2>5, <2>6 DEF RetryIsRecognised, Recognised
<1>3. ASSUME NEW p \in Pairs, NEW n \in DOMAIN messages[p], NEW row \in MessageRows,
             messages' = [messages EXCEPT ![p][n] = row],
             row.hash = KeptHash(messages[p][n]), row.sent = messages[p][n].sent
      PROVE  RetryIsRecognised'
  <2>1. /\ messages[p] \in Seq(MessageRows) /\ messages[p][n] \in MessageRows
        /\ messages'[p] = [messages[p] EXCEPT ![n] = row]
        /\ \A q \in Pairs \ {p} : messages'[q] = messages[q]
    BY <1>3, MessageFacts DEF ContactsTypeOK
  <2>2. Recognised(messages[p][n], messages[p][n].sent)
    BY <1>3 DEF RetryIsRecognised
  <2>3. row.hash = row.sent
    BY <1>3, <2>1, <2>2, NoneAssumption DEF Recognised, KeptHash, MessageRows
  <2>4. DOMAIN messages'[p] = DOMAIN messages[p]
        /\ \A m \in DOMAIN messages[p] : messages'[p][m] = IF m = n THEN row ELSE messages[p][m]
    BY <1>3, <2>1
  <2>. QED
    BY <2>1, <2>3, <2>4 DEF RetryIsRecognised, Recognised
<1>4. ASSUME NEW u \in People, NEW p \in Pairs, NEW n \in 1..MaxMessages, NEW words \in Texts,
             EditMessage(u, p, n, words)
      PROVE  RetryIsRecognised'
  <2>1. messages[p][n] \in MessageRows /\ n \in DOMAIN messages[p]
    BY <1>4 DEF EditMessage, ContactsTypeOK
  <2>. DEFINE row == [messages[p][n] EXCEPT !.text = words, !.hash = KeptHash(messages[p][n])]
  <2>2. /\ row \in MessageRows /\ row.hash = KeptHash(messages[p][n])
        /\ row.sent = messages[p][n].sent
    BY <2>1 DEF KeptHash, MessageRows
  <2>. QED
    BY <1>3, <1>4, <2>1, <2>2 DEF EditMessage
<1>5. ASSUME NEW u \in People, NEW p \in Pairs, NEW n \in 1..MaxMessages, DeleteMessage(u, p, n)
      PROVE  RetryIsRecognised'
  <2>1. messages[p][n] \in MessageRows /\ n \in DOMAIN messages[p]
    BY <1>5 DEF DeleteMessage, ContactsTypeOK
  <2>. DEFINE row == [messages[p][n] EXCEPT !.text = None, !.deleted = TRUE,
                                           !.hash = KeptHash(messages[p][n])]
  <2>2. /\ row \in MessageRows /\ row.hash = KeptHash(messages[p][n])
        /\ row.sent = messages[p][n].sent
    BY <2>1 DEF KeptHash, MessageRows
  <2>. QED
    BY <1>3, <1>5, <2>1, <2>2 DEF DeleteMessage
<1>6. ASSUME NEW u \in People, NEW p \in Pairs, NEW n \in 1..MaxMessages, Read(u, p, n)
      PROVE  RetryIsRecognised'
  BY <1>1, <1>6 DEF Read
<1>7. CASE LinkNext
  BY <1>1, <1>7, ZenonT(60) DEF LinkNext, Invite, Block, Unblock, Respond, Disconnect, CloseAccount, DayPasses,
                    talkVars
<1>8. CASE VisitNext
  BY <1>1, <1>8, VisitLeaves
<1>. QED
  BY <1>2, <1>4, <1>5, <1>6, <1>7, <1>8 DEF ContactsNext, TalkNext

-----------------------------------------------------------------------------
(* People who parted.  The argument: whatever blocks a pair or closes an      *)
(* account severs its link in the same transaction, and whatever ends a link  *)
(* that was ACCEPTED cancels what the pair had still to come.                 *)

Apart(p) == Blocked(p) \/ p \cap closed # {}
Parted(p) == link[p] = None \/ link[p].status \in Inactive

LEMMA ApartKept ==
  ASSUME ContactsTypeOK, ApartHasNoLink, ContactsNext
  PROVE  ApartHasNoLink'
<1>. USE DEF Apart, Parted
<1>1. \A p \in Pairs : Apart(p) => Parted(p)
  BY DEF ApartHasNoLink
<1>2. SUFFICES \A p \in Pairs : (Apart(p) => Parted(p))'
  BY DEF ApartHasNoLink
<1>3. ASSUME UNCHANGED <<link, blocks, closed>>
      PROVE  \A p \in Pairs : (Apart(p) => Parted(p))'
  BY <1>1, <1>3 DEF Blocked
<1>4. ASSUME NEW p \in Pairs, NEW from \in {"PENDING", "ACCEPTED"}, NEW to \in LinkStatus,
             SetLink(p, from, to), UNCHANGED <<blocks, closed>>
      PROVE  \A q \in Pairs : (Apart(q) => Parted(q))'
  <2>1. /\ link[p] \in LinkRows /\ link[p].status = from
        /\ \A q \in Pairs \ {p} : link'[q] = link[q]
    BY <1>4, SetLinkFacts
  <2>2. ~Apart(p)
    BY <1>1, <2>1, RowsAssumption DEF Inactive
  <2>. QED
    BY <1>1, <1>4, <2>1, <2>2 DEF Blocked
<1>5. ASSUME NEW u \in People, NEW w \in People, Invite(u, w)
      PROVE  \A p \in Pairs : (Apart(p) => Parted(p))'
  <2>. DEFINE p == {u, w}
  <2>1. ~Apart(p) /\ UNCHANGED <<blocks, closed>>
    BY <1>5 DEF Invite
  <2>2. \A q \in Pairs \ {p} : link'[q] = link[q]
    BY <1>5 DEF Invite, ContactsTypeOK
  <2>. QED
    BY <1>1, <2>1, <2>2 DEF Blocked
<1>6. ASSUME NEW u \in People, NEW w \in People, Block(u, w)
      PROVE  \A p \in Pairs : (Apart(p) => Parted(p))'
  <2>1. /\ Sever({{u, w}}) /\ closed' = closed /\ blocks' = blocks \cup {<<u, w>>}
    BY <1>6 DEF Block
  <2>2. ASSUME NEW q \in Pairs, q # {u, w}, Apart(q)'
        PROVE  Apart(q)
    <3>1. CASE q \cap closed # {}
      BY <3>1
    <3>2. CASE q \cap closed = {}
      <4>1. PICK x \in q, y \in q : <<x, y>> \in blocks'
        BY <2>1, <2>2, <3>2 DEF Blocked
      <4>2. x # y => q = {x, y}
        BY TwoOfPair
      <4>3. CASE x = y
        BY <1>6, <2>1, <4>1, <4>3 DEF Block, Blocked
      <4>4. CASE x # y
        BY <2>1, <2>2, <4>1, <4>2, <4>4 DEF Blocked
      <4>. QED
        BY <4>3, <4>4
    <3>. QED
      BY <3>1, <3>2
  <2>3. \A q \in Pairs : q \in {{u, w}} => Parted(q)'
    BY <2>1, SeverFacts
  <2>4. \A q \in Pairs : q \notin {{u, w}} => link'[q] = link[q]
    BY <2>1, SeverFacts
  <2>. QED
    BY <1>1, <2>2, <2>3, <2>4
<1>7. ASSUME NEW u \in People, NEW w \in People, Unblock(u, w)
      PROVE  \A p \in Pairs : (Apart(p) => Parted(p))'
  BY <1>1, <1>7 DEF Unblock, Blocked
<1>8. ASSUME NEW u \in People, CloseAccount(u)
      PROVE  \A p \in Pairs : (Apart(p) => Parted(p))'
  <2>. DEFINE mine == {p \in Pairs : u \in p}
  <2>1. Sever(mine) /\ closed' = closed \cup {u} /\ blocks' = blocks
    BY <1>8 DEF CloseAccount
  <2>2. \A p \in mine : Parted(p)'
    BY <2>1, SeverFacts
  <2>3. \A p \in Pairs \ mine : link'[p] = link[p]
    BY <2>1, SeverFacts
  <2>. QED
    BY <1>1, <2>1, <2>2, <2>3 DEF Blocked
<1>9. CASE LinkNext
  <2>1. ASSUME NEW u \in People, NEW p \in Pairs,
               NEW action \in {"ACCEPTED", "DECLINED", "CANCELLED"}, Respond(u, p, action)
        PROVE  \A q \in Pairs : (Apart(q) => Parted(q))'
    BY <1>4, <2>1 DEF Respond, LinkStatus, Inactive
  <2>2. ASSUME NEW u \in People, NEW p \in Pairs, Disconnect(u, p)
        PROVE  \A q \in Pairs : (Apart(q) => Parted(q))'
    BY <1>4, <2>2 DEF Disconnect, LinkStatus, Inactive
  <2>3. CASE DayPasses
    BY <1>3, <2>3 DEF DayPasses, linkVars
  <2>. QED
    BY <1>5, <1>6, <1>7, <1>8, <1>9, <2>1, <2>2, <2>3 DEF LinkNext
<1>10. CASE TalkNext
  <2>1. UNCHANGED <<link, blocks, closed>>
    BY <1>10, TalkLeaves
  <2>. QED
    BY <1>3, <2>1
<1>11. CASE VisitNext
  BY <1>3, <1>11, VisitLeaves
<1>. QED
  BY <1>9, <1>10, <1>11 DEF ContactsNext

Upcoming(v) == visit[v] # None /\ visit[v].status \in Live /\ visit[v].startsAt > now
Together(p) == link[p] # None /\ link[p].status = "ACCEPTED"

LEMMA UpcomingKept ==
  ASSUME ContactsTypeOK, MarkersInv, UpcomingIsBetweenContacts, ContactsNext
  PROVE  UpcomingIsBetweenContacts'
<1>. USE DEF Upcoming, Together
<1>1. \A v \in Visits : Upcoming(v) => Together(visit[v].pair)
  BY DEF UpcomingIsBetweenContacts
<1>2. SUFFICES \A v \in Visits : (Upcoming(v) => Together(visit[v].pair))'
  BY DEF UpcomingIsBetweenContacts
<1>3. /\ now \in Nat /\ \A v \in Visits : visit[v] # None =>
           visit[v] \in VisitRows /\ visit[v].startsAt \in Nat /\ visit[v].pair \in Pairs
  BY StartsAssumption DEF ContactsTypeOK, VisitRows
<1>4. ASSUME UNCHANGED <<visit, now>>, \A p \in Pairs : Together(p) => Together(p)'
      PROVE  \A v \in Visits : (Upcoming(v) => Together(visit[v].pair))'
  BY <1>1, <1>3, <1>4
<1>5. ASSUME NEW pairs, NEW who \in People, NEW after \in Int, CancelVisits(pairs, who, after),
             after <= now, now' = now,
             \A p \in Pairs : p \notin pairs /\ Together(p) => Together(p)'
      PROVE  \A v \in Visits : (Upcoming(v) => Together(visit[v].pair))'
  <2>1. ASSUME NEW v \in Visits, Upcoming(v)'
        PROVE  Together(visit[v].pair)'
    <3>1. CASE visit'[v] = CancelledRow(visit[v]) /\ visit[v] # None
      <4>1. visit'[v].status = "CANCELLED"
        BY <1>3, <3>1, CancelledRowFacts
      <4>. QED
        BY <2>1, <4>1 DEF Live
    <3>2. CASE visit'[v] = visit[v] /\ (visit[v] # None /\ visit[v].pair \in pairs =>
                                          ~ToCancel(visit[v], after))
      <4>1. Upcoming(v) /\ visit[v].startsAt > after
        BY <1>3, <1>5, <2>1, <3>2
      <4>2. visit[v].pair \notin pairs
        BY <3>2, <4>1 DEF ToCancel
      <4>. QED
        BY <1>1, <1>3, <1>5, <3>2, <4>1, <4>2
    <3>3. \/ /\ visit'[v] = visit[v]
             /\ visit[v] # None /\ visit[v].pair \in pairs => ~ToCancel(visit[v], after)
          \/ visit[v] # None /\ visit'[v] = CancelledRow(visit[v])
      <4>1. \A w \in Visits :
              \/ /\ visit'[w] = visit[w] /\ visitLog'[w] = visitLog[w]
                 /\ visit[w] # None /\ visit[w].pair \in pairs => ~ToCancel(visit[w], after)
              \/ /\ visit[w] # None /\ ToCancel(visit[w], after)
                 /\ visit'[w] = CancelledRow(visit[w])
                 /\ visitLog'[w] = Logged(w, who, CancelledRow(visit[w]))
        BY <1>5, CancelFacts, ZenonT(60)
      <4>. QED
        BY <4>1
    <3>. QED
      BY <3>1, <3>2, <3>3
  <2>. QED
    BY <2>1
<1>6. ASSUME NEW pairs, Sever(pairs)
      PROVE  \A p \in Pairs : p \notin pairs /\ Together(p) => Together(p)'
  BY <1>6, SeverFacts
<1>7. ASSUME NEW u \in People, NEW w \in People, Invite(u, w)
      PROVE  \A v \in Visits : (Upcoming(v) => Together(visit[v].pair))'
  <2>1. \A q \in Pairs : q # {u, w} => link'[q] = link[q]
    BY <1>7 DEF Invite, ContactsTypeOK
  <2>2. ~Together({u, w})
    BY <1>7 DEF Invite, Inactive
  <2>. QED
    BY <1>4, <1>7, <2>1, <2>2 DEF Invite, visitVars
<1>8. ASSUME NEW u \in People, NEW w \in People, Block(u, w)
      PROVE  \A v \in Visits : (Upcoming(v) => Together(visit[v].pair))'
  <2>1. Sever({{u, w}}) /\ CancelVisits({{u, w}}, u, -1) /\ now' = now
    BY <1>8 DEF Block
  <2>2. -1 \in Int /\ -1 <= now
    BY <1>3
  <2>. QED
    BY <1>5, <1>6, <2>1, <2>2
<1>9. ASSUME NEW u \in People, CloseAccount(u)
      PROVE  \A v \in Visits : (Upcoming(v) => Together(visit[v].pair))'
  <2>. DEFINE mine == {p \in Pairs : u \in p}
  <2>1. Sever(mine) /\ CancelVisits(mine, u, now) /\ now' = now
    BY <1>9 DEF CloseAccount
  <2>2. now \in Int /\ now <= now
    BY <1>3
  <2>. QED
    BY <1>5, <1>6, <2>1, <2>2
<1>10. ASSUME NEW u \in People, NEW p \in Pairs, Disconnect(u, p)
       PROVE  \A v \in Visits : (Upcoming(v) => Together(visit[v].pair))'
  <2>1. SetLink(p, "ACCEPTED", "CANCELLED") /\ CancelVisits({p}, u, now) /\ now' = now
    BY <1>10 DEF Disconnect
  <2>2. \A q \in Pairs : q \notin {p} /\ Together(q) => Together(q)'
    BY <2>1, SetLinkFacts DEF LinkStatus, Inactive
  <2>3. now \in Int /\ now <= now
    BY <1>3
  <2>. QED
    BY <1>5, <2>1, <2>2, <2>3
<1>11. ASSUME NEW u \in People, NEW p \in Pairs,
              NEW action \in {"ACCEPTED", "DECLINED", "CANCELLED"}, Respond(u, p, action)
       PROVE  \A v \in Visits : (Upcoming(v) => Together(visit[v].pair))'
  <2>1. \A q \in Pairs : Together(q) => Together(q)'
    <3>1. /\ link[p].status = "PENDING" /\ \A q \in Pairs \ {p} : link'[q] = link[q]
      BY <1>11, SetLinkFacts DEF Respond, LinkStatus, Inactive
    <3>. QED
      BY <3>1
  <2>. QED
    BY <1>4, <1>11, <2>1 DEF Respond, visitVars
<1>12. CASE LinkNext
  <2>1. CASE DayPasses
    BY <1>1, <1>3, <2>1 DEF DayPasses, linkVars, visitVars
  <2>2. ASSUME NEW u \in People, NEW w \in People, Unblock(u, w)
        PROVE  \A v \in Visits : (Upcoming(v) => Together(visit[v].pair))'
    BY <1>4, <2>2 DEF Unblock, visitVars
  <2>. QED
    BY <1>7, <1>8, <1>9, <1>10, <1>11, <1>12, <2>1, <2>2 DEF LinkNext
<1>13. CASE TalkNext
  <2>1. UNCHANGED <<link, visit, now>>
    BY <1>13, TalkLeaves
  <2>. QED
    BY <1>4, <2>1
<1>14. ASSUME NEW u \in People, NEW v \in Visits, NEW row \in VisitRows, Changes(u, v, row),
              row.pair = visit[v].pair
       PROVE  \A w \in Visits : (Upcoming(w) => Together(visit[w].pair))'
  <2>1. /\ visit'[v] = row /\ \A w \in Visits \ {v} : visit'[w] = visit[w]
    BY <1>14, ChangesFacts
  <2>2. UNCHANGED <<link, now>> /\ Together(visit[v].pair)
    BY <1>3, <1>14 DEF Changes, linkVars, MayTalk, MarkersInv, MarkersOf
  <2>. QED
    BY <1>1, <1>14, <2>1, <2>2
<1>15. ASSUME NEW u \in People, NEW p \in Pairs, NEW v \in Visits, NEW at \in Starts,
              NEW listed \in BOOLEAN, Propose(u, p, v, at, listed)
       PROVE  \A w \in Visits : (Upcoming(w) => Together(visit[w].pair))'
  <2>1. /\ visit'[v].pair = p /\ \A w \in Visits \ {v} : visit'[w] = visit[w]
    <3>1. /\ visit'[v] = [pair |-> p, proposer |-> u, startsAt |-> at, status |-> "PENDING",
                          version |-> 1, listed |-> listed]
          /\ \A w \in Visits \ {v} : visit'[w] = visit[w]
      BY <1>15 DEF Propose, ContactsTypeOK
    <3>. QED
      BY <3>1
  <2>2. UNCHANGED <<link, now>> /\ Together(p)
    BY <1>15 DEF Propose, MayTalk, linkVars, MarkersInv, MarkersOf
  <2>. QED
    BY <1>1, <2>1, <2>2
<1>16. CASE VisitNext
  <2>1. ASSUME NEW u \in People, NEW v \in Visits,
               CancelVisit(u, v) \/ Confirm(u, v) \/ \E at \in Starts : Reschedule(u, v, at)
        PROVE  \A w \in Visits : (Upcoming(w) => Together(visit[w].pair))'
    <3>1. visit[v] \in VisitRows
      BY <1>3, <2>1 DEF CancelVisit, Confirm, Reschedule, Changes
    <3>2. CASE CancelVisit(u, v)
      BY <1>14, <3>1, <3>2, CancelledRowFacts DEF CancelVisit
    <3>3. CASE Confirm(u, v)
      BY <1>14, <3>1, <3>3, ConfirmedRowFacts DEF Confirm, ConfirmedRow
    <3>4. ASSUME NEW at \in Starts, Reschedule(u, v, at)
          PROVE  \A w \in Visits : (Upcoming(w) => Together(visit[w].pair))'
      BY <1>14, <3>1, <3>4, MovedRowFacts DEF Reschedule
    <3>. QED
      BY <2>1, <3>2, <3>3, <3>4
  <2>2. ASSUME NEW u \in People, NEW v \in Visits, LoadVisit(u, v)
        PROVE  \A w \in Visits : (Upcoming(w) => Together(visit[w].pair))'
    BY <1>4, <2>2 DEF LoadVisit, linkVars, visitVars
  <2>3. CASE ListingChanges
    BY <1>4, <2>3 DEF ListingChanges, linkVars
  <2>. QED
    BY <1>15, <1>16, <2>1, <2>2, <2>3 DEF VisitNext
<1>. QED
  BY <1>12, <1>13, <1>16 DEF ContactsNext

-----------------------------------------------------------------------------
(* Visits.  The argument: a version of an appointment has one row for ever,   *)
(* so a client whose version is current shows the terms it confirms.          *)

HistoryOf(v) ==
  IF visit[v] = None THEN visitLog[v] = NoLog
  ELSE /\ visit[v].version > 0
       /\ visitLog[v].versions = 1..visit[v].version
       /\ visitLog[v].count = visit[v].version
       /\ visitLog[v].last.version = visit[v].version
       /\ visitLog[v].last.status = visit[v].status
       /\ visitLog[v].last.startsAt = visit[v].startsAt

SeenOf(u, v) ==
  seen[u][v] # None =>
    /\ visit[v] # None
    /\ seen[u][v].version <= visit[v].version
    /\ seen[u][v].version = visit[v].version => seen[u][v].startsAt = visit[v].startsAt

ShownOf(v) ==
  visit[v] # None /\ visit[v].status = "CONFIRMED" =>
    LET who == visitLog[v].last.actor IN
      /\ who \in People /\ who # visit[v].proposer
      /\ seen[who][v] # None /\ seen[who][v].startsAt = visit[v].startsAt

VisitInv ==
  \A v \in Visits : HistoryOf(v) /\ ShownOf(v) /\ \A u \in People : SeenOf(u, v)

\* An appointment gets its next row, and the history its entry.
Renews(v, who, row) ==
  /\ visit[v] # None
  /\ row.version = visit[v].version + 1
  /\ visit'[v] = row
  /\ visitLog'[v] = Logged(v, who, row)

LEMMA RenewsKeeps ==
  ASSUME ContactsTypeOK, VisitInv, NEW v \in Visits, NEW who \in People, NEW row \in VisitRows,
         Renews(v, who, row), seen' = seen
  PROVE  /\ HistoryOf(v)' /\ \A u \in People : SeenOf(u, v)'
         /\ visitLog'[v].last.actor = who /\ visit'[v] # None
<1>1. /\ visit[v] \in VisitRows /\ visit[v].version \in Nat /\ row.version = visit[v].version + 1
      /\ visit'[v] = row /\ visit'[v] # None /\ visitLog'[v] = Logged(v, who, row)
      /\ HistoryOf(v)
  BY RowsAssumption DEF Renews, ContactsTypeOK, VisitInv, VisitRows
<1>2. /\ visitLog'[v].versions = visitLog[v].versions \cup {row.version}
      /\ visitLog'[v].count = visitLog[v].count + 1
      /\ visitLog'[v].last.version = row.version
      /\ visitLog'[v].last.status = row.status
      /\ visitLog'[v].last.startsAt = row.startsAt
      /\ visitLog'[v].last.actor = who
  BY <1>1 DEF Logged
<1>3. HistoryOf(v)'
  <2>1. /\ visit[v].version > 0 /\ visitLog[v].versions = 1..visit[v].version
        /\ visitLog[v].count = visit[v].version
    BY <1>1 DEF HistoryOf, Renews
  <2>2. 1..(visit[v].version + 1) = 1..visit[v].version \cup {visit[v].version + 1}
    BY <1>1
  <2>3. /\ row.version > 0 /\ visitLog'[v].versions = 1..row.version
        /\ visitLog'[v].count = row.version
    BY <1>1, <1>2, <2>1, <2>2
  <2>. QED
    BY <1>1, <1>2, <2>3 DEF HistoryOf
<1>4. ASSUME NEW u \in People, seen[u][v] # None
      PROVE  seen[u][v].version < row.version
  <2>1. seen[u][v] \in VisitRows /\ seen[u][v].version \in Nat
    BY <1>4 DEF ContactsTypeOK, VisitRows
  <2>2. seen[u][v].version <= visit[v].version
    BY <1>4 DEF VisitInv, SeenOf
  <2>. QED
    BY <1>1, <2>1, <2>2
<1>5. ASSUME NEW u \in People
      PROVE  SeenOf(u, v)'
  <2>1. seen[u][v] # None => seen[u][v].version \in Nat
    BY DEF ContactsTypeOK, VisitRows
  <2>2. row.version \in Nat
    BY DEF VisitRows
  <2>. QED
    BY <1>1, <1>4, <2>1, <2>2 DEF SeenOf
<1>. QED
  BY <1>1, <1>2, <1>3, <1>5

LEMMA SameVisit ==
  ASSUME VisitInv, NEW v \in Visits, visit'[v] = visit[v], visitLog'[v] = visitLog[v], seen' = seen
  PROVE  HistoryOf(v)' /\ ShownOf(v)' /\ \A u \in People : SeenOf(u, v)'
BY DEF VisitInv, HistoryOf, ShownOf, SeenOf

LEMMA VisitsKept ==
  ASSUME ContactsTypeOK, VisitInv, ContactsNext
  PROVE  VisitInv'
<1>1. ASSUME UNCHANGED <<visit, visitLog, seen>>
      PROVE  VisitInv'
  BY <1>1, SameVisit DEF VisitInv
<1>2. ASSUME NEW v \in Visits, NEW who \in People, NEW row \in VisitRows,
             Renews(v, who, row), row.status # "CONFIRMED", seen' = seen
      PROVE  HistoryOf(v)' /\ ShownOf(v)' /\ \A u \in People : SeenOf(u, v)'
  <2>1. ShownOf(v)'
    BY <1>2 DEF Renews, ShownOf
  <2>. QED
    BY <1>2, <2>1, RenewsKeeps
<1>3. \A v \in Visits : visit[v] # None => visit[v] \in VisitRows
  BY DEF ContactsTypeOK
<1>4. ASSUME NEW pairs, NEW who \in People, NEW after \in Int, CancelVisits(pairs, who, after),
             seen' = seen
      PROVE  VisitInv'
  <2>1. ASSUME NEW v \in Visits
        PROVE  HistoryOf(v)' /\ ShownOf(v)' /\ \A u \in People : SeenOf(u, v)'
    <3>1. \/ visit'[v] = visit[v] /\ visitLog'[v] = visitLog[v]
          \/ /\ visit[v] # None
             /\ visit'[v] = CancelledRow(visit[v])
             /\ visitLog'[v] = Logged(v, who, CancelledRow(visit[v]))
      BY <1>4, CancelFacts
    <3>2. CASE visit'[v] = visit[v] /\ visitLog'[v] = visitLog[v]
      BY <1>4, <3>2, SameVisit
    <3>3. CASE /\ visit[v] # None
               /\ visit'[v] = CancelledRow(visit[v])
               /\ visitLog'[v] = Logged(v, who, CancelledRow(visit[v]))
      <4>1. /\ CancelledRow(visit[v]) \in VisitRows
            /\ CancelledRow(visit[v]).status # "CONFIRMED"
            /\ CancelledRow(visit[v]).version = visit[v].version + 1
        BY <1>3, <3>3, CancelledRowFacts
      <4>. QED
        BY <1>2, <1>4, <3>3, <4>1 DEF Renews
    <3>. QED
      BY <3>1, <3>2, <3>3
  <2>. QED
    BY <2>1 DEF VisitInv
<1>5. CASE LinkNext
  <2>1. ASSUME NEW u \in People, NEW w \in People, Block(u, w)
        PROVE  VisitInv'
    BY <1>4, <2>1, -1 \in Int DEF Block
  <2>2. ASSUME NEW u \in People,
               CloseAccount(u) \/ \E p \in Pairs : Disconnect(u, p)
        PROVE  VisitInv'
    <3>1. now \in Int
      BY DEF ContactsTypeOK
    <3>. QED
      BY <1>4, <2>2, <3>1 DEF CloseAccount, Disconnect
  <2>3. ASSUME NEW u \in People, NEW w \in People, Invite(u, w) \/ Unblock(u, w)
        PROVE  VisitInv'
    BY <1>1, <2>3 DEF Invite, Unblock, visitVars
  <2>4. ASSUME NEW u \in People, NEW p \in Pairs,
               NEW action \in {"ACCEPTED", "DECLINED", "CANCELLED"}, Respond(u, p, action)
        PROVE  VisitInv'
    BY <1>1, <2>4 DEF Respond, visitVars
  <2>5. CASE DayPasses
    BY <1>1, <2>5 DEF DayPasses, visitVars
  <2>. QED
    BY <1>5, <2>1, <2>2, <2>3, <2>4, <2>5 DEF LinkNext
<1>6. CASE TalkNext
  BY <1>1, <1>6, TalkLeaves
<1>7. ASSUME NEW u \in People, NEW v \in Visits, NEW row \in VisitRows, Changes(u, v, row),
             row.version = visit[v].version + 1
      PROVE  /\ Renews(v, u, row) /\ seen' = seen
             /\ \A w \in Visits \ {v} :
                  HistoryOf(w)' /\ ShownOf(w)' /\ \A x \in People : SeenOf(x, w)'
  <2>1. /\ visit'[v] = row /\ visitLog'[v] = Logged(v, u, row)
        /\ \A w \in Visits \ {v} : visit'[w] = visit[w] /\ visitLog'[w] = visitLog[w]
    BY <1>7, ChangesFacts
  <2>2. visit[v] # None /\ seen' = seen
    BY <1>7 DEF Changes
  <2>. QED
    BY <1>7, <2>1, <2>2, SameVisit DEF Renews
<1>8. ASSUME NEW u \in People, NEW v \in Visits,
             CancelVisit(u, v) \/ \E at \in Starts : Reschedule(u, v, at)
      PROVE  VisitInv'
  <2>1. visit[v] \in VisitRows
    BY <1>3, <1>8 DEF CancelVisit, Reschedule, Changes
  <2>2. PICK row \in VisitRows : /\ Changes(u, v, row) /\ row.version = visit[v].version + 1
                                 /\ row.status # "CONFIRMED"
    <3>1. CASE CancelVisit(u, v)
      BY <2>1, <3>1, CancelledRowFacts DEF CancelVisit
    <3>2. ASSUME NEW at \in Starts, Reschedule(u, v, at)
          PROVE  \E row \in VisitRows : /\ Changes(u, v, row) /\ row.version = visit[v].version + 1
                                        /\ row.status # "CONFIRMED"
      BY <2>1, <3>2, MovedRowFacts DEF Reschedule
    <3>. QED
      BY <1>8, <3>1, <3>2
  <2>3. Renews(v, u, row) /\ seen' = seen
    BY <1>7, <2>2
  <2>. QED
    BY <1>2, <1>7, <2>2, <2>3 DEF VisitInv
<1>9. ASSUME NEW u \in People, NEW v \in Visits, Confirm(u, v)
      PROVE  VisitInv'
  <2>. DEFINE row == ConfirmedRow(visit[v])
  <2>1. /\ visit[v] \in VisitRows /\ Changes(u, v, row) /\ visit[v].proposer # u
        /\ SawCurrent(u, v)
    BY <1>3, <1>9 DEF Confirm, Changes, ConfirmedRow
  <2>2. /\ row \in VisitRows /\ row.version = visit[v].version + 1
        /\ row.startsAt = visit[v].startsAt /\ row.proposer = visit[v].proposer
    BY <2>1, ConfirmedRowFacts
  <2>. HIDE DEF row
  <2>3. Renews(v, u, row) /\ seen' = seen
    BY <1>7, <2>1, <2>2
  <2>4. /\ HistoryOf(v)' /\ \A x \in People : SeenOf(x, v)'
        /\ visitLog'[v].last.actor = u
    BY <2>2, <2>3, RenewsKeeps
  <2>5. seen[u][v] # None /\ seen[u][v].startsAt = row.startsAt
    BY <2>1, <2>2 DEF SawCurrent, VisitInv, SeenOf
  <2>6. ShownOf(v)'
    BY <2>1, <2>2, <2>3, <2>4, <2>5 DEF ShownOf, Renews
  <2>. QED
    BY <1>7, <2>1, <2>2, <2>4, <2>6 DEF VisitInv
<1>10. ASSUME NEW u \in People, NEW p \in Pairs, NEW v \in Visits, NEW at \in Starts,
              NEW listed \in BOOLEAN, Propose(u, p, v, at, listed)
       PROVE  VisitInv'
  <2>. DEFINE row == [pair |-> p, proposer |-> u, startsAt |-> at, status |-> "PENDING",
                      version |-> 1, listed |-> listed]
  <2>1. /\ visit[v] = None /\ visit'[v] = row /\ visitLog'[v] = Logged(v, u, row)
        /\ \A w \in Visits \ {v} : visit'[w] = visit[w] /\ visitLog'[w] = visitLog[w]
        /\ seen' = seen
    BY <1>10 DEF Propose, ContactsTypeOK
  <2>2. row \in VisitRows /\ row # None
    BY RowsAssumption DEF VisitRows, Live
  <2>3. HistoryOf(v)'
    <3>1. visitLog[v] = NoLog
      BY <2>1 DEF VisitInv, HistoryOf
    <3>2. 1..1 = {1}
      OBVIOUS
    <3>. QED
      BY <2>1, <2>2, <3>1, <3>2 DEF HistoryOf, Logged, NoLog
  <2>4. \A x \in People : SeenOf(x, v)'
    BY <2>1 DEF VisitInv, SeenOf
  <2>5. ShownOf(v)'
    BY <2>1 DEF ShownOf
  <2>6. \A w \in Visits \ {v} : HistoryOf(w)' /\ ShownOf(w)' /\ \A x \in People : SeenOf(x, w)'
    BY <2>1, SameVisit
  <2>. QED
    BY <2>3, <2>4, <2>5, <2>6 DEF VisitInv
<1>11. ASSUME NEW u \in People, NEW v \in Visits, LoadVisit(u, v)
       PROVE  VisitInv'
  <2>1. /\ visit[v] # None /\ UNCHANGED <<visit, visitLog>>
        /\ seen' = [seen EXCEPT ![u] = [seen[u] EXCEPT ![v] = visit[v]]]
    BY <1>11 DEF LoadVisit, visitVars
  <2>2. \A x \in People, w \in Visits :
          seen'[x][w] = IF x = u /\ w = v THEN visit[v] ELSE seen[x][w]
    BY <2>1 DEF ContactsTypeOK
  <2>3. visit[v].version \in Nat
    BY <1>3, <2>1 DEF VisitRows
  <2>4. ASSUME NEW w \in Visits
        PROVE  HistoryOf(w)' /\ ShownOf(w)' /\ \A x \in People : SeenOf(x, w)'
    <3>1. HistoryOf(w)'
      BY <2>1 DEF VisitInv, HistoryOf
    <3>2. ShownOf(w)'
      BY <2>1, <2>2 DEF VisitInv, ShownOf
    <3>3. \A x \in People : SeenOf(x, w)'
      BY <2>1, <2>2, <2>3 DEF VisitInv, SeenOf
    <3>. QED
      BY <3>1, <3>2, <3>3
  <2>. QED
    BY <2>4 DEF VisitInv
<1>12. CASE ListingChanges
  BY <1>1, <1>12 DEF ListingChanges
<1>. QED
  BY <1>5, <1>6, <1>8, <1>9, <1>10, <1>11, <1>12 DEF ContactsNext, VisitNext

-----------------------------------------------------------------------------
(* The specification.                                                         *)

ContactsIInv ==
  /\ ContactsTypeOK /\ MarkersInv /\ RetryIsRecognised
  /\ ApartHasNoLink /\ UpcomingIsBetweenContacts /\ VisitInv

LEMMA ContactsStarts == ASSUME ContactsInit PROVE ContactsIInv
<1>1. PICK old \in SUBSET Pairs, from \in [Pairs -> People], key \in Keys, words \in Texts :
        /\ \A p \in Pairs : from[p] \in p
        /\ link = [p \in Pairs |->
             IF p \notin old THEN None
             ELSE [sender |-> from[p], receiver |-> CHOOSE w \in p : w # from[p],
                   status |-> "ACCEPTED", version |-> 2, changed |-> 0]]
        /\ room = [p \in Pairs |->
             IF p \notin old THEN None
             ELSE [lastNumber |-> 1, senderRead |-> 0, receiverRead |-> 0]]
        /\ messages = [p \in Pairs |->
             IF p \notin old THEN <<>>
             ELSE << [from |-> from[p], key |-> key, text |-> words, hash |-> None,
                      deleted |-> FALSE, sent |-> words] >>]
        /\ blocks = {}
        /\ closed = {}
        /\ visit = [v \in Visits |-> None]
        /\ visitLog = [v \in Visits |-> NoLog]
        /\ onOffer = TRUE
        /\ now = 0
        /\ seen = [u \in People |-> [v \in Visits |-> None]]
        /\ readUpTo = [p \in Pairs |-> [u \in p |-> 0]]
  BY DEF ContactsInit
<1>2. ASSUME NEW p \in Pairs
      PROVE  /\ p \in old => link[p] \in LinkRows /\ link[p].sender \in p
             /\ p \notin old => link[p] = None
  <2>1. (CHOOSE w \in p : w # from[p]) \in People
    <3>1. \E w \in p : w # from[p]
      BY <1>1, TwoOfPair
    <3>2. (CHOOSE w \in p : w # from[p]) \in p
      BY <3>1
    <3>. QED
      BY <3>2, TwoOfPair
  <2>2. CASE p \in old
    <3>1. link[p] = [sender |-> from[p], receiver |-> CHOOSE w \in p : w # from[p],
                     status |-> "ACCEPTED", version |-> 2, changed |-> 0]
      BY <1>1, <2>2
    <3>. QED
      BY <1>1, <2>1, <3>1 DEF LinkRows, LinkStatus
  <2>3. CASE p \notin old
    BY <1>1, <2>3
  <2>. QED
    BY <2>2, <2>3
<1>3. link \in [Pairs -> LinkRows \cup {None}]
  BY <1>1, <1>2
<1>4. room \in [Pairs -> RoomRows \cup {None}]
  BY <1>1 DEF RoomRows
<1>5. ASSUME NEW p \in Pairs
      PROVE  /\ messages[p] \in Seq(MessageRows)
             /\ \A n \in DOMAIN messages[p] : Recognised(messages[p][n], messages[p][n].sent)
  <2>. DEFINE row == [from |-> from[p], key |-> key, text |-> words, hash |-> None,
                      deleted |-> FALSE, sent |-> words]
  <2>1. row \in MessageRows /\ Recognised(row, row.sent)
    BY DEF MessageRows, Recognised
  <2>. HIDE DEF row
  <2>2. messages[p] = IF p \notin old THEN <<>> ELSE <<row>>
    BY <1>1 DEF row
  <2>. QED
    BY <2>1, <2>2
<1>6. messages \in [Pairs -> Seq(MessageRows)] /\ RetryIsRecognised
  BY <1>1, <1>5 DEF RetryIsRecognised
<1>7. /\ readUpTo = [p \in Pairs |-> readUpTo[p]] /\ \A p \in Pairs : readUpTo[p] \in [p -> Nat]
      /\ \A p \in Pairs : \A u \in p : readUpTo[p][u] = 0
  BY <1>1
<1>8. visitLog \in [Visits -> LogRows]
  BY <1>1 DEF NoLog, LogRows
<1>9. ContactsTypeOK
  BY <1>1, <1>3, <1>4, <1>6, <1>7, <1>8 DEF ContactsTypeOK
<1>10. MarkersInv
  <2>1. ASSUME NEW p \in Pairs
        PROVE  MarkersOf(p)
    <3>1. CASE p \in old
      <4>1. link[p] # None
        BY <1>2, <3>1, RowsAssumption
      <4>2. room[p].senderRead = 0 /\ room[p].receiverRead = 0
        BY <1>1, <3>1
      <4>. QED
        BY <1>2, <1>7, <4>1, <4>2 DEF MarkersOf, Marker
    <3>2. CASE p \notin old
      BY <1>1, <1>2, <1>7, <3>2 DEF MarkersOf
    <3>. QED
      BY <3>1, <3>2
  <2>. QED
    BY <2>1 DEF MarkersInv
<1>11. ApartHasNoLink /\ UpcomingIsBetweenContacts
  BY <1>1 DEF ApartHasNoLink, Blocked, UpcomingIsBetweenContacts
<1>12. VisitInv
  BY <1>1 DEF VisitInv, HistoryOf, ShownOf, SeenOf
<1>. QED
  BY <1>6, <1>9, <1>10, <1>11, <1>12 DEF ContactsIInv

LEMMA ContactsSound == ContactsSpec => []ContactsIInv
<1>1. ASSUME ContactsIInv, [ContactsNext]_contactVars
      PROVE  ContactsIInv'
  <2>1. CASE ContactsNext
    <3>1. ContactsTypeOK'
      BY <1>1, <2>1, LinkTypes, TalkTypes, VisitTypes DEF ContactsNext, ContactsIInv
    <3>. QED
      BY <1>1, <2>1, <3>1, MarkersKept, MessagesKept, ApartKept, UpcomingKept, VisitsKept
      DEF ContactsIInv
  <2>2. CASE UNCHANGED contactVars
    <3>1. UNCHANGED <<link, blocks, closed, room, messages, readUpTo, visit, visitLog, onOffer,
                      now, seen>>
      BY <2>2 DEF contactVars, linkVars, talkVars, visitVars
    <3>2. ContactsTypeOK' /\ MarkersInv'
      BY <1>1, <3>1 DEF ContactsIInv, ContactsTypeOK, MarkersInv, MarkersOf, Marker
    <3>3. RetryIsRecognised' /\ ApartHasNoLink' /\ UpcomingIsBetweenContacts'
      BY <1>1, <3>1 DEF ContactsIInv, RetryIsRecognised, Recognised, ApartHasNoLink, Blocked,
                        UpcomingIsBetweenContacts
    <3>4. VisitInv'
      BY <1>1, <3>1, SameVisit DEF ContactsIInv, VisitInv
    <3>. QED
      BY <3>2, <3>3, <3>4 DEF ContactsIInv
  <2>. QED
    BY <1>1, <2>1, <2>2
<1>. QED
  BY <1>1, ContactsStarts, PTL DEF ContactsSpec

\* The rows of people and what is between them have their types.
THEOREM ContactsTypeCorrect == ContactsSpec => []ContactsTypeOK
<1>1. ContactsIInv => ContactsTypeOK
  BY DEF ContactsIInv
<1>. QED
  BY <1>1, ContactsSound, PTL

\* Read markers stay with their people, however often any pair parts and meets
\* again in either direction (ConnectionsService.send, reverse).
THEOREM MarkersFollow == ContactsSpec => []ReadMarkersFollowPeople
<1>1. ContactsIInv => ReadMarkersFollowPeople
  BY DEF ContactsIInv, MarkersInv, MarkersOf, ReadMarkersFollowPeople
<1>. QED
  BY <1>1, ContactsSound, PTL

\* A message that is sent again is recognised by its row, whatever was edited or
\* deleted in between (ConversationMessagesService.send).
THEOREM RetriesRecognised == ContactsSpec => []RetryIsRecognised
<1>1. ContactsIInv => RetryIsRecognised
  BY DEF ContactsIInv
<1>. QED
  BY <1>1, ContactsSound, PTL

\* Whoever blocks, disconnects or closes the account leaves neither a link nor a
\* visit to come behind, for any people and visits (cancelAppointments).
THEOREM PartedStayApart == ContactsSpec => []NothingOutlivesTheLink
<1>1. ContactsIInv => NothingOutlivesTheLink
  BY DEF ContactsIInv, NothingOutlivesTheLink
<1>. QED
  BY <1>1, ContactsSound, PTL

\* A confirmed visit was agreed by both to the same time, and its history is
\* complete, however stale the clients are (ConversationAppointmentsService.change).
THEOREM VisitsAgreed == ContactsSpec => []VisitsAreAgreed
<1>1. ContactsIInv => VisitsAreAgreed
  BY DEF ContactsIInv, VisitInv, HistoryOf, ShownOf, VisitHistoryComplete, ConfirmedAsShown,
         VisitsAreAgreed
<1>. QED
  BY <1>1, ContactsSound, PTL

-----------------------------------------------------------------------------
(* Composer.  The argument: a clientId stands for one content from the first  *)
(* request with it until the box is emptied, so what is stored under it is    *)
(* what the box held, however late or often a request is carried out.         *)

\* Whatever was sent or stored under the clientId of the draft carries what the
\* box holds, as long as the attachments are those of the draft.
Carries(content) == content = [text |-> draft.text, media |-> media]

\* The draft is the last of them; without one the last was answered.
LastDraft ==
  IF draft # None
  THEN /\ draft.clientId = Len(drafts) /\ drafts # <<>> /\ draft.mediaVersion <= mediaVersion
       /\ drafts[Len(drafts)] = [text |-> draft.text, mediaVersion |-> draft.mediaVersion, emptied |-> emptied]
       /\ draft.mediaVersion = mediaVersion =>
            /\ \A r \in requests : r.clientId = draft.clientId => Carries(r.content)
            /\ draft.clientId \in DOMAIN stored => Carries(stored[draft.clientId])
  ELSE drafts # <<>> => drafts[Len(drafts)].emptied < emptied

IdsInv ==
  /\ \A r \in requests : r.clientId \in 1..Len(drafts)
  /\ DOMAIN stored \subseteq 1..Len(drafts)
  /\ \A r, q \in requests : r.clientId = q.clientId => r.content = q.content

\* A recorder and a request exclude each other.
RecorderInv ==
  /\ pending # None => recorder = "none"
  /\ microphone = "asked" => recorder = "starting"

ComposerIInv == ComposerTypeOK /\ IdsInv /\ LastDraft /\ RecorderInv /\ ComposerIsSound

LEMMA ComposerStarts == ComposerInit => ComposerIInv
<1>1. <<>> \in [{} -> Contents]
  OBVIOUS
<1>2. ComposerInit => ComposerTypeOK
  BY <1>1 DEF ComposerInit, ComposerTypeOK, Content, Contents
<1>. QED
  BY <1>2 DEF ComposerInit, ComposerIInv, IdsInv, LastDraft, RecorderInv, ComposerIsSound, RetriesAgree,
     StoredOnce, NothingIsLost, MicrophoneIsShown

LEMMA AttachFacts ==
  ASSUME mediaVersion \in Nat, NEW chosen, Attach(chosen)
  PROVE  media' = chosen /\ mediaVersion' \in Nat /\ mediaVersion' > mediaVersion
BY DEF Attach

\* What the content of the box was before the last change of its attachments does
\* not matter any more.
LEMMA AttachKeeps ==
  ASSUME ComposerIInv, NEW chosen \in SUBSET (Attachments \cup Recordings), Attach(chosen),
         UNCHANGED <<text, sendVars, stored>>
  PROVE  /\ Content' \in Contents /\ mediaVersion' \in Nat
         /\ IdsInv' /\ LastDraft' /\ RetriesAgree' /\ StoredOnce'
<1>1. media' = chosen /\ mediaVersion' \in Nat /\ mediaVersion' > mediaVersion
  BY AttachFacts DEF ComposerIInv, ComposerTypeOK
<1>2. draft # None => draft.mediaVersion \in Nat
  BY DEF ComposerIInv, ComposerTypeOK, DraftRows
<1>3. draft' = draft /\ drafts' = drafts /\ requests' = requests /\ stored' = stored /\ emptied' = emptied
  BY DEF sendVars
<1>4. LastDraft'
  BY <1>1, <1>2, <1>3 DEF ComposerIInv, ComposerTypeOK, LastDraft
<1>5. Content' \in Contents
  BY <1>1 DEF ComposerIInv, ComposerTypeOK, Contents, Content
<1>. QED
  BY <1>1, <1>3, <1>4, <1>5 DEF ComposerIInv, IdsInv, ComposerIsSound, RetriesAgree, StoredOnce

LEMMA BoxKeepsComposer ==
  ASSUME ComposerIInv,
         \/ \E x \in Written \cup {None} : Write(x)
         \/ \E a \in Attachments \cup Recordings : Choose(a) \/ Remove(a)
  PROVE  ComposerIInv'
<1>1. CASE \E x \in Written \cup {None} : Write(x)
  <2>1. PICK x \in Written \cup {None} : Write(x)
    BY <1>1
  <2>2. pending = None /\ recorder = "none"
    BY <2>1 DEF Write, Quiet
  <2>3. text' = x /\ media' = media /\ mediaVersion' = mediaVersion /\ UNCHANGED <<mounted, sendVars, drops, micVars, stored>>
    BY <2>1 DEF Write
  <2>4. ComposerTypeOK'
    BY <2>3 DEF ComposerIInv, ComposerTypeOK, Content, Contents, sendVars, micVars
  <2>5. IdsInv' /\ RecorderInv'
    BY <2>3 DEF ComposerIInv, IdsInv, RecorderInv, sendVars, micVars
  <2>6. LastDraft'
    BY <2>3 DEF ComposerIInv, LastDraft, Carries, sendVars
  <2>7. ComposerIsSound'
    BY <2>2, <2>3 DEF ComposerIInv, ComposerIsSound, RetriesAgree, StoredOnce, NothingIsLost,
                      MicrophoneIsShown, sendVars, micVars
  <2>. QED
    BY <2>4, <2>5, <2>6, <2>7 DEF ComposerIInv
<1>2. CASE \E a \in Attachments \cup Recordings : Choose(a) \/ Remove(a)
  <2>1. PICK a \in Attachments \cup Recordings : Choose(a) \/ Remove(a)
    BY <1>2
  <2>2. pending = None /\ UNCHANGED <<mounted, text, sendVars, drops, micVars, stored>>
    BY <2>1 DEF Choose, Remove, Quiet
  <2>3. media \in SUBSET (Attachments \cup Recordings)
    BY DEF ComposerIInv, ComposerTypeOK, Content, Contents
  <2>4. PICK chosen \in SUBSET (Attachments \cup Recordings) : Attach(chosen)
    BY <2>1, <2>3 DEF Choose, Remove
  <2>5. /\ Content' \in Contents /\ mediaVersion' \in Nat
        /\ IdsInv' /\ LastDraft' /\ RetriesAgree' /\ StoredOnce'
    BY <2>2, <2>4, AttachKeeps
  <2>. QED
    BY <2>2, <2>5 DEF ComposerIInv, ComposerTypeOK, RecorderInv, ComposerIsSound, NothingIsLost,
                      MicrophoneIsShown, sendVars, micVars
<1>. QED
  BY <1>1, <1>2

LEMMA MicrophoneKeepsComposer ==
  ASSUME ComposerIInv, StartRecording \/ MicrophoneGranted \/ StopRecording \/ Recorded \/ Unmount
  PROVE  ComposerIInv'
<1>1. CASE StartRecording \/ MicrophoneGranted \/ StopRecording
  <2>1. UNCHANGED <<mounted, contentVars, sendVars, drops, stored>>
    BY <1>1 DEF StartRecording, MicrophoneGranted, StopRecording
  <2>2. ComposerTypeOK'
    BY <1>1, <2>1 DEF ComposerIInv, ComposerTypeOK, Content, contentVars, sendVars,
                      StartRecording, MicrophoneGranted, StopRecording
  <2>3. RecorderInv' /\ MicrophoneIsShown'
    BY <1>1, <2>1 DEF ComposerIInv, RecorderInv, ComposerIsSound, MicrophoneIsShown, sendVars, Quiet,
                      StartRecording, MicrophoneGranted, StopRecording
  <2>4. LastDraft' /\ IdsInv'
    BY <2>1 DEF ComposerIInv, LastDraft, Carries, IdsInv, contentVars, sendVars
  <2>. QED
    BY <2>1, <2>2, <2>3, <2>4 DEF ComposerIInv, ComposerIsSound, RetriesAgree, StoredOnce,
                                  NothingIsLost, Content, contentVars, sendVars
<1>2. CASE Recorded
  <2>1. pending = None /\ recorder' = "none" /\ UNCHANGED <<mounted, text, sendVars, drops, microphone, stored>>
    BY <1>2 DEF Recorded, ComposerIInv, RecorderInv
  <2>2. microphone = "off"
    BY <1>2 DEF Recorded, ComposerIInv, ComposerTypeOK, RecorderInv, ComposerIsSound, MicrophoneIsShown
  <2>3. media \in SUBSET (Attachments \cup Recordings)
    BY DEF ComposerIInv, ComposerTypeOK, Content, Contents
  <2>4. /\ Content' \in Contents /\ mediaVersion' \in Nat
        /\ IdsInv' /\ LastDraft' /\ RetriesAgree' /\ StoredOnce'
    <3>1. CASE UNCHANGED <<media, mediaVersion>>
      BY <2>1, <3>1 DEF ComposerIInv, ComposerTypeOK, Content, IdsInv, LastDraft, Carries,
                        ComposerIsSound, RetriesAgree, StoredOnce, sendVars
    <3>2. CASE \E r \in Recordings : Attach((media \ Recordings) \cup {r})
      BY <2>1, <2>3, <3>2, AttachKeeps
    <3>. QED
      BY <1>2, <3>1, <3>2 DEF Recorded
  <2>. QED
    BY <2>1, <2>2, <2>4 DEF ComposerIInv, ComposerTypeOK, RecorderInv, ComposerIsSound, NothingIsLost,
                            MicrophoneIsShown, sendVars
<1>3. CASE Unmount
  <2>1. /\ mounted' = FALSE /\ pending' = None
        /\ UNCHANGED <<contentVars, draft, requests, sends, drops, drafts, emptied, stored>>
    BY <1>3 DEF Unmount
  <2>2. ComposerTypeOK'
    BY <1>3, <2>1 DEF ComposerIInv, ComposerTypeOK, Content, contentVars, Unmount
  <2>3. RecorderInv' /\ MicrophoneIsShown'
    BY <1>3, <2>1 DEF ComposerIInv, RecorderInv, MicrophoneIsShown, Unmount
  <2>4. LastDraft' /\ IdsInv'
    BY <2>1 DEF ComposerIInv, LastDraft, Carries, IdsInv, contentVars
  <2>. QED
    BY <2>1, <2>2, <2>3, <2>4 DEF ComposerIInv, ComposerIsSound, RetriesAgree, StoredOnce, NothingIsLost
<1>. QED
  BY <1>1, <1>2, <1>3

\* A new clientId is used for another message than the last.
LEMMA SubmitKeepsComposer ==
  ASSUME ComposerIInv, Submit
  PROVE  ComposerIInv'
<1>. DEFINE id == IF SameDraft THEN draft.clientId ELSE Len(drafts) + 1
            new == [text |-> text, mediaVersion |-> mediaVersion, emptied |-> emptied]
            request == [clientId |-> id, content |-> Content, number |-> sends]
<1>1. /\ draft' = [clientId |-> id, text |-> text, mediaVersion |-> mediaVersion]
      /\ drafts' = IF SameDraft THEN drafts ELSE Append(drafts, new)
      /\ pending' = [request |-> request, answer |-> None]
      /\ requests' = requests \cup {request} /\ sends' = sends + 1
      /\ UNCHANGED <<mounted, contentVars, drops, emptied, micVars, stored>>
      /\ recorder = "none" /\ pending = None
  BY DEF Submit, Quiet
<1>2. /\ text \in Written \cup {None} /\ mediaVersion \in Nat /\ emptied \in Nat /\ sends \in Nat
      /\ Content \in Contents /\ draft \in DraftRows \cup {None}
      /\ drafts \in Seq([text : Written \cup {None}, mediaVersion : Nat, emptied : Nat])
  BY DEF ComposerIInv, ComposerTypeOK, Content, Contents
<1>3. id \in Nat
  BY <1>2 DEF SameDraft, DraftRows
<1>4. draft' \in DraftRows
  BY <1>1, <1>2, <1>3 DEF DraftRows
<1>5. draft' # None
  BY <1>4, DraftsAssumption
<1>6. request \in RequestRows
  BY <1>2, <1>3 DEF RequestRows
<1>7. drafts' \in Seq([text : Written \cup {None}, mediaVersion : Nat, emptied : Nat])
  <2>1. new \in [text : Written \cup {None}, mediaVersion : Nat, emptied : Nat]
    BY <1>2
  <2>. HIDE DEF new
  <2>. QED
    BY <1>1, <1>2, <2>1, AppendProperties
<1>8. ComposerTypeOK'
  <2>1. pending' \in [request : RequestRows, answer : {None, "stored", "changed", "refused"}]
    BY <1>1, <1>6
  <2>2. requests' \in SUBSET RequestRows /\ sends' \in Nat /\ Content' = Content
    BY <1>1, <1>2, <1>6 DEF ComposerIInv, ComposerTypeOK, Content, contentVars
  <2>. QED
    BY <1>1, <1>4, <1>7, <2>1, <2>2 DEF ComposerIInv, ComposerTypeOK, contentVars, micVars
<1>9. /\ id = Len(drafts') /\ drafts' # <<>> /\ drafts'[Len(drafts')] = new
      /\ Len(drafts) \in Nat /\ Len(drafts) <= Len(drafts')
  <2>1. CASE SameDraft
    BY <1>1, <1>2, <2>1 DEF ComposerIInv, LastDraft, SameDraft
  <2>2. CASE ~SameDraft
    BY <1>1, <1>2, <2>2
  <2>. QED
    BY <2>1, <2>2
<1>10. \A r \in requests : r.clientId = id => r.content = Content
  BY <1>2 DEF ComposerIInv, IdsInv, LastDraft, Carries, Content, SameDraft
<1>11. id \in DOMAIN stored => stored[id] = Content
  BY <1>2 DEF ComposerIInv, IdsInv, LastDraft, Carries, Content, SameDraft
<1>12. IdsInv' /\ RetriesAgree'
  <2>1. \A r \in requests' : r.clientId \in 1..Len(drafts')
    BY <1>1, <1>9, <1>3 DEF ComposerIInv, IdsInv, Content
  <2>2. DOMAIN stored' \subseteq 1..Len(drafts')
    BY <1>1, <1>9 DEF ComposerIInv, IdsInv
  <2>3. \A r, q \in requests' : r.clientId = q.clientId => r.content = q.content
    BY <1>1, <1>10 DEF ComposerIInv, IdsInv
  <2>4. RetriesAgree'
    BY <1>1, <1>11 DEF ComposerIInv, ComposerIsSound, RetriesAgree
  <2>. QED
    BY <2>1, <2>2, <2>3, <2>4 DEF IdsInv
<1>13. LastDraft'
  <2>1. /\ draft'.clientId = id /\ draft'.text = text /\ draft'.mediaVersion = mediaVersion
        /\ text' = text /\ media' = media /\ mediaVersion' = mediaVersion /\ emptied' = emptied /\ stored' = stored
    BY <1>1 DEF contentVars
  <2>2. \A r \in requests' : r.clientId = id => r.content = [text |-> text, media |-> media]
    BY <1>1, <1>10 DEF Content
  <2>3. id \in DOMAIN stored' => stored'[id] = [text |-> text, media |-> media]
    BY <1>11, <2>1 DEF Content
  <2>4. \A content : Carries(content)' <=> content = [text |-> text, media |-> media]
    BY <2>1 DEF Carries
  <2>. QED
    BY <1>2, <1>5, <1>9, <2>1, <2>2, <2>3, <2>4 DEF LastDraft, Carries
<1>14. StoredOnce'
  <2>1. CASE SameDraft
    BY <1>1, <2>1 DEF ComposerIInv, ComposerIsSound, StoredOnce
  <2>2. CASE ~SameDraft
    <3>1. \A i \in DOMAIN drafts : drafts'[i] = drafts[i]
      BY <1>1, <1>2, <2>2
    <3>2. DOMAIN drafts = 1..Len(drafts) /\ DOMAIN drafts' = 1..(Len(drafts) + 1)
          /\ drafts'[Len(drafts) + 1] = new
      BY <1>1, <1>2, <2>2
    <3>3. drafts # <<>> => drafts[Len(drafts)] # new
      BY <1>2, <2>2 DEF ComposerIInv, LastDraft, SameDraft
    <3>. QED
      BY <1>2, <3>1, <3>2, <3>3, SMTT(30) DEF ComposerIInv, ComposerIsSound, StoredOnce
  <2>. QED
    BY <2>1, <2>2
<1>15. RecorderInv' /\ NothingIsLost' /\ MicrophoneIsShown'
  BY <1>1 DEF ComposerIInv, RecorderInv, ComposerIsSound, NothingIsLost, MicrophoneIsShown, Content,
              contentVars, micVars
<1>. QED
  BY <1>8, <1>12, <1>13, <1>14, <1>15 DEF ComposerIInv, ComposerIsSound

LEMMA AnswersFacts ==
  ASSUME ComposerIInv, NEW r, NEW answer \in {"stored", "changed", "refused"}, Answers(r, answer)
  PROVE  /\ pending' \in [request : RequestRows, answer : {None, "stored", "changed", "refused"}] \cup {None}
         /\ pending' # None => pending # None /\ pending'.request = pending.request
<1>1. CASE pending # None /\ pending.request = r
  BY <1>1 DEF Answers, ComposerIInv, ComposerTypeOK
<1>2. CASE ~(pending # None /\ pending.request = r)
  BY <1>2 DEF Answers, ComposerIInv, ComposerTypeOK
<1>. QED
  BY <1>1, <1>2

LEMMA RequestsKeepComposer ==
  ASSUME ComposerIInv, NEW r \in requests, Arrives(r) \/ Refused(r)
  PROVE  ComposerIInv'
<1>1. /\ requests' = requests \ {r}
      /\ UNCHANGED <<mounted, contentVars, draft, sends, drafts, emptied, micVars>>
  BY DEF Arrives, Refused
<1>2. drops' \in Nat
  BY DEF Arrives, Refused, Drop, ComposerIInv, ComposerTypeOK
<1>3. /\ pending' \in [request : RequestRows, answer : {None, "stored", "changed", "refused"}] \cup {None}
      /\ pending' # None => pending # None /\ pending'.request = pending.request
  <2>1. UNCHANGED pending \/ \E answer \in {"stored", "changed", "refused"} : Answers(r, answer)
    BY DEF Arrives, Refused
  <2>. QED
    BY <2>1, AnswersFacts DEF ComposerIInv, ComposerTypeOK
<1>4. r \in RequestRows
  BY DEF ComposerIInv, ComposerTypeOK
<1>5. /\ \A i \in DOMAIN stored' : \/ i \in DOMAIN stored /\ stored'[i] = stored[i]
                                   \/ i = r.clientId /\ stored'[i] = r.content
      /\ \E ids \in SUBSET Nat : stored' \in [ids -> Contents]
  <2>1. CASE UNCHANGED stored
    BY <2>1 DEF ComposerIInv, ComposerTypeOK
  <2>2. CASE stored' = [i \in DOMAIN stored \cup {r.clientId} |-> IF i = r.clientId THEN r.content ELSE stored[i]]
    <3>2. PICK ids \in SUBSET Nat : stored \in [ids -> Contents]
      BY DEF ComposerIInv, ComposerTypeOK
    <3>3. stored' \in [ids \cup {r.clientId} -> Contents] /\ ids \cup {r.clientId} \in SUBSET Nat
      BY <1>4, <2>2, <3>2 DEF RequestRows
    <3>. QED
      BY <2>2, <3>2, <3>3
  <2>. QED
    BY <2>1, <2>2 DEF Arrives, Refused
<1>6. ComposerTypeOK'
  BY <1>1, <1>2, <1>3, <1>5 DEF ComposerIInv, ComposerTypeOK, Content, contentVars, micVars
<1>7. IdsInv' /\ RetriesAgree'
  BY <1>1, <1>5 DEF ComposerIInv, IdsInv, ComposerIsSound, RetriesAgree
<1>8. LastDraft'
  BY <1>1, <1>5 DEF ComposerIInv, LastDraft, Carries, contentVars
<1>9. StoredOnce' /\ NothingIsLost' /\ MicrophoneIsShown' /\ RecorderInv'
  BY <1>1, <1>3 DEF ComposerIInv, ComposerIsSound, StoredOnce, NothingIsLost, MicrophoneIsShown, RecorderInv,
                    Content, contentVars, micVars
<1>. QED
  BY <1>6, <1>7, <1>8, <1>9 DEF ComposerIInv, ComposerIsSound

LEMMA LastIn ==
  ASSUME NEW S, NEW seq \in Seq(S), seq # <<>>
  PROVE  seq[Len(seq)] \in S
<1>1. Len(seq) \in 1..Len(seq)
  BY EmptySeq
<1>. QED
  BY <1>1, ElementOfSeq

LEMMA AnswerKeepsComposer ==
  ASSUME ComposerIInv, Answered \/ GivesUp
  PROVE  ComposerIInv'
<1>1. /\ pending # None /\ pending' = None
      /\ UNCHANGED <<mounted, mediaVersion, requests, sends, drafts, micVars, stored>>
      /\ drops' \in Nat
  BY DEF Answered, GivesUp, contentVars, Drop, ComposerIInv, ComposerTypeOK
<1>2. \/ UNCHANGED <<text, media, draft, emptied>>
      \/ text' = None /\ media' = {} /\ draft' = None /\ emptied' = emptied + 1
  BY DEF Answered, GivesUp, contentVars
<1>3. ComposerTypeOK'
  BY <1>1, <1>2 DEF ComposerIInv, ComposerTypeOK, Content, Contents, micVars
<1>4. LastDraft'
  <2>1. CASE UNCHANGED <<text, media, draft, emptied>>
    BY <1>1, <2>1 DEF ComposerIInv, LastDraft, Carries
  <2>2. CASE draft' = None /\ emptied' = emptied + 1
    <3>1. drafts \in Seq([text : Written \cup {None}, mediaVersion : Nat, emptied : Nat]) /\ emptied \in Nat
      BY DEF ComposerIInv, ComposerTypeOK
    <3>2. drafts # <<>> => drafts[Len(drafts)] \in [text : Written \cup {None}, mediaVersion : Nat, emptied : Nat]
      BY <3>1, LastIn
    <3>3. drafts # <<>> => drafts[Len(drafts)].emptied <= emptied /\ drafts[Len(drafts)].emptied \in Nat
      <4>1. drafts # <<>> => drafts[Len(drafts)].emptied = emptied \/ drafts[Len(drafts)].emptied < emptied
        BY DEF ComposerIInv, LastDraft
      <4>2. drafts # <<>> => drafts[Len(drafts)].emptied \in Nat
        BY <3>2
      <4>. QED
        BY <3>1, <4>1, <4>2
    <3>. QED
      BY <1>1, <2>2, <3>1, <3>3 DEF LastDraft
  <2>. QED
    BY <1>2, <2>1, <2>2
<1>5. IdsInv' /\ RecorderInv' /\ ComposerIsSound'
  BY <1>1 DEF ComposerIInv, IdsInv, RecorderInv, ComposerIsSound, RetriesAgree, StoredOnce, NothingIsLost,
              MicrophoneIsShown, micVars
<1>. QED
  BY <1>3, <1>4, <1>5 DEF ComposerIInv

LEMMA ComposerHolds == ComposerSpec => []ComposerIInv
<1>1. ComposerIInv /\ [ComposerNext]_composerVars => ComposerIInv'
  <2>. SUFFICES ASSUME ComposerIInv, [ComposerNext]_composerVars
                PROVE  ComposerIInv'
    OBVIOUS
  <2>1. CASE ComposerNext
    BY <2>1, BoxKeepsComposer, MicrophoneKeepsComposer, SubmitKeepsComposer, RequestsKeepComposer,
       AnswerKeepsComposer DEF ComposerNext
  <2>2. CASE UNCHANGED composerVars
    BY <2>2 DEF ComposerIInv, ComposerTypeOK, Content, IdsInv, LastDraft, Carries, RecorderInv, ComposerIsSound,
       RetriesAgree, StoredOnce, NothingIsLost, MicrophoneIsShown, composerVars, contentVars, sendVars, micVars
  <2>. QED
    BY <2>1, <2>2
<1>. QED
  BY <1>1, ComposerStarts, PTL DEF ComposerSpec

\* The box and its requests have their types.
THEOREM ComposerTypeCorrect == ComposerSpec => []ComposerTypeOK
<1>1. ComposerIInv => ComposerTypeOK
  BY DEF ComposerIInv
<1>. QED
  BY <1>1, ComposerHolds, PTL

\* What is written or recorded is stored once or still there, for any texts,
\* attachments and recordings and any number of lost answers and late requests
\* (MessageComposer.send, toggleRecording).
THEOREM ComposerSound == ComposerSpec => []ComposerIsSound
<1>1. ComposerIInv => ComposerIsSound
  BY DEF ComposerIInv
<1>. QED
  BY <1>1, ComposerHolds, PTL

-----------------------------------------------------------------------------
(* LiveUpdates: what a tab shows, or is on its way to it, is a version that   *)
(* the server has or had (LiveInv).  Rows only grow, so it stays one; and     *)
(* merging keeps the newer of two versions.                                   *)

CopyOf(f, rs) == \A n \in DOMAIN f : n \in DOMAIN rs /\ f[n] \in 1..rs[n]
AnswerOf(answer, rs) == answer \in {None, Denied} \/ CopyOf(answer.items, rs)

\* Requests that carry messages.
RoomLoad(l) == DOMAIN l = {"stage", "answer"} /\ l.stage = "room"
PageLoad(l, rs) ==
  /\ DOMAIN l = {"stage", "answer", "got", "after", "first"} /\ l.stage = "page"
  /\ CopyOf(l.got, rs) /\ AnswerOf(l.answer, rs)
ReadLoad(l) == DOMAIN l = {"stage", "number", "answer"} /\ l.stage = "read"
LoadOf(l, rs) == l = NoRequest \/ RoomLoad(l) \/ ReadLoad(l) \/ PageLoad(l, rs)
OlderOf(o, rs) ==
  o = NoRequest \/ (DOMAIN o = {"stage", "before", "answer"} /\ AnswerOf(o.answer, rs))

CopiesOf(v, l, o, s, rs) ==
  /\ CopyOf(v, rs) /\ LoadOf(l, rs) /\ OlderOf(o, rs)
  /\ \A row \in s : row.number \in DOMAIN rs /\ row.version \in 1..rs[row.number]

\* What the tab has, or is on its way to it, was said by the server.
LiveInv ==
  /\ rows \in Seq(Nat) /\ \A n \in Numbers : rows[n] > 0
  /\ CopiesOf(view, load, older, saved, rows)

Grows == DOMAIN rows \subseteq DOMAIN rows' /\ \A n \in DOMAIN rows : rows[n] <= rows'[n]
RowsOK == rows \in Seq(Nat) /\ \A n \in Numbers : rows[n] > 0

LEMMA GrowingCopies ==
  ASSUME RowsOK, RowsOK', Grows, NEW f, CopyOf(f, rows)
  PROVE  CopyOf(f, rows')
<1>1. \A n \in DOMAIN rows : rows[n] \in Nat /\ rows'[n] \in Nat
  BY ElementOfSeq, LenProperties DEF RowsOK, Grows, Numbers
<1> QED  BY <1>1 DEF Grows, CopyOf

LEMMA GrowingRows ==
  ASSUME LiveInv, RowsOK', Grows, UNCHANGED <<view, load, older>>,
         \A row \in saved' : \/ row \in saved
                             \/ row.number \in DOMAIN rows' /\ row.version \in 1..rows'[row.number]
  PROVE  LiveInv'
<1> RowsOK /\ RowsOK'  BY DEF LiveInv, RowsOK
<1>1. CopyOf(view, rows')  BY GrowingCopies DEF LiveInv, CopiesOf
<1>2. ASSUME NEW a, AnswerOf(a, rows)  PROVE AnswerOf(a, rows')
  BY <1>2, GrowingCopies DEF AnswerOf
<1>3. LoadOf(load, rows')
  BY <1>2, GrowingCopies DEF LiveInv, CopiesOf, LoadOf, PageLoad
<1>4. OlderOf(older, rows')  BY <1>2 DEF LiveInv, CopiesOf, OlderOf
<1>5. \A row \in saved' : row.number \in DOMAIN rows' /\ row.version \in 1..rows'[row.number]
  <2>1. \A n \in DOMAIN rows : rows[n] \in Nat /\ rows'[n] \in Nat
    BY ElementOfSeq, LenProperties DEF RowsOK, Grows, Numbers
  <2> QED  BY <2>1 DEF LiveInv, CopiesOf, Grows
<1> QED  BY <1>1, <1>3, <1>4, <1>5 DEF LiveInv, CopiesOf, RowsOK

\* An older version never takes the place of a newer one.
LEMMA MergedCopies ==
  ASSUME RowsOK, NEW old, NEW items, CopyOf(old, rows), CopyOf(items, rows)
  PROVE  /\ CopyOf(Merged(old, items), rows)
         /\ \A n \in DOMAIN old : n \in DOMAIN Merged(old, items) /\ Merged(old, items)[n] >= old[n]
<1>1. \A n \in DOMAIN rows : rows[n] \in Nat
  BY ElementOfSeq, LenProperties DEF RowsOK, Numbers
<1>2. /\ \A n \in DOMAIN old : old[n] \in Nat
      /\ \A n \in DOMAIN items : items[n] \in Nat
  BY <1>1 DEF CopyOf
<1> QED  BY <1>1, <1>2 DEF CopyOf, Merged

LEMMA ServerCopies ==
  ASSUME RowsOK, NEW S \in SUBSET Numbers, NEW kept \in SUBSET S
  PROVE  AnswerOf(Items(S, kept), rows)
<1>1. \A n \in DOMAIN rows : rows[n] \in Nat /\ rows[n] > 0
  BY ElementOfSeq, LenProperties DEF RowsOK, Numbers
<1>2. CopyOf(Restrict(rows, kept), rows)
  BY <1>1 DEF CopyOf, Restrict, Numbers
<1> QED  BY <1>2 DEF AnswerOf, Items

LEMMA FirstRequest == LoadOf(PageRequest, rows)
  BY DEF LoadOf, PageLoad, PageRequest, EmptyView, CopyOf, AnswerOf

LEMMA RestartedCopies == Restarted => LoadOf(load', rows)
<1>1. RoomLoad([stage |-> "room", answer |-> None])  BY DEF RoomLoad
<1> QED  BY <1>1, FirstRequest DEF Restarted, LoadOf

LEMMA EmptyCopy == CopyOf(EmptyView, rows)
  BY DEF CopyOf, EmptyView

\* What a step of the tab has to show when the server's rows stay.
Stays ==
  /\ UNCHANGED rows
  /\ page.shown /\ page'.shown =>
       \A n \in DOMAIN view : n \in DOMAIN view' /\ view'[n] >= view[n]
  /\ CopiesOf(view', load', older', saved', rows)

LEMMA SameView ==
  ASSUME LiveInv, UNCHANGED view
  PROVE  CopyOf(view', rows) /\ \A n \in DOMAIN view : n \in DOMAIN view' /\ view'[n] >= view[n]
<1>1. \A n \in DOMAIN rows : rows[n] \in Nat
  BY ElementOfSeq, LenProperties DEF LiveInv, Numbers
<1> QED  BY <1>1 DEF LiveInv, CopiesOf, CopyOf

-----------------------------------------------------------------------------
(* Steps of the server.                                                       *)

LEMMA PeerSendsKeeps ==
  ASSUME LiveInv, PeerSends  PROVE LiveInv' /\ UNCHANGED view
<1>1. RowsOK' /\ Grows
  <2>1. rows \in Seq(Nat) /\ rows' = Append(rows, 1)  BY DEF LiveInv, PeerSends
  <2>2. /\ rows' \in Seq(Nat) /\ DOMAIN rows = 1..Len(rows) /\ DOMAIN rows' = 1..(Len(rows) + 1)
        /\ \A n \in 1..Len(rows) : rows'[n] = rows[n] /\ rows[n] \in Nat
        /\ rows'[Len(rows) + 1] = 1 /\ Len(rows) \in Nat
    BY <2>1, AppendProperties, LenProperties, ElementOfSeq
  <2> QED  BY <2>2 DEF RowsOK, Grows, LiveInv, Numbers
<1> QED  BY <1>1, GrowingRows DEF PeerSends, pageVars

LEMMA PeerEditsKeeps ==
  ASSUME LiveInv, NEW n \in Numbers, PeerEdits(n)  PROVE LiveInv' /\ UNCHANGED view
<1>1. RowsOK' /\ Grows
  <2>1. /\ rows \in Seq(Nat) /\ n \in 1..Len(rows) /\ DOMAIN rows = 1..Len(rows)
        /\ rows' = [rows EXCEPT ![n] = rows[n] + 1]
        /\ \A k \in 1..Len(rows) : rows[k] \in Nat
    BY LenProperties, ElementOfSeq DEF LiveInv, PeerEdits, Numbers
  <2>2. rows' \in Seq(Nat) /\ DOMAIN rows' = 1..Len(rows)
    BY <2>1, ExceptSeq
  <2> QED  BY <2>1, <2>2 DEF RowsOK, Grows, LiveInv, Numbers
<1> QED  BY <1>1, GrowingRows DEF PeerEdits, pageVars

LEMMA OwnKeeps ==
  ASSUME LiveInv, NEW n \in Nat, NEW version \in Nat, NEW kind, Own(n, version, kind),
         \/ n = Len(rows) + 1 /\ version = 1
         \/ n \in Numbers /\ version = rows[n] + 1
  PROVE  LiveInv' /\ UNCHANGED view
<1>1. /\ rows \in Seq(Nat) /\ DOMAIN rows = 1..Len(rows) /\ Len(rows) \in Nat
      /\ \A k \in 1..Len(rows) : rows[k] \in Nat /\ rows[k] > 0
      /\ rows' = IF n \in Numbers THEN [rows EXCEPT ![n] = version] ELSE Append(rows, version)
  BY LenProperties, ElementOfSeq DEF LiveInv, Own, Numbers
<1>2. ASSUME n \in Numbers  PROVE RowsOK' /\ Grows /\ n \in DOMAIN rows' /\ rows'[n] = version
  <2>1. rows' = [rows EXCEPT ![n] = version] /\ n \in 1..Len(rows)  BY <1>1, <1>2 DEF Numbers
  <2>2. rows' \in Seq(Nat) /\ DOMAIN rows' = 1..Len(rows)  BY <1>1, <2>1, ExceptSeq
  <2> QED  BY <1>1, <1>2, <2>1, <2>2 DEF RowsOK, Grows, Numbers
<1>3. ASSUME n \notin Numbers  PROVE RowsOK' /\ Grows /\ n \in DOMAIN rows' /\ rows'[n] = version
  <2>1. rows' = Append(rows, version) /\ version = 1 /\ n = Len(rows) + 1  BY <1>1, <1>3
  <2>2. rows \in Seq(Nat) /\ rows' = Append(rows, 1)  BY <1>1, <2>1
  <2>3. /\ rows' \in Seq(Nat) /\ DOMAIN rows' = 1..(Len(rows) + 1)
        /\ \A k \in 1..Len(rows) : rows'[k] = rows[k]
        /\ rows'[Len(rows) + 1] = 1
    BY <2>2, AppendProperties, LenProperties
  <2>4. n \in DOMAIN rows' /\ rows'[n] = version
    <3>1. Len(rows) + 1 \in 1..(Len(rows) + 1)  BY <1>1
    <3>2. n = Len(rows) + 1 /\ version = 1  BY <2>1
    <3> QED  BY <2>3, <3>1, <3>2
  <2>5. \A k \in DOMAIN rows' : rows'[k] > 0
    <3> SUFFICES ASSUME NEW k \in 1..(Len(rows) + 1)  PROVE rows'[k] > 0  BY <2>3
    <3>1. k \in 1..Len(rows) \/ k = Len(rows) + 1  BY <1>1
    <3> QED  BY <3>1, <1>1, <2>3
  <2>6. Grows
    <3>1. DOMAIN rows \subseteq DOMAIN rows'  BY <1>1, <2>3
    <3>2. \A k \in DOMAIN rows : rows[k] <= rows'[k]  BY <1>1, <2>3
    <3> QED  BY <3>1, <3>2 DEF Grows
  <2> QED  BY <2>3, <2>4, <2>5, <2>6 DEF RowsOK, Numbers
<1>7. \A row \in saved' : row \in saved \/ (row.number \in DOMAIN rows' /\ row.version \in 1..rows'[row.number])
  <2>1. saved' = saved \cup {[number |-> n, version |-> version, kind |-> kind]}  BY DEF Own
  <2>2. n \in DOMAIN rows' /\ version \in 1..rows'[n]  BY <1>1, <1>2, <1>3 DEF Numbers
  <2> QED  BY <2>1, <2>2
<1> QED  BY <1>2, <1>3, <1>7, GrowingRows DEF Own

LEMMA ServerKeeps == ASSUME LiveInv, ServerChanges  PROVE LiveInv' /\ UNCHANGED view
<1>0. /\ rows \in Seq(Nat) /\ DOMAIN rows = 1..Len(rows) /\ Len(rows) \in Nat
      /\ \A k \in 1..Len(rows) : rows[k] \in Nat
      /\ \A n \in DOMAIN view : n \in Numbers
  BY LenProperties, ElementOfSeq DEF LiveInv, CopiesOf, CopyOf, Numbers
<1>1. CASE PeerSends  BY <1>1, PeerSendsKeeps
<1>2. CASE LinkChanges \/ SessionOver
  BY <1>2 DEF LinkChanges, SessionOver, pageVars, LiveInv, Numbers
<1>3. CASE OwnSends("sent") \/ OwnPoll
  BY <1>0, <1>3, OwnKeeps DEF OwnPoll, OwnSends
<1>4. CASE \E n \in Numbers : PeerEdits(n)  BY <1>4, PeerEditsKeeps
<1>5. CASE \E n \in Numbers : OwnEdits(n) \/ OwnVotes(n)
  BY <1>0, <1>5, OwnKeeps DEF OwnEdits, OwnVotes, Numbers
<1> QED  BY <1>1, <1>2, <1>3, <1>4, <1>5 DEF ServerChanges

-----------------------------------------------------------------------------
(* Steps of the tab.                                                          *)

LEMMA LoadingKeeps == ASSUME LiveInv, Loading  PROVE Stays
<1>0. RowsOK /\ CopyOf(view, rows) /\ LoadOf(load, rows)  BY DEF LiveInv, RowsOK, CopiesOf
<1>1. CASE LoadAnswered
  <2>1. ASSUME NEW a  PROVE AnswerOf(Newest, rows) /\ AnswerOf(After(a), rows)
    <3>1. \A S \in SUBSET Numbers : First(S) \subseteq S /\ Last(S) \subseteq S
      BY DEF First, Last
    <3> QED  BY <1>0, <3>1, ServerCopies DEF Newest, After
  <2>2. LoadOf(load', rows)
    <3>1. CASE RoomLoad(load)  BY <1>1, <3>1 DEF LoadAnswered, LoadOf, RoomLoad
    <3>2. CASE PageLoad(load, rows)
      BY <1>1, <2>1, <3>2 DEF LoadAnswered, LoadOf, PageLoad
    <3>3. CASE ReadLoad(load)  BY <1>1, <3>3 DEF LoadAnswered, LoadOf, ReadLoad
    <3> QED  BY <1>0, <1>1, <3>1, <3>2, <3>3 DEF LoadAnswered, LoadOf
  <2> QED  BY <1>1, <2>2, SameView DEF LoadAnswered, Stays, LiveInv, CopiesOf, serverVars
<1>2. CASE RoomReceived
  BY <1>2, FirstRequest, SameView DEF RoomReceived, LoadOf, Stays, LiveInv, CopiesOf, serverVars
<1>3. CASE PageReceived
  <2>1. PageLoad(load, rows) /\ CopyOf(load.answer.items, rows)
    BY <1>0, <1>3 DEF PageReceived, Received, LoadOf, RoomLoad, ReadLoad, PageLoad, NoRequest, AnswerOf
  <2> DEFINE items == Merged(load.got, load.answer.items)
  <2>2. CopyOf(items, rows)  BY <1>0, <2>1, MergedCopies DEF PageLoad
  <2> HIDE DEF items
  <2>3. CASE NextPage(items)
    <3>1. LoadOf(load', rows)  BY <2>1, <2>2, <2>3 DEF NextPage, LoadOf, PageLoad, AnswerOf
    <3> QED  BY <1>3, <2>3, <3>1, SameView
      DEF PageReceived, NextPage, Stays, LiveInv, CopiesOf, serverVars
  <2>4. ASSUME NEW hasOlder, Loaded(items, hasOlder)  PROVE Stays
    <3>1. view' = Merged(view, items)  BY <2>4 DEF Loaded
    <3>2. load' = NoRequest \/ ReadLoad(load')  BY <2>4 DEF Loaded, ReadLoad
    <3> QED  BY <1>0, <1>3, <2>2, <3>1, <3>2, MergedCopies
      DEF PageReceived, Stays, LiveInv, CopiesOf, LoadOf, serverVars
  <2> QED  BY <1>3, <2>3, <2>4 DEF PageReceived, items
<1>4. CASE LoadDenied
  BY <1>4, EmptyCopy DEF LoadDenied, Clear, Stays, Blank, LiveInv, CopiesOf, LoadOf, serverVars
<1> QED  BY <1>1, <1>2, <1>3, <1>4 DEF Loading

LEMMA AnsweringKeeps == ASSUME LiveInv, Answering  PROVE Stays
<1>0. RowsOK /\ CopyOf(view, rows) /\ OlderOf(older, rows)  BY DEF LiveInv, RowsOK, CopiesOf
<1>1. CASE OlderAnswered
  <2>1. AnswerOf(Before(older.before), rows)
    <3>1. \A S \in SUBSET Numbers : Last(S) \subseteq S  BY DEF Last
    <3> QED  BY <1>0, <3>1, ServerCopies DEF Before
  <2>2. OlderOf(older', rows)  BY <1>0, <1>1, <2>1 DEF OlderAnswered, OlderOf
  <2> QED  BY <1>1, <2>2, SameView DEF OlderAnswered, Stays, LiveInv, CopiesOf, serverVars
<1>2. CASE OlderReceived
  <2>1. CASE older.answer = Denied
    BY <1>2, <2>1, SameView DEF OlderReceived, Stays, LiveInv, CopiesOf, OlderOf, serverVars
  <2>2. CASE older.answer # Denied
    <3>1. CopyOf(older.answer.items, rows)
      BY <1>0, <1>2, <2>2 DEF OlderReceived, OlderOf, AnswerOf
    <3>2. view' = Merged(view, older.answer.items)  BY <1>2, <2>2 DEF OlderReceived
    <3> QED  BY <1>0, <1>2, <3>1, <3>2, MergedCopies
      DEF OlderReceived, Stays, LiveInv, CopiesOf, OlderOf, serverVars
  <2> QED  BY <2>1, <2>2
<1>3. ASSUME NEW row \in saved, SavedReceived(row)  PROVE Stays
  <2>1. CopyOf([n \in {row.number} |-> row.version], rows)
    BY DEF LiveInv, CopiesOf, CopyOf
  <2>2. /\ CopyOf(view', rows)
        /\ \A n \in DOMAIN view : n \in DOMAIN view' /\ view'[n] >= view[n]
    <3>1. CASE UNCHANGED view  BY <3>1, SameView
    <3>2. CASE view' = Merged(view, [n \in {row.number} |-> row.version])
      BY <1>0, <2>1, <3>2, MergedCopies
    <3> QED  BY <1>3, <3>1, <3>2 DEF SavedReceived
  <2>3. LoadOf(load', rows)
    BY <1>3, RestartedCopies DEF SavedReceived, LiveInv, CopiesOf
  <2> QED  BY <1>3, <2>2, <2>3 DEF SavedReceived, Stays, LiveInv, CopiesOf, serverVars
<1> QED  BY <1>1, <1>2, <1>3 DEF Answering

\* The provider of updates starts loads and takes the screen of an ended session away.
LEMMA SyncingKeeps ==
  ASSUME LiveInv, Syncing \/ Expired \/ LoadFails \/ AskOlder \/ OlderFails
  PROVE  Stays
<1>1. CASE Syncing
  <2>1. LoadOf(load', rows)
    BY <1>1, RestartedCopies DEF Syncing, TimerFires, CountReceived, Syncs, LiveInv, CopiesOf
  <2> QED  BY <1>1, <2>1, SameView
    DEF Syncing, TimerFires, CountReceived, Stays, LiveInv, CopiesOf, serverVars
<1>2. CASE Expired
  BY <1>2, EmptyCopy DEF Expired, Stays, Blank, CopiesOf, LoadOf, OlderOf, serverVars
<1>3. CASE LoadFails
  BY <1>3, EmptyCopy, SameView
  DEF LoadFails, Clear, Stays, Blank, LiveInv, CopiesOf, LoadOf, serverVars
<1>4. CASE AskOlder
  <2>1. OlderOf(older', rows)  BY <1>4 DEF AskOlder, OlderOf, AnswerOf
  <2> QED  BY <1>4, <2>1, SameView DEF AskOlder, Stays, LiveInv, CopiesOf, serverVars
<1>5. CASE OlderFails
  BY <1>5, SameView DEF OlderFails, Stays, LiveInv, CopiesOf, OlderOf, serverVars
<1> QED  BY <1>1, <1>2, <1>3, <1>4, <1>5

LEMMA ScreenStep ==
  ASSUME LiveInv, [LiveNext]_liveVars
  PROVE  /\ LiveInv'
         /\ page.shown /\ page'.shown =>
              \A n \in DOMAIN view : n \in DOMAIN view' /\ view'[n] >= view[n]
<1>1. CASE ServerChanges  BY <1>1, ServerKeeps, SameView
<1>2. ASSUME Stays
      PROVE  /\ LiveInv'
             /\ page.shown /\ page'.shown =>
                  \A n \in DOMAIN view : n \in DOMAIN view' /\ view'[n] >= view[n]
  BY <1>2 DEF Stays, LiveInv, Numbers
<1>3. CASE Loading \/ Answering \/ Syncing \/ Expired \/ LoadFails \/ AskOlder \/ OlderFails
  BY <1>2, <1>3, LoadingKeeps, AnsweringKeeps, SyncingKeeps
<1>4. CASE UNCHANGED <<rows, pageVars>>
  BY <1>2, <1>4, SameView DEF Stays, pageVars, LiveInv, CopiesOf
<1>5. CASE \/ Tick \/ Deliver \/ ListenerLost \/ ListenerBack \/ StreamBreaks \/ StreamOpens
           \/ StreamRefused \/ CountFails \/ Focus \/ Hide \/ UNCHANGED liveVars
  BY <1>4, <1>5 DEF Tick, Deliver, ListenerLost, ListenerBack, StreamBreaks, StreamOpens,
    StreamRefused, CountFails, Focus, Hide, liveVars, serverVars
<1> QED  BY <1>1, <1>3, <1>5 DEF LiveNext, Streaming

LEMMA ScreenInit == LiveInit => LiveInv
<1> SUFFICES ASSUME LiveInit  PROVE LiveInv  OBVIOUS
<1>1. RowsOK
  <2>1. PICK k \in 0..MaxRows : rows = [n \in 1..k |-> 1]  BY DEF LiveInit
  <2>2. k \in Nat  BY LiveAssumption
  <2>3. rows \in [1..k -> Nat]  BY <2>1
  <2>4. rows \in Seq(Nat)  BY <2>2, <2>3, SeqDef
  <2> QED  BY <2>1, <2>4 DEF RowsOK, Numbers
<1>2. LoadOf(load, rows)
  BY FirstRequest DEF LiveInit, LoadOf, RoomLoad
<1> QED  BY <1>1, <1>2, EmptyCopy DEF LiveInit, LiveInv, RowsOK, CopiesOf, OlderOf

\* Whatever is shown, or on its way to the tab, is a version the server has or had:
\* nothing on a screen is ahead of the rows.
THEOREM NothingInvented == LiveSpec => []LiveInv
<1>1. LiveInit => LiveInv  BY ScreenInit
<1>2. LiveInv /\ [LiveNext]_liveVars => LiveInv'  BY ScreenStep
<1> QED  BY <1>1, <1>2, PTL DEF LiveSpec

\* While messages are shown none goes back to an older version or disappears, for
\* any number of messages, whatever is lost or late (mergeMessages).
THEOREM NothingBack == LiveSpec => NothingGoesBack
<1>1. LiveInv /\ [LiveNext]_liveVars =>
        [page.shown /\ page'.shown =>
           \A n \in DOMAIN view : n \in DOMAIN view' /\ view'[n] >= view[n]]_liveVars
  BY ScreenStep
<1> QED  BY <1>1, NothingInvented, PTL DEF LiveSpec, NothingGoesBack
=============================================================================
