----------------------------- MODULE LiveUpdates -----------------------------
(* One tab that shows a conversation of two people, or the chat of a house:   *)
(* the messages on the server, the signals that something changed, which      *)
(* carry nothing and may be lost, and the tab, which fetches everything anew  *)
(* when one arrives.  Requests are sent, answered and received in steps of    *)
(* their own; the tab may have moved on meanwhile.  A message is its number   *)
(* and version: an edit, a vote or its deletion makes the next version.       *)
EXTENDS Absent, Integers, Sequences, FiniteSets, FiniteSetsExt, Functions

CONSTANTS
  Mine,         \* the numbers of messages that this tab's user sends
  PageSize,     \* messages in an answer
  MaxRows,      \* bound on the messages
  MaxChanges,   \* bound on what people do
  MaxFaults     \* bound on lost requests and connections

ASSUME LiveAssumption ==
  /\ MaxRows \in Nat /\ Mine \subseteq 1..MaxRows
  /\ PageSize \in Nat \ {0} /\ MaxChanges \in Nat /\ MaxFaults \in Nat

VARIABLES
  screen,    \* "thread" of two people, or chat of a "house"
  rows,      \* rows[n]: version of message n
  access,    \* the user may see them: no block, or a member of the house
  usable,    \* the session of this tab
  marker,    \* the user's read marker
  listening, \* the server hears NOTIFY
  stream,    \* the tab's EventSource: "open", "broken", "dead" (given up), "ended"
  signal,    \* an event waits to be delivered
  visible,   \* document.visibilityState
  timer,     \* a sync is scheduled
  again,     \* pending: a sync was asked for meanwhile
  counting,  \* running: the unread counters are being fetched
  view,      \* messages on the screen: view[n] is a version
  page,      \* loaded, shown, oldest (number) and hasOlder
  load,      \* the request of load() that is under way
  older,     \* the request of older()
  saved,     \* answers to what the user wrote, edited or voted, on their way
  spent      \* changes and faults so far

serverVars == <<rows, access, usable, marker, listening>>
syncVars == <<visible, timer, again, counting>>
pageVars == <<view, page, load, older, saved>>
liveVars == <<screen, serverVars, stream, signal, syncVars, pageVars, spent>>

NoRequest == [stage |-> "none"]
Denied == [denied |-> TRUE]
Blank == [loaded |-> FALSE, shown |-> FALSE, oldest |-> 0, hasOlder |-> FALSE]
EmptyView == [n \in {} |-> 0]

Numbers == DOMAIN rows
Allowed == access /\ usable

\* mergeMessages(): what arrives late does not replace what is newer.
Faulty_Merged(old, items) ==
  [n \in DOMAIN old \cup DOMAIN items |-> IF n \in DOMAIN items THEN items[n] ELSE old[n]]
Merged(old, items) ==
  [n \in DOMAIN old \cup DOMAIN items |->
     IF n \in DOMAIN items /\ (n \notin DOMAIN old \/ items[n] >= old[n])
     THEN items[n] ELSE old[n]]

\* messages(): the last messages, those before a number, or those after it.
First(S) == {n \in S : Cardinality({m \in S : m < n}) < PageSize}
Last(S) == {n \in S : Cardinality({m \in S : m > n}) < PageSize}
Items(S, kept) ==
  IF Allowed THEN [items |-> Restrict(rows, kept), more |-> kept # S] ELSE Denied
Newest == Items(Numbers, Last(Numbers))
Before(k) == LET S == {n \in Numbers : n < k} IN Items(S, Last(S))
After(k) == LET S == {n \in Numbers : n > k} IN Items(S, First(S))

Change == spent.changes < MaxChanges /\ spent' = [spent EXCEPT !.changes = @ + 1]
Fault == spent.faults < MaxFaults /\ spent' = [spent EXCEPT !.faults = @ + 1]

\* pg_notify() reaches the streams of servers that listen.  An event behind
\* another one would find nothing else to do.
Signal == signal' = (signal \/ (listening /\ stream = "open"))

-----------------------------------------------------------------------------
(* What happens on the server.                                                *)

PeerSends ==
  /\ Change /\ Signal
  /\ access /\ Len(rows) < MaxRows /\ Len(rows) + 1 \notin Mine
  /\ rows' = Append(rows, 1)
  /\ UNCHANGED <<screen, access, usable, marker, listening, stream, syncVars, pageVars>>

\* Somebody else edits or deletes a message, votes, or closes a poll.
PeerEdits(n) ==
  /\ Change /\ Signal
  /\ access /\ (n \notin Mine \/ screen = "house")
  /\ rows' = [rows EXCEPT ![n] = @ + 1]
  /\ UNCHANGED <<screen, access, usable, marker, listening, stream, syncVars, pageVars>>

\* A block or a new connection after it; the user leaves the house or is back.
LinkChanges ==
  /\ Change /\ Signal
  /\ access' = ~access
  /\ UNCHANGED <<screen, rows, usable, marker, listening, stream, syncVars, pageVars>>

\* The session is revoked, or expires, which nobody signals.
SessionOver ==
  /\ Change
  /\ usable /\ usable' = FALSE
  /\ UNCHANGED <<screen, rows, access, marker, listening, stream, signal, syncVars, pageVars>>

\* The user sends, edits or votes: the answer is on its way.
Own(n, version, kind) ==
  /\ Change /\ Signal
  /\ Allowed /\ stream # "ended" /\ page.shown
  /\ rows' = IF n \in Numbers THEN [rows EXCEPT ![n] = version] ELSE Append(rows, version)
  /\ saved' = saved \cup {[number |-> n, version |-> version, kind |-> kind]}
  /\ UNCHANGED <<screen, access, usable, marker, listening, stream, syncVars, view, page, load,
                 older>>
OwnSends(kind) ==
  Len(rows) < MaxRows /\ Len(rows) + 1 \in Mine /\ Own(Len(rows) + 1, 1, kind)
OwnPoll == screen = "house" /\ OwnSends("voted")
OwnEdits(n) == n \in Mine \cap DOMAIN view /\ view[n] = rows[n] /\ Own(n, rows[n] + 1, "changed")
OwnVotes(n) == n \in DOMAIN view /\ screen = "house" /\ Own(n, rows[n] + 1, "voted")

\* The server loses the connection it listens on, and three seconds later has another.
ListenerLost ==
  /\ Fault
  /\ listening /\ listening' = FALSE
  /\ UNCHANGED <<screen, rows, access, usable, marker, stream, signal, syncVars, pageVars>>
ListenerBack ==
  /\ ~listening /\ listening' = TRUE
  /\ UNCHANGED <<screen, rows, access, usable, marker, stream, signal, syncVars, pageVars, spent>>

-----------------------------------------------------------------------------
(* load()                                                                     *)

\* In a house the first page is asked for as long as none has come.
PageRequest ==
  [stage |-> "page", answer |-> None, got |-> EmptyView, after |-> Max({0, page.oldest - 1}),
   first |-> IF screen = "house" THEN page.oldest = 0 ELSE ~page.loaded]

\* Each revision aborts the load before it and starts another, in a thread with
\* the conversation itself.
Restarted ==
  load' = IF screen = "house" THEN PageRequest ELSE [stage |-> "room", answer |-> None]

\* "Permission may have changed after a block: remove private data from view."
Clear ==
  /\ view' = EmptyView /\ page' = [Blank EXCEPT !.hasOlder = page.hasOlder]
  /\ load' = NoRequest

\* A read marker (Contacts) is signalled, too.
LoadAnswered ==
  /\ load # NoRequest /\ load.answer = None
  /\ load' = [load EXCEPT !.answer =
       IF load.stage = "page" THEN (IF load.first THEN Newest ELSE After(load.after))
       ELSE IF Allowed THEN [denied |-> FALSE] ELSE Denied]
  /\ IF load.stage = "read" /\ Allowed THEN marker' = load.number /\ Signal
     ELSE UNCHANGED <<marker, signal>>
  /\ UNCHANGED <<screen, rows, access, usable, listening, stream, syncVars, view, page, older,
                 saved, spent>>

Received(stage) == load.stage = stage /\ load.answer \notin {None, Denied}

RoomReceived ==
  /\ \/ Received("room") /\ load' = PageRequest
     \/ Received("read") /\ load' = NoRequest
  /\ UNCHANGED <<screen, serverVars, stream, signal, syncVars, view, page, older, saved, spent>>

\* Pages follow up to the newest, unless this is the first load.
NextPage(items) ==
  /\ load' = [load EXCEPT !.answer = None, !.got = items, !.after = Max(DOMAIN items)]
  /\ UNCHANGED <<view, page>>

\* All pages are there.  What a thread in view shows is to be marked as read, which
\* may be refused.
Loaded(items, hasOlder) ==
  LET got == DOMAIN items IN
  /\ view' = Merged(view, items)
  /\ page' = [loaded |-> TRUE, shown |-> TRUE, hasOlder |-> hasOlder,
              oldest |-> IF got = {} THEN page.oldest ELSE Min(got \cup ({page.oldest} \ {0}))]
  /\ load' = IF visible /\ screen = "thread" /\ Max(got \cup {0}) > marker
             THEN [stage |-> "read", number |-> Max(got), answer |-> None] ELSE NoRequest

PageReceived ==
  /\ Received("page")
  /\ LET items == Merged(load.got, load.answer.items) IN
     IF load.answer.more /\ ~load.first THEN NextPage(items)
     ELSE Loaded(items, IF load.first THEN load.answer.more ELSE page.hasOlder)
  /\ UNCHANGED <<screen, serverVars, stream, signal, syncVars, older, saved, spent>>

LoadDenied ==
  /\ load # NoRequest /\ load.answer = Denied
  /\ Clear
  /\ UNCHANGED <<screen, serverVars, stream, signal, syncVars, older, saved, spent>>

\* Any failure clears the chat of a house, which asks to try again.
LoadFails ==
  /\ Fault
  /\ load # NoRequest
  /\ IF screen = "house" THEN Clear ELSE load' = NoRequest /\ UNCHANGED <<view, page>>
  /\ UNCHANGED <<screen, serverVars, stream, signal, syncVars, older, saved>>

-----------------------------------------------------------------------------
(* older(), which nothing aborts, and the answers to what the user did.       *)

AskOlder ==
  /\ stream # "ended" /\ page.shown /\ page.hasOlder
  /\ older = NoRequest /\ DOMAIN view # {}
  /\ older' = [stage |-> "page", before |-> Min(DOMAIN view), answer |-> None]
  /\ UNCHANGED <<screen, serverVars, stream, signal, syncVars, view, page, load, saved, spent>>

OlderAnswered ==
  /\ older # NoRequest /\ older.answer = None
  /\ older' = [older EXCEPT !.answer = Before(older.before)]
  /\ UNCHANGED <<screen, serverVars, stream, signal, syncVars, view, page, load, saved, spent>>

\* The chat of a house is shown as soon as it has something to show.
OlderReceived ==
  /\ older # NoRequest /\ older.answer # None
  /\ older' = NoRequest
  /\ IF older.answer = Denied THEN UNCHANGED <<view, page>>
     ELSE LET items == older.answer.items IN
          /\ view' = Merged(view, items)
          /\ page' = [page EXCEPT
               !.shown = @ \/ screen = "house",
               !.oldest = IF DOMAIN items = {} THEN @ ELSE Min(DOMAIN items),
               !.hasOlder = older.answer.more]
  /\ UNCHANGED <<screen, serverVars, stream, signal, syncVars, load, saved, spent>>

OlderFails ==
  /\ Fault
  /\ older # NoRequest /\ older' = NoRequest
  /\ UNCHANGED <<screen, serverVars, stream, signal, syncVars, view, page, load, saved>>

\* A vote or a new poll does not load anew; an edit in a house only does that.
SavedReceived(row) ==
  /\ row \in saved /\ saved' = saved \ {row}
  /\ IF screen = "house" /\ row.kind = "changed" THEN UNCHANGED <<view, page>>
     ELSE /\ view' = Merged(view, [n \in {row.number} |-> row.version])
          /\ page' = [page EXCEPT !.shown = @ \/ screen = "house"]
  /\ IF row.kind = "voted" THEN UNCHANGED load ELSE Restarted
  /\ UNCHANGED <<screen, serverVars, stream, signal, syncVars, older, spent>>

-----------------------------------------------------------------------------
(* The provider of updates, shared by all screens of the tab.                 *)

ScheduleSync ==
  IF visible' THEN timer' = TRUE /\ UNCHANGED again ELSE again' = TRUE /\ UNCHANGED timer

\* A sync starts a new revision, and fetches the counters.
Syncs == again' = FALSE /\ counting' = TRUE /\ Restarted

\* sync(), while hidden, while another one runs, or now.
TimerFires ==
  /\ timer /\ timer' = FALSE
  /\ IF visible /\ ~counting THEN Syncs ELSE again' = TRUE /\ UNCHANGED <<counting, load>>
  /\ UNCHANGED <<screen, serverVars, stream, signal, visible, view, page, older, saved, spent>>

CountReceived ==
  /\ counting
  /\ IF usable /\ again /\ visible THEN Syncs ELSE counting' = FALSE /\ UNCHANGED <<again, load>>
  /\ UNCHANGED <<screen, serverVars, stream, signal, visible, timer, view, page, older, saved, spent>>

CountFails ==
  /\ Fault
  /\ counting /\ counting' = FALSE
  /\ UNCHANGED <<screen, serverVars, stream, signal, visible, timer, again, pageVars>>

\* The tab, or its window, comes back into view; going out of view is a change.
Focus ==
  /\ IF visible THEN Change ELSE UNCHANGED spent
  /\ stream # "ended"
  /\ visible' = TRUE /\ ScheduleSync
  /\ UNCHANGED <<screen, serverVars, stream, signal, counting, pageVars>>

Hide ==
  /\ Change
  /\ visible /\ visible' = FALSE
  /\ UNCHANGED <<screen, serverVars, stream, signal, timer, again, counting, pageVars>>

-----------------------------------------------------------------------------
(* The stream.                                                                *)

\* A load is over before the next repair: its requests end within eight seconds.
AtRest == ~signal /\ ~timer /\ ~counting /\ load = NoRequest

\* Every third tick repairs what was lost, and each checks the session.
Faulty_Repairs == FALSE
Repairs == AtRest
Tick ==
  /\ stream = "open" /\ ~signal
  /\ Repairs \/ ~usable
  /\ signal' = TRUE
  /\ UNCHANGED <<screen, serverVars, stream, syncVars, pageVars, spent>>

Deliver ==
  /\ stream = "open" /\ signal /\ usable
  /\ signal' = FALSE
  /\ visible' = visible /\ ScheduleSync
  /\ UNCHANGED <<screen, serverVars, stream, counting, pageVars, spent>>

\* "expired" signs the tab out: its screens go.
Expired ==
  /\ stream = "open" /\ signal /\ ~usable
  /\ stream' = "ended" /\ signal' = FALSE
  /\ timer' = FALSE /\ again' = FALSE /\ counting' = FALSE
  /\ view' = EmptyView /\ page' = Blank
  /\ load' = NoRequest /\ older' = NoRequest /\ saved' = {}
  /\ UNCHANGED <<screen, serverVars, visible, spent>>

StreamBreaks ==
  /\ Fault
  /\ stream = "open" /\ stream' = "broken" /\ signal' = FALSE
  /\ UNCHANGED <<screen, serverVars, syncVars, pageVars>>

\* The browser tries again; the first tick comes at once.
StreamOpens ==
  /\ stream = "broken" /\ usable
  /\ stream' = "open" /\ signal' = TRUE
  /\ visible' = visible /\ ScheduleSync
  /\ UNCHANGED <<screen, serverVars, counting, pageVars, spent>>

\* An answer that is no stream (401, or 502 while the server restarts) is final.
StreamRefused ==
  /\ stream = "broken" /\ stream' = "dead"
  /\ IF usable THEN Fault ELSE UNCHANGED spent
  /\ UNCHANGED <<screen, serverVars, signal, syncVars, pageVars>>

-----------------------------------------------------------------------------
\* The screen is opened, also by an old link, with some messages on the server.
LiveInit ==
  /\ screen \in {"thread", "house"}
  /\ \E k \in 0..MaxRows : rows = [n \in 1..k |-> 1]
  /\ access \in BOOLEAN /\ usable = TRUE /\ marker = 0 /\ listening = TRUE
  /\ stream = "broken" /\ signal = FALSE
  /\ visible = TRUE /\ timer = FALSE /\ again = FALSE /\ counting = FALSE
  /\ view = EmptyView /\ page = Blank /\ older = NoRequest /\ saved = {}
  /\ load = IF screen = "house" THEN PageRequest ELSE [stage |-> "room", answer |-> None]
  /\ spent = [changes |-> 0, faults |-> 0]

ServerChanges ==
  \/ PeerSends \/ LinkChanges \/ SessionOver \/ OwnSends("sent") \/ OwnPoll
  \/ \E n \in Numbers : PeerEdits(n) \/ OwnEdits(n) \/ OwnVotes(n)

Loading == LoadAnswered \/ RoomReceived \/ PageReceived \/ LoadDenied
Answering == OlderAnswered \/ OlderReceived \/ \E row \in saved : SavedReceived(row)
Syncing == TimerFires \/ CountReceived
Streaming == Tick \/ Deliver \/ Expired

LiveNext ==
  \/ ServerChanges \/ Loading \/ Answering \/ Syncing \/ Streaming
  \/ ListenerLost \/ ListenerBack \/ StreamBreaks \/ StreamOpens \/ StreamRefused
  \/ LoadFails \/ OlderFails \/ CountFails \/ AskOlder \/ Focus \/ Hide

\* Requests are answered or given up, timers fire, and the server listens again.
LiveFairness ==
  /\ WF_liveVars(Loading) /\ WF_liveVars(Answering) /\ WF_liveVars(Syncing)
  /\ WF_liveVars(Streaming) /\ WF_liveVars(ListenerBack)
  /\ WF_liveVars(StreamOpens \/ StreamRefused)

LiveSpec == LiveInit /\ [][LiveNext]_liveVars /\ LiveFairness

-----------------------------------------------------------------------------
(* Properties.                                                                *)

\* What the server says now: every message from the oldest one loaded, in its last
\* version; or nothing, without access or session.  The answer to a vote may put an
\* older message into a list that was cleared meanwhile: no load refreshes that one.
ShownIsTrue ==
  IF Allowed
  THEN /\ page.shown
       /\ \A n \in Numbers : n >= page.oldest => n \in DOMAIN view /\ view[n] = rows[n]
  ELSE ~page.shown

\* A tab in view, whose stream has not been given up, ends up showing what is true,
\* whatever signals, answers and connections were lost or came late ("Periodic sync
\* also repairs a missed NOTIFY", UpdatesService.stream; "remove private data from view").
ScreenCatchesUp ==
  <>[](visible /\ stream # "dead") => <>[]ShownIsTrue

\* While the messages are shown none goes back to an older version or disappears, in
\* whatever order answers arrive (mergeMessages).
NothingGoesBack ==
  [][page.shown /\ page'.shown =>
       \A n \in DOMAIN view : n \in DOMAIN view' /\ view'[n] >= view[n]]_liveVars
=============================================================================
