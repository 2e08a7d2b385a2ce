---------------------------- MODULE CostSharing ----------------------------
(* How one house agrees on the way it shares the costs of one category: each  *)
(* month a period in which the members vote, and DEFAULT periods whose        *)
(* agreed rule a month falls back on.                                         *)
(*                                                                            *)
(* Every operation takes the row of the house, so a step is a transaction.    *)
(* What is not serialised: members come and go between the steps, requests    *)
(* name the round their client last saw, deadlines pass, and the scheduler    *)
(* works with the time at which its run began.                                *)
(*                                                                            *)
(* Time is counted in half months.  Limits of 100 rounds and members are left *)
(* out.                                                                       *)
EXTENDS HouseRoster

CONSTANTS
  Home,         \* the house
  Weights,      \* WEIGHTED shares that somebody may propose
  DefaultIds,   \* DEFAULT periods
  Days,         \* bound: deadlineDay, in half months
  MaxTime,      \* bound on the clock
  MaxRounds,    \* bound on the rounds of a period
  MaxVoteVersion \* bound on the times a vote is changed

ASSUME SharingAssumption ==
  /\ Home \in Houses /\ Days \subseteq {1, 2} /\ 1 \in Days
  /\ MaxTime \in Nat /\ MaxRounds \in Nat /\ MaxVoteVersion \in Nat

VARIABLES
  sharing,  \* cost_sharing_settings: enabled, deadlineDay
  period,   \* cost_sharing_periods with the latest of their rounds
  clock,    \* now
  assent,   \* history: what the voters of the current round of a period agree to
  pledges   \* history: what those who decided a round had agreed to

sharingVars == <<sharing, period, clock, assent, pledges>>

Settings == [enabled : BOOLEAN, day : Days]
Months == 0..(MaxTime \div 2)
Month(t) == t \div 2
Monthly == {<<"MONTHLY", m>> : m \in Months}
Defaults == {<<"DEFAULT", d>> : d \in DefaultIds}
Periods == Monthly \cup Defaults
Kind(p) == p[1]

EqualParts == "EQUAL"
Rules == {EqualParts} \cup Weights
Options(phase) == IF phase = "PREFERENCE" THEN {"EQUAL", "WEIGHTED"} ELSE {"AGREE", "REJECT"}

\* sharingHash: who the members are and since when.
Present == {<<u, joins[Home][u]>> : u \in active[Home]}

MayShare(u) == IsOpen(Home) /\ u \in active[Home]
Owns(u) == MayShare(u) /\ owner[Home] = u

NoVotes == [u \in People |-> None]

\* The first round and each reopened one ask for a preference among the members
\* there are.
FreshRound(n) ==
  [number |-> n, phase |-> "PREFERENCE", status |-> "OPEN", hash |-> Present,
   rule |-> None, votes |-> NoVotes]

Open(p) == period[p] # None /\ period[p].status = "OPEN"

(* ------------------------ Passing of a deadline -------------------------- *)

\* The rule of the DEFAULT period behaves as long as its members do.
FallsBack(p, row) ==
  /\ Kind(p) = "MONTHLY"
  /\ row.fallback # None
  /\ row.fallback.hash = Present

PastDeadline(row, t) == row.deadline <= t

\* refresh, of an OPEN period: the members changed, or its deadline has passed.
Refreshed(p, row, t) ==
  IF row.status # "OPEN" THEN row
  ELSE IF row.round.hash # Present THEN [row EXCEPT !.status = "NEEDS_REVIEW"]
  ELSE IF ~PastDeadline(row, t) THEN row
  ELSE LET outcome == IF FallsBack(p, row) THEN "FALLBACK" ELSE "UNRESOLVED"
       IN  [row EXCEPT
              !.status = outcome,
              !.round.status = outcome,
              !.result = IF FallsBack(p, row) THEN row.fallback ELSE @,
              !.decided = t]

(* ---------------------------- Opening a period --------------------------- *)

\* The agreed DEFAULT rules of exactly these members, decided before t.
Candidates(t) ==
  {d \in Defaults : /\ period[d] # None
                    /\ period[d].status = "AGREED"
                    /\ period[d].result.hash = Present
                    /\ period[d].decided <= t}

\* The latest of them.
Fallbacks(t) ==
  IF Candidates(t) = {} THEN {None}
  ELSE {period[d].result : d \in
          {c \in Candidates(t) : \A e \in Candidates(t) : period[e].decided <= period[c].decided}}

NewPeriod(deadline, fallback) ==
  [status |-> "OPEN", deadline |-> deadline, fallback |-> fallback, result |-> None,
   decided |-> None, round |-> FreshRound(1)]

\* sync: this month's period is there if the category is enabled, and it, every
\* open period that is due, and those that are seen are brought up to date.
Faulty_ToRefresh(p, t, setting) == setting.enabled /\ p = <<"MONTHLY", Month(t)>>
ToRefresh(p, t, setting) ==
  \/ setting.enabled /\ p = <<"MONTHLY", Month(t)>>
  \/ PastDeadline(period[p], t)

Sync(t, setting, seen) ==
  \E fallback \in Fallbacks(t) :
    period' = [p \in Periods |->
      IF period[p] = None
      THEN IF setting.enabled /\ p = <<"MONTHLY", Month(t)>>
           THEN Refreshed(p, NewPeriod(2 * Month(t) + setting.day, fallback), t)
           ELSE None
      ELSE IF ToRefresh(p, t, setting) \/ p \in seen THEN Refreshed(p, period[p], t)
      ELSE period[p]]

\* The scheduler visits the open houses with the time at which its run began.
Scheduler ==
  /\ IsOpen(Home)
  /\ \E t \in {clock - 1, clock} : t >= 0 /\ Sync(t, sharing, {})
  /\ UNCHANGED <<sharing, clock, assent, pledges, rosterVars>>

\* list shows month m and the DEFAULT periods.
Look(u, m) ==
  /\ MayShare(u)
  /\ Sync(clock, sharing, Defaults \cup {<<"MONTHLY", m>>})
  /\ UNCHANGED <<sharing, clock, assent, pledges, rosterVars>>

\* The rule an expense of a month asks for (resolve, apply).
ResolveRule(u, p) ==
  /\ MayShare(u)
  /\ Kind(p) = "MONTHLY"
  /\ Open(p)
  /\ period' = [period EXCEPT ![p] = Refreshed(p, @, clock)]
  /\ UNCHANGED <<sharing, clock, assent, pledges, rosterVars>>

\* setting, followed by its sync in the same transaction.
Setting(u, setting) ==
  /\ Owns(u)
  /\ sharing' = setting
  /\ Sync(clock, setting, {})
  /\ UNCHANGED <<clock, assent, pledges, rosterVars>>

\* The deadline of a request is checked before it waits for the house.
InTime(deadline) == \E t \in {clock - 1, clock} : deadline > t

\* openDefault: an open one is brought up to date, and another opened if it ended.
OpenDefault(u, d, deadline) ==
  /\ Owns(u)
  /\ period[d] = None
  /\ InTime(deadline)
  /\ LET current == {e \in Defaults : Open(e)}
         after == [e \in Periods |-> IF e \in current THEN Refreshed(e, period[e], clock)
                                     ELSE period[e]]
     IN  period' =
           IF \E e \in current : after[e].status = "OPEN" THEN after
           ELSE [after EXCEPT ![d] = NewPeriod(deadline, None)]
  /\ UNCHANGED <<sharing, clock, assent, pledges, rosterVars>>

(* -------------------------------- Ballots -------------------------------- *)

\* assertOpen, for a request that names round n of p.
AssertOpen(p, n) ==
  /\ Open(p)
  /\ ~PastDeadline(period[p], clock)
  /\ period[p].round.number = n
  /\ period[p].round.hash = Present

Agreeing(phase) == IF phase = "PREFERENCE" THEN "EQUAL" ELSE "AGREE"

\* Everybody there is has voted for it.
Faulty_Unanimous(round, votes) ==
  \A u \in People : votes[u] # None => votes[u].choice = Agreeing(round.phase)
Unanimous(round, votes) ==
  /\ Cardinality({u \in People : votes[u] # None}) = Cardinality(active[Home])
  /\ \A u \in People : votes[u] # None => votes[u].choice = Agreeing(round.phase)

\* agree
Agreed(row, rule) ==
  [row EXCEPT !.status = "AGREED", !.round.status = "AGREED", !.round.rule = rule,
              !.result = [rule |-> rule, hash |-> row.round.hash], !.decided = clock]

\* vote.  A repeated vote is answered from the row and changes nothing.
Vote(u, p, n, choice, version) ==
  /\ MayShare(u)
  /\ AssertOpen(p, n)
  /\ period[p].round.status # "REJECTED"
  /\ choice \in Options(period[p].round.phase)
  /\ LET round == period[p].round
         mine == round.votes[u]
         votes == [round.votes EXCEPT ![u] = [choice |-> choice, version |-> version + 1]]
         voted == [period[p] EXCEPT !.round.votes = votes]
         rule == IF round.phase = "PREFERENCE" THEN EqualParts ELSE round.rule
     IN
       /\ mine # None => mine.choice # choice
       /\ version = IF mine = None THEN 0 ELSE mine.version
       /\ version < MaxVoteVersion
       /\ period' = [period EXCEPT ![p] =
            IF choice = "REJECT" THEN [voted EXCEPT !.round.status = "REJECTED"]
            ELSE IF Unanimous(round, votes) THEN Agreed(voted, rule)
            ELSE voted]
       /\ assent' = [assent EXCEPT ![p] =
            IF choice = Agreeing(round.phase)
            THEN @ \cup {<<u, joins[Home][u], rule>>}
            ELSE {a \in @ : a[1] # u}]
       /\ pledges' = IF period'[p].status = "AGREED" THEN pledges \cup assent'[p] ELSE pledges
  /\ UNCHANGED <<sharing, clock, rosterVars>>

\* proposal
Proposal(u, p, n, rule) ==
  /\ MayShare(u)
  /\ AssertOpen(p, n)
  /\ n < MaxRounds
  /\ LET round == period[p].round IN
       /\ IF round.phase = "PREFERENCE"
          THEN \E w \in People : round.votes[w] # None /\ round.votes[w].choice = "WEIGHTED"
          ELSE round.status = "REJECTED"
       /\ period' = [period EXCEPT ![p].round =
            [number |-> n + 1, phase |-> "PROPOSAL", status |-> "OPEN", hash |-> @.hash,
             rule |-> rule, votes |-> NoVotes]]
       /\ assent' = [assent EXCEPT ![p] = {}]
  /\ UNCHANGED <<sharing, clock, pledges, rosterVars>>

\* The rule of a period is in force among exactly those who agreed on it.
Settled(row) == row.result # None /\ row.result.hash = Present

Faulty_MayReopen(row) == row.status # "FALLBACK"
MayReopen(row) == ~Settled(row)

OtherOpen(p) == Kind(p) = "DEFAULT" /\ \E e \in Defaults \ {p} : Open(e)

Reopened(row, deadline) ==
  [row EXCEPT !.round = FreshRound(@.number + 1), !.deadline = deadline,
              !.status = "OPEN", !.decided = None, !.result = None]

Reopen(u, p, n, deadline) ==
  /\ Owns(u)
  /\ period[p] # None
  /\ period[p].round.number = n
  /\ n < MaxRounds
  /\ MayReopen(period[p])
  /\ ~OtherOpen(p)
  /\ deadline > clock
  /\ Kind(p) = "MONTHLY" => Month(deadline) = p[2]
  /\ period' = [period EXCEPT ![p] = Reopened(@, deadline)]
  /\ assent' = [assent EXCEPT ![p] = {}]
  /\ UNCHANGED <<sharing, clock, pledges, rosterVars>>

TimePasses ==
  /\ clock < MaxTime
  /\ clock' = clock + 1
  /\ UNCHANGED <<sharing, period, assent, pledges, rosterVars>>

-----------------------------------------------------------------------------

SharingInit ==
  /\ RosterInit
  /\ sharing = [enabled |-> FALSE, day |-> 1]
  /\ period = [p \in Periods |-> None]
  /\ clock = 0
  /\ assent = [p \in Periods |-> {}]
  /\ pledges = {}

\* The people come and go as HouseRoster says.
Moving ==
  /\ \E u \in People :
       \/ Found(u, Home) \/ Join(u, Home) \/ Leave(u, Home)
       \/ \E w \in People : Transfer(u, w, Home)
  /\ UNCHANGED sharingVars

SharingNext ==
  \/ Scheduler
  \/ TimePasses
  \/ Moving
  \/ \E u \in People :
       \/ \E m \in Months : Look(u, m)
       \/ \E setting \in Settings : Setting(u, setting)
       \/ \E d \in Defaults, t \in 1..MaxTime : OpenDefault(u, d, t)
       \/ \E p \in Periods, n \in 1..MaxRounds :
            \/ \E choice \in {"EQUAL", "WEIGHTED", "AGREE", "REJECT"},
                  version \in 0..MaxVoteVersion : Vote(u, p, n, choice, version)
            \/ \E rule \in Rules : Proposal(u, p, n, rule)
            \/ \E t \in 1..MaxTime : Reopen(u, p, n, t)
       \/ \E p \in Monthly : ResolveRule(u, p)

SharingSpec == SharingInit /\ [][SharingNext]_<<rosterVars, sharingVars>>

\* The scheduler runs every minute.
SharingFairness == WF_<<rosterVars, sharingVars>>(Scheduler)

-----------------------------------------------------------------------------

Votings == [choice : {"EQUAL", "WEIGHTED", "AGREE", "REJECT"}, version : Nat \ {0}]
Memberships == People \X Nat
Outcomes == [rule : Rules, hash : SUBSET Memberships]
RoundRows ==
  [number : Nat \ {0}, phase : {"PREFERENCE", "PROPOSAL"},
   status : {"OPEN", "AGREED", "REJECTED", "FALLBACK", "UNRESOLVED"},
   hash : SUBSET Memberships, rule : Rules \cup {None},
   votes : [People -> Votings \cup {None}]]
PeriodRows ==
  [status : {"OPEN", "AGREED", "FALLBACK", "UNRESOLVED", "NEEDS_REVIEW"},
   deadline : Nat, fallback : Outcomes \cup {None}, result : Outcomes \cup {None},
   decided : Nat \cup {None}, round : RoundRows]

\* The absence of a row is no row.
ASSUME OutcomesAssumption == None \notin Votings /\ None \notin Outcomes /\ None \notin PeriodRows

SharingTypeOK ==
  /\ sharing \in Settings
  /\ period \in [Periods -> PeriodRows \cup {None}]
  /\ \A p \in Periods : period[p] # None =>
       (period[p].result # None <=> period[p].status \in {"AGREED", "FALLBACK"})
  /\ clock \in Nat
  /\ assent \in [Periods -> SUBSET (People \X Nat \X Rules)]
  /\ pledges \subseteq People \X Nat \X Rules

\* READY: what an expense of this period would be split by.
Ready(p) == period[p] # None /\ Settled(period[p])

\* Whoever pays by a rule agreed to that rule in this stay in the house: in the
\* vote of the month, or in the vote of the DEFAULT rule it fell back on.
ReadyRuleWasAgreed ==
  \A p \in Periods : Ready(p) =>
    \A u \in active[Home] : <<u, joins[Home][u], period[p].result.rule>> \in pledges

\* One DEFAULT rule at a time is put to the vote.
OneOpenDefault == \A d, e \in Defaults : Open(d) /\ Open(e) => d = e

\* What the votes decide: nobody pays by a rule they did not agree to, and two
\* DEFAULT votes, one of which would make the other void, are never open at once.
VotesAreSound == ReadyRuleWasAgreed /\ OneOpenDefault

\* The rule the members agreed on stands while they are the members: nobody, the
\* owner included, replaces it or puts it to the vote again.
AgreementStands ==
  [][\A p \in Periods : (Ready(p) /\ Present' = Present) =>
       period'[p].result = period[p].result]_<<rosterVars, sharingVars>>

\* A vote does not stay open after its deadline, as long as the house is open.
VotesAreCounted ==
  \A p \in Periods :
    (Open(p) /\ PastDeadline(period[p], clock))
      ~> (~Open(p) \/ ~PastDeadline(period[p], clock) \/ ~IsOpen(Home))
=============================================================================
