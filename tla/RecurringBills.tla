---------------------------- MODULE RecurringBills ----------------------------
(* The recurring bills of one house (modules/household): rules with a day of  *)
(* the month, the drafts that the schedulers of several processes make of     *)
(* them, also after the server was down for months, and what becomes of each  *)
(* draft.  A transaction under the house lock is one step; a run of a         *)
(* scheduler reads the day and the rules that are due before it.  Versions    *)
(* are left out: a stale one is refused, which changes nothing.               *)
EXTENDS Naturals, Sequences, FiniteSets, FiniteSetsExt

CONSTANTS
  Bills,       \* recurring_expenses
  Schedulers,  \* processes
  Lengths,     \* days of each month, in order
  PayDays,     \* bound: values of day_of_month
  CatchUp      \* drafts of one rule in one transaction

\* The last month is only there to be planned for.
Horizon == DOMAIN Lengths

ASSUME RecurringAssumption ==
  /\ Lengths \in Seq(1..31) /\ Len(Lengths) > 1
  /\ PayDays \subseteq 1..31
  /\ CatchUp \in Nat \ {0}

VARIABLES
  today,
  inUse,    \* the house is open
  rule,     \* rule[r]: whether it is enabled, its day and next_on
  draft,    \* draft[r][d]: status of the draft of r due on d
  booked,   \* history: expenses made of a draft
  since,    \* history: the date from which r was planned last
  round     \* what each process read: day and rules that are due

billVars == <<today, inUse, rule, draft, booked, since, round>>

-----------------------------------------------------------------------------
(* Dates: months of at most 31 days.                                          *)

\* monthlyDate(): the last day of a shorter month stands for the days it lacks.
MonthlyDate(m, day) == 32 * m + Min({day, Lengths[m]})
MonthOf(d) == d \div 32

NextDate(d, day) == MonthlyDate(MonthOf(d) + 1, day)

Dates == UNION {{32 * m + n : n \in 1..Lengths[m]} : m \in Horizon}
Planned(r, ds) == {d \in ds : d = MonthlyDate(MonthOf(d), rule[r].day)}

\* Dates a rule may be set to start on; its day fits to the first of them.
Startable(day) == {d \in Dates : d >= today /\ d = MonthlyDate(MonthOf(d), day)}

NoRule == [enabled |-> FALSE, day |-> 0, nextOn |-> 0]
Off == [day |-> 0, due |-> {}]

-----------------------------------------------------------------------------
(* Rules.                                                                     *)

\* create() and update(): the rule is planned anew from a date to come.
SaveRule(r, day) ==
  /\ inUse
  /\ \E d \in Startable(day) :
       /\ rule' = [rule EXCEPT ![r] =
            [enabled |-> IF @ = NoRule THEN TRUE ELSE @.enabled, day |-> day, nextOn |-> d]]
       /\ since' = [since EXCEPT ![r] = d]
  /\ UNCHANGED <<today, inUse, draft, booked, round>>

Disable(r) ==
  /\ inUse /\ rule[r].enabled
  /\ rule' = [rule EXCEPT ![r].enabled = FALSE]
  /\ UNCHANGED <<today, inUse, draft, booked, since, round>>

\* What fell due while the rule was off is passed over.
Enable(r) ==
  LET later == {d \in Dates : d >= rule[r].nextOn /\ d >= today} IN
  /\ inUse /\ rule[r] # NoRule /\ ~rule[r].enabled
  /\ Planned(r, later) # {}
  /\ rule' = [rule EXCEPT ![r].enabled = TRUE, ![r].nextOn = Min(Planned(r, later))]
  /\ since' = [since EXCEPT ![r] = rule'[r].nextOn]
  /\ UNCHANGED <<today, inUse, draft, booked, round>>

-----------------------------------------------------------------------------
(* The scheduler: run().                                                      *)

Due(r, day) == rule[r].enabled /\ inUse /\ rule[r].nextOn <= day

BeginRun(i) ==
  /\ round[i] = Off
  /\ round' = [round EXCEPT ![i] = [day |-> today, due |-> {r \in Bills : Due(r, today)}]]
  /\ round'[i].due # {}
  /\ UNCHANGED <<today, inUse, rule, draft, booked, since>>

\* The dates to draft: from next_on to the day of the run, but not too many.
Batch(r, day) ==
  LET all == {d \in Planned(r, Dates) : rule[r].nextOn <= d /\ d <= day} IN
  {d \in all : Cardinality({e \in all : e < d}) < CatchUp}

Faulty_Continues(r, day) == NextDate(day, rule[r].day)
Continues(r, day) == NextDate(Max(Batch(r, day)), rule[r].day)

StillDue(r, day) == Due(r, day)

GenerateDrafts(i, r) ==
  LET day == round[i].day IN
  /\ r \in round[i].due
  /\ round' = [round EXCEPT ![i].due = @ \ {r}]
  /\ IF StillDue(r, day)
     THEN /\ draft' = [draft EXCEPT ![r] = [d \in Dates |->
               IF d \in Batch(r, day) /\ @[d] = "NONE" THEN "PENDING" ELSE @[d]]]
          /\ rule' = [rule EXCEPT ![r].nextOn = Continues(r, day)]
     ELSE UNCHANGED <<draft, rule>>
  /\ UNCHANGED <<today, inUse, booked, since>>

\* The run is over, failed, or its process stopped.
EndRun(i) ==
  /\ round[i] # Off
  /\ round' = [round EXCEPT ![i] = Off]
  /\ UNCHANGED <<today, inUse, rule, draft, booked, since>>

-----------------------------------------------------------------------------
(* Drafts.                                                                    *)

\* confirm(): the expense and the draft are written together; a repeated request
\* is answered from the expense it made.
Confirmable(r, d) == draft[r][d] = "PENDING"

ConfirmDraft(r, d) ==
  /\ inUse /\ Confirmable(r, d)
  /\ draft' = [draft EXCEPT ![r][d] = "CONFIRMED"]
  /\ booked' = [booked EXCEPT ![r][d] = @ + 1]
  /\ UNCHANGED <<today, inUse, rule, since, round>>

SkipDraft(r, d) ==
  /\ inUse /\ draft[r][d] = "PENDING"
  /\ draft' = [draft EXCEPT ![r][d] = "SKIPPED"]
  /\ UNCHANGED <<today, inUse, rule, booked, since, round>>

-----------------------------------------------------------------------------
\* The last member leaves.
HouseEnds ==
  /\ inUse /\ inUse' = FALSE
  /\ UNCHANGED <<today, rule, draft, booked, since, round>>

\* Time passes until the month before the last, whether the server runs or not.
DateChanges ==
  /\ \E d \in Dates :
       /\ d > today /\ MonthOf(d) < Max(Horizon) /\ ~\E e \in Dates : today < e /\ e < d
       /\ today' = d
  /\ UNCHANGED <<inUse, rule, draft, booked, since, round>>

RecurringInit ==
  /\ today = Min(Dates)
  /\ inUse = TRUE
  /\ rule = [r \in Bills |-> NoRule]
  /\ draft = [r \in Bills |-> [d \in Dates |-> "NONE"]]
  /\ booked = [r \in Bills |-> [d \in Dates |-> 0]]
  /\ since = [r \in Bills |-> 0]
  /\ round = [i \in Schedulers |-> Off]

RecurringNext ==
  \/ \E r \in Bills :
       \/ \E day \in PayDays : SaveRule(r, day)
       \/ Disable(r) \/ Enable(r)
       \/ \E d \in Dates : ConfirmDraft(r, d) \/ SkipDraft(r, d)
  \/ \E i \in Schedulers : BeginRun(i) \/ EndRun(i) \/ \E r \in Bills : GenerateDrafts(i, r)
  \/ HouseEnds \/ DateChanges

RecurringSpec == RecurringInit /\ [][RecurringNext]_billVars

-----------------------------------------------------------------------------
(* Properties.                                                                *)

\* The types of the rows.
RecurringTypeOK ==
  /\ today \in Dates /\ inUse \in BOOLEAN
  /\ rule \in [Bills -> [enabled : BOOLEAN, day : Nat, nextOn : Nat]]
  /\ draft \in [Bills -> [Dates -> {"NONE", "PENDING", "CONFIRMED", "SKIPPED"}]]
  /\ booked \in [Bills -> [Dates -> Nat]]
  /\ since \in [Bills -> Nat]
  /\ round \in [Schedulers -> [day : Nat, due : SUBSET Bills]]

\* Every month has its draft, on the day of its rule or the last day of a month that
\* lacks it: nothing is lost between the date a rule was planned from and the one
\* it comes next, however long the server was down.
NoMonthIsLost ==
  \A r \in Bills : rule[r] # NoRule =>
    /\ Planned(r, {rule[r].nextOn}) # {}
    /\ \A d \in Planned(r, Dates) :
         since[r] <= d /\ d < rule[r].nextOn => draft[r][d] # "NONE"

\* A draft is made when its day has come, and becomes one expense or none.
OneExpensePerDraft ==
  \A r \in Bills, d \in Dates :
    /\ draft[r][d] # "NONE" => d <= today
    /\ booked[r][d] = (IF draft[r][d] = "CONFIRMED" THEN 1 ELSE 0)

\* The months of a rule are billed once each (RecurringSchedulerService.run: "Catch
\* up after downtime in bounded batches, keeping one draft per period").
EachMonthIsBilledOnce == NoMonthIsLost /\ OneExpensePerDraft
=============================================================================
