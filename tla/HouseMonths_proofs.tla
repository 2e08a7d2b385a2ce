------------------------- MODULE HouseMonths_proofs -------------------------
(* Proofs about what a house repeats every month: bills (RecurringBills), the *)
(* summary of the month (HouseSummary) and reminders of debts (DebtReminders), *)
(* for any people, bills, requests, mails and bounds.                         *)
EXTENDS RecurringBills, HouseSummary, DebtReminders, Sums, FiniteSetTheorems,
        SequenceTheorems, WellFoundedInduction, TLAPS

-----------------------------------------------------------------------------
(* RecurringBills.  The argument: the day a rule is due next is always later  *)
(* than any day it was billed for, and dates of different months do not meet. *)

(* Least and greatest members, from the least element of a well-founded order. *)

Earlier == {p \in Nat \X Nat : p[1] < p[2]}

LEMMA EarlierIsWellFounded == IsWellFoundedOn(Earlier, Nat)
BY NatLessThanWellFounded DEF OpToRel, Earlier

LEMMA MinFacts ==
  ASSUME NEW S \in SUBSET Nat, S # {}
  PROVE  Min(S) \in S /\ \A y \in S : Min(S) <= y
<1>1. PICK x \in S : \A y \in S : <<y, x>> \notin Earlier
  BY EarlierIsWellFounded, WFMin
<1>2. ASSUME NEW y \in S PROVE x <= y
  <2>1. x \in Nat /\ y \in Nat
    OBVIOUS
  <2>2. <<y, x>> \notin Earlier
    BY <1>1
  <2>3. ~(y < x)
    BY <2>1, <2>2 DEF Earlier
  <2>. QED
    BY <2>1, <2>3
<1>. QED
  BY <1>2 DEF Min

LEMMA MaxFacts ==
  ASSUME NEW S \in SUBSET Nat, S # {}, NEW n \in Nat, \A x \in S : x <= n
  PROVE  Max(S) \in S /\ \A y \in S : Max(S) >= y
<1>. DEFINE below == {n - x : x \in S}
<1>1. below \in SUBSET Nat /\ below # {}
  <2>1. \A x \in S : n - x \in Nat
    OBVIOUS
  <2>. QED
    BY <2>1
<1>2. Min(below) \in below /\ \A y \in below : Min(below) <= y
  BY <1>1, MinFacts
<1>3. PICK x \in S : Min(below) = n - x
  BY <1>2
<1>4. \A y \in S : x >= y
  <2>1. ASSUME NEW y \in S PROVE x >= y
    <3>1. n - y \in below
      OBVIOUS
    <3>2. n - x <= n - y
      BY <1>2, <1>3, <3>1
    <3>. QED
      BY <3>2
  <2>. QED
    BY <2>1
<1>. QED
  BY <1>4 DEF Max

LEMMA MinOfTwo ==
  ASSUME NEW x \in Nat, NEW y \in Nat
  PROVE  Min({x, y}) = IF x <= y THEN x ELSE y
BY MinFacts DEF Min

-----------------------------------------------------------------------------
(* Dates.                                                                     *)

LEMMA Months ==
  /\ Horizon = 1..Len(Lengths) /\ Len(Lengths) \in Nat /\ Len(Lengths) > 1
  /\ \A m \in Horizon : Lengths[m] \in 1..31
  /\ Max(Horizon) = Len(Lengths)
<1>1. /\ Horizon = 1..Len(Lengths) /\ Len(Lengths) \in Nat /\ Len(Lengths) > 1
      /\ \A m \in Horizon : Lengths[m] \in 1..31
  <2>1. Lengths \in Seq(1..31) /\ Len(Lengths) > 1
    BY RecurringAssumption
  <2>2. /\ Len(Lengths) \in Nat /\ DOMAIN Lengths = 1..Len(Lengths)
        /\ \A m \in 1..Len(Lengths) : Lengths[m] \in 1..31
    BY <2>1, LenProperties, ElementOfSeq
  <2>. QED
    BY <2>1, <2>2 DEF Horizon
<1>2. Max(Horizon) = Len(Lengths)
  BY <1>1 DEF Max
<1>. QED
  BY <1>1, <1>2

LEMMA DateFacts ==
  ASSUME NEW d \in Dates
  PROVE  /\ d \in Nat /\ MonthOf(d) \in Horizon
         /\ 32 * MonthOf(d) < d /\ d < 32 * (MonthOf(d) + 1)
<1>0. PICK m \in Horizon : \E n \in 1..Lengths[m] : d = 32 * m + n
  BY DEF Dates
<1>1. PICK n \in 1..Lengths[m] : d = 32 * m + n
  BY <1>0
<1>2. m \in Nat /\ n \in 1..31
  <2>1. m \in Nat /\ Lengths[m] \in 1..31
    BY Months
  <2>. QED
    BY <2>1
<1>3. MonthOf(d) = m
  BY <1>1, <1>2 DEF MonthOf
<1>. QED
  BY <1>1, <1>2, <1>3

LEMMA MonthlyFacts ==
  ASSUME NEW m \in Horizon, NEW day \in 1..31
  PROVE  /\ MonthlyDate(m, day) \in Dates /\ MonthOf(MonthlyDate(m, day)) = m
<1>1. m \in Nat /\ Lengths[m] \in 1..31
  BY Months
<1>2. Min({day, Lengths[m]}) \in 1..Lengths[m] /\ Min({day, Lengths[m]}) \in 1..31
  BY <1>1, MinOfTwo, SMTT(30)
<1>3. MonthlyDate(m, day) \in Dates
  BY <1>2 DEF MonthlyDate, Dates
<1>4. MonthOf(MonthlyDate(m, day)) = m
  BY <1>1, <1>2 DEF MonthlyDate, MonthOf
<1>. QED
  BY <1>3, <1>4

LEMMA MonthGrows ==
  ASSUME NEW d \in Dates, NEW e \in Dates
  PROVE  /\ d <= e => MonthOf(d) <= MonthOf(e)
         /\ MonthOf(d) < MonthOf(e) => d < e
<1>1. /\ d \in Nat /\ MonthOf(d) \in Nat /\ 32 * MonthOf(d) < d /\ d < 32 * (MonthOf(d) + 1)
      /\ e \in Nat /\ MonthOf(e) \in Nat /\ 32 * MonthOf(e) < e /\ e < 32 * (MonthOf(e) + 1)
  BY DateFacts, Months
<1>. QED
  BY <1>1

-----------------------------------------------------------------------------
(* The inductive invariant: a rule in use comes next on a date of its own,    *)
(* before which it is drafted; time does not run past the months there are.   *)

OfRule(r, d) == d = MonthlyDate(MonthOf(d), rule[r].day)

RuleInv(r) ==
  rule[r] # NoRule =>
    /\ rule[r].day \in 1..31 /\ rule[r].nextOn \in Dates /\ OfRule(r, rule[r].nextOn)
    /\ \A d \in Dates :
         OfRule(r, d) /\ since[r] <= d /\ d < rule[r].nextOn => draft[r][d] # "NONE"

TimeInv ==
  /\ MonthOf(today) < Len(Lengths)
  /\ \A i \in Schedulers : round[i].day <= today

RecurringIInv ==
  RecurringTypeOK /\ TimeInv /\ (\A r \in Bills : RuleInv(r)) /\ OneExpensePerDraft

LEMMA RecurringStarts == RecurringInit => RecurringIInv
<1>. SUFFICES ASSUME RecurringInit PROVE RecurringIInv
  OBVIOUS
<1>1. Dates \in SUBSET Nat
  BY DateFacts
<1>2. 33 \in Dates
  <2>1. 1 \in Horizon
    BY Months
  <2>2. Lengths[1] \in 1..31
    BY <2>1, Months
  <2>3. 1 \in 1..Lengths[1] /\ 33 = 32 * 1 + 1
    BY <2>2
  <2>4. 33 \in {32 * 1 + n : n \in 1..Lengths[1]}
    BY <2>3
  <2>. QED
    BY <2>1, <2>4 DEF Dates
<1>3. today \in Dates /\ today <= 33
  BY <1>1, <1>2, MinFacts DEF RecurringInit
<1>4. MonthOf(today) < Len(Lengths)
  <2>1. MonthOf(33) = 1
    BY DEF MonthOf
  <2>2. MonthOf(today) <= 1 /\ MonthOf(today) \in Nat
    BY <1>2, <1>3, <2>1, MonthGrows, DateFacts, Months
  <2>. QED
    BY <2>2, Months
<1>5. today \in Nat
  BY <1>1, <1>3
<1>6. RecurringTypeOK
  BY <1>3 DEF RecurringInit, RecurringTypeOK, NoRule, Off
<1>7. TimeInv
  BY <1>4, <1>5 DEF RecurringInit, TimeInv, Off
<1>8. \A r \in Bills : RuleInv(r)
  BY DEF RecurringInit, RuleInv
<1>9. OneExpensePerDraft
  BY DEF RecurringInit, OneExpensePerDraft
<1>. QED
  BY <1>6, <1>7, <1>8, <1>9 DEF RecurringIInv

LEMMA BatchFacts ==
  ASSUME RecurringIInv, NEW r \in Bills, NEW day \in Nat, day <= today, Due(r, day)
  PROVE  /\ Batch(r, day) \subseteq Dates /\ \A d \in Batch(r, day) : d <= day
         /\ Continues(r, day) \in Dates /\ OfRule(r, Continues(r, day))
         /\ \A d \in Dates :
              OfRule(r, d) /\ rule[r].nextOn <= d /\ d < Continues(r, day) => d \in Batch(r, day)
<1>. DEFINE all == {d \in Planned(r, Dates) : rule[r].nextOn <= d /\ d <= day}
            first == rule[r].nextOn
            last == Max(Batch(r, day))
<1>1. /\ rule[r].day \in 1..31 /\ first \in Dates /\ OfRule(r, first) /\ first <= day
      /\ today \in Dates
  BY DEF RecurringIInv, RecurringTypeOK, RuleInv, Due, NoRule
<1>2. Batch(r, day) = {d \in all : Cardinality({e \in all : e < d}) < CatchUp}
  BY DEF Batch
<1>3. \A d : d \in all <=> d \in Dates /\ OfRule(r, d) /\ first <= d /\ d <= day
  BY DEF Planned, OfRule
<1>4. (\A d \in Dates : d \in Nat) /\ first \in Nat /\ today \in Nat
  BY <1>1, DateFacts
<1>. HIDE DEF all
<1>5. IsFiniteSet(all)
  <2>1. \A d \in all : d \in 0..day
    BY <1>3, <1>4
  <2>2. IsFiniteSet(0..day)
    BY FS_Interval
  <2>. QED
    BY <2>1, <2>2, FS_Subset, all \subseteq 0..day
<1>6. first \in Batch(r, day)
  <2>1. first \in all
    BY <1>1, <1>3, <1>4
  <2>2. \A e \in all : ~(e < first)
    BY <1>3, <1>4
  <2>3. Cardinality({e \in all : e < first}) = 0
    BY <2>2, FS_EmptySet, {e \in all : e < first} = {}
  <2>4. CatchUp \in Nat /\ CatchUp > 0
    BY RecurringAssumption
  <2>. QED
    BY <1>2, <2>1, <2>3, <2>4
<1>7. Batch(r, day) \subseteq all /\ Batch(r, day) \in SUBSET Nat /\ \A d \in Batch(r, day) : d <= day
  BY <1>2, <1>3, <1>4
<1>8. last \in Batch(r, day) /\ \A d \in Batch(r, day) : last >= d
  BY <1>6, <1>7, MaxFacts
<1>9. last \in Dates /\ last <= day /\ OfRule(r, last) /\ last \in Nat
  BY <1>3, <1>4, <1>7, <1>8
<1>10. MonthOf(last) + 1 \in Horizon
  <2>1. MonthOf(last) \in Nat /\ MonthOf(today) \in Nat /\ MonthOf(last) >= 1
    BY <1>1, <1>9, DateFacts, Months, SMTT(30)
  <2>2. last <= today
    BY <1>1, <1>4, <1>9
  <2>3. MonthOf(last) <= MonthOf(today)
    BY <1>1, <1>9, <2>2, MonthGrows
  <2>4. MonthOf(today) < Len(Lengths)
    BY DEF RecurringIInv, TimeInv
  <2>. QED
    BY <2>1, <2>3, <2>4, Months
<1>11. Continues(r, day) = MonthlyDate(MonthOf(last) + 1, rule[r].day)
  BY DEF Continues, NextDate
<1>12. /\ Continues(r, day) \in Dates /\ MonthOf(Continues(r, day)) = MonthOf(last) + 1
  BY <1>1, <1>10, <1>11, MonthlyFacts
<1>13. OfRule(r, Continues(r, day))
  BY <1>11, <1>12 DEF OfRule
<1>14. ASSUME NEW d \in Dates, OfRule(r, d), first <= d, d < Continues(r, day)
       PROVE  d \in Batch(r, day)
  <2>1. d \in Nat /\ MonthOf(d) \in Nat /\ MonthOf(last) \in Nat
    BY <1>4, <1>9, DateFacts, Months
  <2>2. MonthOf(d) <= MonthOf(last)
    <3>1. ~(MonthOf(d) > MonthOf(last) + 1)
      <4>1. MonthOf(Continues(r, day)) < MonthOf(d) => Continues(r, day) < d
        BY <1>12, MonthGrows
      <4>2. Continues(r, day) \in Nat
        BY <1>4, <1>12
      <4>. QED
        BY <1>12, <1>14, <2>1, <4>1, <4>2
    <3>2. MonthOf(d) # MonthOf(last) + 1
      BY <1>4, <1>11, <1>12, <1>14, <2>1 DEF OfRule
    <3>. QED
      BY <2>1, <3>1, <3>2
  <2>3. d <= last
    <3>1. CASE MonthOf(d) = MonthOf(last)
      BY <1>9, <1>14, <2>1, <3>1 DEF OfRule
    <3>2. CASE MonthOf(d) < MonthOf(last)
      BY <1>9, <2>1, <3>2, MonthGrows
    <3>. QED
      BY <2>1, <2>2, <3>1, <3>2
  <2>4. d \in all
    BY <1>3, <1>9, <1>14, <2>1, <2>3
  <2>. DEFINE less(x) == {e \in all : e < x}
  <2>5. less(d) \subseteq less(last)
    <3>1. \A e \in all : e \in Nat
      BY <1>3, <1>4
    <3>2. \A e \in all : e < d => e < last
      BY <1>9, <2>1, <2>3, <3>1
    <3>. QED
      BY <3>2
  <2>6. IsFiniteSet(less(last)) /\ IsFiniteSet(less(d))
    BY <1>5, FS_Subset
  <2>7. Cardinality(less(d)) <= Cardinality(less(last)) /\ Cardinality(less(last)) \in Nat
        /\ Cardinality(less(d)) \in Nat
    BY <2>5, <2>6, FS_Subset, FS_CardinalityType
  <2>8. Cardinality(less(last)) < CatchUp /\ CatchUp \in Nat
    BY <1>2, <1>8, RecurringAssumption
  <2>9. Cardinality(less(d)) < CatchUp
    BY <2>7, <2>8
  <2>. QED
    BY <1>2, <2>4, <2>9
<1>. QED
  BY <1>3, <1>7, <1>12, <1>13, <1>14

\* What a step does to a rule that it does not write, whose drafts stay.
LEMMA RuleStays ==
  ASSUME NEW r \in Bills, RuleInv(r), rule'[r] = rule[r], since'[r] = since[r],
         \A d \in Dates : draft[r][d] # "NONE" => draft'[r][d] # "NONE"
  PROVE  RuleInv(r)'
BY DEF RuleInv, OfRule

LEMMA RulesKeepRecurring ==
  ASSUME RecurringIInv, NEW r \in Bills,
         (\E day \in PayDays : SaveRule(r, day)) \/ Disable(r) \/ Enable(r)
  PROVE  RecurringIInv'
<1>1. UNCHANGED <<today, inUse, draft, booked, round>>
  BY DEF SaveRule, Disable, Enable
<1>2. rule \in [Bills -> [enabled : BOOLEAN, day : Nat, nextOn : Nat]] /\ since \in [Bills -> Nat]
  BY DEF RecurringIInv, RecurringTypeOK
<1>3. \A d \in Dates : d \in Nat
  BY DateFacts
<1>4. /\ \E entry \in [enabled : BOOLEAN, day : Nat, nextOn : Nat], d \in Nat :
           rule' = [rule EXCEPT ![r] = entry] /\ since' = [since EXCEPT ![r] = d]
      /\ RuleInv(r)'
  <2>1. CASE \E day \in PayDays : SaveRule(r, day)
    <3>0. PICK day \in PayDays : SaveRule(r, day)
      BY <2>1
    <3>1. PICK d \in Startable(day) :
            /\ rule' = [rule EXCEPT ![r] =
                 [enabled |-> IF @ = NoRule THEN TRUE ELSE @.enabled, day |-> day, nextOn |-> d]]
            /\ since' = [since EXCEPT ![r] = d]
      BY <3>0 DEF SaveRule
    <3>2. /\ d \in Dates /\ d \in Nat /\ day \in 1..31 /\ day \in Nat
          /\ d = MonthlyDate(MonthOf(d), day)
      BY <1>3, RecurringAssumption DEF Startable
    <3>. DEFINE entry == [enabled |-> IF rule[r] = NoRule THEN TRUE ELSE rule[r].enabled, day |-> day, nextOn |-> d]
    <3>3. rule' = [rule EXCEPT ![r] = entry]
      BY <3>1
    <3>4. entry \in [enabled : BOOLEAN, day : Nat, nextOn : Nat]
      BY <1>2, <3>2
    <3>5. entry.day = day /\ entry.nextOn = d
      OBVIOUS
    <3>. HIDE DEF entry
    <3>6. rule'[r] = entry /\ since'[r] = d
      BY <1>2, <3>1, <3>3
    <3>7. /\ rule'[r].day = day /\ rule'[r].nextOn = d /\ since'[r] = d
          /\ \A e \in Dates : ~(d <= e /\ e < d)
      <4>1. rule'[r].day = day /\ rule'[r].nextOn = d /\ since'[r] = d
        BY <3>5, <3>6
      <4>2. \A e \in Dates : ~(d <= e /\ e < d)
        BY <1>3, <3>2
      <4>. QED
        BY <4>1, <4>2
    <3>8. RuleInv(r)'
      BY <3>2, <3>7 DEF RuleInv, OfRule
    <3>. QED
      BY <3>1, <3>2, <3>3, <3>4, <3>8
  <2>2. CASE Disable(r)
    <3>. DEFINE entry == [rule[r] EXCEPT !.enabled = FALSE]
    <3>1. rule' = [rule EXCEPT ![r] = entry] /\ since' = [since EXCEPT ![r] = since[r]] /\ rule[r].enabled
      BY <1>2, <2>2 DEF Disable
    <3>2. /\ entry \in [enabled : BOOLEAN, day : Nat, nextOn : Nat] /\ since[r] \in Nat
          /\ entry.day = rule[r].day /\ entry.nextOn = rule[r].nextOn /\ rule[r] # NoRule
      <4>1. rule[r] \in [enabled : BOOLEAN, day : Nat, nextOn : Nat] /\ since[r] \in Nat
        BY <1>2
      <4>2. rule[r] # NoRule
        BY <3>1 DEF NoRule
      <4>3. entry \in [enabled : BOOLEAN, day : Nat, nextOn : Nat]
        BY <4>1
      <4>4. entry.day = rule[r].day /\ entry.nextOn = rule[r].nextOn
        BY <4>1
      <4>. QED
        BY <4>1, <4>2, <4>3, <4>4
    <3>. HIDE DEF entry
    <3>3. rule'[r] = entry /\ since'[r] = since[r]
      BY <1>2, <3>1
    <3>4. RuleInv(r)'
      BY <1>1, <3>2, <3>3 DEF RecurringIInv, RuleInv, OfRule
    <3>. QED
      BY <3>1, <3>2, <3>4
  <2>3. CASE Enable(r)
    <3>. DEFINE later == {d \in Dates : d >= rule[r].nextOn /\ d >= today}
                next == Min(Planned(r, later))
                entry == [rule[r] EXCEPT !.enabled = TRUE, !.nextOn = next]
    <3>1. /\ rule' = [rule EXCEPT ![r] = entry] /\ since' = [since EXCEPT ![r] = rule'[r].nextOn]
          /\ rule[r] # NoRule /\ Planned(r, later) # {}
      BY <1>2, <2>3 DEF Enable
    <3>2. Planned(r, later) \in SUBSET Nat
      BY <1>3 DEF Planned
    <3>3. next \in Planned(r, later)
      BY <3>1, <3>2, MinFacts
    <3>4. next \in Dates /\ next = MonthlyDate(MonthOf(next), rule[r].day) /\ next \in Nat
      BY <1>3, <3>3 DEF Planned
    <3>. HIDE DEF next
    <3>5. /\ entry \in [enabled : BOOLEAN, day : Nat, nextOn : Nat]
          /\ entry.day = rule[r].day /\ entry.nextOn = next
      BY <1>2, <3>4
    <3>. HIDE DEF entry
    <3>6. rule'[r] = entry /\ since'[r] = next /\ since' = [since EXCEPT ![r] = next]
      BY <1>2, <3>1, <3>5
    <3>7. RuleInv(r)'
      BY <1>3, <3>1, <3>4, <3>5, <3>6 DEF RecurringIInv, RuleInv, OfRule
    <3>. QED
      BY <3>1, <3>4, <3>5, <3>6, <3>7
  <2>. QED
    BY <2>1, <2>2, <2>3
<1>5. RecurringTypeOK'
  BY <1>1, <1>4 DEF RecurringIInv, RecurringTypeOK
<1>6. TimeInv' /\ OneExpensePerDraft'
  BY <1>1 DEF RecurringIInv, TimeInv, OneExpensePerDraft
<1>7. ASSUME NEW q \in Bills PROVE RuleInv(q)'
  <2>1. CASE q = r
    BY <1>4, <2>1
  <2>2. CASE q # r
    <3>1. rule'[q] = rule[q] /\ since'[q] = since[q] /\ draft' = draft
      BY <1>1, <1>2, <1>4, <2>2
    <3>. QED
      BY <3>1, RuleStays DEF RecurringIInv
  <2>. QED
    BY <2>1, <2>2
<1>. QED
  BY <1>5, <1>6, <1>7 DEF RecurringIInv

LEMMA DraftsKeepRecurring ==
  ASSUME RecurringIInv, NEW r \in Bills, NEW d \in Dates, ConfirmDraft(r, d) \/ SkipDraft(r, d)
  PROVE  RecurringIInv'
<1>1. /\ UNCHANGED <<today, inUse, rule, since, round>> /\ draft[r][d] = "PENDING"
      /\ \E status \in {"CONFIRMED", "SKIPPED"} :
           /\ draft' = [draft EXCEPT ![r][d] = status]
           /\ booked' = IF status = "CONFIRMED" THEN [booked EXCEPT ![r][d] = @ + 1] ELSE booked
  BY DEF ConfirmDraft, SkipDraft, Confirmable
<1>2. PICK status \in {"CONFIRMED", "SKIPPED"} :
           /\ draft' = [draft EXCEPT ![r][d] = status]
           /\ booked' = IF status = "CONFIRMED" THEN [booked EXCEPT ![r][d] = @ + 1] ELSE booked
  BY <1>1
<1>3. /\ draft \in [Bills -> [Dates -> {"NONE", "PENDING", "CONFIRMED", "SKIPPED"}]]
      /\ booked \in [Bills -> [Dates -> Nat]]
  BY DEF RecurringIInv, RecurringTypeOK
<1>4. booked[r][d] = 0 /\ d <= today
  BY <1>1 DEF RecurringIInv, OneExpensePerDraft
<1>5. /\ draft' \in [Bills -> [Dates -> {"NONE", "PENDING", "CONFIRMED", "SKIPPED"}]]
      /\ draft'[r][d] = status
      /\ \A q \in Bills, e \in Dates : q # r \/ e # d => draft'[q][e] = draft[q][e]
  BY <1>2, <1>3
<1>6. /\ booked' \in [Bills -> [Dates -> Nat]]
      /\ booked'[r][d] = (IF status = "CONFIRMED" THEN 1 ELSE 0)
      /\ \A q \in Bills, e \in Dates : q # r \/ e # d => booked'[q][e] = booked[q][e]
  <2>1. booked[r][d] + 1 = 1
    BY <1>4
  <2>. QED
    BY <1>2, <1>3, <1>4, <2>1
<1>7. RecurringTypeOK'
  BY <1>1, <1>5, <1>6 DEF RecurringIInv, RecurringTypeOK
<1>8. TimeInv'
  BY <1>1 DEF RecurringIInv, TimeInv
<1>9. OneExpensePerDraft'
  BY <1>1, <1>4, <1>5, <1>6 DEF RecurringIInv, OneExpensePerDraft
<1>10. ASSUME NEW q \in Bills PROVE RuleInv(q)'
  <2>1. \A e \in Dates : draft[q][e] # "NONE" => draft'[q][e] # "NONE"
    BY <1>5
  <2>. QED
    BY <1>1, <2>1, RuleStays DEF RecurringIInv
<1>. QED
  BY <1>7, <1>8, <1>9, <1>10 DEF RecurringIInv

LEMMA GenerateKeepsRecurring ==
  ASSUME RecurringIInv, NEW i \in Schedulers, NEW r \in Bills, GenerateDrafts(i, r)
  PROVE  RecurringIInv'
<1>. DEFINE day == round[i].day
<1>1. /\ round' = [round EXCEPT ![i].due = @ \ {r}] /\ UNCHANGED <<today, inUse, booked, since>>
  BY DEF GenerateDrafts
<1>2. /\ round \in [Schedulers -> [day : Nat, due : SUBSET Bills]]
      /\ rule \in [Bills -> [enabled : BOOLEAN, day : Nat, nextOn : Nat]]
      /\ draft \in [Bills -> [Dates -> {"NONE", "PENDING", "CONFIRMED", "SKIPPED"}]]
      /\ today \in Dates
  BY DEF RecurringIInv, RecurringTypeOK
<1>3. day \in Nat /\ day <= today /\ today \in Nat
  BY <1>2, DateFacts DEF RecurringIInv, TimeInv
<1>4. /\ round' \in [Schedulers -> [day : Nat, due : SUBSET Bills]]
      /\ \A j \in Schedulers : round'[j].day = round[j].day
  BY <1>1, <1>2
<1>5. TimeInv'
  BY <1>1, <1>4 DEF RecurringIInv, TimeInv
<1>6. CASE StillDue(r, day)
  <2>. DEFINE next == Continues(r, day)
              batch == Batch(r, day)
  <2>1. /\ draft' = [draft EXCEPT ![r] = [d \in Dates |->
               IF d \in batch /\ @[d] = "NONE" THEN "PENDING" ELSE @[d]]]
        /\ rule' = [rule EXCEPT ![r].nextOn = next]
    BY <1>6 DEF GenerateDrafts
  <2>2. Due(r, day) /\ rule[r].enabled /\ rule[r] # NoRule
    BY <1>6 DEF StillDue, Due, NoRule
  <2>3. /\ batch \subseteq Dates /\ \A d \in batch : d <= day
        /\ next \in Dates /\ OfRule(r, next)
        /\ \A d \in Dates : OfRule(r, d) /\ rule[r].nextOn <= d /\ d < next => d \in batch
    BY <1>3, <2>2, BatchFacts
  <2>4. next \in Nat /\ (\A d \in Dates : d \in Nat) /\ rule[r].nextOn \in Nat
    BY <1>2, <2>3, DateFacts
  <2>. HIDE DEF next, batch
  <2>5. /\ rule' \in [Bills -> [enabled : BOOLEAN, day : Nat, nextOn : Nat]]
        /\ rule'[r].nextOn = next /\ rule'[r].day = rule[r].day
        /\ \A q \in Bills \ {r} : rule'[q] = rule[q]
    BY <1>2, <2>1, <2>4
  <2>6. /\ draft' \in [Bills -> [Dates -> {"NONE", "PENDING", "CONFIRMED", "SKIPPED"}]]
        /\ \A d \in Dates : draft'[r][d] = IF d \in batch /\ draft[r][d] = "NONE" THEN "PENDING" ELSE draft[r][d]
        /\ \A q \in Bills \ {r} : draft'[q] = draft[q]
    BY <1>2, <2>1
  <2>7. RecurringTypeOK'
    BY <1>1, <1>4, <2>5, <2>6 DEF RecurringIInv, RecurringTypeOK
  <2>8. OneExpensePerDraft'
    <3>1. \A d \in batch : d <= today
      BY <1>3, <2>3, <2>4
    <3>2. ASSUME NEW q \in Bills, NEW d \in Dates
          PROVE  /\ draft'[q][d] # "NONE" => d <= today
                 /\ draft'[q][d] = "CONFIRMED" <=> draft[q][d] = "CONFIRMED"
      BY <2>6, <3>1 DEF RecurringIInv, OneExpensePerDraft
    <3>. QED
      BY <1>1, <3>2 DEF RecurringIInv, OneExpensePerDraft
  <2>9. ASSUME NEW q \in Bills PROVE RuleInv(q)'
    <3>1. CASE q = r
      <4>1. rule[r].day \in 1..31 /\ RuleInv(r)
        BY <2>2 DEF RecurringIInv, RuleInv
      <4>2. \A d \in Dates : OfRule(r, d)' <=> OfRule(r, d)
        BY <2>5 DEF OfRule
      <4>3. ASSUME NEW d \in Dates, OfRule(r, d), since[r] <= d, d < next
            PROVE  draft'[r][d] # "NONE"
        <5>1. CASE d < rule[r].nextOn
          <6>1. draft[r][d] # "NONE"
            BY <2>2, <4>1, <4>3, <5>1 DEF RuleInv
          <6>. QED
            BY <2>6, <6>1
        <5>2. CASE ~(d < rule[r].nextOn)
          <6>1. rule[r].nextOn <= d
            BY <2>4, <4>3, <5>2
          <6>2. d \in batch
            BY <2>3, <4>3, <6>1
          <6>. QED
            BY <2>6, <6>2
        <5>. QED
          BY <5>1, <5>2
      <4>. QED
        BY <1>1, <2>3, <2>5, <3>1, <4>1, <4>2, <4>3 DEF RuleInv
    <3>2. CASE q # r
      BY <1>1, <2>5, <2>6, <3>2, RuleStays DEF RecurringIInv
    <3>. QED
      BY <3>1, <3>2
  <2>. QED
    BY <1>5, <2>7, <2>8, <2>9 DEF RecurringIInv
<1>7. CASE ~StillDue(r, day)
  <2>1. UNCHANGED <<draft, rule>>
    BY <1>7 DEF GenerateDrafts
  <2>2. RecurringTypeOK' /\ OneExpensePerDraft'
    BY <1>1, <1>4, <2>1 DEF RecurringIInv, RecurringTypeOK, OneExpensePerDraft
  <2>3. \A q \in Bills : RuleInv(q)'
    BY <1>1, <2>1, RuleStays DEF RecurringIInv
  <2>. QED
    BY <1>5, <2>2, <2>3 DEF RecurringIInv
<1>. QED
  BY <1>6, <1>7

LEMMA RunsKeepRecurring ==
  ASSUME RecurringIInv, (\E i \in Schedulers : BeginRun(i) \/ EndRun(i)) \/ HouseEnds \/ DateChanges
  PROVE  RecurringIInv'
<1>1. UNCHANGED <<rule, draft, booked, since>>
  BY DEF BeginRun, EndRun, HouseEnds, DateChanges
<1>2. \A q \in Bills : RuleInv(q)'
  BY <1>1, RuleStays DEF RecurringIInv
<1>3. /\ today \in Dates /\ today \in Nat
      /\ round \in [Schedulers -> [day : Nat, due : SUBSET Bills]]
  BY DateFacts DEF RecurringIInv, RecurringTypeOK
<1>4. CASE \E i \in Schedulers : BeginRun(i) \/ EndRun(i)
  <2>1. PICK i \in Schedulers, entry \in [day : Nat, due : SUBSET Bills] :
          round' = [round EXCEPT ![i] = entry] /\ entry.day <= today /\ UNCHANGED <<today, inUse>>
    <3>1. PICK i \in Schedulers : BeginRun(i) \/ EndRun(i)
      BY <1>4
    <3>2. CASE BeginRun(i)
      <4>. DEFINE entry == [day |-> today, due |-> {r \in Bills : Due(r, today)}]
      <4>1. entry \in [day : Nat, due : SUBSET Bills] /\ entry.day <= today
        BY <1>3
      <4>. QED
        BY <3>2, <4>1 DEF BeginRun
    <3>3. CASE EndRun(i)
      <4>1. Off \in [day : Nat, due : SUBSET Bills] /\ Off.day <= today
        BY <1>3 DEF Off
      <4>. QED
        BY <3>3, <4>1 DEF EndRun
    <3>. QED
      BY <3>1, <3>2, <3>3
  <2>2. TimeInv'
    BY <1>3, <2>1 DEF RecurringIInv, TimeInv
  <2>. QED
    BY <1>1, <1>2, <1>3, <2>1, <2>2 DEF RecurringIInv, RecurringTypeOK, OneExpensePerDraft
<1>5. CASE HouseEnds
  BY <1>1, <1>2, <1>5 DEF HouseEnds, RecurringIInv, RecurringTypeOK, OneExpensePerDraft, TimeInv
<1>6. CASE DateChanges
  <2>1. PICK d \in Dates : d > today /\ MonthOf(d) < Len(Lengths) /\ today' = d /\ UNCHANGED <<inUse, round>>
    BY <1>6, Months DEF DateChanges
  <2>2. (\A e \in Dates : e \in Nat) /\ \A i \in Schedulers : round[i].day \in Nat
    BY <1>3, DateFacts
  <2>3. TimeInv'
    BY <1>3, <2>1, <2>2 DEF RecurringIInv, TimeInv
  <2>4. OneExpensePerDraft'
    BY <1>1, <1>3, <2>1, <2>2 DEF RecurringIInv, OneExpensePerDraft
  <2>. QED
    BY <1>1, <1>2, <2>1, <2>3, <2>4 DEF RecurringIInv, RecurringTypeOK
<1>. QED
  BY <1>4, <1>5, <1>6

LEMMA RecurringHolds == RecurringSpec => []RecurringIInv
<1>1. RecurringIInv /\ [RecurringNext]_billVars => RecurringIInv'
  <2>. SUFFICES ASSUME RecurringIInv, [RecurringNext]_billVars
                PROVE  RecurringIInv'
    OBVIOUS
  <2>1. CASE RecurringNext
    BY <2>1, RulesKeepRecurring, DraftsKeepRecurring, GenerateKeepsRecurring, RunsKeepRecurring
    DEF RecurringNext
  <2>2. CASE UNCHANGED billVars
    <3>1. UNCHANGED <<today, inUse, rule, draft, booked, since, round>>
      BY <2>2 DEF billVars
    <3>2. \A q \in Bills : RuleInv(q)'
      BY <3>1, RuleStays DEF RecurringIInv
    <3>. QED
      BY <3>1, <3>2 DEF RecurringIInv, RecurringTypeOK, TimeInv, OneExpensePerDraft
  <2>. QED
    BY <2>1, <2>2
<1>. QED
  BY <1>1, RecurringStarts, PTL DEF RecurringSpec

\* Rules, drafts and runs have their types.
THEOREM RecurringTypeCorrect == RecurringSpec => []RecurringTypeOK
<1>1. RecurringIInv => RecurringTypeOK
  BY DEF RecurringIInv
<1>. QED
  BY <1>1, RecurringHolds, PTL

\* No month of a rule is lost or billed twice, for any calendar, rules and
\* schedulers, however long the server was down (RecurringSchedulerService.run).
THEOREM MonthsBilledOnce == RecurringSpec => []EachMonthIsBilledOnce
<1>1. RecurringIInv => EachMonthIsBilledOnce
  <2>. SUFFICES ASSUME RecurringIInv PROVE NoMonthIsLost
    BY DEF EachMonthIsBilledOnce, RecurringIInv
  <2>. SUFFICES ASSUME NEW r \in Bills, rule[r] # NoRule
                PROVE  /\ Planned(r, {rule[r].nextOn}) # {}
                       /\ \A d \in Planned(r, Dates) :
                            since[r] <= d /\ d < rule[r].nextOn => draft[r][d] # "NONE"
    BY DEF NoMonthIsLost
  <2>1. RuleInv(r)
    BY DEF RecurringIInv
  <2>. QED
    BY <2>1 DEF RuleInv, OfRule, Planned
<1>. QED
  BY <1>1, RecurringHolds, PTL

-----------------------------------------------------------------------------
(* HouseSummary.  The argument: the holder of the lease was the last to take  *)
(* it (LeaseInv), so summaries are saved and paid in that order (PaidInv); and *)
(* each version of the row is one content, so a tab whose version is that of  *)
(* the row showed the row (SeenInv).                                          *)

\* Who saw a version saw what was saved under it.
Seen(v) == v.version < row.version \/ v = row

PageSeen(r) == Seen(r.shown) /\ (r.load \notin {None, Asked} => Seen(r.load))
GenSeen(r) ==
  r.stage \in {"leaving", "done"} /\ r.answer # Failed => r.answer \in Views /\ Seen(r.answer)
SaveSeen(r) ==
  /\ Seen(r.basis)
  /\ r.stage = "done" /\ r.answer # Failed => r.answer \in Views /\ Seen(r.answer)

SeenInv ==
  /\ \A t \in Tabs : PageSeen(page[t])
  /\ \A g \in Generations : GenSeen(gen[g])
  /\ \A s \in Saves : SaveSeen(save[s])

\* Who holds the lease was the last to take it, and nobody saved a summary since.
LeaseInv ==
  /\ \A i \in DOMAIN begun : gen[begun[i]].stage \notin {"none", "asked"}
  /\ \A i, j \in DOMAIN begun : begun[i] = begun[j] => i = j
  /\ lease.holder # None =>
       /\ begun # <<>> /\ lease.holder = begun[Len(begun)]
       /\ ~gen[lease.holder].regenerate => row.summary = None

\* What was saved was paid, in the order in which the lease was taken.
Spent == \A g \in Generations : use[g] = "COMPLETED" <=> \E i \in DOMAIN kept : kept[i] = g
Shown == row.summary = IF kept = <<>> THEN None ELSE kept[Len(kept)]
InOrder ==
  /\ \A i \in DOMAIN kept : \E m \in DOMAIN begun : begun[m] = kept[i]
  /\ \A i, j \in DOMAIN kept, m, n \in DOMAIN begun :
       i < j /\ begun[m] = kept[i] /\ begun[n] = kept[j] => m < n
OneNew ==
  \A i, j \in DOMAIN kept : ~gen[kept[i]].regenerate /\ ~gen[kept[j]].regenerate => i = j
PaidInv == Spent /\ Shown /\ InOrder /\ OneNew

SummaryIInv == SummaryTypeOK /\ SeenInv /\ LeaseInv /\ PaidInv

-----------------------------------------------------------------------------
LEMMA SummaryStarts == SummaryInit => SummaryIInv
<1>. SUFFICES ASSUME SummaryInit PROVE SummaryIInv
  OBVIOUS
<1>1. Empty \in Views /\ row = Empty /\ Seen(Empty)
  BY DEF SummaryInit, Empty, Views, Seen
<1>2. \A t \in Tabs : page[t] \in PageRows /\ PageSeen(page[t])
  <2>. DEFINE new == [shown |-> Empty, typed |-> None, load |-> Asked, act |-> None,
                      error |-> FALSE, loaded |-> FALSE]
  <2>1. new \in PageRows
    BY <1>1 DEF PageRows
  <2>2. PageSeen(new)
    BY <1>1 DEF PageSeen
  <2>. QED
    BY <2>1, <2>2 DEF SummaryInit
<1>3. \A g \in Generations : gen[g] \in GenRows /\ gen[g].stage = "none"
  BY DEF SummaryInit, GenRows
<1>4. \A s \in Saves : save[s] \in SaveRows /\ save[s].stage = "none" /\ save[s].basis = Empty
  BY <1>1 DEF SummaryInit, SaveRows
<1>5. SummaryTypeOK
  <2>1. gen \in [Generations -> GenRows] /\ save \in [Saves -> SaveRows] /\ page \in [Tabs -> PageRows]
    BY <1>2, <1>3, <1>4 DEF SummaryInit
  <2>2. lease \in [holder : Generations \cup {None}, live : BOOLEAN]
    BY DEF SummaryInit, Free
  <2>3. use \in [Generations -> {"none", "PENDING", "COMPLETED", "FAILED"}]
    BY DEF SummaryInit
  <2>4. faults \in Nat /\ begun \in Seq(Generations) /\ kept \in Seq(Generations)
    BY DEF SummaryInit
  <2>. QED
    BY <1>1, <2>1, <2>2, <2>3, <2>4 DEF SummaryTypeOK
<1>6. SeenInv
  BY <1>1, <1>2, <1>3, <1>4 DEF SeenInv, GenSeen, SaveSeen
<1>7. LeaseInv
  BY DEF SummaryInit, LeaseInv, Free
<1>8. PaidInv
  BY <1>1 DEF SummaryInit, PaidInv, Spent, Shown, InOrder, OneNew, Empty
<1>. QED
  BY <1>5, <1>6, <1>7, <1>8 DEF SummaryIInv

\* A write of the row raises its version.
Rises == row' = row \/ (row' \in Views /\ row'.version = row.version + 1)

LEMMA SeenStays ==
  ASSUME SummaryTypeOK, Rises, NEW v \in Views, Seen(v)
  PROVE  Seen(v)'
  BY DEF SummaryTypeOK, Rises, Seen, Views

LEMMA OthersSeen ==
  ASSUME SummaryTypeOK, SeenInv, Rises
  PROVE  /\ \A t \in Tabs : page'[t] = page[t] => PageSeen(page[t])'
         /\ \A g \in Generations : gen'[g] = gen[g] => GenSeen(gen[g])'
         /\ \A s \in Saves : save'[s] = save[s] => SaveSeen(save[s])'
<1>1. \A v \in Views : Seen(v) => Seen(v)'
  BY SeenStays
<1>2. ASSUME NEW t \in Tabs, page'[t] = page[t] PROVE PageSeen(page[t])'
  <2>1. /\ page[t].shown \in Views
        /\ page[t].load \notin {None, Asked} => page[t].load \in Views
    BY DEF SummaryTypeOK, PageRows
  <2>2. PageSeen(page[t])
    BY DEF SeenInv
  <2>3. Seen(page[t].shown)' /\ (page[t].load \notin {None, Asked} => Seen(page[t].load)')
    BY <1>1, <1>2, <2>1, <2>2 DEF PageSeen, Seen
  <2>. QED
    BY <1>2, <2>3 DEF PageSeen, Seen
<1>3. ASSUME NEW g \in Generations, gen'[g] = gen[g] PROVE GenSeen(gen[g])'
  BY <1>1, <1>3 DEF SeenInv, GenSeen, Seen
<1>4. ASSUME NEW s \in Saves, save'[s] = save[s] PROVE SaveSeen(save[s])'
  <2>1. save[s].basis \in Views /\ SaveSeen(save[s])
    BY DEF SummaryTypeOK, SaveRows, SeenInv
  <2>. QED
    BY <1>1, <1>4, <2>1 DEF SaveSeen, Seen
<1>. QED
  BY <1>2, <1>3, <1>4

-----------------------------------------------------------------------------
(* Steps of a tab alone.                                                      *)

PageOnly(t, new) ==
  /\ page' = [page EXCEPT ![t] = new]
  /\ UNCHANGED <<serverVars, requestVars, history>>

LEMMA TabKeeps ==
  ASSUME SummaryIInv, NEW t \in Tabs, NEW new \in PageRows, PageSeen(new), PageOnly(t, new),
         faults' \in Nat
  PROVE  SummaryIInv'
<1>1. SummaryTypeOK'
  BY DEF SummaryIInv, SummaryTypeOK, PageOnly, serverVars, requestVars, history
<1>2. SeenInv'
  BY DEF SummaryIInv, SummaryTypeOK, SeenInv, PageSeen, GenSeen, SaveSeen, Seen, PageOnly,
         serverVars, requestVars, history
<1>3. LeaseInv' /\ PaidInv'
  BY DEF SummaryIInv, LeaseInv, PaidInv, Spent, Shown, InOrder, OneNew, PageOnly,
         serverVars, requestVars, history
<1>. QED
  BY <1>1, <1>2, <1>3 DEF SummaryIInv

\* What the tab makes of an answer, or of its user.
LEMMA TabSteps ==
  ASSUME SummaryIInv, NEW t \in Tabs, Reading(t),
         \A g \in Generations : ~AskSummary(t, g), \A s \in Saves : ~AskSave(t, s)
  PROVE  SummaryIInv'
<1>. USE DEF SummaryIInv
<1>1. page[t] \in PageRows /\ PageSeen(page[t]) /\ page \in [Tabs -> PageRows]
  BY DEF SummaryTypeOK, SeenInv
<1>2. row \in Views /\ Seen(row) /\ faults \in Nat
  BY DEF SummaryTypeOK, Seen
<1>3. CASE Load(t)
  <2>. DEFINE new == [page[t] EXCEPT !.load = Asked]
  <2>1. new \in PageRows /\ PageSeen(new)
    BY <1>1 DEF PageRows, PageSeen
  <2>2. PageOnly(t, new) /\ faults' \in Nat
    BY <1>1, <1>2, <1>3 DEF Load, PageOnly, history
  <2>. QED
    BY <2>1, <2>2, TabKeeps
<1>4. CASE LoadAnswered(t)
  <2>. DEFINE new == [page[t] EXCEPT !.load = row]
  <2>1. new \in PageRows /\ PageSeen(new)
    BY <1>1, <1>2 DEF PageRows, PageSeen
  <2>2. PageOnly(t, new) /\ faults' \in Nat
    BY <1>1, <1>2, <1>4 DEF LoadAnswered, PageOnly, history
  <2>. QED
    BY <2>1, <2>2, TabKeeps
<1>5. CASE LoadReceived(t)
  <2>. DEFINE new == [page[t] EXCEPT !.shown = page[t].load, !.load = None,
                                     !.error = FALSE, !.loaded = TRUE]
  <2>1. new \in PageRows /\ PageSeen(new)
    BY <1>1, <1>5 DEF PageRows, PageSeen, LoadReceived
  <2>2. PageOnly(t, new) /\ faults' \in Nat
    BY <1>1, <1>2, <1>5 DEF LoadReceived, PageOnly, history
  <2>. QED
    BY <2>1, <2>2, TabKeeps
<1>6. CASE LoadFails(t)
  <2>. DEFINE new == [page[t] EXCEPT !.load = None, !.error = TRUE, !.loaded = TRUE]
  <2>1. new \in PageRows /\ PageSeen(new)
    BY <1>1 DEF PageRows, PageSeen
  <2>2. PageOnly(t, new) /\ faults' \in Nat
    <3>1. faults' \in Nat
      BY <1>2, <1>6 DEF LoadFails, Fault
    <3>2. page' = [page EXCEPT ![t] = new]
      BY <1>1, <1>6 DEF LoadFails
    <3>. QED
      BY <1>6, <3>1, <3>2 DEF LoadFails, PageOnly
  <2>. QED
    BY <2>1, <2>2, TabKeeps
<1>7. CASE TabGivesUp(t)
  <2>. DEFINE err == page[t].error \/ page[t].act \in Saves
              new == [page[t] EXCEPT !.act = None, !.error = err]
  <2>1. new \in PageRows /\ PageSeen(new)
    BY <1>1 DEF PageRows, PageSeen
  <2>2. PageOnly(t, new) /\ faults' \in Nat
    <3>1. faults' \in Nat
      BY <1>2, <1>7 DEF TabGivesUp, Fault
    <3>2. page' = [page EXCEPT ![t] = new]
      BY <1>1, <1>7 DEF TabGivesUp
    <3>. QED
      BY <1>7, <3>1, <3>2 DEF TabGivesUp, PageOnly
  <2>. QED
    BY <2>1, <2>2, TabKeeps
<1>8. ASSUME NEW text \in Remarks, Type(t, text) PROVE SummaryIInv'
  <2>. DEFINE new == [page[t] EXCEPT !.typed = text]
  <2>1. new \in PageRows /\ PageSeen(new)
    BY <1>1 DEF PageRows, PageSeen
  <2>2. PageOnly(t, new) /\ faults' \in Nat
    BY <1>1, <1>2, <1>8 DEF Type, PageOnly, history
  <2>. QED
    BY <2>1, <2>2, TabKeeps
<1>9. ASSUME NEW g \in Generations, SummaryReceived(t, g) PROVE SummaryIInv'
  <2>. DEFINE ans == IF gen[g].answer = Failed THEN page[t].shown ELSE gen[g].answer
              err == page[t].error /\ gen[g].answer = Failed
              new == [page[t] EXCEPT !.act = None, !.shown = ans, !.error = err]
  <2>1. ans \in Views /\ Seen(ans)
    BY <1>1, <1>9 DEF SummaryReceived, SeenInv, GenSeen, PageRows, PageSeen
  <2>2. err \in BOOLEAN
    BY <1>1 DEF PageRows
  <2>3. PageOnly(t, new) /\ faults' \in Nat
    BY <1>1, <1>2, <1>9 DEF SummaryReceived, PageOnly, history
  <2>. HIDE DEF ans, err
  <2>4. new \in PageRows /\ PageSeen(new)
    BY <1>1, <2>1, <2>2 DEF PageRows, PageSeen
  <2>. QED
    BY <2>3, <2>4, TabKeeps
<1>10. ASSUME NEW s \in Saves, SaveReceived(t, s) PROVE SummaryIInv'
  <2>. DEFINE ans == IF save[s].answer = Failed THEN page[t].shown ELSE save[s].answer
              txt == IF save[s].answer = Failed THEN page[t].typed ELSE None
              err == save[s].answer = Failed
              new == [page[t] EXCEPT !.act = None, !.shown = ans, !.typed = txt, !.error = err]
  <2>1. ans \in Views /\ Seen(ans) /\ txt \in Remarks \cup {None} /\ err \in BOOLEAN
    BY <1>1, <1>10 DEF SaveReceived, SeenInv, SaveSeen, PageRows, PageSeen
  <2>2. PageOnly(t, new) /\ faults' \in Nat
    BY <1>1, <1>2, <1>10 DEF SaveReceived, PageOnly, history
  <2>. HIDE DEF ans, txt, err
  <2>3. new \in PageRows /\ PageSeen(new)
    BY <1>1, <2>1 DEF PageRows, PageSeen
  <2>. QED
    BY <2>2, <2>3, TabKeeps
<1>. QED
  BY <1>3, <1>4, <1>5, <1>6, <1>7, <1>8, <1>9, <1>10 DEF Reading

LEMMA AskSummaryKeeps ==
  ASSUME SummaryIInv, NEW t \in Tabs, NEW g \in Generations, AskSummary(t, g)
  PROVE  SummaryIInv'
<1>. USE DEF SummaryIInv
<1>. DEFINE req == [stage |-> "asked", regenerate |-> page[t].shown # Empty, answer |-> None]
            new == [page[t] EXCEPT !.act = g]
<1>1. page[t] \in PageRows /\ PageSeen(page[t]) /\ page \in [Tabs -> PageRows]
  BY DEF SummaryTypeOK, SeenInv
<1>2. gen' = [gen EXCEPT ![g] = req] /\ page' = [page EXCEPT ![t] = new] /\ gen[g].stage = "none"
  BY <1>1 DEF AskSummary
<1>3. UNCHANGED <<row, lease, use, save, faults, begun, kept>>
  BY DEF AskSummary, serverVars, history
<1>4. new \in PageRows /\ PageSeen(new) /\ req \in GenRows
  BY <1>1 DEF PageRows, PageSeen, GenRows
<1>5. req.stage = "asked"
  OBVIOUS
<1>. HIDE DEF req, new
<1>6. SummaryTypeOK'
  BY <1>2, <1>3, <1>4 DEF SummaryTypeOK
<1>7. SeenInv'
  BY <1>2, <1>3, <1>4, <1>5 DEF SummaryTypeOK, SeenInv, PageSeen, GenSeen, SaveSeen, Seen
<1>8. \A i \in DOMAIN begun : begun[i] # g
  BY <1>2 DEF LeaseInv
<1>9. \A i \in DOMAIN kept : kept[i] # g
  BY <1>8 DEF PaidInv, InOrder
<1>10. gen \in [Generations -> GenRows] /\ \A h \in Generations : h # g => gen'[h] = gen[h]
  BY <1>2 DEF SummaryTypeOK
<1>11. /\ \A i \in DOMAIN begun : begun[i] \in Generations
       /\ \A i \in DOMAIN kept : kept[i] \in Generations
       /\ begun # <<>> => Len(begun) \in DOMAIN begun
  BY DEF SummaryTypeOK
<1>12. LeaseInv'
  BY <1>3, <1>8, <1>10, <1>11 DEF LeaseInv
<1>13. PaidInv'
  BY <1>3, <1>9, <1>10, <1>11 DEF PaidInv, Spent, Shown, InOrder, OneNew
<1>. QED
  BY <1>6, <1>7, <1>12, <1>13

LEMMA AskSaveKeeps ==
  ASSUME SummaryIInv, NEW t \in Tabs, NEW s \in Saves, AskSave(t, s)
  PROVE  SummaryIInv'
<1>. USE DEF SummaryIInv
<1>. DEFINE req == [stage |-> "sent", notes |-> page[t].typed, basis |-> page[t].shown,
                    answer |-> None]
            new == [page[t] EXCEPT !.act = s, !.error = FALSE]
<1>1. page[t] \in PageRows /\ PageSeen(page[t]) /\ page \in [Tabs -> PageRows]
  BY DEF SummaryTypeOK, SeenInv
<1>2. save' = [save EXCEPT ![s] = req] /\ page' = [page EXCEPT ![t] = new]
  BY <1>1 DEF AskSave
<1>3. UNCHANGED <<row, lease, use, gen, faults, begun, kept>>
  BY DEF AskSave, serverVars, history
<1>4. new \in PageRows /\ PageSeen(new) /\ req \in SaveRows /\ SaveSeen(req)
  BY <1>1 DEF PageRows, PageSeen, SaveRows, SaveSeen
<1>. HIDE DEF req, new
<1>5. SummaryTypeOK'
  BY <1>2, <1>3, <1>4 DEF SummaryTypeOK
<1>6. SeenInv'
  BY <1>2, <1>3, <1>4 DEF SummaryTypeOK, SeenInv, PageSeen, GenSeen, SaveSeen, Seen
<1>7. LeaseInv' /\ PaidInv'
  BY <1>3 DEF LeaseInv, PaidInv, Spent, Shown, InOrder, OneNew
<1>. QED
  BY <1>5, <1>6, <1>7

-----------------------------------------------------------------------------
(* Steps of a generation.                                                     *)

\* What one says of the tables of requests, once their rows are known.
LEMMA SummaryRows ==
  ASSUME SummaryIInv
  PROVE  /\ row \in Views /\ Seen(row) /\ row.version \in Nat
         /\ lease \in [holder : Generations \cup {None}, live : BOOLEAN]
         /\ use \in [Generations -> {"none", "PENDING", "COMPLETED", "FAILED"}]
         /\ gen \in [Generations -> GenRows] /\ save \in [Saves -> SaveRows]
         /\ faults \in Nat
         /\ begun \in Seq(Generations) /\ kept \in Seq(Generations)
         /\ \A i \in DOMAIN begun : begun[i] \in Generations
         /\ \A i \in DOMAIN kept : kept[i] \in Generations
         /\ begun # <<>> => Len(begun) \in DOMAIN begun
         /\ kept # <<>> => Len(kept) \in DOMAIN kept
  BY DEF SummaryIInv, SummaryTypeOK, Seen, Views

\* A step of a generation that has begun leaves who regenerates alone.
GenOnly(g, new) ==
  /\ gen' = [gen EXCEPT ![g] = new]
  /\ new.regenerate = gen[g].regenerate
  /\ new.stage \notin {"none", "asked"}

LEMMA LateSteps ==
  ASSUME SummaryIInv, NEW g \in Generations, NEW new \in GenRows, GenSeen(new), GenOnly(g, new),
         UNCHANGED <<row, save, page, history>>,
         lease' = lease \/ (lease' \in [holder : Generations \cup {None}, live : BOOLEAN]
                            /\ lease'.holder \in {None, lease.holder}),
         use' \in [Generations -> {"none", "PENDING", "COMPLETED", "FAILED"}],
         \A h \in Generations : use'[h] = "COMPLETED" <=> use[h] = "COMPLETED",
         faults' \in Nat
  PROVE  SummaryIInv'
<1>. USE SummaryRows DEF SummaryIInv
<1>0. UNCHANGED <<row, save, page, begun, kept>>
  BY DEF history
<1>1. SummaryTypeOK'
  BY <1>0 DEF SummaryTypeOK, GenOnly
<1>2. SeenInv'
  <2>1. \A h \in Generations : GenSeen(gen[h])'
    BY <1>0 DEF SeenInv, GenOnly, GenSeen, Seen
  <2>. QED
    BY <2>1, <1>0 DEF SeenInv, PageSeen, SaveSeen, Seen
<1>3. \A h \in Generations : /\ gen'[h].regenerate = gen[h].regenerate
                             /\ gen[h].stage \notin {"none", "asked"} =>
                                  gen'[h].stage \notin {"none", "asked"}
  BY DEF GenOnly
<1>4. lease'.holder \in {None, lease.holder}
  OBVIOUS
<1>5. LeaseInv'
  BY <1>0, <1>3, <1>4 DEF LeaseInv
<1>6. Spent' /\ Shown' /\ InOrder'
  BY <1>0 DEF PaidInv, Spent, Shown, InOrder
<1>7. OneNew'
  BY <1>0, <1>3 DEF PaidInv, OneNew
<1>. QED
  BY <1>1, <1>2, <1>5, <1>6, <1>7 DEF PaidInv

LEMMA GenLateKeeps ==
  ASSUME SummaryIInv, NEW g \in Generations,
         \/ BeginGenerate(g) /\ (Cached(g) \/ lease.live)
         \/ Complete(g) /\ ~(use[g] = "PENDING" /\ Holds(g))
         \/ GenerateFails(g) \/ Release(g) \/ GetSaved(g) \/ Finally(g) \/ GeneratorDies(g)
  PROVE  SummaryIInv'
<1>. USE SummaryRows
<1>1. gen[g] \in GenRows /\ GenSeen(gen[g]) /\ Failed \in {Failed}
  BY DEF SummaryIInv, SeenInv
<1>2. CASE BeginGenerate(g) /\ (Cached(g) \/ lease.live)
  <2>. DEFINE ans == IF Cached(g) THEN row ELSE Failed
              new == [gen[g] EXCEPT !.stage = "done", !.answer = ans]
  <2>1. ans \in Views \cup {Failed} /\ (ans # Failed => ans \in Views /\ Seen(ans))
    OBVIOUS
  <2>2. gen' = [gen EXCEPT ![g] = new] /\ UNCHANGED <<row, save, page, lease, use, faults, begun, kept>>
    BY <1>2 DEF BeginGenerate
  <2>. HIDE DEF ans
  <2>3. new \in GenRows /\ GenSeen(new) /\ GenOnly(g, new)
    BY <1>1, <2>1, <2>2 DEF GenRows, GenSeen, GenOnly
  <2>. QED
    BY <2>2, <2>3, LateSteps DEF history
<1>3. CASE Complete(g) /\ ~(use[g] = "PENDING" /\ Holds(g))
  <2>. DEFINE new == [gen[g] EXCEPT !.stage = "failed"]
  <2>1. gen' = [gen EXCEPT ![g] = new]
        /\ UNCHANGED <<row, save, page, lease, use, faults, begun, kept>>
    BY <1>3 DEF Complete, serverVars
  <2>2. new \in GenRows /\ GenSeen(new) /\ GenOnly(g, new)
    BY <1>1, <2>1 DEF GenRows, GenSeen, GenOnly
  <2>. QED
    BY <2>1, <2>2, LateSteps DEF history
<1>4. CASE GenerateFails(g)
  <2>. DEFINE new == [gen[g] EXCEPT !.stage = "failed"]
  <2>1. gen' = [gen EXCEPT ![g] = new] /\ UNCHANGED <<row, save, page, lease, use, begun, kept>>
        /\ faults' \in Nat
    BY <1>4 DEF GenerateFails, Fault, serverVars, history
  <2>2. new \in GenRows /\ GenSeen(new) /\ GenOnly(g, new)
    BY <1>1, <2>1 DEF GenRows, GenSeen, GenOnly
  <2>. QED
    BY <2>1, <2>2, LateSteps DEF history
<1>5. CASE Release(g)
  <2>. DEFINE new == [gen[g] EXCEPT !.stage = "leaving", !.answer = Failed]
  <2>1. gen' = [gen EXCEPT ![g] = new] /\ UNCHANGED <<row, save, page, lease, faults, begun, kept>>
    BY <1>5 DEF Release, history
  <2>2. new \in GenRows /\ GenSeen(new) /\ GenOnly(g, new)
    BY <1>1, <2>1 DEF GenRows, GenSeen, GenOnly
  <2>3. /\ use' \in [Generations -> {"none", "PENDING", "COMPLETED", "FAILED"}]
        /\ \A h \in Generations : use'[h] = "COMPLETED" <=> use[h] = "COMPLETED"
    BY <1>5 DEF Release, Released
  <2>. QED
    BY <2>1, <2>2, <2>3, LateSteps DEF history
<1>6. CASE GetSaved(g)
  <2>. DEFINE new == [gen[g] EXCEPT !.stage = "leaving", !.answer = row]
  <2>1. gen' = [gen EXCEPT ![g] = new]
        /\ UNCHANGED <<row, save, page, lease, use, faults, begun, kept>>
    BY <1>6 DEF GetSaved, serverVars, history
  <2>2. new \in GenRows /\ GenSeen(new) /\ GenOnly(g, new)
    BY <1>1, <2>1 DEF GenRows, GenSeen, GenOnly
  <2>. QED
    BY <2>1, <2>2, LateSteps DEF history
<1>7. CASE Finally(g)
  <2>. DEFINE new == [gen[g] EXCEPT !.stage = "done"]
  <2>1. gen' = [gen EXCEPT ![g] = new] /\ UNCHANGED <<row, save, page, use, faults, begun, kept>>
    BY <1>7 DEF Finally, history
  <2>2. new \in GenRows /\ GenSeen(new) /\ GenOnly(g, new)
    BY <1>1, <1>7, <2>1 DEF GenRows, GenSeen, GenOnly, Finally
  <2>3. Free \in [holder : Generations \cup {None}, live : BOOLEAN] /\ Free.holder = None
    BY DEF Free
  <2>4. lease' = lease \/ lease' = Free
    BY <1>7 DEF Finally
  <2>5. lease' = lease \/ (lease' \in [holder : Generations \cup {None}, live : BOOLEAN]
                           /\ lease'.holder \in {None, lease.holder})
    BY <2>3, <2>4
  <2>. QED
    BY <2>1, <2>2, <2>5, LateSteps DEF history
<1>8. CASE GeneratorDies(g)
  <2>. DEFINE new == [gen[g] EXCEPT !.stage = "done", !.answer = Failed]
  <2>1. gen' = [gen EXCEPT ![g] = new] /\ UNCHANGED <<row, save, page, lease, use, begun, kept>>
    BY <1>8 DEF GeneratorDies, serverVars, history
  <2>3. faults' \in Nat
    BY <1>8 DEF GeneratorDies, Fault
  <2>2. new \in GenRows /\ GenSeen(new) /\ GenOnly(g, new)
    BY <1>1, <2>1 DEF GenRows, GenSeen, GenOnly
  <2>. QED
    BY <2>1, <2>2, <2>3, LateSteps DEF history
<1>. QED
  BY <1>2, <1>3, <1>4, <1>5, <1>6, <1>7, <1>8

\* The lease is taken: what is PENDING was not saved.
LEMMA BeginKeeps ==
  ASSUME SummaryIInv, NEW g \in Generations, BeginGenerate(g), ~(Cached(g) \/ lease.live)
  PROVE  SummaryIInv'
<1>. USE SummaryRows DEF SummaryIInv
<1>. DEFINE new == [gen[g] EXCEPT !.stage = "calling"]
<1>1. /\ gen' = [gen EXCEPT ![g] = new] /\ begun' = Append(begun, g)
      /\ lease' = [holder |-> g, live |-> TRUE] /\ use' = [use EXCEPT ![g] = "PENDING"]
      /\ UNCHANGED <<row, save, page, faults, kept>>
      /\ gen[g].stage = "asked"
  BY DEF BeginGenerate
<1>2. gen[g] \in GenRows
  OBVIOUS
<1>3. new \in GenRows /\ new.stage = "calling" /\ new.regenerate = gen[g].regenerate
  BY <1>2 DEF GenRows
<1>. HIDE DEF new
<1>4. gen[g].regenerate \/ row.summary = None
  BY <1>2 DEF Cached, GenRows
<1>5. \A i \in DOMAIN begun : begun[i] # g
  BY <1>1 DEF LeaseInv
<1>6. \A i \in DOMAIN kept : kept[i] # g
  BY <1>5 DEF PaidInv, InOrder
<1>7. /\ begun' \in Seq(Generations) /\ Len(begun') = Len(begun) + 1
      /\ DOMAIN begun = 1..Len(begun) /\ DOMAIN begun' = 1..(Len(begun) + 1)
      /\ Len(begun) \in Nat
      /\ \A i \in DOMAIN begun : begun'[i] = begun[i]
      /\ begun'[Len(begun) + 1] = g
      /\ begun' # <<>>
  BY <1>1
<1>8. SummaryTypeOK'
  <2>1. lease' \in [holder : Generations \cup {None}, live : BOOLEAN]
    BY <1>1
  <2>2. use' \in [Generations -> {"none", "PENDING", "COMPLETED", "FAILED"}]
    BY <1>1
  <2>. QED
    BY <2>1, <2>2, <1>1, <1>3, <1>7 DEF SummaryTypeOK
<1>9. SeenInv'
  <2>1. \A h \in Generations : GenSeen(gen[h])'
    BY <1>1, <1>3 DEF SeenInv, GenSeen, Seen
  <2>. QED
    BY <1>1, <2>1 DEF SeenInv, PageSeen, SaveSeen, Seen
<1>10. \A h \in Generations : gen'[h] = IF h = g THEN new ELSE gen[h]
  BY <1>1
<1>11. LeaseInv'
  <2>1. \A i \in DOMAIN begun' : gen'[begun'[i]].stage \notin {"none", "asked"}
    BY <1>3, <1>5, <1>7, <1>10 DEF LeaseInv
  <2>2. \A i, j \in DOMAIN begun' : begun'[i] = begun'[j] => i = j
    BY <1>5, <1>7, SMTT(30) DEF LeaseInv
  <2>3. lease'.holder = g
    BY <1>1
  <2>4. /\ lease'.holder = begun'[Len(begun')]
        /\ ~gen'[lease'.holder].regenerate => row'.summary = None
    BY <1>1, <1>3, <1>4, <1>7, <1>10, <2>3
  <2>. QED
    BY <1>7, <2>1, <2>2, <2>4 DEF LeaseInv
<1>12. Spent' /\ Shown'
  BY <1>1, <1>6 DEF PaidInv, Spent, Shown
<1>13. InOrder'
  <2>1. \A i \in DOMAIN kept, n \in DOMAIN begun' : begun'[n] = kept[i] =>
          n \in DOMAIN begun /\ begun[n] = kept[i]
    BY <1>6, <1>7
  <2>2. \A i \in DOMAIN kept : \E m \in DOMAIN begun' : begun'[m] = kept[i]
    BY <1>7 DEF PaidInv, InOrder
  <2>3. ASSUME NEW i \in DOMAIN kept, NEW j \in DOMAIN kept, NEW m \in DOMAIN begun',
               NEW n \in DOMAIN begun', i < j, begun'[m] = kept[i], begun'[n] = kept[j]
        PROVE  m < n
    BY <2>1, <2>3 DEF PaidInv, InOrder
  <2>4. kept' = kept
    BY <1>1
  <2>. QED
    BY <2>2, <2>3, <2>4 DEF InOrder
<1>14. OneNew'
  BY <1>1, <1>6, <1>10 DEF PaidInv, OneNew
<1>. QED
  BY <1>8, <1>9, <1>11, <1>12, <1>13, <1>14 DEF PaidInv

\* The summary is saved: whoever holds the lease was the last to take it.
LEMMA CompleteKeeps ==
  ASSUME SummaryIInv, NEW g \in Generations, Complete(g), use[g] = "PENDING", Holds(g), g # None
  PROVE  SummaryIInv'
<1>. USE SummaryRows DEF SummaryIInv
<1>. DEFINE new == [gen[g] EXCEPT !.stage = "saved"]
            written == [summary |-> g, notes |-> NotesKept(row.notes), version |-> row.version + 1]
<1>1. /\ gen' = [gen EXCEPT ![g] = new] /\ kept' = Append(kept, g)
      /\ lease' = Free /\ use' = [use EXCEPT ![g] = "COMPLETED"]
      /\ row' = written
      /\ UNCHANGED <<save, page, faults, begun>>
  BY DEF Complete
<1>2. gen[g] \in GenRows
  OBVIOUS
<1>3. new \in GenRows /\ new.stage = "saved" /\ new.regenerate = gen[g].regenerate
  BY <1>2 DEF GenRows
<1>4. NotesKept(row.notes) \in Remarks \cup {Highlights, None}
  BY DEF NotesKept, Views
<1>5. written \in Views /\ written.version = row.version + 1 /\ written.summary = g
  BY <1>4 DEF Views
<1>. HIDE DEF new, written
<1>6. begun # <<>> /\ g = begun[Len(begun)] /\ (~gen[g].regenerate => row.summary = None)
  BY DEF LeaseInv, Holds
<1>7. \A i \in DOMAIN kept : kept[i] # g
  BY DEF PaidInv, Spent
<1>8. \A h \in Generations : gen'[h] = IF h = g THEN new ELSE gen[h]
  BY <1>1
<1>9. /\ kept' \in Seq(Generations) /\ Len(kept') = Len(kept) + 1
      /\ DOMAIN kept = 1..Len(kept) /\ DOMAIN kept' = 1..(Len(kept) + 1)
      /\ Len(kept) \in Nat
      /\ \A i \in DOMAIN kept : kept'[i] = kept[i]
      /\ kept'[Len(kept) + 1] = g
      /\ kept' # <<>>
  BY <1>1
<1>10. Free \in [holder : Generations \cup {None}, live : BOOLEAN] /\ Free.holder = None
  BY DEF Free
<1>11. SummaryTypeOK'
  <2>1. use' \in [Generations -> {"none", "PENDING", "COMPLETED", "FAILED"}]
    BY <1>1
  <2>. QED
    BY <2>1, <1>1, <1>3, <1>5, <1>9, <1>10 DEF SummaryTypeOK
<1>12. Rises
  BY <1>1, <1>5 DEF Rises
<1>13. SeenInv'
  <2>1. \A h \in Generations : GenSeen(gen[h])'
    <3>1. GenSeen(gen[g])'
      BY <1>1, <1>3, <1>8 DEF GenSeen
    <3>. QED
      BY <3>1, <1>8, <1>12, OthersSeen
  <2>. QED
    BY <1>1, <2>1, <1>12, OthersSeen DEF SeenInv
<1>14. LeaseInv'
  <2>1. \A i \in DOMAIN begun : gen'[begun[i]].stage \notin {"none", "asked"}
    BY <1>3, <1>8 DEF LeaseInv
  <2>. QED
    BY <1>1, <1>10, <2>1 DEF LeaseInv
<1>15. Spent'
  <2>1. \A h \in Generations : use'[h] = "COMPLETED" <=> h = g \/ use[h] = "COMPLETED"
    BY <1>1
  <2>2. \A h \in Generations :
          (\E i \in DOMAIN kept' : kept'[i] = h) <=> h = g \/ \E i \in DOMAIN kept : kept[i] = h
    <3>1. Len(kept) + 1 \in DOMAIN kept' /\ \A i \in DOMAIN kept : i \in DOMAIN kept'
      BY <1>9
    <3>2. \A i \in DOMAIN kept' : i \in DOMAIN kept \/ i = Len(kept) + 1
      BY <1>9
    <3>. QED
      BY <1>9, <3>1, <3>2
  <2>. QED
    BY <2>1, <2>2 DEF PaidInv, Spent
<1>16. Shown'
  BY <1>1, <1>5, <1>9 DEF Shown
<1>17. InOrder'
  <2>1. \A i \in DOMAIN kept' : \E m \in DOMAIN begun : begun[m] = kept'[i]
    BY <1>6, <1>9 DEF PaidInv, InOrder
  <2>2. ASSUME NEW i \in DOMAIN kept', NEW j \in DOMAIN kept', NEW m \in DOMAIN begun,
               NEW n \in DOMAIN begun, i < j, begun[m] = kept'[i], begun[n] = kept'[j]
        PROVE  m < n
    <3>1. i \in DOMAIN kept /\ begun[m] = kept[i]
      BY <1>9, <2>2
    <3>2. CASE j \in DOMAIN kept
      BY <1>9, <2>2, <3>1, <3>2 DEF PaidInv, InOrder
    <3>3. CASE j = Len(kept) + 1
      <4>1. n = Len(begun)
        BY <1>6, <1>9, <2>2, <3>3 DEF LeaseInv
      <4>2. m # Len(begun)
        BY <1>6, <1>7, <3>1
      <4>. QED
        BY <4>1, <4>2
    <3>. QED
      BY <1>9, <3>2, <3>3
  <2>. QED
    BY <1>1, <2>1, <2>2 DEF InOrder
<1>18. OneNew'
  <2>1. CASE ~gen[g].regenerate
    <3>1. kept = <<>>
      BY <1>6, <2>1, SummaryAssumption DEF PaidInv, Shown
    <3>. QED
      BY <1>9, <3>1 DEF OneNew
  <2>2. CASE gen[g].regenerate
    <3>1. \A i \in DOMAIN kept' : ~gen'[kept'[i]].regenerate =>
            i \in DOMAIN kept /\ ~gen[kept[i]].regenerate /\ kept'[i] = kept[i]
      <4>1. ASSUME NEW i \in DOMAIN kept', ~gen'[kept'[i]].regenerate PROVE i \in DOMAIN kept
        <5>1. gen'[g].regenerate
          BY <1>3, <1>8, <2>2
        <5>. QED
          BY <1>9, <4>1, <5>1
      <4>2. \A i \in DOMAIN kept : gen'[kept[i]] = gen[kept[i]]
        BY <1>7, <1>8
      <4>. QED
        BY <1>9, <4>1, <4>2
    <3>2. \A i, j \in DOMAIN kept :
            ~gen[kept[i]].regenerate /\ ~gen[kept[j]].regenerate => i = j
      BY DEF PaidInv, OneNew
    <3>. QED
      BY <3>1, <3>2 DEF OneNew
  <2>. QED
    BY <2>1, <2>2
<1>. QED
  BY <1>11, <1>13, <1>14, <1>15, <1>16, <1>17, <1>18 DEF PaidInv

-----------------------------------------------------------------------------
(* Notes, lapses and recovery.                                                *)

\* The version is that of the row, so what the tab showed is the row.
LEMMA BasisIsRow ==
  ASSUME SummaryIInv, NEW s \in Saves, SameVersion(s)
  PROVE  save[s].basis = row
<1>1. save[s].basis \in Views /\ Seen(save[s].basis) /\ row.version \in Nat
  BY SummaryRows DEF SummaryIInv, SeenInv, SaveSeen, SaveRows
<1>2. save[s].basis.version \in Nat
  BY <1>1 DEF Views
<1>. QED
  BY <1>1, <1>2 DEF Seen, SameVersion

LEMMA SaveKeeps ==
  ASSUME SummaryIInv, NEW s \in Saves, SaveNotes(s), None \notin Saves
  PROVE  SummaryIInv'
<1>. USE SummaryRows DEF SummaryIInv
<1>. DEFINE written == [row EXCEPT !.notes = save[s].notes, !.version = @ + 1]
            ans == IF SameVersion(s) THEN written ELSE Failed
            new == [save[s] EXCEPT !.stage = "done", !.answer = ans]
<1>1. save[s] \in SaveRows /\ SaveSeen(save[s]) /\ row \in Views
  BY DEF SeenInv
<1>2. written \in Views /\ written.version = row.version + 1 /\ written.summary = row.summary
  <2>1. save[s].notes \in Remarks \cup {Highlights, None} /\ row.version + 1 \in Nat
    BY <1>1 DEF SaveRows
  <2>. QED
    BY <1>1, <2>1 DEF Views
<1>3. save' = [save EXCEPT ![s] = new] /\ row' = IF SameVersion(s) THEN written ELSE row
  BY <1>1 DEF SaveNotes
<1>4. UNCHANGED <<lease, use, gen, page, faults, begun, kept>>
  BY DEF SaveNotes, history
<1>. HIDE DEF written
<1>5. ans \in Views \cup {Failed} /\ (ans # Failed => ans \in Views /\ ans = row')
  BY <1>2, <1>3
<1>6. Rises /\ row' \in Views /\ row'.summary = row.summary
  BY <1>2, <1>3 DEF Rises
<1>. HIDE DEF ans
<1>7. new \in SaveRows /\ new.basis = save[s].basis /\ new.stage = "done" /\ new.answer = ans
  BY <1>1, <1>5 DEF SaveRows
<1>. HIDE DEF new
<1>8. SummaryTypeOK'
  BY <1>3, <1>4, <1>6, <1>7 DEF SummaryTypeOK
<1>9. SeenInv'
  <2>1. \A r \in Saves : r # s => SaveSeen(save[r])'
    BY <1>3, <1>6, OthersSeen
  <2>2. Seen(save[s].basis)'
    <3>1. save[s].basis \in Views /\ Seen(save[s].basis)
      BY <1>1 DEF SaveRows, SaveSeen
    <3>2. \A v \in Views : Seen(v) => v.version < row'.version \/ v = row'
      BY <1>6, SeenStays DEF Seen
    <3>3. save'[s].basis = save[s].basis
      BY <1>3, <1>7
    <3>. QED
      BY <3>1, <3>2, <3>3 DEF Seen
  <2>3. SaveSeen(save[s])'
    BY <2>2, <1>3, <1>5, <1>7 DEF SaveSeen, Seen
  <2>. QED
    BY <2>1, <2>3, <1>4, <1>6, OthersSeen DEF SeenInv
<1>10. LeaseInv' /\ PaidInv'
  BY <1>4, <1>6 DEF LeaseInv, PaidInv, Spent, Shown, InOrder, OneNew
<1>. QED
  BY <1>8, <1>9, <1>10

LEMMA QuietKeeps ==
  ASSUME SummaryIInv, SummaryLapses \/ \E g \in Generations : Recover(g)
  PROVE  SummaryIInv'
<1>. USE SummaryRows DEF SummaryIInv
<1>1. CASE SummaryLapses
  <2>1. /\ UNCHANGED <<row, use, gen, save, page, begun, kept>>
        /\ lease' = [lease EXCEPT !.live = FALSE]
    BY <1>1 DEF SummaryLapses, requestVars, history
  <2>2. faults' \in Nat
    BY <1>1 DEF SummaryLapses, Fault
  <2>3. lease' \in [holder : Generations \cup {None}, live : BOOLEAN] /\ lease'.holder = lease.holder
    BY <2>1
  <2>4. SummaryTypeOK' /\ SeenInv'
    BY <2>1, <2>2, <2>3 DEF SummaryTypeOK, SeenInv, PageSeen, GenSeen, SaveSeen, Seen
  <2>5. LeaseInv' /\ PaidInv'
    BY <2>1, <2>3 DEF LeaseInv, PaidInv, Spent, Shown, InOrder, OneNew
  <2>. QED
    BY <2>4, <2>5
<1>2. ASSUME NEW g \in Generations, Recover(g) PROVE SummaryIInv'
  <2>1. /\ UNCHANGED <<row, lease, gen, save, page, faults, begun, kept>>
        /\ use[g] = "PENDING" /\ use' = [use EXCEPT ![g] = "FAILED"]
    BY <1>2 DEF Recover, Released, requestVars, history
  <2>2. /\ use' \in [Generations -> {"none", "PENDING", "COMPLETED", "FAILED"}]
        /\ \A h \in Generations : use'[h] = "COMPLETED" <=> use[h] = "COMPLETED"
    BY <2>1
  <2>3. SummaryTypeOK' /\ SeenInv'
    BY <2>1, <2>2 DEF SummaryTypeOK, SeenInv, PageSeen, GenSeen, SaveSeen, Seen
  <2>4. LeaseInv' /\ PaidInv'
    BY <2>1, <2>2 DEF LeaseInv, PaidInv, Spent, Shown, InOrder, OneNew
  <2>. QED
    BY <2>3, <2>4
<1>. QED
  BY <1>1, <1>2

-----------------------------------------------------------------------------

LEMMA SummaryStep ==
  ASSUME SummaryIInv, SummaryNext
  PROVE  SummaryIInv'
<1>. USE SummaryAssumption
<1>1. ASSUME NEW g \in Generations, Generating(g) PROVE SummaryIInv'
  <2>1. CASE BeginGenerate(g)
    BY <2>1, GenLateKeeps, BeginKeeps
  <2>2. CASE Complete(g)
    BY <2>2, GenLateKeeps, CompleteKeeps
  <2>3. CASE Recover(g)
    BY <2>3, QuietKeeps
  <2>. QED
    BY <1>1, <2>1, <2>2, <2>3, GenLateKeeps DEF Generating
<1>2. ASSUME NEW s \in Saves, SaveNotes(s) PROVE SummaryIInv'
  BY <1>2, SaveKeeps
<1>3. ASSUME NEW t \in Tabs, Reading(t) PROVE SummaryIInv'
  BY <1>3, TabSteps, AskSummaryKeeps, AskSaveKeeps
<1>. QED
  BY <1>1, <1>2, <1>3, QuietKeeps DEF SummaryNext

LEMMA SummaryStutters ==
  ASSUME SummaryIInv, UNCHANGED summaryVars
  PROVE  SummaryIInv'
  BY DEF SummaryIInv, SummaryTypeOK, SeenInv, PageSeen, GenSeen, SaveSeen, Seen, LeaseInv,
         PaidInv, Spent, Shown, InOrder, OneNew, summaryVars, serverVars, requestVars, history

LEMMA SummaryInvariant == SummarySpec => []SummaryIInv
<1>1. SummaryIInv /\ [SummaryNext]_summaryVars => SummaryIInv'
  BY SummaryStep, SummaryStutters
<1>. QED
  BY SummaryStarts, <1>1, PTL DEF SummarySpec

\* The tables of a summary, its lease, requests and tabs hold what their types say.
THEOREM SummaryTypeCorrect == SummarySpec => []SummaryTypeOK
<1>1. SummaryIInv => SummaryTypeOK
  BY DEF SummaryIInv
<1>. QED
  BY SummaryInvariant, <1>1, PTL

\* A summary is paid exactly when it is saved, the last lease writes the last
\* summary, and asking again for a lost answer costs nothing.
THEOREM SummariesPaid == SummarySpec => []SummariesArePaid
<1>1. ASSUME SummaryIInv PROVE SummariesArePaid
  <2>. USE SummaryRows, <1>1 DEF SummaryIInv
  <2>1. \A g : g \in Range(kept) <=> \E i \in DOMAIN kept : kept[i] = g
    BY DEF Range
  <2>2. {g \in Generations : use[g] = "COMPLETED"} = Range(kept)
    BY <2>1 DEF PaidInv, Spent
  <2>3. row.summary = IF kept = <<>> THEN None ELSE Last(kept)
    BY DEF PaidInv, Shown, Last
  <2>4. ASSUME NEW i \in DOMAIN kept, NEW j \in DOMAIN kept, i < j
        PROVE  Place(kept[i]) < Place(kept[j])
    <3>1. \A k \in DOMAIN kept : Place(kept[k]) \in DOMAIN begun /\ begun[Place(kept[k])] = kept[k]
      BY DEF PaidInv, InOrder, Place
    <3>. QED
      BY <2>4, <3>1 DEF PaidInv, InOrder
  <2>. DEFINE new == {g \in Range(kept) : ~gen[g].regenerate}
  <2>5. Cardinality(new) <= 1
    <3>1. \A g, h \in new : g = h
      BY <2>1 DEF PaidInv, OneNew
    <3>. HIDE DEF new
    <3>2. CASE new = {}
      BY <3>2, FS_EmptySet
    <3>3. ASSUME NEW g \in new PROVE Cardinality(new) <= 1
      <4>1. new = {g}
        BY <3>1
      <4>2. Cardinality({g}) = 1
        BY FS_Singleton
      <4>. QED
        BY <4>1, <4>2
    <3>. QED
      BY <3>2, <3>3
  <2>. QED
    BY <2>2, <2>3, <2>4, <2>5 DEF SummariesArePaid
<1>. QED
  BY SummaryInvariant, <1>1, PTL

\* Notes are replaced only by a request whose tab showed exactly what is replaced.
THEOREM NotesStay == SummarySpec => NotesAreKept
<1>. DEFINE Replaced ==
       row.summary # None /\ row'.notes # row.notes =>
         \E s \in Saves : save[s].stage = "sent" /\ save'[s].stage = "done" /\ save[s].basis = row
<1>1. ASSUME SummaryIInv, SummaryNext PROVE Replaced
  <2>1. SUFFICES ASSUME row.summary # None, row'.notes # row.notes PROVE Replaced
    OBVIOUS
  <2>2. ASSUME NEW g \in Generations, Generating(g) PROVE row' = row \/ row'.notes = row.notes
    <3>1. CASE Complete(g)
      BY <3>1, <2>1 DEF Complete, NotesKept, serverVars
    <3>. QED
      BY <2>2, <3>1 DEF Generating, BeginGenerate, GenerateFails, Release, GetSaved, Finally,
                        GeneratorDies, Recover, serverVars
  <2>3. ASSUME NEW t \in Tabs, Reading(t) PROVE row' = row
    BY <2>3 DEF Reading, Load, LoadAnswered, LoadReceived, LoadFails, TabGivesUp, Type,
                AskSummary, SummaryReceived, AskSave, SaveReceived, serverVars
  <2>4. PICK s \in Saves : SaveNotes(s)
    BY <1>1, <2>1, <2>2, <2>3 DEF SummaryNext, SummaryLapses
  <2>5. SameVersion(s) /\ save[s].stage = "sent"
    BY <2>1, <2>4 DEF SaveNotes
  <2>6. save[s].basis = row
    BY <1>1, <2>5, BasisIsRow
  <2>7. save'[s].stage = "done"
    <3>1. save[s] \in SaveRows /\ save \in [Saves -> SaveRows]
      BY <1>1, SummaryRows
    <3>2. \E a : save' = [save EXCEPT ![s].stage = "done", ![s].answer = a]
      BY <2>4 DEF SaveNotes
    <3>. QED
      BY <3>1, <3>2 DEF SaveRows
  <2>. QED
    BY <2>5, <2>6, <2>7
<1>2. ASSUME UNCHANGED summaryVars PROVE Replaced
  BY <1>2 DEF summaryVars, serverVars
<1>3. SummaryIInv /\ [SummaryNext]_summaryVars => [Replaced]_summaryVars
  BY <1>1, <1>2
<1>. QED
  BY SummaryInvariant, <1>3, PTL DEF SummarySpec, NotesAreKept

-----------------------------------------------------------------------------
(* DebtReminders.  The argument: a reminder says what its debtor owes and is  *)
(* due within a week of the last one or on the promised day (RemindersInv),   *)
(* and a mail that waits agrees with the reminder of its debtor (MailsInv).   *)

LEMMA MaxOfTwo ==
  ASSUME NEW x \in Nat, NEW y \in Nat
  PROVE  Max({x, y}) = IF x <= y THEN y ELSE x
BY DEF Max

-----------------------------------------------------------------------------
(* Reminders.                                                                 *)

\* Promises are still as ticks that are left.
PromiseRow(r) == r \in [amount : {r.amount}, left : Nat]
PromisesOK(promises) ==
  /\ promises = [d \in Debtors |-> promises[d]]
  /\ \A d \in Debtors : promises[d] = [c \in Debtors |-> promises[d][c]]
  /\ \A d, c \in Debtors : PromiseRow(promises[d][c])

\* What a reminder says of its debt, and when the next mail is due at the latest.
ReminderRow(r) ==
  /\ r \in [open : BOOLEAN, age : 0..Week, unpaid : {r.unpaid}, paused : Nat, next : {r.next}]
  /\ r.unpaid > 0 =>
       r.open /\ r.next \in Nat /\ (r.next <= Week - r.age \/ r.next <= r.paused)
Truthful(r, b, p) == r.open => r.unpaid = Unpaid(b, p)

RemindersInv ==
  /\ reminder = [p \in Debtors |-> reminder[p]]
  /\ \A p \in Debtors : ReminderRow(reminder[p]) /\ Truthful(reminder[p], book, p)

\* A mail is a row, and one that waits has the amount of the reminder of its debtor.
MailRow(r) ==
  r \in [state : {r.state}, to : {r.to}, amount : {r.amount}, tries : {r.tries}, leased : {r.leased}]
Agrees(r) ==
  /\ r.to \in Debtors
  /\ reminder[r.to].open /\ reminder[r.to].paused = 0
  /\ r.amount > 0 /\ r.amount = reminder[r.to].unpaid
MailsInv ==
  /\ mail = [m \in Mails |-> mail[m]]
  /\ \A m \in Mails : MailRow(mail[m])
  /\ \A m \in Mails : mail[m].state = "queued" => Agrees(mail[m])
  /\ \A m, n \in Mails :
       mail[m].state = "queued" /\ mail[n].state = "queued" /\ mail[m].to = mail[n].to => m = n

DebtIInv == PromisesOK(promise) /\ RemindersInv /\ MailsInv

LEMMA DebtStarts == DebtInit => DebtIInv
<1>. SUFFICES ASSUME DebtInit PROVE DebtIInv
  OBVIOUS
<1>1. PromisesOK(promise)
  BY DEF DebtInit, PromisesOK, PromiseRow, NoPromise
<1>2. RemindersInv
  <2>1. ReminderRow(NoDebt) /\ \A p \in Debtors : Truthful(NoDebt, book, p)
    BY RemindersAssumption DEF ReminderRow, Truthful, NoDebt
  <2>. QED
    BY <2>1 DEF DebtInit, RemindersInv
<1>3. MailsInv
  BY DEF DebtInit, MailsInv, MailRow, NoMail
<1>. QED
  BY <1>1, <1>2, <1>3 DEF DebtIInv

LEMMA KeptPromises ==
  ASSUME NEW b, NEW missing, NEW promises, PromisesOK(promises)
  PROVE  PromisesOK(Kept(b, missing, promises))
<1>. DEFINE still == Kept(b, missing, promises)
<1>1. ASSUME NEW d \in Debtors, NEW c \in Debtors PROVE PromiseRow(still[d][c])
  <2>1. PromiseRow(NoPromise) /\ PromiseRow(promises[d][c])
    BY DEF PromiseRow, NoPromise, PromisesOK
  <2>2. still[d][c] = promises[d][c] \/ still[d][c] = NoPromise
    BY DEF Kept
  <2>. QED
    BY <2>1, <2>2
<1>2. still = [d \in Debtors |-> still[d]]
  BY DEF Kept
<1>3. \A d \in Debtors : still[d] = [c \in Debtors |-> still[d][c]]
  BY DEF Kept
<1>. QED
  BY <1>1, <1>2, <1>3 DEF PromisesOK

LEMMA PausedIsNat ==
  ASSUME NEW missing, NEW promises, PromisesOK(promises), NEW p \in Debtors
  PROVE  PausedUntil(missing, promises, p) \in Nat
<1>. DEFINE creditors == {c \in Debtors : \E t \in missing : t.from = p /\ t.to = c}
            days == {promises[p][c].left : c \in creditors}
<1>1. \A c \in creditors : promises[p][c].left \in Nat
  BY DEF PromisesOK, PromiseRow
<1>2. creditors # {} => Min(days) \in Nat
  <2>1. days \in SUBSET Nat
    BY <1>1
  <2>2. creditors # {} => days # {}
    OBVIOUS
  <2>3. days # {} => Min(days) \in days
    BY <2>1, MinFacts
  <2>. HIDE DEF creditors, days
  <2>. QED
    BY <2>1, <2>2, <2>3
<1>. QED
  BY <1>2 DEF PausedUntil

\* What sync() writes for one debtor.
LEMMA SyncedFacts ==
  ASSUME RemindersInv, NEW b, NEW missing, NEW promises, PromisesOK(promises), NEW p \in Debtors,
         NEW r, r = Synced(b, missing, promises, p)
  PROVE  /\ ReminderRow(r) /\ Truthful(r, b, p)
         /\ r.unpaid > 0 /\ r.next = 0 => r.paused = 0
<1>. DEFINE old == reminder[p]
            unpaid == Unpaid(b, p)
            paused == PausedUntil(missing, promises, p)
            new == [open |-> TRUE, age |-> old.age, unpaid |-> unpaid, paused |-> paused,
                    next |-> NextAt(old, unpaid, paused)]
<1>1. r = NoDebt \/ r = new
  BY DEF Synced
<1>2. CASE r = NoDebt
  BY <1>2, RemindersAssumption DEF NoDebt, ReminderRow, Truthful
<1>3. CASE r = new
  <2>1. paused \in Nat
    BY PausedIsNat
  <2>2. old.age \in 0..Week /\ Week \in Nat /\ Week - old.age \in Nat
    BY RemindersAssumption DEF RemindersInv, ReminderRow
  <2>. HIDE DEF unpaid, paused, old
  <2>3. unpaid > 0 =>
          NextAt(old, unpaid, paused) = IF Week - old.age <= paused THEN paused ELSE Week - old.age
    BY <2>1, <2>2, MaxOfTwo DEF NextAt
  <2>4. ReminderRow(new)
    BY <2>1, <2>2, <2>3 DEF ReminderRow
  <2>5. Truthful(new, b, p)
    BY DEF Truthful, unpaid
  <2>6. new.unpaid > 0 /\ new.next = 0 => new.paused = 0
    BY <2>1, <2>2, <2>3
  <2>. QED
    BY <1>3, <2>4, <2>5, <2>6
<1>. QED
  BY <1>1, <1>2, <1>3

-----------------------------------------------------------------------------
(* Mails.                                                                     *)

\* After sync() a mail that still waits agrees with what was written.
LEMMA SyncKeeps ==
  ASSUME DebtIInv, NEW b, NEW missing, NEW promises, PromisesOK(promises),
         SyncReminders(b, missing, promises)
  PROVE  DebtIInv'
<1>. DEFINE still == Kept(b, missing, promises)
            new == [p \in Debtors |-> Synced(b, missing, still, p)]
<1>1. book' = b /\ promise' = still /\ reminder' = new
  BY DEF SyncReminders
<1>2. \A m \in Mails : mail'[m] = IF mail[m].to # None /\ Outdated(mail[m].to, new[mail[m].to])
                                  THEN Cancelled(m) ELSE mail[m]
  BY DEF SyncReminders
<1>3. mail' = [m \in Mails |-> mail'[m]]
  BY DEF SyncReminders
<1>4. PromisesOK(still)
  BY KeptPromises
<1>. HIDE DEF still
<1>5. \A p \in Debtors : /\ ReminderRow(new[p]) /\ Truthful(new[p], b, p)
  BY <1>4, SyncedFacts DEF DebtIInv
<1>6. new = [p \in Debtors |-> new[p]]
  OBVIOUS
<1>. HIDE DEF new
<1>7. RemindersInv'
  BY <1>1, <1>5, <1>6 DEF RemindersInv, Truthful, Unpaid
<1>8. \A m \in Mails : /\ MailRow(mail'[m])
                       /\ mail'[m].state = "queued" => mail[m].state = "queued" /\ mail'[m] = mail[m]
  <2>1. ASSUME NEW m \in Mails
        PROVE  MailRow(Cancelled(m)) /\ Cancelled(m).state # "queued" /\ MailRow(mail[m])
    BY DEF DebtIInv, MailsInv, MailRow, Cancelled
  <2>2. \A m \in Mails : mail'[m] = Cancelled(m) \/ mail'[m] = mail[m]
    BY <1>2
  <2>. QED
    BY <2>1, <2>2
<1>9. ASSUME NEW m \in Mails, mail'[m].state = "queued" PROVE Agrees(mail[m])'
  <2>. DEFINE p == mail[m].to
  <2>1. Agrees(mail[m]) /\ p \in Debtors /\ p # None
    BY <1>8, <1>9, RemindersAssumption DEF DebtIInv, MailsInv, Agrees
  <2>2. ~Outdated(p, new[p])
    BY <1>2, <1>9, <2>1 DEF Cancelled, DebtIInv, MailsInv, MailRow
  <2>3. new[p].paused \in Nat
    BY <1>5, <2>1 DEF ReminderRow
  <2>4. new[p].open /\ new[p].paused = 0 /\ new[p].unpaid = reminder[p].unpaid
    BY <2>2, <2>3 DEF Outdated
  <2>. QED
    BY <1>1, <1>8, <1>9, <2>1, <2>4 DEF Agrees
<1>10. MailsInv'
  BY <1>3, <1>8, <1>9 DEF DebtIInv, MailsInv
<1>. QED
  BY <1>1, <1>4, <1>7, <1>10 DEF DebtIInv

\* The week is over: the new mail takes the place of what waited.
LEMMA RunDueKeeps ==
  ASSUME DebtIInv, RunDue
  PROVE  DebtIInv'
<1>. DEFINE still == Kept(book, owed, promise)
            new == [p \in Debtors |-> Synced(book, owed, still, p)]
            due == {p \in Debtors : new[p].unpaid > 0 /\ new[p].next = 0}
            left == {m \in Mails : mail[m].state # "queued" /\ ~Held(m)}
            After(p) == IF p \in due THEN [new[p] EXCEPT !.age = 0, !.next = Week] ELSE new[p]
            Written(p) == [NoMail EXCEPT !.state = "queued", !.to = p, !.amount = new[p].unpaid]
<1>1. PICK chosen \in [due -> left] :
       /\ \A p, q \in due : chosen[p] = chosen[q] => p = q
       /\ promise' = still
       /\ reminder' = [p \in Debtors |-> After(p)]
       /\ mail' = [m \in Mails |->
            IF \E p \in due : chosen[p] = m
            THEN LET p == CHOOSE p \in due : chosen[p] = m IN
                 [NoMail EXCEPT !.state = "queued", !.to = p, !.amount = new[p].unpaid]
            ELSE IF mail[m].to # None /\ (mail[m].to \in due \/ Outdated(mail[m].to, new[mail[m].to]))
            THEN Cancelled(m) ELSE mail[m]]
       /\ UNCHANGED <<book, owed, mailer>>
  BY DEF RunDue
<1>2. PromisesOK(still)
  BY KeptPromises DEF DebtIInv
<1>. HIDE DEF still
<1>3. \A p \in Debtors : /\ ReminderRow(new[p]) /\ Truthful(new[p], book, p)
                         /\ p \in due => new[p].paused = 0
  BY <1>2, SyncedFacts DEF DebtIInv
<1>4. /\ \A p \in due : p \in Debtors /\ new[p].unpaid > 0
      /\ \A m \in left : m \in Mails /\ mail[m].state # "queued"
  OBVIOUS
<1>5. mail' = [m \in Mails |-> mail'[m]] /\ book' = book /\ promise' = still
  BY <1>1
<1>6. \A p \in due : mail'[chosen[p]] = Written(p)
  <2>1. ASSUME NEW p \in due PROVE mail'[chosen[p]] = Written(p)
    <3>1. p = CHOOSE q \in due : chosen[q] = chosen[p]
      BY <1>1
    <3>2. chosen[p] \in Mails
      BY <1>1, <1>4
    <3>. QED
      BY <1>1, <3>1, <3>2
  <2>. QED
    BY <2>1
<1>7. \A m \in Mails : (\A p \in due : chosen[p] # m) =>
        \/ mail'[m] = Cancelled(m)
        \/ /\ mail'[m] = mail[m]
           /\ mail[m].to # None => mail[m].to \notin due /\ ~Outdated(mail[m].to, new[mail[m].to])
  BY <1>1
<1>8. \A p \in Debtors : reminder'[p] = After(p)
  BY <1>1
<1>9. reminder' = [p \in Debtors |-> reminder'[p]]
  BY <1>1
<1>. HIDE DEF new
<1>10. \A p \in due : /\ Written(p).state = "queued" /\ Written(p).to = p
                      /\ Written(p).amount = new[p].unpaid /\ MailRow(Written(p))
  BY DEF NoMail, MailRow
<1>11. ASSUME NEW p \in Debtors
       PROVE  /\ ReminderRow(After(p)) /\ Truthful(After(p), book, p)
              /\ After(p).open = new[p].open /\ After(p).unpaid = new[p].unpaid
              /\ After(p).paused = new[p].paused
  <2>. DEFINE sent == [new[p] EXCEPT !.age = 0, !.next = Week]
  <2>1. ReminderRow(new[p]) /\ Truthful(new[p], book, p) /\ Week \in Nat
    BY <1>3, RemindersAssumption
  <2>2. /\ sent \in [open : BOOLEAN, age : {0}, unpaid : {new[p].unpaid}, paused : Nat,
                     next : {Week}]
        /\ sent.open = new[p].open /\ sent.paused = new[p].paused
    BY <2>1 DEF ReminderRow
  <2>. HIDE DEF sent
  <2>3. ReminderRow(sent)
    BY <2>1, <2>2 DEF ReminderRow
  <2>4. Truthful(sent, book, p)
    BY <2>1, <2>2 DEF Truthful
  <2>5. After(p) = IF p \in due THEN sent ELSE new[p]
    BY DEF sent
  <2>. QED
    BY <2>1, <2>2, <2>3, <2>4, <2>5
<1>. HIDE DEF After, Written, due, left
<1>12. RemindersInv'
  BY <1>5, <1>8, <1>9, <1>11 DEF RemindersInv, Truthful, Unpaid
<1>13. ASSUME NEW m \in Mails
       PROVE  /\ MailRow(Cancelled(m)) /\ Cancelled(m).state # "queued" /\ MailRow(mail[m])
  BY DEF DebtIInv, MailsInv, MailRow, Cancelled
<1>14. \A m \in Mails : MailRow(mail'[m])
  BY <1>6, <1>7, <1>10, <1>13
<1>15. ASSUME NEW p \in due
       PROVE  /\ p \in Debtors /\ reminder'[p].open /\ reminder'[p].paused = 0
              /\ Written(p).amount > 0 /\ Written(p).amount = reminder'[p].unpaid /\ Written(p).to = p
  <2>1. /\ p \in Debtors /\ new[p].unpaid > 0 /\ new[p].paused = 0 /\ ReminderRow(new[p])
    BY <1>3, <1>4
  <2>2. /\ reminder'[p].open = new[p].open /\ reminder'[p].unpaid = new[p].unpaid
        /\ reminder'[p].paused = new[p].paused
    BY <1>8, <1>11, <2>1
  <2>3. new[p].open
    BY <2>1 DEF ReminderRow
  <2>4. Written(p).to = p /\ Written(p).amount = new[p].unpaid
    BY <1>10
  <2>. QED
    BY <2>1, <2>2, <2>3, <2>4
<1>16. ASSUME NEW m \in Mails, mail'[m].state = "queued", \A p \in due : chosen[p] # m
       PROVE  /\ mail'[m] = mail[m] /\ mail[m].to \notin due /\ Agrees(mail[m])'
  <2>. DEFINE p == mail[m].to
  <2>1. mail'[m] = mail[m]
    BY <1>7, <1>13, <1>16
  <2>2. Agrees(mail[m]) /\ p \in Debtors /\ p # None
    BY <1>16, <2>1, RemindersAssumption DEF DebtIInv, MailsInv, Agrees
  <2>3. p \notin due /\ ~Outdated(p, new[p])
    BY <1>7, <1>13, <1>16, <2>2
  <2>4. new[p].paused \in Nat
    BY <1>3, <2>2 DEF ReminderRow
  <2>5. new[p].open /\ new[p].paused = 0 /\ new[p].unpaid = reminder[p].unpaid
    BY <2>3, <2>4 DEF Outdated
  <2>6. Agrees(mail[m])'
    BY <1>8, <1>11, <2>1, <2>2, <2>5 DEF Agrees
  <2>. QED
    BY <2>1, <2>3, <2>6
<1>17. MailsInv'
  <2>1. ASSUME NEW m \in Mails, mail'[m].state = "queued"
        PROVE  /\ Agrees(mail[m])'
               /\ \A p \in due : chosen[p] = m => mail'[m].to = p
    <3>1. CASE \A p \in due : chosen[p] # m
      BY <1>16, <2>1, <3>1
    <3>2. ASSUME NEW p \in due, chosen[p] = m PROVE Agrees(mail[m])' /\ mail'[m].to = p
      <4>1. mail'[m] = Written(p)
        BY <1>6, <3>2
      <4>. QED
        BY <1>10, <1>15, <4>1 DEF Agrees
    <3>. QED
      BY <3>1, <3>2
  <2>2. ASSUME NEW m \in Mails, NEW n \in Mails, mail'[m].state = "queued",
               mail'[n].state = "queued", mail'[m].to = mail'[n].to
        PROVE  m = n
    <3>1. CASE \E p \in due : chosen[p] = m
      <4>1. PICK p \in due : chosen[p] = m
        BY <3>1
      <4>2. mail'[n].to = p
        BY <2>1, <2>2, <4>1
      <4>3. \E q \in due : chosen[q] = n
        BY <1>16, <2>2, <4>2
      <4>. QED
        BY <2>1, <2>2, <4>1, <4>2, <4>3
    <3>2. CASE \E p \in due : chosen[p] = n
      <4>1. PICK p \in due : chosen[p] = n
        BY <3>2
      <4>2. mail'[m].to = p
        BY <2>1, <2>2, <4>1
      <4>3. \E q \in due : chosen[q] = m
        BY <1>16, <2>2, <4>2
      <4>. QED
        BY <2>1, <2>2, <4>1, <4>2, <4>3
    <3>3. CASE (\A p \in due : chosen[p] # m) /\ \A p \in due : chosen[p] # n
      BY <1>16, <2>2, <3>3 DEF DebtIInv, MailsInv
    <3>. QED
      BY <3>1, <3>2, <3>3
  <2>. QED
    BY <1>5, <1>14, <2>1, <2>2 DEF MailsInv
<1>. QED
  BY <1>2, <1>5, <1>12, <1>17 DEF DebtIInv

\* A mail that is claimed, checked, sent or free again says what it said.
LEMMA MailStepKeeps ==
  ASSUME DebtIInv, UNCHANGED <<book, promise, reminder>>,
         mail' = [m \in Mails |-> mail'[m]],
         \A m \in Mails : /\ MailRow(mail'[m])
                          /\ mail'[m].state = "queued" =>
                               /\ mail[m].state = "queued" /\ mail'[m].to = mail[m].to
                               /\ mail'[m].amount = mail[m].amount
  PROVE  DebtIInv'
<1>1. PromisesOK(promise)' /\ RemindersInv'
  BY DEF DebtIInv, PromisesOK, RemindersInv, Truthful, Unpaid
<1>2. MailsInv'
  BY DEF DebtIInv, MailsInv, Agrees
<1>. QED
  BY <1>1, <1>2 DEF DebtIInv

LEMMA MailersKeep ==
  ASSUME DebtIInv, NEW i \in Mailers,
         \/ ClaimMails(i) \/ MarkSent(i) \/ SendFails(i) \/ MailerStops(i)
         \/ \E m \in Mails : CheckMail(i, m)
  PROVE  DebtIInv'
<1>1. mail = [m \in Mails |-> mail[m]] /\ \A m \in Mails : MailRow(mail[m])
  BY DEF DebtIInv, MailsInv
<1>2. CASE SendFails(i) \/ MailerStops(i)
  <2>1. UNCHANGED <<book, promise, reminder, mail>>
    BY <1>2 DEF SendFails, MailerStops
  <2>. QED
    BY <1>1, <2>1, MailStepKeeps
<1>3. CASE ClaimMails(i)
  <2>. DEFINE claimed(m) == [mail[m] EXCEPT !.tries = @ + 1, !.leased = TRUE]
  <2>1. /\ UNCHANGED <<book, promise, reminder>> /\ mail' = [m \in Mails |-> mail'[m]]
        /\ \A m \in Mails : mail'[m] = claimed(m) \/ mail'[m] = mail[m]
    BY <1>3 DEF ClaimMails
  <2>2. \A m \in Mails : /\ MailRow(claimed(m)) /\ claimed(m).state = mail[m].state
                         /\ claimed(m).to = mail[m].to /\ claimed(m).amount = mail[m].amount
    BY <1>1 DEF MailRow
  <2>. HIDE DEF claimed
  <2>. QED
    BY <1>1, <2>1, <2>2, MailStepKeeps
<1>4. ASSUME NEW m \in Mails, CheckMail(i, m) PROVE DebtIInv'
  <2>. DEFINE off == [mail[m] EXCEPT !.state = "off"]
  <2>1. /\ UNCHANGED <<book, promise, reminder>>
        /\ mail' = mail \/ mail' = [mail EXCEPT ![m].state = "off"]
    BY <1>4 DEF CheckMail
  <2>2. mail' = mail \/ mail' = [mail EXCEPT ![m] = off]
    BY <1>1, <2>1
  <2>3. MailRow(off) /\ off.state = "off"
    BY <1>1 DEF MailRow
  <2>. HIDE DEF off
  <2>4. mail' = [n \in Mails |-> mail'[n]] /\ \A n \in Mails : mail'[n] = mail[n] \/ mail'[n] = off
    BY <1>1, <2>2
  <2>. QED
    BY <1>1, <2>1, <2>3, <2>4, MailStepKeeps
<1>5. CASE MarkSent(i)
  <2>. DEFINE m == mailer[i].sending
              state == IF mail[m].state = "off" THEN "off" ELSE "sent"
              new == [mail[m] EXCEPT !.state = state]
  <2>1. UNCHANGED <<book, promise, reminder>> /\ mail' = [mail EXCEPT ![m] = new]
    BY <1>1, <1>5 DEF MarkSent
  <2>2. state # "queued"
    OBVIOUS
  <2>. HIDE DEF state
  <2>3. m \in Mails => MailRow(new) /\ new.state # "queued"
    BY <1>1, <2>2 DEF MailRow
  <2>. HIDE DEF new, m
  <2>4. mail' = [n \in Mails |-> mail'[n]]
        /\ \A n \in Mails : mail'[n] = mail[n] \/ (mail'[n] = new /\ n = m)
    BY <1>1, <2>1
  <2>. QED
    BY <1>1, <2>1, <2>3, <2>4, MailStepKeeps
<1>. QED
  BY <1>2, <1>3, <1>4, <1>5

LEMMA LapseKeeps ==
  ASSUME DebtIInv, NEW m \in Mails, LeaseLapses(m)
  PROVE  DebtIInv'
<1>. DEFINE new == [mail[m] EXCEPT !.leased = FALSE]
<1>1. mail = [n \in Mails |-> mail[n]] /\ \A n \in Mails : MailRow(mail[n])
  BY DEF DebtIInv, MailsInv
<1>2. UNCHANGED <<book, promise, reminder>> /\ mail' = [mail EXCEPT ![m] = new]
  BY <1>1 DEF LeaseLapses
<1>3. /\ MailRow(new) /\ new.state = mail[m].state /\ new.to = mail[m].to
      /\ new.amount = mail[m].amount
  BY <1>1 DEF MailRow
<1>. HIDE DEF new
<1>4. mail' = [n \in Mails |-> mail'[n]]
      /\ \A n \in Mails : mail'[n] = mail[n] \/ (mail'[n] = new /\ n = m)
  BY <1>1, <1>2
<1>. QED
  BY <1>1, <1>2, <1>3, <1>4, MailStepKeeps

\* Time brings the next reminder no later than its bound.
LEMMA AgingKeeps ==
  ASSUME DebtIInv, DebtsAge
  PROVE  DebtIInv'
<1>. DEFINE older(p) == IF reminder[p].open /\ reminder[p].age < Week
                        THEN reminder[p].age + 1 ELSE reminder[p].age
            aged(p) == [reminder[p] EXCEPT !.age = older(p),
                          !.paused = Sooner(reminder[p].paused), !.next = Sooner(reminder[p].next)]
<1>1. /\ promise' = [d \in Debtors |-> [c \in Debtors |->
                       [promise[d][c] EXCEPT !.left = Sooner(promise[d][c].left)]]]
      /\ reminder' = [p \in Debtors |-> aged(p)]
      /\ UNCHANGED <<book, mail>>
  BY DEF DebtsAge
<1>2. \A n \in Nat : Sooner(n) = IF n = 0 THEN 0 ELSE n - 1
  BY RemindersAssumption DEF Sooner
<1>3. PromisesOK(promise)'
  <2>1. ASSUME NEW d \in Debtors, NEW c \in Debtors
        PROVE  PromiseRow([promise[d][c] EXCEPT !.left = Sooner(promise[d][c].left)])
    <3>1. PromiseRow(promise[d][c])
      BY DEF DebtIInv, PromisesOK
    <3>2. Sooner(promise[d][c].left) \in Nat
      BY <1>2, <3>1 DEF PromiseRow
    <3>. QED
      BY <3>1, <3>2 DEF PromiseRow
  <2>. QED
    BY <1>1, <2>1 DEF PromisesOK
<1>4. ASSUME NEW p \in Debtors
      PROVE  /\ aged(p) \in [open : BOOLEAN, age : {older(p)}, unpaid : {aged(p).unpaid},
                             paused : {Sooner(reminder[p].paused)}, next : {aged(p).next}]
             /\ aged(p).open = reminder[p].open /\ aged(p).unpaid = reminder[p].unpaid
             /\ aged(p).age = older(p) /\ aged(p).paused = Sooner(reminder[p].paused)
             /\ aged(p).next = Sooner(reminder[p].next)
             /\ ReminderRow(reminder[p])
  BY DEF DebtIInv, RemindersInv, ReminderRow
<1>. HIDE DEF aged
<1>5. ASSUME NEW p \in Debtors PROVE ReminderRow(aged(p)) /\ Truthful(aged(p), book, p)
  <2>1. Truthful(aged(p), book, p)
    BY <1>4 DEF DebtIInv, RemindersInv, Truthful
  <2>2. older(p) \in 0..Week /\ Sooner(reminder[p].paused) \in Nat
    BY <1>2, <1>4, RemindersAssumption DEF ReminderRow
  <2>3. ASSUME reminder[p].unpaid > 0
        PROVE  /\ Sooner(reminder[p].next) \in Nat
               /\ \/ Sooner(reminder[p].next) <= Week - older(p)
                  \/ Sooner(reminder[p].next) <= Sooner(reminder[p].paused)
    <3>1. /\ reminder[p].open /\ reminder[p].next \in Nat /\ reminder[p].age \in 0..Week
          /\ reminder[p].next <= Week - reminder[p].age \/ reminder[p].next <= reminder[p].paused
          /\ reminder[p].paused \in Nat /\ Week \in Nat
      BY <1>4, <2>3, RemindersAssumption DEF ReminderRow
    <3>. QED
      BY <1>2, <3>1
  <2>. HIDE DEF older
  <2>4. ReminderRow(aged(p))
    BY <1>4, <2>2, <2>3 DEF ReminderRow
  <2>. QED
    BY <2>1, <2>4
<1>6. RemindersInv'
  BY <1>1, <1>5 DEF RemindersInv, Truthful, Unpaid
<1>7. MailsInv'
  <2>1. \A p \in Debtors : /\ reminder[p].open => reminder'[p].open
                           /\ reminder'[p].unpaid = reminder[p].unpaid
                           /\ reminder[p].paused = 0 => reminder'[p].paused = 0
    BY <1>1, <1>2, <1>4
  <2>2. \A m \in Mails : mail[m].state = "queued" => Agrees(mail[m])
    BY DEF DebtIInv, MailsInv
  <2>3. ASSUME NEW m \in Mails, mail[m].state = "queued" PROVE Agrees(mail[m])'
    <3>1. Agrees(mail[m]) /\ mail' = mail
      BY <1>1, <2>2, <2>3
    <3>2. mail[m].to \in Debtors
      BY <3>1 DEF Agrees
    <3>. QED
      BY <2>1, <3>1, <3>2 DEF Agrees
  <2>. QED
    BY <1>1, <2>3 DEF DebtIInv, MailsInv
<1>. QED
  BY <1>3, <1>6, <1>7 DEF DebtIInv

-----------------------------------------------------------------------------

LEMMA DebtStep ==
  ASSUME DebtIInv, DebtNext
  PROVE  DebtIInv'
<1>1. PromisesOK(promise)
  BY DEF DebtIInv
<1>2. ASSUME NEW b \in Books, BooksChange(b) PROVE DebtIInv'
  BY <1>1, <1>2, SyncKeeps DEF BooksChange
<1>3. ASSUME NEW d, NEW c, NEW chosen, PromiseRow(chosen)
      PROVE  PromisesOK([promise EXCEPT ![d][c] = chosen])
  BY <1>1, <1>3 DEF PromisesOK
<1>4. ASSUME NEW t \in owed, NEW left \in 1..MaxPromise, MakePromise(t, left) PROVE DebtIInv'
  <2>1. PromiseRow([amount |-> t.amount, left |-> left])
    BY RemindersAssumption DEF PromiseRow
  <2>. QED
    BY <1>3, <1>4, <2>1, SyncKeeps DEF MakePromise
<1>5. ASSUME NEW d \in Debtors, NEW c \in Debtors, CancelPromise(d, c) PROVE DebtIInv'
  <2>1. PromiseRow(NoPromise)
    BY DEF PromiseRow, NoPromise
  <2>. QED
    BY <1>3, <1>5, <2>1, SyncKeeps DEF CancelPromise
<1>. QED
  BY <1>2, <1>4, <1>5, RunDueKeeps, AgingKeeps, MailersKeep, LapseKeeps DEF DebtNext

LEMMA DebtInvariant == DebtSpec => []DebtIInv
<1>1. DebtIInv /\ UNCHANGED debtVars => DebtIInv'
  BY DEF DebtIInv, PromisesOK, RemindersInv, MailsInv, Agrees, Truthful, Unpaid, debtVars
<1>. QED
  BY DebtStarts, DebtStep, <1>1, PTL DEF DebtSpec

\* A mail that waits is the only one to its debtor, and says what is owed now.
THEOREM MailsTrue == DebtSpec => []WaitingMailIsTrue
<1>1. ASSUME DebtIInv PROVE WaitingMailIsTrue
  <2>1. ASSUME NEW m \in Mails, mail[m].state = "queued"
        PROVE  /\ reminder[mail[m].to].open /\ reminder[mail[m].to].paused = 0
               /\ mail[m].amount > 0 /\ mail[m].amount = Unpaid(book, mail[m].to)
    <3>1. Agrees(mail[m])
      BY <1>1, <2>1 DEF DebtIInv, MailsInv
    <3>2. Truthful(reminder[mail[m].to], book, mail[m].to)
      BY <1>1, <3>1 DEF DebtIInv, RemindersInv, Agrees
    <3>. QED
      BY <3>1, <3>2 DEF Agrees, Truthful
  <2>2. \A m \in Mails : \A n \in Mails \ {m} :
          mail[m].state = "queued" /\ mail[n].state = "queued" => mail[n].to # mail[m].to
    BY <1>1 DEF DebtIInv, MailsInv
  <2>. QED
    BY <2>1, <2>2 DEF WaitingMailIsTrue
<1>. QED
  BY DebtInvariant, <1>1, PTL

\* The next reminder of an open debt is never more than a week after the last.
THEOREM NobodyForgotten == DebtSpec => []NobodyIsForgotten
<1>1. ASSUME DebtIInv PROVE NobodyIsForgotten
  <2>1. ASSUME NEW p \in Debtors, reminder[p].unpaid > 0, reminder[p].paused = 0
        PROVE  reminder[p].next <= Week - reminder[p].age
    <3>1. ReminderRow(reminder[p])
      BY <1>1 DEF DebtIInv, RemindersInv
    <3>2. /\ reminder[p].age \in 0..Week /\ reminder[p].next \in Nat
          /\ reminder[p].next <= Week - reminder[p].age \/ reminder[p].next <= 0
      BY <2>1, <3>1 DEF ReminderRow
    <3>. QED
      BY <3>2, RemindersAssumption
  <2>. QED
    BY <2>1 DEF NobodyIsForgotten
<1>. QED
  BY DebtInvariant, <1>1, PTL

-----------------------------------------------------------------------------
(* The transfers that settle a house.  The argument: settlementTransfers() is *)
(* a loop over two queues, so the set it proposes obeys an equation on what   *)
(* remains (MeetIs); a shortest pair of queues it did not pay off would leave *)
(* a shorter one (AllPay); the queues of debts and claims add up to the same  *)
(* (QueueFacts, Ranked), as balances add up to nothing (TransfersPay).        *)

\* A function that repeats itself on what remains exists: the one that collects
\* what every relation closed under its equation relates to its argument.
Repeats(f, Q, F, h, next) ==
  \A q \in Q : f[q] = IF q \in F THEN {h[q]} \cup f[next[q]] ELSE {}

LEMMA Unfolds ==
  ASSUME NEW Q, NEW F \in SUBSET Q, NEW T, NEW h \in [F -> T], NEW next \in [F -> Q]
  PROVE  \E f \in [Q -> SUBSET T] : Repeats(f, Q, F, h, next)
<1>. DEFINE Closed(R) == \A q \in F : /\ <<q, h[q]>> \in R
                                      /\ \A t \in T : <<next[q], t>> \in R => <<q, t>> \in R
            Least == {w \in Q \X T : \A R \in SUBSET (Q \X T) : Closed(R) => w \in R}
            Step == {w \in Q \X T : /\ w[1] \in F
                                    /\ w[2] = h[w[1]] \/ <<next[w[1]], w[2]>> \in Least}
            f == [q \in Q |-> {t \in T : <<q, t>> \in Least}]
<1>1. \A R \in SUBSET (Q \X T) : Closed(R) => Least \subseteq R
  OBVIOUS
<1>2. Least \in SUBSET (Q \X T) /\ Step \in SUBSET (Q \X T)
  OBVIOUS
<1>3. Closed(Least)
  <2>1. ASSUME NEW q \in F, NEW R \in SUBSET (Q \X T), Closed(R) PROVE <<q, h[q]>> \in R
    BY <2>1
  <2>2. ASSUME NEW q \in F, NEW t \in T, <<next[q], t>> \in Least,
               NEW R \in SUBSET (Q \X T), Closed(R)
        PROVE  <<q, t>> \in R
    BY <2>2
  <2>3. \A q \in F, t \in T : <<q, t>> \in Q \X T /\ <<q, h[q]>> \in Q \X T
    OBVIOUS
  <2>. HIDE DEF Closed
  <2>4. /\ \A q \in F : <<q, h[q]>> \in Least
        /\ \A q \in F, t \in T : <<next[q], t>> \in Least => <<q, t>> \in Least
    BY <2>1, <2>2, <2>3
  <2>. HIDE DEF Least
  <2>. QED
    BY <2>4 DEF Closed
<1>. HIDE DEF Least
<1>4. Step \subseteq Least
  <2>. SUFFICES ASSUME NEW w \in Step PROVE w \in Least
    OBVIOUS
  <2>1. /\ w[1] \in F /\ w[2] \in T /\ w = <<w[1], w[2]>>
        /\ w[2] = h[w[1]] \/ <<next[w[1]], w[2]>> \in Least
    OBVIOUS
  <2>2. PICK q \in F, t \in T : w = <<q, t>> /\ (t = h[q] \/ <<next[q], t>> \in Least)
    BY <2>1
  <2>. HIDE DEF Step
  <2>. QED
    BY <1>3, <2>2
<1>5. Closed(Step)
  <2>1. ASSUME NEW q \in F PROVE <<q, h[q]>> \in Step
    OBVIOUS
  <2>2. ASSUME NEW q \in F, NEW t \in T, <<next[q], t>> \in Step PROVE <<q, t>> \in Step
    BY <1>4, <2>2
  <2>. QED
    BY <2>1, <2>2
<1>6. Least = Step
  <2>. HIDE DEF Step, Closed
  <2>. QED
    BY <1>1, <1>2, <1>4, <1>5
<1>7. f \in [Q -> SUBSET T]
  OBVIOUS
<1>8. ASSUME NEW q \in Q PROVE f[q] = IF q \in F THEN {h[q]} \cup f[next[q]] ELSE {}
  <2>1. \A t \in T : <<q, t>> \in Least <=> q \in F /\ (t = h[q] \/ <<next[q], t>> \in Least)
    BY <1>6
  <2>2. q \in F => next[q] \in Q /\ h[q] \in T
    OBVIOUS
  <2>3. f[q] = {t \in T : <<q, t>> \in Least} /\ (q \in F => f[next[q]] = {t \in T : <<next[q], t>> \in Least})
    BY <2>2
  <2>. HIDE DEF f
  <2>. QED
    BY <2>1, <2>2, <2>3
<1>9. Repeats(f, Q, F, h, next)
  <2>. HIDE DEF f
  <2>. QED
    BY <1>8 DEF Repeats
<1>. QED
  BY <1>7, <1>9

-----------------------------------------------------------------------------
(* settlementTransfers().                                                     *)

LEMMA DebtorFacts == IsFiniteSet(Debtors) /\ Debtors \subseteq Nat
BY RemindersAssumption

Pile == [id : Nat, left : Nat]
Sides == Piles \X Piles
Slips == [from : Nat, to : Nat, amount : Nat]
Fed(q) == ~(q[1] = <<>> \/ q[2] = <<>>)

LEMMA LessType ==
  ASSUME NEW slot \in Pile, NEW n \in Nat, n <= slot.left
  PROVE  Less(slot, n) \in Piles
<1>1. CASE slot.left = n
  BY <1>1, EmptySeq DEF Less, Piles
<1>2. CASE slot.left # n
  <2>1. [slot EXCEPT !.left = @ - n] \in Pile
    BY DEF Pile
  <2>2. <<[slot EXCEPT !.left = @ - n]>> \in Seq(Pile)
    BY <2>1
  <2>. QED
    BY <1>2, <2>2 DEF Less, Piles, Pile
<1>. QED
  BY <1>1, <1>2

LEMMA RepaymentFacts ==
  ASSUME NEW q \in Sides, Fed(q)
  PROVE  /\ Head(q[1]) \in Pile /\ Head(q[2]) \in Pile /\ Repayment(q) \in Slips
         /\ Repayment(q).from = Head(q[1]).id /\ Repayment(q).to = Head(q[2]).id
         /\ Repayment(q).amount <= Head(q[1]).left /\ Repayment(q).amount <= Head(q[2]).left
         /\ Repayment(q).amount = Head(q[1]).left \/ Repayment(q).amount = Head(q[2]).left
         /\ Remaining(q) \in Sides
         /\ Remaining(q)[1] = Less(Head(q[1]), Repayment(q).amount) \o Tail(q[1])
         /\ Remaining(q)[2] = Less(Head(q[2]), Repayment(q).amount) \o Tail(q[2])
<1>. DEFINE d == Head(q[1])
            c == Head(q[2])
            t == Repayment(q)
<1>1. q[1] \in Piles /\ q[2] \in Piles /\ q[1] # <<>> /\ q[2] # <<>>
  BY DEF Sides, Fed
<1>2. d \in Pile /\ c \in Pile /\ Tail(q[1]) \in Piles /\ Tail(q[2]) \in Piles
  BY <1>1, HeadTailProperties DEF Piles, Pile
<1>3. t = [from |-> d.id, to |-> c.id, amount |-> Paired(d, c)]
  BY DEF Repayment
<1>. HIDE DEF d, c, t
<1>4. /\ Paired(d, c) \in Nat /\ Paired(d, c) <= d.left /\ Paired(d, c) <= c.left
      /\ Paired(d, c) = d.left \/ Paired(d, c) = c.left
      /\ d.id \in Nat /\ c.id \in Nat
  BY <1>2 DEF Paired, Pile
<1>5. /\ t \in Slips /\ t.from = d.id /\ t.to = c.id /\ t.amount = Paired(d, c)
  BY <1>3, <1>4 DEF Slips
<1>6. Less(d, t.amount) \in Piles /\ Less(c, t.amount) \in Piles
  BY <1>2, <1>4, <1>5, LessType
<1>7. Less(d, t.amount) \o Tail(q[1]) \in Piles /\ Less(c, t.amount) \o Tail(q[2]) \in Piles
  BY <1>2, <1>6, ConcatProperties DEF Piles
<1>8. Remaining(q) = <<Less(d, t.amount) \o Tail(q[1]), Less(c, t.amount) \o Tail(q[2])>>
  BY DEF Remaining, d, c, t
<1>. DEFINE ds == Less(d, t.amount) \o Tail(q[1])
            cs == Less(c, t.amount) \o Tail(q[2])
<1>9. Remaining(q) \in Sides /\ Remaining(q)[1] = ds /\ Remaining(q)[2] = cs
  <2>1. Remaining(q) = <<ds, cs>> /\ ds \in Piles /\ cs \in Piles
    BY <1>7, <1>8
  <2>. HIDE DEF ds, cs
  <2>. QED
    BY <2>1 DEF Sides
<1>. QED
  BY <1>2, <1>4, <1>5, <1>9 DEF d, c, t

LEMMA MeetIs ==
  \A q \in Sides : Meet[q] = IF Fed(q) THEN {Repayment(q)} \cup Meet[Remaining(q)] ELSE {}
<1>. DEFINE F == {q \in Sides : Fed(q)}
            h == [q \in F |-> Repayment(q)]
            next == [q \in F |-> Remaining(q)]
            body(g) == [q \in Piles \X Piles |->
                          IF q[1] = <<>> \/ q[2] = <<>> THEN {} ELSE {Repayment(q)} \cup g[Remaining(q)]]
<1>1. h \in [F -> Slips] /\ next \in [F -> Sides]
  BY RepaymentFacts
<1>2. F \in SUBSET Sides
  OBVIOUS
<1>3. PICK f \in [Sides -> SUBSET Slips] : Repeats(f, Sides, F, h, next)
  <2>. HIDE DEF F, h, next
  <2>. QED
    BY <1>1, <1>2, Unfolds
<1>4. f = body(f)
  BY <1>3 DEF Sides, Fed, Repeats
<1>5. Meet = CHOOSE g : g = body(g)
  BY DEF Meet
<1>. DEFINE m == CHOOSE g : g = body(g)
<1>6. m = body(m)
  BY <1>4
<1>. HIDE DEF m
<1>7. \A q \in Sides : m[q] = IF q[1] = <<>> \/ q[2] = <<>> THEN {} ELSE {Repayment(q)} \cup m[Remaining(q)]
  BY <1>6 DEF Sides
<1>. QED
  BY <1>5, <1>7 DEF m, Fed

-----------------------------------------------------------------------------
(* One side of the transfers: what each person is left with.                  *)

Ids(s) == {s[i].id : i \in DOMAIN s}
Sound(s) ==
  /\ s \in Piles
  /\ \A i \in DOMAIN s : s[i].left > 0 /\ s[i].id \in Debtors
  /\ \A i, j \in DOMAIN s : s[i].id = s[j].id => i = j
Left(s, p) == IF p \in Ids(s) THEN s[CHOOSE i \in DOMAIN s : s[i].id = p].left ELSE 0
Lefts(s) == [p \in Debtors |-> Left(s, p)]
Total(s) == SumFunctionOnSet(Lefts(s), Debtors)
After(s, n) == Less(Head(s), n) \o Tail(s)

LEMMA PileFacts ==
  ASSUME NEW s, Sound(s)
  PROVE  /\ Len(s) \in Nat /\ DOMAIN s = 1..Len(s)
         /\ \A i \in DOMAIN s : s[i] \in Pile /\ s[i].left \in Nat \ {0} /\ s[i].id \in Debtors
         /\ s # <<>> => Len(s) > 0 /\ 1 \in DOMAIN s /\ Head(s) = s[1]
<1>1. s \in Seq(Pile)
  BY DEF Sound, Piles, Pile
<1>2. Len(s) \in Nat /\ DOMAIN s = 1..Len(s) /\ \A i \in DOMAIN s : s[i] \in Pile
  BY <1>1, LenProperties
<1>3. \A i \in DOMAIN s : s[i].left \in Nat \ {0} /\ s[i].id \in Debtors
  BY <1>2 DEF Sound, Pile
<1>4. s # <<>> => Len(s) > 0 /\ 1 \in DOMAIN s /\ Head(s) = s[1]
  BY <1>1, <1>2, EmptySeq
<1>. QED
  BY <1>2, <1>3, <1>4

LEMMA LeftOf ==
  ASSUME NEW s, Sound(s), NEW i \in DOMAIN s
  PROVE  s[i].id \in Ids(s) /\ Left(s, s[i].id) = s[i].left
<1>1. \A j \in DOMAIN s : s[j].id = s[i].id <=> j = i
  BY DEF Sound
<1>2. (CHOOSE j \in DOMAIN s : s[j].id = s[i].id) = i
  BY <1>1
<1>. QED
  BY <1>2 DEF Left, Ids

LEMMA LeftTypes ==
  ASSUME NEW s, Sound(s)
  PROVE  /\ \A p \in Debtors : Left(s, p) \in Nat /\ Lefts(s)[p] = Left(s, p)
         /\ Total(s) \in Nat
         /\ Total(s) = 0 <=> s = <<>>
<1>1. IsFiniteSet(Debtors)
  BY DebtorFacts
<1>2. \A p \in Debtors : Left(s, p) \in Nat /\ Lefts(s)[p] = Left(s, p)
  <2>1. ASSUME NEW p \in Debtors, p \in Ids(s) PROVE Left(s, p) \in Nat
    <3>1. PICK i \in DOMAIN s : p = s[i].id
      BY <2>1 DEF Ids
    <3>. QED
      BY <3>1, LeftOf, PileFacts
  <2>. QED
    BY <2>1 DEF Left, Lefts
<1>3. Total(s) \in Nat
  BY <1>1, <1>2, SumNat DEF Total
<1>4. ASSUME s = <<>> PROVE Total(s) = 0
  <2>1. DOMAIN s = {}
    BY <1>4
  <2>2. \A p \in Debtors : Lefts(s)[p] = 0
    BY <2>1 DEF Lefts, Left, Ids
  <2>. QED
    BY <1>1, <2>2, SumZero DEF Total
<1>5. ASSUME s # <<>> PROVE Total(s) # 0
  <2>1. 1 \in DOMAIN s /\ s[1].id \in Debtors /\ s[1].left \in Nat \ {0}
    BY <1>5, PileFacts
  <2>. DEFINE p == s[1].id
  <2>2. Lefts(s)[p] \in Nat \ {0} /\ p \in Debtors
    BY <1>2, <2>1, LeftOf
  <2>. HIDE DEF p
  <2>3. \A q \in Debtors : Lefts(s)[q] \in Int
    BY <1>2
  <2>4. Total(s) = SumFunctionOnSet(Lefts(s), Debtors \ {p}) + Lefts(s)[p]
    BY <1>1, <2>2, <2>3, SumRemove DEF Total
  <2>5. SumFunctionOnSet(Lefts(s), Debtors \ {p}) \in Nat
    <3>1. IsFiniteSet(Debtors \ {p})
      BY <1>1, FS_RemoveElement
    <3>2. \A q \in Debtors \ {p} : Lefts(s)[q] \in Nat
      BY <1>2
    <3>. QED
      BY <3>1, <3>2, SumNat
  <2>. QED
    BY <2>2, <2>4, <2>5
<1>. QED
  BY <1>2, <1>3, <1>4, <1>5

\* The first row shrinks, or goes.
LEMMA Shrunk ==
  ASSUME NEW s, Sound(s), s # <<>>, NEW n \in Nat \ {0}, n < Head(s).left
  PROVE  /\ After(s, n) = [s EXCEPT ![1].left = @ - n]
         /\ Sound(After(s, n)) /\ Len(After(s, n)) = Len(s) /\ Ids(After(s, n)) = Ids(s)
         /\ \A p \in Debtors :
              Left(After(s, n), p) = Left(s, p) - (IF p = Head(s).id THEN n ELSE 0)
<1>. DEFINE r == [s EXCEPT ![1].left = @ - n]
            slot == [s[1] EXCEPT !.left = @ - n]
<1>1. /\ Len(s) \in Nat /\ Len(s) > 0 /\ DOMAIN s = 1..Len(s) /\ 1 \in DOMAIN s
      /\ \A i \in DOMAIN s : s[i] \in Pile
      /\ Head(s) = s[1] /\ s[1].left \in Nat \ {0} /\ n < s[1].left
  BY PileFacts
<1>2. s \in Seq(Pile)
  BY DEF Sound, Piles, Pile
<1>3. slot \in Pile /\ slot.id = s[1].id /\ slot.left = s[1].left - n /\ slot.left \in Nat \ {0}
  BY <1>1 DEF Pile
<1>4. /\ Tail(s) \in Seq(Pile) /\ Len(Tail(s)) = Len(s) - 1
      /\ \A i \in 1..(Len(s) - 1) : Tail(s)[i] = s[i + 1]
  BY <1>1, <1>2, HeadTailProperties
<1>5. After(s, n) = <<slot>> \o Tail(s)
  <2>1. Less(Head(s), n) = <<slot>>
    BY <1>1 DEF Less
  <2>. QED
    BY <2>1 DEF After
<1>. HIDE DEF slot
<1>6. <<slot>> \in Seq(Pile) /\ Len(<<slot>>) = 1 /\ <<slot>>[1] = slot
  BY <1>3
<1>7. /\ After(s, n) \in Seq(Pile) /\ Len(After(s, n)) = Len(s)
      /\ \A i \in 1..Len(s) : After(s, n)[i] = IF i = 1 THEN slot ELSE s[i]
  <2>. DEFINE one == <<slot>>
  <2>1. one \in Seq(Pile) /\ Len(one) = 1 /\ one[1] = slot
    BY <1>6
  <2>2. After(s, n) = one \o Tail(s)
    BY <1>5
  <2>. HIDE DEF one
  <2>3. /\ one \o Tail(s) \in Seq(Pile) /\ Len(one \o Tail(s)) = Len(one) + Len(Tail(s))
        /\ \A i \in 1 .. Len(one) + Len(Tail(s)) : (one \o Tail(s))[i] =
              IF i <= Len(one) THEN one[i] ELSE Tail(s)[i - Len(one)]
    BY <1>4, <2>1, ConcatProperties
  <2>4. \A i \in 1..Len(s) : i <= 1 <=> i = 1
    BY <1>1
  <2>5. \A i \in 1..Len(s) : i # 1 => i - 1 \in 1..(Len(s) - 1) /\ (i - 1) + 1 = i
    BY <1>1
  <2>. QED
    BY <1>1, <1>4, <2>1, <2>2, <2>3, <2>4, <2>5
<1>8. DOMAIN After(s, n) = 1..Len(s) /\ After(s, n) \in [1..Len(s) -> Pile]
  BY <1>7, LenProperties
<1>9. After(s, n) = r
  <2>1. r = [i \in 1..Len(s) |-> IF i = 1 THEN slot ELSE s[i]]
    BY <1>1 DEF slot
  <2>2. After(s, n) = [i \in 1..Len(s) |-> IF i = 1 THEN slot ELSE s[i]]
    BY <1>7, <1>8
  <2>. QED
    BY <2>1, <2>2
<1>10. \A i \in DOMAIN s : After(s, n)[i].id = s[i].id
  BY <1>1, <1>3, <1>7
<1>11. Ids(After(s, n)) = Ids(s)
  BY <1>1, <1>8, <1>10 DEF Ids
<1>12. Sound(After(s, n))
  <2>1. \A i \in DOMAIN s : After(s, n)[i].left > 0 /\ After(s, n)[i].id \in Debtors
    BY <1>1, <1>3, <1>7, <1>10 DEF Sound
  <2>2. \A i, j \in DOMAIN s : After(s, n)[i].id = After(s, n)[j].id => i = j
    BY <1>10 DEF Sound
  <2>3. After(s, n) \in Piles
    BY <1>7 DEF Piles, Pile
  <2>. QED
    BY <1>1, <1>8, <2>1, <2>2, <2>3 DEF Sound
<1>13. ASSUME NEW p \in Debtors
       PROVE  Left(After(s, n), p) = Left(s, p) - (IF p = Head(s).id THEN n ELSE 0)
  <2>1. CASE p \in Ids(s)
    <3>1. PICK i \in DOMAIN s : p = s[i].id
      BY <2>1 DEF Ids
    <3>2. Left(s, p) = s[i].left
      BY <3>1, LeftOf
    <3>3. Left(After(s, n), p) = After(s, n)[i].left
      <4>1. i \in DOMAIN After(s, n) /\ After(s, n)[i].id = p
        BY <1>1, <1>8, <1>10, <3>1
      <4>. QED
        BY <1>12, <4>1, LeftOf
    <3>4. p = Head(s).id <=> i = 1
      BY <1>1, <3>1 DEF Sound
    <3>5. s[i].left \in Nat
      BY PileFacts
    <3>. QED
      BY <1>1, <1>3, <1>7, <3>2, <3>3, <3>4, <3>5
  <2>2. CASE p \notin Ids(s)
    <3>1. p # Head(s).id
      BY <1>1, <2>2 DEF Ids
    <3>. QED
      BY <1>11, <2>2, <3>1 DEF Left
  <2>. QED
    BY <2>1, <2>2
<1>. QED
  BY <1>7, <1>9, <1>11, <1>12, <1>13

LEMMA Gone ==
  ASSUME NEW s, Sound(s), s # <<>>, NEW n, n = Head(s).left
  PROVE  /\ After(s, n) = Tail(s)
         /\ Sound(After(s, n)) /\ Len(After(s, n)) = Len(s) - 1
         /\ Ids(After(s, n)) \subseteq Ids(s) \ {Head(s).id}
         /\ \A p \in Debtors :
              Left(After(s, n), p) = Left(s, p) - (IF p = Head(s).id THEN n ELSE 0)
<1>1. /\ Len(s) \in Nat /\ Len(s) > 0 /\ DOMAIN s = 1..Len(s) /\ 1 \in DOMAIN s
      /\ Head(s) = s[1]
  BY PileFacts
<1>2. s \in Seq(Pile)
  BY DEF Sound, Piles, Pile
<1>3. /\ Tail(s) \in Seq(Pile) /\ Len(Tail(s)) = Len(s) - 1
      /\ \A i \in 1..(Len(s) - 1) : Tail(s)[i] = s[i + 1]
  BY <1>1, <1>2, HeadTailProperties
<1>4. After(s, n) = Tail(s)
  <2>1. Less(Head(s), n) = <<>>
    BY DEF Less
  <2>. QED
    BY <1>3, <2>1, ConcatEmptySeq DEF After
<1>. DEFINE r == Tail(s)
<1>5. DOMAIN r = 1..(Len(s) - 1)
  BY <1>3, LenProperties
<1>. HIDE DEF r
<1>6. \A i \in DOMAIN r : i + 1 \in DOMAIN s /\ i + 1 # 1 /\ r[i] = s[i + 1]
  BY <1>1, <1>3, <1>5 DEF r
<1>7. Sound(r)
  <2>1. \A i \in DOMAIN r : r[i].left > 0 /\ r[i].id \in Debtors
    BY <1>6 DEF Sound
  <2>2. ASSUME NEW i \in DOMAIN r, NEW j \in DOMAIN r, r[i].id = r[j].id PROVE i = j
    <3>1. i + 1 = j + 1
      BY <1>6, <2>2 DEF Sound
    <3>. QED
      BY <1>5, <3>1
  <2>3. r \in Piles
    BY <1>3 DEF Piles, Pile, r
  <2>. QED
    BY <2>1, <2>2, <2>3 DEF Sound
<1>8. Ids(r) \subseteq Ids(s) \ {Head(s).id}
  <2>. SUFFICES ASSUME NEW i \in DOMAIN r PROVE r[i].id \in Ids(s) \ {Head(s).id}
    BY DEF Ids
  <2>1. s[i + 1].id # s[1].id
    BY <1>1, <1>6 DEF Sound
  <2>. QED
    BY <1>1, <1>6, <2>1 DEF Ids
<1>9. ASSUME NEW p \in Debtors
      PROVE  Left(r, p) = Left(s, p) - (IF p = Head(s).id THEN n ELSE 0)
  <2>1. CASE p = Head(s).id
    <3>1. Left(s, p) = n /\ n \in Nat
      BY <1>1, <2>1, LeftOf, PileFacts
    <3>2. Left(r, p) = 0
      BY <1>8, <2>1 DEF Left
    <3>. QED
      BY <2>1, <3>1, <3>2
  <2>2. CASE p \in Ids(s) \ {Head(s).id}
    <3>1. PICK i \in DOMAIN s : p = s[i].id
      BY <2>2 DEF Ids
    <3>2. i # 1
      BY <1>1, <2>2, <3>1
    <3>3. i - 1 \in DOMAIN r /\ (i - 1) + 1 = i
      BY <1>1, <1>5, <3>2
    <3>4. r[i - 1] = s[i]
      BY <1>6, <3>3
    <3>5. Left(s, p) = s[i].left /\ Left(s, p) \in Nat
      BY <3>1, LeftOf, LeftTypes
    <3>6. Left(r, p) = s[i].left
      BY <1>7, <3>1, <3>3, <3>4, LeftOf
    <3>. QED
      BY <2>2, <3>5, <3>6
  <2>3. CASE p \notin Ids(s)
    <3>1. p # Head(s).id /\ p \notin Ids(r)
      BY <1>1, <1>8, <2>3 DEF Ids
    <3>. QED
      BY <2>3, <3>1 DEF Left
  <2>. QED
    BY <2>1, <2>2, <2>3
<1>. QED
  BY <1>3, <1>4, <1>7, <1>8, <1>9 DEF r

LEMMA Paid ==
  ASSUME NEW s, Sound(s), s # <<>>, NEW n \in Nat \ {0}, n <= Head(s).left
  PROVE  /\ Sound(After(s, n)) /\ Len(After(s, n)) \in Nat
         /\ Ids(After(s, n)) \subseteq Ids(s) /\ Len(After(s, n)) <= Len(s)
         /\ n = Head(s).left => /\ Len(After(s, n)) = Len(s) - 1
                                /\ Head(s).id \notin Ids(After(s, n))
         /\ \A p \in Debtors :
              Left(After(s, n), p) = Left(s, p) - (IF p = Head(s).id THEN n ELSE 0)
         /\ Total(After(s, n)) = Total(s) - n
<1>. DEFINE r == After(s, n)
<1>0. Head(s).left \in Nat /\ Head(s).id \in Debtors /\ Len(s) \in Nat
  BY PileFacts
<1>1. /\ Sound(r) /\ Ids(r) \subseteq Ids(s) /\ Len(r) <= Len(s)
      /\ n = Head(s).left => Len(r) = Len(s) - 1 /\ Head(s).id \notin Ids(r)
      /\ \A p \in Debtors : Left(r, p) = Left(s, p) - (IF p = Head(s).id THEN n ELSE 0)
  <2>1. CASE n < Head(s).left
    BY <1>0, <2>1, Shrunk
  <2>2. CASE n = Head(s).left
    <3>1. /\ Sound(r) /\ Len(r) = Len(s) - 1 /\ Ids(r) \subseteq Ids(s) \ {Head(s).id}
          /\ \A p \in Debtors : Left(r, p) = Left(s, p) - (IF p = Head(s).id THEN n ELSE 0)
      BY <2>2, Gone
    <3>. HIDE DEF r
    <3>. QED
      BY <1>0, <3>1
  <2>. QED
    BY <1>0, <2>1, <2>2
<1>. HIDE DEF r
<1>2. Len(r) \in Nat
  BY <1>1, PileFacts
<1>3. Total(r) = Total(s) - n
  <2>. DEFINE h == Head(s).id
  <2>1. h \in Debtors /\ IsFiniteSet(Debtors)
    BY <1>0, DebtorFacts
  <2>2. \A p \in Debtors : /\ Lefts(r)[p] = Left(r, p) /\ Lefts(s)[p] = Left(s, p)
                           /\ Left(r, p) \in Nat /\ Left(s, p) \in Nat
    BY <1>1, LeftTypes
  <2>. HIDE DEF h
  <2>3. \A p \in Debtors : /\ Lefts(s)[p] \in Int /\ Lefts(r)[p] \in Int
                           /\ p # h => Lefts(r)[p] = Lefts(s)[p]
    BY <1>1, <2>2 DEF h
  <2>4. Total(r) = Total(s) + Lefts(r)[h] - Lefts(s)[h]
    BY <2>1, <2>3, SumChange DEF Total
  <2>5. Lefts(r)[h] = Lefts(s)[h] - n
    BY <1>1, <2>1, <2>2 DEF h
  <2>6. Total(s) \in Nat
    BY LeftTypes
  <2>. QED
    BY <2>1, <2>3, <2>4, <2>5, <2>6
<1>. QED
  BY <1>1, <1>2, <1>3 DEF r

-----------------------------------------------------------------------------
(* What a set of transfers adds up to.                                        *)

LEMMA NoSlips ==
  ASSUME NEW p
  PROVE  Sent({}, p) = 0 /\ Received({}, p) = 0
<1>1. {t \in {} : t.from = p} = {} /\ {t \in {} : t.to = p} = {}
  OBVIOUS
<1>. QED
  BY <1>1, SumEmpty DEF Sent, Received

LEMMA OneMoreSlip ==
  ASSUME NEW M \in SUBSET Slips, IsFiniteSet(M), NEW t \in Slips, t \notin M, NEW p
  PROVE  /\ Sent(M, p) \in Int /\ Received(M, p) \in Int
         /\ Sent(M \cup {t}, p) = Sent(M, p) + (IF t.from = p THEN t.amount ELSE 0)
         /\ Received(M \cup {t}, p) = Received(M, p) + (IF t.to = p THEN t.amount ELSE 0)
<1>1. ASSUME NEW side \in {"from", "to"}
      PROVE  LET of(N) == {u \in N : u[side] = p}
             IN /\ SumFunctionOnSet(Worth(M), of(M)) \in Int
                /\ SumFunctionOnSet(Worth(M \cup {t}), of(M \cup {t}))
                     = SumFunctionOnSet(Worth(M), of(M)) + (IF t[side] = p THEN t.amount ELSE 0)
  <2>. DEFINE A == {u \in M : u[side] = p}
              B == {u \in M \cup {t} : u[side] = p}
              f == Worth(M)
              g == Worth(M \cup {t})
  <2>1. IsFiniteSet(A) /\ t \notin A
    BY FS_Subset
  <2>2. /\ \A u \in A : f[u] \in Int /\ g[u] = f[u]
        /\ g[t] = t.amount /\ t.amount \in Int
    BY DEF Worth, Slips
  <2>3. B = IF t[side] = p THEN A \cup {t} ELSE A
    OBVIOUS
  <2>. HIDE DEF A, B, f, g
  <2>4. SumFunctionOnSet(g, A) = SumFunctionOnSet(f, A) /\ SumFunctionOnSet(f, A) \in Int
    BY <2>1, <2>2, SumSame, SumType
  <2>5. SumFunctionOnSet(g, A \cup {t}) = SumFunctionOnSet(g, A) + g[t]
    BY <2>1, <2>2, SumAdd
  <2>6. SumFunctionOnSet(g, B) = SumFunctionOnSet(f, A) + (IF t[side] = p THEN t.amount ELSE 0)
    BY <2>2, <2>3, <2>4, <2>5
  <2>. QED
    BY <2>4, <2>6 DEF A, B, f, g
<1>. QED
  BY <1>1 DEF Sent, Received

-----------------------------------------------------------------------------
(* Both sides are paid off, whatever they are: on a shortest one that is not, *)
(* what remains after the first repayment would not be either.                *)

LEMMA LeastNumber ==
  ASSUME NEW B \in SUBSET Nat, B # {}
  PROVE  \E n \in B : \A m \in B : ~(m < n)
<1>. DEFINE R == {ss \in Nat \X Nat : ss[1] < ss[2]}
<1>1. IsWellFoundedOn(R, Nat)
  BY NatLessThanWellFounded DEF OpToRel
<1>2. PICK n \in B : \A m \in B : <<m, n>> \notin R
  <2>. HIDE DEF R
  <2>. QED
    BY <1>1, WFMin
<1>. QED
  BY <1>2

Fits(q) ==
  q \in Sides /\ Sound(q[1]) /\ Sound(q[2]) /\ Total(q[1]) = Total(q[2])

Pays(M, q) ==
  /\ IsFiniteSet(M) /\ M \in SUBSET Slips
  /\ \A t \in M : t.amount > 0 /\ t.from \in Ids(q[1]) /\ t.to \in Ids(q[2])
  /\ \A p \in Debtors : Sent(M, p) = Left(q[1], p) /\ Received(M, p) = Left(q[2], p)
  /\ M = {} \/ Cardinality(M) < Len(q[1]) + Len(q[2])

LEMMA NothingPays ==
  ASSUME NEW q, Fits(q), ~Fed(q)
  PROVE  Pays(Meet[q], q)
<1>1. q[1] = <<>> /\ q[2] = <<>>
  BY LeftTypes DEF Fits, Fed
<1>2. Meet[q] = {}
  BY MeetIs DEF Fits
<1>3. \A p : Left(q[1], p) = 0 /\ Left(q[2], p) = 0
  <2>1. DOMAIN q[1] = {} /\ DOMAIN q[2] = {}
    BY <1>1
  <2>. QED
    BY <2>1 DEF Left, Ids
<1>. QED
  BY <1>2, <1>3, NoSlips, FS_EmptySet DEF Pays

LEMMA RemainingFits ==
  ASSUME NEW q, Fits(q), Fed(q)
  PROVE  /\ Fits(Remaining(q)) /\ Repayment(q) \in Slips /\ Repayment(q).amount > 0
         /\ Repayment(q).from \in Ids(q[1]) /\ Repayment(q).to \in Ids(q[2])
         /\ Len(q[1]) \in Nat /\ Len(q[2]) \in Nat
         /\ Len(Remaining(q)[1]) \in Nat /\ Len(Remaining(q)[2]) \in Nat
         /\ Len(Remaining(q)[1]) + Len(Remaining(q)[2]) < Len(q[1]) + Len(q[2])
         /\ Len(q[1]) > 0 /\ Len(q[2]) > 0
         /\ Ids(Remaining(q)[1]) \subseteq Ids(q[1]) /\ Ids(Remaining(q)[2]) \subseteq Ids(q[2])
         /\ \/ Repayment(q).from \notin Ids(Remaining(q)[1])
            \/ Repayment(q).to \notin Ids(Remaining(q)[2])
         /\ \A p \in Debtors :
              /\ Left(q[1], p) = Left(Remaining(q)[1], p)
                                   + (IF Repayment(q).from = p THEN Repayment(q).amount ELSE 0)
              /\ Left(q[2], p) = Left(Remaining(q)[2], p)
                                   + (IF Repayment(q).to = p THEN Repayment(q).amount ELSE 0)
<1>. DEFINE ds == q[1]
            cs == q[2]
            t == Repayment(q)
            n == t.amount
            dr == After(ds, n)
            cr == After(cs, n)
<1>1. /\ Sound(ds) /\ Sound(cs) /\ ds # <<>> /\ cs # <<>> /\ q \in Sides /\ Total(ds) = Total(cs)
  BY DEF Fits, Fed
<1>2. /\ t \in Slips /\ t.from = Head(ds).id /\ t.to = Head(cs).id
      /\ n <= Head(ds).left /\ n <= Head(cs).left
      /\ n = Head(ds).left \/ n = Head(cs).left
      /\ Remaining(q) \in Sides /\ Remaining(q)[1] = dr /\ Remaining(q)[2] = cr
  BY <1>1, RepaymentFacts DEF After
<1>. HIDE DEF ds, cs, t
<1>3. /\ Len(ds) \in Nat /\ Len(ds) > 0 /\ Head(ds).left \in Nat \ {0} /\ Head(ds).id \in Ids(ds)
      /\ Len(cs) \in Nat /\ Len(cs) > 0 /\ Head(cs).left \in Nat \ {0} /\ Head(cs).id \in Ids(cs)
  BY <1>1, PileFacts DEF Ids
<1>4. n \in Nat \ {0}
  BY <1>2, <1>3 DEF Slips
<1>. HIDE DEF n
<1>5. /\ Sound(dr) /\ Len(dr) \in Nat /\ Ids(dr) \subseteq Ids(ds) /\ Len(dr) <= Len(ds)
      /\ n = Head(ds).left => Len(dr) = Len(ds) - 1 /\ Head(ds).id \notin Ids(dr)
      /\ \A p \in Debtors : Left(dr, p) = Left(ds, p) - (IF p = Head(ds).id THEN n ELSE 0)
      /\ Total(dr) = Total(ds) - n
  BY <1>1, <1>2, <1>4, Paid
<1>6. /\ Sound(cr) /\ Len(cr) \in Nat /\ Ids(cr) \subseteq Ids(cs) /\ Len(cr) <= Len(cs)
      /\ n = Head(cs).left => Len(cr) = Len(cs) - 1 /\ Head(cs).id \notin Ids(cr)
      /\ \A p \in Debtors : Left(cr, p) = Left(cs, p) - (IF p = Head(cs).id THEN n ELSE 0)
      /\ Total(cr) = Total(cs) - n
  BY <1>1, <1>2, <1>4, Paid
<1>7. \A p \in Debtors : Left(ds, p) \in Nat /\ Left(cs, p) \in Nat
  BY <1>1, LeftTypes
<1>. HIDE DEF dr, cr
<1>8. /\ Fits(Remaining(q)) /\ Len(dr) + Len(cr) < Len(ds) + Len(cs)
      /\ t.from \notin Ids(dr) \/ t.to \notin Ids(cr)
  BY <1>1, <1>2, <1>3, <1>5, <1>6 DEF Fits
<1>9. \A p \in Debtors : /\ Left(ds, p) = Left(dr, p) + (IF t.from = p THEN n ELSE 0)
                         /\ Left(cs, p) = Left(cr, p) + (IF t.to = p THEN n ELSE 0)
  BY <1>2, <1>4, <1>5, <1>6, <1>7
<1>10. n > 0 /\ t.from \in Ids(ds) /\ t.to \in Ids(cs)
  BY <1>2, <1>3, <1>4
<1>. QED
  BY <1>2, <1>3, <1>5, <1>6, <1>8, <1>9, <1>10 DEF ds, cs, t, n

LEMMA StepPays ==
  ASSUME NEW q, Fits(q), Fed(q), Pays(Meet[Remaining(q)], Remaining(q))
  PROVE  Pays(Meet[q], q)
<1>. DEFINE t == Repayment(q)
            N == Meet[Remaining(q)]
            M == Meet[q]
            rs == Remaining(q)
<1>1. M = N \cup {t}
  BY MeetIs DEF Fits
<1>2. /\ t \in Slips /\ t.amount > 0 /\ t.from \in Ids(q[1]) /\ t.to \in Ids(q[2])
      /\ Len(q[1]) \in Nat /\ Len(q[2]) \in Nat /\ Len(q[1]) > 0 /\ Len(q[2]) > 0
      /\ Len(rs[1]) \in Nat /\ Len(rs[2]) \in Nat
      /\ Len(rs[1]) + Len(rs[2]) < Len(q[1]) + Len(q[2])
      /\ Ids(rs[1]) \subseteq Ids(q[1]) /\ Ids(rs[2]) \subseteq Ids(q[2])
      /\ t.from \notin Ids(rs[1]) \/ t.to \notin Ids(rs[2])
  BY RemainingFits
<1>3. \A p \in Debtors :
        /\ Left(q[1], p) = Left(rs[1], p) + (IF t.from = p THEN t.amount ELSE 0)
        /\ Left(q[2], p) = Left(rs[2], p) + (IF t.to = p THEN t.amount ELSE 0)
  BY RemainingFits
<1>4. /\ IsFiniteSet(N) /\ N \in SUBSET Slips
      /\ \A u \in N : u.amount > 0 /\ u.from \in Ids(rs[1]) /\ u.to \in Ids(rs[2])
      /\ \A p \in Debtors : Sent(N, p) = Left(rs[1], p) /\ Received(N, p) = Left(rs[2], p)
      /\ N = {} \/ Cardinality(N) < Len(rs[1]) + Len(rs[2])
  BY DEF Pays
<1>. HIDE DEF t, N, M, rs
<1>5. t \notin N
  BY <1>2, <1>4
<1>6. \A p \in Debtors : Sent(M, p) = Left(q[1], p) /\ Received(M, p) = Left(q[2], p)
  <2>. SUFFICES ASSUME NEW p \in Debtors
                PROVE  Sent(M, p) = Left(q[1], p) /\ Received(M, p) = Left(q[2], p)
    OBVIOUS
  <2>1. /\ Sent(M, p) = Sent(N, p) + (IF t.from = p THEN t.amount ELSE 0)
        /\ Received(M, p) = Received(N, p) + (IF t.to = p THEN t.amount ELSE 0)
    <3>1. IsFiniteSet(N) /\ N \in SUBSET Slips /\ t \in Slips /\ t \notin N /\ M = N \cup {t}
      BY <1>1, <1>2, <1>4, <1>5
    <3>. QED
      BY <3>1, OneMoreSlip
  <2>2. /\ Sent(N, p) = Left(rs[1], p) /\ Received(N, p) = Left(rs[2], p)
        /\ Left(q[1], p) = Left(rs[1], p) + (IF t.from = p THEN t.amount ELSE 0)
        /\ Left(q[2], p) = Left(rs[2], p) + (IF t.to = p THEN t.amount ELSE 0)
    BY <1>3, <1>4, Zenon
  <2>. QED
    BY <2>1, <2>2
<1>7. IsFiniteSet(M) /\ M \in SUBSET Slips /\ Cardinality(M) = Cardinality(N) + 1
  BY <1>1, <1>2, <1>4, <1>5, FS_AddElement
<1>8. Cardinality(M) < Len(q[1]) + Len(q[2])
  <2>. DEFINE k == Len(q[1]) + Len(q[2])
              j == Len(rs[1]) + Len(rs[2])
              c == Cardinality(N)
  <2>1. k \in Nat /\ j \in Nat /\ 1 < k /\ j < k
    <3>. DEFINE a == Len(q[1])
                b == Len(q[2])
                c1 == Len(rs[1])
                c2 == Len(rs[2])
    <3>1. a \in Nat /\ b \in Nat /\ a > 0 /\ b > 0 /\ c1 \in Nat /\ c2 \in Nat /\ c1 + c2 < a + b
      BY <1>2
    <3>. HIDE DEF a, b, c1, c2
    <3>2. a + b \in Nat /\ c1 + c2 \in Nat /\ 1 < a + b
      BY <3>1
    <3>. QED
      BY <3>1, <3>2 DEF a, b, c1, c2
  <2>2. c \in Nat /\ (c = 0 \/ c < j)
    BY <1>4, FS_CardinalityType, FS_EmptySet
  <2>3. Cardinality(M) = c + 1
    BY <1>7
  <2>. HIDE DEF k, j, c
  <2>4. Cardinality(M) < k
    BY <2>1, <2>2, <2>3
  <2>. QED
    BY <2>4 DEF k
<1>9. \A u \in M : u.amount > 0 /\ u.from \in Ids(q[1]) /\ u.to \in Ids(q[2])
  BY <1>1, <1>2, <1>4
<1>. QED
  BY <1>6, <1>7, <1>8, <1>9 DEF Pays, M

LEMMA AllPay ==
  ASSUME NEW q, Fits(q)
  PROVE  Pays(Meet[q], q)
<1>. DEFINE Size(s) == Len(s[1]) + Len(s[2])
            Bad == {s \in Sides : Fits(s) /\ ~Pays(Meet[s], s)}
            B == {n \in Nat : \E s \in Bad : Size(s) = n}
<1>. SUFFICES ASSUME q \in Bad PROVE FALSE
  BY DEF Fits
<1>1. \A s \in Sides : Fits(s) => Size(s) \in Nat
  <2>. SUFFICES ASSUME NEW s \in Sides, Fits(s) PROVE Size(s) \in Nat
    OBVIOUS
  <2>. DEFINE ds == s[1]
              cs == s[2]
  <2>1. Len(ds) \in Nat /\ Len(cs) \in Nat
    BY PileFacts DEF Fits
  <2>. HIDE DEF ds, cs
  <2>2. Len(ds) + Len(cs) \in Nat
    BY <2>1
  <2>. QED
    BY <2>2 DEF ds, cs
<1>2. B \in SUBSET Nat /\ B # {}
  BY <1>1
<1>3. PICK n \in B : \A m \in B : ~(m < n)
  <2>. HIDE DEF B
  <2>. QED
    BY <1>2, LeastNumber
<1>4. PICK s \in Bad : Size(s) = n
  OBVIOUS
<1>5. Fits(s) /\ Fed(s) /\ ~Pays(Meet[s], s)
  BY NothingPays
<1>6. Fits(Remaining(s)) /\ Size(Remaining(s)) < Size(s)
  BY <1>5, RemainingFits
<1>7. Remaining(s) \in Sides /\ Size(Remaining(s)) \in Nat
  BY <1>1, <1>6 DEF Fits
<1>8. Pays(Meet[Remaining(s)], Remaining(s))
  <2>. SUFFICES ASSUME ~Pays(Meet[Remaining(s)], Remaining(s)) PROVE FALSE
    OBVIOUS
  <2>1. Remaining(s) \in Bad
    BY <1>6, <1>7
  <2>2. Size(Remaining(s)) \in B
    BY <1>7, <2>1
  <2>. QED
    BY <1>3, <1>4, <1>6, <2>2
<1>. QED
  BY <1>5, <1>8, StepPays

-----------------------------------------------------------------------------
(* The two queues: everybody who owes, and everybody who is owed, once.       *)

Open(amount) == {p \in Debtors : amount[p] > 0}
Ahead(amount, p) ==
  {q \in Open(amount) : amount[q] > amount[p] \/ (amount[q] = amount[p] /\ q <= p)}

LEMMA Ranked ==
  ASSUME NEW amount \in [Debtors -> Int]
  PROVE  /\ IsFiniteSet(Open(amount)) /\ Cardinality(Open(amount)) \in Nat
         /\ \A p \in Open(amount) :
              Cardinality(Ahead(amount, p)) \in 1..Cardinality(Open(amount))
         /\ \A p, q \in Open(amount) :
              Cardinality(Ahead(amount, p)) = Cardinality(Ahead(amount, q)) => p = q
         /\ \A i \in 1..Cardinality(Open(amount)) :
              \E p \in Open(amount) : Cardinality(Ahead(amount, p)) = i
<1>. DEFINE open == Open(amount)
            N == Cardinality(open)
            rank == [p \in open |-> Cardinality(Ahead(amount, p))]
<1>1. IsFiniteSet(open) /\ open \subseteq Debtors /\ open \subseteq Nat /\ \A p \in open : amount[p] \in Int
  BY DebtorFacts, FS_Subset DEF Open
<1>2. N \in Nat
  BY <1>1, FS_CardinalityType
<1>3. \A p \in open : /\ Ahead(amount, p) \in SUBSET open /\ p \in Ahead(amount, p)
                      /\ IsFiniteSet(Ahead(amount, p)) /\ Cardinality(Ahead(amount, p)) \in Nat
  <2>. SUFFICES ASSUME NEW p \in open
                PROVE  /\ Ahead(amount, p) \in SUBSET open /\ p \in Ahead(amount, p)
                       /\ IsFiniteSet(Ahead(amount, p)) /\ Cardinality(Ahead(amount, p)) \in Nat
    OBVIOUS
  <2>1. Ahead(amount, p) \in SUBSET open /\ p \in Ahead(amount, p)
    BY <1>1 DEF Ahead
  <2>. QED
    BY <1>1, <2>1, FS_Subset, FS_CardinalityType
<1>4. ASSUME NEW p \in open PROVE rank[p] \in 1..N
  <2>1. Cardinality(Ahead(amount, p)) <= N
    BY <1>1, <1>3, FS_Subset
  <2>2. Cardinality(Ahead(amount, p)) # 0
    BY <1>3, FS_EmptySet
  <2>. QED
    BY <1>2, <1>3, <2>1, <2>2
<1>5. ASSUME NEW p \in open, NEW q \in open,
             amount[q] > amount[p] \/ (amount[q] = amount[p] /\ q < p)
      PROVE  rank[q] < rank[p]
  <2>1. Ahead(amount, q) \subseteq Ahead(amount, p) /\ p \notin Ahead(amount, q)
    <3>1. ASSUME NEW r \in open, amount[r] > amount[q] \/ (amount[r] = amount[q] /\ r <= q)
          PROVE  amount[r] > amount[p] \/ (amount[r] = amount[p] /\ r <= p)
      <4>1. amount[r] \in Int /\ amount[q] \in Int /\ amount[p] \in Int /\ r \in Nat /\ q \in Nat /\ p \in Nat
        BY <1>1
      <4>. QED
        BY <1>5, <3>1, <4>1
    <3>2. ~(amount[p] > amount[q] \/ (amount[p] = amount[q] /\ p <= q))
      <4>1. amount[q] \in Int /\ amount[p] \in Int /\ q \in Nat /\ p \in Nat
        BY <1>1
      <4>. QED
        BY <1>5, <4>1
    <3>. QED
      BY <3>1, <3>2 DEF Ahead
  <2>2. Ahead(amount, q) # Ahead(amount, p)
    BY <1>3, <2>1
  <2>3. /\ Cardinality(Ahead(amount, q)) <= Cardinality(Ahead(amount, p))
        /\ Cardinality(Ahead(amount, q)) # Cardinality(Ahead(amount, p))
    BY <1>3, <2>1, <2>2, FS_Subset
  <2>. QED
    BY <1>3, <2>3
<1>6. ASSUME NEW p \in open, NEW q \in open, rank[p] = rank[q] PROVE p = q
  <2>1. amount[q] \in Int /\ amount[p] \in Int /\ q \in Nat /\ p \in Nat /\ rank[p] \in Int /\ rank[q] \in Int
    BY <1>1, <1>4
  <2>2. ~(rank[p] < rank[q]) /\ ~(rank[q] < rank[p])
    BY <1>6, <2>1
  <2>3. /\ ~(amount[q] > amount[p] \/ (amount[q] = amount[p] /\ q < p))
        /\ ~(amount[p] > amount[q] \/ (amount[p] = amount[q] /\ p < q))
    BY <1>5, <2>2
  <2>. QED
    BY <2>1, <2>3
<1>7. rank \in Injection(open, 1..N)
  BY <1>4, <1>6 DEF Injection, IsInjective
<1>. HIDE DEF rank
<1>8. rank \in Surjection(open, 1..N)
  <2>1. IsFiniteSet(1..N) /\ Cardinality(1..N) = N
    BY <1>2, FS_Interval
  <2>. QED
    BY <1>7, <2>1, FS_Injection
<1>9. \A i \in 1..N : \E p \in open : rank[p] = i
  BY <1>8 DEF Surjection
<1>. QED
  BY <1>1, <1>2, <1>4, <1>6, <1>9 DEF rank

LEMMA QueueFacts ==
  ASSUME NEW amount \in [Debtors -> Int]
  PROVE  /\ Sound(Queue(amount)) /\ Len(Queue(amount)) = Cardinality(Open(amount))
         /\ \A p \in Debtors : Left(Queue(amount), p) = IF amount[p] > 0 THEN amount[p] ELSE 0
<1>. DEFINE open == Open(amount)
            N == Cardinality(open)
            rank(p) == Cardinality(Ahead(amount, p))
            at(i) == CHOOSE p \in open : rank(p) = i
            s == Queue(amount)
<1>1. /\ N \in Nat
      /\ \A p \in open : rank(p) \in 1..N
      /\ \A p, q \in open : rank(p) = rank(q) => p = q
      /\ \A i \in 1..N : \E p \in open : rank(p) = i
  BY Ranked
<1>2. s = [i \in 1..N |-> [id |-> at(i), left |-> amount[at(i)]]]
  BY DEF Queue, Open, Ahead
<1>3. \A p \in open : p \in Debtors /\ p \in Nat /\ amount[p] \in Nat /\ amount[p] > 0
  BY DebtorFacts DEF Open
<1>. HIDE DEF open, rank, N, s
<1>4. \A i \in 1..N : at(i) \in open /\ rank(at(i)) = i
  BY <1>1
<1>5. \A p \in open : at(rank(p)) = p
  BY <1>1, <1>4
<1>. HIDE DEF at
<1>6. \A i \in 1..N : /\ s[i] = [id |-> at(i), left |-> amount[at(i)]] /\ s[i] \in Pile
                      /\ s[i].id = at(i) /\ s[i].left = amount[at(i)]
  BY <1>2, <1>3, <1>4 DEF Pile
<1>7. DOMAIN s = 1..N /\ s \in Seq(Pile)
  <2>1. DOMAIN s = 1..N /\ s \in [1..N -> Pile]
    BY <1>2, <1>6
  <2>. QED
    BY <1>1, <2>1, SeqDef
<1>8. Len(s) = N
  BY <1>1, <1>7, LenProperties
<1>9. Sound(s)
  <2>1. \A i \in 1..N : s[i].left > 0 /\ s[i].id \in Debtors
    BY <1>3, <1>4, <1>6
  <2>2. \A i, j \in 1..N : s[i].id = s[j].id => i = j
    BY <1>4, <1>6
  <2>. QED
    BY <1>7, <2>1, <2>2 DEF Sound, Piles, Pile
<1>10. ASSUME NEW p \in Debtors PROVE Left(s, p) = IF amount[p] > 0 THEN amount[p] ELSE 0
  <2>1. CASE p \in open
    <3>1. rank(p) \in 1..N /\ at(rank(p)) = p
      BY <1>1, <1>5, <2>1
    <3>2. rank(p) \in DOMAIN s /\ s[rank(p)].id = p /\ s[rank(p)].left = amount[p]
      BY <1>6, <1>7, <3>1
    <3>3. Left(s, p) = amount[p]
      BY <1>9, <3>2, LeftOf
    <3>. QED
      BY <1>3, <2>1, <3>3
  <2>2. CASE p \notin open
    <3>1. p \notin Ids(s)
      BY <1>4, <1>6, <1>7, <2>2 DEF Ids
    <3>2. ~(amount[p] > 0)
      BY <2>2 DEF open, Open
    <3>. QED
      BY <3>1, <3>2 DEF Left
  <2>. QED
    BY <2>1, <2>2
<1>. QED
  BY <1>8, <1>9, <1>10 DEF s, N, open

\* What settlementTransfers() makes of balances that sum to nothing.
LEMMA TransfersPay ==
  ASSUME NEW balance \in [Debtors -> Int], SumFunctionOnSet(balance, Debtors) = 0
  PROVE  LET paid == Transfers(balance) IN
         /\ IsFiniteSet(paid) /\ paid \in SUBSET Slips /\ \A t \in paid : t.amount > 0
         /\ \A p \in Debtors : Received(paid, p) - Sent(paid, p) = balance[p]
         /\ Cardinality(paid) < Cardinality({p \in Debtors : balance[p] # 0}) \/ paid = {}
<1>. DEFINE owes == [p \in Debtors |-> -balance[p]]
            ds == Queue(owes)
            cs == Queue(balance)
            q == <<ds, cs>>
<1>1. owes \in [Debtors -> Int] /\ \A p \in Debtors : owes[p] = -balance[p] /\ balance[p] \in Int
  OBVIOUS
<1>2. Transfers(balance) = Meet[q]
  BY DEF Transfers
<1>. HIDE DEF owes
<1>3. /\ Sound(ds) /\ Len(ds) = Cardinality(Open(owes))
      /\ \A p \in Debtors : Left(ds, p) = IF owes[p] > 0 THEN owes[p] ELSE 0
  BY <1>1, QueueFacts
<1>4. /\ Sound(cs) /\ Len(cs) = Cardinality(Open(balance))
      /\ \A p \in Debtors : Left(cs, p) = IF balance[p] > 0 THEN balance[p] ELSE 0
  BY QueueFacts
<1>. HIDE DEF ds, cs
<1>5. \A p \in Debtors : Left(cs, p) \in Nat /\ Left(ds, p) \in Nat /\ Left(cs, p) = balance[p] + Left(ds, p)
  BY <1>1, <1>3, <1>4
<1>6. Total(cs) = Total(ds)
  <2>1. \A p \in Debtors : /\ Lefts(cs)[p] = balance[p] + Lefts(ds)[p]
                           /\ Lefts(cs)[p] \in Int /\ Lefts(ds)[p] \in Int /\ balance[p] \in Int
    BY <1>1, <1>5 DEF Lefts
  <2>2. Total(cs) = SumFunctionOnSet(balance, Debtors) + Total(ds)
    <3>. DEFINE k == Lefts(cs)
                g == Lefts(ds)
    <3>1. \A p \in Debtors : balance[p] \in Int /\ g[p] \in Int /\ k[p] = balance[p] + g[p]
      BY <2>1
    <3>. HIDE DEF k, g
    <3>2. SumFunctionOnSet(k, Debtors) = SumFunctionOnSet(balance, Debtors) + SumFunctionOnSet(g, Debtors)
      BY <3>1, DebtorFacts, SumPlus
    <3>. QED
      BY <3>2 DEF Total, k, g
  <2>. QED
    BY <1>3, <2>2, LeftTypes
<1>7. Fits(q) /\ q[1] = ds /\ q[2] = cs
  BY <1>3, <1>4, <1>6 DEF Fits, Sides, Sound
<1>. DEFINE M == Meet[q]
<1>8. /\ IsFiniteSet(M) /\ M \in SUBSET Slips /\ \A t \in M : t.amount > 0
      /\ \A p \in Debtors : Sent(M, p) = Left(ds, p) /\ Received(M, p) = Left(cs, p)
      /\ M = {} \/ Cardinality(M) < Len(ds) + Len(cs)
  BY <1>7, AllPay DEF Pays
<1>9. Cardinality(Open(owes)) + Cardinality(Open(balance)) = Cardinality({p \in Debtors : balance[p] # 0})
  <2>1. /\ Open(owes) \cup Open(balance) = {p \in Debtors : balance[p] # 0}
        /\ Open(owes) \cap Open(balance) = {}
    BY <1>1 DEF Open
  <2>2. /\ IsFiniteSet(Open(owes)) /\ IsFiniteSet(Open(balance))
        /\ Cardinality(Open(owes)) \in Nat /\ Cardinality(Open(balance)) \in Nat
    BY <1>1, Ranked
  <2>. QED
    BY <2>1, <2>2, FS_Union, FS_EmptySet
<1>. HIDE DEF M, q
<1>10. \A p \in Debtors : Received(M, p) - Sent(M, p) = balance[p]
  BY <1>1, <1>5, <1>8
<1>11. Cardinality(M) < Cardinality({p \in Debtors : balance[p] # 0}) \/ M = {}
  BY <1>3, <1>4, <1>8, <1>9
<1>. QED
  BY <1>2, <1>8, <1>10, <1>11 DEF M

Listed == book \in Books

LEMMA BookListed == DebtSpec => []Listed
<1>1. DebtInit => Listed
  BY DEF DebtInit, Listed
<1>2. Listed /\ [DebtNext]_debtVars => Listed'
  BY DEF Listed, DebtNext, debtVars, BooksChange, MakePromise, CancelPromise, SyncReminders,
         RunDue, DebtsAge, ClaimMails, CheckMail, MarkSent, SendFails, MailerStops, LeaseLapses
<1>. QED
  BY <1>1, <1>2, PTL DEF DebtSpec

\* The proposed transfers pay every debt and claim exactly, with fewer transfers
\* than people, for any number of people and any balances.
THEOREM TransfersExact == DebtSpec => []TransfersAreExact
<1>1. Listed => TransfersAreExact
  <2>. SUFFICES ASSUME book \in Books PROVE TransfersAreExact
    BY DEF Listed
  <2>1. book.balance \in [Debtors -> Int] /\ SumFunctionOnSet(book.balance, Debtors) = 0
    BY RemindersAssumption
  <2>. QED
    BY <2>1, TransfersPay DEF TransfersAreExact
<1>. QED
  BY BookListed, <1>1, PTL
=============================================================================
