---------------------------- MODULE HouseLedger ----------------------------
(***************************************************************************)
(* The shared expenses of one house (modules/expenses): expenses and how   *)
(* they are split, what was paid to the supplier, transfers between the    *)
(* housemates that their recipient confirms, settlement, and corrections   *)
(* of settled expenses, while people join and leave the house.             *)
(*                                                                         *)
(* Every operation takes the lock of the house row first, so each is one   *)
(* step.  Balances are not stored: expense-ledger.ts adds up the rows.     *)
(* Who may act is left out: as long as the house is open its owner, who    *)
(* may do everything, is in it.  A stale version or a repeated request is  *)
(* refused or answered from the row it made, which changes nothing.        *)
(***************************************************************************)
EXTENDS Community, Integers, Sequences, FiniteSets, FiniteSetsExt

CONSTANTS
  Guests,         \* those without an account
  Movers,         \* bound: people who join or leave later
  Expenses,
  Payments,
  Amounts,        \* bound: amounts of expenses and transfers
  Unpaid,         \* bound: how much of a new bill may be open at the supplier
  MaxCorrections  \* bound: corrections of one expense

ASSUME LedgerAssumption ==
  /\ Guests \subseteq People
  /\ Movers \subseteq People
  /\ IsFiniteSet(People) /\ IsFiniteSet(Expenses) /\ IsFiniteSet(Payments)
  /\ Amounts \subseteq Nat \ {0}
  /\ Unpaid \in Nat
  /\ MaxCorrections \in Nat

VARIABLES
  presence,    \* presence[p]: "never", "in", "left"
  closed,      \* house.closedAt
  expense,     \* expense[e]: status, payer, amount, shares, paid to the supplier
  supplier,    \* supplier[e]: sum of the supplier payments recorded later
  corrections, \* corrections[e]: in order of version
  payment      \* payment[q]: a transfer between two people

ledgerVars == <<presence, closed, expense, supplier, corrections, payment>>
houseVars == <<presence, closed>>
expenseVars == <<expense, supplier, corrections>>

-----------------------------------------------------------------------------
NoShares == [p \in People |-> 0]
NoExpense == [status |-> "NONE", payer |-> None, amount |-> 0, shares |-> NoShares, paid |-> 0]
NoPayment ==
  [status |-> "NONE", payer |-> None, recipient |-> None, amount |-> 0, settled |-> FALSE]

\* What an expense says, or says after a correction.
Snapshots == [payer : People, amount : Nat, shares : [People -> Nat]]
Correction == [to : Snapshots, delta : [People -> Int], settled : BOOLEAN]

LedgerTypeOK ==
  /\ presence \in [People -> {"never", "in", "left"}]
  /\ closed \in BOOLEAN
  /\ expense \in [Expenses ->
       [status : {"NONE", "ACTIVE", "SETTLED", "CANCELLED"}, payer : People \cup {None},
        amount : Nat, shares : [People -> Nat], paid : Nat]]
  /\ supplier \in [Expenses -> Nat]
  /\ corrections \in [Expenses -> Seq(Correction)]
  /\ payment \in [Payments ->
       [status : {"NONE", "PENDING", "CONFIRMED", "REJECTED", "CANCELLED"},
        payer : People \cup {None}, recipient : People \cup {None},
        amount : Nat, settled : BOOLEAN]]
  /\ \A e \in Expenses : expense[e].status # "NONE" => expense[e].payer \in People

-----------------------------------------------------------------------------
(* Splits and balances.  A person listed with a share of zero counts as    *)
(* not listed.                                                             *)

SumOf(shares) == SumFunctionOnSet(shares, People)

\* The splits of an expense add up to its amount: expenseSplits() computes or
\* checks them, sharingAmounts() computes those of a monthly rule.
Splits(n) == {shares \in [People -> 0 .. n] : SumOf(shares) = n}

Snapshot(x) == [payer |-> x.payer, amount |-> x.amount, shares |-> x.shares]
Named(x) == {x.payer} \cup {p \in People : x.shares[p] # 0}

\* What a snapshot adds to the balance of p: what p paid less what p owes.
Net(x, p) == (IF x.payer = p THEN x.amount ELSE 0) - x.shares[p]

Booked == {e \in Expenses : expense[e].status \in {"ACTIVE", "SETTLED"}}
Open == {e \in Expenses : expense[e].status = "ACTIVE"}
Pending == {q \in Payments : payment[q].status = "PENDING"}
Confirmed == {q \in Payments : payment[q].status = "CONFIRMED"}
Unsettled == {q \in Confirmed : ~payment[q].settled}

Worth == [q \in Payments |-> payment[q].amount]
Sent(qs, p) == SumFunctionOnSet(Worth, {q \in qs : payment[q].payer = p})
Received(qs, p) == SumFunctionOnSet(Worth, {q \in qs : payment[q].recipient = p})
Nets(es, p) == SumFunctionOnSet([e \in Expenses |-> Net(expense[e], p)], es)
Deltas(e, is, p) ==
  SumFunctionOnSet([i \in DOMAIN corrections[e] |-> corrections[e][i].delta[p]], is)
Corrected(p) ==
  SumFunctionOnSet([e \in Expenses |-> Deltas(e, DOMAIN corrections[e], p)], Expenses)

\* calculateHouseBalances.
Balance(p) == Nets(Booked, p) + Corrected(p) + Sent(Confirmed, p) - Received(Confirmed, p)

\* The corrections not yet settled, and what they add to a balance.
Loose(e) == {i \in DOMAIN corrections[e] : ~corrections[e][i].settled}
CorrectedSince(p) == SumFunctionOnSet([e \in Expenses |-> Deltas(e, Loose(e), p)], Expenses)

Faulty_NoPending == TRUE
NoPending == Pending = {}

-----------------------------------------------------------------------------
\* The house has an owner when its first expense is recorded.
LedgerInit ==
  /\ presence \in [People -> {"never", "in"}]
  /\ \E m \in People \ Guests : presence[m] = "in"
  /\ closed = FALSE
  /\ expense = [e \in Expenses |-> NoExpense]
  /\ supplier = [e \in Expenses |-> 0]
  /\ corrections = [e \in Expenses |-> <<>>]
  /\ payment = [q \in Payments |-> NoPayment]

-----------------------------------------------------------------------------
(* The people of the house.                                                *)

\* addGuest(), or accepting an invite: a former member is the same participant.
Join(p) ==
  /\ ~closed
  /\ presence[p] = "never" \/ (presence[p] = "left" /\ p \notin Guests)
  /\ presence' = [presence EXCEPT ![p] = "in"]
  /\ UNCHANGED <<closed, expenseVars, payment>>

\* leave() and removeGuest() ask for no balance; the last member closes the house.
Leave(p) ==
  /\ ~closed
  /\ presence[p] = "in"
  /\ presence' = [presence EXCEPT ![p] = "left"]
  /\ closed' = (\A m \in People \ Guests : presence'[m] # "in")
  /\ UNCHANGED <<expenseVars, payment>>

-----------------------------------------------------------------------------
(* Expenses.                                                               *)

\* validatePeople: those who left only where the record already named them.
Nameable(ps, before) == \A p \in ps : presence[p] = "in" \/ p \in before

\* editable(): neither settled nor cancelled.
Editable(e) == ~closed /\ expense[e].status = "ACTIVE"

Write(e, x) == expense' = [expense EXCEPT ![e] = x]

Create(e) ==
  /\ ~closed
  /\ expense[e].status = "NONE"
  /\ NoPending
  /\ \E n \in Amounts, a \in People :
       \E shares \in Splits(n), open \in 0 .. Unpaid :
         LET x == [status |-> "ACTIVE", payer |-> a, amount |-> n, shares |-> shares,
                   paid |-> n - open]
         IN /\ open <= n
            /\ Nameable(Named(x), {})
            /\ Write(e, x)
  /\ UNCHANGED <<houseVars, supplier, corrections, payment>>

\* Once a supplier payment is recorded, what was paid and by whom is fixed.
Faulty_Locked(e) == FALSE
Locked(e) == supplier[e] # 0

Update(e) ==
  /\ Editable(e)
  /\ NoPending
  /\ \E n \in Amounts, a \in People :
       \E shares \in Splits(n), paid \in {expense[e].paid} \cup ((n - Unpaid) .. n) :
         LET x == [status |-> "ACTIVE", payer |-> a, amount |-> n, shares |-> shares,
                   paid |-> paid]
         IN /\ paid \in 0 .. n
            /\ Locked(e) => paid = expense[e].paid /\ a = expense[e].payer
            /\ Nameable(Named(x), Named(expense[e]))
            /\ Write(e, x)
  /\ UNCHANGED <<houseVars, supplier, corrections, payment>>

Cancel(e) ==
  /\ Editable(e)
  /\ NoPending
  /\ expense' = [expense EXCEPT ![e].status = "CANCELLED"]
  /\ UNCHANGED <<houseVars, supplier, corrections, payment>>

\* More is paid to the landlord or seller; the balances do not change.
PaySupplier(e, n) ==
  /\ Editable(e)
  /\ n <= expense[e].amount - expense[e].paid
  /\ expense' = [expense EXCEPT ![e].paid = @ + n]
  /\ supplier' = [supplier EXCEPT ![e] = @ + n]
  /\ UNCHANGED <<houseVars, corrections, payment>>

-----------------------------------------------------------------------------
(* Settlement and what follows it.                                         *)

\* settle(): every balance is zero and every bill is paid.
Settled(c) == [c EXCEPT !.settled = TRUE]
Settle ==
  /\ ~closed
  /\ NoPending
  /\ \A p \in People : Balance(p) = 0
  /\ \A e \in Open : expense[e].paid >= expense[e].amount
  /\ Open # {} \/ \E e \in Expenses : Loose(e) # {}
  /\ expense' = [e \in Expenses |->
       IF e \in Open THEN [expense[e] EXCEPT !.status = "SETTLED"] ELSE expense[e]]
  /\ corrections' = [e \in Expenses |->
       [i \in DOMAIN corrections[e] |-> [corrections[e][i] EXCEPT !.settled = TRUE]]]
  /\ payment' = [q \in Payments |->
       IF q \in Confirmed THEN Settled(payment[q]) ELSE payment[q]]
  /\ UNCHANGED <<houseVars, supplier>>

\* What the settled expense says now: its last correction, or itself.
Faulty_Latest(e) == Snapshot(expense[e])
Latest(e) ==
  IF corrections[e] = <<>> THEN Snapshot(expense[e])
  ELSE corrections[e][Len(corrections[e])].to

\* A correction books the difference and leaves the expense as it is.
Correct(e) ==
  /\ ~closed
  /\ expense[e].status = "SETTLED"
  /\ NoPending
  /\ Len(corrections[e]) < MaxCorrections
  /\ \E n \in Amounts, a \in People :
       \E shares \in Splits(n) :
         LET old == Latest(e)
             new == [payer |-> a, amount |-> n, shares |-> shares]
         IN /\ new # old
            /\ Nameable(Named(old) \cup Named(new), Named(expense[e]) \cup Named(old))
            /\ corrections' = [corrections EXCEPT ![e] = Append(@,
                 [to |-> new, delta |-> [p \in People |-> Net(new, p) - Net(old, p)],
                  settled |-> FALSE])]
  /\ UNCHANGED <<houseVars, expense, supplier, payment>>

-----------------------------------------------------------------------------
(* Transfers between housemates, also after they left or the house closed. *)

\* What of p's debt, or of p's claim, no waiting transfer has taken yet.
Owes(p) == -Balance(p) - Sent(Pending, p)
Faulty_Claims(p) == Balance(p)
Claims(p) == Balance(p) - Received(Pending, p)

Transfer(q, a, b, n) ==
  /\ payment[q].status = "NONE"
  /\ a # b /\ presence[a] # "never" /\ presence[b] # "never"
  /\ n <= Owes(a) /\ n <= Claims(b)
  /\ payment' = [payment EXCEPT ![q] =
       [status |-> "PENDING", payer |-> a, recipient |-> b, amount |-> n, settled |-> FALSE]]
  /\ UNCHANGED <<houseVars, expenseVars>>

Confirmable(q) ==
  LET x == payment[q] IN
  x.amount <= Owes(x.payer) + x.amount /\ x.amount <= Claims(x.recipient) + x.amount

AnswerTransfer(q, answer) ==
  /\ payment[q].status = "PENDING"
  /\ payment' = [payment EXCEPT ![q].status = answer]
  /\ UNCHANGED <<houseVars, expenseVars>>

Confirm(q) == AnswerTransfer(q, "CONFIRMED") /\ Confirmable(q)
RejectTransfer(q) == AnswerTransfer(q, "REJECTED")
CancelTransfer(q) == AnswerTransfer(q, "CANCELLED")

-----------------------------------------------------------------------------
LedgerNext ==
  \/ \E p \in Movers : Join(p) \/ Leave(p)
  \/ \E e \in Expenses : Create(e) \/ Update(e) \/ Cancel(e) \/ Correct(e)
  \/ \E e \in Expenses, n \in Amounts : PaySupplier(e, n)
  \/ Settle
  \/ \E q \in Payments, a, b \in People, n \in Amounts : Transfer(q, a, b, n)
  \/ \E q \in Payments : Confirm(q) \/ RejectTransfer(q) \/ CancelTransfer(q)

LedgerSpec == LedgerInit /\ [][LedgerNext]_ledgerVars

-----------------------------------------------------------------------------
(* Properties.                                                             *)

\* A transfer that waits can always be confirmed: whatever is recorded, paid or
\* settled meanwhile, debts still cover all waiting transfers together, so the
\* check in change() (PAYMENT_AMOUNT_EXCEEDED) never refuses a recipient.
WaitingIsCovered ==
  \A q \in Pending :
    LET x == payment[q] IN
    /\ Sent(Pending, x.payer) <= -Balance(x.payer)
    /\ Received(Pending, x.recipient) <= Balance(x.recipient)

\* The rows the current page shows explain the balance next to them: settlement
\* closes expenses, corrections and transfers together, so that what it hides
\* adds up to nothing for everyone (README: a new round does not add up the money
\* of an earlier one).
CurrentExplainsBalance ==
  \A p \in People :
    Balance(p) = Nets(Open, p) + CorrectedSince(p)
                 + Sent(Unsettled, p) - Received(Unsettled, p)

\* A chain of corrections counts like its last target: the differences booked one
\* after another, in whatever rounds, add up to what the expense says now.
CorrectionsChain ==
  \A e \in Expenses, p \in People :
    corrections[e] # <<>> =>
      Net(expense[e], p) + Deltas(e, DOMAIN corrections[e], p)
        = Net(corrections[e][Len(corrections[e])].to, p)

\* Over all rounds, the books say what the people of the house agreed to.
RoundsAddUp == CurrentExplainsBalance /\ CorrectionsChain

\* The recorded supplier payments never exceed what the expense counts as paid,
\* nor that its amount, however the expense is edited between them.
SupplierAccounted ==
  \A e \in Expenses : supplier[e] <= expense[e].paid /\ expense[e].paid <= expense[e].amount

\* What was settled is only read: neither an edit, a cancellation, a supplier
\* payment nor a correction changes it, and corrections are only added.
SettledIsReadOnly ==
  [][\A e \in Expenses : expense[e].status = "SETTLED" =>
       /\ expense'[e] = expense[e] /\ supplier'[e] = supplier[e]
       /\ \A i \in DOMAIN corrections[e] :
            /\ i \in DOMAIN corrections'[e]
            /\ corrections'[e][i].to = corrections[e][i].to
            /\ corrections'[e][i].delta = corrections[e][i].delta]_ledgerVars

\* The ledger implements the book of debts: balances sum to zero, records change
\* only while no transfer waits, and no transfer pays more than is owed.
Book == INSTANCE DebtBook WITH
  balance <- [p \in People |-> Balance(p)],
  promised <- {[id |-> q, from |-> payment[q].payer, to |-> payment[q].recipient,
                amount |-> payment[q].amount] : q \in Pending}
KeepsBook == Book!Spec

\* The house is shown as settled only when nobody owes anything (README: "Chi chot
\* khi so du moi nguoi bang 0"; get() computes isSettled).
IsSettled == Booked # {} /\ Open = {} /\ \A e \in Expenses : Loose(e) = {}
SettledMeansBalanced == IsSettled => \A p \in People : Balance(p) = 0
=============================================================================
