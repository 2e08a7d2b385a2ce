------------------------- MODULE HouseLedger_proofs -------------------------
(***************************************************************************)
(* Proofs about HouseLedger: types, what was paid to suppliers, that       *)
(* settled expenses are only read, that the balances explain themselves    *)
(* and cover what waits, and that the ledger implements DebtBook.          *)
(*                                                                         *)
(* SupplierAccounted is inductive once an expense that does not exist yet  *)
(* has no supplier payments (FreshInv): creating it counts on that.  The   *)
(* balances need more (LInv): every split adds up, only settled expenses   *)
(* are corrected, transfers wait between two people, and all balances      *)
(* together are zero.                                                      *)
(***************************************************************************)
EXTENDS HouseLedger, Sums, FiniteSetTheorems, TLAPS

-----------------------------------------------------------------------------
(* Types, and what was paid to suppliers.                                  *)

Expense ==
  [status : {"NONE", "ACTIVE", "SETTLED", "CANCELLED"}, payer : People \cup {None},
   amount : Nat, shares : [People -> Nat], paid : Nat]

FreshInv == \A e \in Expenses : expense[e].status = "NONE" => supplier[e] = 0

IInv == LedgerTypeOK /\ FreshInv /\ SupplierAccounted

LEMMA AmountsNat == Amounts \subseteq Nat /\ \A n \in Amounts : n # 0
BY LedgerAssumption DEF LedgerAssumption

LEMMA SplitsType ==
  ASSUME NEW n \in Nat, NEW shares \in Splits(n)
  PROVE  shares \in [People -> Nat]
BY DEF Splits

LEMMA InitIInv == LedgerInit => IInv
<1>. SUFFICES ASSUME LedgerInit PROVE IInv
  OBVIOUS
<1>1. expense \in [Expenses -> Expense]
  BY DEF LedgerInit, NoExpense, NoShares, Expense
<1>2. corrections \in [Expenses -> Seq(Correction)]
  BY DEF LedgerInit
<1>3. payment \in [Payments ->
       [status : {"NONE", "PENDING", "CONFIRMED", "REJECTED", "CANCELLED"},
        payer : People \cup {None}, recipient : People \cup {None},
        amount : Nat, settled : BOOLEAN]]
  BY DEF LedgerInit, NoPayment
<1>4. LedgerTypeOK
  BY <1>1, <1>2, <1>3, ZenonT(60) DEF LedgerInit, NoExpense, Expense, LedgerTypeOK
<1>. QED
  BY <1>4 DEF LedgerInit, NoExpense, IInv, FreshInv, SupplierAccounted

-----------------------------------------------------------------------------
(* One lemma per operation of an expense.                                  *)

LEMMA HouseStep ==
  ASSUME IInv, NEW p \in People, Join(p) \/ Leave(p)
  PROVE  IInv'
BY DEF Join, Leave, expenseVars, IInv, LedgerTypeOK, FreshInv, SupplierAccounted

\* An expense is written as a whole.
LEMMA WriteKeeps ==
  ASSUME IInv, NEW e \in Expenses, NEW x \in Expense, Write(e, x),
         x.status \notin {"NONE"}, x.payer \in People,
         supplier[e] <= x.paid, x.paid <= x.amount,
         UNCHANGED <<houseVars, supplier, corrections, payment>>
  PROVE  IInv'
<1>1. expense' \in [Expenses -> Expense]
  BY DEF Write, IInv, LedgerTypeOK, Expense
<1>2. expense'[e] = x /\ \A d \in Expenses \ {e} : expense'[d] = expense[d]
  BY DEF Write, IInv, LedgerTypeOK
<1>3. LedgerTypeOK'
  BY <1>1, <1>2 DEF houseVars, IInv, LedgerTypeOK, Expense
<1>4. FreshInv' /\ SupplierAccounted'
  BY <1>2 DEF IInv, FreshInv, SupplierAccounted
<1>. QED
  BY <1>3, <1>4 DEF IInv

LEMMA CreateStep ==
  ASSUME IInv, NEW e \in Expenses, Create(e)
  PROVE  IInv'
<1>0. PICK n \in Amounts, a \in People :
        \E shares \in Splits(n), open \in 0 .. Unpaid :
          /\ open <= n
          /\ Write(e, [status |-> "ACTIVE", payer |-> a, amount |-> n, shares |-> shares,
                       paid |-> n - open])
  BY DEF Create
<1>1. PICK shares \in Splits(n), open \in 0 .. Unpaid :
        /\ open <= n
        /\ Write(e, [status |-> "ACTIVE", payer |-> a, amount |-> n, shares |-> shares,
                     paid |-> n - open])
  BY <1>0
<1> DEFINE x == [status |-> "ACTIVE", payer |-> a, amount |-> n, shares |-> shares,
                 paid |-> n - open]
<1>2. n \in Nat /\ open \in Nat /\ n - open \in Nat
  BY <1>1, AmountsNat
<1>3. x \in Expense
  BY <1>2, SplitsType DEF Expense
<1>4. supplier[e] = 0
  BY DEF Create, IInv, FreshInv
<1>. QED
  BY <1>1, <1>2, <1>3, <1>4, WriteKeeps DEF Create

LEMMA UpdateStep ==
  ASSUME IInv, NEW e \in Expenses, Update(e)
  PROVE  IInv'
<1>0. PICK n \in Amounts, a \in People :
        \E shares \in Splits(n), paid \in 0 .. n :
          /\ Locked(e) => paid = expense[e].paid
          /\ Write(e, [status |-> "ACTIVE", payer |-> a, amount |-> n, shares |-> shares,
                       paid |-> paid])
  BY DEF Update
<1>1. PICK shares \in Splits(n), paid \in 0 .. n :
        /\ Locked(e) => paid = expense[e].paid
        /\ Write(e, [status |-> "ACTIVE", payer |-> a, amount |-> n, shares |-> shares,
                     paid |-> paid])
  BY <1>0
<1> DEFINE x == [status |-> "ACTIVE", payer |-> a, amount |-> n, shares |-> shares,
                 paid |-> paid]
<1>2. n \in Nat /\ paid \in Nat /\ paid <= n
  BY <1>1, AmountsNat
<1>3. x \in Expense
  BY <1>2, SplitsType DEF Expense
<1>4. supplier[e] <= paid
  BY <1>1, <1>2 DEF Locked, IInv, LedgerTypeOK, SupplierAccounted
<1>. QED
  BY <1>1, <1>2, <1>3, <1>4, WriteKeeps DEF Update

LEMMA CancelStep ==
  ASSUME IInv, NEW e \in Expenses, Cancel(e)
  PROVE  IInv'
<1> DEFINE x == [expense[e] EXCEPT !.status = "CANCELLED"]
<1>1. expense[e] \in Expense /\ expense[e].status = "ACTIVE"
  BY DEF Cancel, Editable, IInv, LedgerTypeOK, Expense
<1>2. x \in Expense /\ x.status = "CANCELLED" /\ x.payer = expense[e].payer
        /\ x.paid = expense[e].paid /\ x.amount = expense[e].amount
  BY <1>1 DEF Expense
<1>3. Write(e, x)
  BY DEF Cancel, Write
<1>4. x.payer \in People /\ supplier[e] <= x.paid /\ x.paid <= x.amount
  BY <1>1, <1>2 DEF IInv, LedgerTypeOK, SupplierAccounted
<1>. QED
  BY <1>2, <1>3, <1>4, WriteKeeps DEF Cancel

LEMMA PaySupplierStep ==
  ASSUME IInv, NEW e \in Expenses, NEW n \in Amounts, PaySupplier(e, n)
  PROVE  IInv'
<1>1. expense[e] \in Expense /\ expense[e].status = "ACTIVE" /\ n \in Nat
  BY AmountsNat DEF PaySupplier, Editable, IInv, LedgerTypeOK, Expense
<1>2. expense'[e] = [expense[e] EXCEPT !.paid = @ + n]
      /\ \A d \in Expenses \ {e} : expense'[d] = expense[d]
  BY DEF PaySupplier, IInv, LedgerTypeOK
<1>3. /\ expense'[e] \in Expense /\ expense'[e].paid = expense[e].paid + n
      /\ expense'[e].amount = expense[e].amount /\ expense'[e].status = "ACTIVE"
      /\ expense'[e].payer = expense[e].payer
  BY <1>1, <1>2 DEF Expense
<1>4. expense' \in [Expenses -> Expense]
  BY <1>2, <1>3 DEF PaySupplier, IInv, LedgerTypeOK, Expense
<1>5. supplier' \in [Expenses -> Nat] /\ supplier'[e] = supplier[e] + n
      /\ \A d \in Expenses \ {e} : supplier'[d] = supplier[d]
  BY <1>1 DEF PaySupplier, IInv, LedgerTypeOK
<1>6. LedgerTypeOK'
  BY <1>1, <1>2, <1>3, <1>4, <1>5 DEF PaySupplier, houseVars, IInv, LedgerTypeOK, Expense
<1>7. supplier'[e] <= expense'[e].paid /\ expense'[e].paid <= expense'[e].amount
  <2>1. supplier[e] \in Nat /\ expense[e].paid \in Nat /\ expense[e].amount \in Nat
    BY <1>1 DEF IInv, LedgerTypeOK, Expense
  <2>. QED
    BY <1>1, <1>3, <1>5, <2>1 DEF PaySupplier, IInv, SupplierAccounted
<1>8. FreshInv' /\ SupplierAccounted'
  BY <1>2, <1>3, <1>5, <1>7 DEF IInv, FreshInv, SupplierAccounted
<1>. QED
  BY <1>6, <1>8 DEF IInv

-----------------------------------------------------------------------------
(* Settlement, corrections and transfers.                                  *)

\* A step that keeps the payer and the sums of every expense.
LEMMA SumsKeep ==
  ASSUME IInv, LedgerTypeOK', UNCHANGED supplier,
         \A e \in Expenses : /\ expense'[e].paid = expense[e].paid
                             /\ expense'[e].amount = expense[e].amount
                             /\ expense'[e].status = "NONE" => expense[e].status = "NONE"
  PROVE  IInv'
BY DEF IInv, FreshInv, SupplierAccounted

LEMMA SettleStep ==
  ASSUME IInv, Settle
  PROVE  IInv'
<1>1. \A e \in Expenses :
        /\ expense'[e] = IF e \in Open THEN [expense[e] EXCEPT !.status = "SETTLED"]
                                       ELSE expense[e]
        /\ expense[e] \in Expense
  BY DEF Settle, IInv, LedgerTypeOK, Expense
<1>2. ASSUME NEW e \in Expenses
      PROVE  /\ expense'[e] \in Expense
             /\ expense'[e].paid = expense[e].paid
             /\ expense'[e].amount = expense[e].amount
             /\ expense'[e].payer = expense[e].payer
             /\ expense'[e].status = "NONE" <=> expense[e].status = "NONE"
  BY <1>1 DEF Expense, Open
<1>3. expense' \in [Expenses -> Expense]
  BY <1>2 DEF Settle
<1>4. ASSUME NEW e \in Expenses
      PROVE  corrections'[e] \in Seq(Correction)
  <2>1. corrections[e] \in Seq(Correction)
    BY DEF IInv, LedgerTypeOK
  <2>2. corrections'[e] =
          [i \in DOMAIN corrections[e] |-> [corrections[e][i] EXCEPT !.settled = TRUE]]
    BY DEF Settle
  <2>3. \A i \in DOMAIN corrections[e] :
          [corrections[e][i] EXCEPT !.settled = TRUE] \in Correction
    <3>1. \A i \in DOMAIN corrections[e] : corrections[e][i] \in Correction
      BY <2>1
    <3>. QED
      BY <3>1 DEF Correction
  <2>. QED
    BY <2>1, <2>2, <2>3
<1>5. corrections' \in [Expenses -> Seq(Correction)]
  BY <1>4 DEF Settle
<1>6. payment' \in [Payments ->
       [status : {"NONE", "PENDING", "CONFIRMED", "REJECTED", "CANCELLED"},
        payer : People \cup {None}, recipient : People \cup {None},
        amount : Nat, settled : BOOLEAN]]
  BY ZenonT(60) DEF Settle, Settled, IInv, LedgerTypeOK
<1>7. LedgerTypeOK'
  BY <1>2, <1>3, <1>5, <1>6 DEF Settle, houseVars, IInv, LedgerTypeOK, Expense
<1>. QED
  BY <1>2, <1>7, SumsKeep DEF Settle

LEMMA NetType ==
  ASSUME NEW x \in Snapshots, NEW p \in People
  PROVE  Net(x, p) \in Int
BY DEF Net, Snapshots

LEMMA LatestType ==
  ASSUME IInv, NEW e \in Expenses, expense[e].status # "NONE"
  PROVE  Latest(e) \in Snapshots
<1>1. Snapshot(expense[e]) \in Snapshots
  BY DEF IInv, LedgerTypeOK, Snapshot, Snapshots
<1>2. CASE corrections[e] # <<>>
  <2>1. corrections[e] \in Seq(Correction) /\ Len(corrections[e]) \in 1 .. Len(corrections[e])
    BY <1>2 DEF IInv, LedgerTypeOK
  <2>2. corrections[e][Len(corrections[e])] \in Correction
    BY <2>1
  <2>. QED
    BY <1>2, <2>2 DEF Latest, Correction
<1>. QED
  BY <1>1, <1>2 DEF Latest

LEMMA CorrectStep ==
  ASSUME IInv, NEW e \in Expenses, Correct(e)
  PROVE  IInv'
<1>0. PICK n \in Amounts, a \in People :
        \E shares \in Splits(n) :
          corrections' = [corrections EXCEPT ![e] = Append(@,
            [to |-> [payer |-> a, amount |-> n, shares |-> shares],
             delta |-> [p \in People |-> Net([payer |-> a, amount |-> n, shares |-> shares], p)
                                           - Net(Latest(e), p)],
             settled |-> FALSE])]
  BY DEF Correct
<1>1. PICK shares \in Splits(n) :
        corrections' = [corrections EXCEPT ![e] = Append(@,
          [to |-> [payer |-> a, amount |-> n, shares |-> shares],
           delta |-> [p \in People |-> Net([payer |-> a, amount |-> n, shares |-> shares], p)
                                         - Net(Latest(e), p)],
           settled |-> FALSE])]
  BY <1>0
<1> DEFINE new == [payer |-> a, amount |-> n, shares |-> shares]
<1>2. new \in Snapshots
  BY AmountsNat, SplitsType DEF Snapshots
<1>3. Latest(e) \in Snapshots
  BY LatestType DEF Correct
<1>4. [p \in People |-> Net(new, p) - Net(Latest(e), p)] \in [People -> Int]
  <2>1. \A p \in People : Net(new, p) \in Int /\ Net(Latest(e), p) \in Int
    BY <1>2, <1>3, NetType
  <2>. QED
    BY <2>1
<1>5. corrections' \in [Expenses -> Seq(Correction)]
  <2>1. [to |-> new, delta |-> [p \in People |-> Net(new, p) - Net(Latest(e), p)],
         settled |-> FALSE] \in Correction
    BY <1>2, <1>4 DEF Correction
  <2>. QED
    BY <1>1, <2>1 DEF IInv, LedgerTypeOK
<1>6. LedgerTypeOK'
  BY <1>5 DEF Correct, houseVars, IInv, LedgerTypeOK
<1>. QED
  BY <1>6, SumsKeep DEF Correct

LEMMA TransferStep ==
  ASSUME IInv, NEW q \in Payments,
         \/ \E a, b \in People, n \in Amounts : Transfer(q, a, b, n)
         \/ Confirm(q) \/ RejectTransfer(q) \/ CancelTransfer(q)
  PROVE  IInv'
<1>1. LedgerTypeOK'
  <2>1. CASE \E a, b \in People, n \in Amounts : Transfer(q, a, b, n)
    BY <2>1, AmountsNat DEF Transfer, houseVars, expenseVars, IInv, LedgerTypeOK
  <2>2. CASE Confirm(q) \/ RejectTransfer(q) \/ CancelTransfer(q)
    <3>1. PICK answer \in {"CONFIRMED", "REJECTED", "CANCELLED"} : AnswerTransfer(q, answer)
      BY <2>2 DEF Confirm, RejectTransfer, CancelTransfer
    <3>2. payment' \in [Payments ->
            [status : {"NONE", "PENDING", "CONFIRMED", "REJECTED", "CANCELLED"},
             payer : People \cup {None}, recipient : People \cup {None},
             amount : Nat, settled : BOOLEAN]]
      BY <3>1, ZenonT(60) DEF AnswerTransfer, IInv, LedgerTypeOK
    <3>. QED
      BY <3>1, <3>2 DEF AnswerTransfer, houseVars, expenseVars, IInv, LedgerTypeOK
  <2>. QED
    BY <2>1, <2>2
<1>2. UNCHANGED <<expense, supplier>>
  BY DEF Transfer, Confirm, RejectTransfer, CancelTransfer, AnswerTransfer, expenseVars
<1>. QED
  BY <1>1, <1>2, SumsKeep

LEMMA NextIInv ==
  ASSUME IInv, [LedgerNext]_ledgerVars
  PROVE  IInv'
<1>1. ASSUME NEW p \in Movers, Join(p) \/ Leave(p)
      PROVE  IInv'
  BY <1>1, HouseStep, LedgerAssumption DEF LedgerAssumption
<1>2. ASSUME NEW e \in Expenses, Create(e) \/ Update(e) \/ Cancel(e) \/ Correct(e)
      PROVE  IInv'
  BY <1>2, CreateStep, UpdateStep, CancelStep, CorrectStep
<1>3. ASSUME NEW e \in Expenses, NEW n \in Amounts, PaySupplier(e, n)
      PROVE  IInv'
  BY <1>3, PaySupplierStep
<1>4. CASE UNCHANGED ledgerVars
  BY <1>4 DEF ledgerVars, IInv, LedgerTypeOK, FreshInv, SupplierAccounted
<1>. QED
  BY <1>1, <1>2, <1>3, <1>4, SettleStep, TransferStep DEF LedgerNext

-----------------------------------------------------------------------------
(* Everything the ledger reaches satisfies the inductive invariant.        *)
THEOREM Invariance == LedgerSpec => []IInv
BY InitIInv, NextIInv, PTL DEF LedgerSpec

(* The ledger keeps its types.                                             *)
THEOREM TypeCorrect == LedgerSpec => []LedgerTypeOK
BY Invariance, PTL DEF IInv

(* Supplier payments fit what is paid, and that the amount, through every  *)
(* edit.                                                                   *)
THEOREM SupplierSafe == LedgerSpec => []SupplierAccounted
BY Invariance, PTL DEF IInv

(* A settled expense and its corrections never change again.               *)
THEOREM SettledStays == LedgerSpec => SettledIsReadOnly
<1> DEFINE Kept(e) ==
      expense[e].status = "SETTLED" =>
        /\ expense'[e] = expense[e] /\ supplier'[e] = supplier[e]
        /\ \A i \in DOMAIN corrections[e] :
             /\ i \in DOMAIN corrections'[e]
             /\ corrections'[e][i].to = corrections[e][i].to
             /\ corrections'[e][i].delta = corrections[e][i].delta
<1>1. ASSUME IInv, LedgerNext, NEW e \in Expenses
      PROVE  Kept(e)
  <2>1. CASE UNCHANGED expenseVars
    BY <2>1 DEF expenseVars
  <2>2. ASSUME NEW d \in Expenses, Create(d) \/ Update(d) \/ Cancel(d)
        PROVE  Kept(e)
    BY <1>1, <2>2 DEF Create, Update, Cancel, Editable, Write, IInv, LedgerTypeOK
  <2>3. ASSUME NEW d \in Expenses, NEW n \in Amounts, PaySupplier(d, n)
        PROVE  Kept(e)
    BY <1>1, <2>3 DEF PaySupplier, Editable, IInv, LedgerTypeOK
  <2>4. CASE Settle
    <3>1. expense[e].status = "SETTLED" => expense'[e] = expense[e]
      BY <2>4 DEF Settle, Open
    <3>2. corrections'[e] =
            [i \in DOMAIN corrections[e] |-> [corrections[e][i] EXCEPT !.settled = TRUE]]
      BY <2>4 DEF Settle
    <3>3. ASSUME NEW i \in DOMAIN corrections[e]
          PROVE  /\ i \in DOMAIN corrections'[e]
                 /\ corrections'[e][i].to = corrections[e][i].to
                 /\ corrections'[e][i].delta = corrections[e][i].delta
      <4>1. corrections[e] \in Seq(Correction)
        BY <1>1 DEF IInv, LedgerTypeOK
      <4>2. corrections[e][i] \in Correction
        BY <4>1
      <4>. QED
        BY <3>2, <4>2 DEF Correction
    <3>. QED
      BY <2>4, <3>1, <3>3 DEF Settle
  <2>5. ASSUME NEW d \in Expenses, Correct(d)
        PROVE  Kept(e)
    <3>1. PICK row : corrections' = [corrections EXCEPT ![d] = Append(@, row)]
      BY <2>5 DEF Correct
    <3>2. corrections[e] \in Seq(Correction) /\ corrections \in [Expenses -> Seq(Correction)]
      BY <1>1 DEF IInv, LedgerTypeOK
    <3>3. corrections'[e] = corrections[e] \/ corrections'[e] = Append(corrections[e], row)
      BY <3>1, <3>2
    <3>4. \A i \in DOMAIN corrections[e] :
            i \in DOMAIN corrections'[e] /\ corrections'[e][i] = corrections[e][i]
      BY <3>2, <3>3
    <3>. QED
      BY <2>5, <3>4 DEF Correct
  <2>6. ASSUME NEW p \in Movers, Join(p) \/ Leave(p)
        PROVE  UNCHANGED expenseVars
    BY <2>6 DEF Join, Leave
  <2>7. ASSUME NEW q \in Payments,
               \/ \E a, b \in People, n \in Amounts : Transfer(q, a, b, n)
               \/ Confirm(q) \/ RejectTransfer(q) \/ CancelTransfer(q)
        PROVE  UNCHANGED expenseVars
    BY <2>7 DEF Transfer, Confirm, RejectTransfer, CancelTransfer, AnswerTransfer
  <2>. QED
    BY <1>1, <2>1, <2>2, <2>3, <2>4, <2>5, <2>6, <2>7 DEF LedgerNext
<1>2. IInv /\ [LedgerNext]_ledgerVars => [\A e \in Expenses : Kept(e)]_ledgerVars
  BY <1>1
<1>. QED
  BY <1>2, Invariance, PTL DEF LedgerSpec, SettledIsReadOnly

-----------------------------------------------------------------------------
(* Balances, as sums over all rows of what each row counts.                *)

PaymentRow ==
  [status : {"NONE", "PENDING", "CONFIRMED", "REJECTED", "CANCELLED"},
   payer : People \cup {None}, recipient : People \cup {None},
   amount : Nat, settled : BOOLEAN]

\* What the corrections cs of an expense add up to, and those not yet settled.
All(cs, p) == SumFunctionOnSet([i \in DOMAIN cs |-> cs[i].delta[p]], DOMAIN cs)
Fresh(cs, p) ==
  SumFunctionOnSet([i \in DOMAIN cs |-> cs[i].delta[p]], {i \in DOMAIN cs : ~cs[i].settled})

\* What an expense x with the corrections cs counts, ever and in this round.
Says(x, cs, p) == (IF x.status \in {"ACTIVE", "SETTLED"} THEN Net(x, p) ELSE 0) + All(cs, p)
SaysNow(x, cs, p) == (IF x.status = "ACTIVE" THEN Net(x, p) ELSE 0) + Fresh(cs, p)

\* What a transfer y counts for p, and what of it waits.
Gives(y, p) == IF y.payer = p THEN y.amount ELSE 0
Gets(y, p) == IF y.recipient = p THEN y.amount ELSE 0
Moves(y, p) == IF y.status = "CONFIRMED" THEN Gives(y, p) - Gets(y, p) ELSE 0
MovesNow(y, p) == IF ~y.settled THEN Moves(y, p) ELSE 0
Out(y, p) == IF y.status = "PENDING" THEN Gives(y, p) ELSE 0
In(y, p) == IF y.status = "PENDING" THEN Gets(y, p) ELSE 0

Spent(p) ==
  SumFunctionOnSet([e \in Expenses |-> Says(expense[e], corrections[e], p)], Expenses)
SpentNow(p) ==
  SumFunctionOnSet([e \in Expenses |-> SaysNow(expense[e], corrections[e], p)], Expenses)
Passed(p) == SumFunctionOnSet([q \in Payments |-> Moves(payment[q], p)], Payments)
PassedNow(p) == SumFunctionOnSet([q \in Payments |-> MovesNow(payment[q], p)], Payments)
Promised(p) == SumFunctionOnSet([q \in Payments |-> Out(payment[q], p)], Payments)
Awaited(p) == SumFunctionOnSet([q \in Payments |-> In(payment[q], p)], Payments)

Current(p) ==
  Nets(Open, p) + CorrectedSince(p) + Sent(Unsettled, p) - Received(Unsettled, p)

LEMMA Finite == IsFiniteSet(People) /\ IsFiniteSet(Expenses) /\ IsFiniteSet(Payments)
BY LedgerAssumption DEF LedgerAssumption

LEMMA DeltaTypes ==
  ASSUME NEW cs \in Seq(Correction), NEW p \in People
  PROVE  /\ IsFiniteSet(DOMAIN cs) /\ \A i \in DOMAIN cs : cs[i].delta[p] \in Int
         /\ All(cs, p) \in Int /\ Fresh(cs, p) \in Int
<1>. DEFINE f == [i \in DOMAIN cs |-> cs[i].delta[p]]
            L == {i \in DOMAIN cs : ~cs[i].settled}
<1>1. IsFiniteSet(DOMAIN cs)
  <2>1. DOMAIN cs = 1 .. Len(cs) /\ Len(cs) \in Nat
    OBVIOUS
  <2>. QED
    BY <2>1, FS_Interval
<1>2. \A i \in DOMAIN cs : cs[i].delta[p] \in Int
  <2>1. \A i \in DOMAIN cs : cs[i] \in Correction
    OBVIOUS
  <2>. QED
    BY <2>1 DEF Correction
<1>3. \A i \in DOMAIN cs : f[i] \in Int
  BY <1>2
<1>4. IsFiniteSet(L) /\ \A i \in L : f[i] \in Int
  BY <1>1, <1>3, FS_Subset
<1>5. SumFunctionOnSet(f, DOMAIN cs) \in Int /\ SumFunctionOnSet(f, L) \in Int
  <2>. HIDE DEF f, L
  <2>. QED
    BY <1>1, <1>3, <1>4, SumType
<1>. QED
  BY <1>1, <1>2, <1>5 DEF All, Fresh

LEMMA NoneYet ==
  ASSUME NEW p \in People
  PROVE  All(<<>>, p) = 0 /\ Fresh(<<>>, p) = 0
<1>. DEFINE none == <<>>
<1>1. DOMAIN none = {}
  OBVIOUS
<1>2. {i \in DOMAIN none : ~none[i].settled} = {}
  BY <1>1
<1>. QED
  BY <1>1, <1>2, SumEmpty DEF All, Fresh

\* One more correction adds its difference.
LEMMA OneMore ==
  ASSUME NEW cs \in Seq(Correction), NEW row \in Correction, ~row.settled, NEW p \in People
  PROVE  /\ All(Append(cs, row), p) = All(cs, p) + row.delta[p]
         /\ Fresh(Append(cs, row), p) = Fresh(cs, p) + row.delta[p]
<1>. DEFINE ds == Append(cs, row)
            n == Len(cs) + 1
            f == [i \in DOMAIN cs |-> cs[i].delta[p]]
            g == [i \in DOMAIN ds |-> ds[i].delta[p]]
            L == {i \in DOMAIN cs : ~cs[i].settled}
            M == {i \in DOMAIN ds : ~ds[i].settled}
<1>1. /\ ds \in Seq(Correction) /\ DOMAIN ds = DOMAIN cs \cup {n} /\ n \notin DOMAIN cs
      /\ \A i \in DOMAIN cs : ds[i] = cs[i]
      /\ ds[n] = row
  OBVIOUS
<1>2. IsFiniteSet(DOMAIN cs) /\ IsFiniteSet(L)
  BY DeltaTypes, FS_Subset
<1>3. /\ \A i \in DOMAIN cs : f[i] \in Int /\ g[i] = f[i]
      /\ g[n] = row.delta[p] /\ row.delta[p] \in Int
  BY <1>1, DeltaTypes DEF Correction
<1>4. M = L \cup {n} /\ n \notin L /\ L \in SUBSET DOMAIN cs
  BY <1>1
<1>. HIDE DEF f, g, L, M, ds, n
<1>5. SumFunctionOnSet(g, DOMAIN ds) = SumFunctionOnSet(f, DOMAIN cs) + row.delta[p]
  <2>1. SumFunctionOnSet(g, DOMAIN cs) = SumFunctionOnSet(f, DOMAIN cs)
    BY <1>2, <1>3, SumSame
  <2>2. \A i \in DOMAIN cs : g[i] \in Int
    BY <1>3
  <2>3. SumFunctionOnSet(g, DOMAIN cs \cup {n}) = SumFunctionOnSet(g, DOMAIN cs) + g[n]
    BY <1>1, <1>2, <1>3, <2>2, SumAdd
  <2>. QED
    BY <1>1, <1>3, <2>1, <2>3
<1>6. SumFunctionOnSet(g, M) = SumFunctionOnSet(f, L) + row.delta[p]
  <2>0. \A i \in L : f[i] \in Int /\ g[i] = f[i]
    BY <1>3, <1>4
  <2>1. SumFunctionOnSet(g, L) = SumFunctionOnSet(f, L)
    BY <1>2, <2>0, SumSame
  <2>2. \A i \in L : g[i] \in Int
    BY <2>0
  <2>3. SumFunctionOnSet(g, L \cup {n}) = SumFunctionOnSet(g, L) + g[n]
    BY <1>2, <1>3, <1>4, <2>2, SumAdd
  <2>. QED
    BY <1>3, <1>4, <2>1, <2>3
<1>. QED
  BY <1>5, <1>6 DEF All, Fresh, f, g, L, M, ds

\* Settling them changes no difference and leaves none open.
LEMMA AllSettled ==
  ASSUME NEW cs \in Seq(Correction), NEW p \in People, NEW ds,
         ds = [i \in DOMAIN cs |-> [cs[i] EXCEPT !.settled = TRUE]]
  PROVE  All(ds, p) = All(cs, p) /\ Fresh(ds, p) = 0
<1>. DEFINE f == [i \in DOMAIN cs |-> cs[i].delta[p]]
            g == [i \in DOMAIN ds |-> ds[i].delta[p]]
<1>1. DOMAIN ds = DOMAIN cs /\ \A i \in DOMAIN cs : ds[i].delta = cs[i].delta /\ ds[i].settled
  <2>1. \A i \in DOMAIN cs : cs[i] \in Correction
    OBVIOUS
  <2>. QED
    BY <2>1 DEF Correction
<1>2. IsFiniteSet(DOMAIN cs) /\ \A i \in DOMAIN cs : f[i] \in Int
  BY DeltaTypes
<1>3. \A i \in DOMAIN cs : g[i] = f[i]
  BY <1>1
<1>4. {i \in DOMAIN ds : ~ds[i].settled} = {}
  BY <1>1
<1>. HIDE DEF f, g
<1>5. SumFunctionOnSet(g, DOMAIN cs) = SumFunctionOnSet(f, DOMAIN cs)
  BY <1>2, <1>3, SumSame
<1>6. SumFunctionOnSet(g, {}) = 0
  BY SumEmpty
<1>. QED
  BY <1>1, <1>4, <1>5, <1>6 DEF All, Fresh, f, g

-----------------------------------------------------------------------------
LEMMA RowsTyped ==
  ASSUME LedgerTypeOK
  PROVE  /\ \A e \in Expenses : expense[e] \in Expense /\ corrections[e] \in Seq(Correction)
         /\ \A q \in Payments : payment[q] \in PaymentRow
BY DEF LedgerTypeOK, Expense, PaymentRow

LEMMA Counts ==
  ASSUME LedgerTypeOK, NEW p \in People
  PROVE  /\ \A e \in Expenses : /\ Net(expense[e], p) \in Int
                                /\ Says(expense[e], corrections[e], p) \in Int
                                /\ SaysNow(expense[e], corrections[e], p) \in Int
                                /\ All(corrections[e], p) \in Int
                                /\ Fresh(corrections[e], p) \in Int
         /\ \A q \in Payments : /\ Moves(payment[q], p) \in Int /\ MovesNow(payment[q], p) \in Int
                                /\ Out(payment[q], p) \in Nat /\ In(payment[q], p) \in Nat
                                /\ payment[q].amount \in Nat
<1>1. \A q \in Payments : payment[q].amount \in Nat
  BY DEF LedgerTypeOK
<1>2. ASSUME NEW e \in Expenses
      PROVE  /\ Net(expense[e], p) \in Int
             /\ All(corrections[e], p) \in Int /\ Fresh(corrections[e], p) \in Int
  <2>1. expense[e] \in Expense /\ corrections[e] \in Seq(Correction)
    BY RowsTyped
  <2>. QED
    BY <2>1, DeltaTypes DEF Net, Expense
<1>3. ASSUME NEW q \in Payments
      PROVE  Gives(payment[q], p) \in Nat /\ Gets(payment[q], p) \in Nat
  BY <1>1 DEF Gives, Gets
<1>. QED
  BY <1>1, <1>2, <1>3 DEF Says, SaysNow, Moves, MovesNow, Out, In

LEMMA SumTypes ==
  ASSUME LedgerTypeOK, NEW p \in People
  PROVE  /\ Spent(p) \in Int /\ SpentNow(p) \in Int
         /\ Passed(p) \in Int /\ PassedNow(p) \in Int
         /\ Promised(p) \in Nat /\ Awaited(p) \in Nat
<1>1. Spent(p) \in Int
  BY Finite, Counts, SumType DEF Spent
<1>2. SpentNow(p) \in Int
  BY Finite, Counts, SumType DEF SpentNow
<1>3. Passed(p) \in Int
  BY Finite, Counts, SumType DEF Passed
<1>4. PassedNow(p) \in Int
  BY Finite, Counts, SumType DEF PassedNow
<1>5. Promised(p) \in Nat
  BY Finite, Counts, SumNat DEF Promised
<1>6. Awaited(p) \in Nat
  BY Finite, Counts, SumNat DEF Awaited
<1>. QED
  BY <1>1, <1>2, <1>3, <1>4, <1>5, <1>6

LEMMA SentIs ==
  ASSUME LedgerTypeOK, NEW p \in People, NEW qs \in SUBSET Payments,
         NEW g, \A q \in Payments : g[q] = IF q \in qs THEN Gives(payment[q], p) ELSE 0
  PROVE  Sent(qs, p) = SumFunctionOnSet(g, Payments) /\ Sent(qs, p) \in Int
<1>. DEFINE U == {q \in qs : payment[q].payer = p}
<1>1. U \in SUBSET Payments /\ IsFiniteSet(U)
  BY Finite, FS_Subset
<1>2. \A q \in Payments : Worth[q] \in Int /\ g[q] = IF q \in U THEN Worth[q] ELSE 0
  BY Counts DEF Worth, Gives
<1>. HIDE DEF U
<1>3. \A q \in U : Worth[q] \in Int
  BY <1>1, <1>2
<1>4. SumFunctionOnSet(Worth, U) = SumFunctionOnSet(g, Payments)
  BY <1>1, <1>2, Finite, SumFilter
<1>5. SumFunctionOnSet(Worth, U) \in Int
  BY <1>1, <1>3, SumType
<1>. QED
  BY <1>4, <1>5 DEF Sent, U

LEMMA ReceivedIs ==
  ASSUME LedgerTypeOK, NEW p \in People, NEW qs \in SUBSET Payments,
         NEW g, \A q \in Payments : g[q] = IF q \in qs THEN Gets(payment[q], p) ELSE 0
  PROVE  Received(qs, p) = SumFunctionOnSet(g, Payments) /\ Received(qs, p) \in Int
<1>. DEFINE U == {q \in qs : payment[q].recipient = p}
<1>1. U \in SUBSET Payments /\ IsFiniteSet(U)
  BY Finite, FS_Subset
<1>2. \A q \in Payments : Worth[q] \in Int /\ g[q] = IF q \in U THEN Worth[q] ELSE 0
  BY Counts DEF Worth, Gets
<1>. HIDE DEF U
<1>3. \A q \in U : Worth[q] \in Int
  BY <1>1, <1>2
<1>4. SumFunctionOnSet(Worth, U) = SumFunctionOnSet(g, Payments)
  BY <1>1, <1>2, Finite, SumFilter
<1>5. SumFunctionOnSet(Worth, U) \in Int
  BY <1>1, <1>3, SumType
<1>. QED
  BY <1>4, <1>5 DEF Received, U

\* What is sent less what is received is what was passed.
LEMMA TransfersAre ==
  ASSUME LedgerTypeOK, NEW p \in People, NEW qs \in SUBSET Payments,
         NEW k, \A q \in Payments :
           k[q] = IF q \in qs THEN Gives(payment[q], p) - Gets(payment[q], p) ELSE 0
  PROVE  /\ Sent(qs, p) - Received(qs, p) = SumFunctionOnSet(k, Payments)
         /\ Sent(qs, p) \in Int /\ Received(qs, p) \in Int
<1>. DEFINE f == [q \in Payments |-> IF q \in qs THEN Gives(payment[q], p) ELSE 0]
            g == [q \in Payments |-> IF q \in qs THEN Gets(payment[q], p) ELSE 0]
<1>1. Sent(qs, p) = SumFunctionOnSet(f, Payments) /\ Sent(qs, p) \in Int
  BY SentIs
<1>2. Received(qs, p) = SumFunctionOnSet(g, Payments) /\ Received(qs, p) \in Int
  BY ReceivedIs
<1>3. \A q \in Payments : g[q] \in Int /\ k[q] \in Int /\ f[q] = g[q] + k[q]
  BY Counts DEF Gives, Gets
<1>. HIDE DEF f, g
<1>4. SumFunctionOnSet(f, Payments) = SumFunctionOnSet(g, Payments) + SumFunctionOnSet(k, Payments)
  BY <1>3, Finite, SumPlus
<1>5. SumFunctionOnSet(k, Payments) \in Int
  BY <1>3, Finite, SumType
<1>. QED
  BY <1>1, <1>2, <1>4, <1>5

LEMMA NetsAre ==
  ASSUME LedgerTypeOK, NEW p \in People, NEW es \in SUBSET Expenses,
         NEW c, \A e \in Expenses : c[e] \in Int,
         NEW k, \A e \in Expenses : k[e] = (IF e \in es THEN Net(expense[e], p) ELSE 0) + c[e]
  PROVE  /\ Nets(es, p) + SumFunctionOnSet(c, Expenses) = SumFunctionOnSet(k, Expenses)
         /\ Nets(es, p) \in Int /\ SumFunctionOnSet(c, Expenses) \in Int
<1>. DEFINE f == [e \in Expenses |-> Net(expense[e], p)]
            g == [e \in Expenses |-> IF e \in es THEN f[e] ELSE 0]
<1>1. \A e \in Expenses : /\ f[e] \in Int /\ g[e] = IF e \in es THEN f[e] ELSE 0
                          /\ g[e] \in Int /\ k[e] = g[e] + c[e]
  BY Counts
<1>2. Nets(es, p) = SumFunctionOnSet(f, es)
  BY DEF Nets
<1>. HIDE DEF f, g
<1>3. SumFunctionOnSet(f, es) = SumFunctionOnSet(g, Expenses)
  BY <1>1, Finite, SumFilter
<1>4. SumFunctionOnSet(k, Expenses) = SumFunctionOnSet(g, Expenses) + SumFunctionOnSet(c, Expenses)
  BY <1>1, Finite, SumPlus
<1>5. SumFunctionOnSet(g, Expenses) \in Int /\ SumFunctionOnSet(c, Expenses) \in Int
  BY <1>1, Finite, SumType
<1>. QED
  BY <1>2, <1>3, <1>4, <1>5

\* The balances, as one sum over the expenses and one over the transfers.
LEMMA BalancesAre ==
  LedgerTypeOK => \A p \in People :
    /\ Balance(p) = Spent(p) + Passed(p)
    /\ Current(p) = SpentNow(p) + PassedNow(p)
    /\ Sent(Pending, p) = Promised(p)
    /\ Received(Pending, p) = Awaited(p)
<1>. SUFFICES ASSUME LedgerTypeOK, NEW p \in People
              PROVE  /\ Balance(p) = Spent(p) + Passed(p)
                     /\ Current(p) = SpentNow(p) + PassedNow(p)
                     /\ Sent(Pending, p) = Promised(p)
                     /\ Received(Pending, p) = Awaited(p)
  OBVIOUS
<1>1. /\ Nets(Booked, p) + Corrected(p) = Spent(p)
      /\ Nets(Booked, p) \in Int /\ Corrected(p) \in Int
  <2>. DEFINE c == [e \in Expenses |-> Deltas(e, DOMAIN corrections[e], p)]
              k == [e \in Expenses |-> Says(expense[e], corrections[e], p)]
  <2>1. Booked \in SUBSET Expenses
    BY DEF Booked
  <2>2. \A e \in Expenses : c[e] = All(corrections[e], p)
    BY DEF Deltas, All
  <2>3. \A e \in Expenses :
          k[e] = (IF e \in Booked THEN Net(expense[e], p) ELSE 0) + c[e]
    BY <2>2 DEF Says, Booked
  <2>4. \A e \in Expenses : c[e] \in Int
    BY <2>2, Counts
  <2>5. Corrected(p) = SumFunctionOnSet(c, Expenses) /\ Spent(p) = SumFunctionOnSet(k, Expenses)
    BY DEF Corrected, Spent
  <2>. HIDE DEF c, k
  <2>. QED
    BY <2>1, <2>3, <2>4, <2>5, NetsAre
<1>2. /\ Nets(Open, p) + CorrectedSince(p) = SpentNow(p)
      /\ Nets(Open, p) \in Int /\ CorrectedSince(p) \in Int
  <2>. DEFINE c == [e \in Expenses |-> Deltas(e, Loose(e), p)]
              k == [e \in Expenses |-> SaysNow(expense[e], corrections[e], p)]
  <2>1. Open \in SUBSET Expenses
    BY DEF Open
  <2>2. \A e \in Expenses : c[e] = Fresh(corrections[e], p)
    BY DEF Deltas, Fresh, Loose
  <2>3. \A e \in Expenses :
          k[e] = (IF e \in Open THEN Net(expense[e], p) ELSE 0) + c[e]
    BY <2>2 DEF SaysNow, Open
  <2>4. \A e \in Expenses : c[e] \in Int
    BY <2>2, Counts
  <2>5. CorrectedSince(p) = SumFunctionOnSet(c, Expenses)
        /\ SpentNow(p) = SumFunctionOnSet(k, Expenses)
    BY DEF CorrectedSince, SpentNow
  <2>. HIDE DEF c, k
  <2>. QED
    BY <2>1, <2>3, <2>4, <2>5, NetsAre
<1>3. /\ Sent(Confirmed, p) - Received(Confirmed, p) = Passed(p)
      /\ Sent(Confirmed, p) \in Int /\ Received(Confirmed, p) \in Int
  <2>. DEFINE k == [q \in Payments |-> Moves(payment[q], p)]
  <2>1. Confirmed \in SUBSET Payments
    BY DEF Confirmed
  <2>2. \A q \in Payments :
          k[q] = IF q \in Confirmed THEN Gives(payment[q], p) - Gets(payment[q], p) ELSE 0
    BY DEF Confirmed, Moves
  <2>3. Passed(p) = SumFunctionOnSet(k, Payments)
    BY DEF Passed
  <2>. HIDE DEF k
  <2>. QED
    BY <2>1, <2>2, <2>3, TransfersAre
<1>4. /\ Sent(Unsettled, p) - Received(Unsettled, p) = PassedNow(p)
      /\ Sent(Unsettled, p) \in Int /\ Received(Unsettled, p) \in Int
  <2>. DEFINE k == [q \in Payments |-> MovesNow(payment[q], p)]
  <2>1. Unsettled \in SUBSET Payments
    BY DEF Confirmed, Unsettled
  <2>2. \A q \in Payments :
          k[q] = IF q \in Unsettled THEN Gives(payment[q], p) - Gets(payment[q], p) ELSE 0
    BY DEF Confirmed, Unsettled, Moves, MovesNow
  <2>3. PassedNow(p) = SumFunctionOnSet(k, Payments)
    BY DEF PassedNow
  <2>. HIDE DEF k
  <2>. QED
    BY <2>1, <2>2, <2>3, TransfersAre
<1>5. Sent(Pending, p) = Promised(p)
  <2>. DEFINE k == [q \in Payments |-> Out(payment[q], p)]
  <2>1. Pending \in SUBSET Payments
        /\ \A q \in Payments : k[q] = IF q \in Pending THEN Gives(payment[q], p) ELSE 0
    BY DEF Pending, Out
  <2>2. Promised(p) = SumFunctionOnSet(k, Payments)
    BY DEF Promised
  <2>. HIDE DEF k
  <2>. QED
    BY <2>1, <2>2, SentIs
<1>6. Received(Pending, p) = Awaited(p)
  <2>. DEFINE k == [q \in Payments |-> In(payment[q], p)]
  <2>1. Pending \in SUBSET Payments
        /\ \A q \in Payments : k[q] = IF q \in Pending THEN Gets(payment[q], p) ELSE 0
    BY DEF Pending, In
  <2>2. Awaited(p) = SumFunctionOnSet(k, Payments)
    BY DEF Awaited
  <2>. HIDE DEF k
  <2>. QED
    BY <2>1, <2>2, ReceivedIs
<1>7. Balance(p) = Spent(p) + Passed(p)
  BY <1>1, <1>3, SumTypes DEF Balance
<1>8. Current(p) = SpentNow(p) + PassedNow(p)
  BY <1>2, <1>4, SumTypes DEF Current
<1>. QED
  BY <1>5, <1>6, <1>7, <1>8

LEMMA BalancesAreNext ==
  LedgerTypeOK' => (\A p \in People :
    /\ Balance(p) = Spent(p) + Passed(p)
    /\ Current(p) = SpentNow(p) + PassedNow(p)
    /\ Sent(Pending, p) = Promised(p)
    /\ Received(Pending, p) = Awaited(p))'
BY BalancesAre, PTL

-----------------------------------------------------------------------------
(* What a step that changes one row changes in the balances.               *)

LEMMA ExpenseChanges ==
  ASSUME LedgerTypeOK, LedgerTypeOK', UNCHANGED payment, NEW p \in People, NEW e \in Expenses,
         \A d \in Expenses \ {e} : expense'[d] = expense[d] /\ corrections'[d] = corrections[d]
  PROVE  /\ Balance(p)' = Balance(p) + Says(expense'[e], corrections'[e], p)
                                     - Says(expense[e], corrections[e], p)
         /\ Current(p)' = Current(p) + SaysNow(expense'[e], corrections'[e], p)
                                     - SaysNow(expense[e], corrections[e], p)
<1>. DEFINE f == [d \in Expenses |-> Says(expense[d], corrections[d], p)]
            g == [d \in Expenses |-> Says(expense'[d], corrections'[d], p)]
            h == [d \in Expenses |-> SaysNow(expense[d], corrections[d], p)]
            k == [d \in Expenses |-> SaysNow(expense'[d], corrections'[d], p)]
<1>1. Balance(p) = Spent(p) + Passed(p) /\ Current(p) = SpentNow(p) + PassedNow(p)
  BY BalancesAre
<1>2. Balance(p)' = Spent(p)' + Passed(p)' /\ Current(p)' = SpentNow(p)' + PassedNow(p)'
  BY BalancesAreNext
<1>3. Passed(p)' = Passed(p) /\ PassedNow(p)' = PassedNow(p)
  BY DEF Passed, PassedNow
<1>4. /\ Spent(p) = SumFunctionOnSet(f, Expenses) /\ Spent(p)' = SumFunctionOnSet(g, Expenses)
      /\ SpentNow(p) = SumFunctionOnSet(h, Expenses)
      /\ SpentNow(p)' = SumFunctionOnSet(k, Expenses)
  BY DEF Spent, SpentNow
<1>5. \A d \in Expenses : f[d] \in Int /\ h[d] \in Int
  BY Counts
<1>6. \A d \in Expenses : g[d] \in Int /\ k[d] \in Int
  <2>1. \A d \in Expenses : expense'[d] \in Expense /\ corrections'[d] \in Seq(Correction)
    BY DEF LedgerTypeOK, Expense
  <2>2. ASSUME NEW d \in Expenses
        PROVE  g[d] \in Int /\ k[d] \in Int
    <3>1. expense'[d] \in Expense /\ corrections'[d] \in Seq(Correction)
      BY <2>1
    <3>2. Net(expense'[d], p) \in Int
      BY <3>1 DEF Net, Expense
    <3>3. All(corrections'[d], p) \in Int /\ Fresh(corrections'[d], p) \in Int
      BY <3>1, DeltaTypes
    <3>. QED
      BY <3>2, <3>3 DEF Says, SaysNow
  <2>. QED
    BY <2>2
<1>7. \A d \in Expenses : d # e => g[d] = f[d] /\ k[d] = h[d]
  OBVIOUS
<1>8. /\ f[e] = Says(expense[e], corrections[e], p)
      /\ g[e] = Says(expense'[e], corrections'[e], p)
      /\ h[e] = SaysNow(expense[e], corrections[e], p)
      /\ k[e] = SaysNow(expense'[e], corrections'[e], p)
  OBVIOUS
<1>. HIDE DEF f, g, h, k
<1>9. SumFunctionOnSet(g, Expenses) = SumFunctionOnSet(f, Expenses) + g[e] - f[e]
  <2>1. \A d \in Expenses : f[d] \in Int /\ g[d] \in Int /\ (d # e => g[d] = f[d])
    BY <1>5, <1>6, <1>7
  <2>. QED
    BY <2>1, Finite, SumChange
<1>10. SumFunctionOnSet(k, Expenses) = SumFunctionOnSet(h, Expenses) + k[e] - h[e]
  <2>1. \A d \in Expenses : h[d] \in Int /\ k[d] \in Int /\ (d # e => k[d] = h[d])
    BY <1>5, <1>6, <1>7
  <2>. QED
    BY <2>1, Finite, SumChange
<1>11. /\ f[e] \in Int /\ g[e] \in Int /\ h[e] \in Int /\ k[e] \in Int
       /\ Spent(p) \in Int /\ SpentNow(p) \in Int /\ Passed(p) \in Int /\ PassedNow(p) \in Int
  BY <1>5, <1>6, SumTypes
<1>12. Balance(p)' = Balance(p) + g[e] - f[e]
  BY <1>1, <1>2, <1>3, <1>4, <1>9, <1>11
<1>13. Current(p)' = Current(p) + k[e] - h[e]
  BY <1>1, <1>2, <1>3, <1>4, <1>10, <1>11
<1>. QED
  BY <1>8, <1>12, <1>13

LEMMA TransferChanges ==
  ASSUME LedgerTypeOK, LedgerTypeOK', UNCHANGED <<expense, corrections>>,
         NEW p \in People, NEW q \in Payments,
         \A r \in Payments \ {q} : payment'[r] = payment[r]
  PROVE  /\ Balance(p)' = Balance(p) + Moves(payment'[q], p) - Moves(payment[q], p)
         /\ Current(p)' = Current(p) + MovesNow(payment'[q], p) - MovesNow(payment[q], p)
         /\ Sent(Pending, p)' = Sent(Pending, p) + Out(payment'[q], p) - Out(payment[q], p)
         /\ Received(Pending, p)' = Received(Pending, p) + In(payment'[q], p) - In(payment[q], p)
<1>1. /\ Balance(p) = Spent(p) + Passed(p) /\ Current(p) = SpentNow(p) + PassedNow(p)
      /\ Sent(Pending, p) = Promised(p) /\ Received(Pending, p) = Awaited(p)
  BY BalancesAre
<1>2. /\ Balance(p)' = Spent(p)' + Passed(p)' /\ Current(p)' = SpentNow(p)' + PassedNow(p)'
      /\ Sent(Pending, p)' = Promised(p)' /\ Received(Pending, p)' = Awaited(p)'
  BY BalancesAreNext
<1>3. Spent(p)' = Spent(p) /\ SpentNow(p)' = SpentNow(p)
  BY DEF Spent, SpentNow
<1>4. \A r \in Payments : /\ Moves(payment'[r], p) \in Int /\ MovesNow(payment'[r], p) \in Int
                          /\ Out(payment'[r], p) \in Int /\ In(payment'[r], p) \in Int
  <2>1. \A r \in Payments : payment'[r].amount \in Nat
    BY DEF LedgerTypeOK
  <2>. QED
    BY <2>1 DEF Moves, MovesNow, Out, In, Gives, Gets
<1>5. Passed(p)' = Passed(p) + Moves(payment'[q], p) - Moves(payment[q], p)
  <2>. DEFINE f == [r \in Payments |-> Moves(payment[r], p)]
              g == [r \in Payments |-> Moves(payment'[r], p)]
  <2>1. \A r \in Payments : f[r] \in Int /\ g[r] \in Int /\ (r # q => g[r] = f[r])
    BY <1>4, Counts
  <2>2. Passed(p) = SumFunctionOnSet(f, Payments) /\ Passed(p)' = SumFunctionOnSet(g, Payments)
    BY DEF Passed
  <2>3. f[q] = Moves(payment[q], p) /\ g[q] = Moves(payment'[q], p)
    OBVIOUS
  <2>. HIDE DEF f, g
  <2>. QED
    BY <2>1, <2>2, <2>3, Finite, SumChange
<1>6. PassedNow(p)' = PassedNow(p) + MovesNow(payment'[q], p) - MovesNow(payment[q], p)
  <2>. DEFINE f == [r \in Payments |-> MovesNow(payment[r], p)]
              g == [r \in Payments |-> MovesNow(payment'[r], p)]
  <2>1. \A r \in Payments : f[r] \in Int /\ g[r] \in Int /\ (r # q => g[r] = f[r])
    BY <1>4, Counts
  <2>2. PassedNow(p) = SumFunctionOnSet(f, Payments)
        /\ PassedNow(p)' = SumFunctionOnSet(g, Payments)
    BY DEF PassedNow
  <2>3. f[q] = MovesNow(payment[q], p) /\ g[q] = MovesNow(payment'[q], p)
    OBVIOUS
  <2>. HIDE DEF f, g
  <2>. QED
    BY <2>1, <2>2, <2>3, Finite, SumChange
<1>7. Promised(p)' = Promised(p) + Out(payment'[q], p) - Out(payment[q], p)
  <2>. DEFINE f == [r \in Payments |-> Out(payment[r], p)]
              g == [r \in Payments |-> Out(payment'[r], p)]
  <2>1. \A r \in Payments : f[r] \in Int /\ g[r] \in Int /\ (r # q => g[r] = f[r])
    BY <1>4, Counts
  <2>2. Promised(p) = SumFunctionOnSet(f, Payments) /\ Promised(p)' = SumFunctionOnSet(g, Payments)
    BY DEF Promised
  <2>3. f[q] = Out(payment[q], p) /\ g[q] = Out(payment'[q], p)
    OBVIOUS
  <2>. HIDE DEF f, g
  <2>. QED
    BY <2>1, <2>2, <2>3, Finite, SumChange
<1>8. Awaited(p)' = Awaited(p) + In(payment'[q], p) - In(payment[q], p)
  <2>. DEFINE f == [r \in Payments |-> In(payment[r], p)]
              g == [r \in Payments |-> In(payment'[r], p)]
  <2>1. \A r \in Payments : f[r] \in Int /\ g[r] \in Int /\ (r # q => g[r] = f[r])
    BY <1>4, Counts
  <2>2. Awaited(p) = SumFunctionOnSet(f, Payments) /\ Awaited(p)' = SumFunctionOnSet(g, Payments)
    BY DEF Awaited
  <2>3. f[q] = In(payment[q], p) /\ g[q] = In(payment'[q], p)
    OBVIOUS
  <2>. HIDE DEF f, g
  <2>. QED
    BY <2>1, <2>2, <2>3, Finite, SumChange
<1>9. /\ Spent(p) \in Int /\ SpentNow(p) \in Int /\ Passed(p) \in Int /\ PassedNow(p) \in Int
      /\ Moves(payment[q], p) \in Int /\ MovesNow(payment[q], p) \in Int
      /\ Moves(payment'[q], p) \in Int /\ MovesNow(payment'[q], p) \in Int
  BY <1>4, Counts, SumTypes
<1>10. Balance(p)' = Balance(p) + Moves(payment'[q], p) - Moves(payment[q], p)
  BY <1>1, <1>2, <1>3, <1>5, <1>9
<1>11. Current(p)' = Current(p) + MovesNow(payment'[q], p) - MovesNow(payment[q], p)
  BY <1>1, <1>2, <1>3, <1>6, <1>9
<1>. QED
  BY <1>1, <1>2, <1>7, <1>8, <1>10, <1>11

-----------------------------------------------------------------------------
(* The inductive invariant of the balances.                                *)

Balanced(x) == SumOf(x.shares) = x.amount

\* Splits add up, only settled expenses are corrected, and a transfer waits
\* between two people.
RowsInv ==
  /\ \A e \in Expenses :
       /\ expense[e].status # "NONE" => Balanced(expense[e])
       /\ corrections[e] # <<>> => expense[e].status = "SETTLED"
       /\ \A i \in DOMAIN corrections[e] : Balanced(corrections[e][i].to)
  /\ \A q \in Pending :
       /\ payment[q].payer \in People /\ payment[q].recipient \in People
       /\ payment[q].payer # payment[q].recipient
       /\ payment[q].amount > 0 /\ ~payment[q].settled

Balances == [p \in People |-> Balance(p)]
ZeroSum == SumFunctionOnSet(Balances, People) = 0

LInv == IInv /\ RowsInv /\ WaitingIsCovered /\ RoundsAddUp /\ ZeroSum

LEMMA BalanceTypes ==
  LedgerTypeOK => \A p \in People :
    Balance(p) \in Int /\ Current(p) \in Int /\ Sent(Pending, p) \in Nat /\ Received(Pending, p) \in Nat
BY BalancesAre, SumTypes

LEMMA BalanceTypesNext ==
  LedgerTypeOK' => (\A p \in People :
    Balance(p) \in Int /\ Current(p) \in Int /\ Sent(Pending, p) \in Nat /\ Received(Pending, p) \in Nat)'
BY BalanceTypes, PTL

\* What a record with such shares says sums to nothing.
LEMMA NetsToNothing ==
  ASSUME NEW x, x.payer \in People, x.amount \in Nat, x.shares \in [People -> Nat], Balanced(x),
         NEW u, \A p \in People : u[p] = Net(x, p)
  PROVE  (\A p \in People : u[p] \in Int) /\ SumFunctionOnSet(u, People) = 0
<1>. DEFINE a == x.payer
            n == x.amount
            f == [p \in People |-> IF a = p THEN n ELSE 0]
            s == x.shares
<1>1. a \in People /\ f[a] = n /\ n \in Int
  OBVIOUS
<1>2. \A p \in People : u[p] \in Int /\ s[p] \in Int /\ f[p] = u[p] + s[p]
  BY DEF Net
<1>3. \A p \in People : p # a => f[p] = 0
  OBVIOUS
<1>4. SumFunctionOnSet(s, People) = n
  BY DEF Balanced, SumOf
<1>. HIDE DEF a, f, s, n
<1>5. SumFunctionOnSet(f, People) = n
  BY <1>1, <1>3, Finite, SumPoint
<1>6. SumFunctionOnSet(f, People) = SumFunctionOnSet(u, People) + SumFunctionOnSet(s, People)
  BY <1>2, Finite, SumPlus
<1>7. SumFunctionOnSet(u, People) \in Int
  BY <1>2, Finite, SumType
<1>8. SumFunctionOnSet(u, People) = 0
  BY <1>1, <1>4, <1>5, <1>6, <1>7
<1>. QED
  BY <1>2, <1>8

\* Balances that move by as much as they fall still sum to nothing.
LEMMA ZeroSumKeeps ==
  ASSUME LedgerTypeOK, ZeroSum, NEW u, NEW v,
         \A p \in People : u[p] \in Int /\ v[p] \in Int /\ Balance(p)' = Balance(p) + u[p] - v[p],
         SumFunctionOnSet(u, People) = SumFunctionOnSet(v, People)
  PROVE  ZeroSum'
<1>. DEFINE b == Balances
            c == Balances'
            k == [p \in People |-> b[p] + u[p]]
<1>1. \A p \in People : b[p] \in Int /\ c[p] = Balance(p)' /\ b[p] = Balance(p)
  BY BalanceTypes DEF Balances
<1>2. \A p \in People : /\ b[p] \in Int /\ c[p] \in Int /\ k[p] = b[p] + u[p]
                        /\ k[p] = c[p] + v[p] /\ u[p] \in Int /\ v[p] \in Int
  BY <1>1
<1>. HIDE DEF b, c, k
<1>3. SumFunctionOnSet(k, People) = SumFunctionOnSet(b, People) + SumFunctionOnSet(u, People)
  BY <1>2, Finite, SumPlus
<1>4. SumFunctionOnSet(k, People) = SumFunctionOnSet(c, People) + SumFunctionOnSet(v, People)
  BY <1>2, Finite, SumPlus
<1>5. SumFunctionOnSet(b, People) = 0
  BY DEF ZeroSum, b
<1>6. SumFunctionOnSet(c, People) \in Int /\ SumFunctionOnSet(v, People) \in Int
  <2>1. (\A p \in People : c[p] \in Int) /\ (\A p \in People : v[p] \in Int)
    BY <1>2
  <2>. QED
    BY <2>1, Finite, SumType
<1>7. SumFunctionOnSet(c, People) = 0
  BY <1>3, <1>4, <1>5, <1>6
<1>. QED
  BY <1>7 DEF ZeroSum, c

-----------------------------------------------------------------------------
(* What each operation keeps.                                             *)

\* A step of the house or of nobody changes no row that counts.
LEMMA SameRows ==
  ASSUME LInv, IInv', UNCHANGED <<expense, corrections, payment>>
  PROVE  LInv'
<1>1. RowsInv'
  BY DEF LInv, RowsInv, Pending
<1>2a. \A p \in People : Current(p)' = Current(p)
  BY DEF Current, Nets, Deltas, Sent, Received, Worth, Confirmed, Open, CorrectedSince, Loose,
         Unsettled
<1>2. \A p \in People : /\ Balance(p)' = Balance(p)
                        /\ Sent(Pending, p)' = Sent(Pending, p)
                        /\ Received(Pending, p)' = Received(Pending, p)
  BY DEF Balance, Nets, Booked, Corrected, Deltas, Sent, Received, Worth, Confirmed, Pending
<1>3. WaitingIsCovered'
  BY <1>2 DEF LInv, WaitingIsCovered, RowsInv, Pending
<1>4. CorrectionsChain'
  BY DEF LInv, RoundsAddUp, CorrectionsChain, Deltas
<1>5. CurrentExplainsBalance'
  BY <1>2, <1>2a DEF LInv, RoundsAddUp, CurrentExplainsBalance, Current
<1>6. ZeroSum'
  <2>1. Balances' = Balances
    BY <1>2 DEF Balances
  <2>. QED
    BY <2>1 DEF LInv, ZeroSum
<1>. QED
  BY <1>1, <1>3, <1>4, <1>5, <1>6 DEF LInv, RoundsAddUp

\* A record changes while no transfer waits: balances move by differences
\* that sum to nothing, and those of the round with them.
LEMMA RecordStep ==
  ASSUME LInv, IInv', UNCHANGED payment, Pending = {}, NEW e \in Expenses,
         \A d \in Expenses \ {e} : expense'[d] = expense[d] /\ corrections'[d] = corrections[d],
         NEW u, NEW v, \A p \in People : u[p] \in Int /\ v[p] \in Int,
         SumFunctionOnSet(u, People) = 0, SumFunctionOnSet(v, People) = 0,
         \A p \in People :
           /\ Says(expense'[e], corrections'[e], p)
                = Says(expense[e], corrections[e], p) + u[p] - v[p]
           /\ SaysNow(expense'[e], corrections'[e], p)
                = SaysNow(expense[e], corrections[e], p) + u[p] - v[p]
  PROVE  WaitingIsCovered' /\ CurrentExplainsBalance' /\ ZeroSum'
<1>0. LedgerTypeOK /\ LedgerTypeOK'
  BY DEF LInv, IInv
<1>1. ASSUME NEW p \in People
      PROVE  /\ Balance(p)' = Balance(p) + u[p] - v[p]
             /\ Current(p)' = Current(p) + u[p] - v[p]
  <2>1. /\ Balance(p)' = Balance(p) + Says(expense'[e], corrections'[e], p)
                                    - Says(expense[e], corrections[e], p)
        /\ Current(p)' = Current(p) + SaysNow(expense'[e], corrections'[e], p)
                                    - SaysNow(expense[e], corrections[e], p)
    BY <1>0, ExpenseChanges
  <2>2. /\ Says(expense[e], corrections[e], p) \in Int
        /\ SaysNow(expense[e], corrections[e], p) \in Int
    BY <1>0, Counts
  <2>3. Balance(p) \in Int /\ Current(p) \in Int /\ u[p] \in Int /\ v[p] \in Int
    BY <1>0, BalanceTypes
  <2>4. /\ Says(expense'[e], corrections'[e], p)
             = Says(expense[e], corrections[e], p) + u[p] - v[p]
        /\ SaysNow(expense'[e], corrections'[e], p)
             = SaysNow(expense[e], corrections[e], p) + u[p] - v[p]
    OBVIOUS
  <2>. QED
    BY <2>1, <2>2, <2>3, <2>4
<1>2. WaitingIsCovered'
  <2>1. Pending' = {}
    BY DEF Pending
  <2>. QED
    BY <2>1 DEF WaitingIsCovered
<1>3. CurrentExplainsBalance'
  <2>1. \A p \in People : Balance(p) = Current(p)
    BY DEF LInv, RoundsAddUp, CurrentExplainsBalance, Current
  <2>2. \A p \in People : Balance(p)' = Current(p)'
    BY <1>1, <2>1
  <2>. QED
    BY <2>2 DEF CurrentExplainsBalance, Current
<1>4. ZeroSum'
  <2>1. SumFunctionOnSet(u, People) = SumFunctionOnSet(v, People) /\ ZeroSum
    BY DEF LInv
  <2>2. \A p \in People : u[p] \in Int /\ v[p] \in Int /\ Balance(p)' = Balance(p) + u[p] - v[p]
    BY <1>1
  <2>. QED
    BY <1>0, <2>1, <2>2, ZeroSumKeeps
<1>. QED
  BY <1>2, <1>3, <1>4

\* Corrections stay, and so does every expense that has some.
LEMMA ChainKeeps ==
  ASSUME LInv, UNCHANGED <<corrections, payment>>, NEW e \in Expenses,
         expense[e].status # "SETTLED", Pending = {},
         \A d \in Expenses \ {e} : expense'[d] = expense[d],
         expense'[e].status # "NONE" => Balanced(expense'[e])
  PROVE  CorrectionsChain' /\ RowsInv' /\ corrections[e] = <<>> /\ corrections'[e] = <<>>
<1>1. corrections[e] = <<>>
  BY DEF LInv, RowsInv
<1>2. \A d \in Expenses : corrections[d] # <<>> => expense'[d] = expense[d]
  BY <1>1
<1>3. CorrectionsChain'
  BY <1>2 DEF LInv, RoundsAddUp, CorrectionsChain, Deltas
<1>4. RowsInv'
  <2>1. Pending' = {}
    BY DEF Pending
  <2>2. ASSUME NEW d \in Expenses
        PROVE  /\ expense'[d].status # "NONE" => Balanced(expense'[d])
               /\ corrections'[d] # <<>> => expense'[d].status = "SETTLED"
               /\ \A i \in DOMAIN corrections'[d] : Balanced(corrections'[d][i].to)
    BY <1>2 DEF LInv, RowsInv
  <2>. QED
    BY <2>1, <2>2 DEF RowsInv, Balanced
<1>. QED
  BY <1>1, <1>3, <1>4

\* Nothing, as a record.
Naught == [p \in People |-> 0]

LEMMA NaughtSums ==
  (\A p \in People : Naught[p] \in Int /\ Naught[p] = 0) /\ SumFunctionOnSet(Naught, People) = 0
<1>1. \A p \in People : Naught[p] = 0 /\ Naught[p] \in Int
  BY DEF Naught
<1>. QED
  BY <1>1, Finite, SumZero

NetOf(x) == [p \in People |-> Net(x, p)]

LEMMA RecordSums ==
  ASSUME NEW x \in Expense, x.payer \in People, Balanced(x)
  PROVE  /\ \A p \in People : NetOf(x)[p] \in Int /\ NetOf(x)[p] = Net(x, p)
         /\ SumFunctionOnSet(NetOf(x), People) = 0
<1>1. \A p \in People : NetOf(x)[p] = Net(x, p)
  BY DEF NetOf
<1>2. x.amount \in Nat /\ x.shares \in [People -> Nat]
  BY DEF Expense
<1>. QED
  BY <1>1, <1>2, NetsToNothing

LEMMA CreateKeeps ==
  ASSUME LInv, IInv', NEW e \in Expenses, Create(e)
  PROVE  LInv'
<1>0. PICK n \in Amounts, a \in People :
        \E shares \in Splits(n), open \in 0 .. Unpaid :
          /\ open <= n
          /\ Write(e, [status |-> "ACTIVE", payer |-> a, amount |-> n, shares |-> shares,
                       paid |-> n - open])
  BY DEF Create
<1>1. PICK shares \in Splits(n), open \in 0 .. Unpaid :
        /\ open <= n
        /\ Write(e, [status |-> "ACTIVE", payer |-> a, amount |-> n, shares |-> shares,
                     paid |-> n - open])
  BY <1>0
<1>2. PICK x : /\ x = [status |-> "ACTIVE", payer |-> a, amount |-> n, shares |-> shares,
                       paid |-> n - open]
               /\ Write(e, x)
  BY <1>1
<1>3. /\ expense'[e] = x /\ \A d \in Expenses \ {e} : expense'[d] = expense[d]
      /\ expense[e].status = "NONE" /\ UNCHANGED <<supplier, corrections, payment>> /\ Pending = {}
  BY <1>2 DEF Write, Create, NoPending, LInv, IInv, LedgerTypeOK
<1>4. x \in Expense /\ x.status = "ACTIVE" /\ x.payer \in People /\ Balanced(x)
  <2>1. x \in Expense
    BY <1>3 DEF IInv, LedgerTypeOK, Expense
  <2>. QED
    BY <1>2, <2>1 DEF Balanced, Splits
<1>5. CorrectionsChain' /\ RowsInv' /\ corrections[e] = <<>> /\ corrections'[e] = <<>>
  BY <1>3, <1>4, ChainKeeps
<1>6. ASSUME NEW p \in People
      PROVE  /\ Says(expense'[e], corrections'[e], p)
                  = Says(expense[e], corrections[e], p) + NetOf(x)[p] - Naught[p]
             /\ SaysNow(expense'[e], corrections'[e], p)
                  = SaysNow(expense[e], corrections[e], p) + NetOf(x)[p] - Naught[p]
  <2>1. All(corrections[e], p) = 0 /\ Fresh(corrections[e], p) = 0
        /\ All(corrections'[e], p) = 0 /\ Fresh(corrections'[e], p) = 0
    BY <1>5, NoneYet
  <2>2. NetOf(x)[p] = Net(x, p) /\ Net(x, p) \in Int /\ Naught[p] = 0
    BY <1>4, NaughtSums, RecordSums
  <2>3. /\ Says(expense'[e], corrections'[e], p) = Net(x, p)
        /\ SaysNow(expense'[e], corrections'[e], p) = Net(x, p)
    BY <1>3, <1>4, <2>1, <2>2 DEF Says, SaysNow
  <2>4. Says(expense[e], corrections[e], p) = 0 /\ SaysNow(expense[e], corrections[e], p) = 0
    BY <1>3, <2>1 DEF Says, SaysNow
  <2>. QED
    BY <2>2, <2>3, <2>4
<1>7. WaitingIsCovered' /\ CurrentExplainsBalance' /\ ZeroSum'
  BY <1>3, <1>4, <1>6, RecordSums, NaughtSums, RecordStep
<1>. QED
  BY <1>5, <1>7 DEF LInv, RoundsAddUp

LEMMA UpdateKeeps ==
  ASSUME LInv, IInv', NEW e \in Expenses, Update(e)
  PROVE  LInv'
<1>0. PICK n \in Amounts, a \in People :
        \E shares \in Splits(n), paid \in {expense[e].paid} \cup ((n - Unpaid) .. n) :
          Write(e, [status |-> "ACTIVE", payer |-> a, amount |-> n, shares |-> shares,
                    paid |-> paid])
  BY DEF Update
<1>1. PICK shares \in Splits(n), paid \in {expense[e].paid} \cup ((n - Unpaid) .. n) :
        Write(e, [status |-> "ACTIVE", payer |-> a, amount |-> n, shares |-> shares,
                  paid |-> paid])
  BY <1>0
<1>2. PICK x : /\ x = [status |-> "ACTIVE", payer |-> a, amount |-> n, shares |-> shares,
                       paid |-> paid]
               /\ Write(e, x)
  BY <1>1
<1>3. /\ expense'[e] = x /\ \A d \in Expenses \ {e} : expense'[d] = expense[d]
      /\ expense[e].status = "ACTIVE" /\ UNCHANGED <<supplier, corrections, payment>> /\ Pending = {}
  BY <1>2 DEF Write, Update, Editable, NoPending, LInv, IInv, LedgerTypeOK
<1>4. x \in Expense /\ x.status = "ACTIVE" /\ x.payer \in People /\ Balanced(x)
  <2>1. x \in Expense
    BY <1>3 DEF IInv, LedgerTypeOK, Expense
  <2>. QED
    BY <1>2, <2>1 DEF Balanced, Splits
<1>5. expense[e] \in Expense /\ expense[e].payer \in People /\ Balanced(expense[e])
  BY <1>3 DEF LInv, IInv, LedgerTypeOK, RowsInv, Expense
<1>6. CorrectionsChain' /\ RowsInv' /\ corrections[e] = <<>> /\ corrections'[e] = <<>>
  BY <1>3, <1>4, ChainKeeps
<1>7. ASSUME NEW p \in People
      PROVE  /\ Says(expense'[e], corrections'[e], p)
                  = Says(expense[e], corrections[e], p) + NetOf(x)[p] - NetOf(expense[e])[p]
             /\ SaysNow(expense'[e], corrections'[e], p)
                  = SaysNow(expense[e], corrections[e], p) + NetOf(x)[p] - NetOf(expense[e])[p]
  <2>1. All(corrections[e], p) = 0 /\ Fresh(corrections[e], p) = 0
        /\ All(corrections'[e], p) = 0 /\ Fresh(corrections'[e], p) = 0
    BY <1>6, NoneYet
  <2>2. /\ NetOf(x)[p] = Net(x, p) /\ Net(x, p) \in Int
        /\ NetOf(expense[e])[p] = Net(expense[e], p) /\ Net(expense[e], p) \in Int
    BY <1>4, <1>5, RecordSums
  <2>3. /\ Says(expense'[e], corrections'[e], p) = Net(x, p)
        /\ SaysNow(expense'[e], corrections'[e], p) = Net(x, p)
    BY <1>3, <1>4, <2>1, <2>2 DEF Says, SaysNow
  <2>4. /\ Says(expense[e], corrections[e], p) = Net(expense[e], p)
        /\ SaysNow(expense[e], corrections[e], p) = Net(expense[e], p)
    BY <1>3, <2>1, <2>2 DEF Says, SaysNow
  <2>. QED
    BY <2>2, <2>3, <2>4
<1>8. WaitingIsCovered' /\ CurrentExplainsBalance' /\ ZeroSum'
  BY <1>3, <1>4, <1>5, <1>7, RecordSums, RecordStep
<1>. QED
  BY <1>6, <1>8 DEF LInv, RoundsAddUp

LEMMA CancelKeeps ==
  ASSUME LInv, IInv', NEW e \in Expenses, Cancel(e)
  PROVE  LInv'
<1>1. /\ expense'[e] = [expense[e] EXCEPT !.status = "CANCELLED"]
      /\ \A d \in Expenses \ {e} : expense'[d] = expense[d]
      /\ expense[e].status = "ACTIVE" /\ UNCHANGED <<supplier, corrections, payment>> /\ Pending = {}
  BY DEF Cancel, Editable, NoPending, LInv, IInv, LedgerTypeOK
<1>2. expense[e] \in Expense /\ expense[e].payer \in People /\ Balanced(expense[e])
  BY <1>1 DEF LInv, IInv, LedgerTypeOK, RowsInv, Expense
<1>3. expense'[e].status = "CANCELLED" /\ Balanced(expense'[e])
  BY <1>1, <1>2 DEF Balanced, Expense
<1>4. CorrectionsChain' /\ RowsInv' /\ corrections[e] = <<>> /\ corrections'[e] = <<>>
  BY <1>1, <1>3, ChainKeeps
<1>5. ASSUME NEW p \in People
      PROVE  /\ Says(expense'[e], corrections'[e], p)
                  = Says(expense[e], corrections[e], p) + Naught[p] - NetOf(expense[e])[p]
             /\ SaysNow(expense'[e], corrections'[e], p)
                  = SaysNow(expense[e], corrections[e], p) + Naught[p] - NetOf(expense[e])[p]
  <2>1. All(corrections[e], p) = 0 /\ Fresh(corrections[e], p) = 0
        /\ All(corrections'[e], p) = 0 /\ Fresh(corrections'[e], p) = 0
    BY <1>4, NoneYet
  <2>2. /\ Naught[p] = 0
        /\ NetOf(expense[e])[p] = Net(expense[e], p) /\ Net(expense[e], p) \in Int
    BY <1>2, RecordSums, NaughtSums
  <2>3. Says(expense'[e], corrections'[e], p) = 0 /\ SaysNow(expense'[e], corrections'[e], p) = 0
    BY <1>3, <2>1 DEF Says, SaysNow
  <2>4. /\ Says(expense[e], corrections[e], p) = Net(expense[e], p)
        /\ SaysNow(expense[e], corrections[e], p) = Net(expense[e], p)
    BY <1>1, <2>1, <2>2 DEF Says, SaysNow
  <2>. QED
    BY <2>2, <2>3, <2>4
<1>6. WaitingIsCovered' /\ CurrentExplainsBalance' /\ ZeroSum'
  BY <1>1, <1>2, <1>5, RecordSums, NaughtSums, RecordStep
<1>. QED
  BY <1>4, <1>6 DEF LInv, RoundsAddUp

\* The supplier's money counts in no balance, and transfers may wait.
LEMMA PaySupplierChanges ==
  ASSUME LInv, IInv', NEW e \in Expenses, NEW n \in Amounts, PaySupplier(e, n)
  PROVE  /\ UNCHANGED <<corrections, payment>>
         /\ \A d \in Expenses : /\ expense'[d].status = expense[d].status
                                /\ expense'[d].payer = expense[d].payer
                                /\ expense'[d].amount = expense[d].amount
                                /\ expense'[d].shares = expense[d].shares
         /\ \A p \in People : /\ \A d \in Expenses : Net(expense'[d], p) = Net(expense[d], p)
                              /\ Balance(p)' = Balance(p) /\ Current(p)' = Current(p)
                              /\ Sent(Pending, p)' = Sent(Pending, p)
                              /\ Received(Pending, p)' = Received(Pending, p)
<1>0. LedgerTypeOK /\ LedgerTypeOK'
  BY DEF LInv, IInv
<1>1. /\ expense'[e] = [expense[e] EXCEPT !.paid = @ + n]
      /\ \A d \in Expenses \ {e} : expense'[d] = expense[d]
      /\ UNCHANGED <<corrections, payment>> /\ expense[e] \in Expense
  BY <1>0 DEF PaySupplier, LedgerTypeOK, Expense
<1>2. \A d \in Expenses : /\ expense'[d].status = expense[d].status
                          /\ expense'[d].payer = expense[d].payer
                          /\ expense'[d].amount = expense[d].amount
                          /\ expense'[d].shares = expense[d].shares
  BY <1>1 DEF Expense
<1>3. ASSUME NEW p \in People
      PROVE  /\ \A d \in Expenses : Net(expense'[d], p) = Net(expense[d], p)
             /\ Says(expense'[e], corrections'[e], p) = Says(expense[e], corrections[e], p)
             /\ SaysNow(expense'[e], corrections'[e], p) = SaysNow(expense[e], corrections[e], p)
  <2>1. \A d \in Expenses : Net(expense'[d], p) = Net(expense[d], p)
    BY <1>2 DEF Net
  <2>. QED
    BY <1>1, <1>2, <2>1 DEF Says, SaysNow
<1>4. ASSUME NEW p \in People
      PROVE  /\ Balance(p)' = Balance(p) /\ Current(p)' = Current(p)
             /\ Sent(Pending, p)' = Sent(Pending, p)
             /\ Received(Pending, p)' = Received(Pending, p)
  <2>1. /\ Balance(p)' = Balance(p) + Says(expense'[e], corrections'[e], p)
                                    - Says(expense[e], corrections[e], p)
        /\ Current(p)' = Current(p) + SaysNow(expense'[e], corrections'[e], p)
                                    - SaysNow(expense[e], corrections[e], p)
    BY <1>0, <1>1, ExpenseChanges
  <2>2. /\ Says(expense[e], corrections[e], p) \in Int
        /\ SaysNow(expense[e], corrections[e], p) \in Int
        /\ Balance(p) \in Int /\ Current(p) \in Int
    BY <1>0, Counts, BalanceTypes
  <2>3. Balance(p)' = Balance(p) /\ Current(p)' = Current(p)
    BY <1>3, <2>1, <2>2
  <2>. QED
    BY <1>1, <2>3 DEF Sent, Received, Worth, Pending
<1>. QED
  BY <1>1, <1>2, <1>3, <1>4

LEMMA PaySupplierKeeps ==
  ASSUME LInv, IInv', NEW e \in Expenses, NEW n \in Amounts, PaySupplier(e, n)
  PROVE  LInv'
<1>1. /\ UNCHANGED <<corrections, payment>>
      /\ \A d \in Expenses : /\ expense'[d].status = expense[d].status
                             /\ expense'[d].payer = expense[d].payer
                             /\ expense'[d].amount = expense[d].amount
                             /\ expense'[d].shares = expense[d].shares
  BY PaySupplierChanges
<1>2. \A p \in People : /\ \A d \in Expenses : Net(expense'[d], p) = Net(expense[d], p)
                       /\ Balance(p)' = Balance(p) /\ Current(p)' = Current(p)
                       /\ Sent(Pending, p)' = Sent(Pending, p)
                       /\ Received(Pending, p)' = Received(Pending, p)
  BY PaySupplierChanges
<1>3. RowsInv'
  BY <1>1 DEF LInv, RowsInv, Balanced, Pending
<1>4. WaitingIsCovered'
  <2>1. Pending' = Pending /\ UNCHANGED payment
    BY <1>1 DEF Pending
  <2>. QED
    BY <1>2, <2>1 DEF LInv, WaitingIsCovered, RowsInv
<1>5. CorrectionsChain'
  BY <1>1, <1>2 DEF LInv, RoundsAddUp, CorrectionsChain, Deltas
<1>6. CurrentExplainsBalance'
  <2>1. \A p \in People : Balance(p) = Current(p)
    BY DEF LInv, RoundsAddUp, CurrentExplainsBalance, Current
  <2>2. \A p \in People : Balance(p)' = Current(p)'
    BY <1>2, <2>1
  <2>. QED
    BY <2>2 DEF CurrentExplainsBalance, Current
<1>7. ZeroSum'
  <2>1. Balances' = Balances
    BY <1>2 DEF Balances
  <2>. QED
    BY <2>1 DEF LInv, ZeroSum
<1>. QED
  BY <1>3, <1>4, <1>5, <1>6, <1>7 DEF LInv, RoundsAddUp

\* What a settled expense says is what its last correction says.
LEMMA LatestSays ==
  ASSUME LInv, NEW e \in Expenses, expense[e].status = "SETTLED"
  PROVE  /\ Latest(e) \in Snapshots /\ Latest(e).payer \in People /\ Balanced(Latest(e))
         /\ \A p \in People : Net(expense[e], p) + All(corrections[e], p) = Net(Latest(e), p)
<1>0. expense[e] \in Expense /\ expense[e].payer \in People /\ corrections[e] \in Seq(Correction)
  BY DEF LInv, IInv, LedgerTypeOK, Expense
<1>1. CASE corrections[e] = <<>>
  <2>1. Latest(e) = Snapshot(expense[e])
    BY <1>1 DEF Latest
  <2>2. Latest(e) \in Snapshots /\ Latest(e).payer \in People /\ Balanced(Latest(e))
    BY <1>0, <2>1 DEF Snapshot, Snapshots, Expense, LInv, RowsInv, Balanced
  <2>3. ASSUME NEW p \in People
        PROVE  Net(expense[e], p) + All(corrections[e], p) = Net(Latest(e), p)
    <3>1. All(corrections[e], p) = 0
      BY <1>1, NoneYet
    <3>2. Net(Latest(e), p) = Net(expense[e], p) /\ Net(expense[e], p) \in Int
      BY <1>0, <2>1 DEF Net, Snapshot, Expense
    <3>. QED
      BY <3>1, <3>2
  <2>. QED
    BY <2>2, <2>3
<1>2. CASE corrections[e] # <<>>
  <2>1. Len(corrections[e]) \in DOMAIN corrections[e]
    BY <1>0, <1>2
  <2>2. Latest(e) = corrections[e][Len(corrections[e])].to
        /\ corrections[e][Len(corrections[e])] \in Correction
    BY <1>0, <1>2, <2>1 DEF Latest
  <2>3. Latest(e) \in Snapshots /\ Balanced(Latest(e))
    BY <2>1, <2>2 DEF Correction, LInv, RowsInv
  <2>4. \A p \in People : Net(expense[e], p) + All(corrections[e], p) = Net(Latest(e), p)
    BY <1>2, <2>2 DEF LInv, RoundsAddUp, CorrectionsChain, Deltas, All
  <2>. QED
    BY <2>3, <2>4 DEF Snapshots
<1>. QED
  BY <1>1, <1>2

LEMMA SnapshotSums ==
  ASSUME NEW x \in Snapshots, Balanced(x)
  PROVE  /\ \A p \in People : NetOf(x)[p] \in Int /\ NetOf(x)[p] = Net(x, p)
         /\ SumFunctionOnSet(NetOf(x), People) = 0
<1>1. \A p \in People : NetOf(x)[p] = Net(x, p)
  BY DEF NetOf
<1>2. x.payer \in People /\ x.amount \in Nat /\ x.shares \in [People -> Nat]
  BY DEF Snapshots
<1>. QED
  BY <1>1, <1>2, NetsToNothing

LEMMA CorrectKeeps ==
  ASSUME LInv, IInv', NEW e \in Expenses, Correct(e)
  PROVE  LInv'
<1>0. PICK n \in Amounts, a \in People :
        \E shares \in Splits(n) :
          corrections' = [corrections EXCEPT ![e] = Append(@,
            [to |-> [payer |-> a, amount |-> n, shares |-> shares],
             delta |-> [p \in People |-> Net([payer |-> a, amount |-> n, shares |-> shares], p)
                                           - Net(Latest(e), p)],
             settled |-> FALSE])]
  BY DEF Correct
<1>1. PICK shares \in Splits(n) :
        corrections' = [corrections EXCEPT ![e] = Append(@,
          [to |-> [payer |-> a, amount |-> n, shares |-> shares],
           delta |-> [p \in People |-> Net([payer |-> a, amount |-> n, shares |-> shares], p)
                                         - Net(Latest(e), p)],
           settled |-> FALSE])]
  BY <1>0
<1>2. PICK new : /\ new = [payer |-> a, amount |-> n, shares |-> shares]
                 /\ corrections' = [corrections EXCEPT ![e] = Append(@,
                      [to |-> new, delta |-> [p \in People |-> Net(new, p) - Net(Latest(e), p)],
                       settled |-> FALSE])]
  BY <1>1
<1>. DEFINE old == Latest(e)
            row == [to |-> new, delta |-> [p \in People |-> Net(new, p) - Net(old, p)],
                    settled |-> FALSE]
<1>3. /\ expense[e].status = "SETTLED" /\ Pending = {}
      /\ UNCHANGED <<expense, supplier, payment>>
      /\ corrections'[e] = Append(corrections[e], row)
      /\ \A d \in Expenses \ {e} : corrections'[d] = corrections[d]
  BY <1>2 DEF Correct, NoPending, LInv, IInv, LedgerTypeOK
<1>4. new \in Snapshots /\ Balanced(new)
  BY <1>2, AmountsNat, SplitsType DEF Snapshots, Balanced, Splits
<1>5. /\ old \in Snapshots /\ Balanced(old)
      /\ \A p \in People : Net(expense[e], p) + All(corrections[e], p) = Net(old, p)
  BY <1>3, LatestSays
<1>6. \A p \in People : row.delta[p] = Net(new, p) - Net(old, p)
                        /\ Net(new, p) \in Int /\ Net(old, p) \in Int
  BY <1>4, <1>5, NetType
<1>7. row \in Correction /\ ~row.settled /\ row.to = new
  <2>1. [p \in People |-> Net(new, p) - Net(old, p)] \in [People -> Int]
    BY <1>6
  <2>. QED
    BY <1>4, <2>1 DEF Correction
<1>8. corrections[e] \in Seq(Correction)
  BY DEF LInv, IInv, LedgerTypeOK
<1>. HIDE DEF row, old
<1>9. ASSUME NEW p \in People
      PROVE  /\ All(corrections'[e], p) = All(corrections[e], p) + Net(new, p) - Net(old, p)
             /\ Fresh(corrections'[e], p) = Fresh(corrections[e], p) + Net(new, p) - Net(old, p)
             /\ All(corrections[e], p) \in Int /\ Fresh(corrections[e], p) \in Int
  <2>1. /\ All(corrections'[e], p) = All(corrections[e], p) + row.delta[p]
        /\ Fresh(corrections'[e], p) = Fresh(corrections[e], p) + row.delta[p]
    BY <1>3, <1>7, <1>8, OneMore
  <2>2. All(corrections[e], p) \in Int /\ Fresh(corrections[e], p) \in Int
    BY <1>8, DeltaTypes
  <2>. QED
    BY <1>6, <2>1, <2>2
<1>10. ASSUME NEW p \in People
       PROVE  /\ Says(expense'[e], corrections'[e], p)
                   = Says(expense[e], corrections[e], p) + NetOf(new)[p] - NetOf(old)[p]
              /\ SaysNow(expense'[e], corrections'[e], p)
                   = SaysNow(expense[e], corrections[e], p) + NetOf(new)[p] - NetOf(old)[p]
  <2>1. NetOf(new)[p] = Net(new, p) /\ NetOf(old)[p] = Net(old, p)
    BY <1>4, <1>5, SnapshotSums
  <2>2. Net(expense[e], p) \in Int
    BY Counts DEF LInv, IInv
  <2>3. /\ Says(expense[e], corrections[e], p) = Net(expense[e], p) + All(corrections[e], p)
        /\ Says(expense'[e], corrections'[e], p) = Net(expense[e], p) + All(corrections'[e], p)
        /\ SaysNow(expense[e], corrections[e], p) = 0 + Fresh(corrections[e], p)
        /\ SaysNow(expense'[e], corrections'[e], p) = 0 + Fresh(corrections'[e], p)
    BY <1>3 DEF Says, SaysNow
  <2>. QED
    BY <1>6, <1>9, <2>1, <2>2, <2>3
<1>11. WaitingIsCovered' /\ CurrentExplainsBalance' /\ ZeroSum'
  <2>. DEFINE u == NetOf(new)
              v == NetOf(old)
  <2>1. /\ \A p \in People : u[p] \in Int /\ v[p] \in Int
        /\ SumFunctionOnSet(u, People) = 0 /\ SumFunctionOnSet(v, People) = 0
    BY <1>4, <1>5, SnapshotSums
  <2>2. \A p \in People :
          /\ Says(expense'[e], corrections'[e], p)
               = Says(expense[e], corrections[e], p) + u[p] - v[p]
          /\ SaysNow(expense'[e], corrections'[e], p)
               = SaysNow(expense[e], corrections[e], p) + u[p] - v[p]
    BY <1>10
  <2>3. \A d \in Expenses \ {e} : expense'[d] = expense[d] /\ corrections'[d] = corrections[d]
    BY <1>3
  <2>4. UNCHANGED payment /\ Pending = {}
    BY <1>3
  <2>. HIDE DEF u, v
  <2>. QED
    BY <2>1, <2>2, <2>3, <2>4, RecordStep
<1>12. /\ Len(corrections'[e]) = Len(corrections[e]) + 1
       /\ corrections'[e][Len(corrections'[e])] = row
       /\ \A i \in DOMAIN corrections'[e] :
            \/ corrections'[e][i] = row
            \/ i \in DOMAIN corrections[e] /\ corrections'[e][i] = corrections[e][i]
  BY <1>3, <1>8
<1>13. CorrectionsChain'
  <2>1. ASSUME NEW d \in Expenses, NEW p \in People, corrections'[d] # <<>>
        PROVE  Net(expense'[d], p) + All(corrections'[d], p)
                 = Net(corrections'[d][Len(corrections'[d])].to, p)
    <3>1. CASE d = e
      <4>1. Net(expense[e], p) \in Int
        BY Counts DEF LInv, IInv
      <4>2. Net(expense[e], p) + All(corrections'[e], p) = Net(new, p)
        BY <1>5, <1>6, <1>9, <4>1
      <4>3. corrections'[e][Len(corrections'[e])].to = new
        BY <1>7, <1>12
      <4>. QED
        BY <1>3, <3>1, <4>2, <4>3
    <3>2. CASE d # e
      BY <1>3, <2>1, <3>2 DEF LInv, RoundsAddUp, CorrectionsChain, Deltas, All
    <3>. QED
      BY <3>1, <3>2
  <2>. QED
    BY <2>1 DEF CorrectionsChain, Deltas, All
<1>14. RowsInv'
  <2>1. Pending' = {}
    BY <1>3 DEF Pending
  <2>2. ASSUME NEW d \in Expenses
        PROVE  /\ expense'[d].status # "NONE" => Balanced(expense'[d])
               /\ corrections'[d] # <<>> => expense'[d].status = "SETTLED"
               /\ \A i \in DOMAIN corrections'[d] : Balanced(corrections'[d][i].to)
    <3>1. CASE d = e
      BY <1>3, <1>4, <1>7, <1>12, <3>1 DEF LInv, RowsInv
    <3>2. CASE d # e
      BY <1>3, <3>2 DEF LInv, RowsInv
    <3>. QED
      BY <3>1, <3>2
  <2>. QED
    BY <2>1, <2>2 DEF RowsInv, Balanced
<1>. QED
  BY <1>11, <1>13, <1>14 DEF LInv, RoundsAddUp

\* Settlement moves no balance, and leaves nothing of this round.
LEMMA SettleKeeps ==
  ASSUME LInv, IInv', Settle
  PROVE  LInv'
<1>0. /\ LedgerTypeOK /\ LedgerTypeOK' /\ Pending = {}
      /\ \A e \in Expenses : expense[e] \in Expense /\ corrections[e] \in Seq(Correction)
      /\ \A q \in Payments : payment[q] \in PaymentRow
  BY RowsTyped DEF LInv, IInv, Settle, NoPending
<1>1. \A e \in Expenses :
        /\ expense'[e].payer = expense[e].payer /\ expense'[e].amount = expense[e].amount
        /\ expense'[e].shares = expense[e].shares
        /\ expense'[e].status = IF expense[e].status = "ACTIVE" THEN "SETTLED" ELSE expense[e].status
  BY <1>0 DEF Settle, Open, Expense
<1>2. \A e \in Expenses :
        corrections'[e] = [i \in DOMAIN corrections[e] |-> [corrections[e][i] EXCEPT !.settled = TRUE]]
  BY DEF Settle
<1>3. \A q \in Payments :
        /\ payment'[q].payer = payment[q].payer /\ payment'[q].recipient = payment[q].recipient
        /\ payment'[q].amount = payment[q].amount /\ payment'[q].status = payment[q].status
        /\ payment[q].status = "CONFIRMED" => payment'[q].settled
  BY <1>0 DEF Settle, Settled, Confirmed, PaymentRow
<1>4. ASSUME NEW p \in People
      PROVE  /\ \A e \in Expenses :
                  /\ Net(expense'[e], p) = Net(expense[e], p)
                  /\ All(corrections'[e], p) = All(corrections[e], p)
                  /\ Says(expense'[e], corrections'[e], p) = Says(expense[e], corrections[e], p)
                  /\ SaysNow(expense'[e], corrections'[e], p) = 0
             /\ \A q \in Payments : /\ Moves(payment'[q], p) = Moves(payment[q], p)
                                    /\ MovesNow(payment'[q], p) = 0
  <2>1. ASSUME NEW e \in Expenses
        PROVE  /\ Net(expense'[e], p) = Net(expense[e], p)
               /\ All(corrections'[e], p) = All(corrections[e], p)
               /\ Says(expense'[e], corrections'[e], p) = Says(expense[e], corrections[e], p)
               /\ SaysNow(expense'[e], corrections'[e], p) = 0
    <3>1. Net(expense'[e], p) = Net(expense[e], p)
      BY <1>1 DEF Net
    <3>2. All(corrections'[e], p) = All(corrections[e], p) /\ Fresh(corrections'[e], p) = 0
      <4>1. corrections[e] \in Seq(Correction)
        BY <1>0
      <4>2. corrections'[e] =
              [i \in DOMAIN corrections[e] |-> [corrections[e][i] EXCEPT !.settled = TRUE]]
        BY <1>2
      <4>. QED
        BY <4>1, <4>2, AllSettled
    <3>3. expense'[e].status # "ACTIVE"
          /\ (expense'[e].status \in {"ACTIVE", "SETTLED"} <=> expense[e].status \in {"ACTIVE", "SETTLED"})
      BY <1>1
    <3>. QED
      BY <3>1, <3>2, <3>3 DEF Says, SaysNow
  <2>2. ASSUME NEW q \in Payments
        PROVE  Moves(payment'[q], p) = Moves(payment[q], p) /\ MovesNow(payment'[q], p) = 0
    BY <1>3 DEF Moves, MovesNow, Gives, Gets
  <2>. QED
    BY <2>1, <2>2
<1>5. ASSUME NEW p \in People
      PROVE  Balance(p)' = Balance(p) /\ Current(p)' = 0
  <2>1. Spent(p)' = Spent(p)
    <3>. DEFINE f == [e \in Expenses |-> Says(expense[e], corrections[e], p)]
                g == [e \in Expenses |-> Says(expense'[e], corrections'[e], p)]
    <3>1. \A e \in Expenses : f[e] \in Int /\ g[e] = f[e]
      BY <1>0, <1>4, Counts
    <3>2. Spent(p) = SumFunctionOnSet(f, Expenses) /\ Spent(p)' = SumFunctionOnSet(g, Expenses)
      BY DEF Spent
    <3>. HIDE DEF f, g
    <3>. QED
      BY <3>1, <3>2, Finite, SumSame
  <2>2. Passed(p)' = Passed(p)
    <3>. DEFINE f == [q \in Payments |-> Moves(payment[q], p)]
                g == [q \in Payments |-> Moves(payment'[q], p)]
    <3>1. \A q \in Payments : f[q] \in Int /\ g[q] = f[q]
      BY <1>0, <1>4, Counts
    <3>2. Passed(p) = SumFunctionOnSet(f, Payments) /\ Passed(p)' = SumFunctionOnSet(g, Payments)
      BY DEF Passed
    <3>. HIDE DEF f, g
    <3>. QED
      BY <3>1, <3>2, Finite, SumSame
  <2>3. SpentNow(p)' = 0
    <3>. DEFINE g == [e \in Expenses |-> SaysNow(expense'[e], corrections'[e], p)]
    <3>1. \A e \in Expenses : g[e] = 0
      BY <1>4
    <3>2. SpentNow(p)' = SumFunctionOnSet(g, Expenses)
      BY DEF SpentNow
    <3>. HIDE DEF g
    <3>. QED
      BY <3>1, <3>2, Finite, SumZero
  <2>4. PassedNow(p)' = 0
    <3>. DEFINE g == [q \in Payments |-> MovesNow(payment'[q], p)]
    <3>1. \A q \in Payments : g[q] = 0
      BY <1>4
    <3>2. PassedNow(p)' = SumFunctionOnSet(g, Payments)
      BY DEF PassedNow
    <3>. HIDE DEF g
    <3>. QED
      BY <3>1, <3>2, Finite, SumZero
  <2>5. Balance(p) = Spent(p) + Passed(p)
    BY <1>0, BalancesAre
  <2>6. Balance(p)' = Spent(p)' + Passed(p)' /\ Current(p)' = SpentNow(p)' + PassedNow(p)'
    BY <1>0, BalancesAreNext
  <2>. QED
    BY <2>1, <2>2, <2>3, <2>4, <2>5, <2>6
<1>6. Pending' = {} /\ WaitingIsCovered'
  <2>1. Pending' = {}
    BY <1>0, <1>3 DEF Pending
  <2>. QED
    BY <2>1 DEF WaitingIsCovered
<1>7. CurrentExplainsBalance'
  <2>1. \A p \in People : Balance(p)' = Current(p)'
    BY <1>5 DEF Settle
  <2>. QED
    BY <2>1 DEF CurrentExplainsBalance, Current
<1>8. ZeroSum'
  <2>1. Balances' = Balances
    BY <1>5 DEF Balances
  <2>. QED
    BY <2>1 DEF LInv, ZeroSum
<1>9. ASSUME NEW e \in Expenses
      PROVE  /\ corrections'[e] # <<>> <=> corrections[e] # <<>>
             /\ Len(corrections'[e]) = Len(corrections[e])
             /\ DOMAIN corrections'[e] = DOMAIN corrections[e]
             /\ \A i \in DOMAIN corrections[e] : corrections'[e][i].to = corrections[e][i].to
  <2>1. corrections[e] \in Seq(Correction) /\ corrections'[e] \in Seq(Correction)
    BY <1>0 DEF LedgerTypeOK
  <2>2. \A i \in DOMAIN corrections[e] : corrections[e][i] \in Correction
    BY <2>1
  <2>3. DOMAIN corrections'[e] = DOMAIN corrections[e]
    BY <1>2
  <2>4. ASSUME NEW i \in DOMAIN corrections[e]
        PROVE  corrections'[e][i].to = corrections[e][i].to
    <3>1. corrections'[e][i] = [corrections[e][i] EXCEPT !.settled = TRUE]
      BY <1>2
    <3>2. corrections[e][i] \in Correction
      BY <2>2
    <3>. QED
      BY <3>1, <3>2 DEF Correction
  <2>. QED
    BY <2>1, <2>3, <2>4
<1>10. CorrectionsChain'
  <2>1. ASSUME NEW e \in Expenses, NEW p \in People, corrections'[e] # <<>>
        PROVE  Net(expense'[e], p) + All(corrections'[e], p)
                 = Net(corrections'[e][Len(corrections'[e])].to, p)
    <3>1. corrections[e] # <<>> /\ Len(corrections[e]) \in DOMAIN corrections[e]
      BY <1>0, <1>9, <2>1
    <3>2. corrections'[e][Len(corrections'[e])].to = corrections[e][Len(corrections[e])].to
      BY <1>9, <3>1
    <3>3. Net(expense[e], p) + All(corrections[e], p) = Net(corrections[e][Len(corrections[e])].to, p)
      BY <3>1 DEF LInv, RoundsAddUp, CorrectionsChain, Deltas, All
    <3>. QED
      BY <1>4, <3>2, <3>3
  <2>. QED
    BY <2>1 DEF CorrectionsChain, Deltas, All
<1>11. RowsInv'
  <2>1. ASSUME NEW e \in Expenses
        PROVE  /\ expense'[e].status # "NONE" => Balanced(expense'[e])
               /\ corrections'[e] # <<>> => expense'[e].status = "SETTLED"
               /\ \A i \in DOMAIN corrections'[e] : Balanced(corrections'[e][i].to)
    <3>1. expense'[e].status # "NONE" => Balanced(expense'[e])
      BY <1>1 DEF LInv, RowsInv, Balanced
    <3>2. corrections'[e] # <<>> => expense'[e].status = "SETTLED"
      BY <1>1, <1>9 DEF LInv, RowsInv
    <3>3. \A i \in DOMAIN corrections'[e] : Balanced(corrections'[e][i].to)
      BY <1>9 DEF LInv, RowsInv, Balanced
    <3>. QED
      BY <3>1, <3>2, <3>3
  <2>. QED
    BY <1>6, <2>1 DEF RowsInv, Balanced
<1>. QED
  BY <1>6, <1>7, <1>8, <1>10, <1>11 DEF LInv, RoundsAddUp

-----------------------------------------------------------------------------
\* A step of one transfer.
LEMMA OnePayment ==
  ASSUME LInv, IInv', UNCHANGED <<expense, corrections>>, NEW q \in Payments,
         \A r \in Payments \ {q} : payment'[r] = payment[r],
         payment[q].status \in {"NONE", "PENDING"}, payment'[q].status # "NONE",
         payment'[q].status = "CONFIRMED" => ~payment'[q].settled,
         payment'[q].status = "PENDING" =>
           /\ payment'[q].payer \in People /\ payment'[q].recipient \in People
           /\ payment'[q].payer # payment'[q].recipient
           /\ payment'[q].amount > 0 /\ ~payment'[q].settled
  PROVE  /\ RowsInv' /\ CorrectionsChain' /\ CurrentExplainsBalance'
         /\ \A p \in People : Balance(p)' = Balance(p) + Moves(payment'[q], p)
<1>0. LedgerTypeOK /\ LedgerTypeOK'
  BY DEF LInv, IInv
<1>1. RowsInv'
  <2>1. \A r \in Payments : payment'[r].status = "PENDING" =>
          /\ payment'[r].payer \in People /\ payment'[r].recipient \in People
          /\ payment'[r].payer # payment'[r].recipient
          /\ payment'[r].amount > 0 /\ ~payment'[r].settled
    BY DEF LInv, RowsInv, Pending
  <2>2. \A r \in Pending' : r \in Payments /\ payment'[r].status = "PENDING"
    BY DEF Pending
  <2>. QED
    BY <2>1, <2>2 DEF LInv, RowsInv, Balanced
<1>2. CorrectionsChain'
  BY DEF LInv, RoundsAddUp, CorrectionsChain, Deltas
<1>3. ASSUME NEW p \in People
      PROVE  /\ Balance(p)' = Balance(p) + Moves(payment'[q], p)
             /\ Current(p)' = Current(p) + Moves(payment'[q], p)
  <2>1. /\ Balance(p)' = Balance(p) + Moves(payment'[q], p) - Moves(payment[q], p)
        /\ Current(p)' = Current(p) + MovesNow(payment'[q], p) - MovesNow(payment[q], p)
    BY <1>0, TransferChanges
  <2>2. Moves(payment[q], p) = 0 /\ MovesNow(payment[q], p) = 0
        /\ MovesNow(payment'[q], p) = Moves(payment'[q], p)
    BY DEF Moves, MovesNow
  <2>3. payment'[q].amount \in Nat
    BY <1>0 DEF LedgerTypeOK
  <2>4. Moves(payment'[q], p) \in Int
    BY <2>3 DEF Moves, Gives, Gets
  <2>5. Balance(p) \in Int /\ Current(p) \in Int
    BY <1>0, BalanceTypes
  <2>. QED
    BY <2>1, <2>2, <2>4, <2>5
<1>4. CurrentExplainsBalance'
  <2>1. \A p \in People : Balance(p) = Current(p)
    BY DEF LInv, RoundsAddUp, CurrentExplainsBalance, Current
  <2>2. \A p \in People : Balance(p)' = Current(p)'
    BY <1>3, <2>1
  <2>. QED
    BY <2>2 DEF CurrentExplainsBalance, Current
<1>. QED
  BY <1>1, <1>2, <1>3, <1>4

LEMMA TransferKeeps ==
  ASSUME LInv, IInv', NEW q \in Payments, NEW a \in People, NEW b \in People, NEW n \in Amounts,
         Transfer(q, a, b, n)
  PROVE  LInv'
<1>0. LedgerTypeOK /\ LedgerTypeOK' /\ n \in Nat /\ n > 0
  BY AmountsNat DEF LInv, IInv
<1>1. /\ payment[q].status = "NONE" /\ a # b /\ n <= Owes(a) /\ n <= Claims(b)
      /\ payment'[q] = [status |-> "PENDING", payer |-> a, recipient |-> b, amount |-> n,
                        settled |-> FALSE]
      /\ \A r \in Payments \ {q} : payment'[r] = payment[r]
      /\ UNCHANGED <<expense, corrections>>
  BY <1>0 DEF Transfer, expenseVars, LedgerTypeOK
<1>2. /\ RowsInv' /\ CorrectionsChain' /\ CurrentExplainsBalance'
      /\ \A p \in People : Balance(p)' = Balance(p) + Moves(payment'[q], p)
  BY <1>0, <1>1, OnePayment
<1>3. ASSUME NEW p \in People
      PROVE  /\ Balance(p)' = Balance(p) /\ Balance(p) \in Int
             /\ Sent(Pending, p) \in Int /\ Received(Pending, p) \in Int
             /\ Sent(Pending, p)' = Sent(Pending, p) + (IF p = a THEN n ELSE 0)
             /\ Received(Pending, p)' = Received(Pending, p) + (IF p = b THEN n ELSE 0)
  <2>1. /\ Sent(Pending, p)' = Sent(Pending, p) + Out(payment'[q], p) - Out(payment[q], p)
        /\ Received(Pending, p)' = Received(Pending, p) + In(payment'[q], p) - In(payment[q], p)
    BY <1>0, <1>1, TransferChanges
  <2>2. /\ Out(payment[q], p) = 0 /\ In(payment[q], p) = 0 /\ Moves(payment'[q], p) = 0
        /\ Out(payment'[q], p) = (IF p = a THEN n ELSE 0)
        /\ In(payment'[q], p) = (IF p = b THEN n ELSE 0)
    BY <1>1 DEF Out, In, Moves, Gives, Gets
  <2>3. Balance(p) \in Int /\ Sent(Pending, p) \in Int /\ Received(Pending, p) \in Int
    BY <1>0, BalanceTypes
  <2>. QED
    BY <1>0, <1>2, <2>1, <2>2, <2>3
<1>4. WaitingIsCovered'
  <2>1. ASSUME NEW r \in Payments, payment'[r].status = "PENDING"
        PROVE  /\ Sent(Pending, payment[r].payer)' <= -Balance(payment[r].payer)'
               /\ Received(Pending, payment[r].recipient)' <= Balance(payment[r].recipient)'
    <3>. PICK s, t : s = payment'[r].payer /\ t = payment'[r].recipient
      OBVIOUS
    <3>1. s \in People /\ t \in People
      BY <1>2, <2>1 DEF RowsInv, Pending
    <3>2. Sent(Pending, s)' <= -Balance(s)'
      <4>1. CASE s = a
        BY <1>0, <1>1, <1>3, <3>1, <4>1 DEF Owes
      <4>2. CASE s # a
        <5>1. r # q
          BY <1>1, <4>2
        <5>2. r \in Pending /\ payment[r].payer = s
          BY <1>1, <2>1, <5>1 DEF Pending
        <5>3. Sent(Pending, s) <= -Balance(s)
          BY <5>2 DEF LInv, WaitingIsCovered
        <5>. QED
          BY <1>3, <3>1, <4>2, <5>3
      <4>. QED
        BY <4>1, <4>2
    <3>3. Received(Pending, t)' <= Balance(t)'
      <4>1. CASE t = b
        BY <1>0, <1>1, <1>3, <3>1, <4>1 DEF Claims
      <4>2. CASE t # b
        <5>1. r # q
          BY <1>1, <4>2
        <5>2. r \in Pending /\ payment[r].recipient = t
          BY <1>1, <2>1, <5>1 DEF Pending
        <5>3. Received(Pending, t) <= Balance(t)
          BY <5>2 DEF LInv, WaitingIsCovered
        <5>. QED
          BY <1>3, <3>1, <4>2, <5>3
      <4>. QED
        BY <4>1, <4>2
    <3>. QED
      BY <3>2, <3>3
  <2>. QED
    BY <2>1 DEF WaitingIsCovered, Pending
<1>5. ZeroSum'
  <2>1. Balances' = Balances
    BY <1>3 DEF Balances
  <2>. QED
    BY <2>1 DEF LInv, ZeroSum
<1>. QED
  BY <1>2, <1>4, <1>5 DEF LInv, RoundsAddUp

LEMMA AnswerChanges ==
  ASSUME LInv, IInv', NEW q \in Payments, NEW answer \in {"CONFIRMED", "REJECTED", "CANCELLED"},
         AnswerTransfer(q, answer)
  PROVE  /\ payment[q].status = "PENDING" /\ payment'[q].status = answer
         /\ \A r \in Payments \ {q} : payment'[r] = payment[r]
         /\ payment[q].payer \in People /\ payment[q].recipient \in People
         /\ payment[q].payer # payment[q].recipient /\ payment[q].amount \in Nat
         /\ RowsInv' /\ CorrectionsChain' /\ CurrentExplainsBalance'
         /\ \A p \in People :
              /\ Balance(p)' = Balance(p) + (IF answer = "CONFIRMED" THEN Gives(payment[q], p)
                                                                       - Gets(payment[q], p) ELSE 0)
              /\ Gives(payment[q], p) \in Nat /\ Gets(payment[q], p) \in Nat
              /\ Balance(p) \in Int /\ Sent(Pending, p) \in Int /\ Received(Pending, p) \in Int
              /\ Sent(Pending, p)' = Sent(Pending, p) - Gives(payment[q], p)
              /\ Received(Pending, p)' = Received(Pending, p) - Gets(payment[q], p)
<1>0. LedgerTypeOK /\ LedgerTypeOK'
  BY DEF LInv, IInv
<1>1. /\ payment[q].status = "PENDING"
      /\ payment'[q] = [payment[q] EXCEPT !.status = answer]
      /\ \A r \in Payments \ {q} : payment'[r] = payment[r]
      /\ UNCHANGED <<expense, corrections>>
  BY <1>0 DEF AnswerTransfer, expenseVars, LedgerTypeOK
<1>2. /\ payment[q].payer \in People /\ payment[q].recipient \in People
      /\ payment[q].payer # payment[q].recipient /\ payment[q].amount \in Nat /\ ~payment[q].settled
  BY <1>0, <1>1 DEF LInv, RowsInv, Pending, LedgerTypeOK
<1>3. /\ payment'[q].payer = payment[q].payer /\ payment'[q].recipient = payment[q].recipient
      /\ payment'[q].amount = payment[q].amount /\ ~payment'[q].settled
      /\ payment'[q].status = answer
  <2>1. payment[q] \in PaymentRow
    BY <1>0, RowsTyped
  <2>. QED
    BY <1>1, <1>2, <2>1 DEF PaymentRow
<1>4. /\ RowsInv' /\ CorrectionsChain' /\ CurrentExplainsBalance'
      /\ \A p \in People : Balance(p)' = Balance(p) + Moves(payment'[q], p)
  BY <1>1, <1>3, OnePayment
<1>5. ASSUME NEW p \in People
      PROVE  /\ Balance(p)' = Balance(p) + (IF answer = "CONFIRMED" THEN Gives(payment[q], p)
                                                                      - Gets(payment[q], p) ELSE 0)
             /\ Gives(payment[q], p) \in Nat /\ Gets(payment[q], p) \in Nat
             /\ Balance(p) \in Int /\ Sent(Pending, p) \in Int /\ Received(Pending, p) \in Int
             /\ Sent(Pending, p)' = Sent(Pending, p) - Gives(payment[q], p)
             /\ Received(Pending, p)' = Received(Pending, p) - Gets(payment[q], p)
  <2>1. /\ Sent(Pending, p)' = Sent(Pending, p) + Out(payment'[q], p) - Out(payment[q], p)
        /\ Received(Pending, p)' = Received(Pending, p) + In(payment'[q], p) - In(payment[q], p)
    BY <1>0, <1>1, TransferChanges
  <2>2. /\ Gives(payment'[q], p) = Gives(payment[q], p) /\ Gets(payment'[q], p) = Gets(payment[q], p)
        /\ Gives(payment[q], p) \in Nat /\ Gets(payment[q], p) \in Nat
    BY <1>2, <1>3 DEF Gives, Gets
  <2>3. /\ Out(payment[q], p) = Gives(payment[q], p) /\ In(payment[q], p) = Gets(payment[q], p)
        /\ Out(payment'[q], p) = 0 /\ In(payment'[q], p) = 0
        /\ Moves(payment'[q], p) = (IF answer = "CONFIRMED" THEN Gives(payment[q], p)
                                                                 - Gets(payment[q], p) ELSE 0)
    BY <1>1, <1>3, <2>2 DEF Out, In, Moves
  <2>4. Balance(p) \in Int /\ Sent(Pending, p) \in Int /\ Received(Pending, p) \in Int
    BY <1>0, BalanceTypes
  <2>. QED
    BY <1>4, <2>1, <2>2, <2>3, <2>4
<1>. QED
  BY <1>1, <1>2, <1>3, <1>4, <1>5

LEMMA AnswerKeeps ==
  ASSUME LInv, IInv', NEW q \in Payments, NEW answer \in {"CONFIRMED", "REJECTED", "CANCELLED"},
         AnswerTransfer(q, answer)
  PROVE  LInv'
<1>0. LedgerTypeOK /\ LedgerTypeOK'
  BY DEF LInv, IInv
<1>1. /\ payment[q].status = "PENDING" /\ payment'[q].status = answer
      /\ \A r \in Payments \ {q} : payment'[r] = payment[r]
      /\ payment[q].payer \in People /\ payment[q].recipient \in People
      /\ payment[q].payer # payment[q].recipient /\ payment[q].amount \in Nat
      /\ RowsInv' /\ CorrectionsChain' /\ CurrentExplainsBalance'
  BY AnswerChanges
<1>2. ASSUME NEW p \in People
      PROVE  /\ Balance(p)' = Balance(p) + (IF answer = "CONFIRMED" THEN Gives(payment[q], p)
                                                                      - Gets(payment[q], p) ELSE 0)
             /\ Gives(payment[q], p) \in Nat /\ Gets(payment[q], p) \in Nat
             /\ Balance(p) \in Int /\ Sent(Pending, p) \in Int /\ Received(Pending, p) \in Int
             /\ Sent(Pending, p)' = Sent(Pending, p) - Gives(payment[q], p)
             /\ Received(Pending, p)' = Received(Pending, p) - Gets(payment[q], p)
  BY AnswerChanges
<1>3. WaitingIsCovered'
  <2>1. ASSUME NEW r \in Payments, payment'[r].status = "PENDING"
        PROVE  /\ Sent(Pending, payment[r].payer)' <= -Balance(payment[r].payer)'
               /\ Received(Pending, payment[r].recipient)' <= Balance(payment[r].recipient)'
    <3>. PICK s, t : s = payment'[r].payer /\ t = payment'[r].recipient
      OBVIOUS
    <3>1. s \in People /\ t \in People
      BY <1>1, <2>1 DEF RowsInv, Pending
    <3>2. r # q
      BY <1>1, <2>1
    <3>3. r \in Pending /\ payment[r].payer = s /\ payment[r].recipient = t
      BY <1>1, <2>1, <3>2 DEF Pending
    <3>4. Sent(Pending, s) <= -Balance(s) /\ Received(Pending, t) <= Balance(t)
      BY <3>3 DEF LInv, WaitingIsCovered
    <3>5. Sent(Pending, s)' <= -Balance(s)'
      BY <1>2, <3>1, <3>4
    <3>6. Received(Pending, t)' <= Balance(t)'
      BY <1>2, <3>1, <3>4
    <3>. QED
      BY <3>5, <3>6
  <2>. QED
    BY <2>1 DEF WaitingIsCovered, Pending
<1>4. ZeroSum'
  <2>1. CASE answer = "CONFIRMED"
    <3>. DEFINE u == [p \in People |-> Gives(payment[q], p)]
                v == [p \in People |-> Gets(payment[q], p)]
                a == payment[q].payer
                b == payment[q].recipient
                n == payment[q].amount
    <3>1. /\ a \in People /\ u[a] = n /\ \A p \in People : p # a => u[p] = 0
          /\ b \in People /\ v[b] = n /\ \A p \in People : p # b => v[p] = 0
          /\ n \in Int
      BY <1>1 DEF Gives, Gets
    <3>2. \A p \in People : u[p] \in Int /\ v[p] \in Int /\ Balance(p)' = Balance(p) + u[p] - v[p]
      BY <1>2, <2>1
    <3>. HIDE DEF u, v, a, b, n
    <3>3. SumFunctionOnSet(u, People) = n
      BY <3>1, Finite, SumPoint
    <3>4. SumFunctionOnSet(v, People) = n
      BY <3>1, Finite, SumPoint
    <3>5. SumFunctionOnSet(u, People) = SumFunctionOnSet(v, People) /\ ZeroSum
      BY <3>3, <3>4 DEF LInv
    <3>. QED
      BY <1>0, <3>2, <3>5, ZeroSumKeeps
  <2>2. CASE answer # "CONFIRMED"
    <3>1. Balances' = Balances
      BY <1>2, <2>2 DEF Balances
    <3>. QED
      BY <3>1 DEF LInv, ZeroSum
  <2>. QED
    BY <2>1, <2>2
<1>. QED
  BY <1>1, <1>3, <1>4 DEF LInv, RoundsAddUp

-----------------------------------------------------------------------------
LEMMA InitLInv == LedgerInit => LInv
<1>. SUFFICES ASSUME LedgerInit PROVE LInv
  OBVIOUS
<1>1. IInv /\ LedgerTypeOK
  BY InitIInv DEF IInv
<1>2. /\ \A e \in Expenses : expense[e].status = "NONE" /\ corrections[e] = <<>>
      /\ \A q \in Payments : payment[q].status = "NONE"
  BY DEF LedgerInit, NoExpense, NoPayment
<1>3. Pending = {} /\ RowsInv
  BY <1>2 DEF Pending, RowsInv
<1>4. WaitingIsCovered /\ CorrectionsChain
  BY <1>2, <1>3 DEF WaitingIsCovered, CorrectionsChain
<1>5. ASSUME NEW p \in People
      PROVE  Balance(p) = 0 /\ Current(p) = 0
  <2>1. /\ \A e \in Expenses : /\ Says(expense[e], corrections[e], p) = 0
                               /\ SaysNow(expense[e], corrections[e], p) = 0
        /\ \A q \in Payments : Moves(payment[q], p) = 0 /\ MovesNow(payment[q], p) = 0
    BY <1>2, NoneYet DEF Says, SaysNow, Moves, MovesNow
  <2>2. Spent(p) = 0
    BY <2>1, Finite, SumZero DEF Spent
  <2>3. SpentNow(p) = 0
    BY <2>1, Finite, SumZero DEF SpentNow
  <2>4. Passed(p) = 0
    BY <2>1, Finite, SumZero DEF Passed
  <2>5. PassedNow(p) = 0
    BY <2>1, Finite, SumZero DEF PassedNow
  <2>. QED
    BY <1>1, <2>2, <2>3, <2>4, <2>5, BalancesAre
<1>6. CurrentExplainsBalance
  BY <1>5 DEF CurrentExplainsBalance, Current
<1>7. ZeroSum
  <2>1. \A p \in People : Balances[p] = 0
    BY <1>5 DEF Balances
  <2>. QED
    BY <2>1, Finite, SumZero DEF ZeroSum
<1>. QED
  BY <1>1, <1>3, <1>4, <1>6, <1>7 DEF LInv, RoundsAddUp

LEMMA NextLInv ==
  ASSUME LInv, [LedgerNext]_ledgerVars
  PROVE  LInv'
<1>0. IInv /\ IInv'
  BY NextIInv DEF LInv
<1>1. ASSUME NEW p \in Movers, Join(p) \/ Leave(p)
      PROVE  LInv'
  BY <1>0, <1>1, SameRows DEF Join, Leave, expenseVars
<1>2. ASSUME NEW e \in Expenses, Create(e) \/ Update(e) \/ Cancel(e) \/ Correct(e)
      PROVE  LInv'
  BY <1>0, <1>2, CreateKeeps, UpdateKeeps, CancelKeeps, CorrectKeeps
<1>3. ASSUME NEW e \in Expenses, NEW n \in Amounts, PaySupplier(e, n)
      PROVE  LInv'
  BY <1>0, <1>3, PaySupplierKeeps
<1>4. ASSUME NEW q \in Payments, NEW a \in People, NEW b \in People, NEW n \in Amounts,
             Transfer(q, a, b, n)
      PROVE  LInv'
  BY <1>0, <1>4, TransferKeeps
<1>5. ASSUME NEW q \in Payments, Confirm(q) \/ RejectTransfer(q) \/ CancelTransfer(q)
      PROVE  LInv'
  BY <1>0, <1>5, AnswerKeeps DEF Confirm, RejectTransfer, CancelTransfer
<1>6. CASE UNCHANGED ledgerVars
  BY <1>0, <1>6, SameRows DEF ledgerVars
<1>. QED
  BY <1>0, <1>1, <1>2, <1>3, <1>4, <1>5, <1>6, SettleKeeps DEF LedgerNext

LEMMA LedgerInvariance == LedgerSpec => []LInv
BY InitLInv, NextLInv, PTL DEF LedgerSpec

(* Debts cover all waiting transfers together: the recipient's confirmation *)
(* is never refused for its amount.                                         *)
THEOREM WaitingCovered == LedgerSpec => []WaitingIsCovered
BY LedgerInvariance, PTL DEF LInv

(* The rows of the round explain the balances, and a chain of corrections   *)
(* counts like its last target.                                             *)
THEOREM RoundsSound == LedgerSpec => []RoundsAddUp
BY LedgerInvariance, PTL DEF LInv

-----------------------------------------------------------------------------
(* The ledger implements the book of debts.                                *)

Slip(q) == [id |-> q, from |-> payment[q].payer, to |-> payment[q].recipient,
            amount |-> payment[q].amount]
Slips == {Slip(q) : q \in Pending}

LEMMA BookSum ==
  ASSUME NEW f, NEW S
  PROVE  Book!SumFunctionOnSet(f, S) = SumFunctionOnSet(f, S)
BY DEF SumFunctionOnSet, FoldFunctionOnSet, MapThenFoldSet,
       Book!SumFunctionOnSet, Book!FoldFunctionOnSet, Book!MapThenFoldSet

\* The slips add up like the transfers they stand for.
LEMMA SlipSums ==
  ASSUME LedgerTypeOK, NEW qs \in SUBSET Payments, NEW S, S = {Slip(q) : q \in qs}
  PROVE  Book!Amount(S) = SumFunctionOnSet(Worth, qs)
<1>. DEFINE m == [q \in Payments |-> Slip(q)]
            g == [t \in S |-> t.amount]
<1>1. IsFiniteSet(qs)
  BY Finite, FS_Subset
<1>2. \A q \in qs : Worth[q] \in Int /\ g[m[q]] = Worth[q]
  BY Counts DEF Slip, Worth, LedgerTypeOK
<1>3. \A q, r \in qs : m[q] = m[r] => q = r
  <2>1. ASSUME NEW q \in qs, NEW r \in qs, m[q] = m[r]
        PROVE  q = r
    <3>1. Slip(q) = Slip(r)
      BY <2>1
    <3>. QED
      BY <3>1 DEF Slip
  <2>. QED
    BY <2>1
<1>4. S = {m[q] : q \in qs}
  OBVIOUS
<1>5. Book!Amount(S) = SumFunctionOnSet(g, S)
  BY BookSum DEF Book!Amount
<1>. HIDE DEF m, g
<1>6. SumFunctionOnSet(g, {m[q] : q \in qs}) = SumFunctionOnSet(Worth, qs)
  BY <1>1, <1>2, <1>3, SumImage
<1>. QED
  BY <1>4, <1>5, <1>6

LEMMA BookSums ==
  ASSUME LedgerTypeOK, NEW p \in People
  PROVE  /\ Book!Amount({t \in Slips : t.from = p}) = Sent(Pending, p)
         /\ Book!Amount({t \in Slips : t.to = p}) = Received(Pending, p)
<1>1. {t \in Slips : t.from = p} = {Slip(q) : q \in {q \in Pending : payment[q].payer = p}}
  BY DEF Slips, Slip
<1>2. {t \in Slips : t.to = p} = {Slip(q) : q \in {q \in Pending : payment[q].recipient = p}}
  BY DEF Slips, Slip
<1>3. /\ {q \in Pending : payment[q].payer = p} \in SUBSET Payments
      /\ {q \in Pending : payment[q].recipient = p} \in SUBSET Payments
  BY DEF Pending
<1>. QED
  BY <1>1, <1>2, <1>3, SlipSums DEF Sent, Received

\* The variables of the book.
LEMMA BookVars ==
  /\ Balances = [p \in People |-> Balance(p)]
  /\ Slips = {[id |-> q, from |-> payment[q].payer, to |-> payment[q].recipient,
               amount |-> payment[q].amount] : q \in Pending}
BY DEF Balances, Slips, Slip

LEMMA BookStutters ==
  ASSUME UNCHANGED <<Balances, Slips>>
  PROVE  [Book!Next]_(Book!vars)
BY BookVars DEF Book!vars, Balances, Slips, Slip

\* Any step while no transfer waits, before or after it.
LEMMA BookShares ==
  ASSUME LInv, LInv', Pending = {}, Pending' = {}
  PROVE  [Book!Next]_(Book!vars)
<1>1. Slips = {} /\ Slips' = {}
  BY DEF Slips
<1>2. Balances' \in [People -> Int]
  <2>1. \A p \in People : Balance(p)' \in Int
    BY BalanceTypesNext DEF LInv, IInv
  <2>. QED
    BY <2>1 DEF Balances
<1>3. SumFunctionOnSet(Balances', People) = 0
  BY DEF LInv, ZeroSum
<1>4. Book!Total(Balances') = 0
  BY <1>3, BookSum DEF Book!Total
<1>5. Book!Share
  BY <1>1, <1>2, <1>4 DEF Book!Share, Slips, Slip, Balances
<1>. QED
  BY <1>5 DEF Book!Next

\* A transfer is promised out of a debt and into a claim.
LEMMA BookPromises ==
  ASSUME LInv, LInv', NEW q \in Payments, NEW a \in People, NEW b \in People, NEW n \in Amounts,
         Transfer(q, a, b, n)
  PROVE  [Book!Next]_(Book!vars)
<1>0. LedgerTypeOK /\ LedgerTypeOK' /\ n \in Nat /\ n > 0
  BY AmountsNat DEF LInv, IInv
<1>1. /\ payment[q].status = "NONE" /\ a # b /\ n <= Owes(a) /\ n <= Claims(b)
      /\ payment'[q] = [status |-> "PENDING", payer |-> a, recipient |-> b, amount |-> n,
                        settled |-> FALSE]
      /\ \A r \in Payments \ {q} : payment'[r] = payment[r]
      /\ UNCHANGED <<expense, corrections>>
  BY <1>0 DEF Transfer, expenseVars, LedgerTypeOK
<1>. DEFINE t == [id |-> q, from |-> a, to |-> b, amount |-> n]
<1>2. Slips' = Slips \cup {t} /\ t \notin Slips
  <2>1. Pending' = Pending \cup {q} /\ q \notin Pending
    BY <1>1 DEF Pending
  <2>2. \A r \in Payments : Slip(r)' = IF r = q THEN t ELSE Slip(r)
    BY <1>1 DEF Slip
  <2>3. Pending \subseteq Payments
    BY DEF Pending
  <2>4. Slips' = {Slip(r)' : r \in Pending \cup {q}}
    BY <2>1 DEF Slips
  <2>5. \A s \in Slips : s.id \in Pending
    BY DEF Slips, Slip
  <2>6. t.id = q
    OBVIOUS
  <2>7. t \notin Slips
    BY <2>1, <2>5, <2>6
  <2>. HIDE DEF t
  <2>. QED
    BY <2>1, <2>2, <2>3, <2>4, <2>7 DEF Slips
<1>3. \A p \in People : Balance(p)' = Balance(p)
  <2>1. ASSUME NEW p \in People
        PROVE  Balance(p)' = Balance(p)
    <3>1. Balance(p)' = Balance(p) + Moves(payment'[q], p) - Moves(payment[q], p)
      BY <1>0, <1>1, TransferChanges
    <3>2. Moves(payment'[q], p) = 0 /\ Moves(payment[q], p) = 0
      BY <1>1 DEF Moves
    <3>. QED
      BY <1>0, <3>1, <3>2, BalanceTypes
  <2>. QED
    BY <2>1
<1>4. Balances' = Balances
  BY <1>3 DEF Balances
<1>5. t.amount > 0 /\ t.amount <= Book!Debt(t.from) /\ t.amount <= Book!Claim(t.to)
  <2>1. Book!Debt(a) = Owes(a)
    BY <1>0, BookSums DEF Book!Debt, Slips, Slip, Owes
  <2>2. Book!Claim(b) = Claims(b)
    BY <1>0, BookSums DEF Book!Claim, Slips, Slip, Claims
  <2>. QED
    BY <1>0, <1>1, <2>1, <2>2
<1>6. Book!Promise(t)
  BY <1>2, <1>4, <1>5 DEF Book!Promise, Slips, Slip, Balances
<1>7. t \in Slips' \ Slips
  BY <1>2
<1>8. Book!Next
  BY <1>6, <1>7 DEF Book!Next, Slips, Slip
<1>. QED
  BY <1>8

\* An answered transfer is paid or withdrawn.
LEMMA BookAnswers ==
  ASSUME LInv, LInv', NEW q \in Payments,
         Confirm(q) \/ RejectTransfer(q) \/ CancelTransfer(q)
  PROVE  [Book!Next]_(Book!vars)
<1>0. LedgerTypeOK /\ LedgerTypeOK' /\ IInv'
  BY DEF LInv, IInv
<1>1. PICK answer \in {"CONFIRMED", "REJECTED", "CANCELLED"} :
        AnswerTransfer(q, answer) /\ (answer = "CONFIRMED" => Confirm(q))
  BY DEF Confirm, RejectTransfer, CancelTransfer, AnswerTransfer
<1>2. PICK a, b, n :
        /\ a = payment[q].payer /\ b = payment[q].recipient /\ n = payment[q].amount
        /\ a \in People /\ b \in People /\ a # b /\ n \in Nat
  BY <1>0, <1>1, AnswerChanges
<1>3. /\ payment[q].status = "PENDING" /\ payment'[q].status = answer
      /\ \A r \in Payments \ {q} : payment'[r] = payment[r]
  BY <1>0, <1>1, AnswerChanges
<1>4. ASSUME NEW p \in People
      PROVE  /\ Balance(p)' = Balance(p) + (IF answer = "CONFIRMED" THEN Gives(payment[q], p)
                                                                       - Gets(payment[q], p) ELSE 0)
             /\ Gives(payment[q], p) = (IF p = a THEN n ELSE 0)
             /\ Gets(payment[q], p) = (IF p = b THEN n ELSE 0)
             /\ Balance(p) \in Int /\ Sent(Pending, p) \in Int /\ Received(Pending, p) \in Int
             /\ Sent(Pending, p)' = Sent(Pending, p) - Gives(payment[q], p)
             /\ Received(Pending, p)' = Received(Pending, p) - Gets(payment[q], p)
  <2>1. /\ Gives(payment[q], p) = (IF p = a THEN n ELSE 0)
        /\ Gets(payment[q], p) = (IF p = b THEN n ELSE 0)
    BY <1>2 DEF Gives, Gets
  <2>. QED
    BY <1>0, <1>1, <2>1, AnswerChanges
<1>. DEFINE t == [id |-> q, from |-> a, to |-> b, amount |-> n]
<1>5. t \in Slips /\ Slips' = Slips \ {t}
  <2>1. Pending' = Pending \ {q} /\ q \in Pending
    BY <1>3 DEF Pending
  <2>2. \A r \in Payments \ {q} : Slip(r)' = Slip(r)
    BY <1>3 DEF Slip
  <2>3. Slip(q) = t
    BY <1>2 DEF Slip
  <2>4. \A r \in Payments : Slip(r).id = r
    BY DEF Slip
  <2>5. Slips' = {Slip(r) : r \in Pending \ {q}}
    BY <2>1, <2>2 DEF Slips, Pending
  <2>6. \A r \in Pending \ {q} : Slip(r) # t
    BY <2>3, <2>4 DEF Pending
  <2>. HIDE DEF t
  <2>. QED
    BY <2>1, <2>3, <2>5, <2>6 DEF Slips
<1>6. CASE answer = "CONFIRMED"
  <2>1. \A p \in People : Balance(p)' = Balance(p) + (IF p = a THEN n ELSE 0) - (IF p = b THEN n ELSE 0)
    BY <1>2, <1>4, <1>6
  <2>2. Balance(a)' <= 0 /\ Balance(b)' >= 0
    <3>1. n <= Owes(a) + n /\ n <= Claims(b) + n
      BY <1>1, <1>2, <1>6 DEF Confirm, Confirmable
    <3>2. Sent(Pending, a)' >= 0 /\ Received(Pending, b)' >= 0
      BY <1>0, <1>2, BalanceTypesNext
    <3>3. /\ Balance(a) \in Int /\ Sent(Pending, a) \in Int
          /\ Balance(b) \in Int /\ Received(Pending, b) \in Int
      BY <1>2, <1>4
    <3>4. Sent(Pending, a) <= -Balance(a) /\ Received(Pending, b) <= Balance(b)
      BY <1>2, <3>1, <3>3 DEF Owes, Claims
    <3>5. Sent(Pending, a)' = Sent(Pending, a) - n /\ Received(Pending, b)' = Received(Pending, b) - n
      BY <1>2, <1>4
    <3>6. Balance(a)' = Balance(a) + n /\ Balance(b)' = Balance(b) - n
      BY <1>2, <2>1, <3>3
    <3>. QED
      BY <1>2, <3>2, <3>3, <3>4, <3>5, <3>6
  <2>3. Balances' = [Balances EXCEPT ![a] = @ + n, ![b] = @ - n]
    <3>. DEFINE c == [Balances EXCEPT ![a] = @ + n, ![b] = @ - n]
    <3>1. Balances \in [People -> Int] /\ Balances' \in [People -> Int]
      BY <1>0, BalanceTypes, BalanceTypesNext DEF Balances
    <3>2. ASSUME NEW p \in People
          PROVE  c[p] = Balances'[p]
      <4>1. Balances[p] = Balance(p) /\ Balances'[p] = Balance(p)' /\ Balance(p) \in Int
        BY <1>4 DEF Balances
      <4>2. c[p] = IF p = a THEN Balances[p] + n ELSE IF p = b THEN Balances[p] - n ELSE Balances[p]
        BY <1>2, <3>1
      <4>. QED
        BY <1>2, <2>1, <4>1, <4>2
    <3>3. c \in [People -> Int]
      BY <1>2, <3>1
    <3>. QED
      BY <3>1, <3>2, <3>3
  <2>4. t.from = a /\ t.to = b /\ t.amount = n /\ Balances'[a] = Balance(a)' /\ Balances'[b] = Balance(b)'
    BY <1>2 DEF Balances
  <2>5. Balances'[t.from] <= 0 /\ Balances'[t.to] >= 0
    BY <2>2, <2>4
  <2>6. Balances' = [Balances EXCEPT ![t.from] = @ + t.amount, ![t.to] = @ - t.amount]
    BY <2>3, <2>4
  <2>. HIDE DEF t
  <2>7. Book!Pay(t)
    BY <1>5, <2>5, <2>6 DEF Book!Pay, Balances, Slips, Slip
  <2>. QED
    BY <1>5, <2>7 DEF Book!Next, Slips, Slip
<1>7. CASE answer # "CONFIRMED"
  <2>1. \A p \in People : Balance(p)' = Balance(p)
    BY <1>4, <1>7
  <2>2. Balances' = Balances
    BY <2>1 DEF Balances
  <2>. HIDE DEF t
  <2>3. Book!Withdraw(t)
    BY <1>5, <2>2 DEF Book!Withdraw, Balances, Slips, Slip
  <2>. QED
    BY <1>5, <2>3 DEF Book!Next, Slips, Slip
<1>. QED
  BY <1>6, <1>7

LEMMA BookInit == LedgerInit => Book!Init
<1>. SUFFICES ASSUME LedgerInit PROVE Book!Init
  OBVIOUS
<1>1. LInv
  BY InitLInv
<1>2. \A q \in Payments : payment[q].status = "NONE"
  BY DEF LedgerInit, NoPayment
<1>3. Slips = {}
  BY <1>2 DEF Slips, Pending
<1>4. \A p \in People : Balance(p) = 0
  <2>1. \A p \in People : Spent(p) = 0 /\ Passed(p) = 0
    <3>1. ASSUME NEW p \in People
          PROVE  Spent(p) = 0 /\ Passed(p) = 0
      <4>1. \A e \in Expenses : Says(expense[e], corrections[e], p) = 0
        BY NoneYet DEF LedgerInit, NoExpense, Says
      <4>2. \A q \in Payments : Moves(payment[q], p) = 0
        BY <1>2 DEF Moves
      <4>3. Spent(p) = 0
        BY <4>1, Finite, SumZero DEF Spent
      <4>4. Passed(p) = 0
        BY <4>2, Finite, SumZero DEF Passed
      <4>. QED
        BY <4>3, <4>4
    <3>. QED
      BY <3>1
  <2>. QED
    BY <1>1, <2>1, BalancesAre DEF LInv, IInv
<1>5. Balances = [p \in People |-> 0]
  BY <1>4 DEF Balances
<1>. QED
  BY <1>3, <1>5 DEF Book!Init, Balances, Slips, Slip

LEMMA BookStep ==
  ASSUME LInv, LInv', [LedgerNext]_ledgerVars
  PROVE  [Book!Next]_(Book!vars)
<1>0. LedgerTypeOK /\ LedgerTypeOK' /\ IInv'
  BY DEF LInv, IInv
<1>1. ASSUME UNCHANGED <<expense, corrections, payment>>
      PROVE  [Book!Next]_(Book!vars)
  <2>1. UNCHANGED <<Balances, Slips>>
    BY <1>1 DEF Balances, Slips, Slip, Balance, Nets, Booked, Corrected, Deltas, Sent, Received,
                Worth, Confirmed, Pending
  <2>. QED
    BY <2>1, BookStutters
<1>2. ASSUME NEW p \in Movers, Join(p) \/ Leave(p)
      PROVE  [Book!Next]_(Book!vars)
  BY <1>1, <1>2 DEF Join, Leave, expenseVars
<1>3. ASSUME NEW e \in Expenses, Create(e) \/ Update(e) \/ Cancel(e) \/ Correct(e)
      PROVE  [Book!Next]_(Book!vars)
  <2>1. Pending = {} /\ UNCHANGED payment
    BY <1>3 DEF Create, Update, Cancel, Correct, NoPending
  <2>2. Pending' = {}
    BY <2>1 DEF Pending
  <2>. QED
    BY <2>1, <2>2, BookShares
<1>4. ASSUME NEW e \in Expenses, NEW n \in Amounts, PaySupplier(e, n)
      PROVE  [Book!Next]_(Book!vars)
  <2>1. \A p \in People : Balance(p)' = Balance(p)
    BY <1>0, <1>4, PaySupplierChanges
  <2>2. UNCHANGED <<Balances, Slips>>
    BY <1>4, <2>1 DEF PaySupplier, Balances, Slips, Slip, Pending
  <2>. QED
    BY <2>2, BookStutters
<1>5. CASE Settle
  <2>1. Pending = {}
    BY <1>5 DEF Settle, NoPending
  <2>2. Pending' = {}
    BY <1>0, <1>5, <2>1, RowsTyped DEF Settle, Settled, Pending, PaymentRow
  <2>. QED
    BY <2>1, <2>2, BookShares
<1>6. ASSUME NEW q \in Payments, NEW a \in People, NEW b \in People, NEW n \in Amounts,
             Transfer(q, a, b, n)
      PROVE  [Book!Next]_(Book!vars)
  BY <1>6, BookPromises
<1>7. ASSUME NEW q \in Payments, Confirm(q) \/ RejectTransfer(q) \/ CancelTransfer(q)
      PROVE  [Book!Next]_(Book!vars)
  BY <1>7, BookAnswers
<1>8. CASE UNCHANGED ledgerVars
  BY <1>1, <1>8 DEF ledgerVars
<1>. QED
  BY <1>2, <1>3, <1>4, <1>5, <1>6, <1>7, <1>8 DEF LedgerNext

(* The ledger is a book of debts: balances that always sum to zero, records *)
(* that change only while no transfer waits, and transfers that never pay   *)
(* more than is owed.                                                       *)
THEOREM Implements == LedgerSpec => KeepsBook
<1>1. LedgerInit => Book!Init
  BY BookInit
<1>2. LInv /\ LInv' /\ [LedgerNext]_ledgerVars => [Book!Next]_(Book!vars)
  BY BookStep
<1>. QED
  BY <1>1, <1>2, LedgerInvariance, PTL DEF LedgerSpec, KeepsBook, Book!Spec
=============================================================================
