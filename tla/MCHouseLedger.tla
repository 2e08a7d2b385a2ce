--------------------------- MODULE MCHouseLedger ---------------------------
(* Instances of HouseLedger for TLC.  A behaviour explores either the book of *)
(* one round of two expenses and two transfers among three people who stay,   *)
(* or the history of one bill and one transfer over several rounds while      *)
(* people come and go.                                                        *)
EXTENDS HouseLedger, TLC

CONSTANTS a, b, c

VARIABLE focus

FocusInit ==
  /\ focus \in {"book", "history"}
  /\ LedgerInit
  /\ \A p \in People : presence[p] = "in" <=> focus = "book" \/ p = a

\* One amount, paid at once; nobody comes, goes or corrects.
BookBound ==
  /\ UNCHANGED <<houseVars, supplier, corrections>>
  /\ \A e \in Expenses : expense'[e].amount \in {0, 1} /\ expense'[e].paid = expense'[e].amount
  /\ \A q \in Payments : payment'[q].amount \in {0, 1}

One(rows, none) == \A r, t \in DOMAIN rows : none \notin {rows[r], rows[t]} => r = t
HistoryBound == One(expense', NoExpense) /\ One(payment', NoPayment)

FocusNext ==
  /\ LedgerNext
  /\ IF focus = "book" THEN BookBound ELSE HistoryBound
  /\ UNCHANGED focus

FocusSpec == FocusInit /\ [][FocusNext]_<<ledgerVars, focus>>

Symmetry == Permutations(Expenses) \cup Permutations(Payments)
=============================================================================
