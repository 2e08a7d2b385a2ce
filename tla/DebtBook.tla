------------------------------ MODULE DebtBook ------------------------------
(***************************************************************************)
(* What the shared ledger of a house promises its people                   *)
(* (modules/expenses/README.md): the balances always sum to zero; only a   *)
(* change of the records moves them freely, and never while a transfer     *)
(* waits for its recipient; a transfer between two housemates is promised  *)
(* only out of a debt and into a claim, and pays back no more than either. *)
(***************************************************************************)
EXTENDS Integers, FiniteSetsExt

CONSTANTS People, Payments

VARIABLES
  balance,  \* balance[p]: what p is owed, negative if p owes
  promised  \* promised transfers: records [id, from, to, amount]

vars == <<balance, promised>>

Amount(transfers) == SumFunctionOnSet([t \in transfers |-> t.amount], transfers)
Total(b) == SumFunctionOnSet(b, People)
Debt(p) == -balance[p] - Amount({t \in promised : t.from = p})
Claim(p) == balance[p] - Amount({t \in promised : t.to = p})

Init == balance = [p \in People |-> 0] /\ promised = {}

\* An expense or a correction is recorded, changed or cancelled.
Share ==
  /\ promised = {}
  /\ balance' \in [People -> Int]
  /\ Total(balance') = 0
  /\ UNCHANGED promised

Promise(t) ==
  /\ t.amount > 0
  /\ t.amount <= Debt(t.from)
  /\ t.amount <= Claim(t.to)
  /\ promised' = promised \cup {t}
  /\ UNCHANGED balance

Withdraw(t) == promised' = promised \ {t} /\ UNCHANGED balance

\* The recipient confirms: neither a debtor becomes a creditor nor the reverse.
Pay(t) ==
  /\ promised' = promised \ {t}
  /\ balance' = [balance EXCEPT ![t.from] = @ + t.amount, ![t.to] = @ - t.amount]
  /\ balance'[t.from] <= 0 /\ balance'[t.to] >= 0

Next ==
  \/ Share
  \/ \E t \in promised' \ promised : Promise(t)
  \/ \E t \in promised : Withdraw(t) \/ Pay(t)

Spec == Init /\ [][Next]_vars
=============================================================================
