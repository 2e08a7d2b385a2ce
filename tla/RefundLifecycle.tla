-------------------------- MODULE RefundLifecycle --------------------------
(***************************************************************************)
(* What a refund promises (modules/billing/README.md, "Hoan tien"): it     *)
(* opens once, is rejected only while the gateway has returned no money    *)
(* for it, returns money only while it is open, and is completed at most   *)
(* once and only on money that really went back.  ServiceBilling uses the  *)
(* same four states; RefundWorkflow implements them.                       *)
(***************************************************************************)
CONSTANTS
  Refunds,
  Manual      \* refunds paid by a bank transfer of the staff

VARIABLES
  stage,      \* stage[f]: "NONE", "OPEN", "REJECTED", "COMPLETED"
  returned,   \* refunds the gateway carried out
  elsewhere   \* refunds whose payment was returned outside the program

vars == <<stage, returned, elsewhere>>

Init ==
  /\ stage \in [Refunds -> {"NONE", "OPEN"}]
  /\ returned = {}
  /\ elsewhere = {}

Step(f, from, to) ==
  /\ stage[f] = from
  /\ stage' = [stage EXCEPT ![f] = to]
  /\ UNCHANGED <<returned, elsewhere>>

Open(f) == Step(f, "NONE", "OPEN")
Reject(f) == f \notin returned /\ Step(f, "OPEN", "REJECTED")
Complete(f) == f \in Manual \cup returned \cup elsewhere /\ Step(f, "OPEN", "COMPLETED")

Return(f) ==
  /\ f \notin Manual \cup returned \cup elsewhere
  /\ stage[f] = "OPEN"
  /\ returned' = returned \cup {f}
  /\ UNCHANGED <<stage, elsewhere>>

ReturnElsewhere(f) ==
  /\ f \notin Manual \cup returned
  /\ elsewhere' = elsewhere \cup {f}
  /\ UNCHANGED <<stage, returned>>

Next ==
  \E f \in Refunds :
    Open(f) \/ Reject(f) \/ Complete(f) \/ Return(f) \/ ReturnElsewhere(f)

Spec == Init /\ [][Next]_vars
=============================================================================
