-------------------------- MODULE MCRefundWorkflow --------------------------
(* Instances of RefundWorkflow for TLC.  A behaviour explores the refunds of  *)
(* one focus: a transfer by hand or a MoMo refund, each beside a request from *)
(* before the window was enforced.                                            *)
EXTENDS RefundWorkflow, TLC
CONSTANTS m, g, h, s1, s2, a1, a2

\* A bank reference typed in capitals and in small letters.
Capitals == [r \in References |-> "FT123456"]

VARIABLE focus

FocusInit == focus \in {{m, h} \cap Refunds, {g, h} \cap Refunds} \ {{}} /\ Init
FocusNext ==
  /\ Next
  /\ \A f \in Refunds \ focus : status[f] = status'[f] /\ outside[f] = outside'[f]
  /\ UNCHANGED focus
FocusSpec == FocusInit /\ [][FocusNext]_<<vars, focus>> /\ Fairness
=============================================================================
