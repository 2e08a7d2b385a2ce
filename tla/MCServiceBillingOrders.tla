----------------------- MODULE MCServiceBillingOrders -----------------------
(* Two orders of one listing: either two handlers work on them at the same    *)
(* time while the listing stands still, or one handler at a time while the    *)
(* listing is closed and posted again.                                        *)
EXTENDS MCServiceBilling, FiniteSets

VARIABLE focus

Busy == {r \in Requests : task[r] # Idle}

Concurrent ==
  /\ focus = "handlers"
  /\ \A l \in Listings : listing'[l] = [listing[l] EXCEPT !.boost = listing'[l].boost]
OneAtATime == focus = "rounds" /\ Cardinality(Busy') <= 1

FocusSpec ==
  /\ Init /\ focus \in {"handlers", "rounds"}
  /\ [][Next /\ (Concurrent \/ OneAtATime) /\ UNCHANGED focus]_<<vars, focus>>
=============================================================================
