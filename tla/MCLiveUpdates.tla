--------------------------- MODULE MCLiveUpdates ---------------------------
(* A tab that shows at most two messages, one to a page, of which the user   *)
(* sends the second: a page is missing, stale or late in every order.  Two   *)
(* changes and one fault happen.                                             *)
EXTENDS LiveUpdates

Second == {2}
=============================================================================
