------------------------------- MODULE Absent -------------------------------
(* The value of a column that is null, in every module that needs one, so     *)
(* that they can be composed.                                                 *)
CONSTANT None
=============================================================================
