----------------------------- MODULE Community -----------------------------
(* The people of Roomora.  The modules about what they do with each other     *)
(* extend this one, so that they can be composed.                             *)
EXTENDS Absent

CONSTANT People  \* the users, or the participants of a house

ASSUME NobodyAssumption == None \notin People
=============================================================================
