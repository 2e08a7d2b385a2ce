----------------------------- MODULE MCFairness -----------------------------
(* What ends under the fairness of the server, although much of it fails: the *)
(* requests by which the members of one house come and go, the votes on the   *)
(* sharing of its costs, which the scheduler counts, or the AI credits of one *)
(* user.  Each behaviour explores one of them.                                *)
EXTENDS HouseMembership, CostSharing, AiCredits, TLC

CONSTANTS u1, p1

VARIABLE focus

requestVars == <<invite, call, userLock, houseLock>>

Everyone == {{u, w} : u, w \in People}
OneBuyer == [p \in Packs |-> u1]

FocusInit ==
  /\ focus \in {"requests", "votes", "credits"}
  /\ MembershipInit /\ SharingInit /\ Init

FocusNext ==
  /\ \/ focus = "requests" /\ MembershipNext /\ UNCHANGED <<sharingVars, vars>>
     \/ focus = "votes" /\ SharingNext /\ UNCHANGED <<requestVars, vars>>
     \/ focus = "credits" /\ Next /\ UNCHANGED <<houseVars, sharingVars>>
  /\ UNCHANGED focus

FocusSpec ==
  /\ FocusInit
  /\ [][FocusNext]_<<houseVars, sharingVars, vars, focus>>
  /\ MembershipFairness /\ Fairness
  /\ focus # "votes" \/ SharingFairness
=============================================================================
