---------------------------- MODULE MCCommunity ----------------------------
(* Two people: the connection between them with what is said in it, or with   *)
(* the visits arranged in it; the requests by which they found houses, join   *)
(* and leave them; the votes on the sharing of costs in one house; or the box *)
(* in which one of them writes a message.  Each behaviour explores one of     *)
(* these; the others stand still.                                             *)
EXTENDS Contacts, HouseMembership, CostSharing, Composer, TLC

VARIABLE focus

requestVars == <<invite, call, userLock, houseLock>>

Everyone == {{u, w} : u, w \in People}

\* Visits are explored from connected pairs: the others cannot arrange any.
FocusInit ==
  /\ focus \in {"talk", "visits", "requests", "months", "defaults", "composer"}
  /\ ContactsInit /\ MembershipInit /\ SharingInit /\ ComposerInit
  /\ focus = "visits" => \A p \in Pairs : link[p] # None
  /\ focus \notin {"talk", "visits"} => \A p \in Pairs : link[p] = None

\* Costs are shared by the votes of a month and one DEFAULT rule, or by two
\* DEFAULT rules.
FocusNext ==
  /\ \/ /\ focus \in {"talk", "visits"}
        /\ LinkNext \/ (focus = "talk" /\ TalkNext) \/ (focus = "visits" /\ VisitNext)
        /\ UNCHANGED <<houseVars, sharingVars, composerVars>>
     \/ /\ focus = "requests"
        /\ MembershipNext
        /\ UNCHANGED <<contactVars, sharingVars, composerVars>>
     \/ /\ focus \in {"months", "defaults"}
        /\ SharingNext
        /\ IF focus = "months" THEN period'[<<"DEFAULT", 2>>] = None ELSE sharing' = sharing
        /\ UNCHANGED <<contactVars, requestVars, composerVars>>
     \/ /\ focus = "composer"
        /\ ComposerNext
        /\ UNCHANGED <<contactVars, houseVars, sharingVars>>
  /\ UNCHANGED focus

Symmetry == Permutations(People) \cup Permutations(Texts) \cup Permutations(Calls)

FocusSpec == FocusInit /\ [][FocusNext]_<<contactVars, houseVars, sharingVars, composerVars, focus>>
=============================================================================
