---------------------------- MODULE HouseSummary ----------------------------
(* The AI summary of one month of a house, kept for one user: it is generated *)
(* outside any transaction, under a lease that may lapse, paid for by one AI  *)
(* credit, and carries notes that the user writes in several tabs.            *)
(*                                                                            *)
(* A summary is named by the generation that wrote it.  Reading the report,   *)
(* the provider and the reservation of the credit fail or succeed as one; how *)
(* credits are counted is the matter of AiCredits.  Whether the user may see  *)
(* the house is a failure like any other.                                     *)
EXTENDS Absent, Naturals, FiniteSets, Sequences, SequencesExt

CONSTANTS
  Tabs,         \* pages of the user that show this month
  Generations,  \* requests to generate, by their generationId
  Saves,        \* requests to save notes
  Remarks,        \* notes that the user may type
  MaxFaults     \* bound on answers lost, failures, crashes and lapses

ASSUME SummaryAssumption == None \notin Generations \cup Remarks \cup Saves /\ MaxFaults \in Nat

VARIABLES
  row,     \* ai_house_summaries; version, notes and summary as the views show them
  lease,   \* generationId and whether generatingUntil is ahead
  use,     \* use[g]: the credit of generation g
  gen,     \* gen[g]: how far it is, whether it regenerates, its answer
  save,    \* save[s]: a request to save notes, and its answer
  page,    \* page[t]: what tab t shows and waits for
  faults,
  begun, kept  \* history: generations that took the lease; those that were saved

serverVars == <<row, lease, use>>
requestVars == <<gen, save>>
history == <<begun, kept>>
summaryVars == <<serverVars, requestVars, page, faults, history>>

Empty == [summary |-> None, notes |-> None, version |-> 0]
Failed == [failed |-> TRUE]
Asked == [asked |-> TRUE]
Free == [holder |-> None, live |-> FALSE]
\* Notes start as the highlights of the first summary.
Highlights == "highlights"

Fault == faults < MaxFaults /\ faults' = faults + 1

Waits(t) == page[t].act # None
\* dirty
Typed(t) == page[t].shown # Empty /\ page[t].typed \notin {None, page[t].shown.notes}

-----------------------------------------------------------------------------
(* generate()                                                                 *)

\* The button: not while loading, saving, dirty or after an error.
AskSummary(t, g) ==
  /\ page[t].loaded /\ ~Waits(t) /\ ~Typed(t) /\ ~page[t].error
  /\ gen[g].stage = "none"
  /\ gen' = [gen EXCEPT ![g] =
       [stage |-> "asked", regenerate |-> page[t].shown # Empty, answer |-> None]]
  /\ page' = [page EXCEPT ![t].act = g]
  /\ UNCHANGED <<serverVars, save, faults, history>>

\* The first transaction: what there is, a refusal (AI_BUSY), or the lease.
Cached(g) == row.summary # None /\ ~gen[g].regenerate

BeginGenerate(g) ==
  /\ gen[g].stage = "asked"
  /\ IF Cached(g) \/ lease.live
     THEN /\ gen' = [gen EXCEPT ![g].stage = "done",
                                ![g].answer = IF Cached(g) THEN row ELSE Failed]
          /\ UNCHANGED <<lease, use, begun>>
     ELSE /\ lease' = [holder |-> g, live |-> TRUE]
          /\ use' = [use EXCEPT ![g] = "PENDING"]
          /\ gen' = [gen EXCEPT ![g].stage = "calling"]
          /\ begun' = Append(begun, g)
  /\ UNCHANGED <<row, save, page, faults, kept>>

\* saved.count of the update that names the generationId
Faulty_Holds(g) == TRUE
Holds(g) == lease.holder = g

\* complete(): the credit and the summary are written together or not at all.
NotesKept(notes) == IF row.summary = None THEN Highlights ELSE notes

Complete(g) ==
  /\ gen[g].stage = "calling"
  /\ IF use[g] = "PENDING" /\ Holds(g)
     THEN /\ use' = [use EXCEPT ![g] = "COMPLETED"]
          /\ row' = [summary |-> g, notes |-> NotesKept(row.notes), version |-> row.version + 1]
          /\ lease' = Free
          /\ kept' = Append(kept, g)
          /\ gen' = [gen EXCEPT ![g].stage = "saved"]
     ELSE /\ gen' = [gen EXCEPT ![g].stage = "failed"]
          /\ UNCHANGED <<serverVars, kept>>
  /\ UNCHANGED <<save, page, faults, begun>>

\* The credit is refused, the provider fails, or the user may not see the house.
GenerateFails(g) ==
  /\ Fault
  /\ gen[g].stage = "calling"
  /\ gen' = [gen EXCEPT ![g].stage = "failed"]
  /\ UNCHANGED <<serverVars, save, page, history>>

\* release() in the catch of the provider
Released(g) == IF use[g] = "PENDING" THEN "FAILED" ELSE use[g]
Release(g) ==
  /\ gen[g].stage = "failed"
  /\ use' = [use EXCEPT ![g] = Released(g)]
  /\ gen' = [gen EXCEPT ![g].stage = "leaving", ![g].answer = Failed]
  /\ UNCHANGED <<row, lease, save, page, faults, history>>

\* get(), which may answer with a summary that is newer
GetSaved(g) ==
  /\ gen[g].stage = "saved"
  /\ gen' = [gen EXCEPT ![g].stage = "leaving", ![g].answer = row]
  /\ UNCHANGED <<serverVars, save, page, faults, history>>

\* finally: its own lease, and no other
Finally(g) ==
  /\ gen[g].stage = "leaving"
  /\ gen' = [gen EXCEPT ![g].stage = "done"]
  /\ lease' = IF lease.holder = g THEN Free ELSE lease
  /\ UNCHANGED <<row, use, save, page, faults, history>>

\* The process dies: the lease and the credit stay until two minutes are over.
GeneratorDies(g) ==
  /\ Fault
  /\ gen[g].stage \in {"asked", "calling", "saved", "failed", "leaving"}
  /\ gen' = [gen EXCEPT ![g].stage = "done", ![g].answer = Failed]
  /\ UNCHANGED <<serverVars, save, page, history>>

SummaryLapses ==
  /\ Fault
  /\ lease.live /\ lease' = [lease EXCEPT !.live = FALSE]
  /\ UNCHANGED <<row, use, requestVars, page, history>>

\* recover(), at the next use of AI: the call may still be running.
Recover(g) ==
  /\ use[g] = "PENDING"
  /\ gen[g].stage = "done" \/ lease # [holder |-> g, live |-> TRUE]
  /\ use' = [use EXCEPT ![g] = Released(g)]
  /\ UNCHANGED <<row, lease, requestVars, page, faults, history>>

-----------------------------------------------------------------------------
(* The notes.                                                                 *)

\* The text area is not disabled while the saved summary is loaded again.
Type(t, text) ==
  /\ page[t].shown # Empty /\ ~Waits(t)
  /\ page' = [page EXCEPT ![t].typed = text]
  /\ UNCHANGED <<serverVars, requestVars, faults, history>>

\* basis: what the tab showed, for the properties; the request has its version.
AskSave(t, s) ==
  /\ Typed(t) /\ ~Waits(t)
  /\ save[s].stage = "none"
  /\ save' = [save EXCEPT ![s] =
       [stage |-> "sent", notes |-> page[t].typed, basis |-> page[t].shown, answer |-> None]]
  /\ page' = [page EXCEPT ![t].act = s, ![t].error = FALSE]
  /\ UNCHANGED <<serverVars, gen, faults, history>>

Faulty_SameVersion(s) == save[s].basis.version <= row.version
SameVersion(s) == save[s].basis.version = row.version

SaveNotes(s) ==
  /\ save[s].stage = "sent"
  /\ LET written == [row EXCEPT !.notes = save[s].notes, !.version = @ + 1] IN
     IF SameVersion(s)
     THEN row' = written /\ save' = [save EXCEPT ![s].stage = "done", ![s].answer = written]
     ELSE save' = [save EXCEPT ![s].stage = "done", ![s].answer = Failed] /\ UNCHANGED row
  /\ UNCHANGED <<lease, use, gen, page, faults, history>>

-----------------------------------------------------------------------------
(* What the tab makes of answers.                                             *)

\* Opened, or "load the saved summary again" after an error.
Load(t) ==
  /\ ~Waits(t) /\ page[t].error
  /\ page' = [page EXCEPT ![t].load = Asked]
  /\ UNCHANGED <<serverVars, requestVars, faults, history>>

LoadAnswered(t) ==
  /\ page[t].load = Asked
  /\ page' = [page EXCEPT ![t].load = row]
  /\ UNCHANGED <<serverVars, requestVars, faults, history>>

\* What was typed stays; an answer that was overtaken by a save shows old notes.
LoadReceived(t) ==
  /\ page[t].load \notin {None, Asked}
  /\ page' = [page EXCEPT ![t].shown = page[t].load, ![t].load = None,
                          ![t].error = FALSE, ![t].loaded = TRUE]
  /\ UNCHANGED <<serverVars, requestVars, faults, history>>

LoadFails(t) ==
  /\ Fault
  /\ page[t].load # None
  /\ page' = [page EXCEPT ![t].load = None, ![t].error = TRUE, ![t].loaded = TRUE]
  /\ UNCHANGED <<serverVars, requestVars, history>>

SummaryReceived(t, g) ==
  /\ page[t].act = g /\ gen[g].stage = "done"
  /\ page' = [page EXCEPT ![t].act = None,
       ![t].shown = IF gen[g].answer = Failed THEN @ ELSE gen[g].answer,
       ![t].error = @ /\ gen[g].answer = Failed]
  /\ UNCHANGED <<serverVars, requestVars, faults, history>>

SaveReceived(t, s) ==
  /\ page[t].act = s /\ save[s].stage = "done"
  /\ page' = [page EXCEPT ![t].act = None,
       ![t].shown = IF save[s].answer = Failed THEN @ ELSE save[s].answer,
       ![t].typed = IF save[s].answer = Failed THEN @ ELSE None,
       ![t].error = save[s].answer = Failed]
  /\ UNCHANGED <<serverVars, requestVars, faults, history>>

\* No answer in time: the request may still be carried out.
TabGivesUp(t) ==
  /\ Fault
  /\ Waits(t)
  /\ page' = [page EXCEPT ![t].act = None, ![t].error = @ \/ page[t].act \in Saves]
  /\ UNCHANGED <<serverVars, requestVars, history>>

-----------------------------------------------------------------------------

SummaryInit ==
  /\ row = Empty /\ lease = Free
  /\ use = [g \in Generations |-> "none"]
  /\ gen = [g \in Generations |-> [stage |-> "none", regenerate |-> FALSE, answer |-> None]]
  /\ save = [s \in Saves |-> [stage |-> "none", notes |-> None, basis |-> Empty, answer |-> None]]
  /\ page = [t \in Tabs |-> [shown |-> Empty, typed |-> None, load |-> Asked, act |-> None,
                             error |-> FALSE, loaded |-> FALSE]]
  /\ faults = 0 /\ begun = <<>> /\ kept = <<>>

Generating(g) ==
  \/ BeginGenerate(g) \/ Complete(g) \/ GenerateFails(g) \/ Release(g)
  \/ GetSaved(g) \/ Finally(g) \/ GeneratorDies(g) \/ Recover(g)

Reading(t) ==
  \/ Load(t) \/ LoadAnswered(t) \/ LoadReceived(t) \/ LoadFails(t) \/ TabGivesUp(t)
  \/ \E text \in Remarks : Type(t, text)
  \/ \E g \in Generations : AskSummary(t, g) \/ SummaryReceived(t, g)
  \/ \E s \in Saves : AskSave(t, s) \/ SaveReceived(t, s)

SummaryNext ==
  \/ \E g \in Generations : Generating(g)
  \/ \E s \in Saves : SaveNotes(s)
  \/ \E t \in Tabs : Reading(t)
  \/ SummaryLapses

SummarySpec == SummaryInit /\ [][SummaryNext]_summaryVars

-----------------------------------------------------------------------------
(* Properties.                                                                *)

\* What the server may answer with, and the rows of requests and tabs.
Views == [summary : Generations \cup {None}, notes : Remarks \cup {Highlights, None}, version : Nat]
GenRows ==
  [stage : {"none", "asked", "calling", "saved", "failed", "leaving", "done"},
   regenerate : BOOLEAN, answer : Views \cup {None, Failed}]
SaveRows ==
  [stage : {"none", "sent", "done"}, notes : Remarks \cup {None}, basis : Views,
   answer : Views \cup {None, Failed}]
PageRows ==
  [shown : Views, typed : Remarks \cup {None}, load : Views \cup {None, Asked},
   act : Generations \cup Saves \cup {None}, error : BOOLEAN, loaded : BOOLEAN]

\* The types of the saved summary, its lease and credits, of requests and tabs.
SummaryTypeOK ==
  /\ row \in Views
  /\ lease \in [holder : Generations \cup {None}, live : BOOLEAN]
  /\ use \in [Generations -> {"none", "PENDING", "COMPLETED", "FAILED"}]
  /\ gen \in [Generations -> GenRows] /\ save \in [Saves -> SaveRows]
  /\ page \in [Tabs -> PageRows]
  /\ faults \in Nat /\ begun \in Seq(Generations) /\ kept \in Seq(Generations)

Place(g) == CHOOSE i \in DOMAIN begun : begun[i] = g

\* A credit is spent exactly for a summary that was saved; a generation that ends
\* late never replaces the summary of a later one; and whoever asked again only
\* because the first answer was lost pays once.
SummariesArePaid ==
  /\ {g \in Generations : use[g] = "COMPLETED"} = Range(kept)
  /\ row.summary = IF kept = <<>> THEN None ELSE Last(kept)
  /\ \A i, j \in DOMAIN kept : i < j => Place(kept[i]) < Place(kept[j])
  /\ Cardinality({g \in Range(kept) : ~gen[g].regenerate}) <= 1

\* Notes are replaced only by a tab that showed the summary and the notes which
\* are there: no regeneration, stale tab or late request loses them.
NotesAreKept ==
  [][row.summary # None /\ row'.notes # row.notes =>
       \E s \in Saves : save[s].stage = "sent" /\ save'[s].stage = "done"
                        /\ save[s].basis = row]_summaryVars
=============================================================================
