------------------------------ MODULE Composer ------------------------------
(* The box in which a message is written, with pictures, files or a recording *)
(* of the microphone, and its requests: an answer may be lost although the    *)
(* message was stored, and a request may arrive after the box gave it up.     *)
(*                                                                            *)
(* Two people, or a house, store a message under the clientId of the sender   *)
(* (Contacts).  Pictures and files are one kind of attachment, and limits on  *)
(* their number and size only refuse them.                                    *)
EXTENDS Absent, Naturals, Sequences

CONSTANTS
  Written,          \* what the user may write
  Attachments,    \* what the user may attach
  Recordings,     \* what the user may record
  MaxAttachments, \* bound on changes of the attachments
  MaxSends,       \* bound on requests
  MaxDrops        \* bound on answers and requests that are lost or refused

ASSUME ComposerAssumption ==
  /\ None \notin Written \cup Attachments \cup Recordings
  /\ Attachments \cap Recordings = {}
  /\ MaxAttachments \in Nat /\ MaxSends \in Nat /\ MaxDrops \in Nat

VARIABLES
  mounted,    \* the page with the box is open
  text, media, mediaVersion,
  draft,      \* clientId, text and mediaVersion of the last request
  pending,    \* the request whose answer is awaited
  requests,   \* requests on their way
  sends,      \* so far
  drops,      \* so far
  microphone, \* "off", "asked" (the browser asks the user) or "on"
  recorder,   \* "none", "starting", "recording", "stopping"
  stored,     \* the messages of the sender, by clientId
  drafts,     \* history: what each clientId was made for
  emptied     \* history: messages that were answered

contentVars == <<text, media, mediaVersion>>
sendVars == <<draft, pending, requests, sends, drafts, emptied>>
micVars == <<microphone, recorder>>
composerVars == <<mounted, contentVars, sendVars, drops, micVars, stored>>

Content == [text |-> text, media |-> media]
\* What the inputs and buttons are disabled for.
Quiet == mounted /\ pending = None /\ recorder = "none"

Drop == drops < MaxDrops /\ drops' = drops + 1

\* Each change of the attachments makes another draft.
Faulty_Attach(chosen) ==
  media' = chosen /\ UNCHANGED mediaVersion
Attach(chosen) ==
  /\ mediaVersion < MaxAttachments
  /\ media' = chosen /\ mediaVersion' = mediaVersion + 1

Write(x) ==
  /\ Quiet
  /\ text' = x
  /\ UNCHANGED <<mounted, media, mediaVersion, sendVars, drops, micVars, stored>>

\* addImages, chooseFiles; chooseAudio replaces what was recorded.
Choose(a) ==
  /\ Quiet
  /\ a \notin media
  /\ Attach(IF a \in Recordings THEN (media \ Recordings) \cup {a} ELSE media \cup {a})
  /\ UNCHANGED <<mounted, text, sendVars, drops, micVars, stored>>

\* Also while something is being recorded.
Remove(a) ==
  /\ mounted /\ pending = None
  /\ a \in media /\ Attach(media \ {a})
  /\ UNCHANGED <<mounted, text, sendVars, drops, micVars, stored>>

-----------------------------------------------------------------------------
(* The microphone: toggleRecording().                                         *)

StartRecording ==
  /\ Quiet
  /\ recorder' = "starting" /\ microphone' = "asked"
  /\ UNCHANGED <<mounted, contentVars, sendVars, drops, stored>>

\* Granted, and the recorder starts; or one of them fails, or the page is gone.
MicrophoneGranted ==
  /\ microphone = "asked"
  /\ \/ mounted /\ microphone' = "on" /\ recorder' = "recording"
     \/ microphone' = "off" /\ recorder' = "none"
  /\ UNCHANGED <<mounted, contentVars, sendVars, drops, stored>>

\* The button, a minute, or an error of the recorder.
StopRecording ==
  /\ recorder = "recording"
  /\ recorder' = "stopping" /\ microphone' = "off"
  /\ UNCHANGED <<mounted, contentVars, sendVars, drops, stored>>

\* onstop: nothing or too much was recorded, or it replaces what was there.
Recorded ==
  /\ recorder = "stopping"
  /\ recorder' = "none"
  /\ \/ UNCHANGED <<media, mediaVersion>>
     \/ \E r \in Recordings : Attach((media \ Recordings) \cup {r})
  /\ UNCHANGED <<mounted, text, sendVars, drops, microphone, stored>>

-----------------------------------------------------------------------------
(* send()                                                                     *)

\* "Reuse the same ID on retry after a lost response"
SameDraft == draft # None /\ draft.text = text /\ draft.mediaVersion = mediaVersion

Submit ==
  /\ Quiet
  /\ text # None \/ media # {}
  /\ sends < MaxSends /\ sends' = sends + 1
  /\ LET id == IF SameDraft THEN draft.clientId ELSE Len(drafts) + 1
         new == [text |-> text, mediaVersion |-> mediaVersion, emptied |-> emptied]
         request == [clientId |-> id, content |-> Content, number |-> sends]
     IN  /\ draft' = [clientId |-> id, text |-> text, mediaVersion |-> mediaVersion]
         /\ drafts' = IF SameDraft THEN drafts ELSE Append(drafts, new)
         /\ pending' = [request |-> request, answer |-> None]
         /\ requests' = requests \cup {request}
  /\ UNCHANGED <<mounted, contentVars, drops, emptied, micVars, stored>>

Answers(r, answer) ==
  pending' = IF pending # None /\ pending.request = r
             THEN [pending EXCEPT !.answer = answer] ELSE pending

\* The server stores it, knows it, or answers MESSAGE_CHANGED.
Arrives(r) ==
  /\ requests' = requests \ {r}
  /\ IF r.clientId \notin DOMAIN stored
     THEN /\ stored' = [i \in DOMAIN stored \cup {r.clientId} |->
                         IF i = r.clientId THEN r.content ELSE stored[i]]
          /\ Answers(r, "stored")
     ELSE /\ UNCHANGED stored
          /\ Answers(r, IF stored[r.clientId] = r.content THEN "stored" ELSE "changed")
  /\ UNCHANGED <<mounted, contentVars, draft, sends, drops, drafts, emptied, micVars>>

Refused(r) ==
  /\ Drop
  /\ requests' = requests \ {r}
  /\ Answers(r, "refused") \/ UNCHANGED pending
  /\ UNCHANGED <<mounted, contentVars, draft, sends, drafts, emptied, micVars, stored>>

\* The box is emptied, or keeps everything to be sent again.
Answered ==
  /\ mounted /\ pending # None /\ pending.answer # None
  /\ pending' = None
  /\ IF pending.answer = "stored"
     THEN text' = None /\ media' = {} /\ draft' = None /\ emptied' = emptied + 1
     ELSE UNCHANGED <<text, media, draft, emptied>>
  /\ UNCHANGED <<mounted, mediaVersion, requests, sends, drops, drafts, micVars, stored>>

GivesUp ==
  /\ Drop
  /\ mounted /\ pending # None
  /\ pending' = None
  /\ UNCHANGED <<mounted, contentVars, draft, requests, sends, drafts, emptied, micVars, stored>>

\* The page is left: the recorder stops and its result is dropped.
Unmount ==
  /\ mounted /\ mounted' = FALSE
  /\ microphone' = IF microphone = "on" THEN "off" ELSE microphone
  /\ recorder' = IF recorder = "starting" THEN recorder ELSE "none"
  /\ pending' = None
  /\ UNCHANGED <<contentVars, draft, requests, sends, drops, drafts, emptied, stored>>

-----------------------------------------------------------------------------

ComposerInit ==
  /\ mounted = TRUE
  /\ text = None /\ media = {} /\ mediaVersion = 0
  /\ draft = None /\ pending = None /\ requests = {} /\ sends = 0 /\ drops = 0
  /\ microphone = "off" /\ recorder = "none"
  /\ stored = <<>> /\ drafts = <<>> /\ emptied = 0

ComposerNext ==
  \/ \E x \in Written \cup {None} : Write(x)
  \/ \E a \in Attachments \cup Recordings : Choose(a) \/ Remove(a)
  \/ StartRecording \/ MicrophoneGranted \/ StopRecording \/ Recorded
  \/ Submit \/ Answered \/ GivesUp \/ Unmount
  \/ \E r \in requests : Arrives(r) \/ Refused(r)

ComposerSpec == ComposerInit /\ [][ComposerNext]_composerVars

-----------------------------------------------------------------------------
(* Properties.                                                                *)

Contents == [text : Written \cup {None}, media : SUBSET (Attachments \cup Recordings)]
RequestRows == [clientId : Nat, content : Contents, number : Nat]
DraftRows == [clientId : Nat, text : Written \cup {None}, mediaVersion : Nat]

\* The absence of a draft is no draft.
ASSUME DraftsAssumption == None \notin DraftRows

\* The types of the state of the box, of its requests and of the messages stored.
ComposerTypeOK ==
  /\ mounted \in BOOLEAN /\ Content \in Contents /\ mediaVersion \in Nat
  /\ draft \in DraftRows \cup {None}
  /\ pending \in [request : RequestRows, answer : {None, "stored", "changed", "refused"}] \cup {None}
  /\ requests \in SUBSET RequestRows /\ sends \in Nat /\ drops \in Nat
  /\ microphone \in {"off", "asked", "on"}
  /\ recorder \in {"none", "starting", "recording", "stopping"}
  /\ \E ids \in SUBSET Nat : stored \in [ids -> Contents]
  /\ drafts \in Seq([text : Written \cup {None}, mediaVersion : Nat, emptied : Nat])
  /\ emptied \in Nat

\* A retry is never taken for another message: the same clientId, the same content.
RetriesAgree ==
  \A r \in requests : r.clientId \in DOMAIN stored => stored[r.clientId] = r.content

\* What is sent again unchanged keeps its clientId, under which it is stored once.
StoredOnce ==
  \A i \in DOMAIN drafts : i + 1 \in DOMAIN drafts => drafts[i] # drafts[i + 1]

\* The box still holds what the awaited request carries: emptying it loses nothing.
NothingIsLost == pending # None => pending.request.content = Content

\* The page says so whenever the microphone is on.
MicrophoneIsShown == microphone = "on" => mounted /\ recorder = "recording"

\* Whatever answers are lost and however late requests arrive, what is written or
\* recorded is stored once, or still there.
ComposerIsSound == RetriesAgree /\ StoredOnce /\ NothingIsLost /\ MicrophoneIsShown
=============================================================================
