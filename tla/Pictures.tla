------------------------------ MODULE Pictures ------------------------------
(* The photos of a listing and the avatar of a profile: rows in the database  *)
(* and assets in Cloudinary, which no transaction covers together.  An upload *)
(* precedes its row, and a deletion follows it; each row is guarded by the    *)
(* version of its listing, or by updatedAt of its profile.                    *)
EXTENDS Naturals, FiniteSets

CONSTANTS
  Images,      \* publicIds of uploads: random, so each is used once
  Handlers,    \* requests under way
  MaxPhotos,   \* MAX_PHOTOS
  MaxEdits,    \* bound on changes of version or updatedAt
  MaxMishaps   \* bound on mishaps

ASSUME PicturesAssumption == MaxPhotos \in Nat

Albums == {"listing", "profile"}

VARIABLES
  rows,     \* rows[a]: listing_photos, or avatarPublicId of the profile
  version,  \* version, or updatedAt
  removed,  \* the draft of the listing was deleted
  stored,   \* assets in Cloudinary
  late,     \* uploads that were given up and are still on their way there
  used,     \* publicIds that were taken
  task,     \* task[h]: a request between two of its steps
  astray,   \* history: what a mishap happened to
  mishaps

pictureVars == <<rows, version, removed, stored, late, used, task, astray, mishaps>>

Idle == [stage |-> "idle"]
\* An avatar replaces the one that was read.
Replaced(a) == IF a = "profile" THEN rows[a] ELSE {}

\* The version, or updatedAt, in the WHERE of the update
Faulty_Unchanged(h) == task[h].album = "profile" \/ task[h].version = version[task[h].album]
Unchanged(h) == task[h].version = version[task[h].album]

\* A process dies, a clean-up fails, an upload that was given up goes on, or the
\* answer to a COMMIT is lost.
Mishap(images) ==
  /\ mishaps < MaxMishaps /\ mishaps' = mishaps + 1
  /\ astray' = astray \cup images
NoMishap == UNCHANGED <<astray, mishaps>>

\* deleteImage(): a failure is only logged.
CleanUp(h, images) ==
  task' = [task EXCEPT ![h] =
    IF images = {} THEN Idle ELSE [stage |-> "deleting", images |-> images]]

\* uploadPhoto and uploadAvatar: what is read before the upload.
BeginUpload(h, a, i) ==
  /\ task[h] = Idle /\ i \notin used
  /\ a = "listing" => ~removed /\ Cardinality(rows[a]) < MaxPhotos
  /\ used' = used \cup {i}
  /\ task' = [task EXCEPT ![h] =
       [stage |-> "uploading", album |-> a, image |-> i, version |-> version[a],
        old |-> Replaced(a)]]
  /\ UNCHANGED <<rows, version, removed, stored, late>> /\ NoMishap

Uploaded(h) ==
  /\ task[h].stage = "uploading"
  /\ stored' = stored \cup {task[h].image}
  /\ task' = [task EXCEPT ![h].stage = "saving"]
  /\ UNCHANGED <<rows, version, removed, late, used>> /\ NoMishap

\* An error, or no answer for 45 s: the upload did or did not arrive, or it still
\* may.  The clean-up follows at once, and finding nothing is a success too.
UploadFails(h) ==
  /\ task[h].stage = "uploading"
  /\ \/ stored' \in {stored, stored \cup {task[h].image}} /\ NoMishap /\ UNCHANGED late
     \/ late' = late \cup {task[h].image} /\ Mishap({task[h].image}) /\ UNCHANGED stored
  /\ CleanUp(h, {task[h].image})
  /\ UNCHANGED <<rows, version, removed, used>>

ArrivesLate(i) ==
  /\ i \in late /\ late' = late \ {i}
  /\ stored' = stored \cup {i}
  /\ UNCHANGED <<rows, version, removed, used, task>> /\ NoMishap

\* The rows with the new photo or avatar, and without the removed one.
Added(t) ==
  [rows EXCEPT ![t.album] = (IF t.album = "listing" THEN @ ELSE {}) \cup {t.image}]
Without(t) ==
  [rows EXCEPT ![t.album] = IF t.album = "listing" THEN @ \ t.old ELSE {}]

\* The transaction commits.  If its answer is lost it counts as failed: a new
\* asset is deleted although a row names it, and an old one is not.
Commits(h, new, done, failed, ids) ==
  /\ rows' = new
  /\ version' = [version EXCEPT ![task[h].album] = @ + 1]
  /\ \/ CleanUp(h, done) /\ NoMishap
     \/ CleanUp(h, failed) /\ Mishap(ids)

\* The row, on the album that was read; otherwise the asset is deleted again, as
\* it is when the transaction fails for any other reason.
SaveRow(h) ==
  /\ task[h].stage = "saving"
  /\ LET t == task[h] IN
     \/ /\ Unchanged(h) /\ (t.album = "listing" => Cardinality(rows["listing"]) < MaxPhotos)
        /\ Commits(h, Added(t), t.old, {t.image}, {t.image} \cup t.old)
     \/ CleanUp(h, {t.image}) /\ NoMishap /\ UNCHANGED <<rows, version>>
  /\ UNCHANGED <<removed, stored, late, used>>

\* removePhoto and removeAvatar: the row is found first, then removed on the
\* version of the page, or of that read.
BeginRemove(h, a, i) ==
  /\ task[h] = Idle
  /\ i \in rows[a]
  /\ task' = [task EXCEPT ![h] =
       [stage |-> "removing", album |-> a, image |-> i, version |-> version[a], old |-> {i}]]
  /\ UNCHANGED <<rows, version, removed, stored, late, used>> /\ NoMishap

RemoveRow(h) ==
  /\ task[h].stage = "removing"
  /\ LET t == task[h] IN
     \/ Unchanged(h) /\ Commits(h, Without(t), t.old, {}, t.old)
     \/ CleanUp(h, {}) /\ NoMishap /\ UNCHANGED <<rows, version>>
  /\ UNCHANGED <<removed, stored, late, used>>

\* deleteDraft: all rows in one transaction, then all assets.
DeleteDraft(h) ==
  /\ task[h] = Idle
  /\ ~removed /\ removed' = TRUE
  /\ rows' = [rows EXCEPT !["listing"] = {}]
  /\ version' = [version EXCEPT !["listing"] = @ + 1]
  /\ \/ CleanUp(h, rows["listing"]) /\ NoMishap
     \/ CleanUp(h, {}) /\ Mishap(rows["listing"])
  /\ UNCHANGED <<stored, late, used>>

\* Assets are deleted at once, or some remain.
DeleteAssets(h) ==
  /\ task[h].stage = "deleting"
  /\ \/ stored' = stored \ task[h].images /\ NoMishap
     \/ \E left \in SUBSET task[h].images :
          stored' = stored \ (task[h].images \ left) /\ Mishap(left)
  /\ task' = [task EXCEPT ![h] = Idle]
  /\ UNCHANGED <<rows, version, removed, late, used>>

\* What a request that is under way will still delete, or save.
Pending(h) ==
  CASE task[h].stage = "deleting" -> task[h].images
    [] task[h].stage \in {"uploading", "saving"} -> {task[h].image}
    [] OTHER -> {}

\* An upload may be on its way.
ProcessDies(h) ==
  /\ task[h] # Idle
  /\ Mishap(Pending(h))
  /\ late' = IF task[h].stage = "uploading" THEN late \cup Pending(h) ELSE late
  /\ task' = [task EXCEPT ![h] = Idle]
  /\ UNCHANGED <<rows, version, removed, stored, used>>

\* The listing or the profile is edited.
EditAlbum(a) ==
  /\ version[a] < MaxEdits
  /\ version' = [version EXCEPT ![a] = @ + 1]
  /\ UNCHANGED <<rows, removed, stored, late, used, task>> /\ NoMishap

-----------------------------------------------------------------------------

PicturesInit ==
  /\ rows = [a \in Albums |-> {}]
  /\ version = [a \in Albums |-> 0]
  /\ removed = FALSE
  /\ stored = {} /\ late = {} /\ used = {}
  /\ task = [h \in Handlers |-> Idle]
  /\ astray = {} /\ mishaps = 0

PicturesNext ==
  \/ \E h \in Handlers :
       \/ \E a \in Albums, i \in Images : BeginUpload(h, a, i) \/ BeginRemove(h, a, i)
       \/ Uploaded(h) \/ UploadFails(h) \/ SaveRow(h) \/ RemoveRow(h)
       \/ DeleteDraft(h) \/ DeleteAssets(h) \/ ProcessDies(h)
  \/ \E a \in Albums : EditAlbum(a)
  \/ \E i \in Images : ArrivesLate(i)

PicturesSpec == PicturesInit /\ [][PicturesNext]_pictureVars

-----------------------------------------------------------------------------
(* Properties.                                                                *)

RowTasks ==
  [stage : {"uploading", "saving", "removing"}, album : Albums, image : Images, version : Nat,
   old : SUBSET Images]

PicturesTypeOK ==
  /\ rows \in [Albums -> SUBSET Images]
  /\ version \in [Albums -> Nat] /\ removed \in BOOLEAN
  /\ stored \subseteq Images /\ late \subseteq Images /\ used \subseteq Images
  /\ task \in [Handlers ->
       {Idle} \cup RowTasks \cup [stage : {"deleting"}, images : SUBSET Images]]
  /\ astray \subseteq Images /\ mishaps \in Nat

Shown == UNION {rows[a] : a \in Albums}
Attended == UNION {Pending(h) : h \in Handlers}

\* Whatever other requests do: nobody is shown a picture that is gone, and no
\* request is about to delete one that is shown; an asset without a row is being
\* taken care of.  Only a picture that a mishap happened to may be missing or left
\* behind; no mishap spreads to another picture.
PicturesAreStored ==
  /\ Shown \subseteq stored \cup astray
  /\ \A h \in Handlers : Pending(h) \cap Shown \subseteq astray
  /\ stored \subseteq Shown \cup Attended \cup astray
  /\ Cardinality(rows["listing"]) <= MaxPhotos
=============================================================================
