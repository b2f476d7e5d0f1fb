----------------------------- MODULE ObjectStorage -----------------------------
(***************************************************************************)
(* ObjectStorageService: the objects of one job in the store, the rows of  *)
(* media_assets and artifacts that name them, and the three procedures     *)
(* that change both, with no transaction around the two: the completion of *)
(* an upload by API threads, the publication of artifacts by workers, and  *)
(* the purge of a deleted job.                                             *)
(*                                                                         *)
(* Every call to the store and every commit may raise, before or after it  *)
(* took effect, and every process may die.  An object and the row that     *)
(* names it have the same id here: the call that makes it and its kind.    *)
(* All completions are of one upload session and all publications of one   *)
(* version, so that they collide where they can.                           *)
(***************************************************************************)
EXTENDS Naturals, FiniteSets

CONSTANTS
  Completers,   \* calls of POST .../uploads/{upload_id}/complete
  Publishers,   \* calls of publish_artifacts
  Kinds,        \* the kinds of artifacts of a publication, but the manifest
  MaxRaises,    \* bound on calls that raise
  MaxCrashes    \* bound on calls whose process dies

Calls == Completers \cup Publishers

ASSUME CallsAssumption == Completers \cap Publishers = {} /\ "client" \notin Calls
ASSUME KindsAssumption ==
  Kinds # {} /\ {"upload", "media", "manifest"} \cap Kinds = {}
ASSUME BoundsAssumption == MaxRaises \in Nat /\ MaxCrashes \in Nat

VARIABLES
  job,          \* analysis_jobs: deleted_at set, purge_after past, objects_purged_at set
  session,      \* upload_sessions.status
  expired,      \* expires_at of the session is past
  temporary,    \* the objects under temporary/<workspace>/<job>/
  formal,       \* the objects under workspaces/<workspace>/jobs/<job>/
  rows,         \* the rows of media_assets and artifacts
  calls,        \* where each call is and which keys it holds
  purge,        \* where purge_due_jobs is and which keys it has listed
  raises, crashes,   \* how much of each bound is used
  late,         \* a call raised after its rows were committed
  litter        \* a call raised or died and could not remove what it had made

vars == <<job, session, expired, temporary, formal, rows, calls, purge, raises,
          crashes, late, litter>>

-----------------------------------------------------------------------------

Upload == [by |-> "client", kind |-> "upload"]
Media(c) == [by |-> c, kind |-> "media"]
Draft(p, k) == [by |-> p, kind |-> k]
Manifest(p) == [by |-> p, kind |-> "manifest"]

Ids == [by : Calls \cup {"client"},
        kind : Kinds \cup {"upload", "media", "manifest"}]

CallState ==
  [pc : {"idle", "check", "copy", "put", "commit", "tidy", "mark", "undo",
         "ended"},
   todo : SUBSET Kinds, temps : SUBSET Ids, finals : SUBSET Ids]

NewCall == [pc |-> "idle", todo |-> Kinds, temps |-> {}, finals |-> {}]

Init ==
  /\ job = "live" /\ session = "none" /\ expired = FALSE
  /\ temporary = {} /\ formal = {} /\ rows = {}
  /\ calls = [c \in Calls |-> NewCall]
  /\ purge = [pc |-> "idle", listed |-> {}]
  /\ raises = 0 /\ crashes = 0 /\ late = FALSE /\ litter = FALSE

At(c, pc) == calls[c].pc = pc
Goto(c, pc) == calls' = [calls EXCEPT ![c].pc = pc]

Fine == UNCHANGED <<raises, crashes, late, litter>>

Raise == raises < MaxRaises /\ raises' = raises + 1 /\ UNCHANGED crashes

\* A write that raises may have taken effect all the same; nobody knows the
\* key then.
PutRaises(before, after, id) ==
  /\ Raise
  /\ after \in {before, before \cup {id}}
  /\ litter' = (litter \/ id \in after)
  /\ UNCHANGED late

\* So may a removal.
RemoveRaises(before, after, id) ==
  /\ Raise
  /\ after \in {before, before \ {id}}
  /\ litter' = (litter \/ id \in after)

-----------------------------------------------------------------------------
(* init_upload and complete_upload, and the client between them            *)

\* The job must exist, deleted or not.
Issue ==
  /\ job \in {"live", "deleted"} /\ session = "none"
  /\ session' = "ISSUED"
  /\ UNCHANGED <<job, expired, temporary, formal, rows, calls, purge>> /\ Fine

\* The client uses the presigned URL, once or again.
ClientPut ==
  /\ session # "none" /\ ~expired
  /\ temporary' = temporary \cup {Upload}
  /\ UNCHANGED <<job, session, expired, formal, rows, calls, purge>> /\ Fine

Expire ==
  /\ session # "none" /\ ~expired /\ expired' = TRUE
  /\ UNCHANGED <<job, session, temporary, formal, rows, calls, purge>> /\ Fine

\* The handler finds the job and an ISSUED session.
FindSession(c) ==
  /\ At(c, "idle") /\ job = "live" /\ session = "ISSUED"
  /\ Goto(c, "check")
  /\ UNCHANGED <<job, session, expired, temporary, formal, rows, purge>> /\ Fine

\* The checks of the ticket and of the bytes, which may not match the request.
Verify(c) ==
  /\ At(c, "check")
  /\ \/ ~expired /\ Upload \in temporary /\ Goto(c, "copy")
     \/ Goto(c, "ended")
  /\ UNCHANGED <<job, session, expired, temporary, formal, rows, purge>> /\ Fine

\* Fault: a copy that failed is not noticed.
CopyUnnoticed(c) ==
  /\ At(c, "copy")
  /\ formal' = IF Upload \in temporary THEN formal \cup {Media(c)} ELSE formal
  /\ calls' = [calls EXCEPT ![c].pc = "commit", ![c].finals = {Media(c)}]
  /\ UNCHANGED <<job, session, expired, temporary, rows, purge>> /\ Fine

\* The copy to the final key; nothing is undone if it raises, as it does when
\* another completion has removed the upload.
CopyMedia(c) ==
  /\ At(c, "copy")
  /\ \/ /\ Upload \in temporary
        /\ formal' = formal \cup {Media(c)}
        /\ calls' = [calls EXCEPT ![c].pc = "commit",
                                  ![c].finals = {Media(c)}]
        /\ Fine
     \/ /\ Upload \notin temporary
        /\ Goto(c, "ended") /\ UNCHANGED formal /\ Fine
     \/ /\ Upload \in temporary /\ PutRaises(formal, formal', Media(c))
        /\ Goto(c, "ended")
  /\ UNCHANGED <<job, session, expired, temporary, rows, purge>>

\* The commit of rows new: if it raises they may be there all the same.
CommitRaises(c, new) ==
  /\ Raise
  /\ rows' \in {rows, rows \cup new}
  /\ late' = (late \/ rows' # rows)
  /\ Goto(c, "undo") /\ UNCHANGED litter

InsertAsset(c) ==
  /\ c \in Completers /\ At(c, "commit")
  /\ \/ rows' = rows \cup {Media(c)} /\ Goto(c, "tidy") /\ Fine
     \/ CommitRaises(c, {Media(c)})
  /\ UNCHANGED <<job, session, expired, temporary, formal, purge>>

\* Still inside the try block: if the upload cannot be removed, the asset's
\* object is, although its row is committed.
RemoveUpload(c) ==
  /\ c \in Completers /\ At(c, "tidy")
  /\ \/ temporary' = temporary \ {Upload} /\ Goto(c, "mark") /\ Fine
     \/ /\ RemoveRaises(temporary, temporary', Upload)
        /\ late' = TRUE /\ Goto(c, "undo")
  /\ UNCHANGED <<job, session, expired, formal, rows, purge>>

\* The handler's own transaction, after the service has returned.
MarkCompleted(c) ==
  /\ At(c, "mark")
  /\ session' = "COMPLETED" /\ Goto(c, "ended")
  /\ UNCHANGED <<job, expired, temporary, formal, rows, purge>> /\ Fine

-----------------------------------------------------------------------------
(* publish_artifacts                                                       *)

\* The job must exist, deleted or not.
Publish(p) ==
  /\ At(p, "idle") /\ job \in {"live", "deleted"}
  /\ Goto(p, "put")
  /\ UNCHANGED <<job, session, expired, temporary, formal, rows, purge>> /\ Fine

\* An artifact of a forbidden or wrong type raises before it is put.
RejectMime(p) ==
  /\ At(p, "put") /\ calls[p].todo # {} /\ Goto(p, "undo")
  /\ UNCHANGED <<job, session, expired, temporary, formal, rows, purge>> /\ Fine

PutDraft(p, k) ==
  /\ At(p, "put") /\ k \in calls[p].todo
  /\ \/ /\ temporary' = temporary \cup {Draft(p, k)}
        /\ calls' = [calls EXCEPT ![p].pc = "copy",
                                  ![p].temps = @ \cup {Draft(p, k)},
                                  ![p].todo = @ \ {k}]
        /\ Fine
     \/ PutRaises(temporary, temporary', Draft(p, k)) /\ Goto(p, "undo")
  /\ UNCHANGED <<job, session, expired, formal, rows, purge>>

\* The draft that has no copy yet.
CopyDraft(p) ==
  /\ p \in Publishers /\ At(p, "copy")
  /\ \E id \in calls[p].temps \ calls[p].finals :
       \/ /\ formal' = formal \cup {id}
          /\ calls' = [calls EXCEPT ![p].pc = "put",
                                    ![p].finals = @ \cup {id}]
          /\ Fine
       \/ PutRaises(formal, formal', id) /\ Goto(p, "undo")
  /\ UNCHANGED <<job, session, expired, temporary, rows, purge>>

PutManifest(p) ==
  /\ At(p, "put") /\ calls[p].todo = {}
  /\ \/ /\ formal' = formal \cup {Manifest(p)}
        /\ calls' = [calls EXCEPT ![p].pc = "commit",
                                  ![p].finals = @ \cup {Manifest(p)}]
        /\ Fine
     \/ PutRaises(formal, formal', Manifest(p)) /\ Goto(p, "undo")
  /\ UNCHANGED <<job, session, expired, temporary, rows, purge>>

\* Fault: there is no such constraint.
NeverTaken == \E r \in rows : r.kind = "upload"

\* uq_artifact_job_kind_version: the version has rows already.
VersionTaken == \E r \in rows : r.kind # "media"

\* All rows in one transaction.
CommitRows(p) ==
  /\ p \in Publishers /\ At(p, "commit")
  /\ \/ /\ ~VersionTaken
        /\ rows' = rows \cup calls[p].finals /\ Goto(p, "tidy") /\ Fine
     \/ VersionTaken /\ Goto(p, "undo") /\ UNCHANGED rows /\ Fine
     \/ ~VersionTaken /\ CommitRaises(p, calls[p].finals)
  /\ UNCHANGED <<job, session, expired, temporary, formal, purge>>

\* Still inside the try block: see RemoveUpload.
RemoveDraft(p) ==
  /\ p \in Publishers /\ At(p, "tidy")
  /\ \/ calls[p].temps = {} /\ Goto(p, "ended") /\ UNCHANGED temporary /\ Fine
     \/ \E id \in calls[p].temps :
          \/ /\ temporary' = temporary \ {id}
             /\ calls' = [calls EXCEPT ![p].temps = @ \ {id}] /\ Fine
          \/ /\ RemoveRaises(temporary, temporary', id)
             /\ late' = TRUE /\ Goto(p, "undo")
  /\ UNCHANGED <<job, session, expired, formal, rows, purge>>

-----------------------------------------------------------------------------
(* The except block of both, and death                                     *)

\* The temporary keys are removed first, then the final ones.
Undo(c) ==
  /\ At(c, "undo")
  /\ \/ \E id \in calls[c].temps :
          /\ calls' = [calls EXCEPT ![c].temps = @ \ {id}]
          /\ temporary' = temporary \ {id} /\ UNCHANGED formal
     \/ \E id \in calls[c].finals :
          /\ calls[c].temps = {}
          /\ calls' = [calls EXCEPT ![c].finals = @ \ {id}]
          /\ formal' = formal \ {id} /\ UNCHANGED temporary
     \/ /\ calls[c].temps = {} /\ calls[c].finals = {}
        /\ Goto(c, "ended") /\ UNCHANGED <<temporary, formal>>
  /\ UNCHANGED <<job, session, expired, rows, purge>> /\ Fine

\* A removal raises and ends the clean-up, or the process dies anywhere.
Abandon(c) ==
  /\ calls[c].pc \notin {"idle", "ended"}
  /\ \/ At(c, "undo") /\ Raise
     \/ crashes < MaxCrashes /\ crashes' = crashes + 1 /\ UNCHANGED raises
  /\ Goto(c, "ended") /\ litter' = TRUE
  /\ UNCHANGED <<job, session, expired, temporary, formal, rows, purge, late>>

-----------------------------------------------------------------------------
(* schedule_job_deletion and purge_due_jobs                                *)

Delete ==
  /\ job = "live" /\ job' = "deleted"
  /\ UNCHANGED <<session, expired, temporary, formal, rows, calls, purge>> /\ Fine

\* The retention is assumed to outlast the tickets and the calls of the job:
\* the code checks neither.
Due ==
  /\ job = "deleted" /\ job' = "due"
  /\ session # "none" => expired
  /\ \A c \in Calls : calls[c].pc \in {"idle", "ended"}
  /\ UNCHANGED <<session, expired, temporary, formal, rows, calls, purge>> /\ Fine

PurgeGoto(pc, listed) == purge' = [pc |-> pc, listed |-> listed]

\* Fault: only the formal objects are purged.
PurgeFormalOnly ==
  /\ purge.pc = "idle" /\ job = "due"
  /\ PurgeGoto("formal", formal)
  /\ UNCHANGED <<job, session, expired, temporary, formal, rows, calls>> /\ Fine

PurgeScan ==
  /\ purge.pc = "idle" /\ job = "due"
  /\ PurgeGoto("temporary", temporary)
  /\ UNCHANGED <<job, session, expired, temporary, formal, rows, calls>> /\ Fine

PurgeObject ==
  /\ \E id \in purge.listed :
       /\ purge' = [purge EXCEPT !.listed = @ \ {id}]
       /\ IF purge.pc = "temporary"
          THEN temporary' = temporary \ {id} /\ UNCHANGED formal
          ELSE formal' = formal \ {id} /\ UNCHANGED temporary
  /\ UNCHANGED <<job, session, expired, rows, calls>> /\ Fine

PurgeFormal ==
  /\ purge.pc = "temporary" /\ purge.listed = {}
  /\ PurgeGoto("formal", formal)
  /\ UNCHANGED <<job, session, expired, temporary, formal, rows, calls>> /\ Fine

PurgeRows ==
  /\ purge.pc = "formal" /\ purge.listed = {}
  /\ rows' = {} /\ job' = "purged"
  /\ PurgeGoto("idle", {})
  /\ UNCHANGED <<session, expired, temporary, formal, calls>> /\ Fine

\* A removal or the commit raises, or the process dies; a later call starts
\* again.
PurgeStops ==
  /\ purge.pc # "idle"
  /\ \/ Raise
     \/ crashes < MaxCrashes /\ crashes' = crashes + 1 /\ UNCHANGED raises
  /\ PurgeGoto("idle", {})
  /\ UNCHANGED <<job, session, expired, temporary, formal, rows, calls, late,
                 litter>>

-----------------------------------------------------------------------------

Completion(c) ==
  FindSession(c) \/ Verify(c) \/ CopyMedia(c) \/ InsertAsset(c)
    \/ RemoveUpload(c) \/ MarkCompleted(c)

Publication(p) ==
  \/ Publish(p) \/ RejectMime(p) \/ \E k \in Kinds : PutDraft(p, k)
  \/ CopyDraft(p) \/ PutManifest(p) \/ CommitRows(p) \/ RemoveDraft(p)

Next ==
  \/ Issue \/ ClientPut \/ Expire \/ Delete \/ Due
  \/ \E c \in Completers : Completion(c)
  \/ \E p \in Publishers : Publication(p)
  \/ \E c \in Calls : Undo(c) \/ Abandon(c)
  \/ PurgeScan \/ PurgeObject \/ PurgeFormal \/ PurgeRows \/ PurgeStops

Spec == Init /\ [][Next]_vars

-----------------------------------------------------------------------------
(* Properties                                                              *)

\* Objects and rows have ids, and every call its keys.
TypeOK ==
  /\ job \in {"live", "deleted", "due", "purged"}
  /\ session \in {"none", "ISSUED", "COMPLETED"}
  /\ expired \in BOOLEAN /\ late \in BOOLEAN /\ litter \in BOOLEAN
  /\ temporary \subseteq Ids /\ formal \subseteq Ids /\ rows \subseteq Ids
  /\ calls \in [Calls -> CallState]
  /\ purge \in [pc : {"idle", "temporary", "formal"}, listed : SUBSET Ids]
  /\ raises \in Nat /\ crashes \in Nat

\* Whatever raises, dies or collides, a row that can be read has its object;
\* the only exception is a call that raised after its own commit.
RowHasObject == job = "live" /\ ~late => rows \subseteq formal

\* Readers find no artifact or all of one publication: the clean-up of one
\* that lost takes nothing from the one that won.
WholeSet ==
  LET found == {r \in rows : r.kind # "media"} IN
    found # {} =>
      \E p \in Publishers :
        found = {Manifest(p)} \cup {Draft(p, k) : k \in Kinds}

\* An upload session is COMPLETED only if one of its completions recorded an
\* asset whose object is there, even when others of them failed late.
CompletedHasAsset ==
  session = "COMPLETED" /\ job = "live" =>
    \E c \in Completers : Media(c) \in rows \cap formal

\* When all calls have ended and every clean-up could be done, the store holds
\* only what rows name, and uploads of the client.
NothingLeftBehind ==
  ~litter /\ (\A c \in Calls : calls[c].pc \in {"idle", "ended"}) =>
    formal \subseteq rows /\ temporary \subseteq {Upload}

\* A purged job has neither objects nor rows, whatever failed calls had left
\* behind and however often the purge was interrupted.
PurgedIsEmpty ==
  job = "purged" => temporary = {} /\ formal = {} /\ rows = {}

\* What rows and sessions claim is in the store.
RowsAreTrue == RowHasObject /\ CompletedHasAsset

\* Nothing outlives its owner: neither a failed call nor a purged job leaves
\* objects that no row names.
NoOrphans == NothingLeftBehind /\ PurgedIsEmpty

=============================================================================
