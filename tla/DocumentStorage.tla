--------------------------- MODULE DocumentStorage ---------------------------
(***************************************************************************)
(* The stored original of one document: DocumentService.upload_stream,     *)
(* complete_upload and delete (modules/courses/documents.py), the file     *)
(* operations of LocalStorage (storage/local.py) and the cleanup that the  *)
(* DELETE endpoint runs last (modules/deletion/cleanup.py).                *)
(*                                                                         *)
(* These handlers mix transactions with file operations outside any        *)
(* transaction, so each of their steps is an action of its own: a          *)
(* transaction (the document row is locked first), or one atomic           *)
(* operation on the file.  Any number of requests of each kind runs at the *)
(* same time, and each may stop for good between two of its steps.         *)
(***************************************************************************)
EXTENDS Naturals

CONSTANTS
    Uploads,       \* PUT requests of the upload session
    Completions,   \* POST upload:complete requests
    Deletions,     \* DELETE requests, all with one Idempotency-Key
    Excluded       \* the corpus role is "excluded": nothing is parsed

ASSUME ExcludedOK == Excluded \in BOOLEAN

VARIABLES
    session,       \* upload_sessions.status
    expired,       \* upload_sessions.expires_at <= now
    document,      \* documents.status; "deleting" is also deleted_at IS NOT NULL
    stored,        \* the file under the object key: absent, declared or other content
    upload,        \* where each PUT request stands
    completion,    \* where each upload:complete request stands
    deletion,      \* where each DELETE request stands
    deletionJob,   \* deletion_jobs: status and last_error_code
    derived,       \* how far the data made from the document reaches: see DerivedData
    healthy,       \* file operations succeed
    failed,        \* writing or removing a file has failed
    crashed        \* some request has stopped half way

vars == <<session, expired, document, stored, upload, completion, deletion,
          deletionJob, derived, healthy, failed, crashed>>

SessionStatus == {"pending", "receiving", "uploaded", "completed", "cancelled"}
Content == {"absent", "declared", "other"}

\* Rows and files made from the document: none; its parse jobs, artifacts and chunks;
\* also an index of its course; also a retrieval trace that names such an index.
DerivedData == {"none", "parsed", "indexed", "traced"}

TypeOK ==
    /\ session \in SessionStatus
    /\ expired \in BOOLEAN
    /\ document \in {"uploading", "uploaded", "queued", "deleting"}
    /\ stored \in Content
    /\ upload \in [Uploads -> {"idle", "writing", "written", "refused"}]
    /\ completion \in [Completions -> {"idle", "checking", "verified"}]
    /\ deletion \in [Deletions -> {"idle", "removing", "removed", "kept", "cleaning", "stuck"}]
    /\ deletionJob \in [status : {"none", "pending", "retry_wait", "completed"},
                        error : {"none", "STORAGE_DELETE_FAILED", "DERIVED_CLEANUP_FAILED"}]
    /\ derived \in DerivedData /\ healthy \in BOOLEAN
    /\ failed \in BOOLEAN /\ crashed \in BOOLEAN

\* create_upload has inserted the document with its session; no file exists yet.
Init ==
    /\ session = "pending"
    /\ expired = FALSE
    /\ document = "uploading"
    /\ stored = "absent"
    /\ upload = [u \in Uploads |-> "idle"]
    /\ completion = [c \in Completions |-> "idle"]
    /\ deletion = [d \in Deletions |-> "idle"]
    /\ deletionJob = [status |-> "none", error |-> "none"]
    /\ derived = "none"
    /\ healthy \in BOOLEAN
    /\ failed = FALSE
    /\ crashed = FALSE

Deleted == document = "deleting"

\* What the steps of each kind of request leave alone
uploadFrame == <<expired, document, completion, deletion, deletionJob, derived, healthy, crashed>>
completeFrame == <<expired, stored, upload, deletion, deletionJob, healthy, failed, crashed>>
deleteFrame == <<expired, upload, completion, healthy, crashed>>

-----------------------------------------------------------------------------
(* PUT: upload_stream                                                      *)

MayReceive == ~Deleted /\ ~expired /\ session \notin {"receiving", "completed"}

UploadBegin(u) ==
    /\ upload[u] = "idle"
    /\ MayReceive
    /\ session' = "receiving"
    /\ upload' = [upload EXCEPT ![u] = "writing"]
    /\ UNCHANGED <<stored, failed>> /\ UNCHANGED uploadFrame

\* put_stream replaces the file at once, with whatever bytes the client sent.
UploadWrite(u, content) ==
    /\ upload[u] = "writing"
    /\ healthy
    /\ stored' = content
    /\ upload' = [upload EXCEPT ![u] = "written"]
    /\ UNCHANGED <<session, failed>> /\ UNCHANGED uploadFrame

\* The stream breaks off or grows too large (nothing is replaced), or the file is
\* replaced and the metadata file cannot be written.
UploadBreaks(u, content) ==
    /\ upload[u] = "writing"
    /\ content # stored => ~healthy /\ content # "absent"
    /\ stored' = content
    /\ upload' = [upload EXCEPT ![u] = "refused"]
    /\ failed' = (failed \/ ~healthy)
    /\ UNCHANGED session /\ UNCHANGED uploadFrame

\* _reset_receiving_upload
UploadReset(u) ==
    /\ upload[u] = "refused"
    /\ session' = IF ~Deleted /\ session = "receiving" THEN "pending" ELSE session
    /\ upload' = [upload EXCEPT ![u] = "idle"]
    /\ UNCHANGED <<stored, failed>> /\ UNCHANGED uploadFrame

\* Mutant: the late file is left where it is
KeepLateFile == stored

\* A file that arrives after the deletion, or in a session that moved on, is removed.
LateFile == IF healthy THEN "absent" ELSE stored

UploadEnd(u) ==
    LET taken == ~Deleted /\ session = "receiving" IN
    /\ upload[u] = "written"
    /\ session' = IF taken THEN "uploaded" ELSE session
    /\ stored' = IF taken THEN stored ELSE LateFile
    /\ failed' = (failed \/ (~taken /\ ~healthy))
    /\ upload' = [upload EXCEPT ![u] = "idle"]
    /\ UNCHANGED uploadFrame

-----------------------------------------------------------------------------
(* POST: complete_upload                                                   *)

\* The first transaction reads the session; the file is examined after it.
CompleteBegin(c) ==
    /\ completion[c] = "idle"
    /\ ~Deleted /\ session = "uploaded" /\ ~expired
    /\ completion' = [completion EXCEPT ![c] = "checking"]
    /\ UNCHANGED <<session, document, derived>> /\ UNCHANGED completeFrame

\* UploadValidator.verify_stored: size, media type and hash of the stored file must be
\* those declared.
CompleteVerify(c) ==
    /\ completion[c] = "checking"
    /\ completion' = [completion EXCEPT ![c] =
                        IF healthy /\ stored = "declared" THEN "verified" ELSE "idle"]
    /\ UNCHANGED <<session, document, derived>> /\ UNCHANGED completeFrame

\* Mutant: the session need only not be completed
MayCompleteAny == ~Deleted /\ session # "completed"

MayComplete == ~Deleted /\ session = "uploaded"

\* The second transaction looks at the session again, not at the file.
CompleteEnd(c) ==
    /\ completion[c] = "verified"
    /\ completion' = [completion EXCEPT ![c] = "idle"]
    /\ session' = IF MayComplete THEN "completed" ELSE session
    /\ document' = IF ~MayComplete THEN document
                   ELSE IF Excluded THEN "uploaded" ELSE "queued"
    /\ derived' = IF MayComplete /\ ~Excluded THEN "parsed" ELSE derived
    /\ UNCHANGED completeFrame

-----------------------------------------------------------------------------
(* DELETE: delete, then DeletionCleanupService.cleanup                     *)

CancelSession == "cancelled"

\* The transaction that makes the document invisible and records the deletion job
DeleteBegin(d) ==
    /\ deletion[d] = "idle"
    /\ ~Deleted
    /\ document' = "deleting"
    /\ session' = CancelSession
    /\ deletionJob' = [status |-> "pending", error |-> "none"]
    /\ deletion' = [deletion EXCEPT ![d] = "removing"]
    /\ UNCHANGED <<stored, derived, failed>> /\ UNCHANGED deleteFrame

\* The same DELETE again: delete() returns the id on record, the endpoint cleans up.
DeleteReplay(d) ==
    /\ deletion[d] = "idle"
    /\ Deleted
    /\ deletion' = [deletion EXCEPT ![d] = "cleaning"]
    /\ UNCHANGED <<session, document, stored, deletionJob, derived, failed>>
    /\ UNCHANGED deleteFrame

\* _attempt_local_cleanup: the file first, then the outcome in a transaction
DeleteFile(d) ==
    /\ deletion[d] = "removing"
    /\ stored' = IF healthy THEN "absent" ELSE stored
    /\ failed' = (failed \/ ~healthy)
    /\ deletion' = [deletion EXCEPT ![d] = IF healthy THEN "removed" ELSE "kept"]
    /\ UNCHANGED <<session, document, deletionJob, derived>> /\ UNCHANGED deleteFrame

DeleteRecord(d) ==
    /\ deletion[d] \in {"removed", "kept"}
    /\ deletionJob' = IF deletion[d] = "removed"
                      THEN [status |-> "completed", error |-> "none"]
                      ELSE [status |-> "retry_wait", error |-> "STORAGE_DELETE_FAILED"]
    /\ deletion' = [deletion EXCEPT ![d] = "cleaning"]
    /\ UNCHANGED <<session, document, stored, derived, failed>> /\ UNCHANGED deleteFrame

\* Mutant: a deletion that completed has nothing left to clean
CleanupAppliesOnce == Deleted /\ deletionJob.status # "completed"

\* The document is deleted; the status of the job does not matter.
CleanupApplies == Deleted

\* The manifests that hold the document cannot be deleted while a retrieval trace names
\* one: the deferred foreign key fk_retrieval_traces_lexical_scope refuses the commit.
CleanupCommits == healthy /\ ~(CleanupApplies /\ derived = "traced")

\* _cleanup commits as a whole; a failed deletion of the original stays on record.
Cleanup(d) ==
    /\ deletion[d] = "cleaning"
    /\ CleanupCommits
    /\ derived' = IF CleanupApplies THEN "none" ELSE derived
    /\ deletionJob' = IF CleanupApplies /\ deletionJob.error # "STORAGE_DELETE_FAILED"
                      THEN [status |-> "completed", error |-> "none"]
                      ELSE deletionJob
    /\ deletion' = [deletion EXCEPT ![d] = "idle"]
    /\ UNCHANGED <<session, document, stored, failed>> /\ UNCHANGED deleteFrame

\* Removing an artifact or an index directory fails, or the commit: _cleanup rolls back.
CleanupFails(d) ==
    /\ deletion[d] = "cleaning"
    /\ ~CleanupCommits
    /\ failed' = (failed \/ ~healthy)
    /\ deletion' = [deletion EXCEPT ![d] = "stuck"]
    /\ UNCHANGED <<session, document, stored, derived, deletionJob>>
    /\ UNCHANGED deleteFrame

\* _mark_failed
MarkFailed(d) ==
    /\ deletion[d] = "stuck"
    /\ deletionJob' = [status |-> "retry_wait", error |-> "DERIVED_CLEANUP_FAILED"]
    /\ deletion' = [deletion EXCEPT ![d] = "idle"]
    /\ UNCHANGED <<session, document, stored, derived, failed>> /\ UNCHANGED deleteFrame

-----------------------------------------------------------------------------
(* The environment                                                         *)

\* An index of the course with the document's chunks is activated: not once the
\* document is deleted.
Index ==
    /\ derived = "parsed" /\ ~Deleted
    /\ derived' = "indexed"
    /\ UNCHANGED <<session, expired, document, stored, upload, completion, deletion,
                   deletionJob, healthy, failed, crashed>>

\* A question that has read the active index stores its trace, also when the document
\* was deleted meanwhile; the foreign key refuses the trace after the cleanup.
Trace ==
    /\ derived = "indexed"
    /\ derived' = "traced"
    /\ UNCHANGED <<session, expired, document, stored, upload, completion, deletion,
                   deletionJob, healthy, failed, crashed>>

SessionExpires ==
    /\ ~expired
    /\ expired' = TRUE
    /\ UNCHANGED <<session, document, stored, upload, completion, deletion,
                   deletionJob, derived, healthy, failed, crashed>>

\* A broken disk is repaired, and stays so.
Repair ==
    /\ ~healthy
    /\ healthy' = TRUE
    /\ UNCHANGED <<session, expired, document, stored, upload, completion, deletion,
                   deletionJob, derived, failed, crashed>>

\* The process dies, or the request is cancelled, between two steps.
Crash ==
    /\ \/ \E u \in Uploads : /\ upload[u] # "idle"
                             /\ upload' = [upload EXCEPT ![u] = "idle"]
                             /\ UNCHANGED <<completion, deletion>>
       \/ \E c \in Completions : /\ completion[c] # "idle"
                                 /\ completion' = [completion EXCEPT ![c] = "idle"]
                                 /\ UNCHANGED <<upload, deletion>>
       \/ \E d \in Deletions : /\ deletion[d] # "idle"
                               /\ deletion' = [deletion EXCEPT ![d] = "idle"]
                               /\ UNCHANGED <<upload, completion>>
    /\ crashed' = TRUE
    /\ UNCHANGED <<session, expired, document, stored, deletionJob, derived, healthy, failed>>

-----------------------------------------------------------------------------

UploadStep(u) ==
    \/ UploadBegin(u) \/ UploadReset(u) \/ UploadEnd(u)
    \/ \E content \in {"declared", "other"} : UploadWrite(u, content)
    \/ \E content \in Content : UploadBreaks(u, content)

CompleteStep(c) == CompleteBegin(c) \/ CompleteVerify(c) \/ CompleteEnd(c)

CleanupStep(d) == Cleanup(d) \/ CleanupFails(d) \/ MarkFailed(d)

DeleteStep(d) ==
    DeleteBegin(d) \/ DeleteReplay(d) \/ DeleteFile(d) \/ DeleteRecord(d) \/ CleanupStep(d)

Next ==
    \/ \E u \in Uploads : UploadStep(u)
    \/ \E c \in Completions : CompleteStep(c)
    \/ \E d \in Deletions : DeleteStep(d)
    \/ Index \/ Trace \/ SessionExpires \/ Repair \/ Crash

Spec == Init /\ [][Next]_vars

-----------------------------------------------------------------------------
(* What the handlers promise                                               *)

Quiet ==
    /\ \A u \in Uploads : upload[u] = "idle"
    /\ \A c \in Completions : completion[c] = "idle"
    /\ \A d \in Deletions : deletion[d] = "idle"

\* A deletion racing an upload leaves no file behind: whichever of them comes last
\* removes it, unless a request died or the disk failed.
DeletedFileIsGone ==
    Deleted /\ Quiet /\ ~failed /\ ~crashed => stored = "absent"

\* Once the upload is completed nothing replaces the file that will be parsed; only
\* the deletion removes it.
CompletedFileIsFrozen ==
    [][session = "completed" /\ stored' # stored => Deleted']_vars

-----------------------------------------------------------------------------
(* Progress of a deletion.  Assumed of the environment: the disk is        *)
(* repaired, a client repeats its DELETE for ever, and a cleanup that is   *)
(* begun again and again is not killed every time.  PUT and POST requests  *)
(* owe nothing: a client may stall its upload for ever.                    *)

Fairness ==
    /\ WF_vars(Repair)
    /\ \A d \in Deletions :
        /\ WF_vars(DeleteReplay(d))
        /\ WF_vars(DeleteFile(d)) /\ WF_vars(DeleteRecord(d))
        /\ WF_vars(MarkFailed(d)) /\ SF_vars(Cleanup(d))

FairSpec == Spec /\ Fairness

\* Whatever failed or died before, repeating the DELETE removes the derived data, also
\* when the deletion job already says completed; provided that no retrieval trace names
\* an index with the document, for then every cleanup fails at its commit and the data
\* stays for good.
DerivedDataGoes == Deleted ~> derived \in {"none", "traced"}
=============================================================================
