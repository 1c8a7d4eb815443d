------------------------ MODULE DocumentStorageProofs ------------------------
(***************************************************************************)
(* Proofs about DocumentStorage, for any number of concurrent PUT,         *)
(* upload:complete and DELETE requests, each of which may die anywhere: a  *)
(* completed original is replaced by nobody, and a deletion that races an  *)
(* upload leaves no file behind.                                           *)
(***************************************************************************)
EXTENDS DocumentStorage, TLAPS

-----------------------------------------------------------------------------
(* 1. Types                                                                *)

LEMMA TypeInit == Init => TypeOK
<1> SUFFICES ASSUME Init PROVE TypeOK
  OBVIOUS
<1>1. /\ session \in SessionStatus /\ stored \in Content
      /\ document \in {"uploading", "uploaded", "queued", "deleting"}
      /\ upload \in [Uploads -> {"idle", "writing", "written", "refused"}]
      /\ completion \in [Completions -> {"idle", "checking", "verified"}]
      /\ deletion \in [Deletions ->
                        {"idle", "removing", "removed", "kept", "cleaning", "stuck"}]
  BY DEF Init, SessionStatus, Content
<1>2. deletionJob \in [status : {"none", "pending", "retry_wait", "completed"},
                       error : {"none", "STORAGE_DELETE_FAILED", "DERIVED_CLEANUP_FAILED"}]
  BY DEF Init
<1>3. /\ expired \in BOOLEAN /\ derived \in DerivedData /\ healthy \in BOOLEAN
      /\ failed \in BOOLEAN /\ crashed \in BOOLEAN
  BY Zenon DEF Init, DerivedData
<1> QED
  BY <1>1, <1>2, <1>3, Zenon DEF TypeOK

LEMMA TypeUpload ==
    ASSUME TypeOK, NEW u \in Uploads, UploadStep(u)
    PROVE  TypeOK'
<1>1. CASE UploadBegin(u)
  BY <1>1 DEF UploadBegin, uploadFrame, TypeOK, SessionStatus
<1>2. CASE UploadReset(u)
  BY <1>2 DEF UploadReset, uploadFrame, TypeOK, SessionStatus
<1>3. CASE UploadEnd(u)
  BY <1>3 DEF UploadEnd, LateFile, uploadFrame, TypeOK, SessionStatus, Content
<1>4. ASSUME NEW content \in {"declared", "other"}, UploadWrite(u, content)
      PROVE  TypeOK'
  BY <1>4 DEF UploadWrite, uploadFrame, TypeOK, Content
<1>5. ASSUME NEW content \in Content, UploadBreaks(u, content)
      PROVE  TypeOK'
  BY <1>5 DEF UploadBreaks, uploadFrame, TypeOK
<1> QED
  BY <1>1, <1>2, <1>3, <1>4, <1>5 DEF UploadStep

LEMMA TypeComplete ==
    ASSUME TypeOK, NEW c \in Completions, CompleteStep(c)
    PROVE  TypeOK'
<1>1. CASE CompleteBegin(c)
  BY <1>1 DEF CompleteBegin, completeFrame, TypeOK
<1>2. CASE CompleteVerify(c)
  BY <1>2 DEF CompleteVerify, completeFrame, TypeOK
<1>3. CASE CompleteEnd(c)
  BY <1>3 DEF CompleteEnd, completeFrame, TypeOK, SessionStatus, DerivedData
<1> QED
  BY <1>1, <1>2, <1>3 DEF CompleteStep

LEMMA TypeDelete ==
    ASSUME TypeOK, NEW d \in Deletions, DeleteStep(d)
    PROVE  TypeOK'
<1>1. CASE DeleteBegin(d)
  BY <1>1 DEF DeleteBegin, CancelSession, deleteFrame, TypeOK, SessionStatus
<1>2. CASE DeleteReplay(d)
  BY <1>2 DEF DeleteReplay, deleteFrame, TypeOK
<1>3. CASE DeleteFile(d)
  BY <1>3 DEF DeleteFile, deleteFrame, TypeOK, Content
<1>4. CASE DeleteRecord(d)
  BY <1>4 DEF DeleteRecord, deleteFrame, TypeOK
<1>5. CASE Cleanup(d)
  BY <1>5 DEF Cleanup, deleteFrame, TypeOK, DerivedData
<1>6. CASE CleanupFails(d)
  BY <1>6 DEF CleanupFails, deleteFrame, TypeOK
<1>7. CASE MarkFailed(d)
  BY <1>7 DEF MarkFailed, deleteFrame, TypeOK
<1> QED
  BY <1>1, <1>2, <1>3, <1>4, <1>5, <1>6, <1>7 DEF DeleteStep, CleanupStep

LEMMA TypeNext == TypeOK /\ [Next]_vars => TypeOK'
<1> SUFFICES ASSUME TypeOK, [Next]_vars PROVE TypeOK'
  OBVIOUS
<1>1. CASE SessionExpires
  BY <1>1 DEF SessionExpires, TypeOK
<1>2. CASE Repair
  BY <1>2 DEF Repair, TypeOK
<1>3. CASE Crash
  BY <1>3 DEF Crash, TypeOK
<1>4. CASE Index \/ Trace
  BY <1>4 DEF Index, Trace, TypeOK, DerivedData
<1>5. CASE UNCHANGED vars
  BY <1>5 DEF vars, TypeOK
<1> QED
  BY <1>1, <1>2, <1>3, <1>4, <1>5, TypeUpload, TypeComplete, TypeDelete DEF Next

-----------------------------------------------------------------------------
(* 2. The invariant                                                        *)

\* "receiving" is a lock on the object key while the document lives: the request that
\* set it is the only one under way.
ExclusiveReceiver ==
    ~Deleted => \A u \in Uploads : upload[u] # "idle" =>
        /\ session = "receiving"
        /\ \A v \in Uploads \ {u} : upload[v] = "idle"

\* Only a request that deleted the document, or found it deleted, is under way.
DeletersFollow == \A d \in Deletions : deletion[d] # "idle" => Deleted

\* A file of a deleted document will still meet somebody who removes it.
FileHasRemover ==
    Deleted /\ ~failed /\ ~crashed /\ stored # "absent" =>
        \/ \E u \in Uploads : upload[u] = "written"
        \/ \E d \in Deletions : deletion[d] = "removing"

Inv == TypeOK /\ ExclusiveReceiver /\ DeletersFollow /\ FileHasRemover

LEMMA InvInit == Init => Inv
BY TypeInit DEF Init, Inv, ExclusiveReceiver, DeletersFollow, FileHasRemover, Deleted

LEMMA InvUpload ==
    ASSUME Inv, TypeOK', NEW u \in Uploads, UploadStep(u)
    PROVE  Inv'
<1>1. DeletersFollow' /\ (Deleted' <=> Deleted) /\ crashed' = crashed
  BY DEF UploadStep, UploadBegin, UploadReset, UploadEnd, UploadWrite, UploadBreaks,
         uploadFrame, Inv, DeletersFollow, Deleted
<1>2. CASE UploadBegin(u)
  <2>1. ~Deleted /\ \A v \in Uploads : upload[v] = "idle"
    BY <1>2 DEF UploadBegin, MayReceive, Inv, ExclusiveReceiver
  <2>2. ExclusiveReceiver' /\ FileHasRemover'
    BY <1>1, <1>2, <2>1 DEF UploadBegin, ExclusiveReceiver, FileHasRemover, Inv, TypeOK
  <2> QED
    BY <1>1, <2>2 DEF Inv
<1>3. CASE UploadReset(u)
  <2>1. ExclusiveReceiver'
    BY <1>1, <1>3 DEF UploadReset, ExclusiveReceiver, Inv, TypeOK
  <2>2. FileHasRemover'
    BY <1>1, <1>3 DEF UploadReset, uploadFrame, FileHasRemover, Inv, TypeOK
  <2> QED
    BY <1>1, <2>1, <2>2 DEF Inv
<1>4. CASE UploadEnd(u)
  <2>1. ExclusiveReceiver'
    BY <1>1, <1>4 DEF UploadEnd, ExclusiveReceiver, Inv, TypeOK
  <2>2. FileHasRemover'
    BY <1>1, <1>4 DEF UploadEnd, LateFile, FileHasRemover, Inv, TypeOK
  <2> QED
    BY <1>1, <2>1, <2>2 DEF Inv
<1>5. ASSUME NEW content \in {"declared", "other"}, UploadWrite(u, content)
      PROVE  Inv'
  <2>1. ExclusiveReceiver'
    BY <1>1, <1>5 DEF UploadWrite, ExclusiveReceiver, Inv, TypeOK
  <2>2. FileHasRemover'
    BY <1>5 DEF UploadWrite, FileHasRemover, Inv, TypeOK
  <2> QED
    BY <1>1, <2>1, <2>2 DEF Inv
<1>6. ASSUME NEW content \in Content, UploadBreaks(u, content)
      PROVE  Inv'
  <2>1. ExclusiveReceiver'
    BY <1>1, <1>6 DEF UploadBreaks, ExclusiveReceiver, Inv, TypeOK
  <2>2. ~failed' => ~failed /\ stored' = stored
    BY <1>6 DEF UploadBreaks
  <2>3. upload[u] = "writing" /\ \A v \in Uploads \ {u} : upload'[v] = upload[v]
    BY <1>6 DEF UploadBreaks, Inv, TypeOK
  <2>4. deletion' = deletion
    BY <1>6 DEF UploadBreaks, uploadFrame
  <2>5. FileHasRemover'
    BY <1>1, <2>2, <2>3, <2>4 DEF FileHasRemover, Inv
  <2> QED
    BY <1>1, <2>1, <2>5 DEF Inv
<1> QED
  BY <1>2, <1>3, <1>4, <1>5, <1>6 DEF UploadStep

\* The session is completed only when it is "uploaded", that is with no PUT under way.
LEMMA InvComplete ==
    ASSUME Inv, TypeOK', NEW c \in Completions, CompleteStep(c)
    PROVE  Inv'
<1>1. UNCHANGED <<stored, upload, deletion, failed, crashed>>
  BY DEF CompleteStep, CompleteBegin, CompleteVerify, CompleteEnd, completeFrame
<1>2. Deleted' <=> Deleted
  BY DEF CompleteStep, CompleteBegin, CompleteVerify, CompleteEnd, MayComplete, Deleted
<1>3. session' = session \/ session = "uploaded"
  BY DEF CompleteStep, CompleteBegin, CompleteVerify, CompleteEnd, MayComplete
<1>4. ExclusiveReceiver'
  BY <1>1, <1>2, <1>3 DEF ExclusiveReceiver, Inv
<1>5. DeletersFollow' /\ FileHasRemover'
  BY <1>1, <1>2 DEF DeletersFollow, FileHasRemover, Inv
<1> QED
  BY <1>4, <1>5 DEF Inv

LEMMA InvDelete ==
    ASSUME Inv, TypeOK', NEW d \in Deletions, DeleteStep(d)
    PROVE  Inv'
<1>1. Deleted' /\ upload' = upload /\ crashed' = crashed
  BY DEF DeleteStep, DeleteBegin, DeleteReplay, DeleteFile, DeleteRecord, CleanupStep,
         Cleanup, CleanupFails, MarkFailed, deleteFrame, Inv, DeletersFollow, Deleted
<1>2. ExclusiveReceiver' /\ DeletersFollow'
  BY <1>1 DEF ExclusiveReceiver, DeletersFollow
<1>3. ASSUME DeleteBegin(d) PROVE FileHasRemover'
  <2>1. deletion'[d] = "removing"
    BY <1>3 DEF DeleteBegin, Inv, TypeOK
  <2> QED
    BY <2>1 DEF FileHasRemover
<1>4. ASSUME DeleteFile(d) PROVE FileHasRemover'
  <2>1. ~failed' => stored' = "absent"
    BY <1>4 DEF DeleteFile
  <2> QED
    BY <2>1 DEF FileHasRemover
<1>5. ASSUME DeleteReplay(d) \/ DeleteRecord(d) \/ CleanupStep(d) PROVE FileHasRemover'
  <2>1. /\ stored' = stored /\ Deleted /\ deletion[d] # "removing"
        /\ \A e \in Deletions \ {d} : deletion'[e] = deletion[e]
    BY <1>5 DEF DeleteReplay, DeleteRecord, CleanupStep, Cleanup, CleanupFails, MarkFailed,
                Inv, DeletersFollow, TypeOK
  <2>2. failed => failed'
    BY <1>5 DEF DeleteReplay, DeleteRecord, CleanupStep, Cleanup, CleanupFails, MarkFailed
  <2> QED
    BY <1>1, <2>1, <2>2 DEF FileHasRemover, Inv
<1>6. FileHasRemover'
  BY <1>3, <1>4, <1>5 DEF DeleteStep
<1> QED
  BY <1>2, <1>6 DEF Inv

LEMMA InvCrash ==
    ASSUME Inv, TypeOK', Crash
    PROVE  Inv'
<1>1. UNCHANGED <<session, document, stored, failed>> /\ crashed'
  BY DEF Crash
<1>2. \A u \in Uploads : upload'[u] \in {upload[u], "idle"}
  BY DEF Crash, Inv, TypeOK
<1>3. \A d \in Deletions : deletion'[d] \in {deletion[d], "idle"}
  BY DEF Crash, Inv, TypeOK
<1>4. ExclusiveReceiver'
  BY <1>1, <1>2 DEF ExclusiveReceiver, Deleted, Inv
<1>5. DeletersFollow' /\ FileHasRemover'
  BY <1>1, <1>3 DEF DeletersFollow, FileHasRemover, Deleted, Inv
<1> QED
  BY <1>4, <1>5 DEF Inv

LEMMA InvNext == Inv /\ [Next]_vars => Inv'
<1> SUFFICES ASSUME Inv, [Next]_vars PROVE Inv'
  OBVIOUS
<1>1. TypeOK'
  BY TypeNext DEF Inv
<1>2. ASSUME UNCHANGED <<session, document, stored, upload, deletion, failed, crashed>>
      PROVE  Inv'
  BY <1>1, <1>2 DEF Inv, ExclusiveReceiver, DeletersFollow, FileHasRemover, Deleted
<1>3. CASE SessionExpires
  BY <1>2, <1>3 DEF SessionExpires
<1>4. CASE Repair
  BY <1>2, <1>4 DEF Repair
<1>5. CASE Index \/ Trace
  BY <1>2, <1>5 DEF Index, Trace
<1>6. CASE UNCHANGED vars
  BY <1>2, <1>6 DEF vars
<1> QED
  BY <1>1, <1>3, <1>4, <1>5, <1>6, InvUpload, InvComplete, InvDelete, InvCrash DEF Next

-----------------------------------------------------------------------------
(* 3. The theorems                                                         *)

\* The rows, the file and the local variables of every request keep their types
\* (modules/courses/documents.py, storage/local.py).
THEOREM Types == Spec => []TypeOK
<1>1. Inv => TypeOK
  BY DEF Inv
<1> QED
  BY InvInit, InvNext, <1>1, PTL DEF Spec

\* Whatever the number of requests and wherever they die, a deletion and an upload
\* that both ran to their end have removed the file between them.
THEOREM FileIsGone == Spec => []DeletedFileIsGone
<1>1. Inv => DeletedFileIsGone
  BY DEF Inv, FileHasRemover, DeletedFileIsGone, Quiet
<1> QED
  BY InvInit, InvNext, <1>1, PTL DEF Spec

LEMMA FrozenStep ==
    Inv /\ [Next]_vars => [session = "completed" /\ stored' # stored => Deleted']_vars
<1> SUFFICES ASSUME Inv, Next, session = "completed", stored' # stored PROVE Deleted'
  OBVIOUS
<1>1. ASSUME NEW u \in Uploads, UploadStep(u) PROVE Deleted'
  <2>1. upload[u] # "idle" /\ document' = document
    BY <1>1 DEF UploadStep, UploadBegin, UploadReset, UploadEnd, UploadWrite, UploadBreaks,
                uploadFrame
  <2>2. Deleted
    BY <2>1 DEF Inv, ExclusiveReceiver
  <2> QED
    BY <2>1, <2>2 DEF Deleted
<1>2. ASSUME NEW c \in Completions, CompleteStep(c) PROVE FALSE
  BY <1>2 DEF CompleteStep, CompleteBegin, CompleteVerify, CompleteEnd, completeFrame
<1>3. ASSUME NEW d \in Deletions, DeleteStep(d) PROVE Deleted'
  BY <1>3 DEF DeleteStep, DeleteBegin, DeleteReplay, DeleteFile, DeleteRecord, CleanupStep,
              Cleanup, CleanupFails, MarkFailed, Inv, DeletersFollow, Deleted
<1> QED
  BY <1>1, <1>2, <1>3 DEF Next, Index, Trace, SessionExpires, Repair, Crash

\* complete_upload commits while the file may be touched by nobody: no PUT is under way
\* in a session that is "uploaded", and none begins once it is "completed".
THEOREM FileIsFrozen == Spec => CompletedFileIsFrozen
BY InvInit, InvNext, FrozenStep, PTL DEF Spec, CompletedFileIsFrozen

=============================================================================
