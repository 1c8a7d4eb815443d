------------------------------ MODULE JobLease ------------------------------
(***************************************************************************)
(* The server side of the parse-job protocol: JobService and               *)
(* JobRepository (modules/jobs), the ingestion of a completed attempt      *)
(* (modules/ingestion/revisions.py) and the operations that create,        *)
(* cancel and purge jobs (courses/documents.py, api/routers/workspace.py,  *)
(* deletion/cleanup.py).                                                   *)
(*                                                                         *)
(* Every action is one committed PostgreSQL transaction: the handlers lock *)
(* the job row first (SELECT ... FOR UPDATE) and commit all their writes   *)
(* together, and a handler that raises rolls back, which is a stutter.     *)
(*                                                                         *)
(* The clients are unconstrained: a worker may issue any command under any *)
(* lease it was ever granted, at any later time and any number of times.   *)
(* That covers late and repeated requests, workers that stall and wake up  *)
(* after their lease was given to another, and workers that never return.  *)
(*                                                                         *)
(* Time is abstracted to what the handlers compare: "expired" is           *)
(* lease_expires_at <= now and "due" is available_at <= now.  Both become  *)
(* TRUE at an arbitrary moment after the handler that set the deadline.    *)
(***************************************************************************)
EXTENDS Naturals, FiniteSets

CONSTANTS
    Docs,          \* documents of the system
    Jobs,          \* identifiers for rows of parse_jobs
    Workers,       \* worker identities
    OcrWorkers,    \* the workers that advertise the ocr-v1 profile
    ImageDocs,     \* documents whose media type is image/*
    ExcludedDocs,  \* documents with the corpus role "excluded"
    MaxPages,      \* bound on the pages of a document
    PageCount,     \* the number of pages each document really has
    MaxAttempts,   \* settings.job_max_attempts
    NoWorker,      \* lease_owner_id IS NULL
    NoJob          \* preview_revision_id IS NULL, no latest job

ASSUME ConstantsOK ==
    /\ MaxPages \in Nat \ {0}
    /\ MaxAttempts \in Nat \ {0}
    /\ PageCount \in [Docs -> 1..MaxPages]
    /\ OcrWorkers \subseteq Workers
    /\ ImageDocs \subseteq Docs
    /\ ExcludedDocs \subseteq Docs
    /\ NoWorker \notin Workers
    /\ NoJob \notin Jobs

Pages == 1..MaxPages
Attempts == 1..MaxAttempts

VARIABLES
    job,         \* parse_jobs
    doc,         \* documents
    checkpoint,  \* page_checkpoints, by job, attempt and page
    pageTotal,   \* parse_attempt_results.total_page_count, 0 if no row
    revision,    \* document_revisions by parse_job_id: the attempt each page comes from
    granted      \* every WorkerLease ever returned by claim

vars == <<job, doc, checkpoint, pageTotal, revision, granted>>

-----------------------------------------------------------------------------
(* Rows                                                                    *)

Live == {"queued", "leased", "parsing", "retry_wait"}
Terminal == {"succeeded", "partial_failed", "failed", "cancelled"}
Held == {"leased", "parsing"}

\* "none" is a row not inserted yet, "purged" one deleted by the cleanup.
JobStatus == {"none", "purged"} \cup Live \cup Terminal

Profile == {"native-v1", "ocr-v1"}

JobRow == [doc       : Docs,
           status    : JobStatus,
           version   : Nat,              \* state_version
           attempt   : 0..MaxAttempts,
           lease     : Nat,              \* lease_version
           owner     : Workers \cup {NoWorker},
           token     : Nat,              \* lease_token_hash, 0 for NULL
           expired   : BOOLEAN,          \* lease_expires_at <= now
           due       : BOOLEAN,          \* available_at <= now
           epoch     : {0, 1},           \* document_deletion_epoch
           profile   : Profile,
           requested : SUBSET Pages,     \* requested_pages
           total     : 0..MaxPages]      \* progress.total_pages, 0 if absent

DocStatus == {"uploading", "uploaded", "queued", "processing", "failed", "partial_failed",
              "parsed_index_blocked", "deleting"}

DocRow == [status  : DocStatus,
           epoch   : {0, 1},
           deleted : BOOLEAN,
           preview : Jobs \cup {NoJob},
           latest  : Jobs \cup {NoJob}]

\* status and error_code of a page_checkpoints row, "none" without a row
PageState == {"none", "succeeded", "ocr_required", "failed"}

Lease == [job : Jobs, worker : Workers, version : Nat, attempt : Attempts,
          epoch : {0, 1}, requested : SUBSET Pages]

NoCheckpoints == [a \in Attempts |-> [p \in Pages |-> "none"]]
NoTotals == [a \in Attempts |-> 0]
NoRevision == [p \in Pages |-> 0]

TypeOK ==
    /\ job \in [Jobs -> JobRow]
    /\ doc \in [Docs -> DocRow]
    /\ checkpoint \in [Jobs -> [Attempts -> [Pages -> PageState]]]
    /\ pageTotal \in [Jobs -> [Attempts -> 0..MaxPages]]
    /\ revision \in [Jobs -> [Pages -> 0..MaxAttempts]]
    /\ granted \subseteq Lease

\* A row to be inserted for document d
Absent(d) == [doc |-> d, status |-> "none", version |-> 0, attempt |-> 0, lease |-> 0,
              owner |-> NoWorker, token |-> 0, expired |-> FALSE, due |-> FALSE,
              epoch |-> 0, profile |-> "native-v1", requested |-> {}, total |-> 0]

Init ==
    /\ job \in [Jobs -> {Absent(d) : d \in Docs}]
    /\ doc = [d \in Docs |-> [status |-> "uploading", epoch |-> 0,
                              deleted |-> FALSE, preview |-> NoJob,
                              latest |-> NoJob]]
    /\ checkpoint = [j \in Jobs |-> NoCheckpoints]
    /\ pageTotal = [j \in Jobs |-> NoTotals]
    /\ revision = [j \in Jobs |-> NoRevision]
    /\ granted = {}

-----------------------------------------------------------------------------
(* Creating a job                                                          *)

\* The row enqueue_parse_job inserts for document d.
NewJob(d, profile, pages) ==
    [doc |-> d, status |-> "queued", version |-> 1, attempt |-> 0,
     lease |-> 0, owner |-> NoWorker, token |-> 0, expired |-> FALSE,
     due |-> TRUE, epoch |-> doc[d].epoch, profile |-> profile,
     requested |-> pages, total |-> 0]

Enqueue(d, j, profile, pages) ==
    /\ job[j].status = "none"
    /\ job[j].doc = d
    /\ ~doc[d].deleted
    /\ job' = [job EXCEPT ![j] = NewJob(d, profile, pages)]
    /\ doc' = [doc EXCEPT ![d] = [doc[d] EXCEPT !.status = "queued", !.latest = j]]
    /\ UNCHANGED <<checkpoint, pageTotal, revision, granted>>

DefaultProfile(d) == IF d \in ImageDocs THEN "ocr-v1" ELSE "native-v1"

\* DocumentService.complete_upload: the first job of a document.
CompleteUpload(d, j) ==
    /\ doc[d].status = "uploading" /\ d \notin ExcludedDocs
    /\ Enqueue(d, j, DefaultProfile(d), {})

\* An excluded document is not parsed unless somebody asks for it.
CompleteExcluded(d) ==
    /\ doc[d].status = "uploading" /\ d \in ExcludedDocs
    /\ doc' = [doc EXCEPT ![d].status = "uploaded"]
    /\ UNCHANGED <<job, checkpoint, pageTotal, revision, granted>>

\* Mutant: a job that waits for a retry does not stop a reparse
MayReparseWaiting(d) ==
    LET last == doc[d].latest IN
    last # NoJob /\ job[last].status \notin Held \cup {"queued"}

\* The upload is complete, and the latest job has ended.
MayReparse(d) ==
    LET last == doc[d].latest IN
    \/ last = NoJob /\ doc[d].status = "uploaded"
    \/ last # NoJob /\ job[last].status \in Terminal

\* The reparse endpoint keeps ocr-v1 once the latest job needed it; the pages it
\* may name are checked against the page count only when a revision exists.  (It also
\* wants the document approved, which may happen at any time and which nothing else
\* here depends on.)
Reparse(d, j, pages) ==
    LET last == doc[d].latest IN
    /\ MayReparse(d)
    /\ doc[d].preview # NoJob => pages \subseteq 1..PageCount[d]
    /\ Enqueue(d, j,
               IF last # NoJob /\ job[last].profile = "ocr-v1" THEN "ocr-v1"
                                                             ELSE DefaultProfile(d),
               pages)

-----------------------------------------------------------------------------
(* Claiming a job                                                          *)

\* Mutant: a page that failed counts as done
CheckpointedPages(j) ==
    {p \in Pages : \E a \in Attempts : checkpoint[j][a][p] # "none"}

\* Pages with a succeeded checkpoint in any attempt of job j.
SucceededPages(j) ==
    {p \in Pages : \E a \in Attempts : checkpoint[j][a][p] = "succeeded"}

\* JobRepository.remaining_requested_pages
RemainingPages(j) ==
    LET original == IF job[j].requested # {} THEN job[j].requested
                                             ELSE 1..job[j].total
    IN  original \ SucceededPages(j)

Capable(w, j) == job[j].profile = "native-v1" \/ w \in OcrWorkers

\* Mutant: a lease is taken over before it expired
AvailableHeld(j) ==
    LET d == job[j].doc IN
    /\ \/ job[j].status \in {"queued", "retry_wait"} /\ job[j].due
       \/ job[j].status \in Held
    /\ ~doc[d].deleted
    /\ doc[d].epoch = job[j].epoch

\* JobRepository.claim_candidate, without its order and its LIMIT 1
Available(j) ==
    LET d == job[j].doc IN
    /\ \/ job[j].status \in {"queued", "retry_wait"} /\ job[j].due
       \/ job[j].status \in Held /\ job[j].expired
    /\ ~doc[d].deleted
    /\ doc[d].epoch = job[j].epoch

\* Mutant: off by one
ExhaustedLate(j) == job[j].status # "queued" /\ job[j].attempt > MaxAttempts

\* The candidates claim fails instead of leasing
Exhausted(j) == job[j].status # "queued" /\ job[j].attempt >= MaxAttempts

\* Mutant: the owner of the lease survives it
ClearToken(row) == [row EXCEPT !.token = 0, !.expired = FALSE]

ClearLease(row) == [row EXCEPT !.owner = NoWorker, !.token = 0, !.expired = FALSE]

FailedRow(row) ==
    [ClearLease(row) EXCEPT !.status = "failed", !.version = row.version + 1]

\* A requeue (one state_version more) precedes the lease unless the job was queued.
LeasedRow(row, w, pages) ==
    [row EXCEPT !.status = "leased",
                !.version = IF row.status = "queued" THEN @ + 1 ELSE @ + 2,
                !.requested = pages,
                !.attempt = @ + 1,
                !.lease = @ + 1,
                !.owner = w,
                !.token = row.lease + 1,
                !.expired = FALSE]

\* Mutant: the lease names the pages requested before, not the remaining ones
GrantedOldRequest(j, w) ==
    [job |-> j, worker |-> w, version |-> job[j].lease + 1,
     attempt |-> job[j].attempt + 1, epoch |-> job[j].epoch,
     requested |-> job[j].requested]

GrantedLease(j, w) ==
    [job |-> j, worker |-> w, version |-> job[j].lease + 1,
     attempt |-> job[j].attempt + 1, epoch |-> job[j].epoch,
     requested |-> RemainingPages(j)]

\* JobService.claim that ends with a lease on j.  The same transaction fails the
\* exhausted candidates it met before j (its loop "continue"s past them).
ClaimLease(w, j, passed) ==
    /\ Available(j) /\ Capable(w, j) /\ ~Exhausted(j)
    /\ \A k \in passed : Available(k) /\ Capable(w, k) /\ Exhausted(k)
    /\ job' = [k \in Jobs |->
                 IF k = j THEN LeasedRow(job[k], w, RemainingPages(k))
                 ELSE IF k \in passed THEN FailedRow(job[k])
                 ELSE job[k]]
    /\ doc' = [d \in Docs |->
                 IF \E k \in passed : job[k].doc = d
                 THEN [doc[d] EXCEPT !.status = "failed"]
                 ELSE doc[d]]
    /\ granted' = granted \cup {GrantedLease(j, w)}
    /\ UNCHANGED <<checkpoint, pageTotal, revision>>

\* JobService.claim that finds only exhausted candidates (the others are not
\* available, beyond the worker's capabilities, or locked and skipped).
ClaimNothing(w, passed) ==
    /\ passed # {}
    /\ \A k \in passed : Available(k) /\ Capable(w, k) /\ Exhausted(k)
    /\ job' = [k \in Jobs |-> IF k \in passed THEN FailedRow(job[k]) ELSE job[k]]
    /\ doc' = [d \in Docs |->
                 IF \E k \in passed : job[k].doc = d
                 THEN [doc[d] EXCEPT !.status = "failed"]
                 ELSE doc[d]]
    /\ UNCHANGED <<checkpoint, pageTotal, revision, granted>>

-----------------------------------------------------------------------------
(* Commands under a lease                                                  *)

\* Mutant: the worker owns the job, under whichever of its leases
OwnsJob(l) ==
    LET row == job[l.job]
        d   == doc[row.doc] IN
    /\ ~d.deleted
    /\ row.status \in Held
    /\ row.owner = l.worker
    /\ ~row.expired

\* JobService._assert_active_lease
ActiveLease(l) ==
    LET row == job[l.job]
        d   == doc[row.doc] IN
    /\ ~d.deleted
    /\ d.epoch = l.epoch
    /\ row.epoch = l.epoch
    /\ row.status \in Held
    /\ row.owner = l.worker
    /\ row.lease = l.version
    /\ row.attempt = l.attempt
    /\ ~row.expired
    /\ row.token = l.version

SetDocStatus(j, status) == [doc EXCEPT ![job[j].doc].status = status]

StartedRow(row) ==
    [row EXCEPT !.status = "parsing", !.version = row.version + 1, !.expired = FALSE]

Start(l) ==
    LET j == l.job IN
    /\ ActiveLease(l)
    /\ job[j].status = "leased"
    /\ job' = [job EXCEPT ![j] = StartedRow(job[j])]
    /\ doc' = SetDocStatus(j, "processing")
    /\ UNCHANGED <<checkpoint, pageTotal, revision, granted>>

\* What a worker reports as total_pages: nothing, the length of its own
\* request before parsing begins, or the page count once it is known.
ReportedTotals(l) == {0, Cardinality(l.requested), PageCount[job[l.job].doc]}

AliveRow(row, total) == [row EXCEPT !.total = total, !.expired = FALSE]

Heartbeat(l, total) ==
    LET j == l.job IN
    /\ ActiveLease(l)
    /\ job[j].status = "parsing"
    /\ job' = [job EXCEPT ![j] = AliveRow(job[j], total)]
    /\ UNCHANGED <<doc, checkpoint, pageTotal, revision, granted>>

\* A second checkpoint of a page in one attempt is refused unless identical.
Checkpoint(l, p, state) ==
    LET j == l.job IN
    /\ ActiveLease(l)
    /\ job[j].status = "parsing"
    /\ checkpoint[j][l.attempt][p] = "none"
    /\ checkpoint' = [checkpoint EXCEPT ![j][l.attempt][p] = state]
    /\ UNCHANGED <<job, doc, pageTotal, revision, granted>>

\* The row of an attempt that ended without a revision: due again after a delay, or
\* in its terminal status.
EndedRow(row, retrying, status) ==
    [ClearLease(row) EXCEPT !.status = IF retrying THEN "retry_wait" ELSE status,
                            !.version = row.version + 1,
                            !.due = row.due /\ ~retrying]

\* JobService.fail
Fail(l, retryable) ==
    LET j == l.job
        retrying == retryable /\ job[j].attempt < MaxAttempts IN
    /\ ActiveLease(l)
    /\ job' = [job EXCEPT ![j] = EndedRow(job[j], retrying, "failed")]
    /\ doc' = SetDocStatus(j, IF retrying THEN "queued" ELSE "failed")
    /\ UNCHANGED <<checkpoint, pageTotal, revision, granted>>

-----------------------------------------------------------------------------
(* Completing an attempt                                                   *)

CoveredPages(j, a) == {p \in Pages : checkpoint[j][a][p] # "none"}

\* RevisionService._validate_attempt_claims and _validate_attempt_pages, with
\* the contract of ParseAttemptResult: the attempt answers exactly the request
\* of the lease, covers exactly the pages it checkpointed, and agrees with the
\* earlier attempts on the page count.
AttemptAccepted(j, a, total) ==
    LET asked == IF job[j].requested # {} THEN job[j].requested ELSE 1..total IN
    /\ asked \subseteq 1..total
    /\ CoveredPages(j, a) \subseteq asked
    /\ \A b \in Attempts : pageTotal[j][b] \in {0, total}

MissingPages(j, total) == 1..total \ SucceededPages(j)

\* Mutant: each page from the oldest attempt that parsed it
OldestPages(j, total) ==
    {from \in [Pages -> 0..MaxAttempts] : \A p \in Pages :
        IF p > total THEN from[p] = 0
        ELSE /\ from[p] # 0
             /\ checkpoint[j][from[p]][p] = "succeeded"
             /\ \A a \in Attempts : a < from[p] => checkpoint[j][a][p] # "succeeded"}

\* RevisionService._collect_verified_pages: each page from the newest attempt with a
\* succeeded checkpoint of it
NewestPages(j, total) ==
    {from \in [Pages -> 0..MaxAttempts] : \A p \in Pages :
        IF p > total THEN from[p] = 0
        ELSE /\ from[p] # 0
             /\ checkpoint[j][from[p]][p] = "succeeded"
             /\ \A a \in Attempts : a > from[p] => checkpoint[j][a][p] # "succeeded"}

SucceededRow(row, total) ==
    [ClearLease(row) EXCEPT !.status = "succeeded", !.version = row.version + 1,
                            !.total = total]

\* Every page was parsed: the job succeeds and its revision becomes the preview.
CompleteWhole(l) ==
    LET j == l.job
        d == job[j].doc
        total == PageCount[d] IN
    /\ ActiveLease(l)
    /\ job[j].status = "parsing"
    /\ AttemptAccepted(j, l.attempt, total)
    /\ MissingPages(j, total) = {}
    /\ pageTotal' = [pageTotal EXCEPT ![j][l.attempt] = total]
    /\ \E from \in NewestPages(j, total) : revision' = [revision EXCEPT ![j] = from]
    /\ job' = [job EXCEPT ![j] = SucceededRow(job[j], total)]
    /\ doc' = [doc EXCEPT ![d] =
                 [doc[d] EXCEPT !.status = "parsed_index_blocked", !.preview = j]]
    /\ UNCHANGED <<checkpoint, granted>>

\* A native attempt whose missing pages all need OCR is retried with ocr-v1.
RetryProfile(j, a, missing) ==
    IF /\ job[j].profile = "native-v1"
       /\ job[j].attempt < MaxAttempts
       /\ \A p \in missing : checkpoint[j][a][p] = "ocr_required"
    THEN "ocr-v1"
    ELSE job[j].profile

PartialRow(row, total, missing, profile) ==
    [row EXCEPT !.requested = missing, !.total = total, !.profile = profile]

\* Pages are missing: retried for exactly those pages while attempts remain.
CompletePartial(l) ==
    LET j == l.job
        total == PageCount[job[j].doc]
        missing == MissingPages(j, total)
        retrying == job[j].attempt < MaxAttempts IN
    /\ ActiveLease(l)
    /\ job[j].status = "parsing"
    /\ AttemptAccepted(j, l.attempt, total)
    /\ missing # {}
    /\ pageTotal' = [pageTotal EXCEPT ![j][l.attempt] = total]
    /\ job' = [job EXCEPT ![j] =
                 PartialRow(EndedRow(job[j], retrying, "partial_failed"),
                            total, missing, RetryProfile(j, l.attempt, missing))]
    /\ doc' = SetDocStatus(j, IF retrying THEN "queued" ELSE "partial_failed")
    /\ UNCHANGED <<checkpoint, revision, granted>>

-----------------------------------------------------------------------------
(* Deleting a document                                                     *)

CancelledRow(row) ==
    [ClearLease(row) EXCEPT !.status = "cancelled", !.version = row.version + 1,
                            !.lease = row.lease + 1]

\* Mutant: a job that waits for its retry is forgotten
RunningJobs(d) == {j \in Jobs : job[j].doc = d /\ job[j].status \in {"queued"} \cup Held}

\* The jobs cancel_document_jobs selects
CancelledJobs(d) == {j \in Jobs : job[j].doc = d /\ job[j].status \in Live}

DeletedRow(row) ==
    [row EXCEPT !.deleted = TRUE, !.status = "deleting", !.epoch = 1, !.preview = NoJob]

\* DocumentService.delete with cancel_document_jobs
DeleteDocument(d) ==
    /\ ~doc[d].deleted
    /\ doc' = [doc EXCEPT ![d] = DeletedRow(doc[d])]
    /\ job' = [j \in Jobs |-> IF j \in CancelledJobs(d) THEN CancelledRow(job[j])
                                                        ELSE job[j]]
    /\ UNCHANGED <<checkpoint, pageTotal, revision, granted>>

\* DeletionCleanupService: DELETE FROM parse_jobs cascades to the checkpoints and
\* attempt results; the revisions of the document are deleted as well.
CleanupDocument(d) ==
    LET mine == {j \in Jobs : job[j].doc = d /\ job[j].status \in Terminal} IN
    /\ doc[d].deleted
    /\ mine # {}
    /\ job' = [j \in Jobs |-> IF j \in mine THEN [job[j] EXCEPT !.status = "purged"]
                                            ELSE job[j]]
    /\ checkpoint' = [j \in Jobs |-> IF j \in mine THEN NoCheckpoints ELSE checkpoint[j]]
    /\ pageTotal' = [j \in Jobs |-> IF j \in mine THEN NoTotals ELSE pageTotal[j]]
    /\ revision' = [j \in Jobs |-> IF j \in mine THEN NoRevision ELSE revision[j]]
    /\ UNCHANGED <<doc, granted>>

-----------------------------------------------------------------------------
(* Time                                                                    *)

LeaseExpires(j) ==
    /\ job[j].status \in Held /\ ~job[j].expired
    /\ job' = [job EXCEPT ![j].expired = TRUE]
    /\ UNCHANGED <<doc, checkpoint, pageTotal, revision, granted>>

BecomesDue(j) ==
    /\ job[j].status = "retry_wait" /\ ~job[j].due
    /\ job' = [job EXCEPT ![j].due = TRUE]
    /\ UNCHANGED <<doc, checkpoint, pageTotal, revision, granted>>

-----------------------------------------------------------------------------

\* The steps of the workers' requests
ClaimStep ==
    \E w \in Workers, passed \in SUBSET Jobs :
        \/ \E j \in Jobs : ClaimLease(w, j, passed)
        \/ ClaimNothing(w, passed)

CommandStep ==
    \E l \in granted :
        \/ Start(l)
        \/ \E total \in ReportedTotals(l) : Heartbeat(l, total)
        \/ \E p \in Pages, s \in PageState \ {"none"} : Checkpoint(l, p, s)
        \/ \E retryable \in BOOLEAN : Fail(l, retryable)
        \/ CompleteWhole(l)
        \/ CompletePartial(l)

UserStep ==
    \E d \in Docs :
        \/ \E j \in Jobs : CompleteUpload(d, j)
        \/ CompleteExcluded(d)
        \/ \E j \in Jobs, pages \in SUBSET Pages : Reparse(d, j, pages)
        \/ DeleteDocument(d)
        \/ CleanupDocument(d)

TimeStep == \E j \in Jobs : LeaseExpires(j) \/ BecomesDue(j)

Next == ClaimStep \/ CommandStep \/ UserStep \/ TimeStep

Spec == Init /\ [][Next]_vars

-----------------------------------------------------------------------------
(* What the protocol promises                                              *)

\* Fencing.  However many leases on a job were handed out, whichever of their
\* holders crashed, stalled or came back late, the server obeys at most one of
\* them (_assert_active_lease), and that one is held by a worker able to do it.
OneActiveLease ==
    /\ \A l, m \in granted :
         l.job = m.job /\ ActiveLease(l) /\ ActiveLease(m) => l = m
    /\ \A l \in granted : ActiveLease(l) => Capable(l.worker, l.job)

\* The lease columns of a row are set exactly while the job is held, and then they
\* are those of a lease that claim really returned for this attempt, with the very
\* pages the row asks for: the page list a worker got is the one complete checks.
RowMatchesLease ==
    \A j \in Jobs :
        /\ job[j].owner # NoWorker <=> job[j].status \in Held
        /\ job[j].owner = NoWorker => job[j].token = 0 /\ ~job[j].expired
        /\ job[j].status \in Held =>
             \E l \in granted :
                /\ l.job = j /\ l.worker = job[j].owner
                /\ l.attempt = job[j].attempt
                /\ l.version = job[j].lease /\ l.version = job[j].token
                /\ l.requested = job[j].requested

\* A deleted document is quiet: none of its jobs can run again, no worker holds an
\* obeyed lease on it, and nothing a worker did afterwards gave it a preview.
DeletedIsQuiet ==
    \A d \in Docs : doc[d].deleted =>
        /\ \A j \in Jobs : job[j].doc = d => job[j].status \notin Live
        /\ \A l \in granted : job[l.job].doc = d => ~ActiveLease(l)
        /\ doc[d].preview = NoJob
        /\ doc[d].status = "deleting"

\* uq_parse_jobs_document_nonterminal holds without ever being relied on: a document
\* has one live job at most, and it is the one the reparse endpoint looks at.
OneLiveJob ==
    \A j \in Jobs : job[j].status \in Live => doc[job[j].doc].latest = j

\* A revision takes every page of the document from the newest attempt that parsed
\* it, although the attempts were cut short by crashes and overlap: no page is
\* missing, none comes from a failed page, and only a succeeded job has one.
RevisionIsWhole ==
    \A j \in Jobs : revision[j] # NoRevision =>
        /\ job[j].status = "succeeded"
        /\ \A p \in Pages : IF p > PageCount[job[j].doc] THEN revision[j][p] = 0
             ELSE /\ revision[j][p] \in 1..job[j].attempt
                  /\ checkpoint[j][revision[j][p]][p] = "succeeded"
                  /\ \A a \in Attempts : a > revision[j][p] =>
                        checkpoint[j][a][p] # "succeeded"

\* Resuming loses no page: when the first attempt was asked for the whole document,
\* a later lease that names pages names every page not parsed so far, however the
\* attempts between were cut short and whatever total_pages they reported.
ResumeCoversMissing ==
    \A l \in granted :
        LET j == l.job IN
        l.attempt = 1 /\ l.requested = {} /\ job[j].status \in Live /\ job[j].requested # {}
            => \A p \in 1..PageCount[job[j].doc] \ job[j].requested :
                  \E a \in Attempts : checkpoint[j][a][p] = "succeeded"

-----------------------------------------------------------------------------
(* Refinement of FencedTask                                                *)

Phase(j) ==
    LET s == job[j].status IN
    IF s = "none" THEN "absent"
    ELSE IF s = "purged" THEN "discarded"
    ELSE IF s \in Held THEN "held"
    ELSE IF s \in Terminal THEN "done"
    ELSE "waiting"

Task(j) == INSTANCE FencedTask WITH
    MaxTries <- MaxAttempts,
    phase <- Phase(j),
    tries <- job[j].attempt,
    holder <- job[j].owner,
    found <- [a \in Attempts |-> CoveredPages(j, a)]

\* Every parse job is a fenced task: seen from its results, the lease protocol with
\* its crashes, expiries, late commands and deletions does nothing else.  (The
\* conjunction over Jobs of Task(j)!Spec, with one box.)
JobsAreFencedTasks ==
    /\ \A j \in Jobs : Task(j)!Init
    /\ [][\A j \in Jobs : [Task(j)!Next]_(Task(j)!vars)]_vars
=============================================================================
