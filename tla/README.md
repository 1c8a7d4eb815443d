# Final-exam study agent: specifications

TLA+ models of the protocols of this repository, TLC runs that check them on
small instances, and theorems proved with TLAPS. Paths below are relative to
`services/api/src/study_agent/` unless they start with `services/`, `apps/`,
`packages/`, `docs/` or `infra/`.

The program lets students upload course material, parses it page by page in
separate workers, indexes it (dense vectors and BM25), answers questions with
citations and writes notes. Its own logic is mostly *protocol*: rows in
PostgreSQL that several processes move through states, with files beside the
database that no transaction covers.

## 1. Inventory

| Component | State | Operations | Talks to | Hard behaviour | What makes it correct |
|---|---|---|---|---|---|
| Parse jobs, `modules/jobs` (service, repository, state_machine) | `parse_jobs`, `page_checkpoints`, `parse_attempt_results`, leases | enqueue, claim, start, heartbeat, checkpoint, complete, fail, cancel | workers over HTTP; documents; ingestion; events | leases that expire under a slow worker, late and repeated commands, partial attempts, retries | one obeyed lease; attempts used up by faults only; no page lost; every job ends |
| Artifact upload (same service) | `job_artifacts`, object store | upload_artifact | storage, lease check | object written before the row; lease lost in between | no row without object; at most an orphan object |
| Job events, `modules/jobs/events.py`, `api/routers/job_events.py` | `job_events` (expiring) | append, events_after, SSE stream | every job transition | readers that return after the retention | a gap is reported, never skipped |
| Worker presence, waiter, `modules/jobs/presence.py` | in-memory registry | observe, capabilities | claim | capacity, expiry | OCR offered only by a live worker |
| Ingestion, `modules/ingestion/revisions.py`, `chunker.py` | `document_revisions`, pages, chunks | ingest_attempt | complete | pages of overlapping attempts | a revision holds each page once, from the newest good attempt |
| Documents, `modules/courses/documents.py`, `storage/local.py` | `documents`, `upload_sessions`, the file | create_upload, upload_stream, complete_upload, delete | storage, jobs, deletion | three-phase handlers around a file | session and document agree; verified bytes; no file left |
| Deletion, `modules/deletion/cleanup.py` | `deletion_jobs` | cleanup | storage, index, jobs, answers, notes | partial failures, retries, writers racing it | "completed" means gone; retry possible |
| Review and reparse, `modules/admin/document_review.py`, `api/routers/workspace.py` | review status | review, retry_document_parse | jobs, index jobs | reparse beside a live job | one live job a document |
| Index jobs and runner, `modules/ingestion/index_repository.py`, `index_runner.py`, `activation.py`, `runner.py` | `index_jobs`, embeddings, manifests, directories, course pointer | claim, embed, build, register, activate, fail, block, resume | providers, disk, documents | minutes between read and switch; lost leases; crashes | pointer, manifests and active revisions agree; every job settles |
| Retrieval, `modules/retrieval` | `retrieval_traces` | lexical, dense, RRF, trace | active manifest | index replaced under a query | one generation per query |
| Answering, `modules/answering` | `query_runs`, quotes, dependencies | create, retrieve, generate, validate, finalize | retrieval, provider, deletion | provider timeouts, sources deleted meanwhile | no answer rests on a deleted source |
| Notes, `modules/notes` | notes, versions, snapshots, sources, batches with items, inputs, outputs and events | create and regenerate a batch, run, recover, edit, answer, delete | provider, deletion, idempotency | in-process tasks, restarts, double starts, edits during generation | a batch ends once; no writing lost; sources are current when saved; no quote after a cleanup |
| Idempotency, `modules/idempotency` | idempotency records | lock, load, store | all commands | expiry of records, concurrent repeats | a repeated command answers as the first |
| Accounts, `modules/auth`, `identity/session.py`, `api/routers/auth.py` | `accounts`, `registration_invitations`, `account_sessions` | bootstrap, register, invite, revoke, login, logout, update | advisory locks | requests resolved before the lock is granted, seats held by invitations that expire | never more seats than the capacity; an administrator is left; a suspended account is out |
| Knowledge graph, `modules/knowledge_graph` | none | read-only view | documents, notes | - | - |
| Providers, `providers` | configuration | embed, complete | network | failures, timeouts | errors classified |
| Parse worker, `services/worker` (poller, runtime, artifacts) | in-flight task, heartbeat, deadline | poll, execute, upload, report | job API | end of task, heartbeat, stop and deadline in any order; lost answers | an obeyed worker is never refused; documents get parsed |
| Parsers and OCR, `services/worker` (sandbox, parsers, profiles/paddle) | sandbox, child process, OCR profile and its readiness markers | run a child, read its result, package, kill | the worker's task | children that hang or die, an upgrade of the profile, cancellation | a result is of its own page and child; nothing runs on; transient errors are retried |
| Database schema, `infrastructure/db`, `services/api/alembic` | tables, `alembic_version` | 13 upgrades and downgrades | every component | rows that an older or newer schema does not allow; a run that is killed | each script fits the rows it meets; the head is what the classes declare |
| Wire contracts, `packages/contracts` | - | validation | both sides | - | shape of leases and attempt results |
| Web application, `apps/web` | caches | pages | API | - | shows what a status means |

`PROJECT.json` lists each with the modules that model it, and under `hazards`
the places where it is hard to test.

## 2. Modules

| Module | Models |
|---|---|
| `FencedTask` | abstract: what the queue promises about one parse job |
| `JobLease` | the parse-job protocol of the server; implements `FencedTask` for each job |
| `JobLeaseProofs` | theorems about `JobLease`: types, fencing, the jobs of a document, revisions and resumed attempts, and that each job implements `FencedTask` |
| `ParseWorker` | extends `JobLease` by the workers as their program is, and by the artifacts they upload |
| `ParseWorkerProofs` | theorems about the composition: the workers keep to the protocol, and what both sides promise only together |
| `PageParsing` | inside one task of a worker: children, sandbox, OCR profile |
| `PageParsingProofs` | theorems about `PageParsing` |
| `DocumentStorage` | the stored file of one document, from upload to deletion |
| `DocumentStorageProofs` | theorems about `DocumentStorage` |
| `IndexPipeline` | index jobs, runners, activation, traces and cleanup of one course; implements `SearchableCourse` |
| `SearchableCourse` | abstract: what a course promises to those who ask it questions |
| `IndexPipelineProofs` | theorems about `IndexPipeline`, and that it implements `SearchableCourse` |
| `QueryRun` | questions from the request to the stored answer, against switches of the index, deletion and cleanup; implements `SearchableCourse` |
| `QueryRunProofs` | theorems about `QueryRun`, and that it implements `SearchableCourse` |
| `NoteBatch` | the batches that generate notes, the tasks that run them, edits and answers beside them |
| `NoteBatchProofs` | theorems about `NoteBatch` |
| `Accounts` | accounts, invitations, sessions and the requests that compete for them |
| `AccountsProofs` | theorems about `Accounts` |
| `Schema` | tables, keys, references, and the statements that change them |
| `SchemaModels` | the schema the ORM classes declare |
| `SchemaRevisions` | the thirteen migrations, up and down, as statements of `Schema` |
| `SchemaMigrations` | a database that is migrated and used, with its rows; composes the three before |
| `MCJobLease`, `MCParseWorker`, `MCDocumentStorage`, `MCIndexPipeline`, `MCQueryRun`, `MCNoteBatch`, `MCAccounts`, `MCPageParsing`, `MCSchemaMigrations` | the instances for TLC |

How they fit together: `ParseWorker` is the composition of a client with the server
`JobLease`; `PageParsing` opens up its single step `ParsePage`. What `JobLease`
does to a document (`CompleteWhole`) is `ParseSucceeds` in `IndexPipeline`; what
`IndexPipeline` does to a course (`Activate`) is `Switch` in `QueryRun`, and both
are `Switch` of the abstract `SearchableCourse`. The
cleanup of a document appears in each module with the data of that module.

Definitions under a comment "Mutant" are the code with a plausible bug. Nothing
in the specifications uses them: they document, for each property, a change of
the code that the property detects.

### JobLease

*Granularity.* Each handler of `modules/jobs/service.py` locks its row with
`SELECT ... FOR UPDATE` and commits once, so it is one action; an exception
rolls back and is a stutter.

| Action | Code |
|---|---|
| `CompleteUpload`, `CompleteExcluded`, `Reparse` (with `Enqueue`, `NewJob`) | `enqueue_parse_job`, called by `complete_upload` and `retry_document_parse` |
| `ClaimLease`, `ClaimNothing` | `claim` with `claim_candidate`, including the exhausted jobs the loop fails on its way |
| `Start`, `Heartbeat`, `Checkpoint`, `Fail` | the handlers of the same names |
| `CompleteWhole`, `CompletePartial` | `complete` with `ingest_attempt` |
| `DeleteDocument`, `CleanupDocument` | `delete` with `cancel_document_jobs`; the job part of the cleanup |
| `LeaseExpires`, `BecomesDue` | the clock passing `lease_expires_at`, `available_at` |

*State.* `job`, `doc`, `checkpoint`, `pageTotal` and `revision` are the tables;
`granted` remembers every lease `claim` returned. Clients are unconstrained: a
worker may send any command under any lease it was ever granted, at any later
time and as often as it likes. That one abstraction covers stalled workers, lost
answers, retries and restarts of the worker.

*Abstracted.* Times become the two comparisons the code makes. Page text,
artifacts, fingerprints and hashes are not there: what `_validate_attempt_*`
compares is, as `AttemptAccepted`. The token is the lease version it was issued
with. The order of `claim_candidate` is left open (any available job may be the
candidate), which allows more than the code does. Idempotent replays are not
modelled: they return a stored answer and change nothing. Pages beyond
`PageCount` may be asked for by a first reparse, as in the code.

### ParseWorker

Extends `JobLease`, so its server steps are the very actions above. A worker
(`worker[w]`) is at one of the moments of `Poller._process`: starting, fetching
the input, then for each page parsing, uploading, recording, checkpointing, at
last completing, or failing. It keeps its lease, the pages it has to do, the
quality of the page at hand and the `total_pages` its reporter last knew.

| Action | Code |
|---|---|
| `Claim`, `ClaimInVain`, `StartTask`, `FetchInput` | `Poller.run_once`, the claim endpoint without a job, `_process`, `download_input` |
| `ParsePage`, `PutObject`, `RecordArtifact`, `TakeReceipt`, `CheckpointPage` | `NativeTaskHandler`, the two transactions of `upload_artifact` with the put between, `_LeaseReporter.checkpoint` |
| `HeartbeatTask`, `CompleteTask`, `FailTask`, `LoseLease` | the heartbeat loop, `complete`, `_notify_failure`, `LeaseLostError` |
| `ClaimUnanswered`, `Unreachable`, `BreakTask`, `Die`, `Restart` | transport errors (the poller never repeats a command: it backs off and claims), errors of the task, the end of the process |
| `ServeLate` | a command nobody waits for arrives after all |
| `LeaseRunsOut` | expiry; a fault if its worker is still at work |

An upload whose worker or server dies between `PutObject` and `RecordArtifact` leaves an
object without a row in the store, and nothing ever removes it (`service.py:457`).
`ArtifactsAreKept` is about rows, so it says nothing of such orphans.

Every error, stall, death or bad page spends one of `MaxFaults`; what costs no
fault (expiry of an abandoned lease, a retry delay, another worker's claim) may
happen at any time. `AttemptsAreFaults` is about that count. Left out: long polling
and the pause between two claims.

### PageParsing

One task on one host. `StartChild`, `ReadResult`, `PackagePage`, `RefusePage`,
`Overrun`, `ChildFailed` are the loop of `NativeTaskHandler` with
`SandboxedProcessRunner` and `OcrSubprocessParser`; the child steps are what
`subprocess_entry.py` and the Paddle profile's `cli.py` may do: leave a result, leave
half of one, refuse, report that models are not ready, hang, die; `HostStep`
installs another version of the profile and warms it up. The history fields `of`
and `by` of a result say what it is really of, and the code never looks at them
(apart from the page number in a native result).

When the handler fails a task for good, the variable `rejected` holds if a child
of the attempt refused its page (or ended with exit code 0 and no result, which
the code takes for a refusal), and `task.refused` is the result that was rejected. So
`TransientIsRetried` asks of every final failure for a reason of its own: a refusal, or two
results of the attempt that `Disagree` in backend or version. An upgrade of the
profile is no excuse while the pages agree.

A child is the leader of its process group, and the model has the leader only.
`_kill_process_group` (`sandbox.py:264`) returns without a signal when the leader has
already ended, so a process that a leader left behind in its group is not killed by it;
`NothingRunsOn` does not see such processes.

### DocumentStorage

These handlers put a file operation between two transactions, so each of the
parts is an action: `UploadBegin`, `UploadWrite`, `UploadEnd` for
`upload_stream` (with `UploadBreaks` and `UploadReset` for its error path);
`CompleteBegin`, `CompleteVerify`, `CompleteEnd` for `complete_upload`;
`DeleteBegin`, `DeleteFile`, `DeleteRecord`, then `Cleanup`, `CleanupFails`,
`MarkFailed` for the DELETE endpoint, and `DeleteReplay` for its repetition.
`Crash` stops any request for good between two parts; the disk may be broken
from the start (`healthy`), and is then repaired once. The content of the file is
one of absent, declared (what `create_upload` was told) or other.

The derived data (`derived`) is `none`, `parsed`, `indexed` (a manifest holds the document) or
`traced` (a retrieval trace names such a manifest); `CompleteEnd`, `Index` and
`Trace` bring it there.
The cleanup deletes the manifests, and the deferred foreign key of the traces
(`models/retrieval.py:255-261`) makes the commit fail when one is named: `CleanupCommits` is
false for a `traced` document, healthy disk or not, and every cleanup is `CleanupFails`. So
`DerivedDataGoes` promises the removal for documents no trace holds; the other case is the
finding `QueryRun_uncited`.

### IndexPipeline

One course. An action is one transaction of `index_repository.py` or
`activation.py`, or one operation on the index directory. A runner
(`runner[x]`) keeps what `run_once` keeps in local variables: the job and attempt
it claimed, the revisions it read (`seen`), and where it is. Between any two of
its steps documents are parsed again, approved or deleted, other runners work, the
lease runs out or the process dies.

A version id (`<job>-attempt-<n>`) is a record of job and attempt, and names both
the manifest and its directory. Chunks and vectors are abstracted to "revision r
is embedded by model m", which is what `_switch` counts. Parsing appears only as
the transitions it makes on the document row.

### QueryRun

`QueryService.execute` runs one query in a dozen transactions with calls of two
providers between them. Each transaction is an action of the request (`call[q]`
is what it keeps in local variables), and so is each call that can end it:

| Action | Code |
|---|---|
| `Ask`, `StartRetrieval`, `SaveRetrieval`, `StartGeneration`, `Finalize` | `QueryRepository.create`, `start_retrieval`, `save_retrieval`, `start_generation`, `finalize` |
| `FindIndex`, `EmbedFails`, `Authorize` | `PostgresQueryEvidence._active_index`, the provider errors of `retrieve`, `_authorize` |
| `ReadDense`, `ReadLexical`, `SaveTrace` | `DenseRetriever.retrieve`, `LexicalRetriever.retrieve` with `_load`, `PostgresTraceStore.save` |
| `Generate`, `CheckSources` | `TrustedAnswerService.answer` up to and including the source check |
| `Crash` | the API process dies with all its requests and loaded indexes |
| `Switch`, `Delete`, `Cleanup`, `CleanupRollsBack` | what activation, `DocumentService.delete` and the cleanup do to the rows a query reads |

*State.* `row[q]` joins what is stored of a query in `query_runs`,
`retrieval_traces`, `retrieval_snapshots` and `answer_dependencies`: the code
writes one row of each at most. A document revision stands for its chunks. What
the embedding, the ranking, the evidence gate, the language model and the
citation check decide is a choice: any subset of what they were given.

*Why the interleavings matter.* A retrieval reads the pointer of the course when
it starts, again for the lexical search, and again for the source check before and
in `finalize`. The embedding and the generation take seconds each. The
index directory may vanish between the reading of the pointer and the loading,
and the manifest before the trace that names it is written; neither exception is
caught, and the request is `lost` with its row in `retrieving`.

*Abstracted.* Conversations (the recent answers only change the question; whether
a recent answer has been invalidated by the time of `finalize` is not checked by
the code and not modelled), the `document_ids` of a question, events. The
detail of `Switch` is `IndexPipeline`; here it has the effect that
`ActiveIndexMatches` there says it has: the new manifest holds the active
revision of every document that is not deleted.

### SearchableCourse

The meeting point of the two: which revisions of a course are active, what its
index holds and whether the files of it can be read, which documents are deleted and
cleaned up, and what answers cite. There are five steps:

| Step | `IndexPipeline` (`ServesTheCourse`) | `QueryRun` (`AnswersTheCourse`) |
|---|---|---|
| `Switch`: to exactly the active revisions, one of them new or again | `Activate` | `Switch` |
| `Delete` | `Delete` | `Delete` |
| `Withdraw`: the files go, the index stays | `CleanupRollsBack`, if the index holds the document | the same |
| `Cleanup`: the index goes as a whole if it holds the document, and no answer cites it | `Cleanup` | `Cleanup` |
| `Answer`: once, with what is searchable and active at that moment | has no questions | `Finalize`, if it stores an answer |

Everything else is a stutter: parsing, claims, embeddings, directories, registrations,
lost leases, dead runners, and the dozen transactions before an answer. In
`IndexPipeline` the index can be read (`readable`) when the directory that belongs to the course
pointer is there, alone, with the content its manifest lists. A runner may
therefore never write, register or activate anything under the name of the version in
use, and what it activates must be what lies on disk, although it wrote that
before and holds no lock in between. `QueryRun` starts where `IndexPipeline` ends: it has
one directory for each manifest and takes the two for one step.

### NoteBatch

One course. A batch has one item. Its task (`task[p][b]`) is what `demo_runner.py`
runs in an API process: `due`, `retrieve`, `announce`, `generate`, `save`, or
`failing` when an exception is being recorded. Two processes run at once while one
is started beside one that shuts down, and both may run one batch.

The user edits and deletes notes, asks for regenerations (a request first reads
the note, later takes the lock: `asked` is the version it read) and generates a
note by an answer within one request (`draft`). Documents are parsed again, deleted
and cleaned up. A version of a note is who wrote it and which version the writer
had before it: that is what `HistoryIsWhole` compares. A process may die at any
time; a failure that cannot be recorded leaves its batch `stranded` until the next
start. Which evidence is chosen and what the model writes is left open.

Parsing again takes two steps: `Reparse` queues the document (status `parsing`), which
keeps its active revision, and `Activate` makes the new revision the active one. The
sources are checked in two ways. A batch wants documents that are `ready`
(`Unchanged`). The answer path (`_sources_current`, `notes/service.py:487-513`) looks at
deletion, review and the active revision and not at the status (`Searchable`,
`SourcesCurrent`), so a note may be written from an answer whose document is being
parsed again, as long as the revision it quotes is still active.

### Accounts

Each request is two steps: its cookie is resolved to an actor in one transaction,
and the operation runs in another under the advisory locks, with the actor and
the clock of the first. Anything may come between: `ArriveVisitor`, `ArriveAdmin`
put a request under way; `Serve` (`ServeRegister`, `ServeLogin`, `ServeUpdate`,
`ServeInvite`) or `Refuse` end it. Passwords, e-mail normalisation, CSRF tokens and
rate limits decide whether a request gets here at all.

### Schema, SchemaModels, SchemaRevisions, SchemaMigrations

A table is its columns (which must and which may be NULL), its unique keys (with
the condition of a partial index) and its foreign keys with their delete rule. A
statement of a migration is a record; `Fits` says when PostgreSQL accepts it
(the table or key exists, the referenced key is unique, no row violates it) and
`Changed` what it leaves. `SchemaRevisions` has the two scripts of each of the
thirteen files under `services/api/alembic/versions`; `SchemaModels` has the
classes of `infrastructure/db/models`.

`SchemaMigrations` runs them: `Begin`, `Revise` (one script), `Commit` or `Abort` (an
exception, or the process is killed; the run is one transaction, `alembic/env.py`).
At the head revision the program registers, suspends, uploads, reviews, generates
and edits, so that a downgrade meets rows the older schema knows nothing of.
Rows are kept where a script rewrites them or asks something of them:

| Rows | Why |
|---|---|
| accounts (status, disabled) | 0011 fills the status and checks it against the flag |
| documents (review, deleted) | 0012 approves all, and drops the decision |
| jobs, and the revisions that name one (`parsedBy`) | 0003 drops the jobs, and sets the names to NULL |
| manifests, and the courses that name one (`pointers`) | 0005 drops the manifests and keeps the names |
| stored answers (method, operation, key) | 0002 drops the method from the unique key |
| batches (kind, retries) | 0008 adds `ck_note_generation_batches_retry_parent` |
| contents and outputs of one note | 0008 fills the version of an output, deletes all but the newest on the way down, and changes the keys |

At the head revision the program works (`Register`, `SetStatus`, `Upload`, `Review`, `Parse`,
`Reparse`, `Activate`, `Delete`, `Cleanup`, `Generate`, `Edit`), so that a downgrade meets rows the
older schema knows nothing of. `KeyHolds`, `ReferenceHolds` and `CheckHolds` say when the
rows let PostgreSQL add a key, a reference or a check. The two checks that existing rows
could violate are modelled (`retry_parent` and `status_disabled`); the other checks of single
rows, column types, defaults and plain indexes are left out.

Two of these constraints no row of this program can violate. A retry batch would be refused
by the check after a downgrade of 0008, but no request creates one: the kinds
`retry_failed` and `retry_gaps` and the column `retry_of_batch_id` are declared and never
written. Stored answers that differ in nothing but the method would break the
key of the 0002 downgrade, but users and workers use different operations. They would
be refused if such rows came to be, and the model has what it takes to show it.

## 3. Runs

| Run | Instance | Shows |
|---|---|---|
| `JobLease_documents` | 2 documents (an image; an excluded one), 2 jobs of either, 1 worker with OCR, 1 page, 2 attempts, 3 leases in all | a deleted document is quiet, one live job a document, against claims that touch several jobs |
| `ParseWorker_faults` | 1 document of 2 pages, 1 job, 2 workers, 2 attempts, 2 faults, with fairness | one obeyed lease, rows that match leases, whole revisions, workers that implement the protocol `JobLease`, refinement of `FencedTask`; no obeyed worker is refused, attempts are spent by faults only, resumes and uploads lose nothing, documents get parsed |
| `PageParsing_children` | 2 pages, complex parser on, 2 attempts, 1 upgrade, 2 faults, with fairness | results are of their own page and child, nothing runs on, transient errors never reject a document, every attempt ends |
| `PageParsing_mixed` | 2 pages, no fault, no upgrade | finding, below |
| `DocumentStorage_races` | 2 PUTs, 2 completes, 2 DELETEs at once, with fairness | no file left after a deletion, the file of a completed upload is frozen, repeated DELETEs remove derived data unless a trace names an index of it |
| `IndexPipeline_switch` | 2 documents, 3 revisions (one without text), 1 runner, 1 crash, 3 attempts, with fairness | pointer, manifests and revisions agree; the course goes from one complete index on disk to the next and a cleaned-up document stays away (`SearchableCourse`); every index job settles |
| `QueryRun_answers` | 2 documents with 2 revisions, 2 questions, 2 indexes, with fairness | one index an answer; an answer is given once and cites what is active and searchable (`SearchableCourse`); nothing left behind a cleanup; every question ends |
| `QueryRun_uncited` | 2 documents, 1 question, 2 indexes, DELETE repeated | finding, below |
| `NoteBatch_tasks` | 1 document with 2 revisions, 1 note, 1 regeneration, 2 processes, 2 versions, 1 fault, with fairness | a batch ends once, no writing lost, sources current when saved (those of a batch ready, too), no quote after a cleanup, every batch ends |
| `NoteBatch_current` | 1 document, 1 note, 1 regeneration, 1 process, no fault | finding, below |
| `Accounts_seats` | 3 accounts, 2 invitations, 3 sessions, capacity 2, time 0..1, 2 requests under way | seats, the last administrator, a suspended account is locked out (also by a login that began before the suspension), what is closed stays closed |
| `SchemaMigrations_paths` | every revision, up to 2 versions of a note, 2 parse jobs | every script fits but 20260719_0005 where a course names an index, revision and schema agree, head and classes agree, rows keep their meaning, courses stay apart |

*Why these bounds.* Fencing is about two holders of one job, so two workers and
two attempts show each race; two pages are needed to tell "some pages missing"
from "all" and "none", and two faults are as many as there are attempts, so that
both may be lost. The two runs of the protocol divide the work:
`ParseWorker_faults` has workers as their program is and one job;
`JobLease_documents` has workers that send anything at any time, and two jobs that
meet in one claim, are an old and a new job of one document, or are of two
documents (`FewLeases`: one of them may use up its attempts beside the other). What is proved of `JobLease` holds for all of these together.

In `DocumentStorage` each handler remembers nothing but its place, so two requests
of a kind show every pairwise race, and three kinds run together. In
`IndexPipeline`, two documents are the one being indexed and one that changes
meanwhile; two revisions of one document the old and the new one. `MaxAttempt` and
`MaxCrashes` bound what the code leaves unbounded (attempts of an index job, killed
processes); `MaxPages` bounds documents. `IndexPipeline_switch` has more attempts
than one runner with one crash can use up, so the bound never stops it.

In `PageParsing` the state of a page is forgotten when it is packaged but for the
backend and version of the first, so two pages show every disagreement, and two
attempts what an earlier one leaves to the next. In `NoteBatch` a second version
is an edit or a regeneration, and two processes are the old and the new one of a
restart. In `Accounts` the capacity is reached by two accounts, or one and an
invitation; three accounts and two requests show a race for the last seat and two
administrators against each other; two instants let an
invitation expire and be noticed late. Three sessions are needed for a late login: a
cookie is used once, and there are the administrator's, the one the second account gets
at its registration, and the one of its login while it is being suspended. In
`SchemaMigrations` two versions give a note two outputs, of which the oldest key
allows one; two jobs are the one a revision was parsed by and the one that has
replaced it.

In `QueryRun`, two indexes are the one a request started with and the one it
finds later, and two questions are needed since the trace of one protects a
manifest from the cleanup that concerns another.

Runs with `CHECK_DEADLOCK FALSE` are of systems that really stop: all documents
deleted and cleaned up, all attempts used.

### Fairness

- `ParseWorker`: a live process goes on with its task and a stopped one is started
  again (`infra/compose/compose.yml`, `restart: unless-stopped`); abandoned leases
  run out and retry delays elapse; the server ends an upload it began. A heartbeat
  in time is what keeps `LeaseRunsOut` from a worker that is not at fault. Faults
  are never fair, and `JobsSucceed` speaks of runs with fewer faults than attempts.
  All workers of the run can do OCR: a deployment without such a worker leaves
  `ocr-v1` jobs waiting.
- `PageParsing`: the worker's event loop goes on and its time limits fire. Nothing is
  assumed of a child.
- `NoteBatch`: tasks of a running process go on, since the calls of the model time
  out, and a process that went down is started again. Users owe nothing.
- `DocumentStorage`: the disk is repaired, a client repeats its DELETE, steps of a
  DELETE that is running go on, and a cleanup that is begun again and again is
  not killed each time (strong fairness of `Cleanup`). No PUT and no POST is fair.
- `IndexPipeline`: a runner takes steps while it is up (`serve` loops) and is
  restarted when it dies (`infra/compose/compose.yml:23`, `restart:
  unless-stopped`); leases run out; a DELETE is repeated. Users, parsers and
  the provider owe nothing: `ProviderFails` is always possible, and a blocked job
  counts as settled because the code waits for an explicit resume.

- `QueryRun`: a request runs on until its process dies (an `await` of a provider has
  a timeout: `service.py:81` and the HTTP clients). For `QueryRun_uncited` a DELETE
  is repeated, too. Users owe nothing.

## 4. Findings

Each is a run that TLC refutes, quoting what the repository says.

| Run | What happens |
|---|---|
| `QueryRun_uncited` | a retrieval trace refers to the manifest it searched, so the cleanup of a document in it fails at every commit: the answer keeps its text and its citations of the deleted document |
| `NoteBatch_current` | the note that a regeneration compares with `If-Match` was loaded before the lock, and the locked read gives the same old object back: an edit between the two is not noticed, the batch is accepted for a version the note no longer has, and fails minutes later |
| `PageParsing_mixed` | with the complex parser on, a document with plain and complex pages is rejected for good: pages of two backends are refused as inconsistent, though the backend is chosen page by page |

Seen while modelling, without a run of its own:

- A PUT between the verification and the second transaction of `complete_upload`
  (`documents.py:419`, `:430`) replaces the file, and the upload is completed with
  bytes nobody verified: `CompleteBegin`, `CompleteVerify`, `UploadBegin`,
  `UploadWrite`, `UploadEnd`, `CompleteEnd` in `DocumentStorage`.
- `deletion_jobs.status` becomes `completed` while the file is still there: a
  derived cleanup that fails overwrites `STORAGE_DELETE_FAILED` (`cleanup.py:257`),
  and the next one that succeeds completes the job; the repeated DELETE never tries
  the file again.
- Deleting one document removes every manifest that holds it and clears the pointer
  of the course (`cleanup.py:187`): the other documents stay `ready` and cannot be
  searched until one of them is indexed again.
- A runner that has read a document before its deletion writes a directory with its
  text after the cleanup, and nothing removes it. (`DeletedStaysOut`, below, shows
  that no search ever uses it.)
- An index job that failed once is never run again (`index_repository.py:67`, ON
  CONFLICT DO NOTHING), while `DocumentTable.tsx:34` shows its document as 处理中.
- The status `invalidated` is never reached by a question that was retrieved: the
  trace that comes with it makes the cleanup that would set it fail. For the
  same reason `CleanedLeavesNoText` holds although `save_retrieval` writes its
  snapshot without looking at the documents. Making the foreign key `ON DELETE SET
  NULL` to repair the finding would break it (the mutant `HeldByNone`): a request
  that authorized the document before its deletion would write its text after the
  last cleanup. The two have to be repaired together.
- A request that ends with an uncaught exception leaves its row `retrieving` or
  `generating` for ever.
- The sandbox of a worker that was killed is never removed, and a child of it runs on
  until it ends by itself (`crashed` is exempt from `NothingRunsOn`).
- A database with an index cannot go down to 20260719_0004 and up again: the downgrade of
  20260719_0005 drops the manifests and leaves `courses.active_lexical_index_id`, so the
  upgrade back is refused at its foreign key (`:257`), unlike 20260719_0003, which sets such
  names to NULL first (`:269`). The test that goes down and up
  (`test_retrieval_migration.py:83`) has no course. `ScriptsFit` states the exception exactly:
  each script fits if, and only if, it is not this upgrade with such a name.
- Going down and up again loses what the older schema cannot hold: a rejected document
  comes back approved, note styles are reset, conversations merge, the method of stored
  answers and the jobs of revisions are forgotten, and the output of an edited
  note then names its present version. Downgrades are documented for databases
  that may be thrown away only; `RowsKeepMeaning` says what is kept.

## 5. Proofs

`JobLeaseProofs` proves, for all constants that satisfy `ConstantsOK` (any finite
or infinite sets of documents, jobs and workers, any page bound and any
`max_attempts` of at least 1):

| Theorem | States |
|---|---|
| `TypeCorrect` | `Spec => []TypeOK` |
| `RowsMatchLeases` | `Spec => []RowMatchesLease` |
| `LeasesAreFenced` | `Spec => []OneActiveLease` |
| `OneJobAtATime` | `Spec => []OneLiveJob` |
| `DeletionIsFinal` | `Spec => []DeletedIsQuiet` |
| `RevisionsAreWhole` | `Spec => []RevisionIsWhole` |
| `NoPageIsForgotten` | `Spec => []ResumeCoversMissing` |
| `JobsRefineFencedTask` | `Spec => JobsAreFencedTasks` |

*Types and fencing.* `TypeOK` is not inductive by itself: nothing in it says that a row not
inserted yet is blank, and the attempt bound of a claim needs that a job that was
never claimed has attempt 0. `TypeInv` adds `Fresh` for this. Fencing needs
`FenceInv`, four facts that hold each other up:

- `RowMatchesLease`: the lease columns are those of some granted lease;
- `GrantsArePast`: no lease names an attempt its job has not reached, so the lease
  `claim` issues next is new;
- `OnePerAttempt`: two leases of one job with the same attempt are the same;
- `HolderCanRun`: the owner of a held job is able to run its profile.

`OneActiveLease` follows: two obeyed leases both carry the row's attempt. The
proof has one lemma for each row constructor (what it leaves in which column),
one step for each action and below it one for each conjunct the action disturbs.
Commands that end an attempt share a lemma, since they all release the row.

*Documents.* Only an enqueue makes a job live and only a deletion ends all of them,
so every other handler is `Calm` and shares one lemma. The enqueue of an upload
needs that a document that is `uploading` has no job (`UploadingHasNoJob`); the one
of a reparse looks at the latest job, which is the only one that can be live.

*Results.* A checkpoint is of an attempt its job has reached (`Past`), so what
`ingest_attempt` takes as the newest page stays the newest: nothing is written
under a job once it has succeeded. A resumed attempt is the harder half. `claim`
takes the parsed pages from those the row names, or from 1..`total_pages` where it
names none, so the invariant `Resumes` says: where the row names pages, all others are
parsed; where it names none, `total_pages` is unknown, or right, or all pages
are parsed anyway. It needs fencing, because it is the holder's report that sets
the count.

*Refinement.* One lemma for each abstract step shows when a row change is that step,
and one for each action of the server shows which it is. `FenceInv` is enough.

`ParseWorkerProofs` proves, for any documents, jobs, workers, page counts, attempts and
faults (`ConstantsOK`, `WorkerConstantsOK`: `NoLease` is not a lease):

| Theorem | States |
|---|---|
| `WorkerTypes` | `WorkerSpec => []WorkerTypeOK` |
| `WorkersKeepToProtocol` | `WorkerSpec => KeepsToProtocol`, which is `JobLease`'s `Spec` |
| `CompositionKeepsPromises` | hence the theorems of `JobLeaseProofs` hold of the composition |
| `ArtifactsStayWithJobs` | `WorkerSpec => []ArtifactsAreKept` |
| `NeverRefusedWhileObeyed` | `WorkerSpec => []NeverRefused` |
| `AttemptsNeedFaults` | `WorkerSpec => []AttemptsAreFaults` |

*Keeping to the protocol.* `BaseInv` joins the inductive invariants of the server with two
facts about its clients. A worker has a task exactly while it holds a lease, one that
was granted to it, and its reporter knows a page count the contract allows for it
(`TaskInv`). A late command is of a task that was given up: whoever still has its
lease is about to report a failure (`LateInv`). Then each step is a step of
`JobLease` or none (`StepMovesServer`), which is how the invariants of the server carry
over, and they close the circle: the types of the tasks need them.

*What both promise together.* `ArtifactsAreKept` needs no more than that: a checkpoint
names an artifact, and a purge takes rows and artifacts at once. `NeverRefused` takes
two more invariants. `RowsInv`: since nobody asks for a reparse here, no page beyond the
document is named, reported or counted, and the first attempt was asked for all of
them. `ProgressInv`: of a task the server obeys, the pages with a checkpoint are
exactly those it was asked for but those it still has to do, and the artifact it is
about to name is there. A step either is the worker's own, or concerns another lease
and leaves its job alone (`Unmoved`), or finds the task at its end (`StepForWorker`).

`AttemptsAreFaults` counts. `FaultInv`: every attempt but the current one has had its fault,
and the current one as well unless it is *in good hands* (`Healthy`: an obeyed lease,
no bad page so far, no failure to report). Whatever happens to a task in good hands
(`HealthyFares`) leaves it there, ends it well, or is a fault. That it ends well at
the end is `SoundIsWhole`: no bad page, `ProgressInv` and the server's `Resumes` leave
no page missing, so the attempt cannot be a partial one. A job in nobody's hands
(`ForsakenFares`) may be claimed, failed or retried: its attempts are paid for.

`PageParsingProofs` proves, for any document, number of attempts, upgrades of the OCR
profile and faults (`BoundsOK`, `NoFileIsNone`):

| Theorem | States |
|---|---|
| `TypeCorrect` | `Spec => []TypeOK` |
| `PackagesAreOwn` | `Spec => []PackagedIsOwn` |
| `AttemptsCleanUp` | `Spec => []NothingRunsOn` |
| `TransientErrorsAreRetried` | `Spec => []TransientIsRetried` |

*Argument.* The inductive invariant has four parts. Types; `FilesInv`: a sandbox holds only
what a child of its own attempt left, by a version of the profile that was installed by
then; `TaskInv`: what a task has packaged so far is of its own pages; `WaitInv`: what the
handler finds when a child has ended is of the child it waits for, or the child
refused. That pages are taken in order needs that a finite set of them has a least
element (`Least`, from `WFMin` of the library).

`NoteBatchProofs` proves, for any documents, notes, regenerations, processes and
bounds with at least one version (`BoundsOK`, `NamesOK`):

| Theorem | States |
|---|---|
| `TypeCorrect` | `Spec => []TypeOK` |
| `BatchEndsOnce` | `Spec => []EndsOnce` |
| `NoWritingIsLost` | `Spec => []HistoryIsWhole` |
| `CleanupIsFinal` | `Spec => []CleanedIsUnquoted` |
| `CitesCurrentSources` | `Spec => SourcesAreCurrent` |

*Argument.* The three invariants hold each other up, so they are proved together with
`BatchInv` (a batch that creates a note bears the note's name, it has an output only
when it has succeeded, and the note a regeneration is for has been put out) and
`NoteInv` (the name of a note that is still to be created is taken by nobody else, and
the note of a draft is no batch's). The save of a task compares the status of its
batch and the version of the note under the locks; two tasks that run one batch both
get there, and the second finds the batch ended. `CitesCurrentSources` says that each
source of a new version is of a document that is not deleted, and of its active
revision; for a batch it says that the document is ready as well, which the answer path does not
promise. Steps are split into quiet ones, which
leave batches and notes alone, new batches, and writes.

`DocumentStorageProofs` proves, for any numbers of PUTs, completes and DELETEs:

| Theorem | States |
|---|---|
| `Types` | `Spec => []TypeOK` |
| `FileIsGone` | `Spec => []DeletedFileIsGone` |
| `FileIsFrozen` | `Spec => CompletedFileIsFrozen` |

*Argument.* While the document lives, a PUT under way has the session `receiving` and
is alone (`ExclusiveReceiver`): the status is the lock on the file. After the
deletion, a file that is there will still meet somebody who removes it
(`FileHasRemover`): a DELETE about to, or a PUT that will find the document deleted.
When everybody has ended without a crash or a failed removal, there is no file.

`IndexPipelineProofs` proves, for any documents, revisions, embedding models and
runner processes, any number of them at work at once (`ConstantsOK`, `NoneOK`):

| Theorem | States |
|---|---|
| `Types` | `Spec => []TypeOK` |
| `ActiveIndexIsRight` | `Spec => []ActiveIndexMatches` |
| `DeletedStaysOut` | `Spec => []DeletedIsUnsearchable` |
| `IndexRefinesCourse` | `Spec => ServesTheCourse` |

*Argument.* The invariant `IndexInv` has four parts. `TypeInv`: types, and a runner at
work has a job. `DocsOK`: previews and active revisions are of their own document, and a
deleted document has neither and no parse job that could bring one. `VersionsOK`: no
two manifests share a version id, since a runner that may still register holds the
current attempt of its job and has registered nothing for it; a job whose row a
cleanup removed is of a purged revision and never has a row again, so its numbers
are not used twice. `ActiveInv`: the active manifest is exactly the one the course
points at, it matches the active revisions, and no cleaned-up document is in it.
The steps that matter are `Activate` (it compares the manifest with the scope of the
moment, not with what the runner read), `Cleanup` (it takes the pointer away
with the manifest) and `Register` (what it adds has a version id nobody points at).

*Refinement.* `ServesTheCourse` speaks of files and of the order of revisions, which
`IndexInv` says nothing about; `CourseInv` adds

- `WorkersOK`: no two runners work on the same attempt, even when one has lost its
  lease, since a claim hands out an attempt nobody had (`ClaimFresh`);
- `FilesOK`: a directory is written once and whole, and disappears only with a document
  of it that is deleted;
- `ListsOK`: a manifest lists what its runner has read, so it agrees with the directory;
- `OrderOK`: revisions of a document are born in order, and the active one is older
  than the preview;
- `TracedOK`: a traced manifest exists and holds no document whose cleanup is
  complete, which is what the foreign key of the traces is for: a cleanup that rolls
  back never undoes one that is complete.

Then `Activate` is `Switch`: the manifest equals the scope of the moment, the scope
is what is active afterwards (`ScopePublished`), it holds no deleted document, and so
the directory that the runner wrote is still there. `Build` and `Register` stutter
because their version is not the active one (`FreshWork`). All actions that touch neither
documents nor the index share one lemma (`FrameMaps`).

`QueryRunProofs` proves, for any documents, questions and bounds (its constants' assumptions):

| Theorem | States |
|---|---|
| `TypeCorrect` | `Spec => []TypeOK` |
| `OneIndex` | `Spec => []AnswerFromOneIndex` |
| `CleanedForGood` | `Spec => []CleanedLeavesNoText` |
| `NoLateCitation` | `Spec => NoCitationAfterDeletion` |
| `AnswersRefineCourse` | `Spec => AnswersTheCourse` |

*Argument.* `TypeOK` needs `Decided` (a request that is to be finalized has an
outcome). The invariant `IInv` has three parts. `IndexInv`: the course searches the
newest index or none, that index holds every active revision, and a document
whose cleanup is complete is in no manifest. `RowInv`: what is stored of a query
comes from the manifest its trace names, which still exists. `CallInv`: what a
request holds is from the manifest of its trace, and of its two readings of the
pointer the first is not the later one. Then

- an answer is stored only if the pointer equals its first reading; the trace's
  manifest is not older than that, and the active one is the newest, so the three
  are one manifest (`OneIndex`);
- text of a document in a row means that the manifest of its trace holds the
  document, and a completed cleanup means that no manifest does
  (`CleanedForGood`);
- a deleted document has no active revision, so `SourcesCurrent` refuses evidence
  of it (`NoLateCitation`).

The subtle step is `Switch`: what a request saw must not become current by a later
switch. `Reached` says so: no evidence anywhere is of a revision its document
has yet to reach, unless the document is deleted and reaches none.

*Refinement.* `IInv` is enough but for `Supported`: a request that is to be answered
cites something. `Answer` is `Finalize` at the moment of its commit (`CallMaps`): the
sources it checks under its locks are active, the pointer is the one it started
with, and that index holds every active revision. An answer is never given twice or
taken back: its request is over, and the trace it left holds up the cleanup
that would invalidate it (`CleanupMaps`).

`AccountsProofs` proves, for any finite sets of people and codes, any tokens, capacity,
lifetimes and bounds (`AccountConstantsOK`):

| Theorem | States |
|---|---|
| `Types` | `Spec => []TypeOK` |
| `Seats` | `Spec => []SeatsAreKept` |
| `LastAdmin` | `Spec => []LastAdminStays` |
| `LockedOut` | `Spec => []SuspendedIsLockedOut` |
| `Closed` | `Spec => ClosedStaysClosed` |

*Argument.* Seats are counted as the accounts that are active and the invitations
that are open and valid *now*, while a request counts with the clock it read before
it waited for the lock. The clock only grows and a later clock only releases
reservations (`ReservedShrinks`), so what was enough for the request is enough when
it commits. A registration with a code turns its invitation into an account, one
without a code needs a free seat; `OneMore` and `OneLess` do the counting. The
inductive invariant `Inv` joins the three properties with what they lean on:
`ActorsExist` (an actor that was resolved still exists, so an update by a suspended
or demoted actor still compares with existing accounts), `NoneInvited` (before the
first account there is no invitation, so the bootstrap cannot overfill the
capacity) and `SessionsHaveUsers`. `LastAdminStays` needs `AnotherRemains`: removing
the rights of one of two administrators leaves the other. `Closed` follows from
`TypeOK`, action by action.

Only model-checked: the properties of `SchemaMigrations`, which run thirteen concrete
scripts from every revision, so that there is no parameter a theorem could generalise
but the numbers of versions and jobs; all liveness (`JobsSucceed`, `EveryAttemptEnds` and the like:
fairness and ENABLED are out of the prover's reach); and the findings, which are
counterexamples. Every other invariant and action property the passing runs check is
stated by a theorem. `DeletedIsUnsearchable` and `NoCitationAfterDeletion` are theorems
that no run checks any more: the refinements that their runs check imply them. Of the modules that have theorems the type invariants are proved and
not checked by a run of their own.

## 6. Not modelled

- Idempotency records: one per request under an advisory lock, beside the state of
  every protocol. The modules let a command run again instead, which allows more.
- The event log and its SSE stream, worker presence and long polling: no protocol
  reads them; a claim that waits answers what a later claim would.
- Orders of row locks: handlers that lock document and job in opposite orders may be
  aborted by PostgreSQL as a deadlock. Every transaction is one action here, and an
  aborted one a stutter.
- Two index runners at once, and the reconfiguration of the embedding model, are in
  the module `IndexPipeline` (its constants `Runners`, `Models`); no run has them, but the
  theorems of `IndexPipelineProofs` hold with them.
- Two migration runs at the same time; column types, defaults, and the
  checks of single rows but two.
- Document formats, recognition, ranking and fusion, what the models write, the web
  application, the knowledge graph (a read-only view), evaluation and scripts: pure
  data processing or I/O.

Worth adding next: a module of lock orders; reciprocal rank fusion and chunk boundaries
as operators against reference definitions.
