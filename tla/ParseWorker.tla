----------------------------- MODULE ParseWorker -----------------------------
(***************************************************************************)
(* The parse worker (services/worker): its poller, the native and OCR task  *)
(* handlers and the packaging of pages, composed with the server it talks   *)
(* to, the module JobLease, whose variables and actions it extends.         *)
(*                                                                         *)
(* JobLease lets a worker send any command at any time.  Here a worker does *)
(* what its program does: it claims, starts, downloads, parses the pages in *)
(* order, uploads and checkpoints each one, uploads the result, completes.  *)
(* A command and its answer are one step.  When the answer is lost the      *)
(* worker never repeats the command: the poller backs off and claims again, *)
(* and the server may carry the command out later, or never ("late").       *)
(*                                                                         *)
(* upload_artifact is two transactions of the server with the object put    *)
(* between them, so it is two steps here, and the second one is taken       *)
(* whether or not the worker is still there.                                *)
(***************************************************************************)
EXTENDS JobLease, FiniteSetsExt

CONSTANTS
    MaxFaults,  \* bound on the faults
    NoLease     \* the worker holds no lease

ASSUME WorkerConstantsOK ==
    /\ MaxFaults \in Nat
    /\ NoLease \notin Lease

VARIABLES
    worker,     \* the process of each worker and the task it executes
    late,       \* commands whose answer nobody waits for any more
    putting,    \* uploads whose object is stored and whose row is not inserted yet
    artifact,   \* job_artifacts: page p of an attempt, or 0 for its result
    rejected,   \* jobs whose document a parser refused for good
    faults      \* how many faults occurred

serverVars == <<job, doc, checkpoint, pageTotal, revision, granted>>
taskVars == <<worker, late, putting, artifact, rejected, faults>>
workerVars == <<serverVars, taskVars>>

-----------------------------------------------------------------------------
(* Tasks                                                                   *)

\* The moments of _process: "starting" until start is answered, "fetching" the input,
\* "parsing" a page, "uploading" and "recording" its artifact, "checkpointing" it,
\* "completing" or "failing" the attempt.
Executing == {"fetching", "parsing", "uploading", "recording", "checkpointing"}
Moment == {"stopped", "idle", "starting", "completing", "failing"} \cup Executing

Task0 == [at : Moment,
          lease : granted \cup {NoLease},
          todo : SUBSET Pages,             \* requested pages without a checkpoint
          outcome : PageState,             \* quality of the page at hand
          total : 0..MaxPages,             \* total_pages of the reporter's progress
          retryable : BOOLEAN]             \* of the error to report

Upload == [lease : granted, page : 0..MaxPages]
Command == [op : {"start", "heartbeat", "checkpoint", "complete", "fail"}, lease : granted,
            page : 0..MaxPages, outcome : PageState, total : 0..MaxPages, retryable : BOOLEAN]

WorkerTypeOK ==
    /\ TypeOK
    /\ worker \in [Workers -> Task0]
    /\ late \subseteq Command
    /\ putting \subseteq Upload
    /\ artifact \subseteq [job : Jobs, attempt : Attempts, page : 0..MaxPages]
    /\ rejected \subseteq Jobs
    /\ faults \in 0..MaxFaults

NoTask(moment) == [at |-> moment, lease |-> NoLease, todo |-> {}, outcome |-> "none",
                   total |-> 0, retryable |-> FALSE]

WorkerInit ==
    /\ Init
    /\ worker = [w \in Workers |-> NoTask("idle")]
    /\ late = {} /\ putting = {} /\ artifact = {} /\ rejected = {}
    /\ faults = 0

Holder(w) == worker[w].lease # NoLease
Obeyed(w) == Holder(w) /\ ActiveLease(worker[w].lease)

\* The page at hand: pages are parsed in order, the result is packaged last.
CurrentPage(w) == IF worker[w].todo = {} THEN 0 ELSE Min(worker[w].todo)

Artifact(l, p) == [job |-> l.job, attempt |-> l.attempt, page |-> p]
Recorded(u) == Artifact(u.lease, u.page) \in artifact

Become(w, task) == worker' = [worker EXCEPT ![w] = task]
Move(w, moment) == worker' = [worker EXCEPT ![w].at = moment]

\* A fault: one of the MaxFaults things that go wrong.
Fault == faults < MaxFaults /\ faults' = faults + 1

-----------------------------------------------------------------------------
(* Commands                                                                *)

\* What a worker at such a moment sends next
Pending(w) ==
    LET t == worker[w]
        Send(op) == [op |-> op, lease |-> t.lease, page |-> CurrentPage(w),
                     outcome |-> t.outcome, total |-> t.total, retryable |-> t.retryable]
    IN  CASE t.at = "starting" -> {Send("start")}
          [] t.at = "checkpointing" -> {Send("checkpoint"), Send("heartbeat")}
          [] t.at \in Executing \ {"checkpointing"} -> {Send("heartbeat")}
          [] t.at = "completing" -> {Send("complete")}
          [] t.at = "failing" -> {Send("fail")}
          [] OTHER -> {}

\* The handlers a command reaches.  A checkpoint and a result must name an available
\* artifact of the attempt (_locked_validated_artifact).
Serve(c) ==
    \/ c.op = "start" /\ Start(c.lease)
    \/ c.op = "heartbeat" /\ Heartbeat(c.lease, c.total)
    \/ /\ c.op = "checkpoint" /\ Artifact(c.lease, c.page) \in artifact
       /\ Checkpoint(c.lease, c.page, c.outcome)
    \/ /\ c.op = "complete" /\ Artifact(c.lease, 0) \in artifact
       /\ CompleteWhole(c.lease) \/ CompletePartial(c.lease)
    \/ c.op = "fail" /\ Fail(c.lease, c.retryable)

\* The guards of those handlers after the lease was accepted: without them the
\* answer is a conflict, which the poller does not survive.
Acceptable(c) ==
    LET j == c.lease.job IN
    CASE c.op = "start" -> job[j].status = "leased"
      [] c.op = "heartbeat" -> job[j].status = "parsing"
      [] c.op = "checkpoint" -> /\ job[j].status = "parsing"
                                /\ Artifact(c.lease, c.page) \in artifact
                                /\ checkpoint[j][c.lease.attempt][c.page] = "none"
      [] c.op = "complete" -> /\ job[j].status = "parsing"
                              /\ Artifact(c.lease, 0) \in artifact
                              /\ AttemptAccepted(j, c.lease.attempt, PageCount[job[j].doc])
                              /\ CoveredPages(j, c.lease.attempt) =
                                    IF c.lease.requested # {} THEN c.lease.requested
                                    ELSE 1..PageCount[job[j].doc]
      [] OTHER -> TRUE

-----------------------------------------------------------------------------
(* The poller                                                              *)

\* Poller.run_once: claim, and the lease it answers.
Claim(w, j) ==
    /\ worker[w].at = "idle"
    /\ ClaimLease(w, j, {})
    /\ Become(w, [NoTask("starting") EXCEPT !.lease = GrantedLease(j, w)])
    /\ UNCHANGED <<late, putting, artifact, rejected, faults>>

\* A claim that only fails exhausted candidates
ClaimInVain(w, passed) ==
    /\ worker[w].at = "idle"
    /\ ClaimNothing(w, passed)
    /\ UNCHANGED taskVars

\* The answer of a claim is lost with the lease it granted.
ClaimUnanswered(w, j) ==
    /\ Fault
    /\ worker[w].at = "idle"
    /\ ClaimLease(w, j, {})
    /\ UNCHANGED <<worker, late, putting, artifact, rejected>>

\* The reporter starts out with the number of pages the lease names.
StartTask(w) ==
    LET l == worker[w].lease IN
    /\ worker[w].at = "starting"
    /\ Start(l)
    /\ Become(w, [worker[w] EXCEPT !.at = "fetching", !.total = Cardinality(l.requested)])
    /\ UNCHANGED <<late, putting, artifact, rejected, faults>>

\* download_input, the dispatch, and the handler's first update_progress
FetchInput(w) ==
    /\ worker[w].at = "fetching" /\ Obeyed(w)
    /\ Become(w, [worker[w] EXCEPT !.at = "parsing", !.total = 0,
                                   !.todo = worker[w].lease.requested])
    /\ UNCHANGED <<serverVars, late, putting, artifact, rejected, faults>>

\* Mutant: the reporter is told how many pages are left
ParsePageCounting(w, outcome) ==
    LET total == PageCount[job[worker[w].lease.job].doc]
        todo == IF worker[w].todo = {} THEN 1..total ELSE worker[w].todo IN
    /\ worker[w].at = "parsing"
    /\ IF outcome = "succeeded" THEN UNCHANGED faults ELSE Fault
    /\ Become(w, [worker[w] EXCEPT !.at = "uploading", !.total = Cardinality(todo),
                                   !.todo = todo, !.outcome = outcome])
    /\ UNCHANGED <<serverVars, late, putting, artifact, rejected>>

\* One page is parsed in a child process and judged.  The first page tells the page
\* count, and with it the pages of a lease that names none.  A page that failed its
\* quality check is a fault of the document.
ParsePage(w, outcome) ==
    LET total == PageCount[job[worker[w].lease.job].doc]
        todo == IF worker[w].todo = {} THEN 1..total ELSE worker[w].todo IN
    /\ worker[w].at = "parsing"
    /\ IF outcome = "succeeded" THEN UNCHANGED faults ELSE Fault
    /\ Become(w, [worker[w] EXCEPT !.at = "uploading", !.total = total, !.todo = todo,
                                   !.outcome = outcome])
    /\ UNCHANGED <<serverVars, late, putting, artifact, rejected>>

\* upload_artifact, first transaction and put_stream
PutObject(w) ==
    LET u == [lease |-> worker[w].lease, page |-> CurrentPage(w)] IN
    /\ worker[w].at = "uploading" /\ Obeyed(w)
    /\ ~Recorded(u)
    /\ putting' = putting \cup {u}
    /\ Move(w, "recording")
    /\ UNCHANGED <<serverVars, late, artifact, rejected, faults>>

\* Mutant: the lease is not checked again after the object was stored
RecordUnchecked(u) ==
    /\ putting' = putting \ {u}
    /\ artifact' = artifact \cup {Artifact(u.lease, u.page)}
    /\ UNCHANGED <<serverVars, worker, late, rejected, faults>>

\* upload_artifact, second transaction: the row, or the object is deleted.
RecordArtifact(u) ==
    /\ putting' = putting \ {u}
    /\ artifact' = IF ActiveLease(u.lease) THEN artifact \cup {Artifact(u.lease, u.page)}
                                           ELSE artifact
    /\ UNCHANGED <<serverVars, worker, late, rejected, faults>>

\* The receipt of the artifact: a page is checkpointed next, the result completes.
TakeReceipt(w) ==
    LET u == [lease |-> worker[w].lease, page |-> CurrentPage(w)] IN
    /\ worker[w].at = "recording" /\ u \notin putting /\ Recorded(u)
    /\ Move(w, IF u.page = 0 THEN "completing" ELSE "checkpointing")
    /\ UNCHANGED <<serverVars, late, putting, artifact, rejected, faults>>

\* Mutant: a page that failed is parsed again by other means and reported again
CheckpointUntilParsed(w) ==
    LET t == worker[w]
        todo == t.todo \ {CurrentPage(w)} IN
    /\ t.at = "checkpointing"
    /\ Artifact(t.lease, CurrentPage(w)) \in artifact
    /\ Checkpoint(t.lease, CurrentPage(w), t.outcome)
    /\ Become(w, IF t.outcome = "failed" THEN [t EXCEPT !.outcome = "succeeded"]
                 ELSE [t EXCEPT !.at = IF todo = {} THEN "uploading" ELSE "parsing",
                                !.todo = todo])
    /\ UNCHANGED <<late, putting, artifact, rejected, faults>>

CheckpointPage(w) ==
    LET t == worker[w]
        todo == t.todo \ {CurrentPage(w)} IN
    /\ t.at = "checkpointing"
    /\ Artifact(t.lease, CurrentPage(w)) \in artifact
    /\ Checkpoint(t.lease, CurrentPage(w), t.outcome)
    /\ Become(w, [t EXCEPT !.at = IF todo = {} THEN "uploading" ELSE "parsing",
                           !.todo = todo])
    /\ UNCHANGED <<late, putting, artifact, rejected, faults>>

\* The heartbeat loop runs beside the execution.
HeartbeatTask(w) ==
    /\ worker[w].at \in Executing
    /\ Heartbeat(worker[w].lease, worker[w].total)
    /\ UNCHANGED taskVars

\* Mutant: an attempt with failed pages is not completed
CompleteTaskWhole(w) ==
    /\ worker[w].at = "completing"
    /\ Artifact(worker[w].lease, 0) \in artifact
    /\ CompleteWhole(worker[w].lease)
    /\ Become(w, NoTask("idle"))
    /\ UNCHANGED <<late, putting, artifact, rejected, faults>>

CompleteTask(w) ==
    /\ worker[w].at = "completing"
    /\ Artifact(worker[w].lease, 0) \in artifact
    /\ CompleteWhole(worker[w].lease) \/ CompletePartial(worker[w].lease)
    /\ Become(w, NoTask("idle"))
    /\ UNCHANGED <<late, putting, artifact, rejected, faults>>

\* _notify_failure
FailTask(w) ==
    /\ worker[w].at = "failing"
    /\ Fail(worker[w].lease, worker[w].retryable)
    /\ Become(w, NoTask("idle"))
    /\ UNCHANGED <<late, putting, artifact, rejected, faults>>

\* LEASE_LOST as the answer of any command or heartbeat: the task is dropped silently.
LoseLease(w) ==
    /\ Holder(w) /\ ~Obeyed(w)
    /\ Become(w, NoTask("idle"))
    /\ UNCHANGED <<serverVars, late, putting, artifact, rejected, faults>>

-----------------------------------------------------------------------------
(* Faults                                                                  *)

\* A command under way may still arrive.
Leave(w) ==
    \/ UNCHANGED late
    \/ \E c \in Pending(w) : late' = late \cup {c}

\* TaskExecutionError, InputDownloadError, ArtifactUploadError, the deadline of the
\* task or any other exception but one of the API: the attempt is reported as failed.
BreakTask(w, retryable) ==
    /\ worker[w].at \in Executing
    /\ Fault
    /\ Leave(w)
    /\ Become(w, [worker[w] EXCEPT !.at = "failing", !.retryable = retryable])
    /\ rejected' = IF retryable THEN rejected ELSE rejected \cup {worker[w].lease.job}
    /\ UNCHANGED <<serverVars, putting, artifact>>

\* WorkerTransportError, of a command or of a heartbeat: the poller backs off.
Unreachable(w) ==
    /\ Pending(w) # {}
    /\ Fault
    /\ Leave(w)
    /\ Become(w, NoTask("idle"))
    /\ UNCHANGED <<serverVars, putting, artifact, rejected>>

\* The process ends: request_stop cancels the execution without a fail, or it dies.
Die(w) ==
    /\ worker[w].at # "stopped"
    /\ Fault
    /\ Leave(w)
    /\ Become(w, NoTask("stopped"))
    /\ UNCHANGED <<serverVars, putting, artifact, rejected>>

Restart(w) ==
    /\ worker[w].at = "stopped"
    /\ Become(w, NoTask("idle"))
    /\ UNCHANGED <<serverVars, late, putting, artifact, rejected, faults>>

\* A command nobody waits for reaches the server, now or later or never.
ServeLate(c) ==
    /\ Serve(c)
    /\ late' = late \ {c}
    /\ UNCHANGED <<worker, putting, artifact, rejected, faults>>

\* A lease runs out under a worker that stalls, or after it was abandoned.
LeaseRunsOut(j) ==
    /\ LeaseExpires(j)
    /\ IF \E w \in Workers : Obeyed(w) /\ worker[w].lease.job = j THEN Fault
                                                                  ELSE UNCHANGED faults
    /\ UNCHANGED <<worker, late, putting, artifact, rejected>>

-----------------------------------------------------------------------------
(* The rest of the server                                                  *)

\* The rows and objects of the artifacts go with the jobs of the document.
CleanupWithArtifacts(d) ==
    /\ CleanupDocument(d)
    /\ artifact' = {f \in artifact : job'[f.job].status # "purged"}
    /\ UNCHANGED <<worker, late, putting, rejected, faults>>

ServerStep ==
    \/ /\ \E d \in Docs : DeleteDocument(d) \/ \E j \in Jobs : CompleteUpload(d, j)
       /\ UNCHANGED taskVars
    \/ \E d \in Docs : CleanupWithArtifacts(d)
    \/ \E j \in Jobs : LeaseRunsOut(j)
    \/ (\E j \in Jobs : BecomesDue(j)) /\ UNCHANGED taskVars
    \/ \E u \in putting : RecordArtifact(u)
    \/ \E c \in late : ServeLate(c)

WorkStep(w) ==
    \/ \E j \in Jobs : Claim(w, j)
    \/ \E passed \in SUBSET Jobs : ClaimInVain(w, passed)
    \/ StartTask(w)
    \/ FetchInput(w)
    \/ \E outcome \in PageState \ {"none"} : ParsePage(w, outcome)
    \/ PutObject(w)
    \/ TakeReceipt(w)
    \/ CheckpointPage(w)
    \/ CompleteTask(w)
    \/ FailTask(w)
    \/ LoseLease(w)

FaultStep(w) ==
    \/ \E j \in Jobs : ClaimUnanswered(w, j)
    \/ \E retryable \in BOOLEAN : BreakTask(w, retryable)
    \/ Unreachable(w)
    \/ Die(w)

WorkerNext ==
    \/ \E w \in Workers : WorkStep(w) \/ HeartbeatTask(w) \/ FaultStep(w) \/ Restart(w)
    \/ ServerStep

WorkerSpec == WorkerInit /\ [][WorkerNext]_workerVars

-----------------------------------------------------------------------------
(* What the composition promises                                           *)

\* Whatever a worker goes through, and whenever its commands arrive, it sends only what
\* JobLease lets it send, under a lease it was granted and with page counts that the
\* contract knows, so that what holds of the protocol holds of the composition.
KeepsToProtocol == Spec

\* A worker that the server still obeys is never answered with a conflict, whatever it
\* went through: poller.py ends the process on such an answer, and the next lease of
\* the same job would end it again.
NeverRefused ==
    \A w \in Workers : Obeyed(w) => \A c \in Pending(w) : Acceptable(c)

\* An attempt is used up by a fault and by nothing else: late commands, competing
\* workers, expiries and resumes cost no attempt of their own, so a document that is
\* not rejected fails only after as many faults as it has attempts.
AttemptsAreFaults ==
    \A j \in Jobs :
        /\ job[j].attempt <= faults + 1
        /\ job[j].status \in {"failed", "partial_failed"} /\ j \notin rejected =>
              faults >= MaxAttempts

\* An upload that outlives its lease, its worker or its job does no harm to the rows:
\* none belongs to a purged job, and each page with a checkpoint still has its
\* artifact.  (The stored object of an upload cut short may stay on the disk with no
\* row that names it; this is about the rows.)
ArtifactsAreKept ==
    /\ \A f \in artifact : job[f.job].status # "purged"
    /\ \A j \in Jobs, a \in Attempts, p \in Pages :
          checkpoint[j][a][p] # "none" => [job |-> j, attempt |-> a, page |-> p] \in artifact

-----------------------------------------------------------------------------
(* Progress                                                                *)

\* A live process goes on with its task, a stopped one is restarted (compose.yml:
\* restart unless-stopped), the server ends what it began; the heartbeats keep a
\* lease alive unless a fault is spent, and abandoned leases run out.
WorkFairness ==
    /\ \A w \in Workers : WF_workerVars(WorkStep(w)) /\ WF_workerVars(Restart(w))
    /\ \A j \in Jobs : WF_workerVars(LeaseRunsOut(j) /\ UNCHANGED faults)
    /\ \A j \in Jobs : WF_workerVars(BecomesDue(j) /\ UNCHANGED taskVars)
    /\ WF_workerVars(\E u \in putting : RecordArtifact(u))

FairWorkerSpec == WorkerSpec /\ WorkFairness

\* A parsed document at the end: with fewer faults than attempts every live job ends
\* with a whole revision, unless its document is deleted or rejected.
JobsSucceed ==
    \A j \in Jobs : job[j].status = "queued" ~>
        \/ job[j].status \in {"succeeded", "cancelled", "purged"}
        \/ j \in rejected \/ faults >= MaxAttempts
=============================================================================
