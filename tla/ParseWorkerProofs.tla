-------------------------- MODULE ParseWorkerProofs --------------------------
(***************************************************************************)
(* Proofs about ParseWorker, for any documents, jobs, workers, page        *)
(* counts, attempts and faults: the workers keep to the protocol, so that  *)
(* what is proved of JobLease holds of the composition; and what the two   *)
(* promise only together.                                                  *)
(*                                                                         *)
(*   1. The invariant                 6. What the server does to each job  *)
(*   2. Tasks and commands            7. Artifacts                         *)
(*   3. The workers keep to the       8. Rows and grants                   *)
(*      protocol                      9. Progress of the obeyed tasks      *)
(*   4. What becomes of a task       10. Attempts and faults               *)
(*   5. Types, tasks, late commands                                        *)
(***************************************************************************)
EXTENDS ParseWorker, JobLeaseProofs, NaturalsInduction, TLAPS

-----------------------------------------------------------------------------
(* 1. The invariant                                                        *)

\* The pages the worker of a lease has to answer for
Asked(l) == IF l.requested # {} THEN l.requested ELSE 1..PageCount[job[l.job].doc]

\* What the server's rows have in addition when the workers are these and nobody asks
\* for a reparse: no page beyond the document is named, reported or counted, and the
\* first attempt of a job is asked for all of them.
RowInv(j) ==
    LET total == PageCount[job[j].doc] IN
    /\ job[j].requested \subseteq 1..total /\ job[j].total <= total
    /\ \A a \in Attempts : pageTotal[j][a] \in {0, total}
    /\ job[j].attempt = 0 => job[j].requested = {}
    /\ job[j].attempt > 0 => AskedForAll(j)

GrantInv == \A l \in granted : l.requested \subseteq 1..PageCount[job[l.job].doc]

\* A worker has a task exactly while it holds a lease, one that was granted to it.
GoodTask(w, t) ==
    /\ t.at \in {"stopped", "idle"} <=> t.lease = NoLease
    /\ t.lease # NoLease => /\ t.lease \in granted /\ t.lease.worker = w
                            /\ t.total \in ReportedTotals(t.lease)
    /\ t.at \in {"uploading", "recording", "checkpointing"} => t.outcome # "none"
    /\ t.at = "checkpointing" => t.todo # {}
    /\ t.at = "failing" /\ ~t.retryable => t.lease.job \in rejected

TaskInv(w) == GoodTask(w, worker[w])

\* A command that nobody waits for is of a task that was given up.
LateInv(c) ==
    /\ c.total \in ReportedTotals(c.lease)
    /\ c.op = "checkpoint" => c.page \in Pages /\ c.outcome # "none"
    /\ c.op = "fail" /\ ~c.retryable => c.lease.job \in rejected
    /\ \A w \in Workers : worker[w].lease = c.lease => worker[w].at = "failing"

\* How far a task that the server obeys has come, and what the server has of it
PageOf(t) == IF t.todo = {} THEN 0 ELSE Min(t.todo)

Progress(t) ==
    LET l == t.lease IN
    /\ t.at = "starting" => job[l.job].status = "leased"
    /\ t.at \in Executing \cup {"completing"} => job[l.job].status = "parsing"
    /\ \/ t.at = "failing"
       \/ /\ t.at \in {"starting", "fetching", "parsing"} /\ t.todo = {}
          /\ t.at = "parsing" => l.requested = {}
          /\ CoveredPages(l.job, l.attempt) = {}
       \/ /\ t.at \in (Executing \ {"fetching"}) \cup {"completing"}
          /\ t.at = "parsing" => t.todo # {}
          /\ t.todo \subseteq Asked(l)
          /\ CoveredPages(l.job, l.attempt) = Asked(l) \ t.todo
    /\ t.at = "checkpointing" => Artifact(l, PageOf(t)) \in artifact
    /\ t.at = "completing" => t.todo = {} /\ Artifact(l, 0) \in artifact

ProgressInv == \A w \in Workers : Obeyed(w) => Progress(worker[w])

\* A task without a fault so far: its lease is obeyed, no page of it failed, and its
\* worker is about to go on.
Sound(t) ==
    /\ t.at # "failing"
    /\ t.outcome \in {"none", "succeeded"}
    /\ \A p \in Pages : checkpoint[t.lease.job][t.lease.attempt][p] \in {"none", "succeeded"}

Healthy(w) == Obeyed(w) /\ Sound(worker[w])

InGoodHands(j) == \E w \in Workers : Healthy(w) /\ worker[w].lease.job = j

\* Every attempt but the current one has had its fault, and the current one as well
\* unless it is in good hands.
FaultInv(j) ==
    LET s == job[j].status IN
    /\ job[j].attempt <= faults + 1
    /\ s \in {"retry_wait", "failed", "partial_failed"} => job[j].attempt <= faults
    /\ s \in Held /\ ~InGoodHands(j) => job[j].attempt <= faults
    /\ s \in {"failed", "partial_failed"} /\ j \notin rejected => job[j].attempt = MaxAttempts

ServerInv == ResumeInv /\ RevisionInv

BaseInv ==
    /\ ServerInv
    /\ WorkerTypeOK
    /\ \A w \in Workers : TaskInv(w)
    /\ \A c \in late : LateInv(c)

-----------------------------------------------------------------------------
(* 2. Tasks and commands                                                   *)

LEMMA Moments ==
    /\ Executing = {"fetching", "parsing", "uploading", "recording", "checkpointing"}
    /\ Moment = {"stopped", "idle", "starting", "completing", "failing", "fetching", "parsing",
                 "uploading", "recording", "checkpointing"}
    /\ PageState = {"none", "succeeded", "ocr_required", "failed"}
    /\ 0 \in 0..MaxPages /\ Pages \subseteq 0..MaxPages
BY ConstantsOK DEF Executing, Moment, PageState, Pages

LEMMA TaskFields ==
    ASSUME NEW t \in Task0
    PROVE  /\ t.at \in Moment /\ t.lease \in granted \cup {NoLease} /\ t.todo \in SUBSET Pages
           /\ t.outcome \in PageState /\ t.total \in 0..MaxPages /\ t.retryable \in BOOLEAN
BY DEF Task0

LEMMA NoTaskFields ==
    ASSUME NEW moment \in {"stopped", "idle", "starting"}
    PROVE  /\ NoTask(moment) \in Task0
           /\ NoTask(moment).at = moment /\ NoTask(moment).lease = NoLease
BY Moments DEF NoTask, Task0

LEMMA ServerTypes ==
    ASSUME ServerInv
    PROVE  FenceInv /\ TypeInv /\ TypeOK
BY DEF ServerInv, ResumeInv, FenceInv, TypeInv

LEMMA TaskType ==
    ASSUME WorkerTypeOK, NEW w \in Workers
    PROVE  /\ worker[w] \in Task0 /\ worker[w].at \in Moment
           /\ worker[w].lease \in granted \cup {NoLease}
           /\ worker[w].todo \in SUBSET Pages /\ worker[w].outcome \in PageState
           /\ worker[w].total \in 0..MaxPages /\ worker[w].retryable \in BOOLEAN
BY TaskFields DEF WorkerTypeOK

\* A worker with a lease
LEMMA HeldLease ==
    ASSUME BaseInv, NEW w \in Workers, worker[w].at \notin {"stopped", "idle"}
    PROVE  /\ worker[w].lease \in granted /\ worker[w].lease.worker = w
           /\ worker[w].total \in ReportedTotals(worker[w].lease)
           /\ worker[w].lease.job \in Jobs /\ worker[w].lease.attempt \in Attempts
           /\ worker[w].lease.requested \in SUBSET Pages
<1>1. /\ worker[w].lease \in granted /\ worker[w].lease.worker = w
      /\ worker[w].total \in ReportedTotals(worker[w].lease)
  BY DEF BaseInv, TaskInv, GoodTask
<1>2. worker[w].lease \in Lease
  BY <1>1, ServerTypes DEF BaseInv, TypeOK
<1> QED
  BY <1>1, <1>2 DEF Lease

LEMMA LeastPage ==
    ASSUME NEW S \in SUBSET Pages, S # {}
    PROVE  Min(S) \in S
<1> DEFINE R == {pair \in Nat \X Nat : pair[1] < pair[2]}
<1>1. R = OpToRel(<, Nat)
  BY DEF OpToRel
<1>2. IsWellFoundedOn(R, Nat)
  BY <1>1, NatLessThanWellFounded
<1>3. S \in SUBSET Nat
  BY ConstantsOK DEF Pages
<1> HIDE DEF R
<1>4. PICK x \in S : \A y \in S : ~(<<y, x>> \in R)
  BY <1>2, <1>3, WFMin
<1>5. ASSUME NEW y \in S PROVE x <= y
  <2>1. ~(y < x)
    BY <1>3, <1>4 DEF R
  <2> QED
    BY <1>3, <2>1
<1>6. \E x1 \in S : \A y \in S : x1 <= y
  BY <1>5
<1> QED
  BY <1>6 DEF Min

LEMMA PageAtHand ==
    ASSUME WorkerTypeOK, NEW w \in Workers
    PROVE  /\ CurrentPage(w) \in 0..MaxPages
           /\ worker[w].todo = {} <=> CurrentPage(w) = 0
           /\ worker[w].todo # {} => CurrentPage(w) \in worker[w].todo /\ CurrentPage(w) \in Pages
<1>1. worker[w].todo \in SUBSET Pages
  BY TaskType
<1>2. worker[w].todo # {} => Min(worker[w].todo) \in worker[w].todo
  BY <1>1, LeastPage
<1> QED
  BY <1>1, <1>2, ConstantsOK DEF CurrentPage, Pages

LEMMA PendingIs ==
    ASSUME NEW w, NEW c \in Pending(w)
    PROVE  /\ c.lease = worker[w].lease /\ c.page = CurrentPage(w)
           /\ c.outcome = worker[w].outcome /\ c.total = worker[w].total
           /\ c.retryable = worker[w].retryable
           /\ c = [op |-> c.op, lease |-> worker[w].lease, page |-> CurrentPage(w),
                   outcome |-> worker[w].outcome, total |-> worker[w].total,
                   retryable |-> worker[w].retryable]
           /\ \/ c.op = "start" /\ worker[w].at = "starting"
              \/ c.op = "heartbeat" /\ worker[w].at \in Executing
              \/ c.op = "checkpoint" /\ worker[w].at = "checkpointing"
              \/ c.op = "complete" /\ worker[w].at = "completing"
              \/ c.op = "fail" /\ worker[w].at = "failing"
BY DEF Pending, Executing

LEMMA PendingType ==
    ASSUME BaseInv, NEW w \in Workers, NEW c \in Pending(w)
    PROVE  /\ c \in Command /\ worker[w].at \notin {"stopped", "idle"}
           /\ c.lease \in granted /\ c.total \in ReportedTotals(c.lease)
           /\ c.op = "checkpoint" => c.page \in Pages /\ c.outcome # "none"
           /\ c.op = "fail" /\ ~c.retryable => c.lease.job \in rejected
<1>1. WorkerTypeOK /\ TaskInv(w)
  BY DEF BaseInv
<1>2. worker[w].at \notin {"stopped", "idle"}
  BY PendingIs, Moments
<1>3. worker[w].lease \in granted /\ worker[w].total \in ReportedTotals(worker[w].lease)
  BY <1>2, HeldLease
<1>4. CurrentPage(w) \in 0..MaxPages /\ (worker[w].todo # {} => CurrentPage(w) \in Pages)
  BY <1>1, PageAtHand
<1>5. /\ worker[w].outcome \in PageState /\ worker[w].total \in 0..MaxPages
      /\ worker[w].retryable \in BOOLEAN
  BY <1>1, TaskType
<1>6. c.op \in {"start", "heartbeat", "checkpoint", "complete", "fail"}
  BY PendingIs
<1>7. c \in Command
  BY <1>3, <1>4, <1>5, <1>6, PendingIs DEF Command
<1> QED
  BY <1>1, <1>2, <1>3, <1>4, <1>7, PendingIs DEF TaskInv, GoodTask

-----------------------------------------------------------------------------
(* 3. The workers keep to the protocol                                     *)

\* What the server may be sent under a lease: a command JobLease lets a worker send.
\* A checkpoint comes after its artifact, a rejection is remembered.
Served(l) ==
    /\ l \in granted
    /\ \/ Start(l)
       \/ \E total \in ReportedTotals(l) : Heartbeat(l, total)
       \/ \E p \in Pages, s \in PageState \ {"none"} :
             Artifact(l, p) \in artifact /\ Checkpoint(l, p, s)
       \/ \E retryable \in BOOLEAN : (retryable \/ l.job \in rejected) /\ Fail(l, retryable)
       \/ CompleteWhole(l)
       \/ CompletePartial(l)

LEMMA ServedIsCommand ==
    ASSUME NEW l, Served(l)
    PROVE  CommandStep
BY DEF Served, CommandStep

\* A late command, and a command of a worker's own task
LEMMA LateIsServed ==
    ASSUME BaseInv, NEW c \in late, Serve(c)
    PROVE  Served(c.lease)
<1>1. /\ c.lease \in granted /\ c.op \in {"start", "heartbeat", "checkpoint", "complete", "fail"}
      /\ c.outcome \in PageState /\ c.retryable \in BOOLEAN
  BY DEF BaseInv, WorkerTypeOK, Command
<1>2. /\ c.total \in ReportedTotals(c.lease)
      /\ c.op = "checkpoint" => c.page \in Pages /\ c.outcome # "none"
      /\ c.op = "fail" => c.retryable \/ c.lease.job \in rejected
  BY DEF BaseInv, LateInv
<1>3. CASE c.op = "start"
  BY <1>1, <1>3 DEF Serve, Served
<1>4. CASE c.op = "heartbeat"
  BY <1>1, <1>2, <1>4 DEF Serve, Served
<1>5. CASE c.op = "checkpoint"
  BY <1>1, <1>2, <1>5 DEF Serve, Served
<1>6. CASE c.op = "complete"
  BY <1>1, <1>6 DEF Serve, Served
<1>7. CASE c.op = "fail"
  BY <1>1, <1>2, <1>7 DEF Serve, Served
<1> QED
  BY <1>1, <1>3, <1>4, <1>5, <1>6, <1>7

LEMMA TaskIsServed ==
    ASSUME BaseInv, NEW w \in Workers,
           \/ StartTask(w) \/ CheckpointPage(w) \/ HeartbeatTask(w)
           \/ CompleteTask(w) \/ FailTask(w)
    PROVE  Served(worker[w].lease)
<1>1. worker[w].at \notin {"stopped", "idle"}
  BY DEF StartTask, CheckpointPage, HeartbeatTask, CompleteTask, FailTask, Executing
<1>2. worker[w].lease \in granted /\ worker[w].total \in ReportedTotals(worker[w].lease)
  BY <1>1, HeldLease
<1>3. CASE CheckpointPage(w)
  <2>1. worker[w].todo # {} /\ worker[w].outcome # "none"
    BY <1>3 DEF BaseInv, TaskInv, GoodTask, CheckpointPage
  <2>2. CurrentPage(w) \in Pages /\ worker[w].outcome \in PageState
    BY <2>1, PageAtHand, TaskType DEF BaseInv
  <2> QED
    BY <1>2, <1>3, <2>1, <2>2 DEF CheckpointPage, Served
<1>4. CASE FailTask(w)
  <2>1. worker[w].retryable \in BOOLEAN
    BY TaskType DEF BaseInv
  <2>2. worker[w].retryable \/ worker[w].lease.job \in rejected
    BY <1>4 DEF BaseInv, TaskInv, GoodTask, FailTask
  <2> QED
    BY <1>2, <1>4, <2>1, <2>2 DEF FailTask, Served
<1>5. CASE StartTask(w) \/ HeartbeatTask(w) \/ CompleteTask(w)
  BY <1>2, <1>5 DEF StartTask, HeartbeatTask, CompleteTask, Served
<1> QED
  BY <1>3, <1>4, <1>5

\* The steps that leave the server alone
Privately(w) ==
    \/ FetchInput(w) \/ \E outcome \in PageState \ {"none"} : ParsePage(w, outcome)
    \/ PutObject(w) \/ TakeReceipt(w) \/ LoseLease(w)
    \/ \E retryable \in BOOLEAN : BreakTask(w, retryable)
    \/ Unreachable(w) \/ Die(w) \/ Restart(w)

LEMMA PrivateIsPrivate ==
    ASSUME NEW w, Privately(w)
    PROVE  UNCHANGED vars
BY DEF Privately, FetchInput, ParsePage, PutObject, TakeReceipt, LoseLease, BreakTask,
       Unreachable, Die, Restart, serverVars, vars

LEMMA ClaimedAlone ==
    ASSUME NEW w \in Workers, NEW j \in Jobs, Claim(w, j) \/ ClaimUnanswered(w, j)
    PROVE  ClaimLease(w, j, {}) /\ {} \in SUBSET Jobs
BY DEF Claim, ClaimUnanswered

\* What a step of the composition is to the server
ServerMoves ==
    \/ UNCHANGED vars
    \/ \E l \in granted : Served(l)
    \/ \E w \in Workers, passed \in SUBSET Jobs :
          ClaimNothing(w, passed) \/ \E j \in Jobs : ClaimLease(w, j, passed)
    \/ \E d \in Docs, j \in Jobs : CompleteUpload(d, j)
    \/ \E d \in Docs : DeleteDocument(d) \/ CleanupDocument(d)
    \/ \E j \in Jobs : LeaseExpires(j) \/ BecomesDue(j)

LEMMA StepMovesServer ==
    ASSUME BaseInv, [WorkerNext]_workerVars
    PROVE  ServerMoves
<1>1. ASSUME NEW w \in Workers, WorkStep(w) \/ HeartbeatTask(w) \/ FaultStep(w) \/ Restart(w)
      PROVE  ServerMoves
  <2>1. CASE Privately(w)
    BY <2>1, PrivateIsPrivate DEF ServerMoves
  <2>2. CASE \/ StartTask(w) \/ CheckpointPage(w) \/ HeartbeatTask(w)
             \/ CompleteTask(w) \/ FailTask(w)
    <3>1. Served(worker[w].lease)
      BY <2>2, TaskIsServed
    <3> QED
      BY <3>1 DEF Served, ServerMoves
  <2>3. ASSUME NEW j \in Jobs, Claim(w, j) \/ ClaimUnanswered(w, j)
        PROVE  ServerMoves
    BY <2>3, ClaimedAlone DEF ServerMoves
  <2>4. ASSUME NEW passed \in SUBSET Jobs, ClaimInVain(w, passed)
        PROVE  ServerMoves
    BY <2>4 DEF ClaimInVain, ServerMoves
  <2> QED
    BY <1>1, <2>1, <2>2, <2>3, <2>4 DEF WorkStep, FaultStep, Privately
<1>2. ASSUME ServerStep PROVE ServerMoves
  <2>1. ASSUME NEW d \in Docs, NEW j \in Jobs, CompleteUpload(d, j)
        PROVE  ServerMoves
    BY <2>1 DEF ServerMoves
  <2>2. ASSUME NEW d \in Docs, DeleteDocument(d) \/ CleanupWithArtifacts(d)
        PROVE  ServerMoves
    BY <2>2 DEF CleanupWithArtifacts, ServerMoves
  <2>3. ASSUME NEW j \in Jobs, LeaseRunsOut(j) \/ BecomesDue(j)
        PROVE  ServerMoves
    BY <2>3 DEF LeaseRunsOut, ServerMoves
  <2>4. ASSUME NEW u \in putting, RecordArtifact(u)
        PROVE  ServerMoves
    BY <2>4 DEF RecordArtifact, serverVars, vars, ServerMoves
  <2>5. ASSUME NEW c \in late, ServeLate(c)
        PROVE  ServerMoves
    <3>1. Served(c.lease)
      BY <2>5, LateIsServed DEF ServeLate
    <3> QED
      BY <3>1 DEF Served, ServerMoves
  <2> QED
    BY <1>2, <2>1, <2>2, <2>3, <2>4, <2>5 DEF ServerStep
<1>3. CASE UNCHANGED workerVars
  BY <1>3 DEF workerVars, serverVars, vars, ServerMoves
<1> QED
  BY <1>1, <1>2, <1>3 DEF WorkerNext

\* Every step of the composition is one of the protocol's, or none.
LEMMA StepIsServerStep ==
    ASSUME BaseInv, [WorkerNext]_workerVars
    PROVE  [Next]_vars
<1>1. ServerMoves
  BY StepMovesServer
<1> QED
  BY <1>1, ServedIsCommand DEF ServerMoves, Next, ClaimStep, UserStep, TimeStep

LEMMA ServerNext ==
    ASSUME BaseInv, [WorkerNext]_workerVars
    PROVE  ServerInv'
<1>1. [Next]_vars
  BY StepIsServerStep
<1> QED
  BY <1>1, ResumeNext, RevisionNext DEF BaseInv, ServerInv

\* A job stays with its document, and a lease granted stays granted.
Stays == /\ \A j \in Jobs : job'[j].doc = job[j].doc
         /\ granted \subseteq granted'

LEMMA ServerStays ==
    ASSUME TypeInv, [Next]_vars
    PROVE  Stays
<1>1. \A j \in Jobs : job[j] \in JobRow
  BY DEF TypeInv, TypeOK
<1>2. CASE ClaimStep
  <2>1. PICK w \in Workers, passed \in SUBSET Jobs :
            (\E j \in Jobs : ClaimLease(w, j, passed)) \/ ClaimNothing(w, passed)
    BY <1>2 DEF ClaimStep
  <2>2. granted \subseteq granted'
    BY <2>1 DEF ClaimLease, ClaimNothing
  <2> QED
    BY <2>1, <2>2, ClaimIsCalm DEF Calm, Stays
<1>3. CASE CommandStep
  <2>1. PICK l \in granted :
            \/ Start(l)
            \/ \E total \in ReportedTotals(l) : Heartbeat(l, total)
            \/ \E p \in Pages, s \in PageState \ {"none"} : Checkpoint(l, p, s)
            \/ \E retryable \in BOOLEAN : Fail(l, retryable)
            \/ CompleteWhole(l)
            \/ CompletePartial(l)
    BY <1>3 DEF CommandStep
  <2>2. granted' = granted
    BY <2>1 DEF Start, Heartbeat, Checkpoint, Fail, CompleteWhole, CompletePartial
  <2> QED
    BY <2>1, <2>2, CommandIsCalm DEF Calm, Stays
<1>4. CASE UserStep
  <2>1. ASSUME NEW d \in Docs, NEW j \in Jobs, NEW profile, NEW pages,
               Enqueue(d, j, profile, pages)
        PROVE  Stays
    <3>1. NewJob(d, profile, pages).doc = d /\ job[j].doc = d
      BY <2>1 DEF NewJob, Enqueue
    <3>2. \A k \in Jobs : job'[k] = IF k = j THEN NewJob(d, profile, pages) ELSE job[k]
      BY <2>1 DEF Enqueue, TypeInv, TypeOK
    <3> QED
      BY <2>1, <3>1, <3>2 DEF Stays, Enqueue
  <2>2. ASSUME NEW d \in Docs, DeleteDocument(d)
        PROVE  Stays
    <3>1. \A j \in Jobs : CancelledRow(job[j]).doc = job[j].doc
      BY <1>1, CancelledRowFacts DEF Keeps
    <3> QED
      BY <2>2, <3>1 DEF DeleteDocument, Stays
  <2>3. ASSUME NEW d \in Docs, CleanupDocument(d)
        PROVE  Stays
    <3>1. \A j \in Jobs : LET new == [job[j] EXCEPT !.status = "purged"] IN new.doc = job[j].doc
      BY <1>1, PurgedRowFacts DEF Keeps
    <3> QED
      BY <2>3, <3>1 DEF CleanupDocument, Stays
  <2>4. ASSUME NEW d \in Docs, CompleteExcluded(d)
        PROVE  Stays
    BY <2>4 DEF CompleteExcluded, Stays
  <2> QED
    BY <1>4, <2>1, <2>2, <2>3, <2>4 DEF UserStep, CompleteUpload, Reparse
<1>5. CASE TimeStep
  <2>1. PICK j \in Jobs : LeaseExpires(j) \/ BecomesDue(j)
    BY <1>5 DEF TimeStep
  <2> QED
    BY <2>1, TimeIsCalm DEF Calm, Stays, LeaseExpires, BecomesDue
<1>6. CASE UNCHANGED vars
  BY <1>6 DEF vars, Stays
<1> QED
  BY <1>2, <1>3, <1>4, <1>5, <1>6 DEF Next

\* What is asked of a lease, and what it may report, is settled when it is granted.
LEMMA LeaseIsSettled ==
    ASSUME TypeInv, Stays, NEW l \in granted
    PROVE  l \in granted' /\ Asked(l)' = Asked(l) /\ ReportedTotals(l)' = ReportedTotals(l)
<1>1. job'[l.job].doc = job[l.job].doc
  BY CommandTypes DEF TypeInv, Stays
<1> QED
  BY <1>1 DEF Stays, Asked, ReportedTotals

-----------------------------------------------------------------------------
(* 4. What becomes of a task                                               *)

\* The task of one worker is replaced.
Turns(w, t) ==
    /\ worker'[w] = t
    /\ \A v \in Workers : v # w => worker'[v] = worker[v]

LEMMA BecomeIs ==
    ASSUME WorkerTypeOK, NEW w \in Workers, NEW t, Become(w, t)
    PROVE  Turns(w, t) /\ worker' \in [Workers -> Task0 \cup {t}]
BY DEF WorkerTypeOK, Become, Turns

LEMMA MoveIs ==
    ASSUME WorkerTypeOK, NEW w \in Workers, NEW moment \in Moment, Move(w, moment)
    PROVE  \E t \in Task0 :
              /\ Become(w, t)
              /\ t.at = moment /\ t.lease = worker[w].lease /\ t.todo = worker[w].todo
              /\ t.outcome = worker[w].outcome /\ t.total = worker[w].total
              /\ t.retryable = worker[w].retryable
<1>1. worker[w] \in Task0 /\ worker \in [Workers -> Task0]
  BY DEF WorkerTypeOK
<1>2. PICK t : t = [worker[w] EXCEPT !.at = moment]
  OBVIOUS
<1>3. /\ t \in Task0 /\ t.at = moment /\ t.lease = worker[w].lease /\ t.todo = worker[w].todo
      /\ t.outcome = worker[w].outcome /\ t.total = worker[w].total
      /\ t.retryable = worker[w].retryable
  BY <1>1, <1>2 DEF Task0
<1>4. Become(w, t)
  BY <1>1, <1>2 DEF Move, Become
<1> QED
  BY <1>3, <1>4

\* A task that ends
LEMMA GivenUp ==
    ASSUME WorkerTypeOK, NEW w \in Workers,
           \/ LoseLease(w) \/ Unreachable(w) \/ Die(w) \/ Restart(w)
           \/ CompleteTask(w) \/ FailTask(w)
    PROVE  \E t \in Task0 : /\ Become(w, t) /\ t.at \in {"stopped", "idle"} /\ t.lease = NoLease
<1>1. PICK moment \in {"stopped", "idle"} : Become(w, NoTask(moment))
  BY DEF LoseLease, Unreachable, Die, Restart, CompleteTask, FailTask
<1>2. /\ NoTask(moment) \in Task0 /\ NoTask(moment).at = moment
      /\ NoTask(moment).lease = NoLease
  BY NoTaskFields
<1> QED
  BY <1>1, <1>2

LEMMA ClaimTask ==
    ASSUME BaseInv, ServerInv', NEW w \in Workers, NEW j \in Jobs, Claim(w, j)
    PROVE  \E t \in Task0' :
              /\ Become(w, t) /\ t.at = "starting" /\ t.lease = GrantedLease(j, w)
              /\ t.todo = {} /\ t.outcome = "none" /\ t.total = 0
<1>1. GrantedLease(j, w) \in granted'
  BY DEF Claim, ClaimLease
<1>2. PICK t : t = [NoTask("starting") EXCEPT !.lease = GrantedLease(j, w)]
  OBVIOUS
<1>3. t = [at |-> "starting", lease |-> GrantedLease(j, w), todo |-> {}, outcome |-> "none",
           total |-> 0, retryable |-> FALSE]
  BY <1>2 DEF NoTask
<1>4. t \in Task0'
  BY <1>1, <1>3, Moments DEF Task0
<1>5. Become(w, t)
  BY <1>2 DEF Claim
<1> QED
  BY <1>3, <1>4, <1>5

LEMMA StartOfTask ==
    ASSUME BaseInv, NEW w \in Workers, StartTask(w)
    PROVE  \E t \in Task0 :
              /\ Become(w, t) /\ t.at = "fetching" /\ t.lease = worker[w].lease
              /\ t.todo = worker[w].todo /\ t.outcome = worker[w].outcome
              /\ t.total \in ReportedTotals(t.lease)
<1>1. worker[w] \in Task0 /\ worker[w].at = "starting"
  BY TaskType DEF BaseInv, StartTask
<1>2. PICK l \in granted : l = worker[w].lease
  BY <1>1, HeldLease
<1>3. Cardinality(l.requested) \in ReportedTotals(l)
  BY DEF ReportedTotals
<1>4. Cardinality(l.requested) \in 0..MaxPages
  BY <1>3, ReportedTotalsType, ServerTypes DEF BaseInv
<1>5. PICK t : t = [worker[w] EXCEPT !.at = "fetching", !.total = Cardinality(l.requested)]
  OBVIOUS
<1>6. /\ t \in Task0 /\ t.at = "fetching" /\ t.lease = l /\ t.todo = worker[w].todo
      /\ t.outcome = worker[w].outcome /\ t.total = Cardinality(l.requested)
  BY <1>1, <1>2, <1>4, <1>5, Moments DEF Task0
<1>7. Become(w, t)
  BY <1>2, <1>5 DEF StartTask
<1> QED
  BY <1>2, <1>3, <1>6, <1>7

LEMMA FetchTask ==
    ASSUME BaseInv, NEW w \in Workers, FetchInput(w)
    PROVE  \E t \in Task0 :
              /\ Become(w, t) /\ t.at = "parsing" /\ t.lease = worker[w].lease
              /\ t.todo = worker[w].lease.requested /\ t.outcome = worker[w].outcome
              /\ t.total = 0
<1>1. worker[w] \in Task0 /\ worker[w].at = "fetching"
  BY TaskType DEF BaseInv, FetchInput
<1>2. worker[w].lease.requested \in SUBSET Pages
  BY <1>1, HeldLease
<1>3. PICK t : t = [worker[w] EXCEPT !.at = "parsing", !.total = 0,
                                     !.todo = worker[w].lease.requested]
  OBVIOUS
<1>4. /\ t \in Task0 /\ t.at = "parsing" /\ t.lease = worker[w].lease
      /\ t.todo = worker[w].lease.requested /\ t.outcome = worker[w].outcome /\ t.total = 0
  BY <1>1, <1>2, <1>3, Moments DEF Task0
<1>5. Become(w, t)
  BY <1>3 DEF FetchInput
<1> QED
  BY <1>4, <1>5

LEMMA ParseTask ==
    ASSUME BaseInv, NEW w \in Workers, NEW outcome \in PageState \ {"none"},
           ParsePage(w, outcome)
    PROVE  LET total == PageCount[job[worker[w].lease.job].doc] IN
           \E t \in Task0 :
              /\ Become(w, t) /\ t.at = "uploading" /\ t.lease = worker[w].lease
              /\ t.todo = IF worker[w].todo = {} THEN 1..total ELSE worker[w].todo
              /\ t.outcome = outcome /\ t.total = total
<1>1. worker[w] \in Task0 /\ worker[w].at = "parsing"
  BY TaskType DEF BaseInv, ParsePage
<1>2. worker[w].lease \in granted
  BY <1>1, HeldLease
<1>3. PICK total : total = PageCount[job[worker[w].lease.job].doc]
  OBVIOUS
<1>4. total \in 0..MaxPages /\ 1..total \in SUBSET Pages
  BY <1>2, <1>3, CommandTypes, ServerTypes, ConstantsOK DEF BaseInv, Pages
<1>5. PICK todo \in SUBSET Pages :
          todo = IF worker[w].todo = {} THEN 1..total ELSE worker[w].todo
  BY <1>1, <1>4, TaskFields
<1>6. PICK t : t = [worker[w] EXCEPT !.at = "uploading", !.total = total, !.todo = todo,
                                     !.outcome = outcome]
  OBVIOUS
<1>7. /\ t \in Task0 /\ t.at = "uploading" /\ t.lease = worker[w].lease /\ t.todo = todo
      /\ t.outcome = outcome /\ t.total = total
  BY <1>1, <1>4, <1>6, Moments DEF Task0
<1>8. Become(w, t)
  BY <1>3, <1>5, <1>6 DEF ParsePage
<1> QED
  BY <1>3, <1>5, <1>7, <1>8

LEMMA CheckpointTask ==
    ASSUME BaseInv, NEW w \in Workers, CheckpointPage(w)
    PROVE  LET todo == worker[w].todo \ {CurrentPage(w)} IN
           \E t \in Task0 :
              /\ Become(w, t) /\ t.at = IF todo = {} THEN "uploading" ELSE "parsing"
              /\ t.lease = worker[w].lease /\ t.todo = todo
              /\ t.outcome = worker[w].outcome /\ t.total = worker[w].total
<1>1. worker[w] \in Task0
  BY TaskType DEF BaseInv
<1>2. PICK todo \in SUBSET Pages : todo = worker[w].todo \ {CurrentPage(w)}
  BY <1>1, TaskFields
<1>3. PICK moment \in {"uploading", "parsing"} :
          moment = IF todo = {} THEN "uploading" ELSE "parsing"
  OBVIOUS
<1>4. PICK t : t = [worker[w] EXCEPT !.at = moment, !.todo = todo]
  OBVIOUS
<1>5. /\ t \in Task0 /\ t.at = moment /\ t.lease = worker[w].lease /\ t.todo = todo
      /\ t.outcome = worker[w].outcome /\ t.total = worker[w].total
  BY <1>1, <1>4, Moments DEF Task0
<1>6. Become(w, t)
  BY <1>2, <1>3, <1>4 DEF CheckpointPage
<1> QED
  BY <1>2, <1>3, <1>5, <1>6

LEMMA BreakOfTask ==
    ASSUME BaseInv, NEW w \in Workers, NEW retryable \in BOOLEAN, BreakTask(w, retryable)
    PROVE  \E t \in Task0 :
              /\ Become(w, t) /\ t.at = "failing" /\ t.lease = worker[w].lease
              /\ t.total = worker[w].total /\ t.retryable = retryable
<1>1. worker[w] \in Task0
  BY TaskType DEF BaseInv
<1>2. PICK t : t = [worker[w] EXCEPT !.at = "failing", !.retryable = retryable]
  OBVIOUS
<1>3. /\ t \in Task0 /\ t.at = "failing" /\ t.lease = worker[w].lease
      /\ t.total = worker[w].total /\ t.retryable = retryable
  BY <1>1, <1>2, Moments DEF Task0
<1>4. Become(w, t)
  BY <1>2 DEF BreakTask
<1> QED
  BY <1>3, <1>4

LEMMA PutAndTake ==
    ASSUME BaseInv, NEW w \in Workers, PutObject(w) \/ TakeReceipt(w)
    PROVE  \E t \in Task0 :
              /\ Become(w, t) /\ t.lease = worker[w].lease /\ t.todo = worker[w].todo
              /\ t.outcome = worker[w].outcome /\ t.total = worker[w].total
              /\ PutObject(w) => t.at = "recording"
              /\ TakeReceipt(w) => t.at = IF CurrentPage(w) = 0 THEN "completing"
                                                               ELSE "checkpointing"
<1>1. CASE PutObject(w)
  <2>1. Move(w, "recording") /\ "recording" \in Moment /\ ~TakeReceipt(w)
    BY <1>1, Moments DEF PutObject, TakeReceipt
  <2> QED
    BY <2>1, MoveIs DEF BaseInv
<1>2. CASE TakeReceipt(w)
  <2>1. PICK moment \in {"completing", "checkpointing"} :
            /\ Move(w, moment)
            /\ moment = IF CurrentPage(w) = 0 THEN "completing" ELSE "checkpointing"
    BY <1>2 DEF TakeReceipt
  <2>2. moment \in Moment /\ ~PutObject(w)
    BY <1>2, Moments DEF PutObject, TakeReceipt
  <2> QED
    BY <2>1, <2>2, MoveIs DEF BaseInv
<1> QED
  BY <1>1, <1>2

-----------------------------------------------------------------------------
(* 5. The types, the tasks and the late commands                           *)

\* What was granted, and what was refused for good, stays so.
Grows == Stays /\ rejected \subseteq rejected'

LEMMA TypesGrow ==
    ASSUME Stays
    PROVE  Task0 \subseteq Task0' /\ Command \subseteq Command' /\ Upload \subseteq Upload'
BY DEF Stays, Task0, Command, Upload

LEMMA NoLeaseIsGranted ==
    ASSUME TypeOK
    PROVE  NoLease \notin granted
BY WorkerConstantsOK DEF TypeOK

\* The task of a worker that does nothing
LEMMA IdleTask ==
    ASSUME BaseInv, Grows, NEW w \in Workers, worker'[w] = worker[w]
    PROVE  TaskInv(w)'
<1>1. PICK t : t = worker[w]
  OBVIOUS
<1>2. GoodTask(w, t) /\ TypeInv
  BY <1>1, ServerTypes DEF BaseInv, TaskInv
<1>3. t.lease # NoLease => /\ t.lease \in granted'
                           /\ t.total \in ReportedTotals(t.lease)'
  BY <1>2, LeaseIsSettled DEF Grows, GoodTask
<1>4. t.at = "failing" /\ ~t.retryable => t.lease.job \in rejected'
  BY <1>2 DEF GoodTask, Grows
<1>5. worker'[w] = t
  BY <1>1
<1> QED
  BY <1>2, <1>3, <1>4, <1>5 DEF GoodTask, TaskInv

\* A command that was late before: its task is given up and stays so.
LEMMA OldLate ==
    ASSUME BaseInv, Grows, NEW c \in late,
           \A v \in Workers : worker'[v].lease = c.lease => worker'[v].at = "failing"
    PROVE  LateInv(c)'
<1>1. LateInv(c) /\ c.lease \in granted /\ TypeInv
  BY ServerTypes DEF BaseInv, WorkerTypeOK, Command
<1>2. c.total \in ReportedTotals(c.lease)'
  BY <1>1, LeaseIsSettled DEF LateInv, Grows
<1>3. c.op = "fail" /\ ~c.retryable => c.lease.job \in rejected'
  BY <1>1 DEF LateInv, Grows
<1> QED
  BY <1>1, <1>2, <1>3 DEF LateInv

\* Nobody does anything, and no command is left behind.
LEMMA NobodyTurns ==
    ASSUME BaseInv, Grows, worker' = worker, late' \subseteq late
    PROVE  (\A v \in Workers : TaskInv(v)') /\ (\A c \in late' : LateInv(c)')
<1>1. ASSUME NEW c \in late', NEW v \in Workers, worker'[v].lease = c.lease
      PROVE  worker'[v].at = "failing"
  BY <1>1 DEF BaseInv, LateInv
<1> QED
  BY <1>1, IdleTask, OldLate

\* A worker is given the task t: a new lease, the same one or none.
TaskOf(w, t) ==
    /\ Become(w, t)
    /\ \/ t.lease = NoLease
       \/ t.lease = worker[w].lease /\ (t.at = "failing" \/ worker[w].at # "failing")
       \/ t.lease \notin granted

\* It may leave the command behind it was about to send, and then it gives up.
LeavesFor(w, t) ==
    \/ late' = late
    \/ \E c \in Pending(w) : /\ late' = late \cup {c}
                             /\ t.lease = NoLease \/ t.at = "failing"

LEMMA OneTurns ==
    ASSUME BaseInv, Grows, NEW w \in Workers, NEW t, TaskOf(w, t), LeavesFor(w, t),
           t.lease = NoLease \/ t.lease = worker[w].lease \/ t.lease \in granted',
           GoodTask(w, t)'
    PROVE  (\A v \in Workers : TaskInv(v)') /\ (\A c \in late' : LateInv(c)')
<1>1. /\ worker'[w] = t
      /\ \A v \in Workers : v # w => worker'[v] = worker[v]
  BY BecomeIs DEF BaseInv, TaskOf, Turns
<1>2. ASSUME NEW v \in Workers PROVE TaskInv(v)'
  <2>1. CASE v = w
    BY <1>1, <2>1 DEF TaskInv
  <2>2. CASE v # w
    BY <1>1, <2>2, IdleTask
  <2> QED
    BY <2>1, <2>2
<1>3. TypeOK /\ NoLease \notin granted
  BY ServerTypes, NoLeaseIsGranted DEF BaseInv
<1>4. ASSUME NEW c \in late PROVE LateInv(c)'
  <2>1. c.lease \in granted
    BY DEF BaseInv, WorkerTypeOK, Command
  <2>2. ASSUME NEW v \in Workers, worker'[v].lease = c.lease
        PROVE  worker'[v].at = "failing"
    <3>1. CASE v # w
      BY <1>1, <2>2, <3>1 DEF BaseInv, LateInv
    <3>2. CASE v = w
      <4>1. t.lease = c.lease
        BY <1>1, <2>2, <3>2
      <4>2. t.lease = worker[w].lease /\ (t.at = "failing" \/ worker[w].at # "failing")
        BY <1>3, <2>1, <4>1 DEF TaskOf
      <4>3. worker[w].at = "failing"
        BY <4>1, <4>2 DEF BaseInv, LateInv
      <4> QED
        BY <1>1, <3>2, <4>2, <4>3
    <3> QED
      BY <3>1, <3>2
  <2> QED
    BY <2>2, OldLate
<1>5. ASSUME NEW c \in Pending(w), t.lease = NoLease \/ t.at = "failing"
      PROVE  LateInv(c)'
  <2>1. /\ c.lease = worker[w].lease /\ c.lease \in granted /\ c.lease.worker = w
        /\ c.total \in ReportedTotals(c.lease)
        /\ c.op = "checkpoint" => c.page \in Pages /\ c.outcome # "none"
        /\ c.op = "fail" /\ ~c.retryable => c.lease.job \in rejected
    BY PendingIs, PendingType, HeldLease
  <2>2. c.total \in ReportedTotals(c.lease)'
    BY <2>1, ServerTypes, LeaseIsSettled DEF BaseInv, Grows
  <2>3. ASSUME NEW v \in Workers, worker'[v].lease = c.lease
        PROVE  worker'[v].at = "failing"
    <3>1. CASE v = w
      BY <1>1, <1>3, <1>5, <2>1, <2>3, <3>1
    <3>2. CASE v # w
      <4>1. worker[v].lease = c.lease
        BY <1>1, <2>3, <3>2
      <4>2. worker[v].lease # NoLease
        BY <1>3, <2>1, <4>1
      <4>3. worker[v].lease.worker = v
        BY <4>2 DEF BaseInv, TaskInv, GoodTask
      <4> QED
        BY <2>1, <3>2, <4>1, <4>3
    <3> QED
      BY <3>1, <3>2
  <2>4. c.op = "fail" /\ ~c.retryable => c.lease.job \in rejected'
    BY <2>1 DEF Grows
  <2> QED
    BY <2>1, <2>2, <2>3, <2>4 DEF LateInv
<1>6. ASSUME NEW c \in late' PROVE LateInv(c)'
  <2>1. CASE c \in late
    BY <1>4, <2>1
  <2>2. CASE c \notin late
    BY <1>5, <2>2 DEF LeavesFor
  <2> QED
    BY <2>1, <2>2
<1> QED
  BY <1>2, <1>6

\* The rest of what the steps change keeps to its type.
ArtifactRow == [job : Jobs, attempt : Attempts, page : 0..MaxPages]

Tidy ==
    /\ rejected \subseteq rejected' /\ rejected' \subseteq Jobs
    /\ putting' \subseteq Upload /\ artifact' \subseteq ArtifactRow
    /\ faults' \in 0..MaxFaults

LEMMA TidyNow ==
    ASSUME BaseInv
    PROVE  /\ rejected \subseteq Jobs /\ putting \subseteq Upload
           /\ artifact \subseteq ArtifactRow
           /\ faults \in 0..MaxFaults /\ MaxFaults \in Nat
           /\ Fault => faults' \in 0..MaxFaults
BY WorkerConstantsOK DEF BaseInv, WorkerTypeOK, ArtifactRow, Fault

LEMMA RowOfUpload ==
    ASSUME BaseInv, NEW u \in putting
    PROVE  Artifact(u.lease, u.page) \in ArtifactRow
<1>1. u.lease \in granted /\ u.page \in 0..MaxPages
  BY DEF BaseInv, WorkerTypeOK, Upload
<1>2. u.lease.job \in Jobs /\ u.lease.attempt \in Attempts
  BY <1>1, CommandTypes, ServerTypes DEF BaseInv
<1> QED
  BY <1>1, <1>2 DEF Artifact, ArtifactRow

LEMMA StepIsTidy ==
    ASSUME BaseInv, [WorkerNext]_workerVars
    PROVE  Tidy
<1>1. ASSUME NEW w \in Workers, WorkStep(w) \/ HeartbeatTask(w) \/ FaultStep(w) \/ Restart(w)
      PROVE  Tidy
  <2>1. ASSUME NEW outcome, ParsePage(w, outcome)
        PROVE  Tidy
    BY <2>1, TidyNow DEF ParsePage, Tidy
  <2>2. CASE PutObject(w)
    <3>1. worker[w].lease \in granted /\ CurrentPage(w) \in 0..MaxPages
      BY <2>2, HeldLease, PageAtHand DEF PutObject, BaseInv
    <3>2. [lease |-> worker[w].lease, page |-> CurrentPage(w)] \in Upload
      BY <3>1 DEF Upload
    <3> QED
      BY <2>2, <3>2, TidyNow DEF PutObject, Tidy
  <2>3. ASSUME NEW retryable \in BOOLEAN, BreakTask(w, retryable)
        PROVE  Tidy
    <3>1. worker[w].lease.job \in Jobs
      BY <2>3, HeldLease DEF BreakTask, Executing
    <3> QED
      BY <2>3, <3>1, TidyNow DEF BreakTask, Tidy
  <2>4. ASSUME NEW j \in Jobs, Claim(w, j) \/ ClaimUnanswered(w, j)
        PROVE  Tidy
    BY <2>4, TidyNow DEF Claim, ClaimUnanswered, Tidy
  <2>5. ASSUME NEW passed \in SUBSET Jobs, ClaimInVain(w, passed)
        PROVE  Tidy
    BY <2>5, TidyNow DEF ClaimInVain, taskVars, Tidy
  <2>6. CASE StartTask(w) \/ FetchInput(w) \/ TakeReceipt(w) \/ CheckpointPage(w)
    BY <2>6, TidyNow DEF StartTask, FetchInput, TakeReceipt, CheckpointPage, Tidy
  <2>7. CASE CompleteTask(w) \/ FailTask(w) \/ LoseLease(w) \/ HeartbeatTask(w) \/ Restart(w)
    BY <2>7, TidyNow
       DEF CompleteTask, FailTask, LoseLease, HeartbeatTask, Restart, taskVars, Tidy
  <2>8. CASE Unreachable(w) \/ Die(w)
    BY <2>8, TidyNow DEF Unreachable, Die, Tidy
  <2> QED
    BY <1>1, <2>1, <2>2, <2>3, <2>4, <2>5, <2>6, <2>7, <2>8 DEF WorkStep, FaultStep
<1>2. ASSUME ServerStep PROVE Tidy
  <2>1. ASSUME NEW u \in putting, RecordArtifact(u)
        PROVE  Tidy
    BY <2>1, TidyNow, RowOfUpload DEF RecordArtifact, Tidy
  <2>2. ASSUME NEW d \in Docs, CleanupWithArtifacts(d)
        PROVE  Tidy
    BY <2>2, TidyNow DEF CleanupWithArtifacts, Tidy
  <2>3. ASSUME NEW j \in Jobs, LeaseRunsOut(j)
        PROVE  Tidy
    BY <2>3, TidyNow DEF LeaseRunsOut, Tidy
  <2>4. ASSUME NEW c \in late, ServeLate(c)
        PROVE  Tidy
    BY <2>4, TidyNow DEF ServeLate, Tidy
  <2>5. ASSUME UNCHANGED taskVars
        PROVE  Tidy
    BY <2>5, TidyNow DEF taskVars, Tidy
  <2> QED
    BY <1>2, <2>1, <2>2, <2>3, <2>4, <2>5 DEF ServerStep
<1>3. CASE UNCHANGED workerVars
  BY <1>3, TidyNow DEF workerVars, taskVars, Tidy
<1> QED
  BY <1>1, <1>2, <1>3 DEF WorkerNext

\* The two ways a step keeps the tasks in order
LEMMA QuietKeepsBase ==
    ASSUME BaseInv, ServerInv', Stays, Tidy, worker' = worker, late' \subseteq late
    PROVE  BaseInv'
<1>1. Grows
  BY DEF Grows, Tidy
<1>2. (\A v \in Workers : TaskInv(v)') /\ (\A c \in late' : LateInv(c)')
  BY <1>1, NobodyTurns
<1>3. worker' \in [Workers -> Task0'] /\ late' \subseteq Command' /\ putting' \subseteq Upload'
  BY TypesGrow DEF BaseInv, WorkerTypeOK, Tidy
<1>4. TypeOK'
  BY DEF ServerInv, ResumeInv, FenceInv, TypeInv
<1> QED
  BY <1>2, <1>3, <1>4 DEF BaseInv, WorkerTypeOK, Tidy, ArtifactRow

LEMMA TurnKeepsBase ==
    ASSUME BaseInv, ServerInv', Stays, Tidy, NEW w \in Workers, NEW t \in Task0',
           TaskOf(w, t), LeavesFor(w, t), GoodTask(w, t)'
    PROVE  BaseInv'
<1>1. Grows /\ t.lease \in granted' \cup {NoLease}
  BY DEF Grows, Tidy, Task0
<1>2. (\A v \in Workers : TaskInv(v)') /\ (\A c \in late' : LateInv(c)')
  BY <1>1, OneTurns
<1>3. worker' \in [Workers -> Task0']
  BY TypesGrow DEF TaskOf, Become, BaseInv, WorkerTypeOK
<1>4. late' \subseteq Command' /\ putting' \subseteq Upload'
  BY TypesGrow, PendingType DEF LeavesFor, BaseInv, WorkerTypeOK, Tidy
<1>5. TypeOK'
  BY DEF ServerInv, ResumeInv, FenceInv, TypeInv
<1> QED
  BY <1>2, <1>3, <1>4, <1>5 DEF BaseInv, WorkerTypeOK, Tidy, ArtifactRow

LEMMA GivenUpKeepsBase ==
    ASSUME BaseInv, ServerInv', Stays, Tidy, NEW w \in Workers,
           \/ LoseLease(w) \/ Unreachable(w) \/ Die(w) \/ Restart(w)
           \/ CompleteTask(w) \/ FailTask(w)
    PROVE  BaseInv'
<1>1. PICK t \in Task0 : Become(w, t) /\ t.at \in {"stopped", "idle"} /\ t.lease = NoLease
  BY GivenUp DEF BaseInv
<1>2. TaskOf(w, t) /\ t \in Task0'
  BY <1>1, TypesGrow DEF TaskOf
<1>3. LeavesFor(w, t)
  BY <1>1 DEF LeavesFor, Leave, LoseLease, Unreachable, Die, Restart, CompleteTask, FailTask
<1>4. GoodTask(w, t)'
  BY <1>1 DEF GoodTask
<1> QED
  BY <1>2, <1>3, <1>4, TurnKeepsBase

\* A task that goes on under its lease
LEMMA GoesOnKeepsBase ==
    ASSUME BaseInv, ServerInv', Stays, Tidy, NEW w \in Workers, NEW t \in Task0,
           Become(w, t), t.lease = worker[w].lease,
           worker[w].at \notin {"stopped", "idle", "failing"}, t.at \notin {"stopped", "idle"},
           t.total \in ReportedTotals(t.lease),
           t.at \in {"uploading", "recording", "checkpointing"} => t.outcome # "none",
           t.at = "checkpointing" => t.todo # {},
           t.at = "failing" /\ ~t.retryable => t.lease.job \in rejected',
           LeavesFor(w, t)
    PROVE  BaseInv'
<1>1. worker[w].lease \in granted /\ worker[w].lease.worker = w
  BY HeldLease
<1>2. t.lease \in granted' /\ t.total \in ReportedTotals(t.lease)' /\ t.lease # NoLease
  BY <1>1, ServerTypes, LeaseIsSettled, NoLeaseIsGranted DEF BaseInv
<1>3. GoodTask(w, t)'
  BY <1>1, <1>2 DEF GoodTask
<1>4. TaskOf(w, t) /\ t \in Task0'
  BY TypesGrow DEF TaskOf
<1> QED
  BY <1>3, <1>4, TurnKeepsBase

LEMMA ClaimKeepsBase ==
    ASSUME BaseInv, ServerInv', Stays, Tidy, NEW w \in Workers, NEW j \in Jobs, Claim(w, j)
    PROVE  BaseInv'
<1>1. PICK t \in Task0' :
          /\ Become(w, t) /\ t.at = "starting" /\ t.lease = GrantedLease(j, w)
          /\ t.todo = {} /\ t.outcome = "none" /\ t.total = 0
  BY ClaimTask
<1>2. t.lease.job = j /\ t.lease.worker = w /\ t.lease.attempt = job[j].attempt + 1
  BY <1>1 DEF GrantedLease
<1>3. t.lease \notin granted
  <2>1. job[j].attempt \in Nat
    BY ServerTypes, RowFields, ConstantsOK DEF BaseInv, TypeOK
  <2> QED
    BY <1>2, <2>1, ServerTypes DEF BaseInv, FenceInv, GrantsArePast
<1>4. t.lease \in granted' /\ granted' \subseteq Lease
  BY <1>1 DEF Claim, ClaimLease, ServerInv, ResumeInv, FenceInv, TypeInv, TypeOK
<1>5. t.lease # NoLease
  BY <1>4, WorkerConstantsOK
<1>6. t.total \in ReportedTotals(t.lease)'
  BY <1>1 DEF ReportedTotals
<1>7. GoodTask(w, t)'
  BY <1>1, <1>2, <1>4, <1>5, <1>6 DEF GoodTask
<1>8. TaskOf(w, t)
  BY <1>1, <1>3 DEF TaskOf
<1>9. LeavesFor(w, t)
  BY DEF Claim, LeavesFor
<1> QED
  BY <1>7, <1>8, <1>9, TurnKeepsBase

LEMMA ExecutionKeepsBase ==
    ASSUME BaseInv, ServerInv', Stays, Tidy, NEW w \in Workers,
           \/ StartTask(w) \/ FetchInput(w)
           \/ \E outcome \in PageState \ {"none"} : ParsePage(w, outcome)
           \/ PutObject(w) \/ TakeReceipt(w) \/ CheckpointPage(w)
           \/ \E retryable \in BOOLEAN : BreakTask(w, retryable)
    PROVE  BaseInv'
<1>1. ASSUME worker[w].at \notin {"stopped", "idle"}
      PROVE  worker[w].total \in ReportedTotals(worker[w].lease)
  BY <1>1, HeldLease
<1>2. CASE StartTask(w)
  <2>1. PICK t \in Task0 :
            /\ Become(w, t) /\ t.at = "fetching" /\ t.lease = worker[w].lease
            /\ t.total \in ReportedTotals(t.lease)
    BY <1>2, StartOfTask
  <2>2. LeavesFor(w, t) /\ worker[w].at = "starting"
    BY <1>2 DEF StartTask, LeavesFor
  <2> QED
    BY <2>1, <2>2, GoesOnKeepsBase
<1>3. CASE FetchInput(w)
  <2>1. PICK t \in Task0 :
            /\ Become(w, t) /\ t.at = "parsing" /\ t.lease = worker[w].lease /\ t.total = 0
    BY <1>3, FetchTask
  <2>2. LeavesFor(w, t) /\ worker[w].at = "fetching" /\ t.total \in ReportedTotals(t.lease)
    BY <1>3, <2>1 DEF FetchInput, LeavesFor, ReportedTotals
  <2> QED
    BY <2>1, <2>2, GoesOnKeepsBase
<1>4. ASSUME NEW outcome \in PageState \ {"none"}, ParsePage(w, outcome)
      PROVE  BaseInv'
  <2>1. PICK t \in Task0 :
            /\ Become(w, t) /\ t.at = "uploading" /\ t.lease = worker[w].lease
            /\ t.outcome = outcome /\ t.total = PageCount[job[t.lease.job].doc]
    BY <1>4, ParseTask
  <2>2. LeavesFor(w, t) /\ worker[w].at = "parsing" /\ t.total \in ReportedTotals(t.lease)
    BY <1>4, <2>1 DEF ParsePage, LeavesFor, ReportedTotals
  <2> QED
    BY <2>1, <2>2, GoesOnKeepsBase
<1>5. CASE PutObject(w) \/ TakeReceipt(w)
  <2>1. PICK t \in Task0 :
            /\ Become(w, t) /\ t.lease = worker[w].lease /\ t.todo = worker[w].todo
            /\ t.outcome = worker[w].outcome /\ t.total = worker[w].total
            /\ PutObject(w) => t.at = "recording"
            /\ TakeReceipt(w) => t.at = IF CurrentPage(w) = 0 THEN "completing"
                                                             ELSE "checkpointing"
    BY <1>5, PutAndTake
  <2>2. LeavesFor(w, t) /\ worker[w].at \in {"uploading", "recording"}
    BY <1>5 DEF PutObject, TakeReceipt, LeavesFor
  <2>3. worker[w].outcome # "none"
    BY <2>2 DEF BaseInv, TaskInv, GoodTask
  <2>4. t.at \in {"recording", "completing", "checkpointing"}
    BY <1>5, <2>1
  <2>5. t.at = "checkpointing" => t.todo # {}
    <3>1. worker[w].todo = {} <=> CurrentPage(w) = 0
      BY PageAtHand DEF BaseInv
    <3> QED
      BY <1>5, <2>1, <3>1
  <2> QED
    BY <1>1, <2>1, <2>2, <2>3, <2>4, <2>5, GoesOnKeepsBase
<1>6. CASE CheckpointPage(w)
  <2>1. PICK t \in Task0 :
            /\ Become(w, t) /\ t.at \in {"uploading", "parsing"} /\ t.lease = worker[w].lease
            /\ t.outcome = worker[w].outcome /\ t.total = worker[w].total
    BY <1>6, CheckpointTask
  <2>2. LeavesFor(w, t) /\ worker[w].at = "checkpointing"
    BY <1>6 DEF CheckpointPage, LeavesFor
  <2>3. worker[w].outcome # "none"
    BY <2>2 DEF BaseInv, TaskInv, GoodTask
  <2> QED
    BY <1>1, <2>1, <2>2, <2>3, GoesOnKeepsBase
<1>7. ASSUME NEW retryable \in BOOLEAN, BreakTask(w, retryable)
      PROVE  BaseInv'
  <2>1. PICK t \in Task0 :
            /\ Become(w, t) /\ t.at = "failing" /\ t.lease = worker[w].lease
            /\ t.total = worker[w].total /\ t.retryable = retryable
    BY <1>7, BreakOfTask
  <2>2. LeavesFor(w, t) /\ worker[w].at \notin {"stopped", "idle", "failing"}
    BY <1>7, <2>1 DEF BreakTask, Leave, LeavesFor, Executing
  <2>3. ~t.retryable => t.lease.job \in rejected'
    BY <1>7, <2>1 DEF BreakTask
  <2> QED
    BY <1>1, <2>1, <2>2, <2>3, GoesOnKeepsBase
<1> QED
  BY <1>2, <1>3, <1>4, <1>5, <1>6, <1>7

LEMMA BaseNext == BaseInv /\ [WorkerNext]_workerVars => BaseInv'
<1> SUFFICES ASSUME BaseInv, [WorkerNext]_workerVars PROVE BaseInv'
  OBVIOUS
<1>1. ServerInv' /\ Stays /\ Tidy
  BY ServerNext, StepIsServerStep, ServerStays, StepIsTidy, ServerTypes DEF BaseInv
<1>2. ASSUME NEW w \in Workers, WorkStep(w) \/ HeartbeatTask(w) \/ FaultStep(w) \/ Restart(w)
      PROVE  BaseInv'
  <2>1. ASSUME NEW j \in Jobs, Claim(w, j)
        PROVE  BaseInv'
    BY <1>1, <2>1, ClaimKeepsBase
  <2>2. ASSUME NEW j \in Jobs, ClaimUnanswered(w, j)
        PROVE  BaseInv'
    BY <1>1, <2>2, QuietKeepsBase DEF ClaimUnanswered
  <2>3. ASSUME HeartbeatTask(w) \/ \E passed \in SUBSET Jobs : ClaimInVain(w, passed)
        PROVE  BaseInv'
    BY <1>1, <2>3, QuietKeepsBase DEF ClaimInVain, HeartbeatTask, taskVars
  <2> QED
    BY <1>1, <1>2, <2>1, <2>2, <2>3, ExecutionKeepsBase, GivenUpKeepsBase
       DEF WorkStep, FaultStep
<1>3. ASSUME ServerStep PROVE BaseInv'
  <2>1. worker' = worker /\ late' \subseteq late
    BY <1>3 DEF ServerStep, CleanupWithArtifacts, LeaseRunsOut, RecordArtifact, ServeLate,
                taskVars
  <2> QED
    BY <1>1, <2>1, QuietKeepsBase
<1>4. CASE UNCHANGED workerVars
  BY <1>1, <1>4, QuietKeepsBase DEF workerVars, taskVars
<1> QED
  BY <1>2, <1>3, <1>4 DEF WorkerNext

LEMMA BaseInit == WorkerInit => BaseInv
<1> SUFFICES ASSUME WorkerInit PROVE BaseInv
  OBVIOUS
<1>1. ServerInv /\ TypeOK
  BY ResumeInit, RevisionInit, ServerTypes DEF WorkerInit, ServerInv
<1>2. /\ NoTask("idle") \in Task0
      /\ NoTask("idle").at = "idle" /\ NoTask("idle").lease = NoLease
  BY NoTaskFields
<1>3. WorkerTypeOK
  BY <1>1, <1>2, WorkerConstantsOK DEF WorkerInit, WorkerTypeOK
<1>4. ASSUME NEW w \in Workers PROVE TaskInv(w)
  BY <1>2 DEF WorkerInit, TaskInv, GoodTask
<1> QED
  BY <1>1, <1>3, <1>4 DEF BaseInv, WorkerInit

LEMMA BaseAlways == WorkerSpec => []BaseInv
BY BaseInit, BaseNext, PTL DEF WorkerSpec

\* Whatever the workers go through, each variable keeps to its type: no task, command or
\* upload is of a lease that was never granted, and no fault is counted twice.
THEOREM WorkerTypes == WorkerSpec => []WorkerTypeOK
<1>1. BaseInv => WorkerTypeOK
  BY DEF BaseInv
<1> QED
  BY BaseAlways, <1>1, PTL

\* The poller, the handlers and their late requests send no command that JobLease does
\* not allow for, so what is proved of it for unconstrained clients holds of them.
THEOREM WorkersKeepToProtocol == WorkerSpec => KeepsToProtocol
<1>1. WorkerInit => Init
  BY DEF WorkerInit
<1>2. BaseInv /\ [WorkerNext]_workerVars => [Next]_vars
  BY StepIsServerStep
<1> QED
  BY BaseAlways, <1>1, <1>2, PTL DEF WorkerSpec, Spec, KeepsToProtocol

\* So the composition has what the protocol promises: one lease at a time is obeyed, a
\* resumed attempt asks for every missing page, a revision is whole, and each job goes
\* the way of a fenced task.
THEOREM CompositionKeepsPromises ==
    WorkerSpec => /\ [](OneActiveLease /\ ResumeCoversMissing /\ RevisionIsWhole)
                  /\ JobsAreFencedTasks
<1>1. WorkerSpec => Spec
  BY WorkersKeepToProtocol DEF KeepsToProtocol
<1> QED
  BY <1>1, LeasesAreFenced, NoPageIsForgotten, RevisionsAreWhole, JobsRefineFencedTask, PTL

-----------------------------------------------------------------------------
(* 6. What a step of the server does to each job                           *)

\* The columns that say what is asked of a job
Plan(row) == <<row.doc, row.attempt, row.requested, row.total>>

KeepsPlanOf(j) == Plan(job'[j]) = Plan(job[j])

\* A job the step has nothing to do with: its row and results stay, and so do the
\* columns of its document a lease is checked against.
Unmoved(j) ==
    /\ job'[j] = job[j] /\ checkpoint'[j] = checkpoint[j] /\ pageTotal'[j] = pageTotal[j]
    /\ doc'[job[j].doc].deleted = doc[job[j].doc].deleted
    /\ doc'[job[j].doc].epoch = doc[job[j].doc].epoch

LEMMA UnmovedLease ==
    ASSUME NEW l, Unmoved(l.job)
    PROVE  ActiveLease(l)' <=> ActiveLease(l)
BY DEF Unmoved, ActiveLease

LEMMA DocumentSaid ==
    ASSUME TypeOK, NEW d \in Docs, NEW status, doc' = [doc EXCEPT ![d].status = status]
    PROVE  \A e \in Docs : doc'[e].deleted = doc[e].deleted /\ doc'[e].epoch = doc[e].epoch
BY DEF TypeOK, DocRow

\* What the new row of one job leaves of the others
LEMMA OthersUnmoved ==
    ASSUME TypeOK, NEW j \in Jobs, NEW row, job' = [job EXCEPT ![j] = row],
           \A e \in Docs : doc'[e].deleted = doc[e].deleted /\ doc'[e].epoch = doc[e].epoch,
           \A k \in Jobs \ {j} : checkpoint'[k] = checkpoint[k] /\ pageTotal'[k] = pageTotal[k]
    PROVE  /\ job'[j] = row
           /\ \A k \in Jobs \ {j} : Unmoved(k)
BY RowFields DEF TypeOK, Unmoved

LEMMA PlanOfRows ==
    ASSUME NEW row \in JobRow
    PROVE  /\ Plan(FailedRow(row)) = Plan(row) /\ Plan(StartedRow(row)) = Plan(row)
           /\ Plan(CancelledRow(row)) = Plan(row)
           /\ Plan([row EXCEPT !.status = "purged"]) = Plan(row)
           /\ Plan([row EXCEPT !.expired = TRUE]) = Plan(row)
           /\ Plan([row EXCEPT !.due = TRUE]) = Plan(row)
<1>1. ClearLease(row) \in JobRow /\ Plan(ClearLease(row)) = Plan(row)
  BY ClearedRow DEF Plan, ClearLease, JobRow
<1>2. PICK cleared \in JobRow : cleared = ClearLease(row)
  BY <1>1
<1>3. Plan(FailedRow(row)) = Plan(row)
  BY <1>1, <1>2 DEF Plan, FailedRow, JobRow
<1>4. Plan(CancelledRow(row)) = Plan(row)
  BY <1>1, <1>2 DEF Plan, CancelledRow, JobRow
<1>5. /\ Plan(StartedRow(row)) = Plan(row)
      /\ Plan([row EXCEPT !.status = "purged"]) = Plan(row)
      /\ Plan([row EXCEPT !.expired = TRUE]) = Plan(row)
      /\ Plan([row EXCEPT !.due = TRUE]) = Plan(row)
  BY DEF Plan, StartedRow, JobRow
<1> QED
  BY <1>3, <1>4, <1>5

LEMMA PlanOfEnded ==
    ASSUME NEW row \in JobRow, NEW retrying \in BOOLEAN,
           NEW status \in {"failed", "partial_failed"}
    PROVE  LET new == EndedRow(row, retrying, status) IN
           /\ new \in JobRow /\ Plan(new) = Plan(row)
           /\ new.status = IF retrying THEN "retry_wait" ELSE status
<1>1. ClearLease(row) \in JobRow /\ Plan(ClearLease(row)) = Plan(row)
  BY ClearedRow DEF Plan, ClearLease, JobRow
<1>2. PICK cleared \in JobRow : cleared = ClearLease(row)
  BY <1>1
<1>3. Plan(EndedRow(row, retrying, status)) = Plan(row)
  BY <1>1, <1>2 DEF Plan, EndedRow, JobRow
<1> QED
  BY <1>3, EndedRowFacts

\* Claims.  The documents of the candidates that failed say so, and no more.
LEMMA PassedOver ==
    ASSUME TypeInv, NEW w \in Workers, NEW passed \in SUBSET Jobs, NEW k \in Jobs,
           \/ ClaimNothing(w, passed)
           \/ \E j \in Jobs \ {k} : ClaimLease(w, j, passed)
    PROVE  IF k \in passed
           THEN /\ Available(k) /\ Exhausted(k)
                /\ job'[k].status = "failed" /\ KeepsPlanOf(k)
                /\ checkpoint'[k] = checkpoint[k] /\ pageTotal'[k] = pageTotal[k]
           ELSE Unmoved(k)
<1>1. job[k] \in JobRow /\ job[k].doc \in Docs /\ doc \in [Docs -> DocRow]
  BY RowFields DEF TypeInv, TypeOK
<1>2. /\ job'[k] = IF k \in passed THEN FailedRow(job[k]) ELSE job[k]
      /\ checkpoint' = checkpoint /\ pageTotal' = pageTotal
      /\ doc' = [d \in Docs |-> IF \E i \in passed : job[i].doc = d
                                THEN [doc[d] EXCEPT !.status = "failed"] ELSE doc[d]]
      /\ k \in passed => Available(k) /\ Exhausted(k)
  BY DEF ClaimNothing, ClaimLease
<1>3. FailedRow(job[k]).status = "failed" /\ Plan(FailedRow(job[k])) = Plan(job[k])
  BY <1>1, FailedRowFacts, PlanOfRows
<1>4. \A d \in Docs : doc'[d].deleted = doc[d].deleted /\ doc'[d].epoch = doc[d].epoch
  <2>1. \A d \in Docs : LET new == [doc[d] EXCEPT !.status = "failed"] IN
           new.deleted = doc[d].deleted /\ new.epoch = doc[d].epoch
    BY <1>1 DEF DocRow
  <2> QED
    BY <1>2, <2>1
<1> QED
  BY <1>1, <1>2, <1>3, <1>4 DEF KeepsPlanOf, Unmoved

LEMMA NotExhausted ==
    ASSUME TypeInv, NEW j \in Jobs, Available(j), ~Exhausted(j)
    PROVE  job[j].attempt + 1 \in Attempts
BY RowFields, ConstantsOK DEF TypeInv, TypeOK, Fresh, Exhausted, Attempts

LEMMA HandedOut ==
    ASSUME TypeInv, NEW w \in Workers, NEW passed \in SUBSET Jobs, NEW j \in Jobs,
           ClaimLease(w, j, passed)
    PROVE  /\ Available(j) /\ ~Exhausted(j) /\ job[j].attempt + 1 \in Attempts
           /\ job'[j].status = "leased" /\ job'[j].doc = job[j].doc
           /\ job'[j].attempt = job[j].attempt + 1
           /\ job'[j].requested = RemainingPages(j) /\ job'[j].total = job[j].total
           /\ checkpoint'[j] = checkpoint[j] /\ pageTotal'[j] = pageTotal[j]
           /\ GrantedLease(j, w) \in granted'
<1>1. job[j] \in JobRow /\ RemainingPages(j) \in SUBSET Pages
  BY RemainingType DEF TypeInv, TypeOK
<1>2. Available(j) /\ ~Exhausted(j) /\ job[j].attempt + 1 \in Attempts
  BY NotExhausted DEF ClaimLease
<1>3. job'[j] = LeasedRow(job[j], w, RemainingPages(j))
  BY DEF ClaimLease
<1>4. LET new == LeasedRow(job[j], w, RemainingPages(j)) IN
      /\ new.status = "leased" /\ new.doc = job[j].doc /\ new.attempt = job[j].attempt + 1
      /\ new.requested = RemainingPages(j) /\ new.total = job[j].total
  BY <1>1 DEF LeasedRow, JobRow
<1> QED
  BY <1>2, <1>3, <1>4 DEF ClaimLease

\* The lease a claim returns is obeyed.
LEMMA HandedOutActive ==
    ASSUME TypeInv, NEW w \in Workers, NEW j \in Jobs, ClaimLease(w, j, {}),
           NEW l, l = GrantedLease(j, w)
    PROVE  ActiveLease(l)'
<1>1. job[j] \in JobRow /\ RemainingPages(j) \in SUBSET Pages
  BY RemainingType DEF TypeInv, TypeOK
<1>2. Available(j) /\ job[j].attempt + 1 \in Attempts
  BY NotExhausted DEF ClaimLease
<1>3. PICK new : new = LeasedRow(job[j], w, RemainingPages(j))
  OBVIOUS
<1>4. /\ new.status = "leased" /\ new.owner = w /\ new.attempt = job[j].attempt + 1
      /\ new.lease = job[j].lease + 1 /\ new.token = job[j].lease + 1
      /\ ~new.expired /\ new.doc = job[j].doc /\ new.epoch = job[j].epoch
  BY <1>1, <1>2, <1>3, LeasedRowFacts
<1>5. /\ l.job = j /\ l.worker = w /\ l.attempt = job[j].attempt + 1
      /\ l.version = job[j].lease + 1 /\ l.epoch = job[j].epoch
  BY DEF GrantedLease
<1>6. job'[j] = new /\ job[j].doc \in Docs
  BY <1>1, <1>3, RowFields DEF ClaimLease
<1>7. doc'[job[j].doc] = doc[job[j].doc]
  BY <1>6 DEF ClaimLease
<1> QED
  BY <1>2, <1>4, <1>5, <1>6, <1>7 DEF ActiveLease, Available, Held

\* A row that stays held under its lease
Kept(old, new) ==
    /\ new.owner = old.owner /\ new.lease = old.lease /\ new.token = old.token
    /\ new.epoch = old.epoch /\ new.doc = old.doc /\ new.attempt = old.attempt
    /\ new.requested = old.requested

LEMMA KeptActive ==
    ASSUME NEW l, ActiveLease(l), Kept(job[l.job], job'[l.job]), job'[l.job].status \in Held,
           ~job'[l.job].expired,
           doc'[job[l.job].doc].deleted = doc[job[l.job].doc].deleted,
           doc'[job[l.job].doc].epoch = doc[job[l.job].doc].epoch
    PROVE  ActiveLease(l)'
BY DEF ActiveLease, Kept

LEMMA StartEffect ==
    ASSUME TypeInv, NEW l \in granted, Start(l)
    PROVE  /\ ActiveLease(l) /\ job[l.job].status = "leased"
           /\ job'[l.job].status = "parsing" /\ KeepsPlanOf(l.job)
           /\ checkpoint' = checkpoint /\ pageTotal' = pageTotal /\ granted' = granted
           /\ ActiveLease(l)'
           /\ \A k \in Jobs \ {l.job} : Unmoved(k)
<1>1. /\ TypeOK /\ l.job \in Jobs /\ job[l.job] \in JobRow /\ job[l.job].doc \in Docs
  BY CommandTypes DEF TypeInv
<1>2. /\ ActiveLease(l) /\ job[l.job].status = "leased" /\ granted' = granted
      /\ checkpoint' = checkpoint /\ pageTotal' = pageTotal
      /\ job' = [job EXCEPT ![l.job] = StartedRow(job[l.job])]
      /\ doc' = [doc EXCEPT ![job[l.job].doc].status = "processing"]
  BY DEF Start, SetDocStatus
<1>3. \A e \in Docs : doc'[e].deleted = doc[e].deleted /\ doc'[e].epoch = doc[e].epoch
  BY <1>1, <1>2, DocumentSaid
<1>4. PICK row : row = StartedRow(job[l.job])
  OBVIOUS
<1>5. /\ row.status = "parsing" /\ Plan(row) = Plan(job[l.job]) /\ Kept(job[l.job], row)
      /\ ~row.expired
  <2>1. /\ row.status = "parsing" /\ Plan(row) = Plan(job[l.job]) /\ Kept(job[l.job], row)
    BY <1>1, <1>4, StartedRowFacts, PlanOfRows DEF Kept, Keeps
  <2>2. ~row.expired
    BY <1>1, <1>4 DEF StartedRow, JobRow
  <2> QED
    BY <2>1, <2>2
<1>6. job'[l.job] = row /\ \A k \in Jobs \ {l.job} : Unmoved(k)
  BY <1>1, <1>2, <1>3, <1>4, OthersUnmoved
<1>7. ActiveLease(l)'
  BY <1>1, <1>2, <1>3, <1>5, <1>6, KeptActive DEF Held
<1> QED
  BY <1>2, <1>5, <1>6, <1>7 DEF KeepsPlanOf

LEMMA HeartbeatEffect ==
    ASSUME TypeInv, NEW l \in granted, NEW total \in ReportedTotals(l), Heartbeat(l, total)
    PROVE  /\ ActiveLease(l) /\ job[l.job].status = "parsing"
           /\ job'[l.job].status = "parsing" /\ job'[l.job].total = total
           /\ job'[l.job].requested = job[l.job].requested /\ job'[l.job].doc = job[l.job].doc
           /\ job'[l.job].attempt = job[l.job].attempt
           /\ checkpoint' = checkpoint /\ pageTotal' = pageTotal /\ granted' = granted
           /\ ActiveLease(l)'
           /\ \A k \in Jobs \ {l.job} : Unmoved(k)
<1>1. /\ TypeOK /\ l.job \in Jobs /\ job[l.job] \in JobRow /\ job[l.job].doc \in Docs
  BY CommandTypes DEF TypeInv
<1>2. /\ ActiveLease(l) /\ job[l.job].status = "parsing" /\ granted' = granted
      /\ checkpoint' = checkpoint /\ pageTotal' = pageTotal /\ doc' = doc
      /\ job' = [job EXCEPT ![l.job] = AliveRow(job[l.job], total)]
  BY DEF Heartbeat
<1>3. PICK row : row = AliveRow(job[l.job], total)
  OBVIOUS
<1>4. /\ row.status = "parsing" /\ row.total = total /\ Kept(job[l.job], row) /\ ~row.expired
  BY <1>1, <1>2, <1>3 DEF AliveRow, Kept, JobRow
<1>5. job'[l.job] = row /\ \A k \in Jobs \ {l.job} : Unmoved(k)
  BY <1>1, <1>2, <1>3, OthersUnmoved
<1>6. ActiveLease(l)'
  BY <1>1, <1>2, <1>4, <1>5, KeptActive DEF Held
<1> QED
  BY <1>2, <1>4, <1>5, <1>6 DEF Kept

LEMMA CheckpointEffect ==
    ASSUME TypeInv, NEW l \in granted, NEW p \in Pages, NEW s, Checkpoint(l, p, s)
    PROVE  /\ ActiveLease(l) /\ job[l.job].status = "parsing" /\ job' = job
           /\ \A a \in Attempts, q \in Pages : checkpoint'[l.job][a][q] =
                 IF a = l.attempt /\ q = p THEN s ELSE checkpoint[l.job][a][q]
           /\ pageTotal' = pageTotal /\ granted' = granted
           /\ ActiveLease(l)'
           /\ \A k \in Jobs \ {l.job} : Unmoved(k)
<1>1. /\ TypeOK /\ l.job \in Jobs /\ l.attempt \in Attempts
  BY CommandTypes DEF TypeInv
<1>2. /\ ActiveLease(l) /\ job[l.job].status = "parsing" /\ granted' = granted
      /\ job' = job /\ doc' = doc /\ pageTotal' = pageTotal
      /\ checkpoint' = [checkpoint EXCEPT ![l.job][l.attempt][p] = s]
  BY DEF Checkpoint
<1>3. \A a \in Attempts, q \in Pages : checkpoint'[l.job][a][q] =
          IF a = l.attempt /\ q = p THEN s ELSE checkpoint[l.job][a][q]
  BY <1>1, <1>2 DEF TypeOK
<1>4. \A k \in Jobs \ {l.job} : Unmoved(k)
  BY <1>1, <1>2 DEF TypeOK, Unmoved
<1>5. ActiveLease(l)'
  BY <1>2 DEF ActiveLease
<1> QED
  BY <1>2, <1>3, <1>4, <1>5

LEMMA FailEffect ==
    ASSUME TypeInv, NEW l \in granted, NEW retryable \in BOOLEAN, Fail(l, retryable)
    PROVE  /\ ActiveLease(l) /\ KeepsPlanOf(l.job)
           /\ job'[l.job].status = IF retryable /\ job[l.job].attempt < MaxAttempts
                                   THEN "retry_wait" ELSE "failed"
           /\ checkpoint' = checkpoint /\ pageTotal' = pageTotal /\ granted' = granted
           /\ \A k \in Jobs \ {l.job} : Unmoved(k)
<1>1. /\ TypeOK /\ l.job \in Jobs /\ job[l.job] \in JobRow /\ job[l.job].doc \in Docs
  BY CommandTypes DEF TypeInv
<1>2. PICK retrying \in BOOLEAN : retrying = (retryable /\ job[l.job].attempt < MaxAttempts)
  OBVIOUS
<1>3. PICK status : status = IF retrying THEN "queued" ELSE "failed"
  OBVIOUS
<1>4. /\ ActiveLease(l) /\ granted' = granted
      /\ checkpoint' = checkpoint /\ pageTotal' = pageTotal
      /\ job' = [job EXCEPT ![l.job] = EndedRow(job[l.job], retrying, "failed")]
      /\ doc' = [doc EXCEPT ![job[l.job].doc].status = status]
  BY <1>2, <1>3 DEF Fail, SetDocStatus
<1>5. \A e \in Docs : doc'[e].deleted = doc[e].deleted /\ doc'[e].epoch = doc[e].epoch
  BY <1>1, <1>4, DocumentSaid
<1>6. PICK row : row = EndedRow(job[l.job], retrying, "failed")
  OBVIOUS
<1>7. Plan(row) = Plan(job[l.job]) /\ row.status = IF retrying THEN "retry_wait" ELSE "failed"
  BY <1>1, <1>6, PlanOfEnded
<1>8. job'[l.job] = row /\ \A k \in Jobs \ {l.job} : Unmoved(k)
  BY <1>1, <1>4, <1>5, <1>6, OthersUnmoved
<1> QED
  BY <1>2, <1>4, <1>7, <1>8 DEF KeepsPlanOf

LEMMA WholeEffect ==
    ASSUME TypeInv, NEW l \in granted, CompleteWhole(l)
    PROVE  LET total == PageCount[job[l.job].doc] IN
           /\ ActiveLease(l) /\ job'[l.job].status = "succeeded"
           /\ job'[l.job].doc = job[l.job].doc /\ job'[l.job].attempt = job[l.job].attempt
           /\ job'[l.job].requested = job[l.job].requested /\ job'[l.job].total = total
           /\ \A a \in Attempts : pageTotal'[l.job][a] \in {pageTotal[l.job][a], total}
           /\ checkpoint' = checkpoint /\ granted' = granted
           /\ \A k \in Jobs \ {l.job} : Unmoved(k)
<1>1. /\ TypeOK /\ l.job \in Jobs /\ job[l.job] \in JobRow /\ job[l.job].doc \in Docs
      /\ l.attempt \in Attempts /\ PageCount[job[l.job].doc] \in 0..MaxPages
  BY CommandTypes DEF TypeInv
<1>2. PICK total \in 0..MaxPages : total = PageCount[job[l.job].doc]
  BY <1>1
<1>3. PICK said : said = [doc[job[l.job].doc] EXCEPT !.status = "parsed_index_blocked",
                                                    !.preview = l.job]
  OBVIOUS
<1>4. /\ ActiveLease(l) /\ granted' = granted /\ checkpoint' = checkpoint
      /\ pageTotal' = [pageTotal EXCEPT ![l.job][l.attempt] = total]
      /\ job' = [job EXCEPT ![l.job] = SucceededRow(job[l.job], total)]
      /\ doc' = [doc EXCEPT ![job[l.job].doc] = said]
  BY <1>2, <1>3 DEF CompleteWhole
<1>5. \A e \in Docs : doc'[e].deleted = doc[e].deleted /\ doc'[e].epoch = doc[e].epoch
  <2>1. said.deleted = doc[job[l.job].doc].deleted /\ said.epoch = doc[job[l.job].doc].epoch
    BY <1>1, <1>3 DEF TypeOK, DocRow
  <2> QED
    BY <1>1, <1>4, <2>1 DEF TypeOK
<1>6. PICK row : row = SucceededRow(job[l.job], total)
  OBVIOUS
<1>7. /\ row.status = "succeeded" /\ row.total = total /\ row.doc = job[l.job].doc
      /\ row.attempt = job[l.job].attempt /\ row.requested = job[l.job].requested
  BY <1>1, <1>6 DEF SucceededRow, ClearLease, JobRow
<1>8. job'[l.job] = row /\ \A k \in Jobs \ {l.job} : Unmoved(k)
  <2>1. \A k \in Jobs \ {l.job} : pageTotal'[k] = pageTotal[k]
    BY <1>1, <1>4 DEF TypeOK
  <2> QED
    BY <1>1, <1>4, <1>5, <1>6, <2>1, OthersUnmoved
<1>9. \A a \in Attempts : pageTotal'[l.job][a] \in {pageTotal[l.job][a], total}
  BY <1>1, <1>4 DEF TypeOK
<1> QED
  BY <1>2, <1>4, <1>7, <1>8, <1>9

LEMMA PartialEffect ==
    ASSUME TypeInv, NEW l \in granted, CompletePartial(l)
    PROVE  LET total == PageCount[job[l.job].doc] IN
           /\ ActiveLease(l)
           /\ job'[l.job].status = IF job[l.job].attempt < MaxAttempts
                                   THEN "retry_wait" ELSE "partial_failed"
           /\ job'[l.job].doc = job[l.job].doc /\ job'[l.job].attempt = job[l.job].attempt
           /\ job'[l.job].requested = MissingPages(l.job, total)
           /\ MissingPages(l.job, total) # {} /\ job'[l.job].total = total
           /\ \A a \in Attempts : pageTotal'[l.job][a] \in {pageTotal[l.job][a], total}
           /\ checkpoint' = checkpoint /\ granted' = granted
           /\ \A k \in Jobs \ {l.job} : Unmoved(k)
<1>1. /\ TypeOK /\ l.job \in Jobs /\ job[l.job] \in JobRow /\ job[l.job].doc \in Docs
      /\ l.attempt \in Attempts /\ PageCount[job[l.job].doc] \in 0..MaxPages
  BY CommandTypes DEF TypeInv
<1>2. PICK total \in 0..MaxPages : total = PageCount[job[l.job].doc]
  BY <1>1
<1>3. PICK retrying \in BOOLEAN : retrying = (job[l.job].attempt < MaxAttempts)
  <2> DEFINE more == job[l.job].attempt < MaxAttempts
  <2>1. more \in BOOLEAN
    OBVIOUS
  <2> HIDE DEF more
  <2>2. \E retrying \in BOOLEAN : retrying = more
    BY <2>1
  <2> QED
    BY <2>2 DEF more
<1>4. PICK status : status = IF retrying THEN "queued" ELSE "partial_failed"
  OBVIOUS
<1>5. PICK missing : missing = MissingPages(l.job, total)
  OBVIOUS
<1>6. PICK profile : profile = RetryProfile(l.job, l.attempt, missing)
  OBVIOUS
<1>7. PICK ended \in JobRow : /\ ended = EndedRow(job[l.job], retrying, "partial_failed")
                              /\ ended.status = IF retrying THEN "retry_wait"
                                                            ELSE "partial_failed"
                              /\ Plan(ended) = Plan(job[l.job])
  BY <1>1, PlanOfEnded
<1>8. PICK row : row = PartialRow(ended, total, missing, profile)
  OBVIOUS
<1>9. /\ ActiveLease(l) /\ granted' = granted /\ checkpoint' = checkpoint /\ missing # {}
      /\ pageTotal' = [pageTotal EXCEPT ![l.job][l.attempt] = total]
      /\ job' = [job EXCEPT ![l.job] = row]
      /\ doc' = [doc EXCEPT ![job[l.job].doc].status = status]
  BY <1>2, <1>3, <1>4, <1>5, <1>6, <1>7, <1>8 DEF CompletePartial, SetDocStatus
<1>10. \A e \in Docs : doc'[e].deleted = doc[e].deleted /\ doc'[e].epoch = doc[e].epoch
  BY <1>1, <1>9, DocumentSaid
<1>11. /\ row.status = ended.status /\ row.total = total /\ row.requested = missing
       /\ row.doc = job[l.job].doc /\ row.attempt = job[l.job].attempt
  BY <1>7, <1>8 DEF PartialRow, Plan, JobRow
<1>12. job'[l.job] = row /\ \A k \in Jobs \ {l.job} : Unmoved(k)
  <2>1. \A k \in Jobs \ {l.job} : pageTotal'[k] = pageTotal[k]
    BY <1>1, <1>9 DEF TypeOK
  <2> QED
    BY <1>1, <1>9, <1>10, <2>1, OthersUnmoved
<1>13. \A a \in Attempts : pageTotal'[l.job][a] \in {pageTotal[l.job][a], total}
  BY <1>1, <1>9 DEF TypeOK
<1> QED
  BY <1>2, <1>3, <1>5, <1>7, <1>9, <1>11, <1>12, <1>13

LEMMA UploadEffect ==
    ASSUME TypeInv, NEW d \in Docs, NEW j \in Jobs, CompleteUpload(d, j)
    PROVE  /\ job[j].status = "none" /\ job'[j].status = "queued" /\ job'[j].doc = job[j].doc
           /\ job'[j].attempt = 0 /\ job'[j].requested = {} /\ job'[j].total = 0
           /\ checkpoint' = checkpoint /\ pageTotal' = pageTotal /\ granted' = granted
           /\ \A k \in Jobs \ {j} : Unmoved(k)
<1>1. PICK profile : Enqueue(d, j, profile, {})
  BY DEF CompleteUpload
<1>2. PICK row : row = NewJob(d, profile, {})
  OBVIOUS
<1>3. /\ row.status = "queued" /\ row.doc = d /\ row.attempt = 0 /\ row.requested = {}
      /\ row.total = 0
  BY <1>2 DEF NewJob
<1>4. PICK said : said = [doc[d] EXCEPT !.status = "queued", !.latest = j]
  OBVIOUS
<1>5. /\ job[j].status = "none" /\ job[j].doc = d
      /\ job' = [job EXCEPT ![j] = row] /\ doc' = [doc EXCEPT ![d] = said]
      /\ checkpoint' = checkpoint /\ pageTotal' = pageTotal /\ granted' = granted
  BY <1>1, <1>2, <1>4 DEF Enqueue
<1>6. \A e \in Docs : doc'[e].deleted = doc[e].deleted /\ doc'[e].epoch = doc[e].epoch
  <2>1. said.deleted = doc[d].deleted /\ said.epoch = doc[d].epoch
    BY <1>4 DEF TypeInv, TypeOK, DocRow
  <2> QED
    BY <1>5, <2>1 DEF TypeInv, TypeOK
<1>7. job'[j] = row /\ \A k \in Jobs \ {j} : Unmoved(k)
  BY <1>5, <1>6, OthersUnmoved DEF TypeInv
<1> QED
  BY <1>3, <1>5, <1>7

LEMMA DeleteEffect ==
    ASSUME TypeInv, NEW d \in Docs, DeleteDocument(d), NEW k \in Jobs
    PROVE  /\ checkpoint' = checkpoint /\ pageTotal' = pageTotal /\ granted' = granted
           /\ \/ Unmoved(k)
              \/ job'[k] = job[k] /\ job[k].status \notin Held
              \/ job'[k].status = "cancelled" /\ KeepsPlanOf(k)
<1>1. job[k] \in JobRow /\ job[k].doc \in Docs
  BY RowFields DEF TypeInv, TypeOK
<1>2. CASE k \in CancelledJobs(d)
  <2>1. CancelledRow(job[k]).status = "cancelled" /\ Plan(CancelledRow(job[k])) = Plan(job[k])
    BY <1>1, CancelledRowFacts, PlanOfRows
  <2>2. job'[k] = CancelledRow(job[k])
    BY <1>2 DEF DeleteDocument
  <2> QED
    BY <2>1, <2>2 DEF KeepsPlanOf, DeleteDocument
<1>3. CASE k \notin CancelledJobs(d)
  <2>1. job'[k] = job[k]
    BY <1>3 DEF DeleteDocument
  <2>2. CASE job[k].doc = d
    BY <1>3, <2>1, <2>2, Statuses DEF CancelledJobs, DeleteDocument
  <2>3. CASE job[k].doc # d
    BY <1>1, <2>1, <2>3 DEF Unmoved, DeleteDocument, TypeInv, TypeOK
  <2> QED
    BY <2>2, <2>3
<1> QED
  BY <1>2, <1>3

LEMMA CleanupEffect ==
    ASSUME TypeInv, NEW d \in Docs, CleanupDocument(d), NEW k \in Jobs
    PROVE  /\ granted' = granted
           /\ \/ Unmoved(k)
              \/ /\ job[k].status \in Terminal /\ job'[k].status = "purged" /\ KeepsPlanOf(k)
                 /\ checkpoint'[k] = NoCheckpoints /\ pageTotal'[k] = NoTotals
<1>1. job[k] \in JobRow /\ job[k].doc \in Docs
  BY RowFields DEF TypeInv, TypeOK
<1>2. PICK row : row = [job[k] EXCEPT !.status = "purged"]
  OBVIOUS
<1>3. row.status = "purged" /\ Plan(row) = Plan(job[k])
  BY <1>1, <1>2, PurgedRowFacts, PlanOfRows
<1>4. CASE job[k].doc = d /\ job[k].status \in Terminal
  <2>1. /\ job'[k] = row /\ checkpoint'[k] = NoCheckpoints /\ pageTotal'[k] = NoTotals
        /\ granted' = granted
    BY <1>2, <1>4 DEF CleanupDocument
  <2> QED
    BY <1>3, <1>4, <2>1 DEF KeepsPlanOf
<1>5. CASE ~(job[k].doc = d /\ job[k].status \in Terminal)
  BY <1>1, <1>5 DEF CleanupDocument, Unmoved
<1> QED
  BY <1>4, <1>5

LEMMA TimeEffect ==
    ASSUME TypeInv, NEW j \in Jobs, LeaseExpires(j) \/ BecomesDue(j)
    PROVE  /\ job'[j].status = job[j].status /\ KeepsPlanOf(j)
           /\ LeaseExpires(j) => job[j].status \in Held /\ job'[j].expired
           /\ BecomesDue(j) => job[j].status = "retry_wait"
           /\ checkpoint' = checkpoint /\ pageTotal' = pageTotal /\ granted' = granted
           /\ \A k \in Jobs \ {j} : Unmoved(k)
<1>1. job[j] \in JobRow /\ TypeOK
  BY DEF TypeInv, TypeOK
<1>2. /\ checkpoint' = checkpoint /\ pageTotal' = pageTotal /\ granted' = granted
      /\ doc' = doc
  BY DEF LeaseExpires, BecomesDue
<1>3. CASE LeaseExpires(j)
  <2>1. PICK row : row = [job[j] EXCEPT !.expired = TRUE]
    OBVIOUS
  <2>2. row.status = job[j].status /\ row.expired /\ Plan(row) = Plan(job[j])
    <3>1. row.expired /\ row.status = job[j].status
      BY <1>1, <2>1 DEF JobRow
    <3> QED
      BY <1>1, <2>1, <3>1, PlanOfRows
  <2>3. job' = [job EXCEPT ![j] = row] /\ job[j].status \in Held
    BY <1>3, <2>1 DEF LeaseExpires
  <2>4. job'[j] = row /\ \A k \in Jobs \ {j} : Unmoved(k)
    BY <1>1, <1>2, <2>3, OthersUnmoved
  <2>5. job[j].status # "retry_wait" /\ ~BecomesDue(j)
    BY <2>3 DEF Held, BecomesDue
  <2> QED
    BY <1>2, <2>2, <2>3, <2>4, <2>5 DEF KeepsPlanOf
<1>4. CASE BecomesDue(j)
  <2>1. PICK row : row = [job[j] EXCEPT !.due = TRUE]
    OBVIOUS
  <2>2. row.status = job[j].status /\ Plan(row) = Plan(job[j])
    BY <1>1, <2>1, DueRowFacts, PlanOfRows
  <2>3. job' = [job EXCEPT ![j] = row] /\ job[j].status = "retry_wait"
    BY <1>4, <2>1 DEF BecomesDue
  <2>4. job'[j] = row /\ \A k \in Jobs \ {j} : Unmoved(k)
    BY <1>1, <1>2, <2>3, OthersUnmoved
  <2>5. ~LeaseExpires(j)
    BY <2>3 DEF Held, LeaseExpires
  <2> QED
    BY <1>2, <2>2, <2>3, <2>4, <2>5 DEF KeepsPlanOf
<1> QED
  BY <1>3, <1>4

\* What all commands have in common
LEMMA ServedEffect ==
    ASSUME TypeInv, NEW l, Served(l)
    PROVE  /\ l \in granted /\ l.job \in Jobs /\ ActiveLease(l) /\ granted' = granted
           /\ job'[l.job].status \in {"parsing", "retry_wait", "failed", "partial_failed",
                                      "succeeded"}
           /\ job'[l.job].attempt = job[l.job].attempt /\ job'[l.job].doc = job[l.job].doc
           /\ \A k \in Jobs \ {l.job} : Unmoved(k)
<1>1. l \in granted /\ l.job \in Jobs
  BY CommandTypes DEF Served, TypeInv
<1>2. CASE Start(l)
  BY <1>1, <1>2, StartEffect DEF KeepsPlanOf, Plan
<1>3. ASSUME NEW total \in ReportedTotals(l), Heartbeat(l, total)
      PROVE  /\ ActiveLease(l) /\ granted' = granted
             /\ job'[l.job].status = "parsing"
             /\ job'[l.job].attempt = job[l.job].attempt /\ job'[l.job].doc = job[l.job].doc
             /\ \A k \in Jobs \ {l.job} : Unmoved(k)
  BY <1>1, <1>3, HeartbeatEffect
<1>4. ASSUME NEW p \in Pages, NEW s, Checkpoint(l, p, s)
      PROVE  /\ ActiveLease(l) /\ granted' = granted
             /\ job'[l.job].status = "parsing"
             /\ job'[l.job].attempt = job[l.job].attempt /\ job'[l.job].doc = job[l.job].doc
             /\ \A k \in Jobs \ {l.job} : Unmoved(k)
  BY <1>1, <1>4, CheckpointEffect
<1>5. ASSUME NEW retryable \in BOOLEAN, Fail(l, retryable)
      PROVE  /\ ActiveLease(l) /\ granted' = granted
             /\ job'[l.job].status \in {"retry_wait", "failed"}
             /\ job'[l.job].attempt = job[l.job].attempt /\ job'[l.job].doc = job[l.job].doc
             /\ \A k \in Jobs \ {l.job} : Unmoved(k)
  BY <1>1, <1>5, FailEffect DEF KeepsPlanOf, Plan
<1>6. CASE CompleteWhole(l)
  BY <1>1, <1>6, WholeEffect
<1>7. CASE CompletePartial(l)
  BY <1>1, <1>7, PartialEffect
<1> QED
  BY <1>1, <1>2, <1>3, <1>4, <1>5, <1>6, <1>7 DEF Served

-----------------------------------------------------------------------------
(* 7. Artifacts                                                            *)

\* ArtifactsAreKept for one job, after a step
KeptFor(k) ==
    /\ \A f \in artifact' : f.job = k => job'[k].status # "purged"
    /\ \A a \in Attempts, p \in Pages :
          checkpoint'[k][a][p] # "none" => [job |-> k, attempt |-> a, page |-> p] \in artifact'

LEMMA KeptForAll ==
    ASSUME Tidy, \A k \in Jobs : KeptFor(k)
    PROVE  ArtifactsAreKept'
BY DEF Tidy, ArtifactRow, KeptFor, ArtifactsAreKept

LEMMA KeptAsBefore ==
    ASSUME ArtifactsAreKept, NEW k \in Jobs, artifact' = artifact,
           checkpoint'[k] = checkpoint[k],
           job'[k].status = "purged" => job[k].status = "purged"
    PROVE  KeptFor(k)
BY DEF ArtifactsAreKept, KeptFor

LEMMA KeptUnmoved ==
    ASSUME ArtifactsAreKept, NEW k \in Jobs, artifact' = artifact, Unmoved(k)
    PROVE  KeptFor(k)
BY KeptAsBefore DEF Unmoved

LEMMA ServedKeepsArtifacts ==
    ASSUME BaseInv, ArtifactsAreKept, NEW l, Served(l), artifact' = artifact
    PROVE  \A k \in Jobs : KeptFor(k)
<1>1. TypeInv
  BY ServerTypes DEF BaseInv
<1>2. /\ l \in granted /\ l.job \in Jobs /\ job'[l.job].status # "purged"
      /\ \A k \in Jobs \ {l.job} : Unmoved(k)
  BY <1>1, ServedEffect
<1>3. ASSUME NEW p \in Pages, NEW s, Checkpoint(l, p, s), Artifact(l, p) \in artifact
      PROVE  KeptFor(l.job)
  <2>1. \A a \in Attempts, q \in Pages : checkpoint'[l.job][a][q] =
            IF a = l.attempt /\ q = p THEN s ELSE checkpoint[l.job][a][q]
    BY <1>1, <1>2, <1>3, CheckpointEffect
  <2>2. ASSUME NEW a \in Attempts, NEW q \in Pages, checkpoint'[l.job][a][q] # "none"
        PROVE  [job |-> l.job, attempt |-> a, page |-> q] \in artifact
    <3>1. CASE a = l.attempt /\ q = p
      BY <1>3, <3>1 DEF Artifact
    <3>2. CASE ~(a = l.attempt /\ q = p)
      BY <1>2, <2>1, <2>2, <3>2 DEF ArtifactsAreKept
    <3> QED
      BY <3>1, <3>2
  <2> QED
    BY <1>2, <2>2 DEF KeptFor
<1>4. ASSUME checkpoint' = checkpoint
      PROVE  KeptFor(l.job)
  BY <1>2, <1>4, KeptAsBefore
<1>5. KeptFor(l.job)
  <2>1. ASSUME \/ Start(l) \/ CompleteWhole(l) \/ CompletePartial(l)
               \/ \E total \in ReportedTotals(l) : Heartbeat(l, total)
               \/ \E retryable \in BOOLEAN : Fail(l, retryable)
        PROVE  checkpoint' = checkpoint
    BY <2>1 DEF Start, CompleteWhole, CompletePartial, Heartbeat, Fail
  <2> QED
    BY <1>3, <1>4, <2>1 DEF Served
<1> QED
  BY <1>2, <1>5, KeptUnmoved

LEMMA ArtifactsNext == BaseInv /\ ArtifactsAreKept /\ [WorkerNext]_workerVars => ArtifactsAreKept'
<1> SUFFICES ASSUME BaseInv, ArtifactsAreKept, [WorkerNext]_workerVars PROVE ArtifactsAreKept'
  OBVIOUS
<1>1. Tidy /\ TypeInv
  BY StepIsTidy, ServerTypes DEF BaseInv
<1>2. ASSUME UNCHANGED vars, artifact' = artifact
      PROVE  ArtifactsAreKept'
  BY <1>2 DEF vars, ArtifactsAreKept
<1>3. ASSUME NEW l, Served(l), artifact' = artifact
      PROVE  ArtifactsAreKept'
  BY <1>1, <1>3, ServedKeepsArtifacts, KeptForAll
<1>4. ASSUME NEW w \in Workers, NEW passed \in SUBSET Jobs, artifact' = artifact,
             ClaimNothing(w, passed) \/ \E j \in Jobs : ClaimLease(w, j, passed)
      PROVE  ArtifactsAreKept'
  <2>1. ASSUME NEW k \in Jobs PROVE KeptFor(k)
    <3>1. CASE ClaimLease(w, k, passed)
      BY <1>1, <1>4, <3>1, HandedOut, KeptAsBefore
    <3>2. CASE ~ClaimLease(w, k, passed)
      <4>1. ClaimNothing(w, passed) \/ \E j \in Jobs \ {k} : ClaimLease(w, j, passed)
        BY <1>4, <3>2
      <4> QED
        BY <1>1, <1>4, <4>1, PassedOver, KeptAsBefore, KeptUnmoved
    <3> QED
      BY <3>1, <3>2
  <2> QED
    BY <1>1, <2>1, KeptForAll
<1>5. ASSUME NEW w \in Workers, WorkStep(w) \/ HeartbeatTask(w) \/ FaultStep(w) \/ Restart(w)
      PROVE  ArtifactsAreKept'
  <2>1. artifact' = artifact
    BY <1>5 DEF WorkStep, HeartbeatTask, FaultStep, Restart, Claim, ClaimInVain, StartTask,
       FetchInput, ParsePage, PutObject, TakeReceipt, CheckpointPage, CompleteTask, FailTask,
       LoseLease, ClaimUnanswered, BreakTask, Unreachable, Die, taskVars
  <2>2. CASE Privately(w)
    BY <1>2, <2>1, <2>2, PrivateIsPrivate
  <2>3. CASE \/ StartTask(w) \/ CheckpointPage(w) \/ HeartbeatTask(w)
             \/ CompleteTask(w) \/ FailTask(w)
    BY <1>3, <2>1, <2>3, TaskIsServed
  <2>4. ASSUME NEW j \in Jobs, Claim(w, j) \/ ClaimUnanswered(w, j)
        PROVE  ArtifactsAreKept'
    BY <1>4, <2>1, <2>4, ClaimedAlone
  <2>5. ASSUME NEW passed \in SUBSET Jobs, ClaimInVain(w, passed)
        PROVE  ArtifactsAreKept'
    BY <1>4, <2>1, <2>5 DEF ClaimInVain
  <2> QED
    BY <1>5, <2>2, <2>3, <2>4, <2>5 DEF WorkStep, FaultStep, Privately
<1>6. ASSUME NEW d \in Docs, NEW j \in Jobs, CompleteUpload(d, j), artifact' = artifact
      PROVE  ArtifactsAreKept'
  BY <1>1, <1>6, UploadEffect, KeptAsBefore, KeptUnmoved, KeptForAll
<1>7. ASSUME NEW d \in Docs, DeleteDocument(d), artifact' = artifact
      PROVE  ArtifactsAreKept'
  <2>1. ASSUME NEW k \in Jobs PROVE KeptFor(k)
    BY <1>1, <1>7, DeleteEffect, KeptAsBefore, KeptUnmoved
  <2> QED
    BY <1>1, <2>1, KeptForAll
<1>8. ASSUME NEW d \in Docs, CleanupWithArtifacts(d)
      PROVE  ArtifactsAreKept'
  <2>1. ASSUME NEW k \in Jobs PROVE KeptFor(k)
    <3>1. artifact' = {f \in artifact : job'[f.job].status # "purged"}
      BY <1>8 DEF CleanupWithArtifacts
    <3>2. \A f \in artifact' : f.job = k => job'[k].status # "purged"
      BY <3>1
    <3>3. CASE Unmoved(k)
      <4>1. ASSUME NEW a \in Attempts, NEW p \in Pages, checkpoint'[k][a][p] # "none"
            PROVE  [job |-> k, attempt |-> a, page |-> p] \in artifact'
        <5>1. PICK f : f = [job |-> k, attempt |-> a, page |-> p]
          OBVIOUS
        <5>2. f \in artifact /\ f.job = k
          BY <3>3, <4>1, <5>1 DEF Unmoved, ArtifactsAreKept
        <5>3. job'[k].status # "purged"
          BY <3>3, <5>2 DEF Unmoved, ArtifactsAreKept
        <5> QED
          BY <3>1, <5>1, <5>2, <5>3
      <4> QED
        BY <3>2, <4>1 DEF KeptFor
    <3>4. CASE checkpoint'[k] = NoCheckpoints
      BY <3>2, <3>4 DEF NoCheckpoints, KeptFor
    <3> QED
      BY <1>1, <1>8, <3>3, <3>4, CleanupEffect DEF CleanupWithArtifacts
  <2> QED
    BY <1>1, <2>1, KeptForAll
<1>9. ASSUME NEW j \in Jobs, LeaseExpires(j) \/ BecomesDue(j), artifact' = artifact
      PROVE  ArtifactsAreKept'
  BY <1>1, <1>9, TimeEffect, KeptAsBefore, KeptUnmoved, KeptForAll
<1>10. ASSUME NEW u \in putting, RecordArtifact(u)
       PROVE  ArtifactsAreKept'
  <2>1. UNCHANGED vars
    BY <1>10 DEF RecordArtifact, serverVars, vars
  <2>2. artifact \subseteq artifact'
    BY <1>10 DEF RecordArtifact
  <2>3. ASSUME NEW f \in artifact' PROVE job[f.job].status # "purged"
    <3>1. CASE f \in artifact
      BY <3>1 DEF ArtifactsAreKept
    <3>2. CASE f \notin artifact
      <4>1. ActiveLease(u.lease) /\ f = Artifact(u.lease, u.page)
        BY <1>10, <2>3, <3>2 DEF RecordArtifact
      <4>2. f.job = u.lease.job
        BY <4>1 DEF Artifact
      <4> QED
        BY <4>1, <4>2 DEF ActiveLease, Held
    <3> QED
      BY <3>1, <3>2
  <2> QED
    BY <2>1, <2>2, <2>3 DEF vars, ArtifactsAreKept
<1>11. ASSUME ServerStep PROVE ArtifactsAreKept'
  <2>1. ASSUME NEW c \in late, ServeLate(c)
        PROVE  ArtifactsAreKept'
    BY <1>3, <2>1, LateIsServed DEF ServeLate
  <2>2. ASSUME NEW j \in Jobs, LeaseRunsOut(j)
        PROVE  ArtifactsAreKept'
    BY <1>9, <2>2 DEF LeaseRunsOut
  <2> QED
    BY <1>6, <1>7, <1>8, <1>9, <1>10, <1>11, <2>1, <2>2 DEF ServerStep, taskVars
<1>12. CASE UNCHANGED workerVars
  BY <1>2, <1>12 DEF workerVars, serverVars, taskVars, vars
<1> QED
  BY <1>5, <1>11, <1>12 DEF WorkerNext

\* An upload that outlives its lease, its worker or its job leaves nothing behind, and no
\* page with a checkpoint loses its artifact, for any number of workers and faults.
THEOREM ArtifactsStayWithJobs == WorkerSpec => []ArtifactsAreKept
<1>1. WorkerInit => ArtifactsAreKept
  BY DEF WorkerInit, Init, NoCheckpoints, ArtifactsAreKept
<1> QED
  BY BaseAlways, ArtifactsNext, <1>1, PTL DEF WorkerSpec

-----------------------------------------------------------------------------
(* 8. Rows and grants                                                      *)

RowsInv == GrantInv /\ \A j \in Jobs : RowInv(j)

LEMMA CountType ==
    ASSUME TypeInv, NEW j \in Jobs
    PROVE  /\ PageCount[job[j].doc] \in Nat \ {0} /\ PageCount[job[j].doc] \in 0..MaxPages
           /\ 1..PageCount[job[j].doc] \subseteq Pages
           /\ job[j].total \in Nat /\ job[j].attempt \in Nat
<1>1. job[j] \in JobRow /\ job[j].doc \in Docs
  BY RowFields DEF TypeInv, TypeOK
<1> QED
  BY <1>1, RowFields, ConstantsOK DEF Pages

\* A row that asks for no more than before, or for pages of the document
LEMMA RowGoesOn ==
    ASSUME NEW k \in Jobs, RowInv(k), granted \subseteq granted',
           job'[k].doc = job[k].doc, job'[k].attempt = job[k].attempt,
           job'[k].requested \subseteq 1..PageCount[job[k].doc],
           job'[k].total <= PageCount[job[k].doc],
           job[k].attempt = 0 => job'[k].requested = {},
           \A a \in Attempts : pageTotal'[k][a] \in {pageTotal[k][a], 0, PageCount[job[k].doc]}
    PROVE  RowInv(k)'
<1>1. job[k].attempt > 0 => AskedForAll(k)'
  BY DEF RowInv, AskedForAll
<1>2. \A a \in Attempts : pageTotal'[k][a] \in {0, PageCount[job[k].doc]}
  BY DEF RowInv
<1> QED
  BY <1>1, <1>2 DEF RowInv

LEMMA RowAsBefore ==
    ASSUME NEW k \in Jobs, RowInv(k), granted \subseteq granted', KeepsPlanOf(k),
           pageTotal'[k] \in {pageTotal[k], NoTotals}
    PROVE  RowInv(k)'
<1>1. /\ job'[k].doc = job[k].doc /\ job'[k].attempt = job[k].attempt
      /\ job'[k].requested = job[k].requested /\ job'[k].total = job[k].total
  BY DEF KeepsPlanOf, Plan
<1>2. \A a \in Attempts : pageTotal'[k][a] \in {pageTotal[k][a], 0}
  BY DEF NoTotals
<1>3. /\ job[k].requested \subseteq 1..PageCount[job[k].doc]
      /\ job[k].total <= PageCount[job[k].doc]
      /\ job[k].attempt = 0 => job[k].requested = {}
  BY DEF RowInv
<1> QED
  BY <1>1, <1>2, <1>3, RowGoesOn

LEMMA RowUnmoved ==
    ASSUME NEW k \in Jobs, RowInv(k), granted \subseteq granted', Unmoved(k)
    PROVE  RowInv(k)'
BY RowAsBefore DEF Unmoved, KeepsPlanOf

\* What a worker reports is not more than the pages of the document.
LEMMA ReportIsModest ==
    ASSUME TypeInv, GrantInv, NEW l \in granted, NEW total \in ReportedTotals(l)
    PROVE  total <= PageCount[job[l.job].doc]
<1>1. l.job \in Jobs
  BY CommandTypes DEF TypeInv
<1>2. PICK count \in Nat : count = PageCount[job[l.job].doc]
  BY <1>1, CountType
<1>3. l.requested \subseteq 1..count
  BY <1>2 DEF GrantInv
<1>4. IsFiniteSet(1..count) /\ Cardinality(1..count) = count
  BY FS_Interval
<1>5. Cardinality(l.requested) <= count
  BY <1>3, <1>4, FS_Subset
<1> QED
  BY <1>2, <1>5 DEF ReportedTotals

LEMMA ServedKeepsRows ==
    ASSUME BaseInv, RowsInv, Stays, NEW l, Served(l)
    PROVE  \A k \in Jobs : RowInv(k)'
<1>1. TypeInv /\ FenceInv
  BY ServerTypes DEF BaseInv
<1>2. /\ l \in granted /\ l.job \in Jobs /\ ActiveLease(l) /\ granted \subseteq granted'
      /\ \A k \in Jobs \ {l.job} : Unmoved(k)
  BY <1>1, ServedEffect DEF Stays
<1>3. RowInv(l.job) /\ job[l.job].attempt # 0 /\ GrantInv
  BY <1>1, <1>2, ObeyedLeaseIsTheRows DEF RowsInv
<1>4. /\ job[l.job].requested \subseteq 1..PageCount[job[l.job].doc]
      /\ PageCount[job[l.job].doc] <= PageCount[job[l.job].doc]
  BY <1>1, <1>2, <1>3, CountType DEF RowInv
<1>5. ASSUME NEW j \in Jobs, j = l.job
      PROVE  RowInv(j)'
  <2>0. /\ RowInv(j) /\ granted \subseteq granted' /\ job[j].attempt # 0
        /\ job[j].requested \subseteq 1..PageCount[job[j].doc]
        /\ PageCount[job[j].doc] <= PageCount[job[j].doc]
    BY <1>2, <1>3, <1>4, <1>5
  <2>1. CASE Start(l)
    <3>1. KeepsPlanOf(j) /\ pageTotal'[j] = pageTotal[j]
      BY <1>5, <1>1, <1>2, <2>1, StartEffect
    <3> QED
      BY <2>0, <3>1, RowAsBefore
  <2>2. CASE \E total \in ReportedTotals(l) : Heartbeat(l, total)
    <3>1. PICK total \in ReportedTotals(l) : Heartbeat(l, total)
      BY <2>2
    <3>2. /\ job'[j].doc = job[j].doc /\ job'[j].attempt = job[j].attempt
          /\ job'[j].requested = job[j].requested /\ job'[j].total = total
          /\ pageTotal'[j] = pageTotal[j]
      BY <1>5, <1>1, <1>2, <3>1, HeartbeatEffect
    <3>3. total <= PageCount[job[j].doc]
      BY <1>1, <1>2, <1>3, <1>5, <3>1, ReportIsModest
    <3> QED
      BY <2>0, <3>2, <3>3, RowGoesOn
  <2>3. CASE \E p \in Pages, s \in PageState \ {"none"} :
               Artifact(l, p) \in artifact /\ Checkpoint(l, p, s)
    <3>1. KeepsPlanOf(j) /\ pageTotal'[j] = pageTotal[j]
      BY <2>3 DEF Checkpoint, KeepsPlanOf
    <3> QED
      BY <2>0, <3>1, RowAsBefore
  <2>4. CASE \E retryable \in BOOLEAN : (retryable \/ l.job \in rejected) /\ Fail(l, retryable)
    <3>1. KeepsPlanOf(j) /\ pageTotal'[j] = pageTotal[j]
      BY <1>5, <1>1, <1>2, <2>4, FailEffect
    <3> QED
      BY <2>0, <3>1, RowAsBefore
  <2>5. CASE CompleteWhole(l)
    <3>1. /\ job'[j].doc = job[j].doc /\ job'[j].attempt = job[j].attempt
          /\ job'[j].requested = job[j].requested
          /\ job'[j].total = PageCount[job[j].doc]
          /\ \A a \in Attempts :
                pageTotal'[j][a] \in {pageTotal[j][a], PageCount[job[j].doc]}
      BY <1>5, <1>1, <1>2, <2>5, WholeEffect
    <3>2. \A a \in Attempts :
             pageTotal'[j][a] \in {pageTotal[j][a], 0, PageCount[job[j].doc]}
      BY <3>1
    <3> QED
      BY <2>0, <3>1, <3>2, RowGoesOn
  <2>6. CASE CompletePartial(l)
    <3>1. /\ job'[j].doc = job[j].doc /\ job'[j].attempt = job[j].attempt
          /\ job'[j].requested = MissingPages(j, PageCount[job[j].doc])
          /\ job'[j].total = PageCount[job[j].doc]
          /\ \A a \in Attempts :
                pageTotal'[j][a] \in {pageTotal[j][a], PageCount[job[j].doc]}
      BY <1>5, <1>1, <1>2, <2>6, PartialEffect
    <3>2. \A a \in Attempts :
             pageTotal'[j][a] \in {pageTotal[j][a], 0, PageCount[job[j].doc]}
      BY <3>1
    <3>3. MissingPages(j, PageCount[job[j].doc]) \subseteq 1..PageCount[job[j].doc]
      BY DEF MissingPages
    <3> QED
      BY <2>0, <3>1, <3>2, <3>3, RowGoesOn
  <2> QED
    BY <1>5, <2>1, <2>2, <2>3, <2>4, <2>5, <2>6 DEF Served
<1> QED
  BY <1>2, <1>5, RowUnmoved DEF RowsInv

\* A claim asks for pages of the document, the first one for all of them.
LEMMA RemainingIsModest ==
    ASSUME TypeInv, NEW j \in Jobs, RowInv(j)
    PROVE  RemainingPages(j) \subseteq 1..PageCount[job[j].doc]
<1>1. 1..job[j].total \subseteq 1..PageCount[job[j].doc]
  BY CountType DEF RowInv
<1>2. job[j].requested \subseteq 1..PageCount[job[j].doc]
  BY DEF RowInv
<1> QED
  BY <1>1, <1>2 DEF RemainingPages

LEMMA ClaimKeepsRows ==
    ASSUME BaseInv, RowsInv, Stays, NEW w \in Workers, NEW passed \in SUBSET Jobs,
           ClaimNothing(w, passed) \/ \E j \in Jobs : ClaimLease(w, j, passed)
    PROVE  RowsInv'
<1>1. TypeInv /\ ResumeInv
  BY ServerTypes DEF BaseInv, ServerInv
<1>2. ASSUME NEW k \in Jobs, ClaimLease(w, k, passed)
      PROVE  RowInv(k)'
  <2>1. /\ job'[k].doc = job[k].doc /\ job'[k].attempt = job[k].attempt + 1
        /\ job'[k].requested = RemainingPages(k) /\ job'[k].total = job[k].total
        /\ pageTotal'[k] = pageTotal[k] /\ GrantedLease(k, w) \in granted'
        /\ job[k].attempt \in Nat
    BY <1>1, <1>2, HandedOut, CountType
  <2>2. RowInv(k) /\ RemainingPages(k) \subseteq 1..PageCount[job[k].doc]
    BY <1>1, RemainingIsModest DEF RowsInv
  <2>3. AskedForAll(k)'
    <3>1. CASE job[k].attempt = 0
      <4>1. job[k].requested = {} /\ job[k].total = 0
        BY <1>1, <2>2, <3>1 DEF RowInv, ResumeInv, Untried
      <4>2. RemainingPages(k) = {}
        BY <4>1 DEF RemainingPages
      <4>3. PICK l : l = GrantedLease(k, w)
        OBVIOUS
      <4>4. l.job = k /\ l.attempt = 1 /\ l.requested = {}
        BY <3>1, <4>2, <4>3 DEF GrantedLease
      <4> QED
        BY <2>1, <4>3, <4>4 DEF AskedForAll
    <3>2. CASE job[k].attempt # 0
      BY <2>1, <2>2, <3>2 DEF RowInv, AskedForAll, Stays
    <3> QED
      BY <3>1, <3>2
  <2> QED
    BY <2>1, <2>2, <2>3 DEF RowInv
<1>3. ASSUME NEW k \in Jobs PROVE RowInv(k)'
  <2>1. CASE ClaimLease(w, k, passed)
    BY <1>2, <2>1
  <2>2. CASE ~ClaimLease(w, k, passed)
    <3>1. ClaimNothing(w, passed) \/ \E j \in Jobs \ {k} : ClaimLease(w, j, passed)
      BY <2>2
    <3> QED
      BY <1>1, <3>1, PassedOver, RowAsBefore, RowUnmoved DEF RowsInv, Stays
  <2> QED
    BY <2>1, <2>2
<1>4. ASSUME NEW l \in granted' PROVE l.requested \subseteq 1..PageCount[job'[l.job].doc]
  <2>1. CASE l \in granted
    <3>1. l.job \in Jobs
      BY <1>1, <2>1, CommandTypes DEF TypeInv
    <3> QED
      BY <2>1, <3>1 DEF RowsInv, GrantInv, Stays
  <2>2. CASE l \notin granted
    <3>1. PICK j \in Jobs : ClaimLease(w, j, passed) /\ l = GrantedLease(j, w)
      BY <1>4, <2>2 DEF ClaimLease, ClaimNothing
    <3>2. l.job = j /\ l.requested = RemainingPages(j)
      BY <3>1 DEF GrantedLease
    <3>3. RemainingPages(j) \subseteq 1..PageCount[job[j].doc]
      BY <1>1, RemainingIsModest DEF RowsInv
    <3> QED
      BY <3>2, <3>3 DEF Stays
  <2> QED
    BY <2>1, <2>2
<1> QED
  BY <1>3, <1>4 DEF RowsInv, GrantInv

LEMMA GrantsAsBefore ==
    ASSUME TypeInv, Stays, GrantInv, granted' = granted
    PROVE  GrantInv'
BY CommandTypes DEF TypeInv, Stays, GrantInv

LEMMA RowsNext == BaseInv /\ RowsInv /\ [WorkerNext]_workerVars => RowsInv'
<1> SUFFICES ASSUME BaseInv, RowsInv, [WorkerNext]_workerVars PROVE RowsInv'
  OBVIOUS
<1>1. ServerMoves /\ Stays /\ TypeInv /\ ServerInv
  BY StepMovesServer, StepIsServerStep, ServerStays, ServerTypes DEF BaseInv
<1>2. CASE UNCHANGED vars
  BY <1>2 DEF vars, RowsInv, GrantInv, RowInv, AskedForAll
<1>3. ASSUME NEW l \in granted, Served(l)
      PROVE  RowsInv'
  BY <1>1, <1>3, ServedKeepsRows, ServedEffect, GrantsAsBefore DEF RowsInv
<1>4. ASSUME NEW w \in Workers, NEW passed \in SUBSET Jobs,
             ClaimNothing(w, passed) \/ \E j \in Jobs : ClaimLease(w, j, passed)
      PROVE  RowsInv'
  BY <1>1, <1>4, ClaimKeepsRows
<1>5. ASSUME NEW d \in Docs, NEW j \in Jobs, CompleteUpload(d, j)
      PROVE  RowsInv'
  <2>1. /\ job'[j].doc = job[j].doc /\ job'[j].attempt = 0 /\ job'[j].requested = {}
        /\ job'[j].total = 0 /\ pageTotal' = pageTotal /\ granted' = granted
        /\ \A k \in Jobs \ {j} : Unmoved(k)
        /\ job[j].status = "none"
    BY <1>1, <1>5, UploadEffect
  <2>2. job[j].attempt = 0 /\ 0 <= PageCount[job[j].doc]
    BY <1>1, <2>1, CountType DEF TypeInv, Fresh
  <2>3. RowInv(j)'
    BY <2>1, <2>2, RowGoesOn DEF RowsInv
  <2> QED
    BY <1>1, <2>1, <2>3, RowUnmoved, GrantsAsBefore DEF RowsInv
<1>6. ASSUME NEW d \in Docs, DeleteDocument(d)
      PROVE  RowsInv'
  <2>1. granted' = granted
    BY <1>6 DEF DeleteDocument
  <2>2. ASSUME NEW k \in Jobs PROVE RowInv(k)'
    BY <1>1, <1>6, DeleteEffect, RowAsBefore, RowUnmoved DEF RowsInv, KeepsPlanOf
  <2> QED
    BY <1>1, <2>1, <2>2, GrantsAsBefore DEF RowsInv
<1>7. ASSUME NEW d \in Docs, CleanupDocument(d)
      PROVE  RowsInv'
  <2>1. granted' = granted
    BY <1>7 DEF CleanupDocument
  <2>2. ASSUME NEW k \in Jobs PROVE RowInv(k)'
    BY <1>1, <1>7, CleanupEffect, RowAsBefore, RowUnmoved DEF RowsInv
  <2> QED
    BY <1>1, <2>1, <2>2, GrantsAsBefore DEF RowsInv
<1>8. ASSUME NEW j \in Jobs, LeaseExpires(j) \/ BecomesDue(j)
      PROVE  RowsInv'
  BY <1>1, <1>8, TimeEffect, RowAsBefore, RowUnmoved, GrantsAsBefore DEF RowsInv
<1> QED
  BY <1>1, <1>2, <1>3, <1>4, <1>5, <1>6, <1>7, <1>8 DEF ServerMoves

LEMMA RowsInit == WorkerInit => RowsInv
<1> SUFFICES ASSUME WorkerInit PROVE RowsInv
  OBVIOUS
<1>1. TypeInv /\ granted = {}
  BY TypeInit DEF WorkerInit, Init
<1>2. ASSUME NEW j \in Jobs PROVE RowInv(j)
  <2>1. job[j].attempt = 0 /\ job[j].requested = {} /\ job[j].total = 0
    BY DEF WorkerInit, Init, Absent
  <2>2. \A a \in Attempts : pageTotal[j][a] = 0
    BY DEF WorkerInit, Init, NoTotals
  <2>3. 0 <= PageCount[job[j].doc]
    BY <1>1, CountType
  <2> QED
    BY <2>1, <2>2, <2>3 DEF RowInv
<1> QED
  BY <1>1, <1>2 DEF RowsInv, GrantInv

-----------------------------------------------------------------------------
(* 9. Progress of the tasks the server obeys                               *)

\* A lease that is obeyed after a step of another actor was not touched by it.
LEMMA OtherLease ==
    ASSUME FenceInv, NEW m, Served(m), NEW l \in granted, l # m, ActiveLease(l)'
    PROVE  Unmoved(l.job)
<1>1. /\ m \in granted /\ m.job \in Jobs /\ ActiveLease(m)
      /\ job'[m.job].attempt = job[m.job].attempt
      /\ \A k \in Jobs \ {m.job} : Unmoved(k)
  BY ServedEffect DEF FenceInv
<1>2. l.job \in Jobs
  BY CommandTypes DEF FenceInv, TypeInv
<1>3. l.job # m.job
  BY <1>1 DEF ActiveLease, FenceInv, OnePerAttempt
<1> QED
  BY <1>1, <1>2, <1>3

\* No command of a worker is carried out.
Quiet ==
    \/ UNCHANGED vars
    \/ \E w \in Workers, passed \in SUBSET Jobs :
          ClaimNothing(w, passed) \/ \E j \in Jobs : ClaimLease(w, j, passed)
    \/ \E d \in Docs, j \in Jobs : CompleteUpload(d, j)
    \/ \E d \in Docs : DeleteDocument(d) \/ CleanupDocument(d)
    \/ \E j \in Jobs : LeaseRunsOut(j) \/ BecomesDue(j)

LEMMA QuietLease ==
    ASSUME FenceInv, NEW l \in granted, ActiveLease(l)', Quiet
    PROVE  Unmoved(l.job)
<1>1. TypeInv /\ l.job \in Jobs
  BY CommandTypes DEF FenceInv, TypeInv
<1>2. PICK k \in Jobs : k = l.job
  BY <1>1
<1>3. /\ job'[k].status \in {"leased", "parsing"} /\ ~job'[k].expired
      /\ job'[k].attempt = l.attempt
  BY <1>2 DEF ActiveLease, Held
<1>4. CASE UNCHANGED vars
  BY <1>4 DEF vars, Unmoved
<1>5. ASSUME NEW w \in Workers, NEW passed \in SUBSET Jobs,
             ClaimNothing(w, passed) \/ \E j \in Jobs : ClaimLease(w, j, passed)
      PROVE  Unmoved(k)
  <2>1. CASE ClaimLease(w, k, passed)
    <3>1. job'[k].attempt = job[k].attempt + 1
      BY <1>1, <2>1, HandedOut
    <3>2. l.attempt <= job[k].attempt /\ job[k].attempt \in Nat /\ l.attempt \in Nat
      BY <1>1, <1>2, CommandTypes, RowFields, ConstantsOK
         DEF FenceInv, GrantsArePast, TypeInv, TypeOK, Attempts
    <3> QED
      BY <1>3, <3>1, <3>2
  <2>2. CASE ~ClaimLease(w, k, passed)
    <3>1. ClaimNothing(w, passed) \/ \E j \in Jobs \ {k} : ClaimLease(w, j, passed)
      BY <1>5, <2>2
    <3> QED
      BY <1>1, <1>3, <3>1, PassedOver
  <2> QED
    BY <2>1, <2>2
<1>6. ASSUME NEW d \in Docs, NEW j \in Jobs, CompleteUpload(d, j)
      PROVE  Unmoved(k)
  BY <1>1, <1>3, <1>6, UploadEffect
<1>7. ASSUME NEW d \in Docs, DeleteDocument(d)
      PROVE  Unmoved(k)
  BY <1>1, <1>3, <1>7, DeleteEffect DEF Held
<1>8. ASSUME NEW d \in Docs, CleanupDocument(d)
      PROVE  Unmoved(k)
  BY <1>1, <1>3, <1>8, CleanupEffect
<1>9. ASSUME NEW j \in Jobs, LeaseExpires(j) \/ BecomesDue(j)
      PROVE  Unmoved(k)
  BY <1>1, <1>3, <1>9, TimeEffect
<1>10. Unmoved(k)
  BY <1>2, <1>4, <1>5, <1>6, <1>7, <1>8, <1>9 DEF Quiet, LeaseRunsOut
<1> QED
  BY <1>2, <1>10

LEMMA ArtifactsStay ==
    ASSUME [WorkerNext]_workerVars, NEW l, job'[l.job].status # "purged"
    PROVE  \A p : Artifact(l, p) \in artifact => Artifact(l, p) \in artifact'
<1>1. \A p : Artifact(l, p).job = l.job
  BY DEF Artifact
<1>2. ASSUME NEW w \in Workers, WorkStep(w) \/ HeartbeatTask(w) \/ FaultStep(w) \/ Restart(w)
      PROVE  artifact' = artifact
  BY <1>2 DEF WorkStep, HeartbeatTask, FaultStep, Restart, Claim, ClaimInVain, StartTask,
     FetchInput, ParsePage, PutObject, TakeReceipt, CheckpointPage, CompleteTask, FailTask,
     LoseLease, ClaimUnanswered, BreakTask, Unreachable, Die, taskVars
<1>3. ASSUME NEW d \in Docs, CleanupWithArtifacts(d)
      PROVE  artifact' = {f \in artifact : job'[f.job].status # "purged"}
  BY <1>3 DEF CleanupWithArtifacts
<1>4. CASE artifact \subseteq artifact'
  BY <1>4
<1>5. CASE \E d \in Docs : CleanupWithArtifacts(d)
  BY <1>1, <1>3, <1>5
<1>6. ASSUME ServerStep
      PROVE  artifact \subseteq artifact' \/ \E d \in Docs : CleanupWithArtifacts(d)
  BY <1>6 DEF ServerStep, LeaseRunsOut, RecordArtifact, ServeLate, taskVars
<1>7. CASE UNCHANGED workerVars
  BY <1>7 DEF workerVars, taskVars
<1> QED
  BY <1>2, <1>4, <1>5, <1>6, <1>7 DEF WorkerNext

\* A worker that does nothing, under a lease the step does not touch
LEMMA LeftAlone ==
    ASSUME NEW t, Progress(t), Unmoved(t.lease.job),
           \A p : Artifact(t.lease, p) \in artifact => Artifact(t.lease, p) \in artifact'
    PROVE  Progress(t)'
<1>1. PICK l : l = t.lease
  OBVIOUS
<1>2. CoveredPages(l.job, l.attempt)' = CoveredPages(l.job, l.attempt) /\ Asked(l)' = Asked(l)
  BY <1>1 DEF Unmoved, CoveredPages, Asked
<1>3. job'[l.job].status = job[l.job].status
  BY <1>1 DEF Unmoved
<1> QED
  BY <1>1, <1>2, <1>3 DEF Progress, PageOf, Artifact

LEMMA Bystander ==
    ASSUME BaseInv, [WorkerNext]_workerVars, ProgressInv, NEW v \in Workers,
           worker'[v] = worker[v], Obeyed(v)', Unmoved(worker[v].lease.job)
    PROVE  Obeyed(v) /\ Progress(worker[v])'
<1>1. PICK t : t = worker[v]
  OBVIOUS
<1>2. ActiveLease(t.lease)' /\ t.lease # NoLease
  BY <1>1 DEF Obeyed, Holder, ActiveLease
<1>3. ActiveLease(t.lease)
  BY <1>1, <1>2, UnmovedLease
<1>4. Obeyed(v) /\ Progress(t)
  BY <1>1, <1>2, <1>3 DEF Obeyed, Holder, ProgressInv
<1>5. job'[t.lease.job].status # "purged"
  BY <1>2 DEF ActiveLease, Held
<1>6. Progress(t)'
  BY <1>1, <1>4, <1>5, LeftAlone, ArtifactsStay
<1>7. worker'[v] = t
  BY <1>1
<1> QED
  BY <1>4, <1>6, <1>7 DEF Progress, PageOf, Artifact, Asked, CoveredPages

\* A task that is given up is no longer obeyed.
LEMMA NoTaskNotObeyed ==
    ASSUME NEW w, worker'[w].lease = NoLease
    PROVE  ~Obeyed(w)'
BY DEF Obeyed, Holder

LEMMA ProgressShown ==
    ASSUME NEW w, NEW t, worker'[w] = t, Progress(t)'
    PROVE  Progress(worker[w])'
BY DEF Progress, PageOf, Artifact, Asked, CoveredPages

LEMMA ObeyedLease ==
    ASSUME NEW w, NEW t, worker'[w] = t
    PROVE  Obeyed(w)' <=> t.lease # NoLease /\ ActiveLease(t.lease)'
BY DEF Obeyed, Holder, ActiveLease

\* The server did nothing.
LEMMA SameSight ==
    ASSUME UNCHANGED vars, artifact' = artifact, NEW t
    PROVE  (Progress(t)' <=> Progress(t)) /\ (ActiveLease(t.lease)' <=> ActiveLease(t.lease))
BY DEF vars, Progress, PageOf, Artifact, Asked, CoveredPages, ActiveLease

\* What a task needs to go on, moment by moment
LEMMA FetchingProgress ==
    ASSUME BaseInv, NEW w \in Workers, Progress(worker[w]), FetchInput(w),
           NEW t, t.at = "parsing", t.lease = worker[w].lease,
           t.todo = worker[w].lease.requested
    PROVE  Progress(t)
<1>1. PICK l : l = worker[w].lease
  OBVIOUS
<1>2. worker[w].at = "fetching"
  BY DEF FetchInput
<1>3. CoveredPages(l.job, l.attempt) = {} /\ job[l.job].status = "parsing"
  BY <1>1, <1>2 DEF Progress, Executing
<1>4. l.requested # {} => Asked(l) = l.requested
  BY DEF Asked
<1> QED
  BY <1>1, <1>3, <1>4 DEF Progress, Executing

LEMMA ParsingProgress ==
    ASSUME BaseInv, NEW w \in Workers, Progress(worker[w]), worker[w].at = "parsing",
           NEW t, t.at = "uploading", t.lease = worker[w].lease,
           t.todo = IF worker[w].todo = {} THEN 1..PageCount[job[worker[w].lease.job].doc]
                                           ELSE worker[w].todo
    PROVE  Progress(t)
<1>1. PICK l : l = worker[w].lease
  OBVIOUS
<1>2. job[l.job].status = "parsing"
  BY <1>1 DEF Progress, Executing
<1>3. CASE worker[w].todo = {}
  <2>1. l.requested = {} /\ CoveredPages(l.job, l.attempt) = {}
    BY <1>1, <1>3 DEF Progress
  <2>2. t.todo = Asked(l)
    BY <1>1, <1>3, <2>1 DEF Asked
  <2> QED
    BY <1>1, <1>2, <2>1, <2>2 DEF Progress, Executing
<1>4. CASE worker[w].todo # {}
  <2>1. /\ t.todo = worker[w].todo /\ t.todo \subseteq Asked(l)
        /\ CoveredPages(l.job, l.attempt) = Asked(l) \ t.todo
    BY <1>1, <1>4 DEF Progress
  <2> QED
    BY <1>1, <1>2, <2>1 DEF Progress, Executing
<1> QED
  BY <1>3, <1>4

LEMMA UploadingProgress ==
    ASSUME BaseInv, NEW w \in Workers, Progress(worker[w]),
           NEW t, t.lease = worker[w].lease, t.todo = worker[w].todo,
           \/ PutObject(w) /\ t.at = "recording"
           \/ /\ TakeReceipt(w)
              /\ t.at = IF CurrentPage(w) = 0 THEN "completing" ELSE "checkpointing"
    PROVE  Progress(t)
<1>1. PICK l : l = worker[w].lease
  OBVIOUS
<1>2. worker[w].at \in {"uploading", "recording"}
  BY DEF PutObject, TakeReceipt
<1>3. /\ job[l.job].status = "parsing" /\ t.todo \subseteq Asked(l)
      /\ CoveredPages(l.job, l.attempt) = Asked(l) \ t.todo
  BY <1>1, <1>2 DEF Progress, Executing
<1>4. PageOf(t) = CurrentPage(w) /\ (t.todo = {} <=> CurrentPage(w) = 0)
  BY PageAtHand DEF BaseInv, PageOf, CurrentPage
<1>5. CASE PutObject(w) /\ t.at = "recording"
  BY <1>1, <1>3, <1>5 DEF Progress, Executing
<1>6. CASE /\ TakeReceipt(w)
           /\ t.at = IF CurrentPage(w) = 0 THEN "completing" ELSE "checkpointing"
  <2>1. Artifact(l, CurrentPage(w)) \in artifact
    BY <1>1, <1>6 DEF TakeReceipt, Recorded
  <2>2. CASE CurrentPage(w) = 0
    <3>1. t.at = "completing" /\ t.todo = {} /\ Artifact(l, 0) \in artifact
      BY <1>4, <1>6, <2>1, <2>2
    <3> QED
      BY <1>1, <1>3, <3>1 DEF Progress, Executing
  <2>3. CASE CurrentPage(w) # 0
    <3>1. t.at = "checkpointing" /\ Artifact(l, PageOf(t)) \in artifact
      BY <1>4, <1>6, <2>1, <2>3
    <3> QED
      BY <1>1, <1>3, <3>1 DEF Progress, Executing
  <2> QED
    BY <2>2, <2>3
<1> QED
  BY <1>5, <1>6

LEMMA OwnPrivateStep ==
    ASSUME BaseInv, ProgressInv, NEW w \in Workers, Privately(w), Obeyed(w)'
    PROVE  Obeyed(w) /\ Progress(worker[w])'
<1>1. UNCHANGED vars /\ artifact' = artifact
  BY PrivateIsPrivate DEF Privately, FetchInput, ParsePage, PutObject, TakeReceipt, LoseLease,
     BreakTask, Unreachable, Die, Restart
<1>2. ASSUME NEW t, worker'[w] = t, t.lease = worker[w].lease,
             Progress(worker[w]) => Progress(t)
      PROVE  Obeyed(w) /\ Progress(worker[w])'
  <2>1. t.lease # NoLease /\ ActiveLease(t.lease)
    BY <1>1, <1>2, ObeyedLease, SameSight
  <2>2. Obeyed(w)
    BY <1>2, <2>1 DEF Obeyed, Holder
  <2>3. Progress(t)
    BY <1>2, <2>2 DEF ProgressInv
  <2> QED
    BY <1>1, <1>2, <2>2, <2>3, SameSight, ProgressShown
<1>3. CASE LoseLease(w) \/ Unreachable(w) \/ Die(w) \/ Restart(w)
  BY <1>3, GivenUp, BecomeIs, NoTaskNotObeyed DEF BaseInv, Turns
<1>4. CASE FetchInput(w)
  BY <1>2, <1>4, FetchTask, BecomeIs, FetchingProgress DEF BaseInv, Turns
<1>5. CASE \E outcome \in PageState \ {"none"} : ParsePage(w, outcome)
  <2>1. worker[w].at = "parsing"
    BY <1>5 DEF ParsePage
  <2>2. PICK t : /\ Become(w, t) /\ t.at = "uploading" /\ t.lease = worker[w].lease
                 /\ t.todo = IF worker[w].todo = {}
                             THEN 1..PageCount[job[worker[w].lease.job].doc]
                             ELSE worker[w].todo
    BY <1>5, ParseTask
  <2> QED
    BY <1>2, <2>1, <2>2, BecomeIs, ParsingProgress DEF BaseInv, Turns
<1>6. CASE PutObject(w) \/ TakeReceipt(w)
  <2>1. PICK t : /\ Become(w, t) /\ t.lease = worker[w].lease /\ t.todo = worker[w].todo
                 /\ PutObject(w) => t.at = "recording"
                 /\ TakeReceipt(w) => t.at = IF CurrentPage(w) = 0 THEN "completing"
                                                                  ELSE "checkpointing"
    BY <1>6, PutAndTake
  <2>2. Progress(worker[w]) => Progress(t)
    BY <1>6, <2>1, UploadingProgress
  <2> QED
    BY <1>2, <2>1, <2>2, BecomeIs DEF BaseInv, Turns
<1>7. CASE \E retryable \in BOOLEAN : BreakTask(w, retryable)
  <2>1. PICK t : Become(w, t) /\ t.at = "failing" /\ t.lease = worker[w].lease
    BY <1>7, BreakOfTask
  <2>2. Progress(t)
    BY <2>1 DEF Progress, Executing
  <2> QED
    BY <1>2, <2>1, <2>2, BecomeIs DEF BaseInv, Turns
<1> QED
  BY <1>3, <1>4, <1>5, <1>6, <1>7 DEF Privately

\* A claim hands out an attempt without checkpoints.
LEMMA ClaimProgress ==
    ASSUME BaseInv, NEW w \in Workers, NEW j \in Jobs, Claim(w, j)
    PROVE  Obeyed(w)' /\ Progress(worker[w])'
<1>1. TypeInv /\ RevisionInv /\ WorkerTypeOK /\ {} \in SUBSET Jobs /\ ClaimLease(w, j, {})
  <2>1. TypeInv /\ RevisionInv /\ WorkerTypeOK
    BY ServerTypes DEF BaseInv, ServerInv
  <2>2. ClaimLease(w, j, {}) /\ {} \in SUBSET Jobs
    BY ClaimedAlone
  <2> QED
    BY <2>1, <2>2
<1>2. PICK l : l = GrantedLease(j, w)
  OBVIOUS
<1>3. l.job = j /\ l.attempt = job[j].attempt + 1
  BY <1>2 DEF GrantedLease
<1>4. /\ job'[j].status = "leased" /\ checkpoint'[j] = checkpoint[j]
      /\ l.attempt \in Attempts /\ job[j].attempt \in Nat
  BY <1>1, <1>3, HandedOut, CountType
<1>5. PICK t : Become(w, t) /\ t.at = "starting" /\ t.lease = l /\ t.todo = {}
  BY <1>2 DEF Claim, NoTask
<1>6. CoveredPages(j, l.attempt)' = {}
  <2>1. ~(l.attempt <= job[j].attempt)
    BY <1>3, <1>4
  <2>2. \A p \in Pages : checkpoint[j][l.attempt][p] = "none"
    BY <1>1, <1>4, <2>1 DEF RevisionInv, Past
  <2> QED
    BY <1>4, <2>2 DEF CoveredPages
<1>7. Progress(t)'
  BY <1>3, <1>4, <1>5, <1>6 DEF Progress, Executing
<1>8. worker'[w] = t
  BY <1>1, <1>5, BecomeIs DEF Turns
<1>9. l # NoLease
  <2>1. l \in Lease
    <3>1. job[j] \in JobRow /\ RemainingPages(j) \in SUBSET Pages
      BY <1>1, RemainingType DEF TypeInv, TypeOK
    <3> QED
      BY <1>2, <1>3, <1>4, <3>1, RowFields DEF GrantedLease, Lease
  <2> QED
    BY <2>1, WorkerConstantsOK
<1>10. ActiveLease(l)'
  BY <1>1, <1>2, HandedOutActive
<1>11. ActiveLease(t.lease)'
  BY <1>5, <1>10 DEF ActiveLease
<1> QED
  BY <1>5, <1>7, <1>8, <1>9, <1>11, ObeyedLease, ProgressShown

LEMMA StartProgress ==
    ASSUME BaseInv, ProgressInv, NEW w \in Workers, StartTask(w)
    PROVE  Obeyed(w) /\ Progress(worker[w])'
<1>1. TypeInv /\ WorkerTypeOK /\ worker[w].at = "starting"
  BY ServerTypes DEF BaseInv, StartTask
<1>2. PICK l \in granted : l = worker[w].lease
  BY <1>1, HeldLease
<1>3. PICK t : /\ Become(w, t) /\ t.at = "fetching" /\ t.lease = l /\ t.todo = worker[w].todo
  BY <1>2, StartOfTask
<1>4. /\ ActiveLease(l) /\ job'[l.job].status = "parsing" /\ checkpoint' = checkpoint
  BY <1>1, <1>2, StartEffect DEF StartTask
<1>5. Obeyed(w)
  BY <1>1, <1>2, <1>4, NoLeaseIsGranted, ServerTypes DEF Obeyed, Holder, BaseInv
<1>6. worker[w].todo = {} /\ CoveredPages(l.job, l.attempt) = {}
  BY <1>1, <1>2, <1>5 DEF ProgressInv, Progress, Executing
<1>7. CoveredPages(l.job, l.attempt)' = {}
  BY <1>4, <1>6 DEF CoveredPages
<1>8. Progress(t)'
  BY <1>3, <1>4, <1>6, <1>7 DEF Progress, Executing
<1>9. worker'[w] = t
  BY <1>1, <1>3, BecomeIs DEF Turns
<1> QED
  BY <1>5, <1>8, <1>9, ProgressShown

LEMMA CheckpointProgress ==
    ASSUME BaseInv, ProgressInv, NEW w \in Workers, CheckpointPage(w)
    PROVE  Obeyed(w) /\ Progress(worker[w])'
<1>1. TypeInv /\ WorkerTypeOK /\ worker[w].at = "checkpointing"
  BY ServerTypes DEF BaseInv, CheckpointPage
<1>2. PICK l \in granted : l = worker[w].lease
  BY <1>1, HeldLease
<1>3. PICK todo : todo = worker[w].todo
  OBVIOUS
<1>4. PICK p \in Pages : p = CurrentPage(w) /\ p \in todo
  BY <1>1, <1>3, PageAtHand DEF BaseInv, TaskInv, GoodTask
<1>5. PICK s \in PageState \ {"none"} : s = worker[w].outcome
  BY <1>1, TaskType DEF BaseInv, TaskInv, GoodTask
<1>6. PICK t : /\ Become(w, t) /\ t.lease = l /\ t.todo = todo \ {p}
               /\ t.at = IF todo \ {p} = {} THEN "uploading" ELSE "parsing"
  BY <1>2, <1>3, <1>4, CheckpointTask
<1>7. Checkpoint(l, p, s)
  BY <1>2, <1>4, <1>5 DEF CheckpointPage
<1>8. /\ ActiveLease(l) /\ job[l.job].status = "parsing" /\ job' = job
      /\ \A a \in Attempts, q \in Pages : checkpoint'[l.job][a][q] =
            IF a = l.attempt /\ q = p THEN s ELSE checkpoint[l.job][a][q]
  BY <1>1, <1>7, CheckpointEffect
<1>9. Obeyed(w)
  BY <1>1, <1>2, <1>8, NoLeaseIsGranted, ServerTypes DEF Obeyed, Holder, BaseInv
<1>10. todo \subseteq Asked(l) /\ CoveredPages(l.job, l.attempt) = Asked(l) \ todo
  BY <1>1, <1>2, <1>3, <1>9 DEF ProgressInv, Progress, Executing
<1>11. l.attempt \in Attempts
  BY <1>1, <1>2, CommandTypes DEF TypeInv
<1>12. CoveredPages(l.job, l.attempt)' = CoveredPages(l.job, l.attempt) \cup {p}
  BY <1>8, <1>11 DEF CoveredPages
<1>13. Asked(l)' = Asked(l)
  BY <1>8 DEF Asked
<1>14. /\ t.todo \subseteq Asked(l)'
       /\ CoveredPages(l.job, l.attempt)' = Asked(l)' \ t.todo
  BY <1>4, <1>6, <1>10, <1>12, <1>13
<1>15. Progress(t)'
  BY <1>6, <1>8, <1>14 DEF Progress, Executing
<1>16. worker'[w] = t
  BY <1>1, <1>6, BecomeIs DEF Turns
<1> QED
  BY <1>9, <1>15, <1>16, ProgressShown

LEMMA HeartbeatProgress ==
    ASSUME BaseInv, ProgressInv, NEW w \in Workers, HeartbeatTask(w)
    PROVE  Obeyed(w) /\ Progress(worker[w])'
<1>1. /\ TypeInv /\ WorkerTypeOK /\ worker[w].at \in Executing
      /\ UNCHANGED <<worker, artifact>>
  BY ServerTypes DEF BaseInv, HeartbeatTask, taskVars
<1>2. worker[w].at \notin {"stopped", "idle"}
  BY <1>1 DEF Executing
<1>3. PICK l \in granted : l = worker[w].lease /\ worker[w].total \in ReportedTotals(l)
  BY <1>2, HeldLease
<1>4. /\ ActiveLease(l) /\ job[l.job].status = "parsing" /\ job'[l.job].status = "parsing"
      /\ job'[l.job].doc = job[l.job].doc /\ checkpoint' = checkpoint
  BY <1>1, <1>3, HeartbeatEffect DEF HeartbeatTask
<1>5. Obeyed(w)
  BY <1>1, <1>3, <1>4, NoLeaseIsGranted, ServerTypes DEF Obeyed, Holder, BaseInv
<1>6. PICK t : t = worker[w]
  OBVIOUS
<1>7. Progress(t)
  BY <1>5, <1>6 DEF ProgressInv
<1>8. CoveredPages(l.job, l.attempt)' = CoveredPages(l.job, l.attempt) /\ Asked(l)' = Asked(l)
  BY <1>4 DEF CoveredPages, Asked
<1>9. t.lease = l
  BY <1>3, <1>6
<1>10. Progress(t)'
  BY <1>1, <1>4, <1>6, <1>7, <1>8, <1>9 DEF Progress, PageOf, Artifact, Executing
<1> QED
  BY <1>1, <1>5, <1>6, <1>10, ProgressShown

\* What a step is to a worker: its own, or one that leaves its task alone and either
\* concerns another lease or finds the task given up.
Acts(w) == WorkStep(w) \/ HeartbeatTask(w) \/ FaultStep(w) \/ Restart(w)

LEMMA ActsAre ==
    ASSUME BaseInv, NEW w \in Workers, Acts(w)
    PROVE  \/ Privately(w)
           \/ \E j \in Jobs : Claim(w, j) \/ ClaimUnanswered(w, j)
           \/ \E passed \in SUBSET Jobs : ClaimInVain(w, passed)
           \/ /\ StartTask(w) \/ CheckpointPage(w) \/ HeartbeatTask(w)
                 \/ CompleteTask(w) \/ FailTask(w)
              /\ Served(worker[w].lease)
BY TaskIsServed DEF Acts, WorkStep, FaultStep, Privately

LEMMA ActsAlone ==
    ASSUME BaseInv, NEW w \in Workers, Acts(w)
    PROVE  /\ \A v \in Workers : v # w => worker'[v] = worker[v]
           /\ Quiet \/ Served(worker[w].lease)
<1>1. worker \in [Workers -> Task0]
  BY DEF BaseInv, WorkerTypeOK
<1>2. (\E t : Become(w, t)) \/ (\E moment : Move(w, moment)) \/ worker' = worker
  BY DEF Acts, WorkStep, HeartbeatTask, FaultStep, Restart, Claim, ClaimInVain, StartTask,
     FetchInput, ParsePage, PutObject, TakeReceipt, CheckpointPage, CompleteTask, FailTask,
     LoseLease, ClaimUnanswered, BreakTask, Unreachable, Die, taskVars
<1>3. \A v \in Workers : v # w => worker'[v] = worker[v]
  <2>1. CASE \E t : Become(w, t)
    BY <1>1, <2>1 DEF Become
  <2>2. CASE \E moment : Move(w, moment)
    BY <1>1, <2>2 DEF Move
  <2>3. CASE worker' = worker
    BY <2>3
  <2> QED
    BY <1>2, <2>1, <2>2, <2>3
<1>4. CASE Privately(w)
  BY <1>3, <1>4, PrivateIsPrivate DEF Quiet
<1>5. ASSUME NEW j \in Jobs, Claim(w, j) \/ ClaimUnanswered(w, j)
      PROVE  Quiet
  BY <1>5, ClaimedAlone DEF Quiet
<1>6. ASSUME NEW passed \in SUBSET Jobs, ClaimInVain(w, passed)
      PROVE  Quiet
  BY <1>6 DEF ClaimInVain, Quiet
<1> QED
  BY <1>3, <1>4, <1>5, <1>6, ActsAre

LEMMA StepForWorker ==
    ASSUME BaseInv, [WorkerNext]_workerVars, NEW v \in Workers
    PROVE  \/ Acts(v)
           \/ /\ worker'[v] = worker[v]
              /\ \/ Quiet
                 \/ \E m \in granted : Served(m) /\ m # worker[v].lease
                 \/ worker[v].at = "failing"
<1>1. ASSUME NEW w \in Workers, Acts(w), v # w
      PROVE  /\ worker'[v] = worker[v]
             /\ Quiet \/ \E m \in granted : Served(m) /\ m # worker[v].lease
  <2>1. worker'[v] = worker[v] /\ (Quiet \/ Served(worker[w].lease))
    BY <1>1, ActsAlone
  <2>2. CASE ~Quiet
    <3>1. worker[w].at \notin {"stopped", "idle"}
      BY <1>1, <2>1, <2>2, ActsAre, PrivateIsPrivate, ClaimedAlone
         DEF Quiet, ClaimInVain, StartTask, CheckpointPage, HeartbeatTask, CompleteTask,
             FailTask, Executing
    <3>2. worker[w].lease \in granted /\ worker[w].lease.worker = w
      BY <3>1, HeldLease
    <3>3. worker[v].lease # worker[w].lease
      <4>1. worker[v].lease = NoLease \/ worker[v].lease.worker = v
        BY DEF BaseInv, TaskInv, GoodTask
      <4>2. NoLease \notin granted
        BY NoLeaseIsGranted, ServerTypes DEF BaseInv
      <4> QED
        BY <1>1, <3>2, <4>1, <4>2
    <3> QED
      BY <2>1, <2>2, <3>2, <3>3
  <2> QED
    BY <2>1, <2>2
<1>2. ASSUME ServerStep
      PROVE  /\ worker' = worker
             /\ \/ Quiet
                \/ \E m \in granted : Served(m) /\ m # worker[v].lease
                \/ worker[v].at = "failing"
  <2>1. CASE /\ \E d \in Docs : DeleteDocument(d) \/ \E j \in Jobs : CompleteUpload(d, j)
             /\ UNCHANGED taskVars
    BY <2>1 DEF taskVars, Quiet
  <2>2. CASE \E d \in Docs : CleanupWithArtifacts(d)
    BY <2>2 DEF CleanupWithArtifacts, Quiet
  <2>3. CASE \E j \in Jobs : LeaseRunsOut(j)
    BY <2>3 DEF LeaseRunsOut, Quiet
  <2>4. CASE (\E j \in Jobs : BecomesDue(j)) /\ UNCHANGED taskVars
    BY <2>4 DEF taskVars, Quiet
  <2>5. CASE \E u \in putting : RecordArtifact(u)
    BY <2>5 DEF RecordArtifact, serverVars, vars, Quiet
  <2>6. CASE \E c \in late : ServeLate(c)
    <3>1. PICK c \in late : ServeLate(c)
      BY <2>6
    <3>2. Served(c.lease) /\ c.lease \in granted /\ worker' = worker
      BY <3>1, LateIsServed DEF ServeLate, Served
    <3>3. worker[v].lease = c.lease => worker[v].at = "failing"
      BY DEF BaseInv, LateInv
    <3> QED
      BY <3>2, <3>3
  <2> QED
    BY <1>2, <2>1, <2>2, <2>3, <2>4, <2>5, <2>6 DEF ServerStep
<1>3. CASE UNCHANGED workerVars
  BY <1>3 DEF workerVars, serverVars, taskVars, vars, Quiet
<1> QED
  BY <1>1, <1>2, <1>3 DEF WorkerNext, Acts

LEMMA ProgressNext == BaseInv /\ ProgressInv /\ [WorkerNext]_workerVars => ProgressInv'
<1> SUFFICES ASSUME BaseInv, ProgressInv, [WorkerNext]_workerVars, NEW v \in Workers, Obeyed(v)'
             PROVE  Progress(worker[v])'
  BY DEF ProgressInv
<1>1. FenceInv /\ TypeInv /\ WorkerTypeOK
  BY ServerTypes DEF BaseInv
<1>2. CASE Acts(v)
  <2>1. CASE Privately(v)
    BY <2>1, OwnPrivateStep
  <2>2. CASE \E j \in Jobs : Claim(v, j)
    BY <2>2, ClaimProgress
  <2>3. ASSUME \/ \E j \in Jobs : ClaimUnanswered(v, j)
               \/ \E passed \in SUBSET Jobs : ClaimInVain(v, passed)
        PROVE  FALSE
    <3>1. worker' = worker /\ worker[v].at = "idle"
      BY <2>3 DEF ClaimUnanswered, ClaimInVain, taskVars
    <3>2. worker'[v].lease = NoLease
      BY <3>1 DEF BaseInv, TaskInv, GoodTask
    <3> QED
      BY <3>2, NoTaskNotObeyed
  <2>4. CASE StartTask(v)
    BY <2>4, StartProgress
  <2>5. CASE CheckpointPage(v)
    BY <2>5, CheckpointProgress
  <2>6. CASE HeartbeatTask(v)
    BY <2>6, HeartbeatProgress
  <2>7. CASE CompleteTask(v) \/ FailTask(v)
    BY <1>1, <2>7, GivenUp, BecomeIs, NoTaskNotObeyed DEF Turns
  <2> QED
    BY <1>2, <2>1, <2>2, <2>3, <2>4, <2>5, <2>6, <2>7, ActsAre
<1>3. CASE ~Acts(v)
  <2>1. /\ worker'[v] = worker[v]
        /\ \/ Quiet
           \/ \E m \in granted : Served(m) /\ m # worker[v].lease
           \/ worker[v].at = "failing"
    BY <1>3, StepForWorker
  <2>2. PICK t : t = worker[v]
    OBVIOUS
  <2>3. t.lease \in granted /\ ActiveLease(t.lease)'
    <3>1. worker'[v] = t
      BY <2>1, <2>2
    <3>2. t.lease # NoLease /\ ActiveLease(t.lease)'
      BY <3>1, ObeyedLease
    <3> QED
      BY <2>2, <3>2 DEF BaseInv, TaskInv, GoodTask
  <2>4. CASE t.at = "failing"
    <3>1. Progress(t)'
      BY <2>4 DEF Progress, Executing
    <3> QED
      BY <2>1, <2>2, <3>1, ProgressShown
  <2>5. CASE Quiet \/ \E m \in granted : Served(m) /\ m # t.lease
    <3>1. Unmoved(t.lease.job)
      BY <1>1, <2>3, <2>5, QuietLease, OtherLease
    <3> QED
      BY <2>1, <2>2, <3>1, Bystander
  <2> QED
    BY <2>1, <2>2, <2>4, <2>5
<1> QED
  BY <1>2, <1>3

\* What a task that is obeyed sends next is accepted.
LEMMA ProgressIsAccepted ==
    ASSUME BaseInv, RowsInv, ProgressInv
    PROVE  NeverRefused
<1>1. TypeInv /\ FenceInv /\ WorkerTypeOK
  BY ServerTypes DEF BaseInv
<1>2. SUFFICES ASSUME NEW w \in Workers, Obeyed(w), NEW c \in Pending(w)
               PROVE  Acceptable(c)
  BY DEF NeverRefused
<1>3. Progress(worker[w]) /\ worker[w].lease # NoLease /\ ActiveLease(worker[w].lease)
  BY <1>2 DEF ProgressInv, Obeyed, Holder
<1>4. PICK l \in granted : l = worker[w].lease
  BY <1>3 DEF BaseInv, TaskInv, GoodTask
<1>5. /\ c.lease = l /\ c.page = CurrentPage(w)
      /\ \/ c.op = "start" /\ worker[w].at = "starting"
         \/ c.op = "heartbeat" /\ worker[w].at \in Executing
         \/ c.op = "checkpoint" /\ worker[w].at = "checkpointing"
         \/ c.op = "complete" /\ worker[w].at = "completing"
         \/ c.op = "fail" /\ worker[w].at = "failing"
  BY <1>2, <1>4, PendingIs
<1>6. CASE c.op = "start"
  BY <1>3, <1>4, <1>5, <1>6 DEF Progress, Acceptable
<1>7. CASE c.op = "heartbeat"
  BY <1>3, <1>4, <1>5, <1>7 DEF Progress, Acceptable
<1>8. CASE c.op = "checkpoint"
  <2>1. worker[w].at = "checkpointing" /\ worker[w].todo # {}
    BY <1>5, <1>8 DEF BaseInv, TaskInv, GoodTask
  <2>2. CurrentPage(w) \in worker[w].todo /\ CurrentPage(w) \in Pages
    BY <1>1, <2>1, PageAtHand
  <2>3. /\ job[l.job].status = "parsing" /\ Artifact(l, CurrentPage(w)) \in artifact
        /\ CurrentPage(w) \notin CoveredPages(l.job, l.attempt)
    BY <1>3, <1>4, <2>1, <2>2 DEF Progress, Executing, PageOf, CurrentPage
  <2>4. checkpoint[l.job][l.attempt][CurrentPage(w)] = "none"
    BY <2>2, <2>3 DEF CoveredPages
  <2> QED
    BY <1>5, <1>8, <2>3, <2>4 DEF Acceptable
<1>9. CASE c.op = "complete"
  <2>1. /\ job[l.job].status = "parsing" /\ Artifact(l, 0) \in artifact
        /\ CoveredPages(l.job, l.attempt) = Asked(l)
    BY <1>3, <1>4, <1>5, <1>9 DEF Progress, Executing
  <2>2. l.requested = job[l.job].requested /\ l.job \in Jobs
    BY <1>1, <1>3, <1>4, ObeyedLeaseIsTheRows, CommandTypes DEF TypeInv
  <2>3. RowInv(l.job)
    BY <2>2 DEF RowsInv
  <2>4. AttemptAccepted(l.job, l.attempt, PageCount[job[l.job].doc])
    BY <2>1, <2>2, <2>3 DEF AttemptAccepted, RowInv, Asked
  <2> QED
    BY <1>5, <1>9, <2>1, <2>4 DEF Acceptable, Asked
<1>10. CASE c.op = "fail"
  BY <1>10 DEF Acceptable
<1> QED
  BY <1>5, <1>6, <1>7, <1>8, <1>9, <1>10

\* Neither the order of its pages nor what else happens to its job, its document or the
\* other workers brings a worker that the server obeys to a command that is answered with
\* a conflict: each one is carried out, or the lease is lost (poller.py, _process).
THEOREM NeverRefusedWhileObeyed == WorkerSpec => []NeverRefused
<1>1. WorkerInit => ProgressInv
  <2> SUFFICES ASSUME WorkerInit PROVE ProgressInv
    OBVIOUS
  <2>1. \A w \in Workers : worker[w].lease = NoLease
    BY NoTaskFields DEF WorkerInit
  <2> QED
    BY <2>1 DEF ProgressInv, Obeyed, Holder
<1>2. BaseInv /\ RowsInv /\ ProgressInv => NeverRefused
  BY ProgressIsAccepted
<1> QED
  BY BaseAlways, RowsInit, RowsNext, ProgressNext, <1>1, <1>2, PTL DEF WorkerSpec

-----------------------------------------------------------------------------
(* 10. Attempts and faults                                                 *)

\* What a task in good hands comes to in one step
Fares(v, k) ==
    /\ job'[k].attempt = job[k].attempt
    /\ \/ job'[k].status \in {"succeeded", "cancelled"}
       \/ /\ job'[k].status \in Held
          /\ faults' = faults + 1 \/ (Healthy(v)' /\ worker'[v].lease.job = k)

LEMMA HealthyLease ==
    ASSUME BaseInv, NEW v \in Workers, Healthy(v)
    PROVE  /\ worker[v].lease \in granted /\ ActiveLease(worker[v].lease)
           /\ worker[v].lease.job \in Jobs /\ worker[v].lease.attempt \in Attempts
           /\ job[worker[v].lease.job].status \in Held /\ ~job[worker[v].lease.job].expired
           /\ worker[v].at \notin {"stopped", "idle"} /\ worker[v].lease # NoLease
<1>1. worker[v].lease # NoLease /\ ActiveLease(worker[v].lease)
  BY DEF Healthy, Obeyed, Holder
<1>2. worker[v].at \notin {"stopped", "idle"}
  BY <1>1 DEF BaseInv, TaskInv, GoodTask
<1> QED
  BY <1>1, <1>2, HeldLease DEF ActiveLease

\* The task goes on, and so does its lease.
LEMMA GoesOnHealthy ==
    ASSUME NEW v \in Workers, NEW k, NEW t, worker'[v] = t, t.lease # NoLease, t.lease.job = k,
           ActiveLease(t.lease)', Sound(t)', job'[k].status \in Held,
           job'[k].attempt = job[k].attempt
    PROVE  Fares(v, k)
<1>1. Obeyed(v)'
  BY ObeyedLease
<1>2. Sound(worker[v])'
  BY DEF Sound
<1> QED
  BY <1>1, <1>2 DEF Fares, Healthy

LEMMA PrivatelyHealthy ==
    ASSUME BaseInv, NEW v \in Workers, Healthy(v), Privately(v),
           NEW k, k = worker[v].lease.job
    PROVE  Fares(v, k)
<1>1. UNCHANGED vars
  BY PrivateIsPrivate
<1>2. /\ worker[v].lease # NoLease /\ ActiveLease(worker[v].lease) /\ Sound(worker[v])
      /\ job[k].status \in Held /\ worker[v].at \notin {"stopped", "idle"}
  BY HealthyLease DEF Healthy
<1>3. job'[k].status \in Held /\ job'[k].attempt = job[k].attempt
  BY <1>1, <1>2 DEF vars
<1>4. ASSUME NEW t, Become(v, t), t.lease = worker[v].lease, t.at # "failing",
             t.outcome \in {worker[v].outcome, "succeeded"}
      PROVE  Fares(v, k)
  <2>1. worker'[v] = t
    BY <1>4, BecomeIs DEF BaseInv, Turns
  <2>2. Sound(t)'
    BY <1>1, <1>2, <1>4 DEF Sound, vars
  <2>3. ActiveLease(t.lease)'
    BY <1>1, <1>2, <1>4 DEF ActiveLease, vars
  <2> QED
    BY <1>2, <1>3, <1>4, <2>1, <2>2, <2>3, GoesOnHealthy
<1>5. ASSUME Fault PROVE Fares(v, k)
  BY <1>3, <1>5 DEF Fault, Fares
<1>6. CASE FetchInput(v)
  <2>1. PICK t : /\ Become(v, t) /\ t.at = "parsing" /\ t.lease = worker[v].lease
                 /\ t.outcome = worker[v].outcome
    BY <1>6, FetchTask
  <2> QED
    BY <1>4, <2>1
<1>7. ASSUME NEW outcome \in PageState \ {"none"}, ParsePage(v, outcome)
      PROVE  Fares(v, k)
  <2>1. CASE outcome = "succeeded"
    <3>1. PICK t : /\ Become(v, t) /\ t.at = "uploading" /\ t.lease = worker[v].lease
                   /\ t.outcome = "succeeded"
      BY <1>7, <2>1, ParseTask
    <3> QED
      BY <1>4, <3>1
  <2>2. CASE outcome # "succeeded"
    BY <1>5, <1>7, <2>2 DEF ParsePage
  <2> QED
    BY <2>1, <2>2
<1>8. CASE PutObject(v) \/ TakeReceipt(v)
  <2>1. PICK t : /\ Become(v, t) /\ t.lease = worker[v].lease /\ t.outcome = worker[v].outcome
                 /\ PutObject(v) => t.at = "recording"
                 /\ TakeReceipt(v) => t.at = IF CurrentPage(v) = 0 THEN "completing"
                                                                  ELSE "checkpointing"
    BY <1>8, PutAndTake
  <2>2. t.at # "failing"
    BY <1>8, <2>1
  <2> QED
    BY <1>4, <2>1, <2>2
<1>9. CASE \/ \E retryable \in BOOLEAN : BreakTask(v, retryable)
           \/ Unreachable(v) \/ Die(v)
  BY <1>5, <1>9 DEF BreakTask, Unreachable, Die
<1>10. ~LoseLease(v) /\ ~Restart(v)
  BY <1>2 DEF LoseLease, Obeyed, Restart, Holder
<1> QED
  BY <1>6, <1>7, <1>8, <1>9, <1>10 DEF Privately

\* A task with no bad page has them all at the end.
LEMMA SoundIsWhole ==
    ASSUME BaseInv, RowsInv, ProgressInv, NEW v \in Workers, Healthy(v),
           worker[v].at = "completing", NEW k, k = worker[v].lease.job
    PROVE  MissingPages(k, PageCount[job[k].doc]) = {}
<1>1. FenceInv /\ ResumeInv
  BY ServerTypes DEF BaseInv, ServerInv
<1>2. PICK l \in granted : l = worker[v].lease
  BY HealthyLease
<1>3. /\ l.job = k /\ k \in Jobs /\ ActiveLease(l) /\ job[k].status \in Held
      /\ l.attempt \in Attempts
  BY <1>2, HealthyLease
<1>4. l.requested = job[k].requested /\ job[k].attempt # 0
  BY <1>1, <1>3, ObeyedLeaseIsTheRows
<1>5. CoveredPages(k, l.attempt) = Asked(l)
  <2>1. Progress(worker[v])
    BY DEF ProgressInv, Healthy
  <2> QED
    BY <1>2, <1>3, <2>1 DEF Progress, Executing
<1>6. \A p \in Pages : checkpoint[k][l.attempt][p] \in {"none", "succeeded"}
  BY <1>2, <1>3 DEF Healthy, Sound
<1>7. Asked(l) \subseteq SucceededPages(k)
  BY <1>3, <1>5, <1>6 DEF CoveredPages, SucceededPages
<1>8. AskedForAll(k)
  BY <1>1, <1>3, <1>4, CountType DEF RowsInv, RowInv, FenceInv
<1>9. job[k].requested # {} =>
          1..PageCount[job[k].doc] \ job[k].requested \subseteq SucceededPages(k)
  BY <1>1, <1>3, <1>8 DEF ResumeInv, Resumes, Held, Live
<1>10. 1..PageCount[job[k].doc] \subseteq SucceededPages(k)
  BY <1>3, <1>4, <1>7, <1>9 DEF Asked
<1> QED
  BY <1>10 DEF MissingPages

LEMMA CommandHealthy ==
    ASSUME BaseInv, RowsInv, ProgressInv, NEW v \in Workers, Healthy(v),
           \/ StartTask(v) \/ CheckpointPage(v) \/ HeartbeatTask(v)
           \/ CompleteTask(v) \/ FailTask(v),
           NEW k, k = worker[v].lease.job
    PROVE  Fares(v, k)
<1>1. TypeInv /\ WorkerTypeOK
  BY ServerTypes DEF BaseInv
<1>2. PICK l \in granted : l = worker[v].lease
  BY HealthyLease
<1>3. /\ l.job = k /\ k \in Jobs /\ l # NoLease /\ l.attempt \in Attempts
      /\ Sound(worker[v])
  BY <1>2, HealthyLease DEF Healthy
<1>4. ASSUME NEW t, worker'[v] = t, t.lease = l, t.at # "failing",
             t.outcome = worker[v].outcome, ActiveLease(l)', job'[k].status \in Held,
             job'[k].attempt = job[k].attempt,
             \A p \in Pages : checkpoint'[k][l.attempt][p] \in {"none", "succeeded"}
      PROVE  Fares(v, k)
  <2>1. Sound(t)'
    BY <1>3, <1>2, <1>4 DEF Sound
  <2>2. ActiveLease(t.lease)'
    BY <1>4 DEF ActiveLease
  <2> QED
    BY <1>3, <1>4, <2>1, <2>2, GoesOnHealthy
<1>5. \A p \in Pages : checkpoint[k][l.attempt][p] \in {"none", "succeeded"}
  BY <1>2, <1>3 DEF Sound
<1>6. CASE StartTask(v)
  <2>1. PICK t : /\ Become(v, t) /\ t.at = "fetching" /\ t.lease = l
                 /\ t.outcome = worker[v].outcome
    BY <1>2, <1>6, StartOfTask
  <2>2. /\ job'[k].status = "parsing" /\ KeepsPlanOf(k) /\ checkpoint' = checkpoint
        /\ ActiveLease(l)'
    BY <1>1, <1>2, <1>3, <1>6, StartEffect DEF StartTask
  <2>3. worker'[v] = t
    BY <1>1, <2>1, BecomeIs DEF Turns
  <2> QED
    BY <1>4, <1>5, <2>1, <2>2, <2>3 DEF KeepsPlanOf, Plan, Held
<1>7. CASE HeartbeatTask(v)
  <2>1. worker[v].at \in Executing /\ worker' = worker /\ Heartbeat(l, worker[v].total)
    BY <1>2, <1>7 DEF HeartbeatTask, taskVars
  <2>2. worker[v].total \in ReportedTotals(l)
    BY <1>2, HeldLease, HealthyLease
  <2>3. /\ job'[k].status = "parsing" /\ job'[k].attempt = job[k].attempt
        /\ checkpoint' = checkpoint /\ ActiveLease(l)'
    BY <1>1, <1>3, <2>1, <2>2, HeartbeatEffect
  <2>4. worker[v].at # "failing" /\ "parsing" \in Held
    BY <2>1 DEF Executing, Held
  <2>5. PICK t : t = worker[v]
    OBVIOUS
  <2> QED
    BY <1>2, <1>4, <1>5, <2>1, <2>3, <2>4, <2>5
<1>8. CASE CheckpointPage(v)
  <2>1. worker[v].at = "checkpointing" /\ worker[v].todo # {}
    BY <1>8 DEF CheckpointPage, BaseInv, TaskInv, GoodTask
  <2>2. PICK p \in Pages : p = CurrentPage(v)
    BY <1>1, <2>1, PageAtHand
  <2>3. worker[v].outcome = "succeeded"
    BY <1>3, <2>1 DEF Sound, BaseInv, TaskInv, GoodTask
  <2>4. Checkpoint(l, p, "succeeded")
    BY <1>2, <1>8, <2>2, <2>3 DEF CheckpointPage
  <2>5. /\ ActiveLease(l)' /\ job' = job /\ job[l.job].status = "parsing"
        /\ \A a \in Attempts, q \in Pages : checkpoint'[l.job][a][q] =
              IF a = l.attempt /\ q = p THEN "succeeded" ELSE checkpoint[l.job][a][q]
    BY <1>1, <2>4, CheckpointEffect
  <2>6. PICK t : /\ Become(v, t) /\ t.lease = l /\ t.outcome = worker[v].outcome
                 /\ t.at \in {"uploading", "parsing"}
    BY <1>2, <1>8, CheckpointTask
  <2>7. worker'[v] = t /\ t.at # "failing"
    BY <1>1, <2>6, BecomeIs DEF Turns
  <2>8. \A q \in Pages : checkpoint'[k][l.attempt][q] \in {"none", "succeeded"}
    BY <1>3, <1>5, <2>5
  <2> QED
    BY <1>3, <1>4, <2>5, <2>6, <2>7, <2>8 DEF Held
<1>9. CASE CompleteTask(v)
  <2>1. MissingPages(k, PageCount[job[k].doc]) = {}
    BY <1>9, SoundIsWhole DEF CompleteTask
  <2>2. ~CompletePartial(l)
    BY <1>1, <1>3, <2>1, PartialEffect
  <2>3. CompleteWhole(l)
    BY <1>2, <1>9, <2>2 DEF CompleteTask
  <2> QED
    BY <1>1, <1>3, <2>3, WholeEffect DEF Fares
<1>10. ~FailTask(v)
  BY <1>3 DEF FailTask, Sound
<1> QED
  BY <1>6, <1>7, <1>8, <1>9, <1>10

\* Nobody else ends the attempt, but for the deletion of the document and the loss of
\* the lease, which is a fault.
LEMMA OthersHealthy ==
    ASSUME BaseInv, NEW v \in Workers, Healthy(v), worker'[v] = worker[v],
           faults' = faults \/ faults' = faults + 1,
           Quiet \/ \E m \in granted : Served(m) /\ m # worker[v].lease,
           NEW k, k = worker[v].lease.job
    PROVE  Fares(v, k)
<1>1. TypeInv /\ FenceInv
  BY ServerTypes DEF BaseInv
<1>2. PICK l \in granted : l = worker[v].lease
  BY HealthyLease
<1>3. PICK t : t = worker[v]
  OBVIOUS
<1>4. /\ l.job = k /\ k \in Jobs /\ l # NoLease /\ t.lease = l /\ Sound(t)
      /\ ActiveLease(l) /\ job[k].status \in Held /\ ~job[k].expired
      /\ l.attempt = job[k].attempt
  BY <1>2, <1>3, HealthyLease DEF Healthy, ActiveLease
<1>5. ASSUME Unmoved(k) PROVE Fares(v, k)
  <2>1. ActiveLease(l)'
    BY <1>4, <1>5, UnmovedLease
  <2>2. ActiveLease(t.lease)'
    BY <1>4, <2>1 DEF ActiveLease
  <2>3. Sound(t)'
    BY <1>4, <1>5 DEF Sound, Unmoved
  <2>4. job'[k].status \in Held /\ job'[k].attempt = job[k].attempt /\ worker'[v] = t
    BY <1>3, <1>4, <1>5 DEF Unmoved
  <2> QED
    BY <1>4, <2>2, <2>3, <2>4, GoesOnHealthy
<1>6. ASSUME NEW m \in granted, Served(m), m # l
      PROVE  Unmoved(k)
  <2>1. /\ m.job \in Jobs /\ ActiveLease(m) /\ \A i \in Jobs \ {m.job} : Unmoved(i)
    BY <1>1, <1>6, ServedEffect
  <2>2. ASSUME m.job = k PROVE FALSE
    <3>1. m.attempt = job[k].attempt
      BY <2>1, <2>2 DEF ActiveLease
    <3>2. m.job = l.job /\ m.attempt = l.attempt
      BY <1>4, <2>2, <3>1
    <3>3. OnePerAttempt
      BY <1>1 DEF FenceInv
    <3> QED
      BY <1>6, <3>2, <3>3 DEF OnePerAttempt
  <2> QED
    BY <1>4, <2>1, <2>2
<1>7. CASE UNCHANGED vars
  BY <1>5, <1>7 DEF vars, Unmoved
<1>8. ASSUME NEW w \in Workers, NEW passed \in SUBSET Jobs,
             ClaimNothing(w, passed) \/ \E j \in Jobs : ClaimLease(w, j, passed)
      PROVE  Unmoved(k)
  <2>1. ~Available(k)
    BY <1>4 DEF Available, Held
  <2>2. ~ClaimLease(w, k, passed)
    BY <2>1 DEF ClaimLease
  <2>3. ClaimNothing(w, passed) \/ \E j \in Jobs \ {k} : ClaimLease(w, j, passed)
    BY <1>8, <2>2
  <2> QED
    BY <1>1, <1>4, <2>1, <2>3, PassedOver
<1>9. ASSUME NEW d \in Docs, NEW j \in Jobs, CompleteUpload(d, j)
      PROVE  Unmoved(k)
  BY <1>1, <1>4, <1>9, UploadEffect DEF Held
<1>10. ASSUME NEW d \in Docs, DeleteDocument(d)
       PROVE  Unmoved(k) \/ Fares(v, k)
  BY <1>1, <1>4, <1>10, DeleteEffect DEF Fares, KeepsPlanOf, Plan
<1>11. ASSUME NEW d \in Docs, CleanupDocument(d)
       PROVE  Unmoved(k)
  BY <1>1, <1>4, <1>11, CleanupEffect DEF Held, Terminal
<1>12. ASSUME NEW j \in Jobs, LeaseRunsOut(j)
       PROVE  Unmoved(k) \/ Fares(v, k)
  <2>1. LeaseExpires(j)
    BY <1>12 DEF LeaseRunsOut
  <2>2. CASE j # k
    BY <1>1, <1>4, <2>1, <2>2, TimeEffect
  <2>3. CASE j = k
    <3>1. Obeyed(v) /\ worker[v].lease.job = k
      BY <1>2, <1>4 DEF Healthy
    <3>2. faults' = faults + 1
      BY <1>12, <2>3, <3>1 DEF LeaseRunsOut, Fault
    <3>3. job'[k].status = job[k].status /\ KeepsPlanOf(k)
      BY <1>1, <2>1, <2>3, TimeEffect
    <3> QED
      BY <1>4, <3>2, <3>3 DEF Fares, KeepsPlanOf, Plan
  <2> QED
    BY <2>2, <2>3
<1>13. ASSUME NEW j \in Jobs, BecomesDue(j)
       PROVE  Unmoved(k)
  BY <1>1, <1>4, <1>13, TimeEffect DEF Held
<1> QED
  BY <1>2, <1>5, <1>6, <1>7, <1>8, <1>9, <1>10, <1>11, <1>12, <1>13 DEF Quiet

LEMMA FaultsCount ==
    ASSUME [WorkerNext]_workerVars
    PROVE  faults' = faults \/ faults' = faults + 1
<1>1. ASSUME NEW w \in Workers, Acts(w)
      PROVE  faults' = faults \/ faults' = faults + 1
  BY <1>1 DEF Acts, WorkStep, HeartbeatTask, FaultStep, Restart, Claim, ClaimInVain, StartTask,
     FetchInput, ParsePage, PutObject, TakeReceipt, CheckpointPage, CompleteTask, FailTask,
     LoseLease, ClaimUnanswered, BreakTask, Unreachable, Die, taskVars, Fault
<1>2. ASSUME ServerStep
      PROVE  faults' = faults \/ faults' = faults + 1
  BY <1>2 DEF ServerStep, CleanupWithArtifacts, LeaseRunsOut, RecordArtifact, ServeLate,
     taskVars, Fault
<1> QED
  BY <1>1, <1>2 DEF WorkerNext, Acts, workerVars, taskVars

LEMMA HealthyFares ==
    ASSUME BaseInv, RowsInv, ProgressInv, [WorkerNext]_workerVars,
           NEW v \in Workers, Healthy(v), NEW k, k = worker[v].lease.job
    PROVE  Fares(v, k)
<1>1. worker[v].at \notin {"stopped", "idle", "failing"}
  BY HealthyLease DEF Healthy, Sound
<1>2. CASE Acts(v)
  <2>1. ~\E j \in Jobs : Claim(v, j) \/ ClaimUnanswered(v, j)
    BY <1>1 DEF Claim, ClaimUnanswered
  <2>2. ~\E passed \in SUBSET Jobs : ClaimInVain(v, passed)
    BY <1>1 DEF ClaimInVain
  <2> QED
    BY <1>2, <2>1, <2>2, ActsAre, PrivatelyHealthy, CommandHealthy
<1>3. CASE ~Acts(v)
  <2>1. /\ worker'[v] = worker[v]
        /\ Quiet \/ \E m \in granted : Served(m) /\ m # worker[v].lease
    BY <1>1, <1>3, StepForWorker
  <2> QED
    BY <2>1, FaultsCount, OthersHealthy
<1> QED
  BY <1>2, <1>3

\* A job in good hands stays within its faults.
LEMMA FaresWell ==
    ASSUME NEW k \in Jobs, FaultInv(k), NEW v \in Workers, Fares(v, k),
           faults \in Nat, job[k].attempt \in Nat, faults' = faults \/ faults' = faults + 1
    PROVE  FaultInv(k)'
<1>1. job'[k].attempt <= faults + 1 /\ job'[k].attempt \in Nat
  BY DEF FaultInv, Fares
<1>2. job'[k].status \notin {"retry_wait", "failed", "partial_failed"}
  BY DEF Fares, Held
<1>3. CASE job'[k].status \in {"succeeded", "cancelled"} \/ faults' = faults + 1
  BY <1>1, <1>2, <1>3 DEF FaultInv, Held
<1>4. CASE Healthy(v)' /\ worker'[v].lease.job = k
  <2>1. InGoodHands(k)'
    BY <1>4 DEF InGoodHands
  <2>2. job'[k].attempt <= faults' + 1
    BY <1>1
  <2> QED
    BY <1>2, <2>1, <2>2 DEF FaultInv
<1> QED
  BY <1>3, <1>4 DEF Fares

\* A job that is in nobody's good hands: its attempts so far all had their faults.
LEMMA Forsaken ==
    ASSUME TypeInv, NEW k \in Jobs, FaultInv(k), ~InGoodHands(k), faults \in Nat,
           job[k].status \in Held \/ Available(k)
    PROVE  job[k].attempt <= faults
<1>1. job[k].status \in Held \cup {"queued", "retry_wait"}
  BY DEF Available
<1>2. job[k].status = "queued" => job[k].attempt = 0
  BY DEF TypeInv, Fresh
<1> QED
  BY <1>1, <1>2 DEF FaultInv

\* The new row of such a job, if it is not a lease
LEMMA ForsakenRow ==
    ASSUME TypeInv, NEW k \in Jobs, FaultInv(k), ~InGoodHands(k), faults \in Nat,
           faults' = faults \/ faults' = faults + 1, rejected \subseteq rejected',
           job'[k].attempt = job[k].attempt,
           \/ job'[k].status = job[k].status
           \/ job'[k].status \notin Held \cup {"retry_wait", "failed", "partial_failed"}
           \/ job[k].status \in Held \/ Available(k),
           \/ job'[k].status \notin {"failed", "partial_failed"}
           \/ job'[k].status = job[k].status
           \/ k \in rejected
           \/ job[k].attempt = MaxAttempts
    PROVE  FaultInv(k)'
<1>1. job[k].attempt \in Nat
  BY CountType
<1>2. CASE job[k].status \in Held \/ Available(k)
  <2>1. job'[k].attempt <= faults'
    BY <1>1, <1>2, Forsaken
  <2>2. job'[k].attempt <= faults' + 1
    BY <1>1, <2>1
  <2>3. job'[k].status \in {"failed", "partial_failed"} /\ k \notin rejected' =>
            job'[k].attempt = MaxAttempts
    BY DEF FaultInv
  <2> QED
    BY <2>1, <2>2, <2>3 DEF FaultInv
<1>3. CASE job'[k].status = job[k].status
  <2>1. /\ job'[k].attempt <= faults' + 1
        /\ job'[k].status \in {"retry_wait", "failed", "partial_failed"} =>
              job'[k].attempt <= faults'
        /\ job'[k].status \in Held => job'[k].attempt <= faults'
    BY <1>1, <1>3 DEF FaultInv
  <2>2. job'[k].status \in {"failed", "partial_failed"} /\ k \notin rejected' =>
            job'[k].attempt = MaxAttempts
    BY <1>3 DEF FaultInv
  <2> QED
    BY <2>1, <2>2 DEF FaultInv
<1>4. CASE job'[k].status \notin Held \cup {"retry_wait", "failed", "partial_failed"}
  <2>1. job'[k].attempt <= faults' + 1
    BY <1>1 DEF FaultInv
  <2> QED
    BY <1>4, <2>1 DEF FaultInv
<1> QED
  BY <1>2, <1>3, <1>4

LEMMA ClaimHealthy ==
    ASSUME BaseInv, NEW w \in Workers, NEW k \in Jobs, Claim(w, k)
    PROVE  InGoodHands(k)'
<1>1. TypeInv /\ RevisionInv /\ WorkerTypeOK /\ {} \in SUBSET Jobs /\ ClaimLease(w, k, {})
  <2>1. TypeInv /\ RevisionInv /\ WorkerTypeOK
    BY ServerTypes DEF BaseInv, ServerInv
  <2>2. ClaimLease(w, k, {}) /\ {} \in SUBSET Jobs
    BY ClaimedAlone
  <2> QED
    BY <2>1, <2>2
<1>2. PICK l : l = GrantedLease(k, w) /\ l.job = k /\ l.attempt = job[k].attempt + 1
  <2>1. LET l == GrantedLease(k, w) IN l.job = k /\ l.attempt = job[k].attempt + 1
    BY DEF GrantedLease
  <2> QED
    BY <2>1
<1>3. checkpoint'[k] = checkpoint[k] /\ l.attempt \in Attempts /\ job[k].attempt \in Nat
  BY <1>1, <1>2, HandedOut, CountType
<1>4. PICK t : Become(w, t) /\ t.at = "starting" /\ t.lease = l /\ t.outcome = "none"
  BY <1>2 DEF Claim, NoTask
<1>5. \A p \in Pages : checkpoint[k][l.attempt][p] = "none"
  <2>1. ~(l.attempt <= job[k].attempt)
    BY <1>2, <1>3
  <2> QED
    BY <1>1, <1>3, <2>1 DEF RevisionInv, Past
<1>6. Sound(t)'
  BY <1>2, <1>3, <1>4, <1>5 DEF Sound
<1>7. worker'[w] = t
  BY <1>1, <1>4, BecomeIs DEF Turns
<1>8. Sound(worker[w])'
  BY <1>6, <1>7 DEF Sound
<1>9. Obeyed(w)'
  BY ClaimProgress
<1> QED
  BY <1>2, <1>4, <1>7, <1>8, <1>9 DEF InGoodHands, Healthy

\* What a step is to the server, with the claims as the workers make them
LEMMA StepForServer ==
    ASSUME BaseInv, [WorkerNext]_workerVars
    PROVE  \/ UNCHANGED vars
           \/ \E l \in granted : Served(l)
           \/ \E w \in Workers, j \in Jobs : Claim(w, j) \/ ClaimUnanswered(w, j)
           \/ \E w \in Workers, passed \in SUBSET Jobs : ClaimNothing(w, passed)
           \/ \E d \in Docs, j \in Jobs : CompleteUpload(d, j)
           \/ \E d \in Docs : DeleteDocument(d) \/ CleanupDocument(d)
           \/ \E j \in Jobs : LeaseExpires(j) \/ BecomesDue(j)
<1>1. ASSUME NEW w \in Workers, Acts(w)
      PROVE  \/ UNCHANGED vars
             \/ \E l \in granted : Served(l)
             \/ \E j \in Jobs : Claim(w, j) \/ ClaimUnanswered(w, j)
             \/ \E passed \in SUBSET Jobs : ClaimNothing(w, passed)
  <2>1. CASE Privately(w)
    BY <2>1, PrivateIsPrivate
  <2>2. CASE \E passed \in SUBSET Jobs : ClaimInVain(w, passed)
    BY <2>2 DEF ClaimInVain
  <2>3. CASE Served(worker[w].lease)
    BY <2>3 DEF Served
  <2> QED
    BY <1>1, <2>1, <2>2, <2>3, ActsAre
<1>2. CASE ServerStep
  <2>1. CASE \E d \in Docs : DeleteDocument(d) \/ \E j \in Jobs : CompleteUpload(d, j)
    BY <2>1
  <2>2. CASE \E d \in Docs : CleanupWithArtifacts(d)
    BY <2>2 DEF CleanupWithArtifacts
  <2>3. CASE \E j \in Jobs : LeaseRunsOut(j) \/ BecomesDue(j)
    BY <2>3 DEF LeaseRunsOut
  <2>4. CASE \E u \in putting : RecordArtifact(u)
    BY <2>4 DEF RecordArtifact, serverVars, vars
  <2>5. CASE \E c \in late : ServeLate(c)
    <3>1. PICK c \in late : ServeLate(c)
      BY <2>5
    <3>2. Served(c.lease)
      BY <3>1, LateIsServed DEF ServeLate
    <3> QED
      BY <3>2 DEF Served
  <2> QED
    BY <1>2, <2>1, <2>2, <2>3, <2>4, <2>5 DEF ServerStep
<1>3. CASE UNCHANGED workerVars
  BY <1>3 DEF workerVars, serverVars, vars
<1> QED
  BY <1>1, <1>2, <1>3 DEF WorkerNext, Acts

LEMMA RejectionsStay ==
    ASSUME [WorkerNext]_workerVars
    PROVE  rejected \subseteq rejected'
<1>1. ASSUME NEW w \in Workers, Acts(w)
      PROVE  rejected \subseteq rejected'
  BY <1>1 DEF Acts, WorkStep, HeartbeatTask, FaultStep, Restart, Claim, ClaimInVain, StartTask,
     FetchInput, ParsePage, PutObject, TakeReceipt, CheckpointPage, CompleteTask, FailTask,
     LoseLease, ClaimUnanswered, BreakTask, Unreachable, Die, taskVars
<1>2. ASSUME ServerStep
      PROVE  rejected \subseteq rejected'
  BY <1>2 DEF ServerStep, CleanupWithArtifacts, LeaseRunsOut, RecordArtifact, ServeLate,
     taskVars
<1> QED
  BY <1>1, <1>2 DEF WorkerNext, Acts, workerVars, taskVars

LEMMA ForsakenServed ==
    ASSUME BaseInv, NEW l, Served(l), NEW k \in Jobs, FaultInv(k), ~InGoodHands(k),
           faults \in Nat, faults' = faults \/ faults' = faults + 1, rejected \subseteq rejected'
    PROVE  FaultInv(k)'
<1>1. TypeInv
  BY ServerTypes DEF BaseInv
<1>2. /\ l \in granted /\ l.job \in Jobs /\ ActiveLease(l)
      /\ job'[l.job].attempt = job[l.job].attempt
      /\ \A i \in Jobs \ {l.job} : Unmoved(i)
  BY <1>1, ServedEffect
<1>3. job[l.job].status \in Held /\ job[l.job].attempt \in 0..MaxAttempts /\ MaxAttempts \in Nat
  BY <1>1, <1>2, RowFields, ConstantsOK DEF ActiveLease, TypeInv, TypeOK
<1>4. \/ job'[l.job].status \notin {"failed", "partial_failed"}
      \/ l.job \in rejected
      \/ job[l.job].attempt = MaxAttempts
  <2>1. CASE Start(l)
    BY <1>1, <1>2, <2>1, StartEffect
  <2>2. CASE \E total \in ReportedTotals(l) : Heartbeat(l, total)
    BY <1>1, <1>2, <2>2, HeartbeatEffect
  <2>3. CASE \E p \in Pages, s \in PageState \ {"none"} :
               Artifact(l, p) \in artifact /\ Checkpoint(l, p, s)
    <3>1. job'[l.job].status = "parsing"
      BY <1>1, <1>2, <2>3, CheckpointEffect
    <3> QED
      BY <3>1
  <2>4. CASE \E retryable \in BOOLEAN : (retryable \/ l.job \in rejected) /\ Fail(l, retryable)
    <3>1. PICK retryable \in BOOLEAN : (retryable \/ l.job \in rejected) /\ Fail(l, retryable)
      BY <2>4
    <3>2. job'[l.job].status = IF retryable /\ job[l.job].attempt < MaxAttempts
                               THEN "retry_wait" ELSE "failed"
      BY <1>1, <1>2, <3>1, FailEffect
    <3>3. ~(job[l.job].attempt < MaxAttempts) => job[l.job].attempt = MaxAttempts
      BY <1>3
    <3> QED
      BY <3>1, <3>2, <3>3
  <2>5. CASE CompleteWhole(l)
    BY <1>1, <1>2, <2>5, WholeEffect
  <2>6. CASE CompletePartial(l)
    <3>1. job'[l.job].status = IF job[l.job].attempt < MaxAttempts
                               THEN "retry_wait" ELSE "partial_failed"
      BY <1>1, <1>2, <2>6, PartialEffect
    <3>2. ~(job[l.job].attempt < MaxAttempts) => job[l.job].attempt = MaxAttempts
      BY <1>3
    <3> QED
      BY <3>1, <3>2
  <2> QED
    BY <2>1, <2>2, <2>3, <2>4, <2>5, <2>6 DEF Served
<1>5. CASE k = l.job
  BY <1>1, <1>2, <1>3, <1>4, <1>5, ForsakenRow
<1>6. CASE k # l.job
  BY <1>1, <1>2, <1>6, ForsakenRow DEF Unmoved
<1> QED
  BY <1>5, <1>6

LEMMA ForsakenFares ==
    ASSUME BaseInv, [WorkerNext]_workerVars, NEW k \in Jobs, FaultInv(k), ~InGoodHands(k),
           faults \in Nat
    PROVE  FaultInv(k)'
<1>1. /\ TypeInv /\ rejected \subseteq rejected'
      /\ faults' = faults \/ faults' = faults + 1
  BY ServerTypes, RejectionsStay, FaultsCount DEF BaseInv
<1>2. ASSUME Unmoved(k) PROVE FaultInv(k)'
  BY <1>1, <1>2, ForsakenRow DEF Unmoved
<1>3. ASSUME KeepsPlanOf(k) PROVE job'[k].attempt = job[k].attempt
  BY <1>3 DEF KeepsPlanOf, Plan
<1>4. ASSUME NEW w \in Workers, NEW j \in Jobs, Claim(w, j) \/ ClaimUnanswered(w, j)
      PROVE  FaultInv(k)'
  <2>1. ClaimLease(w, j, {}) /\ {} \in SUBSET Jobs
    BY <1>4, ClaimedAlone
  <2>2. CASE j # k
    BY <1>1, <1>2, <2>1, <2>2, PassedOver
  <2>3. CASE j = k
    <3>1. /\ Available(k) /\ job'[k].status = "leased"
          /\ job'[k].attempt = job[k].attempt + 1 /\ job[k].attempt \in Nat
      BY <1>1, <2>1, <2>3, HandedOut, CountType
    <3>2. job[k].attempt <= faults
      BY <1>1, <3>1, Forsaken
    <3>3. job'[k].attempt <= faults' + 1
      BY <1>1, <3>1, <3>2
    <3>4. CASE Claim(w, k)
      BY <3>1, <3>3, <3>4, ClaimHealthy DEF FaultInv
    <3>5. CASE ClaimUnanswered(w, k)
      <4>1. job'[k].attempt <= faults'
        BY <3>1, <3>2, <3>5 DEF ClaimUnanswered, Fault
      <4> QED
        BY <3>1, <3>3, <4>1 DEF FaultInv
    <3> QED
      BY <1>4, <2>3, <3>4, <3>5
  <2> QED
    BY <2>2, <2>3
<1>5. ASSUME NEW w \in Workers, NEW passed \in SUBSET Jobs, ClaimNothing(w, passed)
      PROVE  FaultInv(k)'
  <2>1. CASE k \in passed
    <3>1. /\ Available(k) /\ Exhausted(k) /\ job'[k].status = "failed"
          /\ job'[k].attempt = job[k].attempt
      BY <1>1, <1>3, <1>5, <2>1, PassedOver
    <3>2. job[k].attempt = MaxAttempts
      <4>1. job[k].attempt \in 0..MaxAttempts /\ MaxAttempts \in Nat
        BY <1>1, RowFields, ConstantsOK DEF TypeInv, TypeOK
      <4> QED
        BY <3>1, <4>1 DEF Exhausted
    <3> QED
      BY <1>1, <3>1, <3>2, ForsakenRow
  <2>2. CASE k \notin passed
    BY <1>1, <1>2, <1>5, <2>2, PassedOver
  <2> QED
    BY <2>1, <2>2
<1>6. ASSUME NEW d \in Docs, NEW j \in Jobs, CompleteUpload(d, j)
      PROVE  FaultInv(k)'
  <2>1. /\ job[j].status = "none" /\ job'[j].status = "queued" /\ job'[j].attempt = 0
        /\ \A i \in Jobs \ {j} : Unmoved(i)
    BY <1>1, <1>6, UploadEffect
  <2>2. CASE j = k
    <3>1. job[k].attempt = 0
      BY <1>1, <2>1, <2>2 DEF TypeInv, Fresh
    <3> QED
      BY <1>1, <2>1, <2>2, <3>1, ForsakenRow DEF Held
  <2> QED
    BY <1>2, <2>1, <2>2
<1>7. ASSUME NEW d \in Docs, DeleteDocument(d)
      PROVE  FaultInv(k)'
  <2>1. CASE job'[k] = job[k]
    BY <1>1, <2>1, ForsakenRow
  <2>2. CASE job'[k].status = "cancelled" /\ KeepsPlanOf(k)
    BY <1>1, <1>3, <2>2, ForsakenRow DEF Held
  <2> QED
    BY <1>1, <1>2, <1>7, <2>1, <2>2, DeleteEffect
<1>8. ASSUME NEW d \in Docs, CleanupDocument(d)
      PROVE  FaultInv(k)'
  <2>1. CASE job'[k].status = "purged" /\ KeepsPlanOf(k)
    BY <1>1, <1>3, <2>1, ForsakenRow DEF Held
  <2> QED
    BY <1>1, <1>2, <1>8, <2>1, CleanupEffect
<1>9. ASSUME NEW j \in Jobs, LeaseExpires(j) \/ BecomesDue(j)
      PROVE  FaultInv(k)'
  <2>1. CASE j = k
    <3>1. job'[k].status = job[k].status /\ job'[k].attempt = job[k].attempt
      BY <1>1, <1>3, <1>9, <2>1, TimeEffect
    <3> QED
      BY <1>1, <3>1, ForsakenRow
  <2>2. CASE j # k
    BY <1>1, <1>2, <1>9, <2>2, TimeEffect
  <2> QED
    BY <2>1, <2>2
<1>10. CASE UNCHANGED vars
  BY <1>1, <1>10, ForsakenRow DEF vars
<1>11. ASSUME NEW l \in granted, Served(l)
       PROVE  FaultInv(k)'
  BY <1>1, <1>11, ForsakenServed
<1> QED
  BY <1>4, <1>5, <1>6, <1>7, <1>8, <1>9, <1>10, <1>11, StepForServer

FaultsInv == \A j \in Jobs : FaultInv(j)

LEMMA FaultsNext ==
    BaseInv /\ RowsInv /\ ProgressInv /\ FaultsInv /\ [WorkerNext]_workerVars => FaultsInv'
<1> SUFFICES ASSUME BaseInv, RowsInv, ProgressInv, FaultsInv, [WorkerNext]_workerVars,
                    NEW k \in Jobs
             PROVE  FaultInv(k)'
  BY DEF FaultsInv
<1>1. FaultInv(k) /\ faults \in Nat /\ job[k].attempt \in Nat
  BY ServerTypes, CountType, WorkerConstantsOK DEF FaultsInv, BaseInv, WorkerTypeOK
<1>2. CASE InGoodHands(k)
  <2>1. PICK v \in Workers : Healthy(v) /\ worker[v].lease.job = k
    BY <1>2 DEF InGoodHands
  <2>2. Fares(v, k)
    BY <2>1, HealthyFares
  <2> QED
    BY <1>1, <2>2, FaultsCount, FaresWell
<1>3. CASE ~InGoodHands(k)
  BY <1>1, <1>3, ForsakenFares
<1> QED
  BY <1>2, <1>3

\* Every attempt of a job but the last one ended with a fault of its own, and the last
\* one of a failed job as well, unless a parser rejected the document: late commands,
\* competing workers and resumed attempts use up none of job_max_attempts without one
\* (jobs/service.py, claim and fail).
THEOREM AttemptsNeedFaults == WorkerSpec => []AttemptsAreFaults
<1>1. WorkerInit => RowsInv /\ ProgressInv /\ FaultsInv
  <2> SUFFICES ASSUME WorkerInit PROVE ProgressInv /\ FaultsInv
    BY RowsInit
  <2>1. \A w \in Workers : worker[w].lease = NoLease
    BY NoTaskFields DEF WorkerInit
  <2>2. \A j \in Jobs : job[j].status = "none" /\ job[j].attempt = 0
    BY DEF WorkerInit, Init, Absent
  <2>3. faults = 0
    BY DEF WorkerInit
  <2> QED
    BY <2>1, <2>2, <2>3 DEF ProgressInv, Obeyed, Holder, FaultsInv, FaultInv, Held
<1>2. BaseInv /\ FaultsInv => AttemptsAreFaults
  <2> SUFFICES ASSUME BaseInv, FaultsInv, NEW j \in Jobs
               PROVE  /\ job[j].attempt <= faults + 1
                      /\ job[j].status \in {"failed", "partial_failed"} /\ j \notin rejected =>
                            faults >= MaxAttempts
    BY DEF AttemptsAreFaults
  <2>1. FaultInv(j) /\ faults \in Nat /\ MaxAttempts \in Nat
    BY ConstantsOK, WorkerConstantsOK DEF FaultsInv, BaseInv, WorkerTypeOK
  <2> QED
    BY <2>1 DEF FaultInv
<1> QED
  BY BaseAlways, RowsNext, ProgressNext, FaultsNext, <1>1, <1>2, PTL DEF WorkerSpec
==============================================================================
