---------------------------- MODULE IndexPipeline ----------------------------
(***************************************************************************)
(* From a parsed revision to a searchable course: the index jobs           *)
(* (modules/ingestion/index_repository.py), the runner that works on them  *)
(* (index_runner.py, runner.py), the switch of the course to a new lexical *)
(* manifest (activation.py), the review that lets a document in            *)
(* (admin/document_review.py), the retrieval that leaves traces behind     *)
(* (retrieval/) and the cleanup of a deleted document                      *)
(* (deletion/cleanup.py).                                                  *)
(*                                                                         *)
(* One course of one user; its documents all have the corpus role.  An     *)
(* action is one transaction, or one operation on the index directory,     *)
(* which no transaction covers.                                            *)
(***************************************************************************)
EXTENDS Naturals, FiniteSets

CONSTANTS
    Docs,          \* documents of the course
    Revs,          \* revisions; the numbers order those of one document
    DocOf,         \* the document of a revision
    Chunkless,     \* revisions without a chunk of text
    Models,        \* embedding models an operator may configure
    Runners,       \* index runner processes
    None,          \* an absent reference
    MaxAttempt,    \* bound: attempts of one index job
    MaxCrashes     \* bound: runner processes killed

ASSUME ConstantsOK ==
    /\ Revs \subseteq Nat
    /\ DocOf \in [Revs -> Docs]
    /\ Chunkless \subseteq Revs
    /\ None \notin Revs
    /\ MaxAttempt \in Nat /\ MaxCrashes \in Nat

VARIABLES
    doc,           \* documents
    parsing,       \* the document has a parse job that is not terminal
    revision,      \* document_revisions with their chunks
    job,           \* index_jobs, one row per revision and model
    embedded,      \* chunk_embeddings: revisions wholly embedded by a model
    manifests,     \* lexical_manifests
    directories,   \* index directories on disk
    active,        \* courses.active_lexical_index_id
    traced,        \* manifests that some retrieval_traces row refers to
    deletion,      \* deletion_jobs.status of each document
    runner,        \* what each runner process is doing
    crashes        \* processes killed so far

docVars == <<doc, parsing, revision, deletion>>
indexVars == <<manifests, directories, active, traced>>
vars == <<docVars, indexVars, job, embedded, runner, crashes>>

Jobs == Revs \X Models

\* version_id "<job>-attempt-<n>": the id of a manifest and the name of its directory
Versions == [job : Jobs, attempt : 1..MaxAttempt]

ASSUME NoneOK == None \notin Versions /\ None \notin Jobs /\ None \notin Runners

DocStatus == {"queued", "processing", "failed", "partial_failed",
              "parsed_index_blocked", "indexing", "ready", "deleting"}

JobStatus == {"none", "pending", "running", "index_blocked_provider", "failed", "succeeded"}

Working == {"claimed", "embedded", "read", "built", "registered", "failing", "blocking"}

TypeOK ==
    /\ doc \in [Docs -> [status : DocStatus, approved : BOOLEAN,
                         preview : Revs \cup {None}, current : Revs \cup {None}]]
    /\ parsing \in [Docs -> BOOLEAN]
    /\ revision \in [Revs -> {"unborn", "stored", "purged"}]
    /\ job \in [Jobs -> [status : JobStatus, attempt : 0..MaxAttempt,
                         runner : Runners \cup {None}, expired : BOOLEAN]]
    /\ embedded \subseteq Jobs
    /\ manifests \subseteq [version : Versions, revs : SUBSET Revs,
                            status : {"ready", "active", "superseded"}]
    /\ directories \subseteq [version : Versions, revs : SUBSET Revs]
    /\ active \in Versions \cup {None}
    /\ traced \subseteq Versions
    /\ deletion \in [Docs -> {"none", "pending", "retry_wait", "completed"}]
    /\ runner \in [Runners -> [pc : {"down", "idle"} \cup Working, job : Jobs \cup {None},
                               attempt : 0..MaxAttempt, seen : SUBSET Revs,
                               model : Models \cup {None}, provider : BOOLEAN]]
    /\ crashes \in 0..MaxCrashes

NoRow == [status |-> "none", attempt |-> 0, runner |-> None, expired |-> FALSE]

Down == [pc |-> "down", job |-> None, attempt |-> 0, seen |-> {},
         model |-> None, provider |-> FALSE]

\* Uploads are complete, nothing is parsed, no runner has been started.
Init ==
    /\ doc = [d \in Docs |-> [status |-> "queued", approved |-> FALSE,
                              preview |-> None, current |-> None]]
    /\ parsing = [d \in Docs |-> TRUE]
    /\ revision = [r \in Revs |-> "unborn"]
    /\ job = [j \in Jobs |-> NoRow]
    /\ embedded = {}
    /\ manifests = {}
    /\ directories = {}
    /\ active = None
    /\ traced = {}
    /\ deletion = [d \in Docs |-> "none"]
    /\ runner = [x \in Runners |-> Down]
    /\ crashes = 0

Deleted(d) == doc[d].status = "deleting"

\* The documents every index is made of
Included(d) == doc[d].approved /\ ~Deleted(d)

DocsOf(revs) == {DocOf[r] : r \in revs}

-----------------------------------------------------------------------------
(* Parsing, as the index sees it: JobLease has the detail                  *)

\* start, fail with a retry, complete with a retry
ParseMoves(d, status) ==
    /\ parsing[d]
    /\ doc' = [doc EXCEPT ![d].status = status]
    /\ UNCHANGED <<parsing, revision, deletion, job, embedded, indexVars, runner, crashes>>

ParseFails(d, status) ==
    /\ parsing[d]
    /\ doc' = [doc EXCEPT ![d].status = status]
    /\ parsing' = [parsing EXCEPT ![d] = FALSE]
    /\ UNCHANGED <<revision, deletion, job, embedded, indexVars, runner, crashes>>

\* ingest_attempt stores the next revision and makes it the preview.
ParseSucceeds(r) ==
    LET d == DocOf[r] IN
    /\ parsing[d]
    /\ revision[r] = "unborn"
    /\ \A s \in Revs : DocOf[s] = d /\ s < r => revision[s] # "unborn"
    /\ revision' = [revision EXCEPT ![r] = "stored"]
    /\ doc' = [doc EXCEPT ![d].preview = r, ![d].status = "parsed_index_blocked"]
    /\ parsing' = [parsing EXCEPT ![d] = FALSE]
    /\ UNCHANGED <<deletion, job, embedded, indexVars, runner, crashes>>

\* retry_document_parse.  Bounded: only while a revision is left to be made.
Reparse(d) ==
    /\ Included(d) /\ ~parsing[d]
    /\ \E r \in Revs : DocOf[r] = d /\ revision[r] = "unborn"
    /\ parsing' = [parsing EXCEPT ![d] = TRUE]
    /\ doc' = [doc EXCEPT ![d].status = "queued"]
    /\ UNCHANGED <<revision, deletion, job, embedded, indexVars, runner, crashes>>

-----------------------------------------------------------------------------
(* Index jobs                                                              *)

\* The preview of such a document gets an index job.
Enqueueable(row) ==
    /\ row.approved
    /\ row.preview # None
    /\ row.status \in {"parsed_index_blocked", "indexing"}

\* INSERT ... ON CONFLICT DO NOTHING: whatever became of the first row, it stays.
WithPreviews(rows, model) ==
    [j \in Jobs |->
        IF /\ job[j].status = "none"
           /\ \E row \in rows : Enqueueable(row) /\ j = <<row.preview, model>>
        THEN [NoRow EXCEPT !.status = "pending"] ELSE job[j]]

AllDocuments == {doc[d] : d \in Docs}

\* DocumentReviewService.review: the API enqueues for the model it is configured with.
\* A rejected document stays as it is for ever and is left out.
Approve(d, model) ==
    /\ ~doc[d].approved /\ ~Deleted(d)
    /\ doc' = [doc EXCEPT ![d].approved = TRUE]
    /\ job' = WithPreviews({doc'[d]}, model)
    /\ UNCHANGED <<parsing, revision, deletion, embedded, indexVars, runner, crashes>>

\* Mutant: a job whose runner died is not claimed again
ClaimablePending(rows, j) == rows[j].status = "pending" /\ Included(DocOf[j[1]])

Claimable(rows, j) ==
    /\ rows[j].status = "pending" \/ (rows[j].status = "running" /\ rows[j].expired)
    /\ Included(DocOf[j[1]])

NextAttempt(row) == row.attempt + 1

\* claim: a job whose revision is no longer the preview fails at once.  What it enqueues
\* it can claim, so a claim that finds nothing changes nothing.
Claim(x, j) ==
    LET rows  == WithPreviews(AllDocuments, runner[x].model)
        d     == DocOf[j[1]]
        stale == doc[d].preview # j[1]
    IN
    /\ runner[x].pc = "idle"
    /\ Claimable(rows, j)
    /\ rows[j].attempt < MaxAttempt
    /\ job' = [rows EXCEPT ![j] =
                 IF stale THEN [@ EXCEPT !.status = "failed", !.expired = FALSE]
                 ELSE [status |-> "running", attempt |-> NextAttempt(@),
                       runner |-> x, expired |-> FALSE]]
    /\ doc' = IF stale THEN doc ELSE [doc EXCEPT ![d].status = "indexing"]
    /\ runner' = IF stale THEN runner
                 ELSE [runner EXCEPT ![x].pc = "claimed", ![x].job = j,
                                     ![x].attempt = NextAttempt(rows[j])]
    /\ UNCHANGED <<parsing, revision, deletion, embedded, indexVars, crashes>>

\* The 300 seconds of a lease run out.  Nothing renews it, and only claim looks at it.
LeaseExpires(j) ==
    /\ job[j].status = "running" /\ ~job[j].expired
    /\ job' = [job EXCEPT ![j].expired = TRUE]
    /\ UNCHANGED <<docVars, embedded, indexVars, runner, crashes>>

-----------------------------------------------------------------------------
(* IndexRunner.run_once                                                    *)

\* _locked_running: the lease may be over, as long as nobody else claimed the job.
Holds(x) ==
    LET row == job[runner[x].job] IN
    /\ row.status = "running"
    /\ row.runner = x
    /\ row.attempt = runner[x].attempt

At(x, pc) == [runner EXCEPT ![x].pc = pc]

Idle(x) == [runner EXCEPT ![x] = [Down EXCEPT !.pc = "idle", !.model = runner[x].model,
                                              !.provider = runner[x].provider]]

ProviderServes(x) == runner[x].provider /\ runner[x].model = runner[x].job[2]

\* The embeddings of all chunks replace the former ones in one transaction.
Embed(x) ==
    /\ runner[x].pc = "claimed"
    /\ ProviderServes(x) /\ Holds(x)
    /\ runner[x].job[1] \notin Chunkless
    /\ embedded' = embedded \cup {runner[x].job}
    /\ runner' = At(x, "embedded")
    /\ UNCHANGED <<docVars, indexVars, job, crashes>>

\* No provider, another model than the job asks for, or a call that fails
ProviderFails(x) ==
    /\ runner[x].pc = "claimed"
    /\ runner' = At(x, "blocking")
    /\ UNCHANGED <<docVars, indexVars, job, embedded, crashes>>

\* The revisions that make up the course once the job is done
Selected(j, d) == IF d = DocOf[j[1]] THEN j[1] ELSE doc[d].current

Scope(j) == {Selected(j, d) : d \in {e \in Docs : Included(e)}} \ {None}

\* lexical_documents reads chunks.
ReadDocuments(x) ==
    /\ runner[x].pc = "embedded"
    /\ Holds(x)
    /\ runner' = [runner EXCEPT ![x].pc = "read", ![x].seen = Scope(runner[x].job) \ Chunkless]
    /\ UNCHANGED <<docVars, indexVars, job, embedded, crashes>>

WorkVersion(x) == [job |-> runner[x].job, attempt |-> runner[x].attempt]

\* Bm25IndexStore.build: a whole directory appears at once, outside any transaction.
Build(x) ==
    /\ runner[x].pc = "read"
    /\ runner[x].seen # {}
    /\ directories' = directories \cup {[version |-> WorkVersion(x), revs |-> runner[x].seen]}
    /\ runner' = At(x, "built")
    /\ UNCHANGED <<docVars, manifests, active, traced, job, embedded, crashes>>

\* register_lexical
Register(x) ==
    /\ runner[x].pc = "built"
    /\ Holds(x)
    /\ manifests' = manifests \cup {[version |-> WorkVersion(x), revs |-> runner[x].seen,
                                     status |-> "ready"]}
    /\ runner' = At(x, "registered")
    /\ UNCHANGED <<docVars, directories, active, traced, job, embedded, crashes>>

Candidate(x) == {m \in manifests : m.version = WorkVersion(x)}

\* Mutant: the documents may have changed since they were read
MayActivateStale(x) ==
    LET j == runner[x].job IN
    /\ Included(DocOf[j[1]]) /\ doc[DocOf[j[1]]].preview = j[1]
    /\ Candidate(x) # {}
    /\ Scope(j) \X {j[2]} \subseteq embedded

\* ActivationService._switch.  The chunks are counted: all of them are embedded.
MayActivate(x) ==
    LET j == runner[x].job IN
    /\ Included(DocOf[j[1]])
    /\ revision[j[1]] = "stored"
    /\ doc[DocOf[j[1]]].preview = j[1]
    /\ \E m \in Candidate(x) : m.revs = Scope(j)
    /\ Scope(j) \X {j[2]} \subseteq embedded

Settled(row, status) == [row EXCEPT !.status = status, !.runner = None, !.expired = FALSE]

\* Mutant: the former manifest keeps its status
KeepStatus(m) == m

Supersede(m) == IF m.version = active THEN [m EXCEPT !.status = "superseded"] ELSE m

Activate(x) ==
    LET j == runner[x].job IN
    /\ runner[x].pc = "registered"
    /\ Holds(x) /\ MayActivate(x)
    /\ manifests' = {Supersede(m) : m \in manifests \ Candidate(x)}
                        \cup {[m EXCEPT !.status = "active"] : m \in Candidate(x)}
    /\ active' = WorkVersion(x)
    /\ doc' = [doc EXCEPT ![DocOf[j[1]]] = [@ EXCEPT !.current = j[1], !.preview = None,
                                                     !.status = "ready"]]
    /\ job' = [job EXCEPT ![j] = Settled(@, "succeeded")]
    /\ runner' = Idle(x)
    /\ UNCHANGED <<parsing, revision, deletion, directories, traced, embedded, crashes>>

\* OSError, RuntimeError and ValueError: the lease is lost, there are no chunks, the
\* provider answers with too few or with infinite vectors (at any time, as may
\* happen to the writing of the index), the scope is stale.
Raises(x) ==
    \/ runner[x].pc = "claimed" /\ ProviderServes(x)
    \/ runner[x].pc \in {"embedded", "built"} /\ ~Holds(x)
    \/ runner[x].pc = "read"
    \/ runner[x].pc = "registered" /\ ~(Holds(x) /\ MayActivate(x))

StepRaises(x) ==
    /\ Raises(x)
    /\ runner' = At(x, "failing")
    /\ UNCHANGED <<docVars, indexVars, job, embedded, crashes>>

\* fail and block_provider, with _set_document_blocked
GiveUp(x) ==
    LET j == runner[x].job
        d == DocOf[j[1]]
        outcome == IF runner[x].pc = "failing" THEN "failed" ELSE "index_blocked_provider"
    IN
    /\ runner[x].pc \in {"failing", "blocking"}
    /\ Holds(x)
    /\ job' = [job EXCEPT ![j] = Settled(@, outcome)]
    /\ doc' = IF doc[d].preview = j[1]
              THEN [doc EXCEPT ![d].status = "parsed_index_blocked"] ELSE doc
    /\ runner' = Idle(x)
    /\ UNCHANGED <<parsing, revision, deletion, embedded, indexVars, crashes>>

\* fail and block_provider raise again when the lease is lost: serve() ends.
Escapes(x) ==
    /\ runner[x].pc \in {"failing", "blocking"}
    /\ ~Holds(x)
    /\ runner' = [runner EXCEPT ![x] = Down]
    /\ UNCHANGED <<docVars, indexVars, job, embedded, crashes>>

Crash(x) ==
    /\ runner[x].pc # "down"
    /\ crashes < MaxCrashes
    /\ crashes' = crashes + 1
    /\ runner' = [runner EXCEPT ![x] = Down]
    /\ UNCHANGED <<docVars, indexVars, job, embedded>>

Resumable(j, model) ==
    job[j].status = "index_blocked_provider" /\ j[2] = model /\ Included(DocOf[j[1]])

\* serve: a process starts with the configuration of the moment and first of all
\* resumes the jobs its provider can serve now.
Start(x, model, provider) ==
    /\ runner[x].pc = "down"
    /\ runner' = [runner EXCEPT ![x] = [Down EXCEPT !.pc = "idle", !.model = model,
                                                    !.provider = provider]]
    /\ job' = [j \in Jobs |-> IF provider /\ Resumable(j, model)
                              THEN Settled(job[j], "pending") ELSE job[j]]
    /\ UNCHANGED <<docVars, indexVars, embedded, crashes>>

-----------------------------------------------------------------------------
(* Retrieval and deletion                                                  *)

HasDirectory(v) == \E b \in directories : b.version = v

\* PostgresQueryEvidence.retrieve: whatever it finds, its trace names the manifest.
Query ==
    /\ \E m \in manifests : m.version = active /\ m.status = "active"
    /\ HasDirectory(active)
    /\ traced' = traced \cup {active}
    /\ UNCHANGED <<docVars, manifests, directories, active, job, embedded, runner, crashes>>

DeletedRow(row) == [row EXCEPT !.status = "deleting", !.preview = None, !.current = None]

\* DocumentService.delete
Delete(d) ==
    /\ ~Deleted(d)
    /\ doc' = [doc EXCEPT ![d] = DeletedRow(@)]
    /\ parsing' = [parsing EXCEPT ![d] = FALSE]
    /\ deletion' = [deletion EXCEPT ![d] = "pending"]
    /\ UNCHANGED <<revision, job, embedded, indexVars, runner, crashes>>

Affected(d) == {m \in manifests : d \in DocsOf(m.revs)}

Remaining(d) == {b \in directories : \A m \in Affected(d) : m.version # b.version}

ActiveAfter(d) == IF \E m \in Affected(d) : m.version = active THEN None ELSE active

\* DeletionCleanupService.cleanup of the derived data.  Index jobs go with their revision.
Cleanup(d) ==
    LET purged == {r \in Revs : DocOf[r] = d /\ revision[r] = "stored"} IN
    /\ Deleted(d)
    /\ \A m \in Affected(d) : m.version \notin traced
    /\ directories' = Remaining(d)
    /\ manifests' = manifests \ Affected(d)
    /\ active' = ActiveAfter(d)
    /\ revision' = [r \in Revs |-> IF r \in purged THEN "purged" ELSE revision[r]]
    /\ embedded' = {j \in embedded : j[1] \notin purged}
    /\ job' = [j \in Jobs |-> IF j[1] \in purged THEN NoRow ELSE job[j]]
    /\ deletion' = [deletion EXCEPT ![d] = "completed"]
    /\ UNCHANGED <<doc, parsing, traced, runner, crashes>>

\* fk_retrieval_traces_lexical_scope is checked when the transaction commits: nothing is
\* deleted from the database, but the directories are gone.
CleanupRollsBack(d) ==
    /\ Deleted(d)
    /\ \E m \in Affected(d) : m.version \in traced
    /\ directories' = Remaining(d)
    /\ deletion' = [deletion EXCEPT ![d] = "retry_wait"]
    /\ UNCHANGED <<doc, parsing, revision, manifests, active, traced, job, embedded,
                   runner, crashes>>

-----------------------------------------------------------------------------

ParseStep(d) ==
    \/ \E status \in {"queued", "processing"} : ParseMoves(d, status)
    \/ \E status \in {"failed", "partial_failed"} : ParseFails(d, status)
    \/ \E r \in Revs : DocOf[r] = d /\ ParseSucceeds(r)
    \/ Reparse(d)

UserStep(d) ==
    \/ ParseStep(d) \/ Delete(d)
    \/ \E model \in Models : Approve(d, model)

CleanupStep(d) == Cleanup(d) \/ CleanupRollsBack(d)

\* What serve() does by itself
WorkStep(x) ==
    \/ \E j \in Jobs : Claim(x, j)
    \/ Embed(x) \/ ProviderFails(x) \/ ReadDocuments(x) \/ Build(x)
    \/ Register(x) \/ Activate(x) \/ StepRaises(x) \/ GiveUp(x) \/ Escapes(x)

Restart(x) == \E model \in Models, provider \in BOOLEAN : Start(x, model, provider)

Next ==
    \/ \E d \in Docs : UserStep(d) \/ CleanupStep(d)
    \/ \E x \in Runners : WorkStep(x) \/ Restart(x) \/ Crash(x)
    \/ \E j \in Jobs : LeaseExpires(j)
    \/ Query

Spec == Init /\ [][Next]_vars

-----------------------------------------------------------------------------
(* What the pipeline promises                                              *)

\* The pointer of the course and the active revisions of its documents agree: the
\* manifest it names is the only active one and holds exactly the active revision of
\* every document, but for documents whose cleanup is still to come.
ActiveIndexMatches ==
    active # None =>
        \E m \in manifests :
            /\ {n \in manifests : n.status = "active"} = {m}
            /\ m.version = active
            /\ {r \in m.revs : ~Deleted(DocOf[r])} = {doc[d].current : d \in Docs} \ {None}

\* Once the cleanup of a document is done, it cannot come back into the index that is
\* searched, although a runner may have read its chunks before and still be at work.
DeletedIsUnsearchable ==
    \A d \in Docs : deletion[d] = "completed" =>
        \A m \in manifests : m.version = active => d \notin DocsOf(m.revs)

\* What the index directory of a version holds; nothing, or more than one thing, if it is
\* not there or not the only one.
FilesOf(v) == {b.revs : b \in {c \in directories : c.version = v}}

Evidence(revs) == {<<DocOf[r], r>> : r \in revs}

\* All revisions that a manifest of the course pointer lists
Indexed == UNION {m.revs : m \in {n \in manifests : n.version = active}}

ActiveRevs == {doc[d].current : d \in Docs} \ {None}

Course == INSTANCE SearchableCourse WITH
    Questions <- {},
    current <- Evidence(ActiveRevs),
    index <- Evidence(Indexed),
    readable <- FilesOf(active) = {Indexed},
    deleted <- {d \in Docs : Deleted(d)},
    cleaned <- {d \in Docs : deletion[d] = "completed"},
    answer <- [q \in {} |-> {}]

\* Through crashed runners, lost leases, failed cleanups and directories that no
\* transaction covers, the course switches in one step from one complete index to the
\* next, and loses its index only to the cleanup of a document in it.
ServesTheCourse == Course!Spec

-----------------------------------------------------------------------------
(* Progress.  Docker restarts the runner, time passes, and a DELETE is     *)
(* repeated.  Neither users nor parsers owe anything.                      *)

Fairness ==
    /\ \A x \in Runners : WF_vars(WorkStep(x)) /\ WF_vars(Restart(x))
    /\ \A j \in Jobs : WF_vars(LeaseExpires(j))
    /\ \A d \in Docs : WF_vars(CleanupStep(d))

FairSpec == Spec /\ Fairness

\* An index job comes to an end, through crashes and lost leases, unless its document
\* is deleted.
EveryIndexJobSettles ==
    \A j \in Jobs :
        job[j].status \in {"pending", "running"} /\ Included(DocOf[j[1]])
            ~> job[j].status \notin {"pending", "running"} \/ Deleted(DocOf[j[1]])
=============================================================================
