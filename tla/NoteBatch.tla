------------------------------ MODULE NoteBatch ------------------------------
(***************************************************************************)
(* Notes: the batches that generate and regenerate them                    *)
(* (modules/notes/batch_service.py), the tasks of the API process that run *)
(* the batches (modules/notes/demo_runner.py), the user who edits a note   *)
(* meanwhile, and the notes generated by an answer within one request      *)
(* (modules/notes/service.py), while documents are reparsed, deleted and   *)
(* cleaned up.                                                             *)
(*                                                                         *)
(* One course of one user.  An action is one transaction or one call of    *)
(* the model, or a pair that nothing of interest can come between.  A      *)
(* batch has a single item whose status moves with its own in every        *)
(* transaction, so one field stands for both.  Two processes run at once   *)
(* while one is started beside another that is shutting down.  Which pages *)
(* and sentences a note takes is left open.                                *)
(***************************************************************************)
EXTENDS Naturals, Sequences

CONSTANTS
    Docs,          \* documents of the course, PDF or Markdown
    Notes,         \* notes; a batch that creates one has the same name
    Regenerations, \* batches that regenerate one
    Processes,     \* API processes
    MaxRev,        \* bound: revisions of a document
    MaxVersion,    \* bound: versions of a note
    MaxFaults,     \* bound: crashes, and failures that could not be recorded
    None

ASSUME BoundsOK == MaxRev \in Nat \ {0} /\ MaxVersion \in Nat \ {0} /\ MaxFaults \in Nat

ASSUME NamesOK ==
    /\ Notes \cap Regenerations = {}
    /\ None \notin Notes
    /\ {"user", "answer"} \cap (Notes \cup Regenerations) = {}

VARIABLES
    doc,           \* documents: what makes one usable, and its active revision
    batch,         \* note_generation_batches with its item, inputs, output and events
    note,          \* notes with their note_content_versions and note_sources
    asked,         \* the version of a note a regeneration request has read; 0: none
    draft,         \* what a request that answers for a note holds
    task,          \* the task of a batch in a process
    up,            \* processes that run
    faults,        \* crashes and lost failure records so far
    stranded       \* unfinished batches whose task ended without a record

docVars == <<doc>>
userVars == <<asked, draft>>
procVars == <<task, up, faults, stranded>>
vars == <<doc, batch, note, userVars, procVars>>

Batches == Notes \cup Regenerations

Revs == 1..MaxRev

Versions == 1..MaxVersion

\* status, review_status, deleted_at and the deletion job of a document; "parsing" is any
\* status but ready, from "queued" on, of a document parsed again: its revision stays
\* active meanwhile, or for good when the parse fails.
DocRow == [status : {"ready", "parsing", "deleted", "cleaned"}, rev : Revs]

Phases == {"none", "validating_inputs", "retrieving", "generating", "saving"}

\* target_note_id and target_note_version are None and 0 for a create batch; frozen has
\* the revision of each input document, 0 for the others; tail is the type of the last event
\* A batch that has put out a note has named its version, and the same for its target.
BatchRow ==
    LET Row == [status : {"absent", "queued", "running", "succeeded", "failed"},
                phase : Phases, attempt : {0, 1}, target : Notes \cup {None},
                base : 0..MaxVersion, frozen : [Docs -> 0..MaxRev],
                output : Notes \cup {None}, outputVersion : 0..MaxVersion,
                tail : {"none", "progress", "end"}]
    IN  {r \in Row : /\ r.target = None <=> r.base = 0
                     /\ r.output = None <=> r.outputVersion = 0}

\* Who wrote a version and which one the writer had before it; a quote that is not open
\* was emptied by the cleanup
Writing == [by : Batches \cup {"user", "answer"}, base : 0..MaxVersion]

Source == [doc : Docs, rev : Revs, open : BOOLEAN]

NoteRow == [written : Seq(Writing), snapshots : SUBSET Versions, sources : SUBSET Source]

Steps == {"idle", "due", "retrieve", "announce", "generate", "save", "failing"}

TypeOK ==
    /\ doc \in [Docs -> DocRow]
    /\ batch \in [Batches -> BatchRow]
    /\ note \in [Notes -> NoteRow]
    /\ asked \in [Notes -> 0..MaxVersion]
    /\ draft \in [Notes -> [base : 0..MaxVersion, frozen : [Docs -> 0..MaxRev], on : BOOLEAN]]
    /\ task \in [Processes -> [Batches -> Steps]]
    /\ up \subseteq Processes
    /\ faults \in 0..MaxFaults
    /\ stranded \subseteq Batches

NoFrozen == [d \in Docs |-> 0]

NoBatch == [status |-> "absent", phase |-> "none", attempt |-> 0, target |-> None, base |-> 0,
            frozen |-> NoFrozen, output |-> None, outputVersion |-> 0, tail |-> "none"]

NoNote == [written |-> <<>>, snapshots |-> {}, sources |-> {}]

NoDraft == [base |-> 0, frozen |-> NoFrozen, on |-> FALSE]

\* Documents that are ready, nothing written yet
Init ==
    /\ doc = [d \in Docs |-> [status |-> "ready", rev |-> 1]]
    /\ batch = [b \in Batches |-> NoBatch]
    /\ note = [n \in Notes |-> NoNote]
    /\ asked = [n \in Notes |-> 0]
    /\ draft = [n \in Notes |-> NoDraft]
    /\ task = [p \in Processes |-> [b \in Batches |-> "idle"]]
    /\ up = Processes
    /\ faults = 0
    /\ stranded = {}

Version(n) == Len(note[n].written)

Exists(n) == Version(n) > 0

\* Nobody has made the note or is about to: its name can be taken as a new id.
IsFree(n) == ~Exists(n) /\ batch[n].status = "absent" /\ ~draft[n].on

Open(b) == batch[b].status \in {"queued", "running"}

\* Mutant: a start takes up the batches that were never begun
Queued == {b \in Batches : batch[b].status = "queued"}

Unfinished == {b \in Batches : Open(b)}

\* NoteRepository._origin_batch_id: some batch has put out a version of the note
IsWorkflow(n) == \E b \in Batches : batch[b].output = n

\* What a batch asks of its documents
Usable(d) == doc[d].status = "ready"

\* What an answer asks of them: the retrieval never looks at their status.
Searchable(d) == doc[d].status \in {"ready", "parsing"}

\* The revisions a request freezes for a set of documents
Freeze(D) == [d \in Docs |-> IF d \in D THEN doc[d].rev ELSE 0]

Inputs(frozen) == {d \in Docs : frozen[d] # 0}

\* Mutant: a document that was parsed again will do
StillUsable(frozen) == \A d \in Inputs(frozen) : Usable(d)

\* Mutant: the revision is compared, whatever became of its document
SameRevisions(frozen) == \A d \in Inputs(frozen) : doc[d].rev = frozen[d]

\* Every frozen document is still ready, approved and of the same active revision.
Unchanged(frozen) == \A d \in Inputs(frozen) : Usable(d) /\ doc[d].rev = frozen[d]

\* NoteRepository._sources_current: neither deleted nor of another active revision.  (It
\* also compares the course's active index, which only refuses more.)
SourcesCurrent(frozen) == \A d \in Inputs(frozen) : Searchable(d) /\ doc[d].rev = frozen[d]

\* What a note comes to cite of some of its inputs
Cited(frozen, D) == {[doc |-> d, rev |-> frozen[d], open |-> TRUE] : d \in D}

Goes(p, b, step) == task' = [task EXCEPT ![p][b] = step]

At(p, b, step) == p \in up /\ task[p][b] = step

-----------------------------------------------------------------------------
(* Commands                                                                *)

\* schedule: nothing to do if the process has a task for the batch already
Schedule(p, b) == IF task[p][b] = "idle" THEN Goes(p, b, "due") ELSE UNCHANGED task

NewBatch(b, frozen, n, base) ==
    /\ batch[b].status = "absent"
    /\ batch' = [batch EXCEPT ![b] = [NoBatch EXCEPT !.status = "queued", !.frozen = frozen,
                                        !.target = n, !.base = base, !.tail = "progress"]]

\* POST /courses/{id}/note-batches with a fresh key
CreateBatch(p, b, D) ==
    /\ p \in up /\ b \in Notes /\ IsFree(b)
    /\ D # {} /\ \A d \in D : Usable(d)
    /\ NewBatch(b, Freeze(D), None, 0)
    /\ Schedule(p, b)
    /\ UNCHANGED <<doc, note, userVars, up, faults, stranded>>

\* create_regeneration_batch up to the course lock: note_hint is loaded, and the version
\* in it is the one compared with If-Match, because the later SELECT ... FOR UPDATE
\* returns the object of the identity map without reading its columns again.
AskRegeneration(n) ==
    /\ Exists(n) /\ asked[n] = 0
    /\ asked' = [asked EXCEPT ![n] = Version(n)]
    /\ UNCHANGED <<doc, batch, note, draft, procVars>>

\* The newest batch that put out this version of the note or one before it
SourceBatch(n, v) ==
    {b \in Batches :
        /\ batch[b].output = n /\ batch[b].outputVersion <= v
        /\ \A c \in Batches : batch[c].output = n /\ batch[c].outputVersion <= v
                                => batch[c].outputVersion <= batch[b].outputVersion}

\* The rest of create_regeneration_batch: the inputs of the last generation are frozen
\* anew, at their revisions of today.
CreateRegeneration(p, b, n) ==
    /\ p \in up /\ b \in Regenerations
    /\ asked[n] \in note[n].snapshots /\ asked[n] < MaxVersion
    /\ \E s \in SourceBatch(n, asked[n]) :
        /\ \A d \in Inputs(batch[s].frozen) : Usable(d)
        /\ NewBatch(b, Freeze(Inputs(batch[s].frozen)), n, asked[n])
    /\ asked' = [asked EXCEPT ![n] = 0]
    /\ Schedule(p, b)
    /\ UNCHANGED <<doc, note, draft, up, faults, stranded>>

\* The request is refused: no snapshot, no batch, or inputs that are not ready.
RefuseRegeneration(n) ==
    /\ asked[n] # 0
    /\ asked' = [asked EXCEPT ![n] = 0]
    /\ UNCHANGED <<doc, batch, note, draft, procVars>>

\* A command repeated with its key: _replay_or_none returns the batch, and the process
\* that was asked schedules it (again); the task of a finished batch would end at once.
Retry(p, b) ==
    /\ p \in up /\ Open(b)
    /\ Schedule(p, b)
    /\ UNCHANGED <<doc, batch, note, userVars, up, faults, stranded>>

-----------------------------------------------------------------------------
(* The task of a batch                                                     *)

\* _start_batch: a batch that runs already is run once more, whoever holds its lease.
Start(p, b) ==
    /\ At(p, b, "due")
    /\ IF Open(b)
       THEN /\ batch' = [batch EXCEPT ![b].status = "running", ![b].attempt = 1,
                            ![b].phase = IF batch[b].attempt = 0 THEN "validating_inputs" ELSE @,
                            ![b].tail = "progress"]
            /\ Goes(p, b, "retrieve")
       ELSE Goes(p, b, "idle") /\ UNCHANGED batch
    /\ UNCHANGED <<doc, note, userVars, up, faults, stranded>>

\* Mutant: a finished batch reports progress
InPhaseAlways(b, phase) == [batch[b] EXCEPT !.phase = phase, !.tail = "progress"]

\* _set_phase leaves a finished item alone; the task goes on all the same.
InPhase(b, phase) ==
    IF Open(b) THEN [batch[b] EXCEPT !.phase = phase, !.tail = "progress"] ELSE batch[b]

\* _set_phase("retrieving") and _load_material, which finds the chunks of the frozen
\* revisions unless they were deleted
Load(p, b) ==
    /\ At(p, b, "retrieve")
    /\ batch' = [batch EXCEPT ![b] = InPhase(b, "retrieving")]
    /\ Goes(p, b, IF \E d \in Inputs(batch[b].frozen) : doc[d].status = "cleaned"
                  THEN "failing" ELSE "announce")
    /\ UNCHANGED <<doc, note, userVars, up, faults, stranded>>

\* _set_phase("generating"), after a pause
Announce(p, b) ==
    /\ At(p, b, "announce")
    /\ batch' = [batch EXCEPT ![b] = InPhase(b, "generating")]
    /\ Goes(p, b, "generate")
    /\ UNCHANGED <<doc, note, userVars, up, faults, stranded>>

\* _append_preview_event, for a part of the streamed text
Previewed(b) == IF Open(b) THEN [batch[b] EXCEPT !.tail = "progress"] ELSE batch[b]

Preview(p, b) ==
    /\ At(p, b, "generate")
    /\ batch' = [batch EXCEPT ![b] = Previewed(b)]
    /\ UNCHANGED <<doc, note, userVars, procVars>>

\* The model answers, and _set_phase("saving") follows.
Generate(p, b) ==
    /\ At(p, b, "generate")
    /\ batch' = [batch EXCEPT ![b] = InPhase(b, "saving")]
    /\ Goes(p, b, "save")
    /\ UNCHANGED <<doc, note, userVars, up, faults, stranded>>

\* ProviderError, an answer that cannot be used, or any other exception of a step: what
\* its transaction had done is rolled back.
StepFails(p, b) ==
    /\ p \in up /\ task[p][b] \in {"retrieve", "announce", "generate", "save"}
    /\ Goes(p, b, "failing")
    /\ UNCHANGED <<doc, batch, note, userVars, up, faults, stranded>>

\* The note and the version that a batch is about to write
OutputNote(b) == IF batch[b].target = None THEN b ELSE batch[b].target

OutputVersion(b) == batch[b].base + 1

\* Mutant: it is enough that the target is still there
TargetExists(b) == batch[b].target # None => Exists(batch[b].target)

\* Whether the target of a regeneration is still at the version the batch was made for
TargetUnmoved(b) == batch[b].target # None => Version(batch[b].target) = batch[b].base

\* The version with its snapshot, and new sources in place of the old ones
Rewritten(n, writing, snapshots, cited) ==
    [note[n] EXCEPT !.written = Append(@, writing), !.snapshots = @ \cup snapshots,
                    !.sources = cited]

Finished(b) ==
    [batch[b] EXCEPT !.status = "succeeded", !.phase = "saving", !.tail = "end",
                     !.output = OutputNote(b), !.outputVersion = OutputVersion(b)]

\* _save_success under the locks of batch, item, note, documents, revisions and chunks
Save(p, b) ==
    /\ At(p, b, "save") /\ Open(b)
    /\ TargetUnmoved(b)
    /\ Unchanged(batch[b].frozen)
    /\ \E D \in SUBSET Inputs(batch[b].frozen) :
        /\ D # {}
        /\ note' = [note EXCEPT ![OutputNote(b)] =
                        Rewritten(OutputNote(b), [by |-> b, base |-> batch[b].base],
                                  {OutputVersion(b)}, Cited(batch[b].frozen, D))]
    /\ batch' = [batch EXCEPT ![b] = Finished(b)]
    /\ Goes(p, b, "idle")
    /\ stranded' = stranded \ {b}
    /\ UNCHANGED <<doc, userVars, up, faults>>

\* _SourceChangedError or _NoteVersionConflictError
SaveRefused(p, b) ==
    /\ At(p, b, "save") /\ Open(b)
    /\ ~TargetUnmoved(b) \/ ~Unchanged(batch[b].frozen)
    /\ Goes(p, b, "failing")
    /\ UNCHANGED <<doc, batch, note, userVars, up, faults, stranded>>

\* Somebody else has finished the batch: nothing is saved or recorded.
GiveUp(p, b) ==
    /\ At(p, b, "save") \/ At(p, b, "failing")
    /\ ~Open(b)
    /\ Goes(p, b, "idle")
    /\ UNCHANGED <<doc, batch, note, userVars, up, faults, stranded>>

Failed(b) == [batch[b] EXCEPT !.status = "failed", !.tail = "end"]

MarkFailure(p, b) ==
    /\ At(p, b, "failing") /\ Open(b)
    /\ batch' = [batch EXCEPT ![b] = Failed(b)]
    /\ Goes(p, b, "idle")
    /\ stranded' = stranded \ {b}
    /\ UNCHANGED <<doc, note, userVars, up, faults>>

\* The transaction of _mark_failure fails and the exception is dropped, or _start_batch
\* raises: the task is over and the batch is as it was.
LoseTask(p, b) ==
    /\ At(p, b, "failing") \/ At(p, b, "due")
    /\ faults < MaxFaults
    /\ Goes(p, b, "idle")
    /\ faults' = faults + 1
    /\ stranded' = stranded \cup {c \in {b} : Open(c)}
    /\ UNCHANGED <<doc, batch, note, userVars, up>>

\* The process dies or is shut down; its tasks are cancelled between two transactions.
Crash(p) ==
    /\ p \in up /\ faults < MaxFaults
    /\ up' = up \ {p}
    /\ task' = [task EXCEPT ![p] = [b \in Batches |-> "idle"]]
    /\ faults' = faults + 1
    /\ UNCHANGED <<doc, batch, note, userVars, stranded>>

\* lifespan: recover_pending schedules every batch that is queued or running.
Restart(p) ==
    /\ p \notin up
    /\ up' = up \cup {p}
    /\ task' = [task EXCEPT ![p] = [b \in Batches |-> IF b \in Unfinished THEN "due" ELSE "idle"]]
    /\ stranded' = stranded \ Unfinished
    /\ UNCHANGED <<doc, batch, note, userVars, faults>>

-----------------------------------------------------------------------------
(* The user                                                                *)

\* A workflow note needs the snapshot of its current version, and gets one of the next.
MayEdit(n) == IsWorkflow(n) => Version(n) \in note[n].snapshots

EditedSnapshots(n) == IF IsWorkflow(n) THEN {Version(n) + 1} ELSE {}

\* PATCH /notes/{id}: any If-Match but that of the current version is refused.
Edit(n) ==
    /\ Exists(n) /\ Version(n) < MaxVersion
    /\ MayEdit(n)
    /\ note' = [note EXCEPT ![n] = Rewritten(n, [by |-> "user", base |-> Version(n)],
                                             EditedSnapshots(n), note[n].sources)]
    /\ UNCHANGED <<doc, batch, userVars, procVars>>

\* POST /courses/{id}/notes/import
Import(n) ==
    /\ IsFree(n)
    /\ note' = [note EXCEPT ![n] = Rewritten(n, [by |-> "user", base |-> 0], {}, {})]
    /\ UNCHANGED <<doc, batch, userVars, procVars>>

\* NoteService.create and regenerate up to the answer: the version of the note is read,
\* then evidence is retrieved from the active revisions of some documents.
Draft(n, D) ==
    /\ ~draft[n].on /\ (Exists(n) \/ IsFree(n)) /\ ~IsWorkflow(n)
    /\ D # {} /\ \A d \in D : Searchable(d)
    /\ draft' = [draft EXCEPT ![n] = [base |-> Version(n), frozen |-> Freeze(D), on |-> TRUE]]
    /\ UNCHANGED <<doc, batch, note, asked, procVars>>

\* create_generated and NoteRepository.regenerate
SaveDraft(n) ==
    /\ draft[n].on
    /\ draft[n].base = Version(n) /\ Version(n) < MaxVersion
    /\ SourcesCurrent(draft[n].frozen)
    /\ \E D \in SUBSET Inputs(draft[n].frozen) :
        /\ D # {}
        /\ note' = [note EXCEPT ![n] =
                        Rewritten(n, [by |-> "answer", base |-> draft[n].base], {},
                                  Cited(draft[n].frozen, D))]
    /\ draft' = [draft EXCEPT ![n] = NoDraft]
    /\ UNCHANGED <<doc, batch, asked, procVars>>

\* NoteVersionConflict, NoteGenerationError, or an answer without evidence
DropDraft(n) ==
    /\ draft[n].on
    /\ draft' = [draft EXCEPT ![n] = NoDraft]
    /\ UNCHANGED <<doc, batch, note, asked, procVars>>

-----------------------------------------------------------------------------
(* Documents                                                               *)

\* enqueue_parse_job: the document waits for another parse with its revision active.
Reparse(d) ==
    /\ Usable(d) /\ doc[d].rev < MaxRev
    /\ doc' = [doc EXCEPT ![d].status = "parsing"]
    /\ UNCHANGED <<batch, note, userVars, procVars>>

\* The parse succeeds and its revision is switched to.
Activate(d) ==
    /\ doc[d].status = "parsing" /\ doc[d].rev < MaxRev
    /\ doc' = [doc EXCEPT ![d] = [status |-> "ready", rev |-> @.rev + 1]]
    /\ UNCHANGED <<batch, note, userVars, procVars>>

Delete(d) ==
    /\ Searchable(d)
    /\ doc' = [doc EXCEPT ![d].status = "deleted"]
    /\ UNCHANGED <<batch, note, userVars, procVars>>

\* The quotes a note has of the document are emptied.
Emptied(n, d) ==
    {s \in note[n].sources : s.doc # d} \cup
        {[s EXCEPT !.open = FALSE] : s \in {t \in note[n].sources : t.doc = d}}

CleanUp(d) ==
    /\ doc[d].status = "deleted"
    /\ doc' = [doc EXCEPT ![d].status = "cleaned"]
    /\ note' = [n \in Notes |-> [note[n] EXCEPT !.sources = Emptied(n, d)]]
    /\ UNCHANGED <<batch, userVars, procVars>>

-----------------------------------------------------------------------------
TaskStep(p, b) ==
    \/ Start(p, b)
    \/ Load(p, b)
    \/ Announce(p, b)
    \/ Generate(p, b)
    \/ StepFails(p, b)
    \/ Save(p, b)
    \/ SaveRefused(p, b)
    \/ GiveUp(p, b)
    \/ MarkFailure(p, b)

ProcessStep(p, b) ==
    \/ \E D \in SUBSET Docs : CreateBatch(p, b, D)
    \/ \E n \in Notes : CreateRegeneration(p, b, n)
    \/ Retry(p, b)
    \/ TaskStep(p, b)
    \/ Preview(p, b)
    \/ LoseTask(p, b)

NoteStep(n) == AskRegeneration(n) \/ RefuseRegeneration(n) \/ Edit(n)

AnswerStep(n) ==
    \/ Import(n)
    \/ \E D \in SUBSET Docs : Draft(n, D)
    \/ SaveDraft(n)
    \/ DropDraft(n)

DocStep(d) == Reparse(d) \/ Activate(d) \/ Delete(d) \/ CleanUp(d)

Next ==
    \/ \E p \in Processes, b \in Batches : ProcessStep(p, b)
    \/ \E p \in Processes : Crash(p) \/ Restart(p)
    \/ \E n \in Notes : NoteStep(n)
    \/ \E n \in Notes : AnswerStep(n)
    \/ \E d \in Docs : DocStep(d)

Spec == Init /\ [][Next]_vars

\* Tasks of a running process go on (the calls of the model time out), and a process that
\* went down is started again.
Fairness ==
    /\ \A p \in Processes : WF_vars(Restart(p))
    /\ \A p \in Processes, b \in Batches : WF_vars(TaskStep(p, b))

FairSpec == Spec /\ Fairness

-----------------------------------------------------------------------------
(* Properties                                                              *)

\* However many tasks run a batch, it ends once: a succeeded batch has written exactly
\* the version it names, a failed one nothing, and its last event is its end, so that a
\* client that reads the events to the end misses none.
EndsOnce ==
    \A b \in Batches :
        LET by == {w \in Notes \X Versions :
                      w[2] <= Version(w[1]) /\ note[w[1]].written[w[2]].by = b}
        IN  /\ by = IF batch[b].status = "succeeded"
                    THEN {<<batch[b].output, batch[b].outputVersion>>} ELSE {}
            /\ batch[b].status \in {"succeeded", "failed"} <=> batch[b].tail = "end"

\* No writing is lost: whoever writes a version (the user, a batch made minutes before,
\* an answer) has had the version before it, and every version of a workflow note has its
\* snapshot to regenerate from.
HistoryIsWhole ==
    \A n \in Notes :
        /\ \A v \in 1..Version(n) : note[n].written[v].base = v - 1
        /\ IsWorkflow(n) => note[n].snapshots = 1..Version(n)

\* After the cleanup of a document no note keeps a quote of it, whichever of cleanup and
\* save comes first, and none ever gets one again.
CleanedIsUnquoted ==
    \A n \in Notes : \A s \in note[n].sources : s.open => doc[s.doc].status # "cleaned"

\* Sources only come into a note while their documents are live and of that revision,
\* although the material was read, and the model asked, long before; those of a batch
\* while their documents are ready too.  (An answer may cite a document whose next parse
\* is under way: the revision cited is still the active one.)
SourcesAreCurrent ==
    [][\A n \in Notes : \A s \in note'[n].sources :
          LET writer == note'[n].written[Version(n)'].by IN
          Version(n)' > Version(n) /\ writer # "user"
             => /\ doc[s.doc].status \notin {"deleted", "cleaned"} /\ doc[s.doc].rev = s.rev
                /\ writer # "answer" => doc[s.doc].status = "ready"]_vars

\* Every batch comes to an end in spite of crashes, unless the only record of its end
\* could not be written: that batch waits for the next start of a process.
EveryBatchEnds ==
    \A b \in Batches :
        (batch[b].status = "queued") ~> (~Open(b) \/ b \in stranded)

\* A regeneration is made of the version the note has ("412: If-Match 与当前笔记版本不一致",
\* note_batches.py:171).
RegenerationIsOfCurrent ==
    [][\A b \in Batches : batch[b].status = "absent" /\ batch'[b].target # None
          => batch'[b].base = Version(batch'[b].target)]_vars
=============================================================================
