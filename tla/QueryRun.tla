------------------------------- MODULE QueryRun -------------------------------
(***************************************************************************)
(* Questions and answers: a request of the API runs one query from its row *)
(* to its answer (modules/answering/queries.py, service.py, retrieval.py,  *)
(* modules/retrieval/), in a dozen transactions with provider calls        *)
(* between them, while the index is switched and documents are deleted and *)
(* cleaned up (ingestion/activation.py, deletion/cleanup.py).              *)
(*                                                                         *)
(* One course of one user, whose documents all have the corpus role.  An   *)
(* action is one transaction, one provider call, or both of a pair that    *)
(* nothing can come between.  All requests run in one API process.         *)
(* document_ids only narrow the choice of candidates, and the anchors of a *)
(* concept, which were active when the question was asked, are among what  *)
(* is seen; the conversation only changes the question.                    *)
(***************************************************************************)
EXTENDS Naturals, Sequences

CONSTANTS
    Docs,          \* documents of the course
    Queries,       \* questions that may be asked
    MaxRev,        \* bound: revisions of one document
    MaxManifest    \* bound: indexes the course is switched to

ASSUME BoundsOK == MaxRev \in Nat /\ MaxManifest \in Nat

VARIABLES
    rev,           \* documents.active_revision_id; 0 is NULL
    deletion,      \* deletion_jobs.status of each document
    contents,      \* what each lexical manifest ever registered holds
    manifests,     \* rows of lexical_manifests
    directories,   \* index directories on disk
    active,        \* courses.active_lexical_index_id; 0 is NULL
    cached,        \* indexes LexicalRetriever has loaded
    row,           \* a query_runs row with its trace, snapshot and dependencies
    call           \* what the request that runs the query is doing

indexVars == <<contents, manifests, directories, active>>
docVars == <<rev, deletion>>
vars == <<docVars, indexVars, cached, row, call>>

\* A document revision stands for its chunks.
Evidence == Docs \X (1..MaxRev)

DocsIn(evidence) == {e[1] : e \in evidence}

Manifests == 1..MaxManifest

Status == {"unasked", "pending", "retrieving", "generating",
           "answered", "abstained", "failed", "invalidated"}

InFlight == {"created", "started", "found", "dense", "lexical", "traced", "retrieved",
             "saved", "generating", "drafted", "settled"}

\* query_runs.status, citations; retrieval_traces.lexical_manifest_id; the evidence_payload
\* and active_lexical_index_id of the snapshot; the quotes of the available dependencies
QueryRow == [status : Status, trace : Manifests \cup {0}, index : Manifests \cup {0},
             payload : SUBSET Evidence, citations : SUBSET Evidence, quotes : SUBSET Evidence]

\* The local variables of QueryService.execute and of what it awaits
Request == [pc : InFlight \cup {"none", "done", "lost"},
            index : Manifests \cup {0}, lexical : Manifests \cup {0},
            seen : SUBSET Evidence, candidates : SUBSET Evidence,
            outcome : {"none", "answered", "abstained", "failed"}, cited : SUBSET Evidence]

TypeOK ==
    /\ rev \in [Docs -> 0..MaxRev]
    /\ deletion \in [Docs -> {"none", "pending", "retry_wait", "completed"}]
    /\ contents \in Seq(SUBSET Evidence) /\ Len(contents) <= MaxManifest
    /\ manifests \subseteq DOMAIN contents
    /\ directories \subseteq DOMAIN contents
    /\ active \in manifests \cup {0}
    /\ cached \subseteq DOMAIN contents
    /\ row \in [Queries -> QueryRow]
    /\ call \in [Queries -> Request]

NoRow == [status |-> "unasked", trace |-> 0, index |-> 0,
          payload |-> {}, citations |-> {}, quotes |-> {}]

NoCall == [pc |-> "none", index |-> 0, lexical |-> 0, seen |-> {}, candidates |-> {},
           outcome |-> "none", cited |-> {}]

\* The request raised or was killed
Lost == [NoCall EXCEPT !.pc = "lost"]

\* A course without an index, nothing asked
Init ==
    /\ rev = [d \in Docs |-> 0]
    /\ deletion = [d \in Docs |-> "none"]
    /\ contents = <<>>
    /\ manifests = {} /\ directories = {} /\ active = 0 /\ cached = {}
    /\ row = [q \in Queries |-> NoRow]
    /\ call = [q \in Queries |-> NoCall]

Deleted(d) == deletion[d] # "none"

\* The active revisions of documents that are not deleted (deletion clears the reference)
Current == {e \in Evidence : rev[e[1]] = e[2]}

At(q, pc) == call[q].pc = pc

\* The request goes on with some of its variables changed.
Moves(q, pc) == [call[q] EXCEPT !.pc = pc]

-----------------------------------------------------------------------------
(* Retrieval                                                               *)

\* QueryRepository.create
Ask(q) ==
    /\ At(q, "none")
    /\ row' = [row EXCEPT ![q].status = "pending"]
    /\ call' = [call EXCEPT ![q] = Moves(q, "created")]
    /\ UNCHANGED <<docVars, indexVars, cached>>

StartRetrieval(q) ==
    /\ At(q, "created")
    /\ row' = [row EXCEPT ![q].status = "retrieving"]
    /\ call' = [call EXCEPT ![q] = Moves(q, "started")]
    /\ UNCHANGED <<docVars, indexVars, cached>>

\* RetrievedEvidence(active_index=False, candidates=())
NoIndex(q) == [Moves(q, "retrieved") EXCEPT !.index = 0, !.seen = {}]

\* PostgresQueryEvidence._active_index
FindIndex(q) ==
    /\ At(q, "started")
    /\ call' = [call EXCEPT ![q] = IF active = 0 THEN NoIndex(q)
                                   ELSE [Moves(q, "found") EXCEPT !.index = active]]
    /\ UNCHANGED <<docVars, indexVars, cached, row>>

\* probe, _model_identity and embed_query, then DenseRetriever.retrieve
ReadDense(q) ==
    /\ At(q, "found")
    /\ call' = [call EXCEPT ![q] = [Moves(q, "dense") EXCEPT !.seen = Current]]
    /\ UNCHANGED <<docVars, indexVars, cached, row>>

\* ProviderError: the query is finalized without a snapshot.
EmbedFails(q) ==
    /\ At(q, "found")
    /\ call' = [call EXCEPT ![q] = [Moves(q, "settled") EXCEPT !.outcome = "failed"]]
    /\ UNCHANGED <<docVars, indexVars, cached, row>>

\* LexicalRetriever.retrieve reads the pointer of the course again, and then the
\* directory unless the index is loaded.  FileNotFoundError ends the request.
ReadLexical(q) ==
    LET found == [Moves(q, "lexical") EXCEPT !.lexical = active,
                                             !.seen = @ \cup contents[active]]
        readable == active \in directories \cup cached
    IN
    /\ At(q, "dense")
    /\ call' = [call EXCEPT ![q] = IF active = 0 THEN NoIndex(q)
                                   ELSE IF readable THEN found ELSE Lost]
    /\ cached' = IF active # 0 /\ readable THEN cached \cup {active} ELSE cached
    /\ UNCHANGED <<docVars, indexVars, row>>

\* PostgresTraceStore.save: the foreign key refuses a manifest that was deleted
\* meanwhile, and IntegrityError ends the request.
SaveTrace(q) ==
    LET kept == call[q].lexical \in manifests IN
    /\ At(q, "lexical")
    /\ row' = IF kept THEN [row EXCEPT ![q].trace = call[q].lexical] ELSE row
    /\ call' = [call EXCEPT ![q] = IF kept THEN [Moves(q, "traced") EXCEPT !.lexical = 0]
                                   ELSE Lost]
    /\ UNCHANGED <<docVars, indexVars, cached>>

\* PostgresQueryEvidence._authorize; ranking and limits choose among what was seen.
Authorize(q) ==
    /\ At(q, "traced")
    /\ \E chosen \in SUBSET (call[q].seen \cap Current) :
          call' = [call EXCEPT ![q] = [Moves(q, "retrieved") EXCEPT !.candidates = chosen,
                                                                          !.seen = {}]]
    /\ UNCHANGED <<docVars, indexVars, cached, row>>

\* The snapshot is written whatever has become of its sources.
SaveRetrieval(q) ==
    /\ At(q, "retrieved")
    /\ row' = [row EXCEPT ![q].payload = call[q].candidates, ![q].index = call[q].index]
    /\ call' = [call EXCEPT ![q] = Moves(q, IF call[q].candidates = {}
                                            THEN "generating" ELSE "saved")]
    /\ UNCHANGED <<docVars, indexVars, cached>>

-----------------------------------------------------------------------------
(* Generation                                                              *)

\* Overwrites whatever status the row has
StartGeneration(q) ==
    /\ At(q, "saved")
    /\ row' = [row EXCEPT ![q].status = "generating"]
    /\ call' = [call EXCEPT ![q] = Moves(q, "generating")]
    /\ UNCHANGED <<docVars, indexVars, cached>>

\* TrustedAnswerService.answer up to the source check: the evidence gate, the provider and
\* its attempts at valid citations.  Without evidence it can only abstain.
Generate(q) ==
    /\ At(q, "generating")
    /\ \/ call' = [call EXCEPT ![q] = [Moves(q, "settled") EXCEPT !.outcome = "abstained"]]
       \/ /\ call[q].candidates # {}
          /\ call' = [call EXCEPT ![q] = [Moves(q, "settled") EXCEPT !.outcome = "failed"]]
       \/ \E cited \in (SUBSET call[q].candidates) \ {{}} :
             call' = [call EXCEPT ![q] = [Moves(q, "drafted") EXCEPT !.outcome = "answered",
                                                                     !.cited = cited]]
    /\ UNCHANGED <<docVars, indexVars, cached, row>>

\* Mutant: the manifests are not compared, so that sources retrieved across a switch
\* of the index count as current
SourcesUnchanged(q) == call[q].candidates # {} /\ call[q].candidates \subseteq Current

\* The rows that must not have changed since retrieval, cited or not
SourcesCurrent(q) ==
    /\ call[q].candidates # {}
    /\ active = call[q].index
    /\ call[q].candidates \subseteq Current

\* PostgresQueryEvidence.sources_are_current; an exception counts as "no".
CheckSources(q) ==
    /\ At(q, "drafted")
    /\ \/ /\ SourcesCurrent(q)
          /\ call' = [call EXCEPT ![q] = Moves(q, "settled")]
       \/ call' = [call EXCEPT ![q] = [Moves(q, "settled") EXCEPT !.outcome = "abstained"]]
    /\ UNCHANGED <<docVars, indexVars, cached, row>>

\* Mutant: finalize trusts the check before
TrustCheck(q) == call[q].outcome

\* What finalize decides under the locks of the course and the documents
Resolved(q) ==
    IF call[q].outcome = "answered" /\ ~SourcesCurrent(q) THEN "abstained" ELSE call[q].outcome

\* Mutant: only a query under generation expects an answer
NotGenerating(q) == row[q].status # "generating"

Invalidated(q) == row[q].status = "invalidated"

\* QueryRepository.finalize
Finalize(q) ==
    LET cited == IF Resolved(q) = "answered" THEN call[q].cited ELSE {} IN
    /\ At(q, "settled")
    /\ row' = IF Invalidated(q) THEN row
              ELSE [row EXCEPT ![q].status = Resolved(q),
                               ![q].citations = cited, ![q].quotes = cited]
    /\ call' = [call EXCEPT ![q] = [NoCall EXCEPT !.pc = "done"]]
    /\ UNCHANGED <<docVars, indexVars, cached>>

\* The API process is killed: its requests and its loaded indexes are gone.
Crash ==
    /\ \E q \in Queries : call[q].pc \in InFlight
    /\ call' = [q \in Queries |-> IF call[q].pc \in InFlight
                                  THEN Lost ELSE call[q]]
    /\ cached' = {}
    /\ UNCHANGED <<docVars, indexVars, row>>

-----------------------------------------------------------------------------
(* Documents and indexes: IndexPipeline has the detail                     *)

\* The activation of an index that was built for a revision of d, new or not: its manifest
\* holds the active revision of every document that is not deleted.
Switch(d) ==
    \E r \in {rev[d], rev[d] + 1} \cap 1..MaxRev :
        /\ ~Deleted(d)
        /\ Len(contents) < MaxManifest
        /\ rev' = [rev EXCEPT ![d] = r]
        /\ contents' = Append(contents, {e \in Evidence : rev'[e[1]] = e[2]})
        /\ active' = Len(contents')
        /\ manifests' = manifests \cup {active'}
        /\ directories' = directories \cup {active'}
        /\ UNCHANGED <<deletion, cached, row, call>>

\* DocumentService.delete
Delete(d) ==
    /\ ~Deleted(d)
    /\ rev' = [rev EXCEPT ![d] = 0]
    /\ deletion' = [deletion EXCEPT ![d] = "pending"]
    /\ UNCHANGED <<indexVars, cached, row, call>>

Affected(d) == {m \in manifests : d \in DocsIn(contents[m])}

Traced == {row[q].trace : q \in Queries}

Without(evidence, d) == {e \in evidence : e[1] # d}

\* Dependencies and snapshots lose what they hold of d, and the query its answer.
Purged(r, d) ==
    LET kept == [r EXCEPT !.payload = Without(@, d), !.quotes = Without(@, d)] IN
    IF d \in DocsIn(r.payload \cup r.quotes)
    THEN [kept EXCEPT !.status = "invalidated", !.citations = {}] ELSE r

\* Mutant: the foreign key says ON DELETE SET NULL, and the cleanup goes through
HeldByNone(d) == {}

\* The manifests that the foreign key of the traces protects
Held(d) == Affected(d) \cap Traced

ActiveAfter(d) == IF active \in Affected(d) THEN 0 ELSE active

\* DeletionCleanupService.cleanup, as far as answers and indexes go
Cleanup(d) ==
    /\ Deleted(d)
    /\ Held(d) = {}
    /\ row' = [q \in Queries |-> Purged(row[q], d)]
    /\ manifests' = manifests \ Affected(d)
    /\ directories' = directories \ Affected(d)
    /\ active' = ActiveAfter(d)
    /\ deletion' = [deletion EXCEPT ![d] = "completed"]
    /\ UNCHANGED <<rev, contents, cached, call>>

\* The commit fails: only the directories are gone.
CleanupRollsBack(d) ==
    /\ Deleted(d)
    /\ Held(d) # {}
    /\ directories' = directories \ Affected(d)
    /\ deletion' = [deletion EXCEPT ![d] = "retry_wait"]
    /\ UNCHANGED <<rev, contents, manifests, active, cached, row, call>>

-----------------------------------------------------------------------------

\* What the request does by itself once the question is asked
CallStep(q) ==
    \/ StartRetrieval(q) \/ FindIndex(q) \/ ReadDense(q) \/ EmbedFails(q) \/ ReadLexical(q)
    \/ SaveTrace(q) \/ Authorize(q) \/ SaveRetrieval(q)
    \/ StartGeneration(q) \/ Generate(q) \/ CheckSources(q) \/ Finalize(q)

CleanupStep(d) == Cleanup(d) \/ CleanupRollsBack(d)

Next ==
    \/ \E q \in Queries : Ask(q) \/ CallStep(q)
    \/ \E d \in Docs : Switch(d) \/ Delete(d) \/ CleanupStep(d)
    \/ Crash

Spec == Init /\ [][Next]_vars

-----------------------------------------------------------------------------
(* What an answer promises                                                 *)

Cites(r, d) == d \in DocsIn(r.citations)

\* An answer rests on one index, although three transactions read the pointer of the
\* course and any number of switches may come between them: the snapshot and the trace
\* name the same manifest, and every citation is a revision that manifest holds.
AnswerFromOneIndex ==
    \A q \in Queries : row[q].status = "answered" =>
        /\ row[q].trace = row[q].index
        /\ row[q].citations \subseteq contents[row[q].index]

\* From the moment a document is deleted no answer that cites it is stored any more,
\* however far the request had come with it.
NoCitationAfterDeletion ==
    [][\A d \in Docs, q \in Queries :
         Deleted(d) /\ Cites(row'[q], d) => Cites(row[q], d)]_vars

\* A completed cleanup is complete and stays so: no answer, no dependency and no snapshot
\* holds text of the document, not even one written by a request that had authorized
\* the document before it was deleted.
CleanedLeavesNoText ==
    \A d \in Docs : deletion[d] = "completed" =>
        \A q \in Queries :
            d \notin DocsIn(row[q].payload \cup row[q].citations \cup row[q].quotes)

Indexed == IF active = 0 THEN {} ELSE contents[active]

Given(r) == IF r.status = "answered" THEN r.citations ELSE {}

Course == INSTANCE SearchableCourse WITH
    Revs <- 1..MaxRev,
    Questions <- Queries,
    current <- Current,
    index <- Indexed,
    readable <- active \in directories,
    deleted <- {d \in Docs : Deleted(d)},
    cleaned <- {d \in Docs : deletion[d] = "completed"},
    answer <- [q \in Queries |-> Given(row[q])]

\* A dozen transactions of a request look like one: an answer appears at once, out of what
\* is searchable and active at that moment, it never changes, and no cleanup takes away
\* what it cites.
AnswersTheCourse == Course!Spec

\* "随后清理…答案和笔记依赖" (docs/architecture.md:36): the cleanup of a deleted document takes
\* back the answers that cite it.
\* (Refuted: the trace of the very answer makes every cleanup of the document fail.)
DeletedIsUncited ==
    \A d \in Docs : Deleted(d) ~> \A q \in Queries : ~Cites(row[q], d)

-----------------------------------------------------------------------------
(* Progress: a request runs on until the process is killed, since every   *)
(* provider call has a timeout.                                            *)

FairSpec == Spec /\ \A q \in Queries : WF_vars(CallStep(q))

\* In addition a DELETE is repeated until it succeeds.
RetriedSpec == FairSpec /\ \A d \in Docs : WF_vars(CleanupStep(d))

\* A question that was asked is answered, refused or failed, whatever is switched or
\* deleted under it, unless its request dies.
EveryQueryEnds ==
    \A q \in Queries :
        row[q].status = "pending"
            ~> \/ row[q].status \in {"answered", "abstained", "failed", "invalidated"}
               \/ At(q, "lost")
=============================================================================
