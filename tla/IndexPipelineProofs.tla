------------------------- MODULE IndexPipelineProofs -------------------------
(***************************************************************************)
(* Proofs about IndexPipeline, for any documents, revisions, embedding     *)
(* models and runner processes: the index that is searched holds exactly   *)
(* the active revisions, and none of a document whose cleanup is done; and *)
(* the pipeline implements SearchableCourse.                               *)
(***************************************************************************)
EXTENDS IndexPipeline, TLAPS

-----------------------------------------------------------------------------
(* 1. Types                                                                *)

\* A runner at work has a job and an attempt of it.
WorkTyped == \A x \in Runners : runner[x].pc \in Working =>
    runner[x].job \in Jobs /\ runner[x].attempt \in 1..MaxAttempt

TypeInv == TypeOK /\ WorkTyped

DocRow == [status : DocStatus, approved : BOOLEAN,
           preview : Revs \cup {None}, current : Revs \cup {None}]

JobRow == [status : JobStatus, attempt : 0..MaxAttempt,
           runner : Runners \cup {None}, expired : BOOLEAN]

Process == [pc : {"down", "idle"} \cup Working, job : Jobs \cup {None},
            attempt : 0..MaxAttempt, seen : SUBSET Revs,
            model : Models \cup {None}, provider : BOOLEAN]

Manifest == [version : Versions, revs : SUBSET Revs,
             status : {"ready", "active", "superseded"}]

LEMMA Rows ==
    ASSUME TypeOK
    PROVE  /\ doc \in [Docs -> DocRow] /\ \A d \in Docs : doc[d] \in DocRow
           /\ job \in [Jobs -> JobRow] /\ \A j \in Jobs : job[j] \in JobRow
           /\ runner \in [Runners -> Process] /\ \A x \in Runners : runner[x] \in Process
           /\ manifests \subseteq Manifest
BY DEF TypeOK, DocRow, JobRow, Process, Manifest

LEMMA Indices ==
    ASSUME NEW j \in Jobs
    PROVE  j[1] \in Revs /\ j[2] \in Models /\ DocOf[j[1]] \in Docs
BY ConstantsOK DEF Jobs

LEMMA NoRowType == NoRow \in JobRow /\ NoRow.status = "none" /\ NoRow.attempt = 0
BY ConstantsOK DEF NoRow, JobRow, JobStatus

LEMMA SettledType ==
    ASSUME NEW row \in JobRow, NEW status \in JobStatus
    PROVE  /\ Settled(row, status) \in JobRow
           /\ Settled(row, status).status = status
           /\ Settled(row, status).attempt = row.attempt
BY DEF Settled, JobRow

LEMMA DownType == Down \in Process /\ Down.pc = "down"
BY ConstantsOK DEF Down, Process

LEMMA IdleType ==
    ASSUME TypeOK, NEW x \in Runners
    PROVE  /\ Idle(x) \in [Runners -> Process]
           /\ Idle(x)[x].pc = "idle"
           /\ \A y \in Runners \ {x} : Idle(x)[y] = runner[y]
<1> DEFINE idle == [Down EXCEPT !.pc = "idle", !.model = runner[x].model,
                                !.provider = runner[x].provider]
<1>1. runner[x] \in Process /\ runner \in [Runners -> Process]
  BY Rows
<1>2. idle \in Process /\ idle.pc = "idle"
  BY <1>1, DownType DEF Process
<1>3. Idle(x) = [runner EXCEPT ![x] = idle]
  BY DEF Idle
<1> HIDE DEF idle
<1> QED
  BY <1>1, <1>2, <1>3

\* A process that only moves on
LEMMA AtType ==
    ASSUME TypeOK, NEW x \in Runners, NEW pc \in Working
    PROVE  /\ At(x, pc) \in [Runners -> Process]
           /\ At(x, pc)[x].pc = pc /\ At(x, pc)[x].job = runner[x].job
           /\ At(x, pc)[x].attempt = runner[x].attempt
           /\ At(x, pc)[x].seen = runner[x].seen
           /\ \A y \in Runners \ {x} : At(x, pc)[y] = runner[y]
BY Rows DEF At, Process

LEMMA WorkVersionType ==
    ASSUME TypeInv, NEW x \in Runners, runner[x].pc \in Working
    PROVE  WorkVersion(x) \in Versions
BY DEF TypeInv, WorkTyped, WorkVersion, Versions

\* The rows an enqueue leaves: those that were there, and new pending ones.
LEMMA PreviewRows ==
    ASSUME TypeOK, NEW rows, NEW model
    PROVE  LET new == WithPreviews(rows, model) IN
           /\ new \in [Jobs -> JobRow]
           /\ \A j \in Jobs : new[j] = job[j]
                \/ /\ job[j].status = "none"
                   /\ new[j].status = "pending" /\ new[j].attempt = 0
                   /\ \E row \in rows : row.preview # None /\ j[1] = row.preview
<1>1. /\ [NoRow EXCEPT !.status = "pending"] \in JobRow
      /\ [NoRow EXCEPT !.status = "pending"].status = "pending"
      /\ [NoRow EXCEPT !.status = "pending"].attempt = 0
  BY NoRowType DEF JobRow, JobStatus
<1> QED
  BY <1>1, Rows DEF WithPreviews, Enqueueable

LEMMA TypeParse ==
    ASSUME TypeInv, NEW d \in Docs, UserStep(d)
    PROVE  TypeInv'
<1>1. doc[d] \in DocRow /\ doc \in [Docs -> DocRow] /\ parsing \in [Docs -> BOOLEAN]
  BY Rows DEF TypeInv, TypeOK
<1>2. \A status \in DocStatus : [doc EXCEPT ![d].status = status] \in [Docs -> DocRow]
  BY <1>1 DEF DocRow
<1>3. ASSUME ParseStep(d) PROVE doc' \in [Docs -> DocRow]
  <2>1. {"queued", "processing", "failed", "partial_failed", "parsed_index_blocked"}
          \subseteq DocStatus
    BY DEF DocStatus
  <2>2. ASSUME NEW r \in Revs, DocOf[r] = d, ParseSucceeds(r)
        PROVE  doc' \in [Docs -> DocRow]
    BY <1>1, <2>1, <2>2 DEF ParseSucceeds, DocRow
  <2>3. \/ \E status \in DocStatus : doc' = [doc EXCEPT ![d].status = status]
        \/ \E r \in Revs : DocOf[r] = d /\ ParseSucceeds(r)
    BY <1>3, <2>1 DEF ParseStep, ParseMoves, ParseFails, Reparse
  <2> QED
    BY <1>2, <2>2, <2>3
<1>4. ASSUME ParseStep(d) PROVE parsing' \in [Docs -> BOOLEAN]
  BY <1>1, <1>4 DEF ParseStep, ParseMoves, ParseFails, ParseSucceeds, Reparse
<1>5. ASSUME ParseStep(d)
      PROVE  revision' \in [Revs -> {"unborn", "stored", "purged"}]
  <2>1. revision \in [Revs -> {"unborn", "stored", "purged"}]
    BY DEF TypeInv, TypeOK
  <2>2. revision' = revision \/ \E r \in Revs : revision' = [revision EXCEPT ![r] = "stored"]
    BY <1>5 DEF ParseStep, ParseMoves, ParseFails, ParseSucceeds, Reparse
  <2> QED
    BY <2>1, <2>2
<1>6. CASE ParseStep(d)
  <2>1. UNCHANGED <<deletion, job, embedded, indexVars, runner, crashes>>
    BY <1>6 DEF ParseStep, ParseMoves, ParseFails, ParseSucceeds, Reparse
  <2> QED
    BY <1>3, <1>4, <1>5, <1>6, <2>1 DEF TypeInv, TypeOK, WorkTyped, indexVars, DocRow
<1>7. CASE Delete(d)
  <2>1. DeletedRow(doc[d]) \in DocRow
    BY <1>1 DEF DeletedRow, DocRow, DocStatus
  <2>2. doc' \in [Docs -> DocRow] /\ parsing' \in [Docs -> BOOLEAN]
    BY <1>1, <1>7, <2>1 DEF Delete
  <2> QED
    BY <1>7, <2>2 DEF Delete, TypeInv, TypeOK, WorkTyped, indexVars, DocRow
<1>8. ASSUME NEW model \in Models, Approve(d, model) PROVE TypeInv'
  <2>1. doc' \in [Docs -> DocRow]
    BY <1>1, <1>8 DEF Approve, DocRow
  <2>2. job' \in [Jobs -> JobRow]
    BY <1>8, PreviewRows DEF Approve, TypeInv
  <2> QED
    BY <1>8, <2>1, <2>2
       DEF Approve, TypeInv, TypeOK, WorkTyped, indexVars, DocRow, JobRow
<1> QED
  BY <1>6, <1>7, <1>8 DEF UserStep

\* A step that replaces the process of x by an idle one, or ends it
LEMMA WorkKept ==
    ASSUME TypeInv, NEW x \in Runners, runner' \in [Runners -> Process],
           runner'[x].pc \in Working =>
              runner'[x].job \in Jobs /\ runner'[x].attempt \in 1..MaxAttempt,
           \A y \in Runners \ {x} : runner'[y] = runner[y]
    PROVE  WorkTyped'
BY DEF TypeInv, WorkTyped

\* Only the process of x moves on, from one working step to the next.
LEMMA MovesOn ==
    ASSUME TypeInv, NEW x \in Runners, NEW pc \in Working, runner[x].pc \in Working,
           runner' = At(x, pc)
    PROVE  runner' \in [Runners -> Process] /\ WorkTyped'
BY AtType, WorkKept DEF TypeInv, WorkTyped

LEMMA TypeWork ==
    ASSUME TypeInv, NEW x \in Runners, WorkStep(x)
    PROVE  TypeInv'
<1>1. /\ doc \in [Docs -> DocRow] /\ job \in [Jobs -> JobRow]
      /\ runner \in [Runners -> Process] /\ runner[x] \in Process
      /\ manifests \subseteq Manifest
  BY Rows DEF TypeInv
<1>2. Working = {"claimed", "embedded", "read", "built", "registered", "failing", "blocking"}
  BY DEF Working
<1>3. ASSUME NEW j \in Jobs, Claim(x, j) PROVE TypeInv'
  <2> DEFINE rows == WithPreviews(AllDocuments, runner[x].model)
             stale == doc[DocOf[j[1]]].preview # j[1]
             failed == [rows[j] EXCEPT !.status = "failed", !.expired = FALSE]
             running == [status |-> "running", attempt |-> NextAttempt(rows[j]),
                         runner |-> x, expired |-> FALSE]
  <2>1. rows \in [Jobs -> JobRow] /\ rows[j] \in JobRow
    BY PreviewRows DEF TypeInv
  <2>2. rows[j].attempt < MaxAttempt
    BY <1>3 DEF Claim
  <2>3. job' = [rows EXCEPT ![j] = IF stale THEN failed ELSE running]
    BY <1>3 DEF Claim
  <2>4. doc' = IF stale THEN doc ELSE [doc EXCEPT ![DocOf[j[1]]].status = "indexing"]
    BY <1>3 DEF Claim
  <2>5. runner' = IF stale THEN runner
                  ELSE [runner EXCEPT ![x].pc = "claimed", ![x].job = j,
                                      ![x].attempt = NextAttempt(rows[j])]
    BY <1>3 DEF Claim
  <2> HIDE DEF rows, stale
  <2>6. NextAttempt(rows[j]) \in 1..MaxAttempt /\ NextAttempt(rows[j]) \in 0..MaxAttempt
    BY <2>1, <2>2, ConstantsOK DEF NextAttempt, JobRow
  <2>7. failed \in JobRow /\ running \in JobRow
    BY <2>1, <2>6 DEF JobRow, JobStatus
  <2>8. job' \in [Jobs -> JobRow]
    BY <2>1, <2>3, <2>7
  <2>9. doc' \in [Docs -> DocRow]
    <3>1. \A d \in Docs : [doc[d] EXCEPT !.status = "indexing"] \in DocRow
      BY <1>1 DEF DocRow, DocStatus
    <3> QED
      BY <1>1, <2>4, <3>1
  <2>10. /\ runner' \in [Runners -> Process] /\ WorkTyped'
    <3>1. CASE stale
      BY <1>1, <2>5, <3>1 DEF TypeInv, WorkTyped
    <3>2. CASE ~stale
      <4> DEFINE new == [runner[x] EXCEPT !.pc = "claimed", !.job = j,
                                          !.attempt = NextAttempt(rows[j])]
      <4>1. /\ new \in Process /\ new.job = j /\ new.attempt = NextAttempt(rows[j])
        BY <1>1, <1>2, <2>6 DEF Process
      <4>2. runner' = [runner EXCEPT ![x] = new]
        BY <1>1, <2>5, <3>2
      <4> HIDE DEF new
      <4> QED
        BY <1>1, <2>6, <4>1, <4>2, WorkKept
    <3> QED
      BY <3>1, <3>2
  <2> QED
    BY <1>3, <2>8, <2>9, <2>10
       DEF Claim, TypeInv, TypeOK, indexVars, DocRow, JobRow, Process
<1>4. CASE Embed(x)
  <2>1. runner' \in [Runners -> Process] /\ WorkTyped'
    BY <1>2, <1>4, MovesOn DEF Embed
  <2>2. embedded' \subseteq Jobs
    BY <1>2, <1>4 DEF Embed, TypeInv, TypeOK, WorkTyped
  <2> QED
    BY <1>4, <2>1, <2>2 DEF Embed, TypeInv, TypeOK, docVars, indexVars, Process
<1>5. CASE ProviderFails(x) \/ StepRaises(x)
  <2>1. runner' \in [Runners -> Process] /\ WorkTyped'
    BY <1>2, <1>5, MovesOn DEF ProviderFails, StepRaises, Raises
  <2>2. UNCHANGED <<docVars, indexVars, job, embedded, crashes>>
    BY <1>5 DEF ProviderFails, StepRaises
  <2> QED
    BY <2>1, <2>2 DEF TypeInv, TypeOK, docVars, indexVars, Process
<1>6. CASE ReadDocuments(x)
  <2> DEFINE seen == Scope(runner[x].job) \ Chunkless
             new == [runner[x] EXCEPT !.pc = "read", !.seen = seen]
  <2>1. runner[x].job \in Jobs /\ runner[x].attempt \in 1..MaxAttempt
    BY <1>2, <1>6 DEF ReadDocuments, TypeInv, WorkTyped
  <2>2. seen \subseteq Revs
    BY <1>1, <2>1, Indices DEF Scope, Selected, DocRow
  <2>3. new \in Process /\ new.job = runner[x].job /\ new.attempt = runner[x].attempt
    BY <1>1, <1>2, <2>2 DEF Process
  <2>4. runner' = [runner EXCEPT ![x] = new]
    BY <1>1, <1>6 DEF ReadDocuments
  <2> HIDE DEF new
  <2>5. runner' \in [Runners -> Process] /\ WorkTyped'
    BY <1>1, <2>1, <2>3, <2>4, WorkKept
  <2> QED
    BY <1>6, <2>5 DEF ReadDocuments, TypeInv, TypeOK, docVars, indexVars, Process
<1>7. CASE Build(x)
  <2>1. runner' \in [Runners -> Process] /\ WorkTyped'
    BY <1>2, <1>7, MovesOn DEF Build
  <2>2. WorkVersion(x) \in Versions /\ runner[x].seen \in SUBSET Revs
    BY <1>1, <1>2, <1>7, WorkVersionType DEF Build, Process
  <2>3. directories' \subseteq [version : Versions, revs : SUBSET Revs]
    BY <1>7, <2>2 DEF Build, TypeInv, TypeOK
  <2> QED
    BY <1>7, <2>1, <2>3 DEF Build, TypeInv, TypeOK, docVars, Process
<1>8. CASE Register(x)
  <2>1. runner' \in [Runners -> Process] /\ WorkTyped'
    BY <1>2, <1>8, MovesOn DEF Register
  <2>2. WorkVersion(x) \in Versions /\ runner[x].seen \in SUBSET Revs
    BY <1>1, <1>2, <1>8, WorkVersionType DEF Register, Process
  <2>3. manifests' \subseteq Manifest
    BY <1>1, <1>8, <2>2 DEF Register, Manifest
  <2> QED
    BY <1>8, <2>1, <2>3 DEF Register, TypeInv, TypeOK, docVars, Process, Manifest
<1>9. CASE Activate(x)
  <2> DEFINE j == runner[x].job
  <2>1. j \in Jobs /\ WorkVersion(x) \in Versions
    BY <1>2, <1>9, WorkVersionType DEF Activate, TypeInv, WorkTyped
  <2>2. runner' \in [Runners -> Process] /\ WorkTyped'
    BY <1>9, IdleType, WorkKept DEF Activate, TypeInv, Working
  <2>3. \A m \in manifests : Supersede(m) \in Manifest
                             /\ [m EXCEPT !.status = "active"] \in Manifest
    BY <1>1 DEF Supersede, Manifest
  <2>4. manifests' \subseteq Manifest
    BY <1>9, <2>3 DEF Activate, Candidate
  <2>5. Settled(job[j], "succeeded") \in JobRow
    BY <1>1, <2>1, SettledType DEF JobStatus
  <2>6. job' \in [Jobs -> JobRow]
    BY <1>1, <1>9, <2>5 DEF Activate
  <2>7. doc' \in [Docs -> DocRow]
    BY <1>1, <1>9, <2>1, Indices DEF Activate, DocRow, DocStatus
  <2> QED
    BY <1>9, <2>1, <2>2, <2>4, <2>6, <2>7
       DEF Activate, TypeInv, TypeOK, Process, Manifest, JobRow, DocRow
<1>10. CASE GiveUp(x)
  <2> DEFINE j == runner[x].job
  <2>1. j \in Jobs
    BY <1>2, <1>10 DEF GiveUp, TypeInv, WorkTyped
  <2>2. runner' \in [Runners -> Process] /\ WorkTyped'
    BY <1>10, IdleType, WorkKept DEF GiveUp, TypeInv, Working
  <2>3. PICK outcome \in {"failed", "index_blocked_provider"} :
          job' = [job EXCEPT ![j] = Settled(job[j], outcome)]
    BY <1>1, <1>10, <2>1 DEF GiveUp
  <2>4. Settled(job[j], outcome) \in JobRow
    BY <1>1, <2>1, SettledType DEF JobStatus
  <2>5. job' \in [Jobs -> JobRow]
    BY <1>1, <2>3, <2>4
  <2>6. doc' \in [Docs -> DocRow]
    <3>1. \/ doc' = doc
          \/ doc' = [doc EXCEPT ![DocOf[j[1]]].status = "parsed_index_blocked"]
      BY <1>10 DEF GiveUp
    <3> QED
      BY <1>1, <3>1 DEF DocRow, DocStatus
  <2> QED
    BY <1>10, <2>2, <2>5, <2>6
       DEF GiveUp, TypeInv, TypeOK, indexVars, Process, JobRow, DocRow
<1>11. CASE Escapes(x)
  <2>1. runner' \in [Runners -> Process] /\ WorkTyped'
    BY <1>1, <1>11, DownType, WorkKept DEF Escapes, Working
  <2> QED
    BY <1>11, <2>1 DEF Escapes, TypeInv, TypeOK, docVars, indexVars, Process
<1> QED
  BY <1>3, <1>4, <1>5, <1>6, <1>7, <1>8, <1>9, <1>10, <1>11 DEF WorkStep

LEMMA TypeRest ==
    ASSUME TypeInv,
           \/ \E d \in Docs : CleanupStep(d)
           \/ \E x \in Runners : Restart(x) \/ Crash(x)
           \/ \E j \in Jobs : LeaseExpires(j)
           \/ Query
           \/ UNCHANGED vars
    PROVE  TypeInv'
<1>1. /\ job \in [Jobs -> JobRow] /\ runner \in [Runners -> Process]
      /\ manifests \subseteq Manifest
  BY Rows DEF TypeInv
<1>2. ASSUME NEW d \in Docs, Cleanup(d) PROVE TypeInv'
  <2>1. job' \in [Jobs -> JobRow]
    BY <1>1, <1>2, NoRowType DEF Cleanup
  <2>2. revision' \in [Revs -> {"unborn", "stored", "purged"}]
        /\ deletion' \in [Docs -> {"none", "pending", "retry_wait", "completed"}]
    BY <1>2 DEF Cleanup, TypeInv, TypeOK
  <2>3. /\ manifests' \subseteq Manifest /\ active' \in Versions \cup {None}
        /\ directories' \subseteq directories /\ embedded' \subseteq embedded
    BY <1>1, <1>2 DEF Cleanup, Remaining, ActiveAfter, TypeInv, TypeOK
  <2> QED
    BY <1>2, <2>1, <2>2, <2>3 DEF Cleanup, TypeInv, TypeOK, WorkTyped, JobRow, Manifest
<1>3. ASSUME NEW d \in Docs, CleanupRollsBack(d) PROVE TypeInv'
  BY <1>3 DEF CleanupRollsBack, Remaining, TypeInv, TypeOK, WorkTyped
<1>4. ASSUME NEW x \in Runners, Restart(x) PROVE TypeInv'
  <2>1. PICK model \in Models, provider \in BOOLEAN : Start(x, model, provider)
    BY <1>4 DEF Restart
  <2> DEFINE new == [Down EXCEPT !.pc = "idle", !.model = model, !.provider = provider]
  <2>2. new \in Process /\ new.pc = "idle"
    BY DownType DEF Process
  <2>3. runner' = [runner EXCEPT ![x] = new]
    BY <2>1 DEF Start
  <2> HIDE DEF new
  <2>4. runner' \in [Runners -> Process] /\ WorkTyped'
    BY <1>1, <2>2, <2>3, WorkKept DEF Working
  <2>5. job' \in [Jobs -> JobRow]
    BY <1>1, <2>1, SettledType DEF Start, JobStatus
  <2> QED
    BY <2>1, <2>4, <2>5
       DEF Start, TypeInv, TypeOK, docVars, indexVars, Process, JobRow
<1>5. ASSUME NEW x \in Runners, Crash(x) PROVE TypeInv'
  <2>1. runner' \in [Runners -> Process] /\ WorkTyped'
    BY <1>1, <1>5, DownType, WorkKept DEF Crash, Working
  <2>2. crashes' \in 0..MaxCrashes
    BY <1>5, ConstantsOK DEF Crash, TypeInv, TypeOK
  <2> QED
    BY <1>5, <2>1, <2>2 DEF Crash, TypeInv, TypeOK, docVars, indexVars, Process
<1>6. ASSUME NEW j \in Jobs, LeaseExpires(j) PROVE TypeInv'
  <2>1. job' \in [Jobs -> JobRow]
    BY <1>1, <1>6 DEF LeaseExpires, JobRow
  <2> QED
    BY <1>6, <2>1 DEF LeaseExpires, TypeInv, TypeOK, WorkTyped, docVars, indexVars, JobRow
<1>7. CASE Query
  <2>1. active \in Versions
    BY <1>1, <1>7 DEF Query, Manifest
  <2> QED
    BY <1>7, <2>1 DEF Query, TypeInv, TypeOK, WorkTyped, docVars
<1>8. CASE UNCHANGED vars
  BY <1>8 DEF vars, docVars, indexVars, TypeInv, TypeOK, WorkTyped
<1> QED
  BY <1>2, <1>3, <1>4, <1>5, <1>6, <1>7, <1>8 DEF CleanupStep

LEMMA TypeInit == Init => TypeInv
<1> SUFFICES ASSUME Init PROVE TypeInv
  OBVIOUS
<1>1. job \in [Jobs -> JobRow] /\ runner \in [Runners -> Process]
  BY NoRowType, DownType DEF Init
<1>2. doc \in [Docs -> DocRow]
  BY DEF Init, DocRow, DocStatus
<1>3. /\ parsing \in [Docs -> BOOLEAN] /\ revision \in [Revs -> {"unborn", "stored", "purged"}]
      /\ deletion \in [Docs -> {"none", "pending", "retry_wait", "completed"}]
      /\ active \in Versions \cup {None} /\ crashes \in 0..MaxCrashes
      /\ embedded = {} /\ manifests = {} /\ directories = {} /\ traced = {}
  BY ConstantsOK DEF Init
<1>4. WorkTyped
  BY DownType DEF Init, WorkTyped, Working
<1> QED
  BY <1>1, <1>2, <1>3, <1>4 DEF TypeInv, TypeOK, JobRow, Process, DocRow

LEMMA TypeNext == TypeInv /\ [Next]_vars => TypeInv'
BY TypeParse, TypeWork, TypeRest DEF Next

-----------------------------------------------------------------------------
(* 2. Documents and their revisions                                        *)

\* A preview is a stored revision of its document, an active revision is of an approved
\* one, and a deleted document has neither, nor a parse job that could bring one.
RowOK(d) ==
    /\ doc[d].preview # None =>
         revision[doc[d].preview] = "stored" /\ DocOf[doc[d].preview] = d
    /\ doc[d].current # None => doc[d].approved /\ DocOf[doc[d].current] = d
    /\ Deleted(d) => ~parsing[d] /\ doc[d].preview = None /\ doc[d].current = None

DocsOK == \A d \in Docs : RowOK(d)

\* Most steps change the status of a document that is not deleted, or nothing.
StatusOnly(d) ==
    /\ doc'[d].approved = doc[d].approved /\ doc'[d].preview = doc[d].preview
    /\ doc'[d].current = doc[d].current
    /\ Deleted(d)' <=> Deleted(d)

LEMMA StatusOnlyKeeps ==
    ASSUME NEW d \in Docs, RowOK(d), StatusOnly(d), parsing'[d] => ~Deleted(d),
           revision' = revision
    PROVE  RowOK(d)'
BY DEF RowOK, StatusOnly

LEMMA DocsParse ==
    ASSUME TypeInv, DocsOK, NEW d \in Docs, UserStep(d)
    PROVE  DocsOK'
<1>1. /\ doc \in [Docs -> DocRow] /\ doc[d] \in DocRow /\ parsing \in [Docs -> BOOLEAN]
      /\ revision \in [Revs -> {"unborn", "stored", "purged"}]
  BY Rows DEF TypeInv, TypeOK
<1>2. parsing[d] => ~Deleted(d)
  BY DEF DocsOK, RowOK
<1>3. ASSUME NEW status \in {"queued", "processing", "failed", "partial_failed"},
             doc' = [doc EXCEPT ![d].status = status], ~Deleted(d), revision' = revision,
             \A e \in Docs \ {d} : parsing'[e] = parsing[e]
      PROVE  DocsOK'
  <2>1. \A e \in Docs : StatusOnly(e)
    BY <1>1, <1>3 DEF StatusOnly, Deleted, DocRow
  <2>2. \A e \in Docs : parsing'[e] => ~Deleted(e)
    BY <1>3 DEF DocsOK, RowOK
  <2> QED
    BY <1>3, <2>1, <2>2, StatusOnlyKeeps DEF DocsOK
<1>4. ASSUME NEW status \in {"queued", "processing"}, ParseMoves(d, status) PROVE DocsOK'
  BY <1>2, <1>3, <1>4 DEF ParseMoves
<1>5. ASSUME NEW status \in {"failed", "partial_failed"}, ParseFails(d, status)
      PROVE  DocsOK'
  BY <1>1, <1>2, <1>3, <1>5 DEF ParseFails
<1>6. CASE Reparse(d)
  BY <1>1, <1>3, <1>6 DEF Reparse, Included
<1>7. ASSUME NEW r \in Revs, DocOf[r] = d, ParseSucceeds(r) PROVE DocsOK'
  <2> DEFINE new == [doc[d] EXCEPT !.preview = r, !.status = "parsed_index_blocked"]
  <2>1. /\ new.preview = r /\ new.status = "parsed_index_blocked"
        /\ new.current = doc[d].current /\ new.approved = doc[d].approved
    BY <1>1 DEF DocRow
  <2>2. doc' = [doc EXCEPT ![d] = new]
    BY <1>1, <1>7 DEF ParseSucceeds
  <2>3. /\ revision' = [revision EXCEPT ![r] = "stored"] /\ revision[r] = "unborn"
        /\ parsing' = [parsing EXCEPT ![d] = FALSE]
    BY <1>7 DEF ParseSucceeds
  <2> HIDE DEF new
  <2>4. RowOK(d)'
    BY <1>1, <1>7, <2>1, <2>2, <2>3, ConstantsOK DEF RowOK, Deleted, DocsOK
  <2>5. \A e \in Docs \ {d} : RowOK(e)'
    <3>1. ASSUME NEW e \in Docs \ {d} PROVE doc'[e] = doc[e] /\ parsing'[e] = parsing[e]
      BY <1>1, <2>2, <2>3
    <3>2. \A q \in Revs : revision[q] = "stored" => revision'[q] = "stored"
      BY <1>1, <2>3
    <3>3. \A e \in Docs : doc[e].preview \in Revs \cup {None}
      BY <1>1 DEF DocRow
    <3> QED
      BY <3>1, <3>2, <3>3 DEF RowOK, Deleted, DocsOK
  <2> QED
    BY <2>4, <2>5 DEF DocsOK
<1>8. ASSUME NEW model \in Models, Approve(d, model) PROVE DocsOK'
  <2> DEFINE new == [doc[d] EXCEPT !.approved = TRUE]
  <2>1. /\ new.preview = doc[d].preview /\ new.status = doc[d].status
        /\ new.current = doc[d].current /\ new.approved
    BY <1>1 DEF DocRow
  <2>2. doc' = [doc EXCEPT ![d] = new] /\ UNCHANGED <<parsing, revision>>
    BY <1>1, <1>8 DEF Approve
  <2> HIDE DEF new
  <2> QED
    BY <1>1, <2>1, <2>2 DEF DocsOK, RowOK, Deleted
<1>9. CASE Delete(d)
  <2>1. LET new == DeletedRow(doc[d]) IN
          new.preview = None /\ new.current = None /\ new.status = "deleting"
    BY <1>1 DEF DeletedRow, DocRow
  <2>2. /\ doc' = [doc EXCEPT ![d] = DeletedRow(doc[d])] /\ revision' = revision
        /\ parsing' = [parsing EXCEPT ![d] = FALSE]
    BY <1>9 DEF Delete
  <2> QED
    BY <1>1, <2>1, <2>2 DEF DocsOK, RowOK, Deleted
<1> QED
  BY <1>4, <1>5, <1>6, <1>7, <1>8, <1>9 DEF UserStep, ParseStep

LEMMA DocsWork ==
    ASSUME TypeInv, DocsOK, NEW x \in Runners, WorkStep(x)
    PROVE  DocsOK'
<1>1. /\ doc \in [Docs -> DocRow] /\ \A d \in Docs : doc[d] \in DocRow
      /\ runner[x].pc \in Working => runner[x].job \in Jobs
  BY Rows DEF TypeInv, WorkTyped
<1>2. UNCHANGED <<parsing, revision>>
  BY DEF WorkStep, Claim, Embed, ProviderFails, ReadDocuments, Build, Register, Activate,
         StepRaises, GiveUp, Escapes, docVars
<1>3. ASSUME \A d \in Docs : StatusOnly(d) PROVE DocsOK'
  BY <1>2, <1>3, StatusOnlyKeeps DEF DocsOK, RowOK
<1>4. ASSUME NEW d \in Docs, ~Deleted(d), NEW status, status # "deleting",
             doc' \in {doc, [doc EXCEPT ![d].status = status]}
      PROVE  DocsOK'
  <2>1. \A e \in Docs : StatusOnly(e)
    BY <1>1, <1>4 DEF StatusOnly, Deleted, DocRow
  <2> QED
    BY <1>3, <2>1
<1>5. ASSUME NEW j \in Jobs, Claim(x, j) PROVE DocsOK'
  <2>1. ~Deleted(DocOf[j[1]]) /\ DocOf[j[1]] \in Docs
    BY <1>5, Indices DEF Claim, Claimable, Included
  <2>2. doc' \in {doc, [doc EXCEPT ![DocOf[j[1]]].status = "indexing"]}
    BY <1>5 DEF Claim
  <2> QED
    BY <1>4, <2>1, <2>2
<1>6. CASE GiveUp(x)
  <2> DEFINE j == runner[x].job
             d == DocOf[j[1]]
  <2>1. j \in Jobs /\ d \in Docs /\ j[1] \in Revs
    BY <1>1, <1>6, Indices DEF GiveUp, Working
  <2>2. CASE doc[d].preview = j[1]
    <3>1. ~Deleted(d)
      BY <2>1, <2>2, ConstantsOK DEF DocsOK, RowOK
    <3>2. doc' = [doc EXCEPT ![d].status = "parsed_index_blocked"]
      BY <1>6, <2>2 DEF GiveUp
    <3> HIDE DEF d
    <3> QED
      BY <1>4, <2>1, <3>1, <3>2
  <2>3. CASE doc[d].preview # j[1]
    <3>1. doc' = doc
      BY <1>6, <2>3 DEF GiveUp
    <3> QED
      BY <1>3, <3>1 DEF StatusOnly, Deleted
  <2> QED
    BY <2>2, <2>3
<1>7. CASE Activate(x)
  <2> DEFINE j == runner[x].job
             d == DocOf[j[1]]
             new == [doc[d] EXCEPT !.current = j[1], !.preview = None, !.status = "ready"]
  <2>1. j \in Jobs /\ d \in Docs /\ j[1] \in Revs /\ Included(d)
    BY <1>1, <1>7, Indices DEF Activate, MayActivate, Working
  <2>2. /\ new.current = j[1] /\ new.preview = None /\ new.status = "ready"
        /\ new.approved = doc[d].approved
    BY <1>1, <2>1 DEF DocRow
  <2>3. doc' = [doc EXCEPT ![d] = new]
    BY <1>7 DEF Activate
  <2> HIDE DEF new
  <2> QED
    BY <1>1, <1>2, <2>1, <2>2, <2>3 DEF DocsOK, RowOK, Deleted, Included
<1>8. CASE Embed(x) \/ ProviderFails(x) \/ ReadDocuments(x) \/ Build(x) \/ Register(x)
           \/ StepRaises(x) \/ Escapes(x)
  <2>1. doc' = doc
    BY <1>8 DEF Embed, ProviderFails, ReadDocuments, Build, Register, StepRaises, Escapes,
                docVars
  <2> QED
    BY <1>3, <2>1 DEF StatusOnly, Deleted
<1> QED
  BY <1>5, <1>6, <1>7, <1>8 DEF WorkStep

LEMMA DocsRest ==
    ASSUME TypeInv, DocsOK,
           \/ \E d \in Docs : CleanupStep(d)
           \/ \E x \in Runners : Restart(x) \/ Crash(x)
           \/ \E j \in Jobs : LeaseExpires(j)
           \/ Query
           \/ UNCHANGED vars
    PROVE  DocsOK'
<1>1. ASSUME NEW d \in Docs, Cleanup(d) PROVE DocsOK'
  <2>1. UNCHANGED <<doc, parsing>> /\ Deleted(d)
    BY <1>1 DEF Cleanup
  <2>2. \A r \in Revs : DocOf[r] # d => revision'[r] = revision[r]
    BY <1>1 DEF Cleanup
  <2>3. \A e \in Docs : doc[e].preview \in Revs \cup {None}
    BY Rows DEF TypeInv, DocRow
  <2> QED
    BY <2>1, <2>2, <2>3 DEF DocsOK, RowOK, Deleted
<1>2. ASSUME UNCHANGED <<doc, parsing, revision>> PROVE DocsOK'
  BY <1>2 DEF DocsOK, RowOK, Deleted
<1>3. ASSUME ~ \E d \in Docs : Cleanup(d) PROVE UNCHANGED <<doc, parsing, revision>>
  BY <1>3 DEF CleanupStep, CleanupRollsBack, Restart, Start, Crash, LeaseExpires, Query,
              vars, docVars
<1> QED
  BY <1>1, <1>2, <1>3

LEMMA DocsNext == TypeInv /\ DocsOK /\ [Next]_vars => DocsOK'
BY DocsParse, DocsWork, DocsRest DEF Next

-----------------------------------------------------------------------------
(* 3. Versions                                                             *)

\* An attempt that its job has reached; a job without a row will never have one again.
Past(v) ==
    LET j == v.job IN
    IF job[j].status = "none" THEN revision[j[1]] = "purged" ELSE v.attempt <= job[j].attempt

\* x is on its way to register an index, and would be obeyed.
Builds(x) == runner[x].pc \in {"claimed", "embedded", "read", "built"} /\ Holds(x)

\* No two manifests have the version_id <job>-attempt-<n>, and none will.
VersionsOK ==
    /\ \A m \in manifests : Past(m.version)
    /\ \A x \in Runners : Builds(x) => \A m \in manifests : m.version # WorkVersion(x)
    /\ \A m, n \in manifests : m.version = n.version => m = n

\* Rows are not lost, and a new one is not of a purged revision.
RowsStay == \A j \in Jobs :
    \/ /\ job[j].status # "none" /\ job'[j].status # "none"
       /\ job'[j].attempt >= job[j].attempt
    \/ job[j].status = "none" /\ job'[j].status = "none"
    \/ job[j].status = "none" /\ revision[j[1]] # "purged"

PastStay == \A v \in Versions : Past(v) => Past(v)'

PurgedStay == \A r \in Revs : revision[r] = "purged" => revision'[r] = "purged"

BuildersStay == \A x \in Runners :
    Builds(x)' => Builds(x) /\ WorkVersion(x)' = WorkVersion(x)

LEMMA PastStays ==
    ASSUME TypeOK, TypeOK', RowsStay, PurgedStay
    PROVE  PastStay
<1> SUFFICES ASSUME NEW v \in Versions, Past(v) PROVE Past(v)'
  BY DEF PastStay
<1> DEFINE j == v.job
<1>1. /\ j \in Jobs /\ j[1] \in Revs /\ v.attempt \in Nat
      /\ job[j].attempt \in Nat /\ job'[j].attempt \in Nat
  <2>1. j \in Jobs /\ v.attempt \in 1..MaxAttempt
    BY DEF Versions
  <2>2. job[j] \in JobRow /\ job'[j] \in JobRow
    BY <2>1 DEF TypeOK, JobRow
  <2> QED
    BY <2>1, <2>2, Indices, ConstantsOK DEF JobRow
<1>2. CASE job[j].status = "none"
  BY <1>1, <1>2 DEF Past, RowsStay, PurgedStay
<1>3. CASE job[j].status # "none"
  BY <1>1, <1>3 DEF Past, RowsStay
<1> QED
  BY <1>2, <1>3

LEMMA VersionsKept ==
    ASSUME TypeOK, TypeOK', VersionsOK, RowsStay, PurgedStay, BuildersStay,
           manifests' \subseteq manifests
    PROVE  VersionsOK' /\ PastStay
<1>1. \A m \in manifests' : Past(m.version)'
  BY PastStays, Rows DEF VersionsOK, PastStay, Manifest
<1>2. \A x \in Runners : Builds(x)' => \A m \in manifests' : m.version # WorkVersion(x)'
  BY DEF VersionsOK, BuildersStay
<1>3. \A m, n \in manifests' : m.version = n.version => m = n
  BY DEF VersionsOK
<1> QED
  BY <1>1, <1>2, <1>3, PastStays DEF VersionsOK

\* No row begins to run, and a process that changes is not on its way any more.
LEMMA BuildersKept ==
    ASSUME TypeInv, TypeInv',
           \A j \in Jobs : job'[j].status = "running" =>
              /\ job[j].status = "running" /\ job'[j].runner = job[j].runner
              /\ job'[j].attempt = job[j].attempt,
           \A x \in Runners :
              runner'[x] = runner[x] \/ runner'[x].pc \notin {"claimed", "embedded", "read", "built"}
    PROVE  BuildersStay
<1> SUFFICES ASSUME NEW x \in Runners, Builds(x)'
             PROVE  Builds(x) /\ WorkVersion(x)' = WorkVersion(x)
  BY DEF BuildersStay
<1>1. runner'[x] = runner[x] /\ runner[x].pc \in {"claimed", "embedded", "read", "built"}
  BY DEF Builds
<1>2. runner[x].job \in Jobs
  BY <1>1 DEF TypeInv, WorkTyped, Working
<1>3. Holds(x)
  BY <1>1, <1>2 DEF Builds, Holds
<1> QED
  BY <1>1, <1>3 DEF Builds, WorkVersion

\* The processes move on; the rows stay as they are.
LEMMA OnTheWay ==
    ASSUME TypeInv, NEW x \in Runners, NEW pc \in Working, runner' = At(x, pc), job' = job,
           runner[x].pc \in {"claimed", "embedded", "read"}
    PROVE  BuildersStay
BY AtType DEF TypeInv, BuildersStay, Builds, Holds, WorkVersion

LEMMA NewRows ==
    ASSUME TypeInv, DocsOK, NEW rows, NEW model,
           \A row \in rows : \E d \in Docs : row.preview = doc[d].preview
    PROVE  \A j \in Jobs : WithPreviews(rows, model)[j] = job[j]
             \/ /\ job[j].status = "none" /\ revision[j[1]] # "purged"
                /\ WithPreviews(rows, model)[j].status = "pending"
                /\ WithPreviews(rows, model)[j].attempt = 0
BY PreviewRows DEF TypeInv, DocsOK, RowOK

LEMMA AttemptsAreNumbers ==
    ASSUME TypeOK, NEW j \in Jobs
    PROVE  job[j].attempt \in Nat
BY Rows, ConstantsOK DEF JobRow

LEMMA VersionsUser ==
    ASSUME TypeInv, TypeInv', DocsOK, VersionsOK, NEW d \in Docs, UserStep(d)
    PROVE  VersionsOK' /\ PastStay
<1>1. manifests' = manifests /\ runner' = runner
  BY DEF UserStep, ParseStep, ParseMoves, ParseFails, ParseSucceeds, Reparse, Delete,
         Approve, indexVars
<1>2. PurgedStay
  <2>1. revision' = revision
        \/ \E r \in Revs : revision[r] = "unborn" /\ revision' = [revision EXCEPT ![r] = "stored"]
    BY DEF UserStep, ParseStep, ParseMoves, ParseFails, ParseSucceeds, Reparse, Delete, Approve
  <2> QED
    BY <2>1 DEF PurgedStay, TypeInv, TypeOK
<1>3. \A j \in Jobs : job'[j] = job[j]
        \/ /\ job[j].status = "none" /\ revision[j[1]] # "purged"
           /\ job'[j].status = "pending"
  <2>1. CASE ParseStep(d) \/ Delete(d)
    BY <2>1 DEF ParseStep, ParseMoves, ParseFails, ParseSucceeds, Reparse, Delete
  <2>2. ASSUME NEW model \in Models, Approve(d, model) PROVE <1>3!:
    <3>1. doc'[d].preview = doc[d].preview
      BY <2>2, Rows DEF Approve, TypeInv, DocRow
    <3>2. job' = WithPreviews({doc'[d]}, model)
      BY <2>2 DEF Approve
    <3> QED
      BY <3>1, <3>2, NewRows
  <2> QED
    BY <2>1, <2>2 DEF UserStep
<1>4. RowsStay
  BY <1>3, AttemptsAreNumbers DEF RowsStay, TypeInv
<1>5. BuildersStay
  BY <1>1, <1>3, BuildersKept
<1> QED
  BY <1>1, <1>2, <1>4, <1>5, VersionsKept DEF TypeInv

\* A claim hands out an attempt nobody had before.
LEMMA ClaimFresh ==
    ASSUME TypeInv, TypeInv', DocsOK, NEW x \in Runners, NEW j \in Jobs, Claim(x, j),
           runner' # runner
    PROVE  \E v \in Versions :
             /\ v = WorkVersion(x)' /\ ~Past(v) /\ Past(v)'
             /\ runner[x].pc = "idle" /\ runner'[x].pc = "claimed"
             /\ \A y \in Runners \ {x} : runner'[y] = runner[y]
<1> DEFINE rows == WithPreviews(AllDocuments, runner[x].model)
           running == [status |-> "running", attempt |-> NextAttempt(rows[j]),
                       runner |-> x, expired |-> FALSE]
<1>1. rows \in [Jobs -> JobRow] /\ rows[j] \in JobRow
  BY PreviewRows DEF TypeInv
<1>2. rows[j] = job[j]
        \/ /\ job[j].status = "none" /\ revision[j[1]] # "purged" /\ rows[j].attempt = 0
  BY NewRows DEF AllDocuments
<1>3. /\ runner[x].pc = "idle" /\ rows[j].status \in {"pending", "running"}
      /\ job' = [rows EXCEPT ![j] = running]
      /\ runner' = [runner EXCEPT ![x].pc = "claimed", ![x].job = j,
                                  ![x].attempt = NextAttempt(rows[j])]
  BY DEF Claim, Claimable
<1>4. running.status = "running" /\ running.attempt = rows[j].attempt + 1
  BY DEF NextAttempt
<1> HIDE DEF rows, running
<1>5. rows[j].attempt \in Nat
  BY <1>1, ConstantsOK DEF JobRow
<1>6. job'[j].status = "running" /\ job'[j].attempt = rows[j].attempt + 1
  BY <1>1, <1>3, <1>4
<1>7. /\ runner'[x].pc = "claimed" /\ runner'[x].job = j
      /\ runner'[x].attempt = rows[j].attempt + 1
      /\ \A y \in Runners \ {x} : runner'[y] = runner[y]
  BY <1>3, Rows DEF TypeInv, Process, NextAttempt
<1>8. PICK v \in Versions : v = WorkVersion(x)'
  BY <1>7 DEF TypeInv, WorkTyped, Working, WorkVersion, Versions
<1>9. v.job = j /\ v.attempt = rows[j].attempt + 1
  BY <1>7, <1>8 DEF WorkVersion
<1>10. Past(v)'
  BY <1>5, <1>6, <1>9 DEF Past
<1>11. ~Past(v)
  <2>1. CASE rows[j] = job[j]
    BY <1>3, <1>5, <1>9, <2>1 DEF Past
  <2>2. CASE job[j].status = "none" /\ revision[j[1]] # "purged"
    BY <1>9, <2>2 DEF Past
  <2> QED
    BY <1>2, <2>1, <2>2
<1> QED
  BY <1>3, <1>7, <1>8, <1>10, <1>11

LEMMA VersionsClaim ==
    ASSUME TypeInv, TypeInv', DocsOK, VersionsOK, NEW x \in Runners, NEW j \in Jobs,
           Claim(x, j)
    PROVE  VersionsOK' /\ PastStay
<1> DEFINE rows == WithPreviews(AllDocuments, runner[x].model)
           stale == doc[DocOf[j[1]]].preview # j[1]
           failed == [rows[j] EXCEPT !.status = "failed", !.expired = FALSE]
           running == [status |-> "running", attempt |-> NextAttempt(rows[j]),
                       runner |-> x, expired |-> FALSE]
<1>1. rows \in [Jobs -> JobRow] /\ rows[j] \in JobRow
  BY PreviewRows DEF TypeInv
<1>2. \A k \in Jobs : rows[k] = job[k]
        \/ /\ job[k].status = "none" /\ revision[k[1]] # "purged"
           /\ rows[k].status = "pending" /\ rows[k].attempt = 0
  BY NewRows DEF AllDocuments
<1>3. job' = [rows EXCEPT ![j] = IF stale THEN failed ELSE running]
  BY DEF Claim
<1>4. UNCHANGED <<manifests, revision>> /\ runner[x].pc = "idle"
      /\ rows[j].status \in {"pending", "running"}
  BY DEF Claim, Claimable, indexVars
<1>5. runner' = IF stale THEN runner
                ELSE [runner EXCEPT ![x].pc = "claimed", ![x].job = j,
                                    ![x].attempt = NextAttempt(rows[j])]
  BY DEF Claim
<1>6. failed.status = "failed" /\ failed.attempt = rows[j].attempt
  BY <1>1 DEF JobRow
<1>7. /\ running.status = "running" /\ running.runner = x
      /\ running.attempt = rows[j].attempt + 1
  BY DEF NextAttempt
<1> HIDE DEF rows, stale, failed, running
<1>8. rows[j].attempt \in Nat /\ rows[j].status # "none"
  BY <1>1, <1>4, ConstantsOK DEF JobRow
<1>9. /\ \A k \in Jobs \ {j} : job'[k] = rows[k]
      /\ job'[j] = IF stale THEN failed ELSE running
  BY <1>1, <1>3
<1>10. RowsStay
  <2>1. job'[j].status # "none" /\ job'[j].attempt >= rows[j].attempt
    BY <1>6, <1>7, <1>8, <1>9
  <2>2. ASSUME NEW k \in Jobs \ {j}
        PROVE  \/ /\ job[k].status # "none" /\ job'[k].status # "none"
                  /\ job'[k].attempt >= job[k].attempt
               \/ job[k].status = "none" /\ job'[k].status = "none"
               \/ job[k].status = "none" /\ revision[k[1]] # "purged"
    BY <1>2, <1>9, AttemptsAreNumbers DEF TypeInv
  <2> QED
    BY <1>2, <1>8, <2>1, <2>2 DEF RowsStay
<1>11. PurgedStay
  BY <1>4 DEF PurgedStay
<1>12. PastStay /\ \A m \in manifests : Past(m.version)'
  BY <1>10, <1>11, PastStays, Rows DEF VersionsOK, TypeInv, PastStay, Manifest
<1>13. ASSUME NEW y \in Runners \ {x}, Builds(y)'
       PROVE  Builds(y) /\ WorkVersion(y)' = WorkVersion(y)
  <2>1. runner'[y] = runner[y]
    BY <1>5 DEF TypeInv, TypeOK
  <2>2. runner[y].job \in Jobs
    BY <1>13, <2>1 DEF Builds, TypeInv, WorkTyped, Working
  <2>3. runner[y].job # j
    BY <1>6, <1>7, <1>9, <1>13, <2>1 DEF Builds, Holds
  <2>4. job'[runner[y].job] = job[runner[y].job]
    BY <1>2, <1>9, <1>13, <2>1, <2>2, <2>3 DEF Builds, Holds
  <2> QED
    BY <1>13, <2>1, <2>4 DEF Builds, Holds, WorkVersion
<1>14. ASSUME Builds(x)', NEW m \in manifests PROVE m.version # WorkVersion(x)'
  <2>1. runner' # runner
    BY <1>4, <1>14 DEF Builds
  <2> QED
    BY <2>1, ClaimFresh DEF VersionsOK
<1>15. \A y \in Runners : Builds(y)' => \A m \in manifests : m.version # WorkVersion(y)'
  BY <1>13, <1>14 DEF VersionsOK
<1> QED
  BY <1>4, <1>12, <1>15 DEF VersionsOK

\* A registration is the first of its attempt.
LEMMA VersionsRegister ==
    ASSUME TypeInv, TypeInv', VersionsOK, NEW x \in Runners, Register(x)
    PROVE  VersionsOK' /\ PastStay
<1>1. PICK new : new = [version |-> WorkVersion(x), revs |-> runner[x].seen,
                        status |-> "ready"]
  OBVIOUS
<1>2. /\ runner[x].pc = "built" /\ Holds(x) /\ manifests' = manifests \cup {new}
      /\ runner' = At(x, "registered") /\ UNCHANGED <<job, revision>>
      /\ runner[x].job \in Jobs /\ runner[x].attempt \in 1..MaxAttempt
  BY <1>1 DEF Register, docVars, TypeInv, WorkTyped, Working
<1>3. /\ new.version = WorkVersion(x) /\ WorkVersion(x).job = runner[x].job
      /\ WorkVersion(x).attempt = runner[x].attempt
  BY <1>1 DEF WorkVersion
<1>4. \A m \in manifests : m.version # WorkVersion(x)
  BY <1>2 DEF VersionsOK, Builds
<1>5. Past(new.version)'
  BY <1>2, <1>3, Rows DEF Past, Holds, TypeInv, JobRow
<1>6. PastStay /\ \A m \in manifests : Past(m.version)'
  BY <1>2 DEF VersionsOK, Past, PastStay
<1>7. ASSUME NEW y \in Runners, Builds(y)'
      PROVE  /\ Builds(y) /\ WorkVersion(y)' = WorkVersion(y)
             /\ WorkVersion(y) # WorkVersion(x)
  <2>1. y # x
    BY <1>2, <1>7, AtType DEF Builds, TypeInv, Working
  <2>2. runner'[y] = runner[y]
    BY <1>2, <2>1, AtType DEF TypeInv, Working
  <2>3. Builds(y) /\ WorkVersion(y)' = WorkVersion(y)
    BY <1>2, <1>7, <2>2 DEF Builds, Holds, WorkVersion
  <2>4. WorkVersion(y) # WorkVersion(x)
    BY <1>2, <2>1, <2>3 DEF Builds, Holds, WorkVersion
  <2> QED
    BY <2>3, <2>4
<1>8. \A y \in Runners : Builds(y)' => \A m \in manifests' : m.version # WorkVersion(y)'
  BY <1>2, <1>3, <1>4, <1>7 DEF VersionsOK
<1>9. \A m, n \in manifests' : m.version = n.version => m = n
  BY <1>2, <1>3, <1>4 DEF VersionsOK
<1> QED
  BY <1>2, <1>5, <1>6, <1>8, <1>9 DEF VersionsOK

\* The manifests an activation leaves are those there were, with another status.
LEMMA Switched ==
    ASSUME TypeOK, VersionsOK, NEW x \in Runners, Activate(x)
    PROVE  /\ \A n \in manifests' : \E m \in manifests :
                /\ m.version = n.version /\ m.revs = n.revs
                /\ n = IF m.version = WorkVersion(x) THEN [m EXCEPT !.status = "active"]
                                                     ELSE Supersede(m)
           /\ \A m \in manifests : m.version = WorkVersion(x) =>
                [m EXCEPT !.status = "active"] \in manifests'
           /\ \A m \in manifests : \E n \in manifests' : n.version = m.version
           /\ \A m, n \in manifests' : m.version = n.version => m = n
<1>1. \A m \in manifests :
        /\ [m EXCEPT !.status = "active"].version = m.version
        /\ [m EXCEPT !.status = "active"].revs = m.revs
        /\ Supersede(m).version = m.version /\ Supersede(m).revs = m.revs
  BY Rows DEF Supersede, Manifest
<1>2. manifests' = {Supersede(m) : m \in manifests \ Candidate(x)}
                     \cup {[m EXCEPT !.status = "active"] : m \in Candidate(x)}
  BY DEF Activate
<1>3. /\ \A m \in manifests : m \in Candidate(x) <=> m.version = WorkVersion(x)
      /\ Candidate(x) \subseteq manifests
  BY DEF Candidate
<1>4. ASSUME NEW n \in manifests'
      PROVE  \E m \in manifests :
               /\ m.version = n.version /\ m.revs = n.revs
               /\ n = IF m.version = WorkVersion(x) THEN [m EXCEPT !.status = "active"]
                                                    ELSE Supersede(m)
  <2>1. CASE n \in {Supersede(m) : m \in manifests \ Candidate(x)}
    <3>1. PICK m \in manifests \ Candidate(x) : n = Supersede(m)
      BY <2>1
    <3> QED
      BY <1>1, <1>3, <3>1
  <2>2. CASE n \in {[m EXCEPT !.status = "active"] : m \in Candidate(x)}
    <3>1. PICK m \in Candidate(x) : n = [m EXCEPT !.status = "active"]
      BY <2>2
    <3> QED
      BY <1>1, <1>3, <3>1
  <2> QED
    BY <1>2, <2>1, <2>2
<1>5. \A m \in manifests : m.version = WorkVersion(x) =>
        [m EXCEPT !.status = "active"] \in manifests'
  BY <1>2, <1>3
<1>6. ASSUME NEW m \in manifests PROVE \E n \in manifests' : n.version = m.version
  <2>1. CASE m \in Candidate(x)
    BY <1>1, <1>2, <2>1
  <2>2. CASE m \notin Candidate(x)
    BY <1>1, <1>2, <2>2
  <2> QED
    BY <2>1, <2>2
<1>7. ASSUME NEW m \in manifests', NEW n \in manifests', m.version = n.version
      PROVE  m = n
  <2>1. PICK old \in manifests :
          /\ old.version = m.version
          /\ m = IF old.version = WorkVersion(x) THEN [old EXCEPT !.status = "active"]
                                                 ELSE Supersede(old)
    BY <1>4
  <2>2. PICK also \in manifests :
          /\ also.version = n.version
          /\ n = IF also.version = WorkVersion(x) THEN [also EXCEPT !.status = "active"]
                                                  ELSE Supersede(also)
    BY <1>4
  <2>3. old = also
    BY <1>7, <2>1, <2>2 DEF VersionsOK
  <2> QED
    BY <2>1, <2>2, <2>3
<1> QED
  BY <1>4, <1>5, <1>6, <1>7

LEMMA VersionsActivate ==
    ASSUME TypeInv, TypeInv', VersionsOK, NEW x \in Runners, Activate(x)
    PROVE  VersionsOK' /\ PastStay
<1> DEFINE j == runner[x].job
<1>1. j \in Jobs /\ Holds(x)
  BY DEF Activate, TypeInv, WorkTyped, Working
<1>2. /\ Settled(job[j], "succeeded").status = "succeeded"
      /\ Settled(job[j], "succeeded").attempt = job[j].attempt
  BY <1>1, Rows, SettledType DEF TypeInv, JobStatus
<1>3. /\ job' = [job EXCEPT ![j] = Settled(job[j], "succeeded")] /\ revision' = revision
      /\ runner' = Idle(x)
  BY DEF Activate
<1>4. \A k \in Jobs : job'[k] = IF k = j THEN Settled(job[j], "succeeded") ELSE job[k]
  BY <1>1, <1>3 DEF TypeInv, TypeOK
<1>5. RowsStay /\ PurgedStay
  BY <1>1, <1>2, <1>3, <1>4, AttemptsAreNumbers DEF RowsStay, PurgedStay, Holds, TypeInv
<1>6. BuildersStay
  <2>1. \A y \in Runners : runner'[y] = runner[y] \/ runner'[y].pc = "idle"
    BY <1>3, IdleType DEF TypeInv
  <2> QED
    BY <1>2, <1>4, <2>1, BuildersKept
<1>7. PastStay /\ \A m \in manifests : Past(m.version)'
  BY <1>5, PastStays, Rows DEF VersionsOK, TypeInv, PastStay, Manifest
<1>8. \A n \in manifests' : \E m \in manifests : m.version = n.version
  BY Switched DEF TypeInv
<1>9. \A n \in manifests' : Past(n.version)'
  BY <1>7, <1>8 DEF Past
<1>10. \A y \in Runners : Builds(y)' => \A n \in manifests' : n.version # WorkVersion(y)'
  BY <1>6, <1>8 DEF VersionsOK, BuildersStay
<1> QED
  BY <1>7, <1>9, <1>10, Switched DEF VersionsOK, TypeInv

LEMMA VersionsWork ==
    ASSUME TypeInv, TypeInv', DocsOK, VersionsOK, NEW x \in Runners, WorkStep(x)
    PROVE  VersionsOK' /\ PastStay
<1>1. ASSUME BuildersStay, UNCHANGED <<job, revision, manifests>> PROVE VersionsOK' /\ PastStay
  <2>1. RowsStay /\ PurgedStay
    BY <1>1, AttemptsAreNumbers DEF RowsStay, PurgedStay, TypeInv
  <2> QED
    BY <1>1, <2>1, VersionsKept DEF TypeInv
<1>2. CASE Embed(x) \/ ReadDocuments(x) \/ Build(x)
  <2>1. UNCHANGED <<job, revision, manifests>>
    BY <1>2 DEF Embed, ReadDocuments, Build, docVars, indexVars
  <2>2. BuildersStay
    <3>1. CASE Embed(x)
      BY <3>1, OnTheWay DEF Embed, Working
    <3>2. CASE Build(x)
      BY <3>2, OnTheWay DEF Build, Working
    <3>3. CASE ReadDocuments(x)
      BY <2>1, <3>3, Rows
         DEF ReadDocuments, TypeInv, Process, BuildersStay, Builds, Holds, WorkVersion
    <3> QED
      BY <1>2, <3>1, <3>2, <3>3
  <2> QED
    BY <1>1, <2>1, <2>2
<1>3. CASE ProviderFails(x) \/ StepRaises(x) \/ Escapes(x)
  <2>1. UNCHANGED <<job, revision, manifests>>
    BY <1>3 DEF ProviderFails, StepRaises, Escapes, docVars, indexVars
  <2>2. \A y \in Runners : runner'[y] = runner[y]
                           \/ runner'[y].pc \in {"blocking", "failing", "down"}
    BY <1>3, AtType, DownType, Rows
       DEF ProviderFails, StepRaises, Escapes, TypeInv, Working
  <2>3. BuildersStay
    BY <2>1, <2>2, BuildersKept
  <2> QED
    BY <1>1, <2>1, <2>3
<1>4. CASE GiveUp(x)
  <2> DEFINE j == runner[x].job
  <2>1. j \in Jobs /\ Holds(x)
    BY <1>4 DEF GiveUp, TypeInv, WorkTyped, Working
  <2>2. PICK outcome \in {"failed", "index_blocked_provider"} :
          job' = [job EXCEPT ![j] = Settled(job[j], outcome)]
    BY <1>4, <2>1, Rows DEF GiveUp, TypeInv
  <2>3. /\ Settled(job[j], outcome).status = outcome
        /\ Settled(job[j], outcome).attempt = job[j].attempt
    BY <2>1, Rows, SettledType DEF TypeInv, JobStatus
  <2>4. \A k \in Jobs : job'[k] = IF k = j THEN Settled(job[j], outcome) ELSE job[k]
    BY <2>1, <2>2 DEF TypeInv, TypeOK
  <2>5. UNCHANGED <<revision, manifests>>
    BY <1>4 DEF GiveUp, indexVars
  <2>6. RowsStay /\ PurgedStay
    BY <2>1, <2>3, <2>4, <2>5, AttemptsAreNumbers
       DEF RowsStay, PurgedStay, Holds, TypeInv
  <2>7. \A y \in Runners : runner'[y] = runner[y] \/ runner'[y].pc = "idle"
    BY <1>4, IdleType DEF GiveUp, TypeInv
  <2>8. BuildersStay
    BY <2>3, <2>4, <2>7, BuildersKept
  <2> QED
    BY <2>5, <2>6, <2>8, VersionsKept DEF TypeInv
<1> QED
  BY <1>2, <1>3, <1>4, VersionsClaim, VersionsRegister, VersionsActivate DEF WorkStep

LEMMA VersionsRest ==
    ASSUME TypeInv, TypeInv', VersionsOK,
           \/ \E d \in Docs : CleanupStep(d)
           \/ \E x \in Runners : Restart(x) \/ Crash(x)
           \/ \E j \in Jobs : LeaseExpires(j)
           \/ Query
           \/ UNCHANGED vars
    PROVE  VersionsOK' /\ PastStay
<1>1. ASSUME NEW d \in Docs, Cleanup(d) PROVE VersionsOK' /\ PastStay
  <2> DEFINE purged == {r \in Revs : DocOf[r] = d /\ revision[r] = "stored"}
  <2>1. /\ job' = [j \in Jobs |-> IF j[1] \in purged THEN NoRow ELSE job[j]]
        /\ revision' = [r \in Revs |-> IF r \in purged THEN "purged" ELSE revision[r]]
        /\ manifests' \subseteq manifests /\ runner' = runner
    BY <1>1 DEF Cleanup
  <2> HIDE DEF purged
  <2>2. BuildersStay
    BY <2>1, NoRowType, BuildersKept
  <2>3. PastStay
    <3> SUFFICES ASSUME NEW v \in Versions, Past(v) PROVE Past(v)'
      BY DEF PastStay
    <3> DEFINE j == v.job
    <3>1. j \in Jobs /\ j[1] \in Revs
      BY Indices DEF Versions
    <3>2. CASE j[1] \in purged
      BY <2>1, <3>1, <3>2, NoRowType DEF Past
    <3>3. CASE j[1] \notin purged
      BY <2>1, <3>1, <3>3 DEF Past
    <3> QED
      BY <3>2, <3>3
  <2>4. \A m \in manifests' : Past(m.version)'
    BY <2>1, <2>3, Rows DEF TypeInv, Manifest, VersionsOK, PastStay
  <2> QED
    BY <2>1, <2>2, <2>3, <2>4 DEF VersionsOK, BuildersStay
<1>2. ASSUME UNCHANGED <<revision, manifests>>, BuildersStay,
             \A j \in Jobs : /\ job'[j].status = "none" <=> job[j].status = "none"
                             /\ job'[j].attempt = job[j].attempt
      PROVE  VersionsOK' /\ PastStay
  <2>1. RowsStay /\ PurgedStay
    BY <1>2, AttemptsAreNumbers DEF RowsStay, PurgedStay, TypeInv
  <2> QED
    BY <1>2, <2>1, VersionsKept DEF TypeInv
<1>3. ASSUME NEW d \in Docs, CleanupRollsBack(d) PROVE VersionsOK' /\ PastStay
  <2>1. BuildersStay
    BY <1>3, BuildersKept DEF CleanupRollsBack
  <2> QED
    BY <1>2, <1>3, <2>1 DEF CleanupRollsBack
<1>4. ASSUME NEW x \in Runners, Restart(x) PROVE VersionsOK' /\ PastStay
  <2>1. PICK model \in Models, provider \in BOOLEAN : Start(x, model, provider)
    BY <1>4 DEF Restart
  <2>2. \A j \in Jobs : job'[j] = job[j]
          \/ /\ job[j].status = "index_blocked_provider" /\ job'[j].status = "pending"
             /\ job'[j].attempt = job[j].attempt
    BY <2>1, Rows, SettledType DEF Start, Resumable, TypeInv, JobStatus
  <2>3. \A y \in Runners : runner'[y] = runner[y] \/ runner'[y].pc = "idle"
    <3> DEFINE new == [Down EXCEPT !.pc = "idle", !.model = model, !.provider = provider]
    <3>1. new.pc = "idle"
      BY DownType DEF Process
    <3>2. runner' = [runner EXCEPT ![x] = new]
      BY <2>1 DEF Start
    <3> HIDE DEF new
    <3> QED
      BY <3>1, <3>2, Rows DEF TypeInv
  <2>4. BuildersStay
    BY <2>2, <2>3, BuildersKept
  <2> QED
    BY <1>2, <2>1, <2>2, <2>4 DEF Start, docVars, indexVars
<1>5. ASSUME NEW x \in Runners, Crash(x) PROVE VersionsOK' /\ PastStay
  <2>1. \A y \in Runners : runner'[y] = runner[y] \/ runner'[y].pc = "down"
    BY <1>5, DownType, Rows DEF Crash, TypeInv
  <2>2. BuildersStay
    BY <1>5, <2>1, BuildersKept DEF Crash
  <2> QED
    BY <1>2, <1>5, <2>2 DEF Crash, docVars, indexVars
<1>6. ASSUME NEW j \in Jobs, LeaseExpires(j) PROVE VersionsOK' /\ PastStay
  <2>1. \A k \in Jobs : /\ job'[k].status = job[k].status /\ job'[k].runner = job[k].runner
                        /\ job'[k].attempt = job[k].attempt
    BY <1>6, Rows DEF LeaseExpires, TypeInv, JobRow
  <2>2. BuildersStay
    BY <1>6, <2>1, BuildersKept DEF LeaseExpires
  <2> QED
    BY <1>2, <1>6, <2>1, <2>2 DEF LeaseExpires, docVars, indexVars
<1>7. CASE Query \/ UNCHANGED vars
  <2>1. UNCHANGED <<job, runner, revision, manifests>>
    BY <1>7 DEF Query, vars, docVars, indexVars
  <2>2. BuildersStay
    BY <2>1, BuildersKept
  <2> QED
    BY <1>2, <2>1, <2>2
<1> QED
  BY <1>1, <1>3, <1>4, <1>5, <1>6, <1>7 DEF CleanupStep

LEMMA VersionsNext ==
    TypeInv /\ TypeInv' /\ DocsOK /\ VersionsOK /\ [Next]_vars => VersionsOK' /\ PastStay
BY VersionsUser, VersionsWork, VersionsRest DEF Next

-----------------------------------------------------------------------------
(* 4. The active index                                                     *)

\* Exactly the active revision of every document, but for the deleted ones
Matches(revs) ==
    /\ \A r \in revs : ~Deleted(DocOf[r]) => doc[DocOf[r]].current = r
    /\ \A d \in Docs : doc[d].current # None => doc[d].current \in revs

OnlyActive == \A m \in manifests : m.status = "active" => m.version = active

HasActive == active # None =>
    \E m \in manifests : m.version = active /\ m.status = "active"

ActiveMatches == \A m \in manifests : m.version = active => Matches(m.revs)

CleanedOut == \A d \in Docs : deletion[d] = "completed" =>
    Deleted(d) /\ \A m \in manifests : m.version = active => d \notin DocsOf(m.revs)

ActiveInv == OnlyActive /\ HasActive /\ ActiveMatches /\ CleanedOut

\* What a step does not change about a document, unless it publishes or deletes it
SameForIndex == \A d \in Docs :
    /\ doc'[d].current = doc[d].current
    /\ Deleted(d)' <=> Deleted(d)
    /\ deletion'[d] = "completed" => deletion[d] = "completed"

LEMMA ActiveKept ==
    ASSUME TypeInv, ActiveInv, SameForIndex, UNCHANGED <<manifests, active>>
    PROVE  ActiveInv'
<1>1. \A m \in manifests : \A r \in m.revs : DocOf[r] \in Docs
  BY Rows, ConstantsOK DEF TypeInv, Manifest
<1>2. \A m \in manifests : Matches(m.revs) => Matches(m.revs)'
  BY <1>1 DEF Matches, SameForIndex
<1>3. ActiveMatches'
  BY <1>2 DEF ActiveInv, ActiveMatches
<1>4. CleanedOut'
  BY DEF ActiveInv, CleanedOut, SameForIndex, DocsOf
<1>5. OnlyActive' /\ HasActive'
  BY DEF ActiveInv, OnlyActive, HasActive
<1> QED
  BY <1>3, <1>4, <1>5 DEF ActiveInv

\* A change of the status of one document that is not deleted
LEMMA StatusKeepsIndex ==
    ASSUME TypeInv, NEW d \in Docs, ~Deleted(d), NEW status \in DocStatus \ {"deleting"},
           doc' = [doc EXCEPT ![d].status = status], deletion' = deletion
    PROVE  SameForIndex
BY Rows DEF SameForIndex, TypeInv, Deleted, DocRow

\* Only deletions, activations and cleanups matter to the index.
LEMMA UserSame ==
    ASSUME TypeInv, DocsOK, NEW d \in Docs, UserStep(d), ~Delete(d)
    PROVE  SameForIndex /\ deletion' = deletion
<1>1. parsing[d] => ~Deleted(d)
  BY DEF DocsOK, RowOK
<1>2. deletion' = deletion
  BY DEF UserStep, ParseStep, ParseMoves, ParseFails, ParseSucceeds, Reparse, Approve
<1>3. CASE ParseStep(d)
  <2>1. \A r \in Revs : DocOf[r] = d /\ ParseSucceeds(r) => SameForIndex
    BY <1>1, Rows DEF ParseSucceeds, SameForIndex, TypeInv, Deleted, DocRow
  <2>2. {"queued", "processing", "failed", "partial_failed"} \subseteq DocStatus \ {"deleting"}
    BY DEF DocStatus
  <2>3. \A status \in {"queued", "processing"} : ParseMoves(d, status) => SameForIndex
    BY <1>1, <2>2, StatusKeepsIndex DEF ParseMoves
  <2>4. \A status \in {"failed", "partial_failed"} : ParseFails(d, status) => SameForIndex
    BY <1>1, <2>2, StatusKeepsIndex DEF ParseFails
  <2>5. Reparse(d) => SameForIndex
    BY <2>2, StatusKeepsIndex DEF Reparse, Included
  <2> QED
    BY <1>2, <1>3, <2>1, <2>3, <2>4, <2>5 DEF ParseStep
<1>4. ASSUME NEW model \in Models, Approve(d, model) PROVE SameForIndex
  BY <1>4, Rows DEF Approve, SameForIndex, TypeInv, Deleted, DocRow
<1> QED
  BY <1>2, <1>3, <1>4 DEF UserStep

LEMMA WorkSame ==
    ASSUME TypeInv, DocsOK, NEW x \in Runners, WorkStep(x), ~Activate(x)
    PROVE  SameForIndex /\ deletion' = deletion
<1>1. deletion' = deletion
  BY DEF WorkStep, Claim, Embed, ProviderFails, ReadDocuments, Build, Register, StepRaises,
         GiveUp, Escapes, docVars
<1>2. ASSUME NEW j \in Jobs, Claim(x, j) PROVE SameForIndex
  <2>1. /\ Included(DocOf[j[1]])
        /\ doc' = doc \/ doc' = [doc EXCEPT ![DocOf[j[1]]].status = "indexing"]
    BY <1>2 DEF Claim, Claimable
  <2>2. "indexing" \in DocStatus \ {"deleting"} /\ DocOf[j[1]] \in Docs
    BY Indices DEF DocStatus
  <2> QED
    BY <1>1, <2>1, <2>2, StatusKeepsIndex DEF Included, SameForIndex, Deleted
<1>3. CASE GiveUp(x)
  <2>1. PICK j \in Jobs : j = runner[x].job
    BY <1>3 DEF GiveUp, TypeInv, WorkTyped, Working
  <2>2. PICK d \in Docs : d = DocOf[j[1]]
    BY Indices
  <2>3. doc' = IF doc[d].preview = j[1]
               THEN [doc EXCEPT ![d].status = "parsed_index_blocked"] ELSE doc
    BY <1>3, <2>1, <2>2 DEF GiveUp
  <2>4. /\ doc[d].preview = j[1] => ~Deleted(d)
        /\ "parsed_index_blocked" \in DocStatus \ {"deleting"}
    BY Indices, ConstantsOK DEF DocsOK, RowOK, DocStatus
  <2>5. CASE doc[d].preview = j[1]
    BY <1>1, <2>3, <2>4, <2>5, StatusKeepsIndex
  <2>6. CASE doc[d].preview # j[1]
    BY <1>1, <2>3, <2>6 DEF SameForIndex, Deleted
  <2> QED
    BY <2>5, <2>6
<1>4. CASE Embed(x) \/ ProviderFails(x) \/ ReadDocuments(x) \/ Build(x) \/ Register(x)
           \/ StepRaises(x) \/ Escapes(x)
  <2>1. doc' = doc
    BY <1>4 DEF Embed, ProviderFails, ReadDocuments, Build, Register, StepRaises, Escapes,
                docVars
  <2> QED
    BY <1>1, <2>1 DEF SameForIndex, Deleted
<1> QED
  BY <1>1, <1>2, <1>3, <1>4 DEF WorkStep

LEMMA RestSame ==
    ASSUME TypeInv,
           \/ \E x \in Runners : Restart(x) \/ Crash(x)
           \/ \E j \in Jobs : LeaseExpires(j)
           \/ Query
           \/ UNCHANGED vars
    PROVE  SameForIndex /\ UNCHANGED <<deletion, manifests, active, directories, revision>>
BY DEF Restart, Start, Crash, LeaseExpires, Query, vars, docVars, indexVars, SameForIndex, Deleted

LEMMA RollsBackSame ==
    ASSUME TypeInv, NEW d \in Docs, CleanupRollsBack(d)
    PROVE  SameForIndex
<1>1. doc' = doc /\ deletion' = [deletion EXCEPT ![d] = "retry_wait"]
  BY DEF CleanupRollsBack
<1>2. \A e \in Docs : deletion'[e] = "completed" => deletion[e] = "completed"
  BY <1>1 DEF TypeInv, TypeOK
<1> QED
  BY <1>1, <1>2 DEF SameForIndex, Deleted

LEMMA ActiveUser ==
    ASSUME TypeInv, DocsOK, ActiveInv, NEW d \in Docs, UserStep(d)
    PROVE  ActiveInv'
<1>1. UNCHANGED <<manifests, active>>
  BY DEF UserStep, ParseStep, ParseMoves, ParseFails, ParseSucceeds, Reparse, Delete,
         Approve, indexVars
<1>2. CASE Delete(d)
  <2>1. /\ DeletedRow(doc[d]).status = "deleting" /\ DeletedRow(doc[d]).current = None
        /\ doc' = [doc EXCEPT ![d] = DeletedRow(doc[d])]
        /\ deletion' = [deletion EXCEPT ![d] = "pending"] /\ ~Deleted(d)
    BY <1>2, Rows DEF Delete, DeletedRow, TypeInv, DocRow
  <2>2. doc'[d].current = None /\ Deleted(d)' /\ deletion'[d] = "pending"
    BY <2>1 DEF Deleted, TypeInv, TypeOK
  <2>3. \A e \in Docs \ {d} : doc'[e] = doc[e] /\ deletion'[e] = deletion[e]
    BY <2>1 DEF TypeInv, TypeOK
  <2>4. \A m \in manifests : \A r \in m.revs : DocOf[r] \in Docs
    BY Rows, ConstantsOK DEF TypeInv, Manifest
  <2>5. \A m \in manifests : Matches(m.revs) => Matches(m.revs)'
    BY <2>2, <2>3, <2>4 DEF Matches, Deleted
  <2>6. ActiveMatches'
    BY <1>1, <2>5 DEF ActiveInv, ActiveMatches
  <2>7. CleanedOut'
    BY <1>1, <2>2, <2>3 DEF ActiveInv, CleanedOut, DocsOf, Deleted
  <2> QED
    BY <1>1, <2>6, <2>7 DEF ActiveInv, OnlyActive, HasActive
<1> QED
  BY <1>1, <1>2, UserSame, ActiveKept

\* What a runner registers is not the active index.
LEMMA ActiveRegister ==
    ASSUME TypeInv, VersionsOK, ActiveInv, NEW x \in Runners, Register(x)
    PROVE  ActiveInv'
<1>1. PICK new : new = [version |-> WorkVersion(x), revs |-> runner[x].seen,
                        status |-> "ready"]
  OBVIOUS
<1>2. /\ runner[x].pc = "built" /\ Holds(x) /\ manifests' = manifests \cup {new}
      /\ UNCHANGED <<active, doc, deletion>>
      /\ new.version = WorkVersion(x) /\ new.status = "ready"
  BY <1>1 DEF Register, docVars
<1>3. WorkVersion(x) # active
  <2>1. WorkVersion(x) # None
    BY <1>2, WorkVersionType, NoneOK DEF Working
  <2>2. \A m \in manifests : m.version # WorkVersion(x)
    BY <1>2 DEF VersionsOK, Builds
  <2> QED
    BY <2>1, <2>2 DEF ActiveInv, HasActive
<1>4. \A m \in manifests' : m.version = active => m \in manifests
  BY <1>2, <1>3
<1>5. \A revs : Matches(revs) => Matches(revs)'
  BY <1>2 DEF Matches, Deleted
<1>6. ActiveMatches'
  BY <1>2, <1>4, <1>5 DEF ActiveInv, ActiveMatches
<1>7. CleanedOut'
  BY <1>2, <1>4 DEF ActiveInv, CleanedOut, DocsOf, Deleted
<1> QED
  BY <1>2, <1>6, <1>7 DEF ActiveInv, OnlyActive, HasActive

\* An activation publishes the selected revisions of the included documents.
LEMMA ScopePublished ==
    ASSUME TypeInv, DocsOK, NEW x \in Runners, Activate(x)
    PROVE  \E j \in Jobs :
             /\ j = runner[x].job /\ j[1] \in Revs
             /\ Scope(j) \subseteq Revs
             /\ \A e \in Docs : Deleted(e)' <=> Deleted(e)
             /\ \A e \in Docs \ {DocOf[j[1]]} : doc'[e] = doc[e]
             /\ doc'[DocOf[j[1]]].current = j[1]
             /\ \A r \in Scope(j) : Included(DocOf[r]) /\ doc'[DocOf[r]].current = r
             /\ \A e \in Docs : doc'[e].current # None => doc'[e].current \in Scope(j)
<1>1. PICK j \in Jobs : j = runner[x].job
  BY DEF Activate, TypeInv, WorkTyped, Working
<1>2. PICK d \in Docs : d = DocOf[j[1]]
  BY Indices
<1>3. PICK row : row = [doc[d] EXCEPT !.current = j[1], !.preview = None, !.status = "ready"]
  OBVIOUS
<1>4. doc' = [doc EXCEPT ![d] = row] /\ Included(d)
  BY <1>1, <1>2, <1>3 DEF Activate, MayActivate
<1>5. row.current = j[1] /\ row.status = "ready"
  BY <1>3, Rows DEF TypeInv, DocRow
<1>6. /\ doc'[d] = row /\ \A e \in Docs \ {d} : doc'[e] = doc[e]
      /\ \A e \in Docs : Deleted(e)' <=> Deleted(e)
  BY <1>4, <1>5 DEF TypeInv, TypeOK, Deleted, Included
<1>7. \A r \in Scope(j) : \E e \in Docs : Included(e) /\ r = Selected(j, e) /\ r # None
  BY DEF Scope
<1>8. ASSUME NEW r \in Scope(j)
      PROVE  r \in Revs /\ Included(DocOf[r]) /\ doc'[DocOf[r]].current = r
  <2>1. PICK e \in Docs : Included(e) /\ r = Selected(j, e) /\ r # None
    BY <1>7
  <2>2. CASE e = d
    BY <1>2, <1>5, <1>6, <2>1, <2>2, Indices DEF Selected
  <2>3. CASE e # d
    BY <1>2, <1>6, <2>1, <2>3, Rows DEF Selected, DocsOK, RowOK, TypeInv, DocRow
  <2> QED
    BY <2>2, <2>3
<1>9. \A e \in Docs : doc'[e].current # None => doc'[e].current \in Scope(j)
  <2> SUFFICES ASSUME NEW e \in Docs, doc'[e].current # None
               PROVE  doc'[e].current \in Scope(j)
    OBVIOUS
  <2>1. Included(e) /\ doc'[e].current = Selected(j, e)
    BY <1>2, <1>4, <1>5, <1>6 DEF Selected, DocsOK, RowOK, Included
  <2> QED
    BY <2>1 DEF Scope
<1> QED
  BY <1>1, <1>2, <1>5, <1>6, <1>8, <1>9, Indices

LEMMA ActiveActivate ==
    ASSUME TypeInv, DocsOK, VersionsOK, ActiveInv, NEW x \in Runners, Activate(x)
    PROVE  ActiveInv'
<1>1. PICK j \in Jobs :
        /\ j = runner[x].job
        /\ \A e \in Docs : Deleted(e)' <=> Deleted(e)
        /\ \A r \in Scope(j) : Included(DocOf[r]) /\ doc'[DocOf[r]].current = r
        /\ \A e \in Docs : doc'[e].current # None => doc'[e].current \in Scope(j)
  BY ScopePublished
<1>2. /\ deletion' = deletion /\ active' = WorkVersion(x)
      /\ \E m \in manifests : m.version = WorkVersion(x) /\ m.revs = Scope(j)
  BY <1>1 DEF Activate, MayActivate, Candidate
<1>3. PICK scope : scope = Scope(j) /\ Matches(scope)'
  BY <1>1 DEF Matches
<1>4. \A n \in manifests' : n.version = active' => n.revs = scope /\ n.status = "active"
  BY <1>2, <1>3, Switched, Rows DEF TypeInv, VersionsOK, Manifest
<1>5. ActiveMatches'
  BY <1>3, <1>4 DEF ActiveMatches
<1>6. OnlyActive'
  <2> SUFFICES ASSUME NEW n \in manifests', n.status = "active", n.version # WorkVersion(x)
               PROVE  FALSE
    BY <1>2 DEF OnlyActive
  <2>1. PICK m \in manifests : m.version = n.version /\ n = Supersede(m)
    BY Switched DEF TypeInv
  <2> QED
    BY <2>1, Rows DEF Supersede, ActiveInv, OnlyActive, TypeInv, Manifest
<1>7. HasActive'
  <2>1. \E n \in manifests' : n.version = WorkVersion(x)
    BY <1>2, Switched, Rows DEF TypeInv, Manifest
  <2> QED
    BY <1>2, <1>4, <2>1 DEF HasActive
<1>8. CleanedOut'
  <2> SUFFICES ASSUME NEW e \in Docs, deletion[e] = "completed"
               PROVE  Deleted(e)' /\ e \notin DocsOf(Scope(j))
    BY <1>2, <1>3, <1>4 DEF CleanedOut, DocsOf
  <2>1. Deleted(e)
    BY DEF ActiveInv, CleanedOut
  <2> QED
    BY <1>1, <2>1 DEF DocsOf, Included
<1> QED
  BY <1>5, <1>6, <1>7, <1>8 DEF ActiveInv

LEMMA ActiveWork ==
    ASSUME TypeInv, DocsOK, VersionsOK, ActiveInv, NEW x \in Runners, WorkStep(x)
    PROVE  ActiveInv'
<1>1. ASSUME ~Register(x), ~Activate(x) PROVE UNCHANGED <<manifests, active>>
  BY <1>1 DEF WorkStep, Claim, Embed, ProviderFails, ReadDocuments, Build, StepRaises, GiveUp,
              Escapes, indexVars
<1> QED
  BY <1>1, WorkSame, ActiveKept, ActiveRegister, ActiveActivate

\* A cleanup takes the whole index with it when the document is part of the active one.
LEMMA ActiveCleanup ==
    ASSUME TypeInv, VersionsOK, ActiveInv, NEW d \in Docs, Cleanup(d)
    PROVE  ActiveInv'
<1>1. /\ manifests' = manifests \ Affected(d) /\ active' = ActiveAfter(d) /\ doc' = doc
      /\ deletion' = [deletion EXCEPT ![d] = "completed"] /\ Deleted(d)
  BY DEF Cleanup
<1>2. /\ deletion'[d] = "completed"
      /\ \A e \in Docs \ {d} : deletion'[e] = deletion[e]
  BY <1>1 DEF TypeInv, TypeOK
<1>3. \A m \in manifests' : m.version = active' =>
        m \in manifests /\ m.version = active /\ d \notin DocsOf(m.revs)
  BY <1>1, Rows, NoneOK DEF ActiveAfter, Affected, TypeInv, Manifest
<1>4. OnlyActive'
  <2> SUFFICES ASSUME NEW m \in manifests', m.status = "active" PROVE m.version = active'
    BY DEF OnlyActive
  <2>1. m \in manifests /\ m \notin Affected(d) /\ m.version = active
    BY <1>1 DEF ActiveInv, OnlyActive
  <2>2. \A n \in Affected(d) : n.version # active
    BY <2>1 DEF VersionsOK, Affected
  <2> QED
    BY <1>1, <2>1, <2>2 DEF ActiveAfter
<1>5. HasActive'
  <2> SUFFICES ASSUME active' # None
               PROVE  \E m \in manifests' : m.version = active' /\ m.status = "active"
    BY DEF HasActive
  <2>1. active' = active /\ \A n \in Affected(d) : n.version # active
    BY <1>1 DEF ActiveAfter
  <2> QED
    BY <1>1, <2>1 DEF ActiveInv, HasActive
<1>6. \A revs : Matches(revs) => Matches(revs)'
  BY <1>1 DEF Matches, Deleted
<1>7. ActiveMatches'
  BY <1>3, <1>6 DEF ActiveInv, ActiveMatches
<1>8. CleanedOut'
  BY <1>1, <1>2, <1>3 DEF ActiveInv, CleanedOut, DocsOf, Deleted
<1> QED
  BY <1>4, <1>5, <1>7, <1>8 DEF ActiveInv

LEMMA ActiveRest ==
    ASSUME TypeInv, VersionsOK, ActiveInv,
           \/ \E d \in Docs : CleanupStep(d)
           \/ \E x \in Runners : Restart(x) \/ Crash(x)
           \/ \E j \in Jobs : LeaseExpires(j)
           \/ Query
           \/ UNCHANGED vars
    PROVE  ActiveInv'
<1>1. ASSUME NEW d \in Docs, CleanupRollsBack(d) PROVE UNCHANGED <<manifests, active>>
  BY <1>1 DEF CleanupRollsBack
<1> QED
  BY <1>1, RollsBackSame, RestSame, ActiveKept, ActiveCleanup DEF CleanupStep

LEMMA ActiveNext ==
    TypeInv /\ DocsOK /\ VersionsOK /\ ActiveInv /\ [Next]_vars => ActiveInv'
BY ActiveUser, ActiveWork, ActiveRest DEF Next

-----------------------------------------------------------------------------
(* 5. Work, directories and manifests                                      *)

\* Work whose index is not written yet
Early == {"claimed", "embedded", "read"}

\* No two runners work on the same attempt, even if one of them lost its lease.
WorkersOK ==
    /\ \A x \in Runners : runner[x].pc \in Working => Past(WorkVersion(x))
    /\ \A x, y \in Runners :
         runner[x].pc \in Working /\ runner[y].pc \in Working
           /\ WorkVersion(x) = WorkVersion(y) => x = y

\* A directory is written once and whole, and stays until a document in it is deleted.
FilesOK ==
    /\ \A b \in directories : Past(b.version)
    /\ \A b, c \in directories : b.version = c.version => b = c
    /\ \A x \in Runners : runner[x].pc \in Early =>
         \A b \in directories : b.version # WorkVersion(x)
    /\ \A x \in Runners : runner[x].pc \in {"built", "registered"} =>
         \/ [version |-> WorkVersion(x), revs |-> runner[x].seen] \in directories
         \/ \E d \in DocsOf(runner[x].seen) : Deleted(d)

\* A manifest lists what its runner has read.
ListsOK ==
    /\ \A x \in Runners : runner[x].pc \in Early \cup {"built"} =>
         \A m \in manifests : m.version # WorkVersion(x)
    /\ \A x \in Runners : runner[x].pc = "registered" =>
         \A m \in manifests : m.version = WorkVersion(x) => m.revs = runner[x].seen

DirInv == WorkersOK /\ FilesOK /\ ListsOK

\* What most steps do to a process: nothing, its end, or a step before it writes.
ProcessStays(y) ==
    \/ runner'[y] = runner[y]
    \/ runner'[y].pc \notin Working
    \/ /\ runner[y].pc \in Working /\ WorkVersion(y)' = WorkVersion(y)
       /\ \/ runner'[y].pc \in {"failing", "blocking"}
          \/ runner[y].pc \in Early /\ runner'[y].pc \in Early

LEMMA StepsStay ==
    ASSUME TypeInv, NEW x \in Runners, NEW pc \in Working, runner' = At(x, pc),
           runner[x].pc \in Working,
           pc \in {"failing", "blocking"} \/ (runner[x].pc \in Early /\ pc \in Early)
    PROVE  \A y \in Runners : ProcessStays(y)
<1>1. /\ runner'[x].pc = pc /\ runner'[x].job = runner[x].job
      /\ runner'[x].attempt = runner[x].attempt
      /\ \A y \in Runners \ {x} : runner'[y] = runner[y]
  BY AtType DEF TypeInv
<1>2. WorkVersion(x)' = WorkVersion(x)
  BY <1>1 DEF WorkVersion
<1> QED
  BY <1>1, <1>2 DEF ProcessStays

LEMMA ProcessesStay ==
    ASSUME TypeInv, [Next]_vars,
           \A x \in Runners : ~Build(x) /\ ~Register(x) /\ \A j \in Jobs : ~Claim(x, j)
    PROVE  \A y \in Runners : ProcessStays(y)
<1>1. CASE runner' = runner
  BY <1>1 DEF ProcessStays
<1>2. ASSUME NEW x \in Runners, WorkStep(x) PROVE \A y \in Runners : ProcessStays(y)
  <2>1. CASE Embed(x)
    BY <2>1, StepsStay DEF Embed, Working, Early
  <2>2. CASE ReadDocuments(x)
    BY <2>2, Rows DEF ReadDocuments, ProcessStays, WorkVersion, TypeInv, Process, Working, Early
  <2>3. CASE ProviderFails(x) \/ StepRaises(x)
    <3>1. runner[x].pc \in Working
      BY <2>3 DEF ProviderFails, StepRaises, Raises, Working
    <3>2. PICK pc \in {"failing", "blocking"} : runner' = At(x, pc)
      BY <2>3 DEF ProviderFails, StepRaises
    <3> QED
      BY <3>1, <3>2, StepsStay DEF Working
  <2>4. CASE Activate(x) \/ GiveUp(x)
    BY <2>4, IdleType DEF Activate, GiveUp, ProcessStays, TypeInv, Working
  <2>5. CASE Escapes(x)
    BY <2>5, DownType, Rows DEF Escapes, ProcessStays, TypeInv, Working
  <2> QED
    BY <1>2, <2>1, <2>2, <2>3, <2>4, <2>5 DEF WorkStep
<1>3. ASSUME NEW x \in Runners, Crash(x) PROVE \A y \in Runners : ProcessStays(y)
  BY <1>3, DownType, Rows DEF Crash, ProcessStays, TypeInv, Working
<1>4. ASSUME NEW x \in Runners, Restart(x) PROVE \A y \in Runners : ProcessStays(y)
  <2>1. PICK model \in Models, provider \in BOOLEAN : Start(x, model, provider)
    BY <1>4 DEF Restart
  <2> DEFINE new == [Down EXCEPT !.pc = "idle", !.model = model, !.provider = provider]
  <2>2. new.pc = "idle"
    BY DownType DEF Process
  <2>3. runner' = [runner EXCEPT ![x] = new]
    BY <2>1 DEF Start
  <2> HIDE DEF new
  <2> QED
    BY <2>2, <2>3, Rows DEF ProcessStays, TypeInv, Working
<1>5. \/ runner' = runner
      \/ \E x \in Runners : WorkStep(x) \/ Crash(x) \/ Restart(x)
  BY DEF Next, UserStep, ParseStep, ParseMoves, ParseFails, ParseSucceeds, Reparse, Approve,
         Delete, CleanupStep, Cleanup, CleanupRollsBack, LeaseExpires, Query, vars
<1> QED
  BY <1>1, <1>2, <1>3, <1>4, <1>5

\* No document comes back, directories only go with a deleted document, and manifests
\* keep what they list.
LEMMA DirKept ==
    ASSUME TypeInv, TypeInv', PastStay, DirInv, \A y \in Runners : ProcessStays(y),
           \A d \in Docs : Deleted(d) => Deleted(d)',
           directories' \subseteq directories,
           \A b \in directories \ directories' : \E m \in manifests :
              m.version = b.version /\ \E d \in DocsOf(m.revs) : Deleted(d),
           \A n \in manifests' : \E m \in manifests : m.version = n.version /\ m.revs = n.revs
    PROVE  DirInv'
<1>1. \A y \in Runners : runner'[y].pc \in Working =>
        runner[y].pc \in Working /\ WorkVersion(y)' = WorkVersion(y)
        /\ WorkVersion(y) \in Versions
  BY WorkVersionType DEF ProcessStays, WorkVersion
<1>2. \A y \in Runners :
        /\ runner'[y].pc \in Early => runner[y].pc \in Early
        /\ runner'[y].pc \in {"built", "registered"} => runner'[y] = runner[y]
  BY DEF ProcessStays, Early, Working
<1>3. Early \cup {"built", "registered"} \subseteq Working
  BY DEF Early, Working
<1>4. WorkersOK'
  <2>1. \A y \in Runners : runner'[y].pc \in Working => Past(WorkVersion(y))'
    <3> SUFFICES ASSUME NEW y \in Runners, runner'[y].pc \in Working
                 PROVE  Past(WorkVersion(y))'
      OBVIOUS
    <3>1. PICK v \in Versions : v = WorkVersion(y) /\ v = WorkVersion(y)' /\ Past(v)
      BY <1>1 DEF DirInv, WorkersOK
    <3>2. Past(v)'
      BY <3>1 DEF PastStay
    <3> QED
      BY <3>1, <3>2 DEF Past
  <2> QED
    BY <1>1, <2>1 DEF DirInv, WorkersOK
<1>5. FilesOK'
  <2>1. \A b \in directories' : Past(b.version)'
    <3>1. \A b \in directories' : b.version \in Versions /\ Past(b.version)
      BY DEF TypeInv, TypeOK, DirInv, FilesOK
    <3> QED
      BY <3>1 DEF PastStay
  <2>2. \A b, c \in directories' : b.version = c.version => b = c
    BY DEF DirInv, FilesOK
  <2>3. \A x \in Runners : runner'[x].pc \in Early =>
          \A b \in directories' : b.version # WorkVersion(x)'
    BY <1>1, <1>2, <1>3 DEF DirInv, FilesOK
  <2>4. ASSUME NEW x \in Runners, runner'[x].pc \in {"built", "registered"},
               [version |-> WorkVersion(x), revs |-> runner[x].seen] \notin directories'
        PROVE  \E d \in DocsOf(runner[x].seen) : Deleted(d)'
    <3>1. runner'[x] = runner[x] /\ runner[x].seen \subseteq Revs
      BY <1>2, <2>4, Rows DEF TypeInv, Process
    <3>2. \A d \in DocsOf(runner[x].seen) : d \in Docs
      BY <3>1, ConstantsOK DEF DocsOf
    <3>3. \E d \in DocsOf(runner[x].seen) : Deleted(d)
      <4>1. CASE [version |-> WorkVersion(x), revs |-> runner[x].seen] \in directories
        <5>1. PICK m \in manifests :
                m.version = WorkVersion(x) /\ \E d \in DocsOf(m.revs) : Deleted(d)
          BY <2>4, <4>1
        <5>2. m.revs = runner[x].seen
          BY <2>4, <3>1, <5>1 DEF DirInv, ListsOK
        <5> QED
          BY <5>1, <5>2
      <4>2. CASE [version |-> WorkVersion(x), revs |-> runner[x].seen] \notin directories
        BY <2>4, <3>1, <4>2 DEF DirInv, FilesOK
      <4> QED
        BY <4>1, <4>2
    <3> QED
      BY <3>2, <3>3
  <2>5. \A x \in Runners : runner'[x].pc \in {"built", "registered"} =>
          WorkVersion(x)' = WorkVersion(x) /\ runner'[x].seen = runner[x].seen
    BY <1>2 DEF WorkVersion
  <2>6. \A x \in Runners : runner'[x].pc \in {"built", "registered"} =>
          \/ [version |-> WorkVersion(x)', revs |-> runner'[x].seen] \in directories'
          \/ \E d \in DocsOf(runner'[x].seen) : Deleted(d)'
    BY <2>4, <2>5
  <2> QED
    BY <2>1, <2>2, <2>3, <2>6 DEF FilesOK, DocsOf, Deleted
<1>6. ListsOK'
  <2>1. ASSUME NEW x \in Runners, runner'[x].pc \in Early \cup {"built"}, NEW n \in manifests'
        PROVE  n.version # WorkVersion(x)'
    <3>1. runner[x].pc \in Early \cup {"built"} /\ WorkVersion(x)' = WorkVersion(x)
      BY <1>1, <1>2, <1>3, <2>1
    <3> QED
      BY <3>1 DEF DirInv, ListsOK
  <2>2. ASSUME NEW x \in Runners, runner'[x].pc = "registered", NEW n \in manifests',
               n.version = WorkVersion(x)'
        PROVE  n.revs = runner'[x].seen
    <3>1. runner'[x] = runner[x] /\ WorkVersion(x)' = WorkVersion(x)
      BY <1>1, <1>2, <1>3, <2>2
    <3> QED
      BY <2>2, <3>1 DEF DirInv, ListsOK
  <2> QED
    BY <2>1, <2>2 DEF ListsOK
<1> QED
  BY <1>4, <1>5, <1>6 DEF DirInv

\* A claimed attempt is one that nobody has written for.
LEMMA DirClaim ==
    ASSUME TypeInv, TypeInv', DocsOK, PastStay, DirInv, VersionsOK,
           NEW x \in Runners, NEW j \in Jobs, Claim(x, j)
    PROVE  DirInv'
<1>1. UNCHANGED <<directories, manifests, revision>>
  BY DEF Claim, indexVars
<1>2. SameForIndex
  BY WorkSame DEF WorkStep, Claim, Activate
<1>3. CASE runner' = runner
  <2>1. \A y \in Runners : ProcessStays(y)
    BY <1>3 DEF ProcessStays
  <2> QED
    BY <1>1, <1>2, <2>1, DirKept DEF SameForIndex
<1>4. CASE runner' # runner
  <2>1. PICK v \in Versions :
          /\ v = WorkVersion(x)' /\ ~Past(v) /\ Past(v)'
          /\ runner[x].pc = "idle" /\ runner'[x].pc = "claimed"
          /\ \A y \in Runners \ {x} : runner'[y] = runner[y]
    BY <1>4, ClaimFresh
  <2>2. \A y \in Runners : runner[y].pc \in Working =>
          /\ y # x /\ runner'[y] = runner[y] /\ WorkVersion(y)' = WorkVersion(y)
          /\ WorkVersion(y) \in Versions /\ WorkVersion(y) # v
    BY <2>1, WorkVersionType DEF DirInv, WorkersOK, WorkVersion, Working
  <2>3. \A y \in Runners : y # x => WorkVersion(y)' = WorkVersion(y)
    BY <2>1 DEF WorkVersion
  <2>4. WorkersOK'
    <3>1. ASSUME NEW y \in Runners, runner'[y].pc \in Working PROVE Past(WorkVersion(y))'
      <4>1. PICK w \in Versions : w = WorkVersion(y)' /\ (Past(w) \/ w = v)
        BY <2>1, <2>2, <3>1 DEF DirInv, WorkersOK
      <4>2. Past(w)'
        BY <2>1, <4>1 DEF PastStay
      <4> QED
        BY <4>1, <4>2 DEF Past
    <3>2. ASSUME NEW y \in Runners, NEW z \in Runners, y # z,
                 runner'[y].pc \in Working, runner'[z].pc \in Working
          PROVE  WorkVersion(y)' # WorkVersion(z)'
      BY <2>1, <2>2, <3>2 DEF DirInv, WorkersOK
    <3> QED
      BY <3>1, <3>2 DEF WorkersOK
  <2>5. \A b \in directories : b.version \in Versions /\ b.version # v
    BY <2>1 DEF DirInv, FilesOK, TypeInv, TypeOK
  <2>6. \A m \in manifests : m.version # v
    BY <2>1 DEF VersionsOK
  <2>7. FilesOK'
    <3>1. \A b \in directories' : Past(b.version)'
      BY <1>1, <2>5 DEF DirInv, FilesOK, PastStay
    <3>2. \A y \in Runners : runner'[y].pc \in Early =>
            \A b \in directories' : b.version # WorkVersion(y)'
      BY <1>1, <2>1, <2>3, <2>5 DEF DirInv, FilesOK
    <3>3. \A y \in Runners : runner'[y].pc \in {"built", "registered"} =>
            \/ [version |-> WorkVersion(y)', revs |-> runner'[y].seen] \in directories'
            \/ \E d \in DocsOf(runner'[y].seen) : Deleted(d)'
      <4> SUFFICES ASSUME NEW y \in Runners, runner'[y].pc \in {"built", "registered"}
                   PROVE  \/ [version |-> WorkVersion(y)', revs |-> runner'[y].seen] \in directories'
                          \/ \E d \in DocsOf(runner'[y].seen) : Deleted(d)'
        OBVIOUS
      <4>1. y # x /\ runner'[y] = runner[y] /\ WorkVersion(y)' = WorkVersion(y)
        BY <2>1, <2>3
      <4>2. \A d \in DocsOf(runner[y].seen) : d \in Docs
        <5>1. runner[y].seen \subseteq Revs
          BY Rows DEF TypeInv, Process
        <5> QED
          BY <5>1, ConstantsOK DEF DocsOf
      <4>3. \A d \in DocsOf(runner[y].seen) : Deleted(d) => Deleted(d)'
        BY <1>2, <4>2 DEF SameForIndex
      <4> QED
        BY <1>1, <4>1, <4>3 DEF DirInv, FilesOK
    <3> QED
      BY <1>1, <3>1, <3>2, <3>3 DEF DirInv, FilesOK, DocsOf, Deleted
  <2>8. ListsOK'
    <3>1. \A y \in Runners : runner'[y].pc \in Early \cup {"built"} =>
            \A m \in manifests' : m.version # WorkVersion(y)'
      BY <1>1, <2>1, <2>3, <2>6 DEF DirInv, ListsOK
    <3>2. \A y \in Runners : runner'[y].pc = "registered" =>
            \A m \in manifests' : m.version = WorkVersion(y)' => m.revs = runner'[y].seen
      BY <1>1, <2>1, <2>3 DEF DirInv, ListsOK
    <3> QED
      BY <3>1, <3>2 DEF ListsOK
  <2> QED
    BY <2>4, <2>7, <2>8 DEF DirInv
<1> QED
  BY <1>3, <1>4

\* The process of x moves on to its next stage with the same work.
LEMMA Advances ==
    ASSUME TypeInv, DirInv, NEW x \in Runners, NEW pc \in Working, runner' = At(x, pc),
           runner[x].pc \in Working, UNCHANGED <<job, revision>>
    PROVE  /\ WorkersOK'
           /\ runner'[x].pc = pc /\ runner'[x].seen = runner[x].seen
           /\ \A y \in Runners \ {x} : runner'[y] = runner[y]
           /\ \A y \in Runners : WorkVersion(y)' = WorkVersion(y)
           /\ \A y \in Runners \ {x} : runner[y].pc \in Working =>
                WorkVersion(y) # WorkVersion(x)
<1>1. /\ runner'[x].pc = pc /\ runner'[x].seen = runner[x].seen
      /\ runner'[x].job = runner[x].job /\ runner'[x].attempt = runner[x].attempt
      /\ \A y \in Runners \ {x} : runner'[y] = runner[y]
  BY AtType DEF TypeInv
<1>2. \A y \in Runners : WorkVersion(y)' = WorkVersion(y)
  BY <1>1 DEF WorkVersion
<1>3. \A y \in Runners : runner'[y].pc \in Working => runner[y].pc \in Working
  BY <1>1
<1>4. \A y \in Runners : Past(WorkVersion(y)) => Past(WorkVersion(y))'
  BY <1>2 DEF Past
<1>5. WorkersOK'
  BY <1>2, <1>3, <1>4 DEF DirInv, WorkersOK
<1> QED
  BY <1>1, <1>2, <1>5 DEF DirInv, WorkersOK

LEMMA DirBuild ==
    ASSUME TypeInv, DirInv, NEW x \in Runners, Build(x)
    PROVE  DirInv'
<1>1. PICK new : new = [version |-> WorkVersion(x), revs |-> runner[x].seen]
  OBVIOUS
<1>2. /\ runner[x].pc = "read" /\ runner' = At(x, "built")
      /\ directories' = directories \cup {new}
      /\ UNCHANGED <<doc, job, revision, manifests>>
  BY <1>1 DEF Build, docVars
<1>3. new.version = WorkVersion(x)
  BY <1>1
<1>4. /\ WorkersOK'
      /\ runner'[x].pc = "built" /\ runner'[x].seen = runner[x].seen
      /\ \A y \in Runners \ {x} : runner'[y] = runner[y]
      /\ \A y \in Runners : WorkVersion(y)' = WorkVersion(y)
      /\ \A y \in Runners \ {x} : runner[y].pc \in Working => WorkVersion(y) # WorkVersion(x)
  BY <1>2, Advances DEF Working
<1>5. \A b \in directories : b.version # WorkVersion(x)
  BY <1>2 DEF DirInv, FilesOK, Early
<1>6. \A b \in directories' : Past(b.version)'
  <2>1. \A b \in directories' : Past(b.version)
    BY <1>2, <1>3 DEF DirInv, FilesOK, WorkersOK, Working
  <2> QED
    BY <1>2, <2>1 DEF Past
<1>7. \A b, c \in directories' : b.version = c.version => b = c
  BY <1>2, <1>3, <1>5 DEF DirInv, FilesOK
<1>8. \A y \in Runners : runner'[y].pc \in Early =>
        \A b \in directories' : b.version # WorkVersion(y)'
  BY <1>2, <1>3, <1>4 DEF DirInv, FilesOK, Early, Working
<1>9. \A y \in Runners : runner'[y].pc \in {"built", "registered"} =>
        \/ [version |-> WorkVersion(y), revs |-> runner'[y].seen] \in directories'
        \/ \E d \in DocsOf(runner'[y].seen) : Deleted(d)
  BY <1>1, <1>2, <1>4 DEF DirInv, FilesOK
<1>10. FilesOK'
  BY <1>2, <1>4, <1>6, <1>7, <1>8, <1>9 DEF FilesOK, DocsOf, Deleted
<1>11. ListsOK'
  BY <1>2, <1>4 DEF DirInv, ListsOK, Early
<1> QED
  BY <1>4, <1>10, <1>11 DEF DirInv

LEMMA DirRegister ==
    ASSUME TypeInv, DirInv, NEW x \in Runners, Register(x)
    PROVE  DirInv'
<1>1. PICK new : new = [version |-> WorkVersion(x), revs |-> runner[x].seen,
                        status |-> "ready"]
  OBVIOUS
<1>2. /\ runner[x].pc = "built" /\ runner' = At(x, "registered")
      /\ manifests' = manifests \cup {new}
      /\ UNCHANGED <<doc, job, revision, directories>>
  BY <1>1 DEF Register, docVars
<1>3. new.version = WorkVersion(x) /\ new.revs = runner[x].seen
  BY <1>1
<1>4. /\ WorkersOK'
      /\ runner'[x].pc = "registered" /\ runner'[x].seen = runner[x].seen
      /\ \A y \in Runners \ {x} : runner'[y] = runner[y]
      /\ \A y \in Runners : WorkVersion(y)' = WorkVersion(y)
      /\ \A y \in Runners \ {x} : runner[y].pc \in Working => WorkVersion(y) # WorkVersion(x)
  BY <1>2, Advances DEF Working
<1>5. FilesOK'
  <2>1. \A b \in directories' : Past(b.version)'
    BY <1>2 DEF DirInv, FilesOK, Past
  <2>2. \A y \in Runners : runner'[y].pc \in {"built", "registered"} =>
          \/ [version |-> WorkVersion(y), revs |-> runner'[y].seen] \in directories'
          \/ \E d \in DocsOf(runner'[y].seen) : Deleted(d)
    BY <1>2, <1>4 DEF DirInv, FilesOK
  <2>3. \A y \in Runners : runner'[y].pc \in Early =>
          \A b \in directories' : b.version # WorkVersion(y)'
    BY <1>2, <1>4 DEF DirInv, FilesOK, Early
  <2> QED
    BY <1>2, <1>4, <2>1, <2>2, <2>3 DEF DirInv, FilesOK, DocsOf, Deleted
<1>6. ListsOK'
  <2>1. \A y \in Runners : runner'[y].pc \in Early \cup {"built"} =>
          \A m \in manifests' : m.version # WorkVersion(y)'
    BY <1>2, <1>3, <1>4 DEF DirInv, ListsOK, Early, Working
  <2>2. \A m \in manifests : m.version # WorkVersion(x)
    BY <1>2 DEF DirInv, ListsOK
  <2>3. \A y \in Runners : runner'[y].pc = "registered" =>
          \A m \in manifests' : m.version = WorkVersion(y)' => m.revs = runner'[y].seen
    BY <1>2, <1>3, <1>4, <2>2 DEF DirInv, ListsOK, Working
  <2> QED
    BY <2>1, <2>3 DEF ListsOK
<1> QED
  BY <1>4, <1>5, <1>6 DEF DirInv

\* What users, and runners at their work, leave alone
LEMMA UserFrame ==
    ASSUME NEW d \in Docs, UserStep(d)
    PROVE  /\ UNCHANGED <<manifests, directories, active, traced>>
           /\ (\A r \in Revs : ~ParseSucceeds(r)) => revision' = revision
BY DEF UserStep, ParseStep, ParseMoves, ParseFails, ParseSucceeds, Reparse, Approve, Delete,
       indexVars

LEMMA WorkFrame ==
    ASSUME NEW x \in Runners, WorkStep(x)
    PROVE  /\ UNCHANGED <<revision, traced>>
           /\ ~Build(x) => directories' = directories
           /\ ~Register(x) /\ ~Activate(x) => manifests' = manifests
           /\ ~Activate(x) => active' = active
BY DEF WorkStep, Claim, Embed, ProviderFails, ReadDocuments, Build, Register, Activate,
       StepRaises, GiveUp, Escapes, docVars, indexVars

\* Deletion is for ever.
LEMMA DeletedStays ==
    ASSUME TypeInv, DocsOK, [Next]_vars
    PROVE  \A d \in Docs : Deleted(d) => Deleted(d)'
<1>1. ASSUME NEW e \in Docs, Delete(e) PROVE \A d \in Docs : Deleted(d) => Deleted(d)'
  <2>1. doc' = [doc EXCEPT ![e] = DeletedRow(doc[e])] /\ ~Deleted(e)
    BY <1>1 DEF Delete
  <2> QED
    BY <2>1 DEF TypeInv, TypeOK, Deleted
<1>2. ASSUME NEW x \in Runners, Activate(x) PROVE \A d \in Docs : Deleted(d) => Deleted(d)'
  BY <1>2, ScopePublished
<1>3. ASSUME NEW d \in Docs, Cleanup(d) PROVE doc' = doc
  BY <1>3 DEF Cleanup
<1>4. ASSUME ~ \E e \in Docs : Delete(e) \/ Cleanup(e), ~ \E x \in Runners : Activate(x)
      PROVE  SameForIndex
  BY <1>4, UserSame, WorkSame, RestSame, RollsBackSame DEF Next, CleanupStep
<1> QED
  BY <1>1, <1>2, <1>3, <1>4 DEF SameForIndex, Deleted

\* Directories only go with a deleted document, and only a build writes one.
LEMMA DirectoriesGo ==
    ASSUME TypeInv, [Next]_vars, \A x \in Runners : ~Build(x)
    PROVE  /\ directories' \subseteq directories
           /\ \A b \in directories \ directories' : \E m \in manifests :
                m.version = b.version /\ \E d \in DocsOf(m.revs) : Deleted(d)
<1>1. ASSUME NEW d \in Docs, CleanupStep(d)
      PROVE  /\ directories' \subseteq directories
             /\ \A b \in directories \ directories' : \E m \in manifests :
                  m.version = b.version /\ \E e \in DocsOf(m.revs) : Deleted(e)
  BY <1>1 DEF CleanupStep, Cleanup, CleanupRollsBack, Remaining, Affected
<1>2. ASSUME \A d \in Docs : ~CleanupStep(d) PROVE directories' = directories
  BY <1>2, UserFrame, WorkFrame, RestSame DEF Next
<1> QED
  BY <1>1, <1>2

\* No manifest changes what it lists, and only a registration makes one.
LEMMA ManifestsKeep ==
    ASSUME TypeInv, VersionsOK, [Next]_vars, \A x \in Runners : ~Register(x)
    PROVE  \A n \in manifests' : \E m \in manifests :
             m.version = n.version /\ m.revs = n.revs
<1>1. ASSUME NEW x \in Runners, Activate(x)
      PROVE  \A n \in manifests' : \E m \in manifests :
               m.version = n.version /\ m.revs = n.revs
  BY <1>1, Switched DEF TypeInv
<1>2. ASSUME NEW d \in Docs, Cleanup(d) PROVE manifests' \subseteq manifests
  BY <1>2 DEF Cleanup
<1>3. ASSUME \A d \in Docs : ~Cleanup(d), \A x \in Runners : ~Activate(x)
      PROVE  manifests' = manifests
  BY <1>3, UserFrame, WorkFrame, RestSame DEF Next, CleanupStep, CleanupRollsBack
<1> QED
  BY <1>1, <1>2, <1>3

LEMMA DirNext ==
    ASSUME TypeInv, TypeInv', DocsOK, VersionsOK, DirInv, [Next]_vars
    PROVE  DirInv'
<1>1. PastStay
  BY VersionsNext
<1>2. ASSUME \A x \in Runners : ~Build(x) /\ ~Register(x) /\ \A j \in Jobs : ~Claim(x, j)
      PROVE  DirInv'
  BY <1>1, <1>2, ProcessesStay, DeletedStays, DirectoriesGo, ManifestsKeep, DirKept
<1> QED
  BY <1>1, <1>2, DirClaim, DirBuild, DirRegister

-----------------------------------------------------------------------------
(* 6. Revisions in their order, and traces                                 *)

\* Revisions of a document are born in order, and what is active is older than the preview.
OrderOK ==
    /\ \A r, s \in Revs :
         DocOf[r] = DocOf[s] /\ s < r /\ revision[r] # "unborn" => revision[s] # "unborn"
    /\ \A d \in Docs : doc[d].current # None =>
         /\ revision[doc[d].current] # "unborn"
         /\ doc[d].preview # None => doc[d].current < doc[d].preview

\* Most steps give no document another active revision or preview.
RevisionsStay == \A d \in Docs :
    /\ doc'[d].current \in {doc[d].current, None}
    /\ doc'[d].preview \in {doc[d].preview, None}

LEMMA RevisionsStayed ==
    ASSUME TypeInv, [Next]_vars, \A r \in Revs : ~ParseSucceeds(r),
           \A x \in Runners : ~Activate(x)
    PROVE  RevisionsStay
<1>1. /\ doc \in [Docs -> DocRow] /\ \A d \in Docs : doc[d] \in DocRow
  BY Rows DEF TypeInv
<1>2. ASSUME NEW d \in Docs, NEW status, doc' = [doc EXCEPT ![d].status = status]
      PROVE  RevisionsStay
  BY <1>1, <1>2 DEF RevisionsStay, DocRow
<1>3. ASSUME doc' = doc PROVE RevisionsStay
  BY <1>3 DEF RevisionsStay
<1>4. ASSUME NEW d \in Docs, Delete(d) PROVE RevisionsStay
  <2>1. /\ DeletedRow(doc[d]).current = None /\ DeletedRow(doc[d]).preview = None
        /\ doc' = [doc EXCEPT ![d] = DeletedRow(doc[d])]
    BY <1>1, <1>4 DEF Delete, DeletedRow, DocRow
  <2> QED
    BY <1>1, <2>1 DEF RevisionsStay
<1>5. ASSUME NEW d \in Docs, NEW model \in Models, Approve(d, model) PROVE RevisionsStay
  BY <1>1, <1>5 DEF Approve, RevisionsStay, DocRow
<1>6. ASSUME NEW d \in Docs, UserStep(d) PROVE RevisionsStay
  <2>1. ASSUME ParseStep(d) PROVE \E status : doc' = [doc EXCEPT ![d].status = status]
    BY <2>1 DEF ParseStep, ParseMoves, ParseFails, Reparse
  <2> QED
    BY <1>2, <1>4, <1>5, <1>6, <2>1 DEF UserStep
<1>7. ASSUME NEW x \in Runners, WorkStep(x) PROVE RevisionsStay
  <2>1. ASSUME NEW j \in Jobs, Claim(x, j) PROVE RevisionsStay
    <3>1. doc' = doc \/ doc' = [doc EXCEPT ![DocOf[j[1]]].status = "indexing"]
      BY <2>1 DEF Claim
    <3> QED
      BY <1>2, <1>3, <3>1, Indices
  <2>2. CASE GiveUp(x)
    <3>1. PICK d \in Docs : d = DocOf[runner[x].job[1]]
      BY <2>2, Indices DEF GiveUp, TypeInv, WorkTyped, Working
    <3>2. doc' = doc \/ doc' = [doc EXCEPT ![d].status = "parsed_index_blocked"]
      BY <2>2, <3>1 DEF GiveUp
    <3> QED
      BY <1>2, <1>3, <3>2
  <2>3. CASE Embed(x) \/ ProviderFails(x) \/ ReadDocuments(x) \/ Build(x) \/ Register(x)
             \/ StepRaises(x) \/ Escapes(x)
    BY <1>3, <2>3 DEF Embed, ProviderFails, ReadDocuments, Build, Register, StepRaises,
                      Escapes, docVars
  <2> QED
    BY <1>7, <2>1, <2>2, <2>3 DEF WorkStep
<1>8. ASSUME \A d \in Docs : ~UserStep(d), \A x \in Runners : ~WorkStep(x) PROVE doc' = doc
  BY <1>8 DEF Next, CleanupStep, Cleanup, CleanupRollsBack, Restart, Start, Crash,
              LeaseExpires, Query, vars, docVars
<1> QED
  BY <1>3, <1>6, <1>7, <1>8

LEMMA RevisionsLive ==
    ASSUME TypeInv, [Next]_vars, \A r \in Revs : ~ParseSucceeds(r)
    PROVE  \A r \in Revs : revision'[r] = "unborn" <=> revision[r] = "unborn"
<1>1. ASSUME NEW d \in Docs, Cleanup(d)
      PROVE  \A r \in Revs : revision'[r] = "unborn" <=> revision[r] = "unborn"
  BY <1>1 DEF Cleanup
<1>2. ASSUME \A d \in Docs : ~Cleanup(d) PROVE revision' = revision
  BY <1>2, UserFrame, WorkFrame, RestSame DEF Next, CleanupStep, CleanupRollsBack
<1> QED
  BY <1>1, <1>2

LEMMA OrderNext ==
    ASSUME TypeInv, DocsOK, OrderOK, [Next]_vars
    PROVE  OrderOK'
<1>1. /\ doc \in [Docs -> DocRow] /\ \A d \in Docs : doc[d] \in DocRow
      /\ revision \in [Revs -> {"unborn", "stored", "purged"}]
  BY Rows DEF TypeInv, TypeOK
<1>2. ASSUME NEW r \in Revs, ParseSucceeds(r) PROVE OrderOK'
  <2>1. PICK d \in Docs : d = DocOf[r]
    BY ConstantsOK
  <2> DEFINE row == [doc[d] EXCEPT !.preview = r, !.status = "parsed_index_blocked"]
  <2>2. row.preview = r /\ row.current = doc[d].current
    BY <1>1 DEF DocRow
  <2>3. /\ doc' = [doc EXCEPT ![d] = row] /\ revision' = [revision EXCEPT ![r] = "stored"]
        /\ revision[r] = "unborn"
        /\ \A s \in Revs : DocOf[s] = d /\ s < r => revision[s] # "unborn"
    BY <1>1, <1>2, <2>1 DEF ParseSucceeds
  <2> HIDE DEF row
  <2>4. /\ doc'[d].preview = r /\ doc'[d].current = doc[d].current
        /\ \A e \in Docs \ {d} : doc'[e] = doc[e]
    BY <1>1, <2>2, <2>3
  <2>5. revision'[r] = "stored" /\ \A s \in Revs \ {r} : revision'[s] = revision[s]
    BY <1>1, <2>3
  <2>6. ASSUME NEW q \in Revs, NEW s \in Revs, DocOf[q] = DocOf[s], s < q,
               revision'[q] # "unborn"
        PROVE  revision'[s] # "unborn"
    BY <2>1, <2>3, <2>5, <2>6 DEF OrderOK
  <2>7. ASSUME NEW e \in Docs, doc'[e].current # None
        PROVE  /\ revision'[doc'[e].current] # "unborn"
               /\ doc'[e].preview # None => doc'[e].current < doc'[e].preview
    <3>1. PICK c \in Revs : c = doc[e].current /\ c = doc'[e].current
      <4>1. doc'[e].current = doc[e].current /\ doc[e].current \in Revs \cup {None}
        BY <1>1, <2>4 DEF DocRow
      <4> QED
        BY <2>7, <4>1
    <3>2. revision[c] # "unborn" /\ c # r /\ DocOf[c] = e
      <4>1. doc[e].current # None
        BY <2>7, <3>1
      <4>2. revision[c] # "unborn"
        BY <3>1, <4>1 DEF OrderOK
      <4>3. DocOf[c] = e
        BY <3>1, <4>1 DEF DocsOK, RowOK
      <4> QED
        BY <2>3, <4>2, <4>3
    <3>3. CASE e = d
      <4>1. ~(r < c)
        BY <2>1, <2>3, <3>2, <3>3 DEF OrderOK
      <4> QED
        BY <2>4, <2>5, <3>1, <3>2, <3>3, <4>1, ConstantsOK
    <3>4. CASE e # d
      BY <2>4, <2>5, <2>7, <3>1, <3>2, <3>4 DEF OrderOK
    <3> QED
      BY <3>3, <3>4
  <2> QED
    BY <2>6, <2>7 DEF OrderOK
<1>3. ASSUME \A r \in Revs : ~ParseSucceeds(r) PROVE OrderOK'
  <2>1. \A r, s \in Revs : DocOf[r] = DocOf[s] /\ s < r /\ revision'[r] # "unborn" =>
          revision'[s] # "unborn"
    BY <1>3, RevisionsLive DEF OrderOK
  <2>2. ASSUME NEW x \in Runners, Activate(x), NEW d \in Docs, doc'[d].current # None
        PROVE  /\ revision'[doc'[d].current] # "unborn"
               /\ doc'[d].preview # None => doc'[d].current < doc'[d].preview
    <3>1. PICK j \in Jobs : j = runner[x].job /\ j[1] \in Revs
      BY <2>2, Indices DEF Activate, TypeInv, WorkTyped, Working
    <3> DEFINE row == [doc[DocOf[j[1]]] EXCEPT !.current = j[1], !.preview = None,
                                               !.status = "ready"]
    <3>2. /\ doc' = [doc EXCEPT ![DocOf[j[1]]] = row] /\ revision' = revision
          /\ revision[j[1]] = "stored"
      BY <2>2, <3>1 DEF Activate, MayActivate
    <3>3. row.current = j[1] /\ row.preview = None
      BY <1>1, <3>1, Indices DEF DocRow
    <3> HIDE DEF row
    <3>4. CASE d = DocOf[j[1]]
      BY <1>1, <3>2, <3>3, <3>4
    <3>5. CASE d # DocOf[j[1]]
      BY <1>1, <2>2, <3>2, <3>5 DEF OrderOK
    <3> QED
      BY <3>4, <3>5
  <2>3. ASSUME \A x \in Runners : ~Activate(x), NEW d \in Docs, doc'[d].current # None
        PROVE  /\ revision'[doc'[d].current] # "unborn"
               /\ doc'[d].preview # None => doc'[d].current < doc'[d].preview
    <3>1. /\ doc'[d].current = doc[d].current /\ doc'[d].current \in Revs
          /\ doc'[d].preview \in {doc[d].preview, None}
      BY <1>1, <1>3, <2>3, RevisionsStayed DEF RevisionsStay, DocRow
    <3> QED
      BY <1>3, <2>3, <3>1, RevisionsLive DEF OrderOK
  <2> QED
    BY <2>1, <2>2, <2>3 DEF OrderOK
<1> QED
  BY <1>2, <1>3

\* Every traced version is that of a manifest, and what a trace refers to holds no
\* document whose cleanup is complete: the foreign key of the traces prevents it.
TracedOK ==
    /\ \A v \in traced : \E m \in manifests : m.version = v
    /\ \A m \in manifests : m.version \in traced =>
         \A d \in DocsOf(m.revs) : deletion[d] # "completed"

LEMMA TracedNext ==
    ASSUME TypeInv, DocsOK, VersionsOK, ActiveInv, DirInv, TracedOK, [Next]_vars
    PROVE  TracedOK'
<1>1. \A m \in manifests : \A d \in DocsOf(m.revs) : d \in Docs
  <2>1. \A m \in manifests : m.revs \subseteq Revs
    BY Rows DEF TypeInv, Manifest
  <2> QED
    BY <2>1, ConstantsOK DEF DocsOf
<1>2. ASSUME traced' = traced, \A d \in Docs : deletion'[d] = "completed" => deletion[d] = "completed",
             \A n \in manifests' : \E m \in manifests : m.version = n.version /\ m.revs = n.revs,
             \A m \in manifests : \E n \in manifests' : n.version = m.version
      PROVE  TracedOK'
  <2>1. \A v \in traced' : \E m \in manifests' : m.version = v
    BY <1>2 DEF TracedOK
  <2>2. ASSUME NEW n \in manifests', n.version \in traced', NEW d \in DocsOf(n.revs)
        PROVE  deletion'[d] # "completed"
    BY <1>1, <1>2, <2>2 DEF TracedOK
  <2> QED
    BY <2>1, <2>2 DEF TracedOK, DocsOf
<1>3. CASE Query
  <2>1. /\ UNCHANGED <<manifests, deletion>> /\ traced' = traced \cup {active}
        /\ \E m \in manifests : m.version = active
    BY <1>3 DEF Query, docVars
  <2>2. \A m \in manifests : m.version = active =>
          \A d \in DocsOf(m.revs) : deletion[d] # "completed"
    BY <1>1 DEF ActiveInv, CleanedOut
  <2> QED
    BY <2>1, <2>2 DEF TracedOK, DocsOf
<1>4. ASSUME NEW d \in Docs, Cleanup(d) PROVE TracedOK'
  <2>1. /\ manifests' = manifests \ Affected(d) /\ traced' = traced
        /\ deletion' = [deletion EXCEPT ![d] = "completed"]
        /\ \A m \in Affected(d) : m.version \notin traced
    BY <1>4 DEF Cleanup
  <2>2. \A e \in Docs \ {d} : deletion'[e] = deletion[e]
    BY <2>1 DEF TypeInv, TypeOK
  <2>3. \A v \in traced' : \E m \in manifests' : m.version = v
    BY <2>1 DEF TracedOK
  <2>4. ASSUME NEW m \in manifests', m.version \in traced', NEW e \in DocsOf(m.revs)
        PROVE  deletion'[e] # "completed"
    <3>1. m \in manifests /\ e # d
      BY <2>1, <2>4 DEF Affected
    <3> QED
      BY <1>1, <2>1, <2>2, <2>4, <3>1 DEF TracedOK
  <2> QED
    BY <2>3, <2>4 DEF TracedOK, DocsOf
<1>5. ASSUME NEW x \in Runners, Register(x) PROVE TracedOK'
  <2>1. PICK new : /\ new.version = WorkVersion(x) /\ manifests' = manifests \cup {new}
                   /\ UNCHANGED <<traced, deletion>> /\ runner[x].pc = "built"
    BY <1>5 DEF Register, docVars
  <2>2. \A m \in manifests : m.version # WorkVersion(x)
    BY <2>1 DEF DirInv, ListsOK
  <2>3. new.version \notin traced
    BY <2>1, <2>2 DEF TracedOK
  <2> QED
    BY <2>1, <2>3 DEF TracedOK, DocsOf
<1>6. ASSUME NEW x \in Runners, Activate(x) PROVE TracedOK'
  <2>1. UNCHANGED <<traced, deletion>>
    BY <1>6 DEF Activate
  <2> QED
    BY <1>2, <1>6, <2>1, Switched DEF TypeInv
<1>7. ASSUME NEW d \in Docs, Delete(d) PROVE TracedOK'
  <2>1. /\ UNCHANGED <<manifests, traced>> /\ deletion' = [deletion EXCEPT ![d] = "pending"]
    BY <1>7 DEF Delete, indexVars
  <2>2. \A e \in Docs : deletion'[e] = "completed" => deletion[e] = "completed"
    BY <2>1 DEF TypeInv, TypeOK
  <2> QED
    BY <1>2, <2>1, <2>2
<1>8. ASSUME ~Query, \A d \in Docs : ~Cleanup(d) /\ ~Delete(d),
             \A x \in Runners : ~Register(x) /\ ~Activate(x)
      PROVE  TracedOK'
  <2>1. UNCHANGED <<manifests, traced>>
    <3>1. ASSUME \/ \E d \in Docs : CleanupRollsBack(d)
                 \/ \E x \in Runners : Restart(x) \/ Crash(x)
                 \/ \E j \in Jobs : LeaseExpires(j)
                 \/ UNCHANGED vars
          PROVE  UNCHANGED <<manifests, traced>>
      BY <3>1 DEF CleanupRollsBack, Restart, Start, Crash, LeaseExpires, vars, indexVars
    <3> QED
      BY <1>8, <3>1, UserFrame, WorkFrame DEF Next, CleanupStep
  <2>2. SameForIndex
    BY <1>8, UserSame, WorkSame, RestSame, RollsBackSame DEF Next, CleanupStep
  <2> QED
    BY <1>2, <2>1, <2>2 DEF SameForIndex
<1> QED
  BY <1>3, <1>4, <1>5, <1>6, <1>7, <1>8

-----------------------------------------------------------------------------
(* 7. The theorems                                                         *)

IndexInv == TypeInv /\ DocsOK /\ VersionsOK /\ ActiveInv

LEMMA IndexInit == Init => IndexInv
<1> SUFFICES ASSUME Init PROVE IndexInv
  OBVIOUS
<1>1. TypeInv
  BY TypeInit
<1>2. DocsOK
  BY DEF Init, DocsOK, RowOK, Deleted
<1>3. manifests = {} /\ active = None /\ \A d \in Docs : deletion[d] = "none"
  BY DEF Init
<1>4. VersionsOK
  BY <1>3 DEF VersionsOK
<1>5. ActiveInv
  BY <1>3 DEF ActiveInv, OnlyActive, HasActive, ActiveMatches, CleanedOut
<1> QED
  BY <1>1, <1>2, <1>4, <1>5 DEF IndexInv

LEMMA IndexAlways == Spec => []IndexInv
<1>1. IndexInv /\ [Next]_vars => IndexInv'
  BY TypeNext, DocsNext, VersionsNext, ActiveNext DEF IndexInv
<1> QED
  BY <1>1, IndexInit, PTL DEF Spec

\* Documents, revisions, index jobs, manifests and the runners' local variables keep
\* their types (index_repository.py, runner.py).
THEOREM Types == Spec => []TypeOK
BY IndexAlways, PTL DEF IndexInv, TypeInv

\* The course points at the only active manifest, and this holds exactly the active
\* revision of each of its documents (ActivationService._switch, DocumentService.delete,
\* DeletionCleanupService.cleanup), whatever runners, users and cleanups do.
THEOREM ActiveIndexIsRight == Spec => []ActiveIndexMatches
<1>1. IndexInv => ActiveIndexMatches
  <2> SUFFICES ASSUME IndexInv, active # None
               PROVE  \E m \in manifests :
                        /\ {n \in manifests : n.status = "active"} = {m}
                        /\ m.version = active
                        /\ {r \in m.revs : ~Deleted(DocOf[r])}
                             = {doc[d].current : d \in Docs} \ {None}
    BY DEF ActiveIndexMatches
  <2>1. PICK m \in manifests : m.version = active /\ m.status = "active"
    BY DEF IndexInv, ActiveInv, HasActive
  <2>2. {n \in manifests : n.status = "active"} = {m}
    BY <2>1 DEF IndexInv, ActiveInv, OnlyActive, VersionsOK
  <2>3. Matches(m.revs) /\ m.revs \subseteq Revs
    BY <2>1, Rows DEF IndexInv, ActiveInv, ActiveMatches, TypeInv, Manifest
  <2>4. ASSUME NEW r \in m.revs, ~Deleted(DocOf[r])
        PROVE  r \in {doc[d].current : d \in Docs} \ {None}
    BY <2>3, <2>4, ConstantsOK DEF Matches
  <2>5. ASSUME NEW d \in Docs, doc[d].current # None
        PROVE  doc[d].current \in m.revs /\ ~Deleted(DocOf[doc[d].current])
    BY <2>3, <2>5 DEF Matches, IndexInv, DocsOK, RowOK
  <2> QED
    BY <2>1, <2>2, <2>4, <2>5
<1> QED
  BY <1>1, IndexAlways, PTL

\* A document whose cleanup is done is not in the index that is searched, although a
\* runner may have read its chunks before (DeletionCleanupService.cleanup against
\* IndexRunner.run_once).
THEOREM DeletedStaysOut == Spec => []DeletedIsUnsearchable
<1>1. IndexInv => DeletedIsUnsearchable
  BY DEF IndexInv, ActiveInv, CleanedOut, DeletedIsUnsearchable
<1> QED
  BY <1>1, IndexAlways, PTL

-----------------------------------------------------------------------------
(* 8. SearchableCourse: the refinement                                     *)

CourseInv == IndexInv /\ OrderOK /\ DirInv /\ TracedOK

LEMMA CourseAlways == Spec => []CourseInv
<1>1. Init => CourseInv
  <2> SUFFICES ASSUME Init PROVE CourseInv
    OBVIOUS
  <2>1. OrderOK
    BY DEF Init, OrderOK
  <2>2. \A x \in Runners : runner[x].pc = "down"
    BY DownType DEF Init
  <2>3. DirInv
    BY <2>2 DEF Init, DirInv, WorkersOK, FilesOK, ListsOK, Working, Early
  <2>4. TracedOK
    BY DEF Init, TracedOK
  <2> QED
    BY IndexInit, <2>1, <2>3, <2>4 DEF CourseInv
<1>2. CourseInv /\ [Next]_vars => CourseInv'
  <2> SUFFICES ASSUME CourseInv, [Next]_vars PROVE CourseInv'
    OBVIOUS
  <2>1. TypeInv' /\ DocsOK' /\ VersionsOK' /\ ActiveInv'
    BY TypeNext, DocsNext, VersionsNext, ActiveNext DEF CourseInv, IndexInv
  <2>2. OrderOK' /\ DirInv' /\ TracedOK'
    BY <2>1, OrderNext, DirNext, TracedNext DEF CourseInv, IndexInv
  <2> QED
    BY <2>1, <2>2 DEF CourseInv, IndexInv
<1> QED
  BY <1>1, <1>2, PTL DEF Spec

CourseStep == [Course!Next]_(Course!vars)

Readable == FilesOf(active) = {Indexed}

ActiveEvidence == {<<d, doc[d].current>> : d \in {e \in Docs : doc[e].current # None}}

LEMMA CourseInit == Init => Course!Init
<1> SUFFICES ASSUME Init PROVE Course!Init
  OBVIOUS
<1>1. /\ \A d \in Docs : doc[d].current = None /\ ~Deleted(d) /\ deletion[d] = "none"
      /\ manifests = {} /\ directories = {}
  BY DEF Init, Deleted
<1>2. ActiveRevs = {} /\ Indexed = {} /\ FilesOf(active) = {}
  BY <1>1 DEF ActiveRevs, Indexed, FilesOf
<1> QED
  BY <1>1, <1>2 DEF Course!Init, Evidence

\* Every document has at most one active revision, which is one of its own.
LEMMA OwnRevisions ==
    /\ DocsOK => Evidence(ActiveRevs) = ActiveEvidence
    /\ DocsOK' => Evidence(ActiveRevs)' = ActiveEvidence'
<1>1. ASSUME DocsOK PROVE Evidence(ActiveRevs) = ActiveEvidence
  BY <1>1 DEF Evidence, ActiveRevs, ActiveEvidence, DocsOK, RowOK
<1>2. ASSUME DocsOK' PROVE Evidence(ActiveRevs)' = ActiveEvidence'
  BY <1>2 DEF Evidence, ActiveRevs, ActiveEvidence, DocsOK, RowOK
<1> QED
  BY <1>1, <1>2

\* Seen from outside, a step that leaves the documents and the index alone is none.
LEMMA Stutters ==
    ASSUME SameForIndex, Indexed' = Indexed, Readable' <=> Readable,
           \A d \in Docs : deletion'[d] = "completed" <=> deletion[d] = "completed"
    PROVE  CourseStep
<1>1. ActiveRevs' = ActiveRevs
  BY DEF ActiveRevs, SameForIndex
<1>2. {d \in Docs : Deleted(d)}' = {d \in Docs : Deleted(d)}
  BY DEF SameForIndex
<1>3. {d \in Docs : deletion[d] = "completed"}' = {d \in Docs : deletion[d] = "completed"}
  OBVIOUS
<1> QED
  BY <1>1, <1>2, <1>3 DEF CourseStep, Course!vars, Readable, Evidence

LEMMA FrameMaps ==
    ASSUME SameForIndex, UNCHANGED <<deletion, manifests, active, directories>>
    PROVE  CourseStep
<1>1. Indexed' = Indexed /\ (Readable' <=> Readable)
  BY DEF Indexed, Readable, FilesOf
<1> QED
  BY <1>1, Stutters

\* Nobody searches what a runner has yet to register.
LEMMA FreshWork ==
    ASSUME TypeInv, ActiveInv, DirInv, NEW x \in Runners,
           runner[x].pc \in Early \cup {"built"}
    PROVE  WorkVersion(x) # active
<1>1. WorkVersion(x) # None
  BY WorkVersionType, NoneOK DEF Early, Working
<1>2. \A m \in manifests : m.version # WorkVersion(x)
  BY DEF DirInv, ListsOK
<1> QED
  BY <1>1, <1>2 DEF ActiveInv, HasActive

LEMMA BuildMaps ==
    ASSUME CourseInv, NEW x \in Runners, Build(x)
    PROVE  CourseStep
<1>1. PICK new : /\ new.version = WorkVersion(x) /\ directories' = directories \cup {new}
                 /\ runner[x].pc = "read"
                 /\ UNCHANGED <<doc, deletion, manifests, active>>
  BY DEF Build, docVars
<1>2. new.version # active
  BY <1>1, FreshWork DEF CourseInv, IndexInv, Early
<1>3. Indexed' = Indexed /\ (Readable' <=> Readable)
  <2>1. {b \in directories' : b.version = active} = {b \in directories : b.version = active}
    BY <1>1, <1>2
  <2> QED
    BY <1>1, <2>1 DEF Indexed, Readable, FilesOf
<1>4. SameForIndex
  BY <1>1 DEF SameForIndex, Deleted
<1> QED
  BY <1>1, <1>3, <1>4, Stutters

LEMMA RegisterMaps ==
    ASSUME CourseInv, NEW x \in Runners, Register(x)
    PROVE  CourseStep
<1>1. PICK new : /\ new.version = WorkVersion(x) /\ manifests' = manifests \cup {new}
                 /\ runner[x].pc = "built"
                 /\ UNCHANGED <<doc, deletion, directories, active>>
  BY DEF Register, docVars
<1>2. new.version # active
  BY <1>1, FreshWork DEF CourseInv, IndexInv
<1>3. Indexed' = Indexed
  <2>1. {m \in manifests' : m.version = active} = {m \in manifests : m.version = active}
    BY <1>1, <1>2
  <2> QED
    BY <1>1, <2>1 DEF Indexed
<1>4. Readable' <=> Readable
  BY <1>1, <1>3 DEF Readable, FilesOf
<1>5. SameForIndex
  BY <1>1 DEF SameForIndex, Deleted
<1> QED
  BY <1>1, <1>3, <1>4, <1>5, Stutters

LEMMA DeleteMaps ==
    ASSUME CourseInv, CourseInv', NEW d \in Docs, Delete(d)
    PROVE  CourseStep
<1>1. /\ doc' = [doc EXCEPT ![d] = DeletedRow(doc[d])]
      /\ deletion' = [deletion EXCEPT ![d] = "pending"]
      /\ ~Deleted(d) /\ UNCHANGED <<manifests, directories, active>>
  BY DEF Delete, indexVars
<1>2. DeletedRow(doc[d]).status = "deleting" /\ DeletedRow(doc[d]).current = None
  BY Rows DEF DeletedRow, CourseInv, IndexInv, TypeInv, DocRow
<1>3. /\ Deleted(d)' /\ doc'[d].current = None /\ deletion'[d] = "pending"
      /\ \A e \in Docs \ {d} : doc'[e] = doc[e] /\ deletion'[e] = deletion[e]
  BY <1>1, <1>2 DEF CourseInv, IndexInv, TypeInv, TypeOK, Deleted
<1>4. Evidence(ActiveRevs)' = Course!Without(Evidence(ActiveRevs), d)
  <2>1. ActiveEvidence' = Course!Without(ActiveEvidence, d)
    BY <1>3 DEF ActiveEvidence, Course!Without
  <2> QED
    BY <2>1, OwnRevisions DEF CourseInv, IndexInv
<1>5. {e \in Docs : Deleted(e)}' = {e \in Docs : Deleted(e)} \cup {d}
  BY <1>3 DEF Deleted
<1>6. {e \in Docs : deletion[e] = "completed"}' = {e \in Docs : deletion[e] = "completed"}
  BY <1>1, <1>3 DEF CourseInv, IndexInv, ActiveInv, CleanedOut
<1>7. Evidence(Indexed)' = Evidence(Indexed) /\ (Readable' <=> Readable)
  BY <1>1 DEF Indexed, Readable, FilesOf, Evidence
<1>8. Course!Delete(d)
  BY <1>1, <1>4, <1>5, <1>6, <1>7 DEF Course!Delete, Readable
<1> QED
  BY <1>8 DEF CourseStep, Course!Next

\* The index that an activation leaves is complete, on disk, and of newer revisions.
LEMMA ActivateMaps ==
    ASSUME CourseInv, CourseInv', NEW x \in Runners, Activate(x)
    PROVE  CourseStep
<1>1. PICK j \in Jobs :
        /\ j = runner[x].job /\ j[1] \in Revs
        /\ Scope(j) \subseteq Revs
        /\ \A e \in Docs : Deleted(e)' <=> Deleted(e)
        /\ \A e \in Docs \ {DocOf[j[1]]} : doc'[e] = doc[e]
        /\ doc'[DocOf[j[1]]].current = j[1]
        /\ \A r \in Scope(j) : Included(DocOf[r]) /\ doc'[DocOf[r]].current = r
        /\ \A e \in Docs : doc'[e].current # None => doc'[e].current \in Scope(j)
  BY ScopePublished DEF CourseInv, IndexInv
<1>2. PICK d \in Docs : d = DocOf[j[1]]
  BY <1>1, Indices
<1>3. PICK m \in manifests : m.version = WorkVersion(x) /\ m.revs = Scope(j)
  BY <1>1 DEF Activate, MayActivate, Candidate
<1>4. /\ runner[x].pc = "registered" /\ active' = WorkVersion(x)
      /\ Included(d) /\ doc[d].preview = j[1]
      /\ UNCHANGED <<directories, deletion>>
  BY <1>1, <1>2 DEF Activate, MayActivate
<1>5. Evidence(ActiveRevs)' = Course!Without(Evidence(ActiveRevs), d) \cup {<<d, j[1]>>}
  <2>1. j[1] # None
    BY <1>1, ConstantsOK
  <2>2. ActiveEvidence' = Course!Without(ActiveEvidence, d) \cup {<<d, j[1]>>}
    BY <1>1, <1>2, <2>1 DEF ActiveEvidence, Course!Without
  <2> QED
    BY <2>2, OwnRevisions DEF CourseInv, IndexInv
<1>6. \A e \in Evidence(ActiveRevs) : e[1] = d => e[2] <= j[1]
  <2>1. doc[d].current # None => doc[d].current < j[1]
    BY <1>1, <1>4, ConstantsOK DEF CourseInv, OrderOK
  <2>2. doc[d].current \in Revs \cup {None}
    BY Rows DEF CourseInv, IndexInv, TypeInv, DocRow
  <2>3. ASSUME NEW e \in ActiveEvidence, e[1] = d PROVE e[2] <= j[1]
    <3>1. doc[d].current # None /\ e[2] = doc[d].current
      BY <2>3 DEF ActiveEvidence
    <3>2. doc[d].current \in Nat /\ j[1] \in Nat
      BY <1>1, <2>2, <3>1, ConstantsOK
    <3> QED
      BY <2>1, <3>1, <3>2
  <2> QED
    BY <2>3, OwnRevisions DEF CourseInv, IndexInv
<1>7. Indexed' = Scope(j)
  <2>1. \A n \in manifests' : n.version = WorkVersion(x) => n.revs = Scope(j)
    BY <1>3, Switched DEF CourseInv, IndexInv, TypeInv, VersionsOK
  <2>2. \E n \in manifests' : n.version = WorkVersion(x)
    BY <1>3, Switched DEF CourseInv, IndexInv, TypeInv
  <2> QED
    BY <1>4, <2>1, <2>2 DEF Indexed
<1>8. ActiveRevs' = Scope(j)
  <2>1. \A r \in Scope(j) : DocOf[r] \in Docs /\ r # None /\ doc'[DocOf[r]].current = r
    BY <1>1, ConstantsOK
  <2> QED
    BY <1>1, <2>1 DEF ActiveRevs
<1>9. Readable'
  <2>1. runner[x].seen = Scope(j)
    BY <1>3, <1>4 DEF CourseInv, DirInv, ListsOK
  <2>2. \A e \in DocsOf(runner[x].seen) : ~Deleted(e)
    BY <1>1, <2>1 DEF DocsOf, Included
  <2>3. [version |-> WorkVersion(x), revs |-> Scope(j)] \in directories
    BY <1>4, <2>1, <2>2 DEF CourseInv, DirInv, FilesOK
  <2>4. PICK b \in directories : b.version = WorkVersion(x) /\ b.revs = Scope(j)
    BY <2>3
  <2>5. {c \in directories : c.version = WorkVersion(x)} = {b}
    BY <2>4 DEF CourseInv, DirInv, FilesOK
  <2>6. FilesOf(active)' = {Scope(j)}
    BY <1>4, <2>4, <2>5 DEF FilesOf
  <2> QED
    BY <1>7, <2>6 DEF Readable
<1>10. Course!Switch(d, j[1])
  <2>1. d \notin {e \in Docs : Deleted(e)}
    BY <1>4 DEF Included
  <2>2. Evidence(Indexed)' = Evidence(ActiveRevs)'
    BY <1>7, <1>8 DEF Evidence
  <2>3. /\ {e \in Docs : Deleted(e)}' = {e \in Docs : Deleted(e)}
        /\ {e \in Docs : deletion[e] = "completed"}' = {e \in Docs : deletion[e] = "completed"}
    BY <1>1, <1>4
  <2> QED
    BY <1>5, <1>6, <1>9, <2>1, <2>2, <2>3 DEF Course!Switch, Readable
<1> QED
  BY <1>1, <1>10 DEF CourseStep, Course!Next

\* The index holds a document when a manifest of the pointer does.
LEMMA HoldsAffected ==
    ASSUME NEW d \in Docs
    PROVE  Course!Holds(Evidence(Indexed), d) <=> \E m \in Affected(d) : m.version = active
<1>1. Course!Holds(Evidence(Indexed), d) <=> \E r \in Indexed : DocOf[r] = d
  <2>1. ASSUME NEW e \in Evidence(Indexed), e[1] = d PROVE \E r \in Indexed : DocOf[r] = d
    <3>1. PICK r \in Indexed : e = <<DocOf[r], r>>
      BY DEF Evidence
    <3> QED
      BY <2>1, <3>1
  <2>2. ASSUME NEW r \in Indexed, DocOf[r] = d PROVE \E e \in Evidence(Indexed) : e[1] = d
    <3>1. PICK e \in Evidence(Indexed) : e = <<DocOf[r], r>>
      BY DEF Evidence
    <3> QED
      BY <2>2, <3>1
  <2> QED
    BY <2>1, <2>2 DEF Course!Holds
<1>2. (\E r \in Indexed : DocOf[r] = d)
         <=> \E m \in manifests : m.version = active /\ \E r \in m.revs : DocOf[r] = d
  BY DEF Indexed
<1> QED
  BY <1>1, <1>2 DEF Affected, DocsOf

\* What a cleanup leaves of the files of the index
LEMMA FilesRemain ==
    ASSUME NEW d \in Docs, directories' = Remaining(d)
    PROVE  /\ (\E m \in Affected(d) : m.version = active) =>
                \A b \in directories' : b.version # active
           /\ ~(\E m \in Affected(d) : m.version = active) =>
                {b \in directories' : b.version = active} = {b \in directories : b.version = active}
BY DEF Remaining

LEMMA CleanupMaps ==
    ASSUME CourseInv, NEW d \in Docs, Cleanup(d)
    PROVE  CourseStep
<1> DEFINE held == \E m \in Affected(d) : m.version = active
<1>1. /\ Deleted(d) /\ manifests' = manifests \ Affected(d) /\ directories' = Remaining(d)
      /\ active' = ActiveAfter(d) /\ doc' = doc
      /\ deletion' = [deletion EXCEPT ![d] = "completed"]
  BY DEF Cleanup
<1>2. /\ \A m \in manifests : m.version # None
      /\ \A b \in directories' : b.version # None
  <2>1. \A b \in directories : b.version \in Versions
    BY DEF CourseInv, IndexInv, TypeInv, TypeOK
  <2> QED
    BY <1>1, <2>1, Rows, NoneOK DEF CourseInv, IndexInv, TypeInv, Manifest, Remaining
<1>3. Evidence(Indexed)' = IF held THEN {} ELSE Evidence(Indexed)
  <2>1. CASE held
    <3>1. active' = None /\ {m \in manifests' : m.version = active'} = {}
      BY <1>1, <1>2, <2>1 DEF ActiveAfter
    <3>2. Indexed' = {}
      BY <3>1 DEF Indexed
    <3> QED
      BY <2>1, <3>2 DEF Evidence
  <2>2. CASE ~held
    <3>1. /\ active' = active
          /\ {m \in manifests' : m.version = active} = {m \in manifests : m.version = active}
      BY <1>1, <2>2 DEF ActiveAfter
    <3>2. Indexed' = Indexed
      BY <3>1 DEF Indexed
    <3> QED
      BY <2>2, <3>2 DEF Evidence
  <2> QED
    BY <2>1, <2>2
<1>4. Readable' <=> Readable /\ ~held
  <2>1. CASE held
    <3>1. FilesOf(active)' = {}
      BY <1>1, <1>2, <2>1 DEF ActiveAfter, FilesOf
    <3> QED
      BY <2>1, <3>1 DEF Readable
  <2>2. CASE ~held
    <3>1. /\ active' = active
          /\ {m \in manifests' : m.version = active} = {m \in manifests : m.version = active}
      BY <1>1, <2>2 DEF ActiveAfter
    <3>2. {b \in directories' : b.version = active} = {b \in directories : b.version = active}
      BY <1>1, <2>2, FilesRemain
    <3> QED
      BY <2>2, <3>1, <3>2 DEF Readable, FilesOf, Indexed
  <2> QED
    BY <2>1, <2>2
<1>5. Evidence(ActiveRevs)' = Evidence(ActiveRevs)
      /\ {e \in Docs : Deleted(e)}' = {e \in Docs : Deleted(e)}
  BY <1>1 DEF Evidence, ActiveRevs, Deleted
<1>6. {e \in Docs : deletion[e] = "completed"}'
        = {e \in Docs : deletion[e] = "completed"} \cup {d}
  BY <1>1 DEF CourseInv, IndexInv, TypeInv, TypeOK
<1>7. Course!Holds(Evidence(Indexed), d) <=> held
  BY HoldsAffected
<1> HIDE DEF held
<1>8. Course!Cleanup(d)
  BY <1>1, <1>3, <1>4, <1>5, <1>6, <1>7 DEF Course!Cleanup, Readable
<1> QED
  BY <1>8 DEF CourseStep, Course!Next

LEMMA RollsBackMaps ==
    ASSUME CourseInv, NEW d \in Docs, CleanupRollsBack(d)
    PROVE  CourseStep
<1>1. /\ Deleted(d) /\ directories' = Remaining(d) /\ UNCHANGED <<doc, manifests, active>>
      /\ deletion' = [deletion EXCEPT ![d] = "retry_wait"]
      /\ \E m \in Affected(d) : m.version \in traced
  BY DEF CleanupRollsBack
<1>2. deletion[d] # "completed"
  BY <1>1 DEF CourseInv, TracedOK, Affected
<1>3. \A e \in Docs : deletion'[e] = "completed" <=> deletion[e] = "completed"
  BY <1>1, <1>2 DEF CourseInv, IndexInv, TypeInv, TypeOK
<1>4. SameForIndex
  BY RollsBackSame DEF CourseInv, IndexInv
<1>5. Indexed' = Indexed
  BY <1>1 DEF Indexed
<1>6. CASE \E m \in Affected(d) : m.version = active
  <2>1. FilesOf(active)' = {}
    BY <1>1, <1>6, FilesRemain DEF FilesOf
  <2>2. ~Readable'
    BY <2>1 DEF Readable
  <2>3. /\ Evidence(ActiveRevs)' = Evidence(ActiveRevs) /\ Evidence(Indexed)' = Evidence(Indexed)
        /\ {e \in Docs : Deleted(e)}' = {e \in Docs : Deleted(e)}
        /\ {e \in Docs : deletion[e] = "completed"}' = {e \in Docs : deletion[e] = "completed"}
    BY <1>1, <1>3, <1>5 DEF Evidence, ActiveRevs, Deleted
  <2>4. Course!Withdraw(d)
    BY <1>1, <1>6, <2>2, <2>3, HoldsAffected DEF Course!Withdraw, Readable
  <2> QED
    BY <2>4 DEF CourseStep, Course!Next
<1>7. CASE ~ \E m \in Affected(d) : m.version = active
  <2>1. {b \in directories' : b.version = active} = {b \in directories : b.version = active}
    BY <1>1, <1>7, FilesRemain
  <2>2. Readable' <=> Readable
    BY <1>1, <1>5, <2>1 DEF Readable, FilesOf
  <2> QED
    BY <1>3, <1>4, <1>5, <2>2, Stutters
<1> QED
  BY <1>6, <1>7

LEMMA CourseNext == CourseInv /\ CourseInv' /\ [Next]_vars => CourseStep
<1> SUFFICES ASSUME CourseInv, CourseInv', [Next]_vars PROVE CourseStep
  OBVIOUS
<1>1. ASSUME NEW d \in Docs, UserStep(d) PROVE CourseStep
  <2>1. CASE ~Delete(d)
    BY <1>1, <2>1, UserFrame, UserSame, FrameMaps DEF CourseInv, IndexInv
  <2> QED
    BY <2>1, DeleteMaps
<1>2. ASSUME NEW x \in Runners, WorkStep(x) PROVE CourseStep
  <2>1. CASE ~Build(x) /\ ~Register(x) /\ ~Activate(x)
    BY <1>2, <2>1, WorkFrame, WorkSame, FrameMaps DEF CourseInv, IndexInv
  <2> QED
    BY <2>1, BuildMaps, RegisterMaps, ActivateMaps
<1>3. ASSUME \/ \E x \in Runners : Restart(x) \/ Crash(x)
             \/ \E j \in Jobs : LeaseExpires(j)
             \/ Query
             \/ UNCHANGED vars
      PROVE  CourseStep
  BY <1>3, RestSame, FrameMaps DEF CourseInv, IndexInv
<1> QED
  BY <1>1, <1>2, <1>3, CleanupMaps, RollsBackMaps DEF Next, CleanupStep

\* Through crashed runners, lost leases and failed cleanups, with directories that no
\* transaction covers, the course goes in one step from one complete index, which is on
\* disk, to the next (ActivationService._switch), and loses it only to the cleanup of a
\* document in it: all steps are those of SearchableCourse or change nothing of it.
THEOREM IndexRefinesCourse == Spec => ServesTheCourse
<1>1. CourseInv /\ CourseInv' /\ [Next]_vars => [Course!Next]_(Course!vars)
  BY CourseNext DEF CourseStep
<1> QED
  BY <1>1, CourseAlways, CourseInit, PTL DEF Spec, ServesTheCourse, Course!Spec
=============================================================================
