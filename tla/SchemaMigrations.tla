-------------------------- MODULE SchemaMigrations --------------------------
(* Moving a database between revisions of its schema
   (study_agent/infrastructure/db/migrations.py, alembic/env.py) while the
   program works on it at the head revision.  upgrade_database and
   downgrade_database run every script up to the wanted revision in one
   transaction; the statements of a script are executed one after the other on
   the schema and on the rows their UPDATE and DELETE statements touch.

   Rows are kept of the tables whose rows a script changes or asks something
   of: one account, one document with its parse job and its index, the versions
   of one note with the batches and outputs that generated them, and the stored
   answers to repeated commands.  A run may want any revision, so it may commit
   after any script. *)
EXTENDS SchemaRevisions

CONSTANT MaxVersion           \* bound: versions of the note
CONSTANT MaxJob               \* bound: parse jobs of the document
ASSUME MaxVersionAssumption == MaxVersion \in Nat \ {0}
ASSUME MaxJobAssumption == MaxJob \in Nat \ {0}

NoColumn == "no column"

(* What the program's classes declare. *)
Declared == INSTANCE SchemaModels

VARIABLES
  version,   \* the committed revision, alembic_version
  database,  \* the committed schema
  rows,      \* the committed rows
  run        \* the open transaction of a migration run, or Idle

vars == <<version, database, rows, run>>

Idle == [open |-> FALSE]
Revisions == 0 .. HeadRevision

EmptySchema == [t \in {} |-> {}]

(* jobs and manifests are the rows of parse_jobs and lexical_manifests, parsedBy
   and pointers what document_revisions.parse_job_id and
   courses.active_lexical_index_id name; answers is idempotency_records. *)
NoRows ==
  [accounts |-> {}, documents |-> {}, jobs |-> {}, parsedBy |-> {}, manifests |-> {},
   pointers |-> {}, contents |-> {}, batches |-> {}, outputs |-> {}, answers |-> {}]

Largest(S) == CHOOSE x \in S : \A y \in S : y <= x

-----------------------------------------------------------------------------
(* Rows under a statement. *)

(* A new column has its default or NULL, a dropped one is no more. *)
Blanked(r, t, c, kind) ==
  LET kept(default) == IF kind = Defaulted THEN default ELSE NoColumn IN
  CASE t = "accounts" /\ c = "status" ->
         [r EXCEPT !.accounts = {[a EXCEPT !.status = kept("active")] : a \in @}]
    [] t = "documents" /\ c = "review_status" ->
         [r EXCEPT !.documents = {[d EXCEPT !.review = NoColumn] : d \in @}]
    [] t = "idempotency_records" /\ c = "actor_authentication_method" ->
         [r EXCEPT !.answers = {[a EXCEPT !.method = kept("local")] : a \in @}]
    [] t = "note_generation_batches" /\ c = "command_kind" ->
         [r EXCEPT !.batches = {[b EXCEPT !.kind = kept("create")] : b \in @}]
    [] t = "note_generation_outputs" /\ c = "note_version" ->
         [r EXCEPT !.outputs = {[o EXCEPT !.version = 0] : o \in @}]
    [] OTHER -> r

StatusOf(account) == IF account.disabled THEN "suspended" ELSE "active"

(* UPDATE statements that fill a column: 20260724_0011 derives the status of an
   account from disabled_at, 20260724_0012 approves every document, and
   20260722_0008 gives an output the version its note has now (notes.version),
   which for a note of the workflow is its largest version. *)
Filled(r, t, c) ==
  CASE t = "accounts" /\ c = "status" ->
         [r EXCEPT !.accounts =
            {[a EXCEPT !.status = StatusOf(a)] : a \in @}]
    [] t = "documents" /\ c = "review_status" ->
         [r EXCEPT !.documents = {[d EXCEPT !.review = "approved"] : d \in @}]
    [] t = "note_generation_outputs" /\ c = "note_version" ->
         [r EXCEPT !.outputs = {[o EXCEPT !.version = Largest(r.contents)] : o \in @}]
    [] OTHER -> r

Cleared(r, t, c) ==
  IF <<t, c>> = <<"document_revisions", "parse_job_id">> THEN [r EXCEPT !.parsedBy = {}] ELSE r

(* A dropped table takes its rows with it, and what they named. *)
Dropped(r, t) ==
  CASE t = "accounts"                -> [r EXCEPT !.accounts = {}]
    [] t = "courses"                 -> [r EXCEPT !.pointers = {}]
    [] t = "documents"               -> [r EXCEPT !.documents = {}]
    [] t = "document_revisions"      -> [r EXCEPT !.parsedBy = {}]
    [] t = "idempotency_records"     -> [r EXCEPT !.answers = {}]
    [] t = "parse_jobs"              -> [r EXCEPT !.jobs = {}]
    [] t = "lexical_manifests"       -> [r EXCEPT !.manifests = {}]
    [] t = "note_content_versions"   -> [r EXCEPT !.contents = {}]
    [] t = "note_generation_batches" -> [r EXCEPT !.batches = {}]
    [] t = "note_generation_outputs" -> [r EXCEPT !.outputs = {}]
    [] OTHER -> r

\* Mutant: ranked within a version, every output is the newest
NewestOfItsVersion(outputs) == outputs

(* 20260722_0008 ranks the outputs of a note and deletes all but the newest. *)
Newest(outputs) == {o \in outputs : \A p \in outputs : p.version <= o.version}

RowsAfter(r, s) ==
  CASE s.op = "add column"  -> Blanked(r, s.table, s.column, s.kind)
    [] s.op = "drop column" -> Blanked(r, s.table, s.column, Optional)
    [] s.op = "fill"        -> Filled(r, s.table, s.column)
    [] s.op = "clear"       -> Cleared(r, s.table, s.column)
    [] s.op = "drop"        -> Dropped(r, s.table)
    [] s.op = "keep newest" ->
         [r EXCEPT !.outputs = Newest(@)]
    [] OTHER -> r

(* No two rows share a new key. *)
KeyHolds(r, t, k) ==
  LET same(column, x, y) == column \in k.on => x = y IN
  CASE t = "note_generation_outputs" ->
         \A o, p \in r.outputs : same("note_version", o.version, p.version) => o = p
    [] t = "idempotency_records" ->
         \A a, b \in r.answers :
           /\ <<a.operation, a.key>> = <<b.operation, b.key>>
           /\ same("actor_authentication_method", a.method, b.method)
           => a = b
    [] OTHER -> TRUE

(* Every row a new reference is about finds its parent. *)
ReferenceHolds(r, t, parent) ==
  CASE <<t, parent>> = <<"courses", "lexical_manifests">> -> r.pointers \subseteq r.manifests
    [] <<t, parent>> = <<"document_revisions", "parse_jobs">> -> r.parsedBy \subseteq r.jobs
    [] <<t, parent>> = <<"note_generation_outputs", "note_content_versions">> ->
         {o.version : o \in r.outputs} \subseteq r.contents
    [] OTHER -> TRUE

CheckHolds(r, check) ==
  CASE check = "status_disabled" ->
         \A a \in r.accounts : a.status = "suspended" <=> a.disabled
    [] check = "retry_parent" ->
         \A b \in r.batches : b.kind \in {"retry_failed", "retry_gaps"} <=> b.retries

(* What PostgreSQL asks of the rows; a column made NOT NULL has been filled
   (rows of any table may exist). *)
RowsFit(r, blank, s) ==
  CASE s.op = "require"   -> <<s.table, s.column>> \notin blank
    [] s.op = "add key"   -> KeyHolds(r, s.table, s.key)
    [] s.op = "add ref"   -> ReferenceHolds(r, s.table, s.ref.parent)
    [] s.op = "add check" -> CheckHolds(r, s.check)
    [] OTHER -> TRUE

-----------------------------------------------------------------------------
(* Running a script. *)

BlankAfter(blank, s) ==
  IF s.op = "clear" \/ (s.op = "add column" /\ s.kind = Optional)
  THEN blank \cup {<<s.table, s.column>>}
  ELSE IF s.op = "fill" THEN blank \ {<<s.table, s.column>>}
  ELSE blank

(* One statement on [schema, rows, blank, fits]; nothing follows a statement
   that was refused. *)
Executed(work, s) ==
  IF work.fits /\ SchemaFits(work.schema, s) /\ RowsFit(work.rows, work.blank, s)
  THEN [schema |-> Changed(work.schema, s), rows |-> RowsAfter(work.rows, s),
        blank |-> BlankAfter(work.blank, s), fits |-> TRUE]
  ELSE [work EXCEPT !.fits = FALSE]

Outcome(schema, r, script) ==
  FoldLeft(Executed, [schema |-> schema, rows |-> r, blank |-> {}, fits |-> TRUE], script)

(* The schema of a revision: what its upgrades build from an empty database.
   (The choice among one has TLC evaluate the schema below first.) *)
SchemaAt[v \in Revisions] ==
  IF v = 0 THEN EmptySchema
  ELSE CHOOSE schema \in {Outcome(below, NoRows, Upgrades[v]).schema :
                            below \in {SchemaAt[v-1]}} : TRUE

(* The script a run executes next, and the revision it leads to. *)
NextScript(r) == IF r.upgrade THEN Upgrades[r.at + 1] ELSE Downgrades[r.at]
NextRevision(r) == IF r.upgrade THEN r.at + 1 ELSE r.at - 1
HasNext(r) == IF r.upgrade THEN r.at < HeadRevision ELSE r.at > 0

(* upgrade_database, downgrade_database: one transaction for the whole run. *)
Begin(up) ==
  /\ ~ run.open
  /\ run' = [open |-> TRUE, upgrade |-> up, at |-> version, schema |-> database, rows |-> rows]
  /\ HasNext(run')
  /\ UNCHANGED <<version, database, rows>>

Revise ==
  /\ run.open /\ HasNext(run)
  /\ LET out == Outcome(run.schema, run.rows, NextScript(run)) IN
     /\ out.fits
     /\ run' = [run EXCEPT !.at = NextRevision(run), !.schema = out.schema, !.rows = out.rows]
  /\ UNCHANGED <<version, database, rows>>

(* The wanted revision is reached: engine.begin() commits. *)
Commit ==
  /\ run.open /\ run.at # version
  /\ version' = run.at /\ database' = run.schema /\ rows' = run.rows
  /\ run' = Idle

\* Mutant: the scripts that ran to their end are kept
AbortKeepingScripts ==
  /\ run.open
  /\ database' = run.schema /\ rows' = run.rows
  /\ run' = Idle
  /\ UNCHANGED version

(* A statement is refused, the connection is lost or the process ends: the
   transaction is rolled back. *)
Abort ==
  /\ run.open
  /\ run' = Idle
  /\ UNCHANGED <<version, database, rows>>

-----------------------------------------------------------------------------
(* The program, which works on the head revision only. *)

Working == ~ run.open /\ version = HeadRevision

Register ==
  /\ Working /\ rows.accounts = {}
  /\ rows' = [rows EXCEPT !.accounts = {[disabled |-> FALSE, status |-> "active"]}]
  /\ UNCHANGED <<version, database, run>>

(* set_account_status writes status and disabled_at together. *)
SetStatus(status) ==
  /\ Working
  /\ \E a \in rows.accounts :
       rows' = [rows EXCEPT !.accounts =
                  {[disabled |-> status = "suspended", status |-> status]}]
  /\ UNCHANGED <<version, database, run>>

Answer(method, operation, key) == [method |-> method, operation |-> operation, key |-> key]

(* An upload is completed, a command of a user whose answer is kept under the
   method of the user's login, and its parse job is queued.  (The row the
   document has while its bytes are on their way is left out.) *)
Upload ==
  /\ Working /\ rows.documents = {}
  /\ rows' = [rows EXCEPT !.documents = {[review |-> "pending", deleted |-> FALSE]},
                         !.jobs = {1},
                         !.answers = @ \cup {Answer("local", "document.upload_complete", 1)}]
  /\ UNCHANGED <<version, database, run>>

Live(d) == ~ d.deleted

(* An administrator decides once. *)
Review(decision) ==
  /\ Working
  /\ \E d \in rows.documents :
       /\ Live(d) /\ d.review = "pending"
       /\ rows' = [rows EXCEPT !.documents = {[d EXCEPT !.review = decision]}]
  /\ UNCHANGED <<version, database, run>>

(* A worker completes a job: its answer is kept under a key made of the job, and
   a revision that names the job is built. *)
Parse ==
  /\ Working
  /\ \E d \in rows.documents : Live(d)
  /\ \E j \in rows.jobs \ rows.parsedBy :
       rows' = [rows EXCEPT !.parsedBy = @ \cup {j},
                            !.answers = @ \cup {Answer("worker", "job.complete", j)}]
  /\ UNCHANGED <<version, database, run>>

(* A new job for the document, never the name of an earlier one. *)
Reparse ==
  /\ Working
  /\ \E d \in rows.documents : Live(d)
  /\ rows.jobs \subseteq rows.parsedBy
  /\ LET job == 1 + Largest({0} \cup rows.jobs \cup {a.key : a \in rows.answers}) IN
     job <= MaxJob /\ rows' = [rows EXCEPT !.jobs = @ \cup {job}]
  /\ UNCHANGED <<version, database, run>>

(* The index of the revision is activated: the course names its manifest. *)
Activate ==
  /\ Working /\ rows.manifests = {} /\ rows.parsedBy # {}
  /\ \E d \in rows.documents : Live(d) /\ d.review = "approved"
  /\ rows' = [rows EXCEPT !.manifests = {"manifest"}, !.pointers = {"manifest"}]
  /\ UNCHANGED <<version, database, run>>

Delete ==
  /\ Working
  /\ \E d \in rows.documents :
       Live(d) /\ rows' = [rows EXCEPT !.documents = {[d EXCEPT !.deleted = TRUE]}]
  /\ UNCHANGED <<version, database, run>>

(* The cleanup of the deleted document removes its manifest, jobs and revisions
   and takes the manifest from the course (as long as no trace names it). *)
Cleanup ==
  /\ Working
  /\ \E d \in rows.documents : ~ Live(d)
  /\ rows.jobs # {} \/ rows.manifests # {}
  /\ rows' = [rows EXCEPT !.jobs = {}, !.parsedBy = {}, !.manifests = {}, !.pointers = {}]
  /\ UNCHANGED <<version, database, run>>

NextVersion == IF rows.contents = {} THEN 1 ELSE Largest(rows.contents) + 1

(* A finished batch stores the next version and the output that names it: the
   first creates the note, a later one regenerates it, and none is stored as the
   retry of another (retry_of_batch_id=None); an edit stores the next version
   only. *)
Generate ==
  /\ Working /\ NextVersion <= MaxVersion
  /\ LET kind == IF rows.contents = {} THEN "create" ELSE "regeneration" IN
     rows' = [rows EXCEPT
       !.contents = @ \cup {NextVersion},
       !.batches = @ \cup {[run |-> NextVersion, kind |-> kind, retries |-> FALSE]},
       !.outputs = @ \cup {[run |-> NextVersion, version |-> NextVersion]}]
  /\ UNCHANGED <<version, database, run>>

Edit ==
  /\ Working /\ rows.contents # {} /\ NextVersion <= MaxVersion
  /\ rows' = [rows EXCEPT !.contents = @ \cup {NextVersion}]
  /\ UNCHANGED <<version, database, run>>

-----------------------------------------------------------------------------
Init ==
  /\ version = 0 /\ database = EmptySchema /\ rows = NoRows
  /\ run = Idle

Next ==
  \/ \E up \in BOOLEAN : Begin(up)
  \/ Revise \/ Commit \/ Abort
  \/ Register \/ \E s \in {"active", "suspended"} : SetStatus(s)
  \/ Upload \/ \E d \in {"approved", "rejected"} : Review(d)
  \/ Parse \/ Reparse \/ Activate \/ Delete \/ Cleanup
  \/ Generate \/ Edit

Spec == Init /\ [][Next]_vars

-----------------------------------------------------------------------------
(* The revision whose scripts create and drop lexical_manifests, 20260719_0005. *)
Retrieval == 5

(* From every database a legal history leads to, each upgrade() and each
   downgrade() finds the tables, keys, columns and rows its statements need,
   with one exception: 20260719_0005 is refused where a course still names an
   index.  Its own downgrade() drops the indexes and leaves the names. *)
ScriptsFit ==
  run.open /\ HasNext(run) =>
    (Outcome(run.schema, run.rows, NextScript(run)).fits
       <=> ~ /\ run.upgrade /\ NextRevision(run) = Retrieval
             /\ run.rows.pointers # {})

(* The committed schema is the one its revision stands for, whichever way led
   there: downgrades undo their upgrades exactly, and a run that did not commit
   leaves nothing behind. *)
RevisionIsItsSchema == database = SchemaAt[version]

(* At the head revision the database has the tables, columns, NULLs, keys and
   references the ORM classes declare, and no others. *)
HeadIsDeclared == version = HeadRevision => database = Declared!Models

(* Once a revision has the column, an account is suspended exactly when it is
   disabled, and every output of the note names a version that is stored, each
   its own; a document revision never names a parse job that is gone, and while
   there are indexes a course names one of them.  No way up and down the
   revisions lets a suspended account in again, leaves an output without its
   text, or leaves the name of a dropped job behind. *)
RowsKeepMeaning ==
  /\ \A a \in rows.accounts : a.status # NoColumn => (a.status = "suspended" <=> a.disabled)
  /\ \A o \in rows.outputs :
       o.version # 0 =>
         /\ o.version \in rows.contents
         /\ \A p \in rows.outputs : p.version = o.version => p = o
  /\ rows.parsedBy \subseteq rows.jobs
  /\ version >= Retrieval => rows.pointers \subseteq rows.manifests

(* Rows of two tables with a column course_id meet across courses nowhere but
   in these four columns: every other reference between such tables either
   compares the course or goes along with one between the same tables that
   does.  (document_revisions has no course_id of its own, so its parse_job_id,
   which compares nothing either, is outside this.) *)
OpenColumns ==
  {<<"upload_sessions", "document_id">>, <<"parse_attempt_results", "artifact_id">>,
   <<"retrieval_snapshots", "retrieval_trace_id">>, <<"answer_dependencies", "query_id">>}

ComparesCourse(r) == \E i \in DOMAIN r.cols : r.cols[i] = "course_id" /\ r.key[i] = "course_id"

CoursesStayApart ==
  version = HeadRevision =>
    LET inCourse == {t \in DOMAIN database : "course_id" \in Columns(database[t])} IN
    \A t \in inCourse : \A r \in database[t].refs :
      r.parent \in inCourse =>
        \/ \E s \in database[t].refs : s.parent = r.parent /\ ComparesCourse(s)
        \/ \E c \in Range(r.cols) : <<t, c>> \in OpenColumns
=============================================================================
