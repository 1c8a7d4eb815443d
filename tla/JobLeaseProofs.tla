--------------------------- MODULE JobLeaseProofs ---------------------------
(***************************************************************************)
(* Proofs about JobLease, for any documents, jobs, workers, page counts    *)
(* and max_attempts.                                                       *)
(*   1-2   what each row operator does to the columns; the types           *)
(*   3     the leases of a job are fenced                                  *)
(*   4-6   a document has one live job at a time, a deleted one has none   *)
(*   7-8   a revision is whole; an attempt that resumes a job is asked for *)
(*         every page still missing                                        *)
(*   9-11  every job implements FencedTask                                 *)
(***************************************************************************)
EXTENDS JobLease, FiniteSetTheorems, TLAPS

-----------------------------------------------------------------------------
(* 1. Rows                                                                 *)

LEMMA Statuses ==
    /\ {"none", "purged"} \cup Live \cup Terminal \subseteq JobStatus
    /\ Live = {"queued", "leased", "parsing", "retry_wait"}
    /\ Terminal = {"succeeded", "partial_failed", "failed", "cancelled"}
    /\ Held = {"leased", "parsing"}
BY DEF JobStatus, Live, Terminal, Held

LEMMA RowFields ==
    ASSUME NEW row \in JobRow
    PROVE  /\ row.status \in JobStatus /\ row.doc \in Docs
           /\ row.version \in Nat /\ row.version + 1 \in Nat /\ row.version + 2 \in Nat
           /\ row.lease \in Nat /\ row.lease + 1 \in Nat
           /\ row.attempt \in 0..MaxAttempts /\ row.token \in Nat
           /\ row.owner \in Workers \cup {NoWorker}
           /\ row.profile \in Profile /\ row.epoch \in {0, 1}
           /\ row.requested \in SUBSET Pages /\ row.total \in 0..MaxPages
           /\ row.expired \in BOOLEAN /\ row.due \in BOOLEAN
BY DEF JobRow

\* The columns no handler but claim, enqueue and a partial completion writes
Keeps(old, new) ==
    /\ new.doc = old.doc /\ new.attempt = old.attempt /\ new.epoch = old.epoch
    /\ new.requested = old.requested /\ new.profile = old.profile

Released(row) == row.owner = NoWorker /\ row.token = 0 /\ row.expired = FALSE

LEMMA ClearedRow ==
    ASSUME NEW row \in JobRow
    PROVE  /\ ClearLease(row) \in JobRow
           /\ Released(ClearLease(row)) /\ Keeps(row, ClearLease(row))
           /\ ClearLease(row).lease = row.lease
           /\ ClearLease(row).status = row.status
           /\ ClearLease(row).version = row.version
BY DEF ClearLease, JobRow, Released, Keeps

LEMMA FailedRowFacts ==
    ASSUME NEW row \in JobRow
    PROVE  /\ FailedRow(row) \in JobRow /\ FailedRow(row).status = "failed"
           /\ Released(FailedRow(row)) /\ Keeps(row, FailedRow(row))
           /\ FailedRow(row).lease = row.lease
<1> DEFINE cleared == ClearLease(row)
<1>1. "failed" \in JobStatus /\ row.version + 1 \in Nat
  BY RowFields, Statuses
<1>2. cleared \in JobRow /\ Released(cleared) /\ Keeps(row, cleared)
      /\ cleared.lease = row.lease
  BY ClearedRow
<1> HIDE DEF cleared
<1>3. LET new == [cleared EXCEPT !.status = "failed", !.version = row.version + 1]
      IN  /\ new \in JobRow /\ Released(new) /\ Keeps(row, new)
          /\ new.lease = row.lease /\ new.status = "failed"
  BY <1>1, <1>2 DEF JobRow, Released, Keeps
<1> QED
  BY <1>3 DEF FailedRow, cleared

LEMMA LeasedRowFacts ==
    ASSUME NEW row \in JobRow, NEW w \in Workers, NEW pages \in SUBSET Pages,
           row.attempt + 1 \in Attempts
    PROVE  LET new == LeasedRow(row, w, pages) IN
           /\ new \in JobRow /\ new.status = "leased"
           /\ new.owner = w /\ new.attempt = row.attempt + 1
           /\ new.lease = row.lease + 1 /\ new.token = row.lease + 1
           /\ new.requested = pages /\ ~new.expired
           /\ new.doc = row.doc /\ new.epoch = row.epoch /\ new.profile = row.profile
<1>1. /\ "leased" \in JobStatus
      /\ row.attempt + 1 \in 0..MaxAttempts
  BY ConstantsOK, Statuses DEF Attempts
<1> QED
  BY <1>1, RowFields DEF LeasedRow, JobRow

LEMMA StartedRowFacts ==
    ASSUME NEW row \in JobRow
    PROVE  LET new == StartedRow(row) IN
           /\ new \in JobRow /\ new.status = "parsing" /\ Keeps(row, new)
           /\ new.owner = row.owner /\ new.token = row.token /\ new.lease = row.lease
<1>1. "parsing" \in JobStatus
  BY Statuses
<1> QED
  BY <1>1, RowFields DEF StartedRow, JobRow, Keeps

LEMMA AliveRowFacts ==
    ASSUME NEW row \in JobRow, NEW total \in 0..MaxPages
    PROVE  LET new == AliveRow(row, total) IN
           /\ new \in JobRow /\ new.status = row.status /\ Keeps(row, new)
           /\ new.owner = row.owner /\ new.token = row.token /\ new.lease = row.lease
BY DEF AliveRow, JobRow, Keeps

LEMMA EndedRowFacts ==
    ASSUME NEW row \in JobRow, NEW retrying \in BOOLEAN,
           NEW status \in {"failed", "partial_failed"}
    PROVE  LET new == EndedRow(row, retrying, status) IN
           /\ new \in JobRow /\ Released(new) /\ Keeps(row, new) /\ new.lease = row.lease
           /\ new.status = IF retrying THEN "retry_wait" ELSE status
<1> DEFINE s == IF retrying THEN "retry_wait" ELSE status
           cleared == ClearLease(row)
<1>1. s \in JobStatus /\ row.version + 1 \in Nat /\ (row.due /\ ~retrying) \in BOOLEAN
  BY RowFields, Statuses
<1>2. cleared \in JobRow /\ Released(cleared) /\ Keeps(row, cleared)
      /\ cleared.lease = row.lease
  BY ClearedRow
<1> HIDE DEF s, cleared
<1>3. LET new == [cleared EXCEPT !.status = s, !.version = row.version + 1,
                                 !.due = row.due /\ ~retrying]
      IN  /\ new \in JobRow /\ Released(new) /\ Keeps(row, new)
          /\ new.lease = row.lease /\ new.status = s
  BY <1>1, <1>2 DEF JobRow, Released, Keeps
<1> QED
  BY <1>3 DEF EndedRow, s, cleared

LEMMA SucceededRowFacts ==
    ASSUME NEW row \in JobRow, NEW total \in 0..MaxPages
    PROVE  LET new == SucceededRow(row, total) IN
           /\ new \in JobRow /\ Released(new) /\ Keeps(row, new) /\ new.lease = row.lease
           /\ new.status = "succeeded"
<1> DEFINE cleared == ClearLease(row)
<1>1. "succeeded" \in JobStatus /\ row.version + 1 \in Nat
  BY RowFields, Statuses
<1>2. cleared \in JobRow /\ Released(cleared) /\ Keeps(row, cleared)
      /\ cleared.lease = row.lease
  BY ClearedRow
<1> HIDE DEF cleared
<1>3. LET new == [cleared EXCEPT !.status = "succeeded", !.version = row.version + 1,
                                 !.total = total]
      IN  /\ new \in JobRow /\ Released(new) /\ Keeps(row, new)
          /\ new.lease = row.lease /\ new.status = "succeeded"
  BY <1>1, <1>2 DEF JobRow, Released, Keeps
<1> QED
  BY <1>3 DEF SucceededRow, cleared

LEMMA PartialRowFacts ==
    ASSUME NEW row \in JobRow, NEW total \in 0..MaxPages,
           NEW missing \in SUBSET Pages, NEW profile \in Profile
    PROVE  LET new == PartialRow(row, total, missing, profile) IN
           /\ new \in JobRow /\ new.status = row.status /\ new.doc = row.doc
           /\ new.attempt = row.attempt /\ new.lease = row.lease /\ new.epoch = row.epoch
           /\ Released(row) => Released(new)
BY DEF PartialRow, JobRow, Released

LEMMA CancelledRowFacts ==
    ASSUME NEW row \in JobRow
    PROVE  LET new == CancelledRow(row) IN
           /\ new \in JobRow /\ Released(new) /\ Keeps(row, new)
           /\ new.status = "cancelled" /\ new.lease = row.lease + 1
<1> DEFINE cleared == ClearLease(row)
<1>1. "cancelled" \in JobStatus /\ row.version + 1 \in Nat /\ row.lease + 1 \in Nat
  BY RowFields, Statuses
<1>2. cleared \in JobRow /\ Released(cleared) /\ Keeps(row, cleared)
  BY ClearedRow
<1> HIDE DEF cleared
<1>3. LET new == [cleared EXCEPT !.status = "cancelled", !.version = row.version + 1,
                                 !.lease = row.lease + 1]
      IN  /\ new \in JobRow /\ Released(new) /\ Keeps(row, new)
          /\ new.status = "cancelled" /\ new.lease = row.lease + 1
  BY <1>1, <1>2 DEF JobRow, Released, Keeps
<1> QED
  BY <1>3 DEF CancelledRow, cleared

LEMMA NewJobFacts ==
    ASSUME TypeOK, NEW d \in Docs, NEW profile \in Profile, NEW pages \in SUBSET Pages
    PROVE  LET new == NewJob(d, profile, pages) IN
           /\ new \in JobRow /\ Released(new) /\ new.status = "queued"
           /\ new.attempt = 0 /\ new.doc = d
<1>1. /\ doc[d].epoch \in {0, 1} /\ "queued" \in JobStatus
      /\ NoWorker \in Workers \cup {NoWorker}
      /\ 0 \in 0..MaxAttempts /\ 0 \in 0..MaxPages
  BY Statuses, ConstantsOK DEF TypeOK, DocRow
<1> QED
  BY <1>1 DEF NewJob, JobRow, Released

LEMMA PurgedRowFacts ==
    ASSUME NEW row \in JobRow
    PROVE  LET new == [row EXCEPT !.status = "purged"] IN
           /\ new \in JobRow /\ new.status = "purged" /\ Keeps(row, new)
           /\ new.owner = row.owner /\ new.token = row.token
           /\ new.expired = row.expired /\ new.lease = row.lease
<1>1. "purged" \in JobStatus
  BY Statuses
<1> QED
  BY <1>1 DEF JobRow, Keeps

LEMMA ExpiredRowFacts ==
    ASSUME NEW row \in JobRow
    PROVE  LET new == [row EXCEPT !.expired = TRUE] IN
           /\ new \in JobRow /\ new.status = row.status /\ Keeps(row, new)
           /\ new.owner = row.owner /\ new.token = row.token /\ new.lease = row.lease
BY DEF JobRow, Keeps

LEMMA DueRowFacts ==
    ASSUME NEW row \in JobRow
    PROVE  LET new == [row EXCEPT !.due = TRUE] IN
           /\ new \in JobRow /\ new.status = row.status /\ Keeps(row, new)
           /\ new.owner = row.owner /\ new.token = row.token /\ new.lease = row.lease
           /\ new.expired = row.expired
BY DEF JobRow, Keeps

-----------------------------------------------------------------------------
(* 2. Types                                                                *)

\* A job that was not handed out yet has used no attempt: a requeue and the lease
\* that follows it are one transaction, so "queued" rows are always new ones.
Fresh == \A j \in Jobs : job[j].status \in {"none", "queued"} => job[j].attempt = 0

TypeInv == TypeOK /\ Fresh

LEMMA ReportedTotalsType ==
    ASSUME TypeOK, NEW l \in granted, NEW total \in ReportedTotals(l)
    PROVE  total \in 0..MaxPages
<1>1. l \in Lease
  BY DEF TypeOK
<1>2. l.requested \in SUBSET (1..MaxPages) /\ job[l.job].doc \in Docs
  BY <1>1 DEF TypeOK, Lease, JobRow, Pages
<1>3. Cardinality(l.requested) \in 0..MaxPages
  <2>1. IsFiniteSet(1..MaxPages) /\ Cardinality(1..MaxPages) = MaxPages
    BY FS_Interval, ConstantsOK
  <2>2. Cardinality(l.requested) <= MaxPages
    BY <1>2, <2>1, FS_Subset
  <2>3. Cardinality(l.requested) \in Nat
    BY <1>2, <2>1, FS_Subset, FS_CardinalityType
  <2> QED
    BY <2>2, <2>3, ConstantsOK
<1>4. PageCount[job[l.job].doc] \in 0..MaxPages
  BY <1>2, ConstantsOK
<1> QED
  BY <1>3, <1>4, ConstantsOK DEF ReportedTotals

LEMMA RemainingType ==
    ASSUME TypeOK, NEW j \in Jobs
    PROVE  RemainingPages(j) \in SUBSET Pages
<1>1. job[j] \in JobRow
  BY DEF TypeOK
<1>2. 1..job[j].total \subseteq Pages
  BY <1>1, ConstantsOK DEF JobRow, Pages
<1> QED
  BY <1>1, <1>2 DEF RemainingPages, JobRow

\* What every command knows of the lease it comes under
LEMMA CommandTypes ==
    ASSUME TypeOK, NEW l \in granted
    PROVE  /\ l.job \in Jobs /\ l.worker \in Workers /\ l.attempt \in Attempts
           /\ job[l.job] \in JobRow /\ job[l.job].doc \in Docs
           /\ PageCount[job[l.job].doc] \in 1..MaxPages
           /\ PageCount[job[l.job].doc] \in 0..MaxPages
<1>1. l \in Lease
  BY DEF TypeOK
<1>2. l.job \in Jobs /\ l.worker \in Workers /\ l.attempt \in Attempts
  BY <1>1 DEF Lease
<1>3. job[l.job] \in JobRow /\ job[l.job].doc \in Docs
  BY <1>2, RowFields DEF TypeOK
<1> QED
  BY <1>2, <1>3, ConstantsOK

LEMMA DocStatusType ==
    ASSUME TypeOK, NEW j \in Jobs, NEW status \in DocStatus
    PROVE  SetDocStatus(j, status) \in [Docs -> DocRow]
<1>1. job[j].doc \in Docs
  BY RowFields DEF TypeOK
<1> QED
  BY <1>1 DEF TypeOK, DocRow, SetDocStatus

LEMMA DocRowUpdate ==
    ASSUME NEW row \in DocRow, NEW status \in DocStatus, NEW j \in Jobs
    PROVE  /\ [row EXCEPT !.status = status, !.latest = j] \in DocRow
           /\ [row EXCEPT !.status = status, !.preview = j] \in DocRow
BY DEF DocRow

\* Replacing one row by a well-typed one that is not "queued"
LEMMA TypeRowStep ==
    ASSUME TypeInv, NEW j \in Jobs, NEW row \in JobRow,
           row.status \notin {"none", "queued"},
           job' = [job EXCEPT ![j] = row]
    PROVE  job' \in [Jobs -> JobRow] /\ Fresh'
BY DEF TypeInv, TypeOK, Fresh

LEMMA TypeEnqueue ==
    ASSUME TypeInv, NEW d \in Docs, NEW j \in Jobs, NEW profile \in Profile,
           NEW pages \in SUBSET Pages, Enqueue(d, j, profile, pages)
    PROVE  TypeInv'
<1> DEFINE row == NewJob(d, profile, pages)
<1>1. row \in JobRow /\ row.attempt = 0
  BY NewJobFacts DEF TypeInv
<1>2. "queued" \in DocStatus /\ j \in Jobs \cup {NoJob}
  BY DEF DocStatus
<1>3. doc' \in [Docs -> DocRow]
  BY <1>2, DocRowUpdate DEF Enqueue, TypeInv, TypeOK
<1>4. job' = [job EXCEPT ![j] = row]
  BY DEF Enqueue
<1> HIDE DEF row
<1>5. job' \in [Jobs -> JobRow] /\ Fresh'
  BY <1>1, <1>4 DEF TypeInv, TypeOK, Fresh
<1> QED
  BY <1>3, <1>5 DEF Enqueue, TypeInv, TypeOK

LEMMA TypeClaim ==
    ASSUME TypeInv, NEW w \in Workers, NEW passed \in SUBSET Jobs,
           \/ ClaimNothing(w, passed)
           \/ \E j \in Jobs : ClaimLease(w, j, passed)
    PROVE  TypeInv'
<1>1. \A k \in Jobs : FailedRow(job[k]) \in JobRow /\ FailedRow(job[k]).status = "failed"
  BY FailedRowFacts DEF TypeInv, TypeOK
<1>2. doc' \in [Docs -> DocRow]
  <2>1. "failed" \in DocStatus
    BY DEF DocStatus
  <2>2. \A d \in Docs : [doc[d] EXCEPT !.status = "failed"] \in DocRow
    BY <2>1 DEF TypeInv, TypeOK, DocRow
  <2>3. doc' = [d \in Docs |-> IF \E k \in passed : job[k].doc = d
                               THEN [doc[d] EXCEPT !.status = "failed"] ELSE doc[d]]
    BY DEF ClaimLease, ClaimNothing
  <2> QED
    BY <2>2, <2>3 DEF TypeInv, TypeOK
<1>3. CASE ClaimNothing(w, passed)
  BY <1>1, <1>2, <1>3 DEF ClaimNothing, TypeInv, TypeOK, Fresh
<1>4. ASSUME NEW j \in Jobs, ClaimLease(w, j, passed) PROVE TypeInv'
  <2>1. job[j] \in JobRow
    BY DEF TypeInv, TypeOK
  <2>2. job[j].attempt + 1 \in Attempts
    BY <1>4, <2>1, ConstantsOK, RowFields
       DEF ClaimLease, Exhausted, Attempts, TypeInv, Fresh
  <2>3. RemainingPages(j) \in SUBSET Pages
    BY RemainingType DEF TypeInv
  <2>4. /\ LeasedRow(job[j], w, RemainingPages(j)) \in JobRow
        /\ LeasedRow(job[j], w, RemainingPages(j)).status = "leased"
    BY <2>1, <2>2, <2>3, LeasedRowFacts
  <2>5. GrantedLease(j, w) \in Lease
    BY <2>1, <2>2, <2>3, RowFields DEF GrantedLease, Lease
  <2>6. job' \in [Jobs -> JobRow] /\ Fresh'
    BY <1>1, <1>4, <2>4 DEF ClaimLease, TypeInv, TypeOK, Fresh
  <2> QED
    BY <1>2, <1>4, <2>5, <2>6 DEF ClaimLease, TypeInv, TypeOK
<1> QED
  BY <1>3, <1>4

LEMMA TypeCommand ==
    ASSUME TypeInv, NEW l \in granted,
           \/ Start(l)
           \/ \E total \in ReportedTotals(l) : Heartbeat(l, total)
           \/ \E p \in Pages, s \in PageState \ {"none"} : Checkpoint(l, p, s)
           \/ \E retryable \in BOOLEAN : Fail(l, retryable)
           \/ CompleteWhole(l)
           \/ CompletePartial(l)
    PROVE  TypeInv'
<1> DEFINE j == l.job
           total == PageCount[job[j].doc]
<1>1. /\ j \in Jobs /\ l.attempt \in Attempts /\ job[j] \in JobRow
      /\ job[j].doc \in Docs /\ total \in 0..MaxPages
  BY CommandTypes DEF TypeInv
<1>2. {"queued", "processing", "failed", "partial_failed", "parsed_index_blocked"}
        \subseteq DocStatus
  BY DEF DocStatus
<1>3. CASE Start(l)
  <2>1. doc' \in [Docs -> DocRow]
    BY <1>1, <1>2, <1>3, DocStatusType DEF Start, TypeInv
  <2>2. job' \in [Jobs -> JobRow] /\ Fresh'
    BY <1>1, <1>3, StartedRowFacts, TypeRowStep DEF Start
  <2> QED
    BY <1>3, <2>1, <2>2 DEF Start, TypeInv, TypeOK
<1>4. ASSUME NEW t \in ReportedTotals(l), Heartbeat(l, t) PROVE TypeInv'
  <2>1. t \in 0..MaxPages
    BY ReportedTotalsType DEF TypeInv
  <2>2. AliveRow(job[j], t) \in JobRow /\ AliveRow(job[j], t).status = "parsing"
    BY <1>1, <1>4, <2>1, AliveRowFacts DEF Heartbeat
  <2>3. job' \in [Jobs -> JobRow] /\ Fresh'
    BY <1>1, <1>4, <2>2, TypeRowStep DEF Heartbeat
  <2> QED
    BY <1>4, <2>3 DEF Heartbeat, TypeInv, TypeOK
<1>5. ASSUME NEW p \in Pages, NEW s \in PageState, Checkpoint(l, p, s) PROVE TypeInv'
  <2>1. checkpoint' \in [Jobs -> [Attempts -> [Pages -> PageState]]]
    BY <1>1, <1>5 DEF Checkpoint, TypeInv, TypeOK
  <2> QED
    BY <1>5, <2>1 DEF Checkpoint, TypeInv, TypeOK, Fresh
<1>6. ASSUME NEW retryable \in BOOLEAN, Fail(l, retryable) PROVE TypeInv'
  <2> DEFINE retrying == retryable /\ job[j].attempt < MaxAttempts
  <2>1. doc' \in [Docs -> DocRow]
    BY <1>1, <1>2, <1>6, DocStatusType DEF Fail, TypeInv
  <2>2. retrying \in BOOLEAN
    OBVIOUS
  <2>3. /\ EndedRow(job[j], retrying, "failed") \in JobRow
        /\ EndedRow(job[j], retrying, "failed").status \in {"retry_wait", "failed"}
    BY <1>1, <2>2, EndedRowFacts
  <2>4. job' \in [Jobs -> JobRow] /\ Fresh'
    BY <1>1, <1>6, <2>3, TypeRowStep DEF Fail
  <2> QED
    BY <1>6, <2>1, <2>4 DEF Fail, TypeInv, TypeOK
<1>7. CASE CompleteWhole(l)
  <2>1. doc' \in [Docs -> DocRow]
    BY <1>1, <1>2, <1>7, DocRowUpdate DEF CompleteWhole, TypeInv, TypeOK
  <2>2. job' \in [Jobs -> JobRow] /\ Fresh'
    BY <1>1, <1>7, SucceededRowFacts, TypeRowStep DEF CompleteWhole
  <2>3. pageTotal' \in [Jobs -> [Attempts -> 0..MaxPages]]
    BY <1>1, <1>7 DEF CompleteWhole, TypeInv, TypeOK
  <2>4. revision' \in [Jobs -> [Pages -> 0..MaxAttempts]]
    BY <1>1, <1>7 DEF CompleteWhole, NewestPages, TypeInv, TypeOK
  <2> QED
    BY <1>7, <2>1, <2>2, <2>3, <2>4 DEF CompleteWhole, TypeInv, TypeOK
<1>8. CASE CompletePartial(l)
  <2> DEFINE missing == MissingPages(j, total)
             retrying == job[j].attempt < MaxAttempts
             profile == RetryProfile(j, l.attempt, missing)
             ended == EndedRow(job[j], retrying, "partial_failed")
  <2>1. doc' \in [Docs -> DocRow]
    BY <1>1, <1>2, <1>8, DocStatusType DEF CompletePartial, TypeInv
  <2>2. missing \in SUBSET Pages
    BY <1>1, ConstantsOK DEF MissingPages, Pages
  <2>3. profile \in Profile
    BY <1>1, RowFields DEF RetryProfile, Profile
  <2>4. ended \in JobRow /\ ended.status \in {"retry_wait", "partial_failed"}
    <3>1. retrying \in BOOLEAN
      OBVIOUS
    <3> QED
      BY <1>1, <3>1, EndedRowFacts
  <2> HIDE DEF missing, profile, ended
  <2>5. /\ PartialRow(ended, total, missing, profile) \in JobRow
        /\ PartialRow(ended, total, missing, profile).status = ended.status
    BY <1>1, <2>2, <2>3, <2>4, PartialRowFacts
  <2>6. job' = [job EXCEPT ![j] = PartialRow(ended, total, missing, profile)]
    BY <1>8 DEF CompletePartial, ended, missing, profile
  <2>7. job' \in [Jobs -> JobRow] /\ Fresh'
    BY <1>1, <2>4, <2>5, <2>6, TypeRowStep
  <2>8. pageTotal' \in [Jobs -> [Attempts -> 0..MaxPages]]
    BY <1>1, <1>8 DEF CompletePartial, TypeInv, TypeOK
  <2> QED
    BY <1>8, <2>1, <2>7, <2>8 DEF CompletePartial, TypeInv, TypeOK
<1> QED
  BY <1>3, <1>4, <1>5, <1>6, <1>7, <1>8

LEMMA TypeDelete ==
    ASSUME TypeInv, NEW d \in Docs, DeleteDocument(d) \/ CleanupDocument(d)
    PROVE  TypeInv'
<1>1. \A j \in Jobs : job[j] \in JobRow
  BY DEF TypeInv, TypeOK
<1>2. CASE DeleteDocument(d)
  <2>1. DeletedRow(doc[d]) \in DocRow
    <3>1. doc[d] \in DocRow /\ "deleting" \in DocStatus /\ NoJob \in Jobs \cup {NoJob}
      BY DEF TypeInv, TypeOK, DocStatus
    <3> QED
      BY <3>1 DEF DeletedRow, DocRow
  <2>2. doc' \in [Docs -> DocRow]
    BY <1>2, <2>1 DEF DeleteDocument, TypeInv, TypeOK
  <2>3. \A j \in Jobs : CancelledRow(job[j]) \in JobRow
                        /\ CancelledRow(job[j]).status = "cancelled"
    BY <1>1, CancelledRowFacts
  <2>4. job' \in [Jobs -> JobRow] /\ Fresh'
    BY <1>1, <1>2, <2>3 DEF DeleteDocument, TypeInv, TypeOK, Fresh
  <2> QED
    BY <1>2, <2>2, <2>4 DEF DeleteDocument, TypeInv, TypeOK
<1>3. CASE CleanupDocument(d)
  <2> DEFINE purged(j) == [job[j] EXCEPT !.status = "purged"]
  <2>1. \A j \in Jobs : purged(j) \in JobRow /\ purged(j).status = "purged"
    BY <1>1, PurgedRowFacts
  <2> DEFINE mine == {j \in Jobs : job[j].doc = d /\ job[j].status \in Terminal}
  <2>2. job' = [j \in Jobs |-> IF j \in mine THEN purged(j) ELSE job[j]]
    BY <1>3 DEF CleanupDocument
  <2> HIDE DEF purged, mine
  <2>3. job' \in [Jobs -> JobRow] /\ Fresh'
    BY <1>1, <2>1, <2>2 DEF TypeInv, TypeOK, Fresh
  <2>4. /\ NoCheckpoints \in [Attempts -> [Pages -> PageState]]
        /\ NoTotals \in [Attempts -> 0..MaxPages]
        /\ NoRevision \in [Pages -> 0..MaxAttempts]
    BY ConstantsOK DEF NoCheckpoints, NoTotals, NoRevision, PageState
  <2>5. /\ checkpoint' \in [Jobs -> [Attempts -> [Pages -> PageState]]]
        /\ pageTotal' \in [Jobs -> [Attempts -> 0..MaxPages]]
        /\ revision' \in [Jobs -> [Pages -> 0..MaxAttempts]]
    BY <1>3, <2>4 DEF CleanupDocument, TypeInv, TypeOK
  <2> QED
    BY <1>3, <2>3, <2>5 DEF CleanupDocument, TypeInv, TypeOK
<1> QED
  BY <1>2, <1>3

LEMMA TypeTime ==
    ASSUME TypeInv, NEW j \in Jobs, LeaseExpires(j) \/ BecomesDue(j)
    PROVE  TypeInv'
<1>1. job[j] \in JobRow
  BY DEF TypeInv, TypeOK
<1>2. PICK row \in JobRow : row.status = job[j].status /\ row.attempt = job[j].attempt
                            /\ job' = [job EXCEPT ![j] = row]
  <2>1. CASE LeaseExpires(j)
    BY <1>1, <2>1, ExpiredRowFacts DEF LeaseExpires, Keeps
  <2>2. CASE BecomesDue(j)
    BY <1>1, <2>2, DueRowFacts DEF BecomesDue, Keeps
  <2> QED
    BY <2>1, <2>2
<1>3. job' \in [Jobs -> JobRow] /\ Fresh'
  BY <1>1, <1>2 DEF TypeInv, TypeOK, Fresh
<1> QED
  BY <1>3 DEF LeaseExpires, BecomesDue, TypeInv, TypeOK

LEMMA TypeInit == Init => TypeInv
<1> SUFFICES ASSUME Init PROVE TypeInv
  OBVIOUS
<1>1. /\ "none" \in JobStatus /\ "native-v1" \in Profile
      /\ 0 \in 0..MaxAttempts /\ 0 \in 0..MaxPages
  BY Statuses, ConstantsOK DEF Profile
<1>2. job \in [Jobs -> JobRow] /\ Fresh
  <2>1. \A d \in Docs : Absent(d) \in JobRow /\ Absent(d).attempt = 0
    BY <1>1 DEF Absent, JobRow
  <2> QED
    BY <2>1 DEF Init, Fresh
<1>3. doc \in [Docs -> DocRow]
  BY DEF Init, DocRow, DocStatus
<1>4. /\ NoCheckpoints \in [Attempts -> [Pages -> PageState]]
      /\ NoTotals \in [Attempts -> 0..MaxPages]
      /\ NoRevision \in [Pages -> 0..MaxAttempts]
  BY ConstantsOK DEF NoCheckpoints, NoTotals, NoRevision, PageState
<1> QED
  BY <1>2, <1>3, <1>4 DEF Init, TypeInv, TypeOK

LEMMA TypeNext == TypeInv /\ [Next]_vars => TypeInv'
<1> SUFFICES ASSUME TypeInv, [Next]_vars PROVE TypeInv'
  OBVIOUS
<1>1. CASE ClaimStep
  BY <1>1, TypeClaim DEF ClaimStep
<1>2. CASE CommandStep
  BY <1>2, TypeCommand DEF CommandStep
<1>3. CASE UserStep
  <2>1. ASSUME NEW d \in Docs, NEW j \in Jobs, CompleteUpload(d, j) PROVE TypeInv'
    <3>1. DefaultProfile(d) \in Profile
      BY DEF DefaultProfile, Profile
    <3>2. Enqueue(d, j, DefaultProfile(d), {})
      BY <2>1 DEF CompleteUpload
    <3> QED
      BY <3>1, <3>2, TypeEnqueue
  <2>2. ASSUME NEW d \in Docs, NEW j \in Jobs, NEW pages \in SUBSET Pages,
               Reparse(d, j, pages)
        PROVE  TypeInv'
    <3>1. PICK profile \in Profile : Enqueue(d, j, profile, pages)
      BY <2>2 DEF Reparse, DefaultProfile, Profile
    <3> QED
      BY <3>1, TypeEnqueue
  <2>3. ASSUME NEW d \in Docs, CompleteExcluded(d) PROVE TypeInv'
    <3>1. "uploaded" \in DocStatus
      BY DEF DocStatus
    <3>2. doc' \in [Docs -> DocRow]
      BY <2>3, <3>1 DEF CompleteExcluded, TypeInv, TypeOK, DocRow
    <3> QED
      BY <2>3, <3>2 DEF CompleteExcluded, TypeInv, TypeOK, Fresh
  <2> QED
    BY <1>3, <2>1, <2>2, <2>3, TypeDelete DEF UserStep
<1>4. CASE TimeStep
  BY <1>4, TypeTime DEF TimeStep
<1>5. CASE UNCHANGED vars
  BY <1>5 DEF vars, TypeInv, TypeOK, Fresh
<1> QED
  BY <1>1, <1>2, <1>3, <1>4, <1>5 DEF Next

\* In every reachable state the rows are well-formed, whatever the sizes: in
\* particular attempt never exceeds max_attempts, although only claim looks at it.
THEOREM TypeCorrect == Spec => []TypeOK
<1>1. TypeInv => TypeOK
  BY DEF TypeInv
<1> QED
  BY TypeInit, TypeNext, <1>1, PTL DEF Spec

-----------------------------------------------------------------------------
(* 3. Fencing                                                              *)

\* A lease handed out belongs to an attempt that began, and to no other.
GrantsArePast == \A l \in granted : l.attempt <= job[l.job].attempt

OnePerAttempt ==
    \A l, m \in granted : l.job = m.job /\ l.attempt = m.attempt => l = m

CanRun(row) == row.profile = "native-v1" \/ row.owner \in OcrWorkers

HolderCanRun == \A j \in Jobs : job[j].status \in Held => CanRun(job[j])

FenceInv ==
    /\ TypeInv
    /\ RowMatchesLease
    /\ GrantsArePast
    /\ OnePerAttempt
    /\ HolderCanRun

\* What every step but a claim does to a row: the lease stays what it is while the
\* job is held, or it is released.
LeaseKept(old, new) ==
    /\ old.status \in Held /\ new.status \in Held
    /\ new.owner = old.owner /\ new.token = old.token /\ new.lease = old.lease
    /\ new.requested = old.requested /\ new.profile = old.profile

LeaseStep(old, new) ==
    /\ new.attempt = old.attempt
    /\ LeaseKept(old, new) \/ (new.status \notin Held /\ Released(new))

LEMMA UntouchedRow ==
    ASSUME FenceInv, NEW j \in Jobs
    PROVE  LeaseStep(job[j], job[j])
<1>1. job[j] \in JobRow
  BY DEF FenceInv, TypeInv, TypeOK
<1>2. job[j].status \in Held \/ Released(job[j])
  BY <1>1, RowFields DEF FenceInv, RowMatchesLease, Released
<1> QED
  BY <1>2 DEF LeaseStep, LeaseKept

LEMMA RowsKeepFence ==
    ASSUME FenceInv, TypeInv', granted' = granted,
           \A j \in Jobs : LeaseStep(job[j], job'[j])
    PROVE  FenceInv'
<1>1. RowMatchesLease'
  <2> SUFFICES ASSUME NEW j \in Jobs
               PROVE  /\ job'[j].owner # NoWorker <=> job'[j].status \in Held
                      /\ job'[j].owner = NoWorker => job'[j].token = 0 /\ ~job'[j].expired
                      /\ job'[j].status \in Held =>
                           \E l \in granted :
                              /\ l.job = j /\ l.worker = job'[j].owner
                              /\ l.attempt = job'[j].attempt
                              /\ l.version = job'[j].lease /\ l.version = job'[j].token
                              /\ l.requested = job'[j].requested
    BY DEF RowMatchesLease
  <2>1. CASE LeaseKept(job[j], job'[j])
    BY <2>1 DEF LeaseKept, LeaseStep, FenceInv, RowMatchesLease
  <2>2. CASE job'[j].status \notin Held /\ Released(job'[j])
    BY <2>2 DEF Released
  <2> QED
    BY <2>1, <2>2 DEF LeaseStep
<1>2. GrantsArePast'
  BY DEF GrantsArePast, LeaseStep, FenceInv, TypeInv, TypeOK, Lease
<1>3. OnePerAttempt'
  BY DEF OnePerAttempt, FenceInv
<1>4. HolderCanRun'
  BY DEF HolderCanRun, CanRun, LeaseStep, LeaseKept, FenceInv
<1> QED
  BY <1>1, <1>2, <1>3, <1>4 DEF FenceInv

\* A step that replaces the row of one job
LEMMA OneRowKeepsFence ==
    ASSUME FenceInv, TypeInv', granted' = granted,
           NEW j \in Jobs, NEW row, job' = [job EXCEPT ![j] = row],
           LeaseStep(job[j], row)
    PROVE  FenceInv'
<1>1. job \in [Jobs -> JobRow]
  BY DEF FenceInv, TypeInv, TypeOK
<1>2. \A k \in Jobs : LeaseStep(job[k], job'[k])
  BY <1>1, UntouchedRow
<1> QED
  BY <1>2, RowsKeepFence

LEMMA FenceCommand ==
    ASSUME FenceInv, TypeInv', NEW l \in granted,
           \/ Start(l)
           \/ \E total \in ReportedTotals(l) : Heartbeat(l, total)
           \/ \E p \in Pages, s \in PageState \ {"none"} : Checkpoint(l, p, s)
           \/ \E retryable \in BOOLEAN : Fail(l, retryable)
           \/ CompleteWhole(l)
           \/ CompletePartial(l)
    PROVE  FenceInv'
<1> DEFINE j == l.job
           total == PageCount[job[j].doc]
<1>1. /\ TypeOK /\ j \in Jobs /\ job[j] \in JobRow /\ total \in 0..MaxPages
  BY CommandTypes DEF FenceInv, TypeInv
<1>3. CASE Start(l)
  <2>1. LeaseStep(job[j], StartedRow(job[j]))
    BY <1>1, <1>3, StartedRowFacts, Statuses DEF Start, LeaseStep, LeaseKept, Keeps
  <2> QED
    BY <1>1, <1>3, <2>1, OneRowKeepsFence DEF Start
<1>4. ASSUME NEW t \in ReportedTotals(l), Heartbeat(l, t) PROVE FenceInv'
  <2>1. t \in 0..MaxPages
    BY <1>1, ReportedTotalsType
  <2>2. LeaseStep(job[j], AliveRow(job[j], t))
    BY <1>1, <1>4, <2>1, AliveRowFacts, Statuses DEF Heartbeat, LeaseStep, LeaseKept, Keeps
  <2> QED
    BY <1>1, <1>4, <2>2, OneRowKeepsFence DEF Heartbeat
<1>5. ASSUME NEW p \in Pages, NEW s \in PageState, Checkpoint(l, p, s) PROVE FenceInv'
  <2>1. \A k \in Jobs : LeaseStep(job[k], job'[k])
    <3>1. job' = job
      BY <1>5 DEF Checkpoint
    <3> QED
      BY <3>1, UntouchedRow
  <2>2. granted' = granted
    BY <1>5 DEF Checkpoint
  <2> QED
    BY <2>1, <2>2, RowsKeepFence
<1>6. ASSUME NEW retryable \in BOOLEAN, Fail(l, retryable) PROVE FenceInv'
  <2> DEFINE retrying == retryable /\ job[j].attempt < MaxAttempts
             ended == EndedRow(job[j], retrying, "failed")
  <2>1. retrying \in BOOLEAN
    OBVIOUS
  <2>2. LeaseStep(job[j], ended)
    BY <1>1, <2>1, EndedRowFacts, Statuses DEF LeaseStep, Keeps
  <2> QED
    BY <1>1, <1>6, <2>2, OneRowKeepsFence DEF Fail
<1>7. CASE CompleteWhole(l)
  <2>1. LeaseStep(job[j], SucceededRow(job[j], total))
    BY <1>1, SucceededRowFacts, Statuses DEF LeaseStep, Keeps
  <2> QED
    BY <1>1, <1>7, <2>1, OneRowKeepsFence DEF CompleteWhole
<1>8. CASE CompletePartial(l)
  <2> DEFINE missing == MissingPages(j, total)
             retrying == job[j].attempt < MaxAttempts
             profile == RetryProfile(j, l.attempt, missing)
             ended == EndedRow(job[j], retrying, "partial_failed")
  <2>1. missing \in SUBSET Pages
    BY <1>1, ConstantsOK DEF MissingPages, Pages
  <2>2. profile \in Profile
    BY <1>1, RowFields DEF RetryProfile, Profile
  <2>3. /\ ended \in JobRow /\ ended.status \in {"retry_wait", "partial_failed"}
        /\ Released(ended) /\ ended.attempt = job[j].attempt
    <3>1. retrying \in BOOLEAN
      OBVIOUS
    <3> QED
      BY <1>1, <3>1, EndedRowFacts DEF Keeps
  <2> HIDE DEF missing, profile, ended
  <2>4. LeaseStep(job[j], PartialRow(ended, total, missing, profile))
    BY <1>1, <2>1, <2>2, <2>3, PartialRowFacts, Statuses DEF LeaseStep
  <2>5. job' = [job EXCEPT ![j] = PartialRow(ended, total, missing, profile)]
    BY <1>8 DEF CompletePartial, ended, missing, profile
  <2> QED
    BY <1>1, <1>8, <2>4, <2>5, OneRowKeepsFence DEF CompletePartial
<1> QED
  BY <1>3, <1>4, <1>5, <1>6, <1>7, <1>8

LEMMA FenceClaim ==
    ASSUME FenceInv, TypeInv', NEW w \in Workers, NEW passed \in SUBSET Jobs,
           \/ ClaimNothing(w, passed)
           \/ \E j \in Jobs : ClaimLease(w, j, passed)
    PROVE  FenceInv'
<1>1. \A k \in Jobs : LeaseStep(job[k], FailedRow(job[k]))
  BY FailedRowFacts, Statuses DEF LeaseStep, Keeps, FenceInv, TypeInv, TypeOK
<1>2. \A k \in Jobs : LeaseStep(job[k], job[k])
  BY UntouchedRow
<1>3. CASE ClaimNothing(w, passed)
  <2>1. \A k \in Jobs : LeaseStep(job[k], job'[k])
    BY <1>1, <1>2, <1>3 DEF ClaimNothing
  <2> QED
    BY <1>3, <2>1, RowsKeepFence DEF ClaimNothing
<1>4. ASSUME NEW j \in Jobs, ClaimLease(w, j, passed) PROVE FenceInv'
  <2> DEFINE new == LeasedRow(job[j], w, RemainingPages(j))
             lease == GrantedLease(j, w)
  <2>1. job[j] \in JobRow /\ RemainingPages(j) \in SUBSET Pages
    BY RemainingType DEF FenceInv, TypeInv, TypeOK
  <2>2. job[j].attempt + 1 \in Attempts
    BY <1>4, <2>1, ConstantsOK, RowFields
       DEF ClaimLease, Exhausted, Attempts, FenceInv, TypeInv, Fresh
  <2>3. /\ new.status = "leased" /\ new.owner = w
        /\ new.attempt = job[j].attempt + 1
        /\ new.lease = job[j].lease + 1 /\ new.token = job[j].lease + 1
        /\ new.requested = RemainingPages(j) /\ new.profile = job[j].profile
    BY <2>1, <2>2, LeasedRowFacts
  <2>4. /\ lease.job = j /\ lease.worker = w /\ lease.attempt = job[j].attempt + 1
        /\ lease.version = job[j].lease + 1 /\ lease.requested = RemainingPages(j)
    BY DEF GrantedLease
  <2> HIDE DEF new, lease
  <2>5. /\ job'[j] = new
        /\ \A k \in Jobs : k # j => LeaseStep(job[k], job'[k])
        /\ granted' = granted \cup {lease}
    BY <1>1, <1>2, <1>4 DEF ClaimLease, new, lease
  <2>6. w # NoWorker /\ "leased" \in Held
    BY ConstantsOK DEF Held
  <2>7. RowMatchesLease'
    <3> SUFFICES ASSUME NEW k \in Jobs
                 PROVE  /\ job'[k].owner # NoWorker <=> job'[k].status \in Held
                        /\ job'[k].owner = NoWorker => job'[k].token = 0 /\ ~job'[k].expired
                        /\ job'[k].status \in Held =>
                             \E l \in granted' :
                                /\ l.job = k /\ l.worker = job'[k].owner
                                /\ l.attempt = job'[k].attempt
                                /\ l.version = job'[k].lease /\ l.version = job'[k].token
                                /\ l.requested = job'[k].requested
      BY DEF RowMatchesLease
    <3>1. CASE k = j
      BY <2>3, <2>4, <2>5, <2>6, <3>1
    <3>2. CASE k # j /\ LeaseKept(job[k], job'[k])
      BY <2>5, <3>2 DEF LeaseKept, LeaseStep, FenceInv, RowMatchesLease
    <3>3. CASE k # j /\ job'[k].status \notin Held /\ Released(job'[k])
      BY <3>3 DEF Released
    <3> QED
      BY <2>5, <3>1, <3>2, <3>3 DEF LeaseStep
  <2>8. \A k \in Jobs : job'[k].attempt >= job[k].attempt
    <3> SUFFICES ASSUME NEW k \in Jobs PROVE job'[k].attempt >= job[k].attempt
      OBVIOUS
    <3>1. job[k].attempt \in Nat
      BY RowFields DEF FenceInv, TypeInv, TypeOK
    <3>2. CASE k = j
      BY <2>3, <2>5, <3>1, <3>2
    <3>3. CASE k # j
      BY <2>5, <3>1, <3>3 DEF LeaseStep
    <3> QED
      BY <3>2, <3>3
  <2>9. \A l \in granted : l \in Lease /\ l.attempt <= job[l.job].attempt
    BY DEF FenceInv, GrantsArePast, TypeInv, TypeOK
  <2>10. GrantsArePast'
    <3> SUFFICES ASSUME NEW l \in granted' PROVE l.attempt <= job'[l.job].attempt
      BY DEF GrantsArePast
    <3>1. CASE l \in granted
      <4>1. /\ l.job \in Jobs /\ l.attempt \in Nat /\ l.attempt <= job[l.job].attempt
            /\ job[l.job].attempt \in Nat /\ job'[l.job].attempt \in Nat
        <5>1. l.job \in Jobs /\ l.attempt \in Nat
          BY <2>9, <3>1 DEF Lease, Attempts
        <5>2. job[l.job] \in JobRow /\ job'[l.job] \in JobRow
          BY <5>1 DEF FenceInv, TypeInv, TypeOK
        <5> QED
          BY <2>9, <3>1, <5>1, <5>2, RowFields
      <4> QED
        BY <2>8, <4>1
    <3>2. CASE l = lease
      BY <2>1, <2>3, <2>4, <2>5, <3>2, RowFields
    <3> QED
      BY <2>5, <3>1, <3>2
  <2>11. OnePerAttempt'
    <3>1. \A l \in granted : l.job = j => l.attempt # lease.attempt
      BY <2>1, <2>4, <2>9, RowFields DEF Lease, Attempts
    <3> QED
      BY <2>4, <2>5, <3>1 DEF OnePerAttempt, FenceInv
  <2>12. HolderCanRun'
    <3>1. CanRun(new)
      BY <1>4, <2>3 DEF ClaimLease, Capable, CanRun
    <3> QED
      BY <2>5, <3>1 DEF HolderCanRun, CanRun, LeaseStep, LeaseKept, FenceInv
  <2> QED
    BY <2>7, <2>10, <2>11, <2>12 DEF FenceInv
<1> QED
  BY <1>3, <1>4

LEMMA FenceUser ==
    ASSUME FenceInv, TypeInv', UserStep
    PROVE  FenceInv'
<1>1. \A j \in Jobs : job[j] \in JobRow /\ LeaseStep(job[j], job[j])
  BY UntouchedRow DEF FenceInv, TypeInv, TypeOK
<1>2. ASSUME NEW d \in Docs, NEW j \in Jobs, NEW profile \in Profile,
             NEW pages \in SUBSET Pages, Enqueue(d, j, profile, pages)
      PROVE  FenceInv'
  <2>1. /\ NewJob(d, profile, pages).attempt = 0 /\ Released(NewJob(d, profile, pages))
        /\ NewJob(d, profile, pages).status = "queued"
    BY NewJobFacts DEF FenceInv, TypeInv
  <2>2. job[j].attempt = 0
    BY <1>2 DEF Enqueue, FenceInv, TypeInv, Fresh
  <2>3. LeaseStep(job[j], NewJob(d, profile, pages))
    BY <2>1, <2>2, Statuses DEF LeaseStep
  <2> QED
    BY <1>2, <2>3, OneRowKeepsFence DEF Enqueue
<1>3. ASSUME NEW d \in Docs, NEW j \in Jobs, CompleteUpload(d, j) PROVE FenceInv'
  <2>1. PICK profile \in Profile : Enqueue(d, j, profile, {})
    BY <1>3 DEF CompleteUpload, DefaultProfile, Profile
  <2> QED
    BY <1>2, <2>1
<1>4. ASSUME NEW d \in Docs, NEW j \in Jobs, NEW pages \in SUBSET Pages,
             Reparse(d, j, pages)
      PROVE  FenceInv'
  <2>1. PICK profile \in Profile : Enqueue(d, j, profile, pages)
    BY <1>4 DEF Reparse, DefaultProfile, Profile
  <2> QED
    BY <1>2, <2>1
<1>5. ASSUME NEW d \in Docs, DeleteDocument(d) PROVE FenceInv'
  <2>1. \A j \in Jobs : LeaseStep(job[j], CancelledRow(job[j]))
    BY <1>1, CancelledRowFacts, Statuses DEF LeaseStep, Keeps
  <2>2. \A j \in Jobs : LeaseStep(job[j], job'[j])
    BY <1>1, <1>5, <2>1 DEF DeleteDocument
  <2> QED
    BY <1>5, <2>2, RowsKeepFence DEF DeleteDocument
<1>6. ASSUME NEW d \in Docs, CleanupDocument(d) PROVE FenceInv'
  <2> DEFINE purged(j) == [job[j] EXCEPT !.status = "purged"]
             mine == {j \in Jobs : job[j].doc = d /\ job[j].status \in Terminal}
  <2>1. \A j \in mine : LeaseStep(job[j], purged(j))
    BY <1>1, PurgedRowFacts, Statuses DEF LeaseStep, LeaseKept, Keeps, Released
  <2>2. job' = [j \in Jobs |-> IF j \in mine THEN purged(j) ELSE job[j]]
    BY <1>6 DEF CleanupDocument
  <2> HIDE DEF purged, mine
  <2>3. \A j \in Jobs : LeaseStep(job[j], job'[j])
    BY <1>1, <2>1, <2>2
  <2> QED
    BY <1>6, <2>3, RowsKeepFence DEF CleanupDocument
<1>7. ASSUME NEW d \in Docs, CompleteExcluded(d) PROVE FenceInv'
  BY <1>1, <1>7, RowsKeepFence DEF CompleteExcluded
<1> QED
  BY <1>3, <1>4, <1>5, <1>6, <1>7 DEF UserStep

LEMMA FenceTime ==
    ASSUME FenceInv, TypeInv', NEW j \in Jobs, LeaseExpires(j) \/ BecomesDue(j)
    PROVE  FenceInv'
<1>1. job[j] \in JobRow
  BY DEF FenceInv, TypeInv, TypeOK
<1>2. CASE LeaseExpires(j)
  <2>1. LeaseStep(job[j], [job[j] EXCEPT !.expired = TRUE])
    BY <1>1, <1>2, ExpiredRowFacts DEF LeaseExpires, LeaseStep, LeaseKept, Keeps
  <2>2. job' = [job EXCEPT ![j] = [job[j] EXCEPT !.expired = TRUE]]
    BY <1>2 DEF LeaseExpires
  <2> QED
    BY <1>2, <2>1, <2>2, OneRowKeepsFence DEF LeaseExpires
<1>3. CASE BecomesDue(j)
  <2>1. LeaseStep(job[j], [job[j] EXCEPT !.due = TRUE])
    BY <1>1, <1>3, DueRowFacts, UntouchedRow, Statuses
       DEF BecomesDue, LeaseStep, LeaseKept, Keeps, Released
  <2>2. job' = [job EXCEPT ![j] = [job[j] EXCEPT !.due = TRUE]]
    BY <1>3 DEF BecomesDue
  <2> QED
    BY <1>3, <2>1, <2>2, OneRowKeepsFence DEF BecomesDue
<1> QED
  BY <1>2, <1>3

LEMMA FenceInit == Init => FenceInv
<1> SUFFICES ASSUME Init PROVE FenceInv
  OBVIOUS
<1>1. TypeInv /\ granted = {}
  BY TypeInit DEF Init
<1>2. \A j \in Jobs : Released(job[j]) /\ job[j].status = "none"
  BY DEF Init, Absent, Released
<1> QED
  BY <1>1, <1>2
     DEF FenceInv, RowMatchesLease, GrantsArePast, OnePerAttempt, HolderCanRun,
         Released, Held

LEMMA FenceNext == FenceInv /\ [Next]_vars => FenceInv'
<1> SUFFICES ASSUME FenceInv, [Next]_vars PROVE FenceInv'
  OBVIOUS
<1>1. TypeInv'
  BY TypeNext DEF FenceInv
<1>2. CASE ClaimStep
  BY <1>1, <1>2, FenceClaim DEF ClaimStep
<1>3. CASE CommandStep
  BY <1>1, <1>3, FenceCommand DEF CommandStep
<1>4. CASE UserStep
  BY <1>1, <1>4, FenceUser
<1>5. CASE TimeStep
  BY <1>1, <1>5, FenceTime DEF TimeStep
<1>6. CASE UNCHANGED vars
  BY <1>1, <1>6
     DEF vars, FenceInv, RowMatchesLease, GrantsArePast, OnePerAttempt, HolderCanRun
<1> QED
  BY <1>2, <1>3, <1>4, <1>5, <1>6 DEF Next

\* The lease columns of every held row are those of a lease claim returned.
THEOREM RowsMatchLeases == Spec => []RowMatchesLease
<1>1. FenceInv => RowMatchesLease
  BY DEF FenceInv
<1> QED
  BY FenceInit, FenceNext, <1>1, PTL DEF Spec

\* Fencing for any number of workers, jobs and leases: _assert_active_lease obeys
\* one lease of a job at a time.  Two obeyed leases are of the row's attempt, and an
\* attempt was handed out only once.
THEOREM LeasesAreFenced == Spec => []OneActiveLease
<1>1. FenceInv => OneActiveLease
  <2> SUFFICES ASSUME FenceInv PROVE OneActiveLease
    OBVIOUS
  <2>1. ASSUME NEW l \in granted, NEW m \in granted,
               l.job = m.job, ActiveLease(l), ActiveLease(m)
        PROVE  l = m
    BY <2>1 DEF ActiveLease, FenceInv, OnePerAttempt
  <2>2. ASSUME NEW l \in granted, ActiveLease(l)
        PROVE  Capable(l.worker, l.job)
    <3>1. l.job \in Jobs
      BY DEF FenceInv, TypeInv, TypeOK, Lease
    <3> QED
      BY <2>2, <3>1 DEF ActiveLease, FenceInv, HolderCanRun, CanRun, Capable
  <2> QED
    BY <2>1, <2>2 DEF OneActiveLease
<1> QED
  BY FenceInit, FenceNext, <1>1, PTL DEF Spec

-----------------------------------------------------------------------------
(* 4. One live job per document: the invariant                           *)

\* complete_upload looks at the status of the document only: while it says
\* "uploading", no job was ever created.
UploadingHasNoJob ==
    \A d \in Docs : doc[d].status = "uploading" => doc[d].latest = NoJob

\* DeletedIsQuiet without the leases, which ActiveLease refuses by itself.
DeletedHasNoLiveJob ==
    \A d \in Docs : doc[d].deleted =>
        /\ \A j \in Jobs : job[j].doc = d => job[j].status \notin Live
        /\ doc[d].preview = NoJob
        /\ doc[d].status = "deleting"

DocumentInv == TypeInv /\ OneLiveJob /\ UploadingHasNoJob /\ DeletedHasNoLiveJob

\* What every handler but enqueue_parse_job and the deletion does: no job becomes
\* live again, no document gets another latest job, and a deleted one stays as it is.
Calm ==
    /\ \A k \in Jobs : /\ job'[k].doc = job[k].doc
                       /\ job'[k].status \in Live => job[k].status \in Live
    /\ \A d \in Docs : /\ doc'[d].latest = doc[d].latest
                       /\ doc'[d].deleted = doc[d].deleted
                       /\ doc'[d].status = "uploading" => doc[d].status = "uploading"
                       /\ doc[d].deleted => doc'[d] = doc[d]

LEMMA CalmKeeps ==
    ASSUME DocumentInv, TypeInv', Calm
    PROVE  DocumentInv'
<1>1. \A k \in Jobs : job[k].doc \in Docs
  BY RowFields DEF DocumentInv, TypeInv, TypeOK
<1>2. OneLiveJob'
  BY <1>1 DEF DocumentInv, OneLiveJob, Calm
<1>3. UploadingHasNoJob'
  BY DEF DocumentInv, UploadingHasNoJob, Calm
<1>4. DeletedHasNoLiveJob'
  BY DEF DocumentInv, DeletedHasNoLiveJob, Calm
<1> QED
  BY <1>2, <1>3, <1>4 DEF DocumentInv

\* One row is replaced by one of the same document that is live only if it was, and
\* the status or the preview of its document may change unless it is deleted.
LEMMA CalmRow ==
    ASSUME TypeInv, NEW j \in Jobs, NEW row,
           row.doc = job[j].doc, row.status \in Live => job[j].status \in Live,
           job' = [job EXCEPT ![j] = row],
           NEW new, new.latest = doc[job[j].doc].latest,
           new.deleted = doc[job[j].doc].deleted,
           new.status # "uploading", ~doc[job[j].doc].deleted,
           doc' \in {doc, [doc EXCEPT ![job[j].doc] = new]}
    PROVE  Calm
BY RowFields DEF TypeInv, TypeOK, Calm

-----------------------------------------------------------------------------
(* 5. One live job per document: the steps                               *)

LEMMA ClaimIsCalm ==
    ASSUME TypeInv, NEW w \in Workers, NEW passed \in SUBSET Jobs,
           \/ ClaimNothing(w, passed)
           \/ \E j \in Jobs : ClaimLease(w, j, passed)
    PROVE  Calm
<1>1. \A k \in Jobs : /\ job[k] \in JobRow
                      /\ FailedRow(job[k]).doc = job[k].doc
                      /\ FailedRow(job[k]).status \notin Live
  BY FailedRowFacts, Statuses DEF TypeInv, TypeOK, Keeps
<1>2. \A k \in passed : ~doc[job[k].doc].deleted
  BY DEF ClaimNothing, ClaimLease, Available
<1>3. doc' = [d \in Docs |-> IF \E k \in passed : job[k].doc = d
                             THEN [doc[d] EXCEPT !.status = "failed"] ELSE doc[d]]
  BY DEF ClaimNothing, ClaimLease
<1>4. \A d \in Docs : /\ doc'[d].latest = doc[d].latest
                      /\ doc'[d].deleted = doc[d].deleted
                      /\ doc'[d].status = "uploading" => doc[d].status = "uploading"
                      /\ doc[d].deleted => doc'[d] = doc[d]
  <2>1. \A d \in Docs : doc[d] \in DocRow
    BY DEF TypeInv, TypeOK
  <2>2. \A d \in Docs : LET new == [doc[d] EXCEPT !.status = "failed"] IN
           new.latest = doc[d].latest /\ new.deleted = doc[d].deleted
           /\ new.status = "failed"
    BY <2>1 DEF DocRow
  <2> QED
    BY <1>2, <1>3, <2>2
<1>5. CASE ClaimNothing(w, passed)
  BY <1>1, <1>4, <1>5 DEF ClaimNothing, Calm
<1>6. ASSUME NEW j \in Jobs, ClaimLease(w, j, passed) PROVE Calm
  <2>1. LeasedRow(job[j], w, RemainingPages(j)).doc = job[j].doc
    BY <1>1 DEF LeasedRow, JobRow
  <2>2. job[j].status \in Live
    BY <1>6, Statuses DEF ClaimLease, Available
  <2> QED
    BY <1>1, <1>4, <1>6, <2>1, <2>2 DEF ClaimLease, Calm
<1> QED
  BY <1>5, <1>6

LEMMA CommandIsCalm ==
    ASSUME TypeInv, NEW l \in granted,
           \/ Start(l)
           \/ \E total \in ReportedTotals(l) : Heartbeat(l, total)
           \/ \E p \in Pages, s \in PageState \ {"none"} : Checkpoint(l, p, s)
           \/ \E retryable \in BOOLEAN : Fail(l, retryable)
           \/ CompleteWhole(l)
           \/ CompletePartial(l)
    PROVE  Calm
<1> DEFINE j == l.job
           d == job[j].doc
           total == PageCount[d]
           said(status) == [doc[d] EXCEPT !.status = status]
<1>1. /\ j \in Jobs /\ l.attempt \in Attempts /\ job[j] \in JobRow
      /\ d \in Docs /\ total \in 0..MaxPages
  BY CommandTypes DEF TypeInv
<1>2. doc[d] \in DocRow /\ doc \in [Docs -> DocRow]
  BY <1>1 DEF TypeInv, TypeOK
<1>3. \A status \in DocStatus :
        /\ said(status).latest = doc[d].latest /\ said(status).deleted = doc[d].deleted
        /\ said(status).status = status
        /\ SetDocStatus(j, status) = [doc EXCEPT ![d] = said(status)]
  BY <1>1, <1>2 DEF DocRow, SetDocStatus
<1>4. ActiveLease(l) => ~doc[d].deleted /\ job[j].status \in Live
  BY Statuses DEF ActiveLease
<1> HIDE DEF said
<1>5. {"queued", "processing", "failed", "partial_failed", "parsed_index_blocked"}
        \subseteq DocStatus
  BY DEF DocStatus
<1>6. CASE Start(l)
  <2>1. StartedRow(job[j]).doc = d
    BY <1>1, StartedRowFacts DEF Keeps
  <2> QED
    BY <1>1, <1>3, <1>4, <1>5, <1>6, <2>1, CalmRow DEF Start
<1>7. ASSUME NEW t \in ReportedTotals(l), Heartbeat(l, t) PROVE Calm
  <2>1. AliveRow(job[j], t).doc = d
    BY <1>1, <1>7 DEF AliveRow, JobRow
  <2> QED
    BY <1>1, <1>4, <1>7, <2>1 DEF Heartbeat, TypeInv, TypeOK, Calm
<1>8. ASSUME NEW p \in Pages, NEW s \in PageState, Checkpoint(l, p, s) PROVE Calm
  BY <1>8 DEF Checkpoint, Calm
<1>9. ASSUME NEW retryable \in BOOLEAN, Fail(l, retryable) PROVE Calm
  <2> DEFINE retrying == retryable /\ job[j].attempt < MaxAttempts
  <2>1. retrying \in BOOLEAN
    OBVIOUS
  <2>2. EndedRow(job[j], retrying, "failed").doc = d
    BY <1>1, <2>1, EndedRowFacts DEF Keeps
  <2>3. PICK status \in {"queued", "failed"} : doc' = SetDocStatus(j, status)
    BY <1>9 DEF Fail
  <2>4. /\ ActiveLease(l)
        /\ job' = [job EXCEPT ![j] = EndedRow(job[j], retrying, "failed")]
    BY <1>9 DEF Fail
  <2> HIDE DEF retrying
  <2>5. /\ said(status).latest = doc[d].latest /\ said(status).deleted = doc[d].deleted
        /\ said(status).status # "uploading" /\ doc' = [doc EXCEPT ![d] = said(status)]
    BY <1>3, <1>5, <2>3
  <2> QED
    BY <1>1, <1>4, <2>2, <2>4, <2>5, CalmRow
<1>10. CASE CompleteWhole(l)
  <2> DEFINE new == [doc[d] EXCEPT !.status = "parsed_index_blocked", !.preview = j]
  <2>1. new.latest = doc[d].latest /\ new.deleted = doc[d].deleted
        /\ new.status = "parsed_index_blocked"
    BY <1>2 DEF DocRow
  <2>2. SucceededRow(job[j], total).doc = d
    BY <1>1, SucceededRowFacts DEF Keeps
  <2>3. doc' = [doc EXCEPT ![d] = new] /\ ActiveLease(l)
        /\ job' = [job EXCEPT ![j] = SucceededRow(job[j], total)]
    BY <1>10 DEF CompleteWhole
  <2> HIDE DEF new
  <2> QED
    BY <1>1, <1>4, <2>1, <2>2, <2>3, CalmRow
<1>11. CASE CompletePartial(l)
  <2> DEFINE missing == MissingPages(j, total)
             retrying == job[j].attempt < MaxAttempts
             profile == RetryProfile(j, l.attempt, missing)
             ended == EndedRow(job[j], retrying, "partial_failed")
  <2>1. ended \in JobRow /\ ended.doc = d
    <3>1. retrying \in BOOLEAN
      OBVIOUS
    <3> QED
      BY <1>1, <3>1, EndedRowFacts DEF Keeps
  <2>2. PartialRow(ended, total, missing, profile).doc = d
    BY <2>1 DEF PartialRow, JobRow
  <2>3. PICK status \in {"queued", "partial_failed"} : doc' = SetDocStatus(j, status)
    BY <1>11 DEF CompletePartial
  <2>4. ActiveLease(l)
        /\ job' = [job EXCEPT ![j] = PartialRow(ended, total, missing, profile)]
    BY <1>11 DEF CompletePartial
  <2> HIDE DEF ended, missing, profile
  <2>5. /\ said(status).latest = doc[d].latest /\ said(status).deleted = doc[d].deleted
        /\ said(status).status # "uploading" /\ doc' = [doc EXCEPT ![d] = said(status)]
    BY <1>3, <1>5, <2>3
  <2> QED
    BY <1>1, <1>4, <2>2, <2>4, <2>5, CalmRow
<1> QED
  BY <1>6, <1>7, <1>8, <1>9, <1>10, <1>11

\* A new job is inserted only where no other job of the document is live.
LEMMA EnqueueKeeps ==
    ASSUME DocumentInv, TypeInv', NEW d \in Docs, NEW j \in Jobs,
           NEW profile \in Profile, NEW pages \in SUBSET Pages,
           Enqueue(d, j, profile, pages),
           \A k \in Jobs : job[k].doc = d => job[k].status \notin Live
    PROVE  DocumentInv'
<1> DEFINE row == NewJob(d, profile, pages)
           new == [doc[d] EXCEPT !.status = "queued", !.latest = j]
<1>1. row.status = "queued" /\ row.doc = d
  BY NewJobFacts DEF DocumentInv, TypeInv
<1>2. new.status = "queued" /\ new.latest = j /\ new.deleted = doc[d].deleted
  BY DEF DocumentInv, TypeInv, TypeOK, DocRow
<1>3. /\ job' = [job EXCEPT ![j] = row] /\ doc' = [doc EXCEPT ![d] = new]
      /\ ~doc[d].deleted
  BY DEF Enqueue
<1> HIDE DEF row, new
<1>4. \A k \in Jobs : job[k].doc \in Docs
  BY RowFields DEF DocumentInv, TypeInv, TypeOK
<1>5. /\ \A k \in Jobs : job'[k] = IF k = j THEN row ELSE job[k]
      /\ \A e \in Docs : doc'[e] = IF e = d THEN new ELSE doc[e]
  BY <1>3 DEF DocumentInv, TypeInv, TypeOK
<1>6. OneLiveJob'
  BY <1>1, <1>2, <1>4, <1>5 DEF DocumentInv, OneLiveJob
<1>7. UploadingHasNoJob'
  BY <1>2, <1>5 DEF DocumentInv, UploadingHasNoJob
<1>8. DeletedHasNoLiveJob'
  BY <1>1, <1>2, <1>3, <1>5 DEF DocumentInv, DeletedHasNoLiveJob
<1> QED
  BY <1>6, <1>7, <1>8 DEF DocumentInv

LEMMA DeleteKeeps ==
    ASSUME DocumentInv, TypeInv', NEW d \in Docs, DeleteDocument(d)
    PROVE  DocumentInv'
<1>1. \A k \in Jobs : /\ job[k] \in JobRow /\ job[k].doc \in Docs
                      /\ CancelledRow(job[k]).doc = job[k].doc
                      /\ CancelledRow(job[k]).status \notin Live
  BY RowFields, CancelledRowFacts, Statuses DEF DocumentInv, TypeInv, TypeOK, Keeps
<1>2. LET new == DeletedRow(doc[d]) IN
        /\ new.deleted /\ new.status = "deleting" /\ new.preview = NoJob
        /\ new.latest = doc[d].latest
  BY DEF DocumentInv, TypeInv, TypeOK, DocRow, DeletedRow
<1>3. /\ \A e \in Docs : doc'[e] = IF e = d THEN DeletedRow(doc[d]) ELSE doc[e]
      /\ \A k \in Jobs : job'[k] = IF k \in CancelledJobs(d) THEN CancelledRow(job[k])
                                                             ELSE job[k]
  BY DEF DeleteDocument, DocumentInv, TypeInv, TypeOK
<1>4. \A k \in Jobs : /\ job'[k].doc = job[k].doc
                      /\ job'[k].status \in Live => job[k].status \in Live
                      /\ job[k].doc = d => job'[k].status \notin Live
  BY <1>1, <1>3 DEF CancelledJobs
<1>5. OneLiveJob'
  BY <1>1, <1>2, <1>3, <1>4 DEF DocumentInv, OneLiveJob
<1>6. UploadingHasNoJob'
  BY <1>2, <1>3 DEF DocumentInv, UploadingHasNoJob
<1>7. DeletedHasNoLiveJob'
  BY <1>2, <1>3, <1>4 DEF DocumentInv, DeletedHasNoLiveJob
<1> QED
  BY <1>5, <1>6, <1>7 DEF DocumentInv

LEMMA UserKeeps ==
    ASSUME DocumentInv, TypeInv', UserStep
    PROVE  DocumentInv'
<1>1. ASSUME NEW d \in Docs, doc[d].latest = NoJob
      PROVE  \A k \in Jobs : job[k].doc = d => job[k].status \notin Live
  BY <1>1, ConstantsOK DEF DocumentInv, OneLiveJob
<1>2. ASSUME NEW d \in Docs, NEW j \in Jobs, CompleteUpload(d, j) PROVE DocumentInv'
  <2>1. DefaultProfile(d) \in Profile /\ doc[d].latest = NoJob
    BY <1>2 DEF DefaultProfile, Profile, CompleteUpload, DocumentInv, UploadingHasNoJob
  <2>2. Enqueue(d, j, DefaultProfile(d), {})
    BY <1>2 DEF CompleteUpload
  <2> QED
    BY <1>1, <2>1, <2>2, EnqueueKeeps
<1>3. ASSUME NEW d \in Docs, CompleteExcluded(d) PROVE DocumentInv'
  <2>1. ~doc[d].deleted
    BY <1>3 DEF CompleteExcluded, DocumentInv, DeletedHasNoLiveJob
  <2>2. LET new == [doc[d] EXCEPT !.status = "uploaded"] IN
          /\ new.latest = doc[d].latest /\ new.deleted = doc[d].deleted
          /\ new.status = "uploaded"
          /\ doc' = [doc EXCEPT ![d] = new]
    BY <1>3 DEF CompleteExcluded, DocumentInv, TypeInv, TypeOK, DocRow
  <2>3. Calm
    BY <1>3, <2>1, <2>2 DEF CompleteExcluded, DocumentInv, TypeInv, TypeOK, Calm
  <2> QED
    BY <2>3, CalmKeeps
<1>4. ASSUME NEW d \in Docs, NEW j \in Jobs, NEW pages \in SUBSET Pages,
             Reparse(d, j, pages)
      PROVE  DocumentInv'
  <2>1. PICK profile \in Profile : Enqueue(d, j, profile, pages)
    BY <1>4 DEF Reparse, DefaultProfile, Profile
  <2>2. doc[d].latest = NoJob \/ job[doc[d].latest].status \in Terminal
    BY <1>4 DEF Reparse, MayReparse
  <2>3. ASSUME NEW k \in Jobs, job[k].doc = d, job[k].status \in Live PROVE FALSE
    <3>1. doc[d].latest = k
      BY <2>3 DEF DocumentInv, OneLiveJob
    <3> QED
      BY <2>2, <2>3, <3>1, <1>1, Statuses
  <2> QED
    BY <2>1, <2>3, EnqueueKeeps
<1>5. ASSUME NEW d \in Docs, CleanupDocument(d) PROVE DocumentInv'
  <2>1. \A k \in Jobs : LET new == [job[k] EXCEPT !.status = "purged"] IN
          new.doc = job[k].doc /\ new.status \notin Live
    BY PurgedRowFacts, Statuses DEF DocumentInv, TypeInv, TypeOK, Keeps
  <2>2. Calm
    BY <1>5, <2>1 DEF CleanupDocument, Calm
  <2> QED
    BY <2>2, CalmKeeps
<1> QED
  BY <1>2, <1>3, <1>4, <1>5, DeleteKeeps DEF UserStep

LEMMA TimeIsCalm ==
    ASSUME TypeInv, NEW j \in Jobs, LeaseExpires(j) \/ BecomesDue(j)
    PROVE  Calm
<1>1. job[j] \in JobRow
  BY DEF TypeInv, TypeOK
<1>2. PICK row \in JobRow : row.status = job[j].status /\ row.doc = job[j].doc
                            /\ job' = [job EXCEPT ![j] = row]
  <2>1. CASE LeaseExpires(j)
    BY <1>1, <2>1, ExpiredRowFacts DEF LeaseExpires, Keeps
  <2>2. CASE BecomesDue(j)
    BY <1>1, <2>2, DueRowFacts DEF BecomesDue, Keeps
  <2> QED
    BY <2>1, <2>2
<1>3. doc' = doc
  BY DEF LeaseExpires, BecomesDue
<1> QED
  BY <1>2, <1>3 DEF TypeInv, TypeOK, Calm

-----------------------------------------------------------------------------
(* 6. One live job per document: the theorems                            *)

LEMMA DocumentInit == Init => DocumentInv
<1> SUFFICES ASSUME Init PROVE DocumentInv
  OBVIOUS
<1>1. TypeInv
  BY TypeInit
<1>2. \A j \in Jobs : job[j].status \notin Live
  BY Statuses DEF Init, Absent
<1> QED
  BY <1>1, <1>2
     DEF Init, DocumentInv, OneLiveJob, UploadingHasNoJob, DeletedHasNoLiveJob

LEMMA DocumentNext == DocumentInv /\ [Next]_vars => DocumentInv'
<1> SUFFICES ASSUME DocumentInv, [Next]_vars PROVE DocumentInv'
  OBVIOUS
<1>1. TypeInv /\ TypeInv'
  BY TypeNext DEF DocumentInv
<1>2. CASE ClaimStep
  BY <1>1, <1>2, ClaimIsCalm, CalmKeeps DEF ClaimStep
<1>3. CASE CommandStep
  BY <1>1, <1>3, CommandIsCalm, CalmKeeps DEF CommandStep
<1>4. CASE UserStep
  BY <1>1, <1>4, UserKeeps
<1>5. CASE TimeStep
  BY <1>1, <1>5, TimeIsCalm, CalmKeeps DEF TimeStep
<1>6. CASE UNCHANGED vars
  BY <1>1, <1>6, CalmKeeps DEF vars, Calm
<1> QED
  BY <1>2, <1>3, <1>4, <1>5, <1>6 DEF Next

\* However uploads, reparses, retries and deletions interleave, a document has one
\* live job at most and it is the latest one: enqueue_parse_job never meets the
\* unique index uq_parse_jobs_document_nonterminal.
THEOREM OneJobAtATime == Spec => []OneLiveJob
<1>1. DocumentInv => OneLiveJob
  BY DEF DocumentInv
<1> QED
  BY DocumentInit, DocumentNext, <1>1, PTL DEF Spec

\* Once delete has committed, no job of the document is live, no lease on one is
\* obeyed and no late completion gives the document a preview.
THEOREM DeletionIsFinal == Spec => []DeletedIsQuiet
<1>1. DocumentInv => DeletedIsQuiet
  BY DEF DocumentInv, DeletedHasNoLiveJob, DeletedIsQuiet, ActiveLease
<1> QED
  BY DocumentInit, DocumentNext, <1>1, PTL DEF Spec

-----------------------------------------------------------------------------
(* 7. Revisions                                                          *)

\* A checkpoint is of an attempt its job has reached.
Past(j) == \A a \in Attempts, p \in Pages :
    checkpoint[j][a][p] # "none" => a <= job[j].attempt

\* RevisionIsWhole for one job
Whole(j) ==
    revision[j] # NoRevision =>
        /\ job[j].status = "succeeded"
        /\ \A p \in Pages : IF p > PageCount[job[j].doc] THEN revision[j][p] = 0
             ELSE /\ revision[j][p] \in 1..job[j].attempt
                  /\ checkpoint[j][revision[j][p]][p] = "succeeded"
                  /\ \A a \in Attempts : a > revision[j][p] =>
                        checkpoint[j][a][p] # "succeeded"

RevisionInv == TypeInv /\ \A j \in Jobs : Past(j) /\ Whole(j)

\* What a step does to a job whose checkpoints and revision it leaves alone.
KeepsResults(j) ==
    /\ checkpoint'[j] = checkpoint[j] /\ revision'[j] = revision[j]
    /\ job'[j].doc = job[j].doc
    /\ job'[j].attempt >= job[j].attempt
    /\ job[j].status = "succeeded" => job'[j].status = "succeeded"

LEMMA ResultsKept ==
    ASSUME TypeOK, TypeOK', NEW j \in Jobs, Past(j), Whole(j), KeepsResults(j)
    PROVE  Past(j)' /\ Whole(j)'
<1>1. /\ job[j].attempt \in Nat /\ job'[j].attempt \in Nat /\ Attempts \subseteq Nat
      /\ job'[j].attempt >= job[j].attempt
  BY RowFields, ConstantsOK DEF TypeOK, Attempts, KeepsResults
<1>2. Past(j)'
  <2>1. ASSUME NEW a \in Attempts, NEW p \in Pages, checkpoint'[j][a][p] # "none"
        PROVE  a <= job'[j].attempt
    <3>1. a <= job[j].attempt
      BY <2>1 DEF Past, KeepsResults
    <3> QED
      BY <1>1, <3>1
  <2> QED
    BY <2>1 DEF Past
<1>3. 1..job[j].attempt \subseteq 1..job'[j].attempt
  BY <1>1
<1>4. Whole(j)'
  <2>1. CASE revision[j] = NoRevision
    BY <2>1 DEF Whole, KeepsResults, NoRevision
  <2>2. CASE revision[j] # NoRevision
    <3>1. /\ job'[j].status = "succeeded" /\ job'[j].doc = job[j].doc
          /\ checkpoint'[j] = checkpoint[j] /\ revision'[j] = revision[j]
      BY <2>2 DEF Whole, KeepsResults
    <3>2. \A p \in Pages : IF p > PageCount[job[j].doc] THEN revision[j][p] = 0
             ELSE /\ revision[j][p] \in 1..job'[j].attempt
                  /\ checkpoint[j][revision[j][p]][p] = "succeeded"
                  /\ \A a \in Attempts : a > revision[j][p] =>
                        checkpoint[j][a][p] # "succeeded"
      BY <1>3, <2>2 DEF Whole
    <3> QED
      BY <3>1, <3>2, Zenon DEF Whole
  <2> QED
    BY <2>1, <2>2
<1> QED
  BY <1>2, <1>4

\* One row changes; the checkpoints and the revisions do not.
LEMMA RowKeepsResults ==
    ASSUME TypeOK, NEW j \in Jobs, NEW row,
           row.doc = job[j].doc, row.attempt = job[j].attempt,
           job[j].status = "succeeded" => row.status = "succeeded",
           job' = [job EXCEPT ![j] = row], UNCHANGED <<checkpoint, revision>>
    PROVE  \A k \in Jobs : KeepsResults(k)
<1>1. \A k \in Jobs : job[k].attempt \in Nat
  BY RowFields, ConstantsOK DEF TypeOK
<1> QED
  BY <1>1 DEF TypeOK, KeepsResults

LEMMA ClaimKeepsResults ==
    ASSUME TypeOK, NEW w \in Workers, NEW passed \in SUBSET Jobs,
           \/ ClaimNothing(w, passed)
           \/ \E j \in Jobs : ClaimLease(w, j, passed)
    PROVE  \A k \in Jobs : KeepsResults(k)
<1>1. \A k \in Jobs : /\ job[k] \in JobRow /\ job[k].attempt \in Nat
                      /\ FailedRow(job[k]).doc = job[k].doc
                      /\ FailedRow(job[k]).attempt = job[k].attempt
  BY FailedRowFacts, RowFields, ConstantsOK DEF TypeOK, Keeps
<1>2. \A k \in Jobs : Available(k) => job[k].status # "succeeded"
  BY DEF Available, Held
<1>3. CASE ClaimNothing(w, passed)
  BY <1>1, <1>2, <1>3 DEF ClaimNothing, KeepsResults
<1>4. ASSUME NEW j \in Jobs, ClaimLease(w, j, passed) PROVE \A k \in Jobs : KeepsResults(k)
  <2> DEFINE row == LeasedRow(job[j], w, RemainingPages(j))
  <2>1. row.doc = job[j].doc /\ row.attempt = job[j].attempt + 1
    BY <1>1 DEF LeasedRow, JobRow
  <2>2. \A k \in Jobs : job'[k] = IF k = j THEN row
                                  ELSE IF k \in passed THEN FailedRow(job[k])
                                  ELSE job[k]
    BY <1>4 DEF ClaimLease
  <2>3. UNCHANGED <<checkpoint, revision>> /\ Available(j)
        /\ \A k \in passed : Available(k)
    BY <1>4 DEF ClaimLease
  <2> HIDE DEF row
  <2> QED
    BY <1>1, <1>2, <2>1, <2>2, <2>3 DEF KeepsResults
<1> QED
  BY <1>3, <1>4

\* A checkpoint is of the attempt the lease and the row agree on, and a job that is
\* still held has no revision.
LEMMA CheckpointKeeps ==
    ASSUME RevisionInv, TypeInv', NEW l \in granted, NEW p \in Pages,
           NEW s \in PageState, Checkpoint(l, p, s)
    PROVE  RevisionInv'
<1>1. /\ l.job \in Jobs /\ l.attempt \in Attempts /\ Attempts \subseteq Nat
      /\ l.attempt = job[l.job].attempt /\ job[l.job].status # "succeeded"
  BY CommandTypes, ConstantsOK
     DEF RevisionInv, TypeInv, Checkpoint, ActiveLease, Held, Attempts
<1>2. ASSUME NEW k \in Jobs PROVE Past(k)' /\ Whole(k)'
  <2>1. CASE k = l.job
    <3>1. revision[k] = NoRevision
      BY <1>1, <2>1 DEF RevisionInv, Whole
    <3>2. Whole(k)'
      BY <3>1 DEF Checkpoint, Whole, NoRevision
    <3>3. ASSUME NEW a \in Attempts, NEW q \in Pages, checkpoint'[k][a][q] # "none"
          PROVE  a <= job[k].attempt
      <4>1. CASE a = l.attempt
        BY <1>1, <2>1, <4>1
      <4>2. CASE a # l.attempt
        <5>1. checkpoint'[k][a][q] = checkpoint[k][a][q]
          BY <1>1, <2>1, <4>2 DEF Checkpoint, RevisionInv, TypeInv, TypeOK
        <5> QED
          BY <3>3, <5>1 DEF RevisionInv, Past
      <4> QED
        BY <4>1, <4>2
    <3> QED
      BY <3>2, <3>3 DEF Past, Checkpoint
  <2>2. CASE k # l.job
    <3>1. job[k].attempt \in Nat
      BY RowFields, ConstantsOK DEF RevisionInv, TypeInv, TypeOK
    <3>2. KeepsResults(k)
      BY <1>1, <2>2, <3>1 DEF Checkpoint, KeepsResults, RevisionInv, TypeInv, TypeOK
    <3> QED
      BY <3>2, ResultsKept DEF RevisionInv, TypeInv
  <2> QED
    BY <2>1, <2>2
<1> QED
  BY <1>2 DEF RevisionInv

\* The revision of a job that succeeds is taken from its newest checkpoints, and
\* none is missing.
LEMMA CompleteWholeKeeps ==
    ASSUME RevisionInv, TypeInv', NEW l \in granted, CompleteWhole(l)
    PROVE  RevisionInv'
<1> DEFINE j == l.job
           total == PageCount[job[j].doc]
           row == SucceededRow(job[j], total)
<1>1. j \in Jobs /\ job[j] \in JobRow /\ total \in 0..MaxPages
  BY CommandTypes DEF RevisionInv, TypeInv
<1>2. /\ row.status = "succeeded" /\ row.doc = job[j].doc
      /\ row.attempt = job[j].attempt
  BY <1>1, SucceededRowFacts DEF Keeps
<1>3. PICK from \in NewestPages(j, total) : revision' = [revision EXCEPT ![j] = from]
  BY DEF CompleteWhole
<1>4. /\ job' = [job EXCEPT ![j] = row] /\ checkpoint' = checkpoint
      /\ total = PageCount[job[j].doc]
  BY DEF CompleteWhole
<1> HIDE DEF row
<1>5. ASSUME NEW k \in Jobs PROVE Past(k)' /\ Whole(k)'
  <2>1. CASE k = j
    <3>1. revision'[k] = from /\ job'[k] = row
      BY <1>1, <1>3, <1>4, <2>1 DEF RevisionInv, TypeInv, TypeOK
    <3>2. Past(k)'
      BY <1>2, <1>4, <2>1, <3>1 DEF Past, RevisionInv
    <3>3. ASSUME NEW p \in Pages, ~(p > total)
          PROVE  /\ from[p] \in 1..job[j].attempt
                 /\ checkpoint[j][from[p]][p] = "succeeded"
                 /\ \A a \in Attempts : a > from[p] => checkpoint[j][a][p] # "succeeded"
      <4>1. /\ from[p] # 0 /\ checkpoint[j][from[p]][p] = "succeeded"
            /\ from[p] \in 0..MaxAttempts
            /\ \A a \in Attempts : a > from[p] => checkpoint[j][a][p] # "succeeded"
        BY <3>3 DEF NewestPages
      <4>2. from[p] \in Attempts
        BY <4>1, ConstantsOK DEF Attempts
      <4>3. from[p] <= job[j].attempt /\ job[j].attempt \in Nat
        BY <1>1, <4>1, <4>2, RowFields, ConstantsOK DEF RevisionInv, Past
      <4> QED
        BY <4>1, <4>2, <4>3, ConstantsOK DEF Attempts
    <3>4. \A p \in Pages : p > total => from[p] = 0
      BY DEF NewestPages
    <3>5. Whole(k)'
      BY <1>2, <1>4, <2>1, <3>1, <3>3, <3>4 DEF Whole
    <3> QED
      BY <3>2, <3>5
  <2>2. CASE k # j
    <3>1. job[k].attempt \in Nat
      BY RowFields, ConstantsOK DEF RevisionInv, TypeInv, TypeOK
    <3>2. KeepsResults(k)
      BY <1>3, <1>4, <2>2, <3>1 DEF KeepsResults, RevisionInv, TypeInv, TypeOK
    <3> QED
      BY <3>2, ResultsKept DEF RevisionInv, TypeInv
  <2> QED
    BY <2>1, <2>2
<1> QED
  BY <1>5 DEF RevisionInv

\* The other commands leave the checkpoints and the revisions alone.
LEMMA CommandKeepsResults ==
    ASSUME TypeInv, NEW l \in granted,
           \/ Start(l)
           \/ \E total \in ReportedTotals(l) : Heartbeat(l, total)
           \/ \E retryable \in BOOLEAN : Fail(l, retryable)
           \/ CompletePartial(l)
    PROVE  \A k \in Jobs : KeepsResults(k)
<1> DEFINE j == l.job
           total == PageCount[job[j].doc]
<1>1. j \in Jobs /\ job[j] \in JobRow /\ total \in 0..MaxPages
  BY CommandTypes DEF TypeInv
<1>2. ActiveLease(l) => job[j].status # "succeeded"
  BY DEF ActiveLease, Held
<1>3. CASE Start(l)
  <2>1. LET row == StartedRow(job[j]) IN row.doc = job[j].doc /\ row.attempt = job[j].attempt
    BY <1>1, StartedRowFacts DEF Keeps
  <2> QED
    BY <1>1, <1>2, <1>3, <2>1, RowKeepsResults DEF Start, TypeInv
<1>4. ASSUME NEW t \in ReportedTotals(l), Heartbeat(l, t)
      PROVE  \A k \in Jobs : KeepsResults(k)
  <2>1. LET row == AliveRow(job[j], t) IN row.doc = job[j].doc /\ row.attempt = job[j].attempt
    BY <1>1 DEF AliveRow, JobRow
  <2> QED
    BY <1>1, <1>2, <1>4, <2>1, RowKeepsResults DEF Heartbeat, TypeInv
<1>5. ASSUME NEW retryable \in BOOLEAN, Fail(l, retryable)
      PROVE  \A k \in Jobs : KeepsResults(k)
  <2> DEFINE retrying == retryable /\ job[j].attempt < MaxAttempts
             row == EndedRow(job[j], retrying, "failed")
  <2>1. retrying \in BOOLEAN
    OBVIOUS
  <2>2. row.doc = job[j].doc /\ row.attempt = job[j].attempt
    BY <1>1, <2>1, EndedRowFacts DEF Keeps
  <2>3. /\ ActiveLease(l) /\ job' = [job EXCEPT ![j] = row]
        /\ UNCHANGED <<checkpoint, revision>>
    BY <1>5 DEF Fail
  <2> HIDE DEF row
  <2> QED
    BY <1>1, <1>2, <2>2, <2>3, RowKeepsResults DEF TypeInv
<1>6. CASE CompletePartial(l)
  <2> DEFINE missing == MissingPages(j, total)
             retrying == job[j].attempt < MaxAttempts
             profile == RetryProfile(j, l.attempt, missing)
             ended == EndedRow(job[j], retrying, "partial_failed")
             row == PartialRow(ended, total, missing, profile)
  <2>1. retrying \in BOOLEAN
    OBVIOUS
  <2>2. ended \in JobRow /\ ended.doc = job[j].doc /\ ended.attempt = job[j].attempt
    BY <1>1, <2>1, EndedRowFacts DEF Keeps
  <2>3. row.doc = job[j].doc /\ row.attempt = job[j].attempt
    BY <2>2 DEF PartialRow, JobRow
  <2>4. /\ ActiveLease(l) /\ job' = [job EXCEPT ![j] = row]
        /\ UNCHANGED <<checkpoint, revision>>
    BY <1>6 DEF CompletePartial
  <2> HIDE DEF row
  <2> QED
    BY <1>1, <1>2, <2>3, <2>4, RowKeepsResults DEF TypeInv
<1> QED
  BY <1>3, <1>4, <1>5, <1>6

\* A purged job has neither checkpoints nor a revision left.
LEMMA CleanupKeeps ==
    ASSUME RevisionInv, TypeInv', NEW d \in Docs, CleanupDocument(d)
    PROVE  RevisionInv'
<1> DEFINE mine == {j \in Jobs : job[j].doc = d /\ job[j].status \in Terminal}
<1>1. ASSUME NEW k \in Jobs PROVE Past(k)' /\ Whole(k)'
  <2>1. CASE k \in mine
    <3>1. checkpoint'[k] = NoCheckpoints /\ revision'[k] = NoRevision
      BY <2>1 DEF CleanupDocument
    <3> QED
      BY <3>1 DEF Past, Whole, NoCheckpoints, NoRevision
  <2>2. CASE k \notin mine
    <3>1. job[k].attempt \in Nat
      BY RowFields, ConstantsOK DEF RevisionInv, TypeInv, TypeOK
    <3>2. KeepsResults(k)
      BY <2>2, <3>1 DEF CleanupDocument, KeepsResults
    <3> QED
      BY <3>2, ResultsKept DEF RevisionInv, TypeInv
  <2> QED
    BY <2>1, <2>2
<1> QED
  BY <1>1 DEF RevisionInv

LEMMA UserKeepsResults ==
    ASSUME TypeInv, NEW d \in Docs,
           \/ \E j \in Jobs : CompleteUpload(d, j)
           \/ CompleteExcluded(d)
           \/ \E j \in Jobs, pages \in SUBSET Pages : Reparse(d, j, pages)
           \/ DeleteDocument(d)
    PROVE  \A k \in Jobs : KeepsResults(k)
<1>1. \A k \in Jobs : job[k] \in JobRow /\ job[k].attempt \in Nat
  BY RowFields, ConstantsOK DEF TypeInv, TypeOK
<1>2. ASSUME NEW j \in Jobs, NEW profile, NEW pages, Enqueue(d, j, profile, pages)
      PROVE  \A k \in Jobs : KeepsResults(k)
  <2>1. LET row == NewJob(d, profile, pages) IN row.doc = d /\ row.attempt = 0
    BY DEF NewJob
  <2>2. job[j].attempt = 0 /\ job[j].doc = d /\ job[j].status = "none"
    BY <1>2 DEF Enqueue, TypeInv, Fresh
  <2> QED
    BY <1>2, <2>1, <2>2, RowKeepsResults DEF Enqueue, TypeInv
<1>3. CASE DeleteDocument(d)
  <2>1. \A k \in Jobs : /\ CancelledRow(job[k]).doc = job[k].doc
                        /\ CancelledRow(job[k]).attempt = job[k].attempt
    BY <1>1, CancelledRowFacts DEF Keeps
  <2>2. \A k \in CancelledJobs(d) : job[k].status # "succeeded"
    BY DEF CancelledJobs, Live
  <2> QED
    BY <1>1, <1>3, <2>1, <2>2 DEF DeleteDocument, KeepsResults
<1>4. CASE CompleteExcluded(d)
  BY <1>1, <1>4 DEF CompleteExcluded, KeepsResults
<1> QED
  BY <1>2, <1>3, <1>4 DEF CompleteUpload, Reparse

LEMMA TimeKeepsResults ==
    ASSUME TypeOK, NEW j \in Jobs, LeaseExpires(j) \/ BecomesDue(j)
    PROVE  \A k \in Jobs : KeepsResults(k)
<1>1. job[j] \in JobRow
  BY DEF TypeOK
<1>2. CASE LeaseExpires(j)
  BY <1>1, <1>2, ExpiredRowFacts, RowKeepsResults DEF LeaseExpires, Keeps, TypeOK
<1>3. CASE BecomesDue(j)
  BY <1>1, <1>3, DueRowFacts, RowKeepsResults DEF BecomesDue, Keeps, TypeOK
<1> QED
  BY <1>2, <1>3

LEMMA RevisionInit == Init => RevisionInv
<1> SUFFICES ASSUME Init PROVE RevisionInv
  OBVIOUS
<1>1. TypeInv
  BY TypeInit
<1> QED
  BY <1>1 DEF Init, RevisionInv, Past, Whole, NoCheckpoints, NoRevision

LEMMA RevisionNext == RevisionInv /\ [Next]_vars => RevisionInv'
<1> SUFFICES ASSUME RevisionInv, [Next]_vars PROVE RevisionInv'
  OBVIOUS
<1>1. TypeInv /\ TypeInv' /\ TypeOK /\ TypeOK'
  BY TypeNext DEF RevisionInv, TypeInv
<1>2. ASSUME \A k \in Jobs : KeepsResults(k) PROVE RevisionInv'
  BY <1>1, <1>2, ResultsKept DEF RevisionInv
<1>3. CASE ClaimStep
  BY <1>1, <1>2, <1>3, ClaimKeepsResults DEF ClaimStep
<1>4. CASE CommandStep
  BY <1>1, <1>2, <1>4, CommandKeepsResults, CheckpointKeeps, CompleteWholeKeeps
     DEF CommandStep
<1>5. CASE UserStep
  BY <1>1, <1>2, <1>5, UserKeepsResults, CleanupKeeps DEF UserStep
<1>6. CASE TimeStep
  BY <1>1, <1>2, <1>6, TimeKeepsResults DEF TimeStep
<1>7. CASE UNCHANGED vars
  <2>1. \A k \in Jobs : job[k].attempt \in Nat
    BY <1>1, RowFields, ConstantsOK DEF TypeOK
  <2> QED
    BY <1>2, <1>7, <2>1 DEF vars, KeepsResults
<1> QED
  BY <1>3, <1>4, <1>5, <1>6, <1>7 DEF Next

\* Whatever crashes, expiries and late commands cut the attempts short, the revision
\* of a succeeded job has every page of the document, each from the newest attempt
\* that parsed it (_collect_verified_pages).
THEOREM RevisionsAreWhole == Spec => []RevisionIsWhole
<1>1. RevisionInv => RevisionIsWhole
  BY DEF RevisionInv, Whole, RevisionIsWhole
<1> QED
  BY RevisionInit, RevisionNext, <1>1, PTL DEF Spec

-----------------------------------------------------------------------------
(* 8. Resuming                                                           *)

\* The first lease of the job asked for the whole document.
AskedForAll(j) == \E l \in granted : l.job = j /\ l.attempt = 1 /\ l.requested = {}

\* The page count is only reported under a lease.
Untried(j) == job[j].attempt = 0 => job[j].total = 0

\* Where the row names pages, the others are parsed.  Where it names none, claim will
\* go by total_pages, which is unknown, or right, or no longer matters.
Resumes(j) ==
    LET all == 1..PageCount[job[j].doc] IN
    AskedForAll(j) /\ job[j].status \in Live =>
        IF job[j].requested # {}
        THEN all \ job[j].requested \subseteq SucceededPages(j)
        ELSE job[j].total \in {0, PageCount[job[j].doc]} \/ all \subseteq SucceededPages(j)

ResumeInv == FenceInv /\ \A j \in Jobs : Untried(j) /\ Resumes(j)

\* What most steps do to a job: they leave what it was asked for, and no parsed page
\* of a live job is lost.
KeepsPlan(j) ==
    /\ AskedForAll(j)' => AskedForAll(j)
    /\ job'[j].doc = job[j].doc /\ job'[j].attempt = job[j].attempt
    /\ job'[j].requested = job[j].requested /\ job'[j].total = job[j].total
    /\ job'[j].status \in Live =>
         job[j].status \in Live /\ SucceededPages(j) \subseteq SucceededPages(j)'

LEMMA PlanKept ==
    ASSUME NEW j \in Jobs, Untried(j), Resumes(j), KeepsPlan(j)
    PROVE  Untried(j)' /\ Resumes(j)'
<1> DEFINE done == SucceededPages(j)
           all == 1..PageCount[job[j].doc]
<1>1. Untried(j)'
  BY DEF Untried, KeepsPlan
<1>2. ASSUME AskedForAll(j)', job'[j].status \in Live
      PROVE  IF job[j].requested # {}
             THEN all \ job[j].requested \subseteq done'
             ELSE job[j].total \in {0, PageCount[job[j].doc]} \/ all \subseteq done'
  <2>1. AskedForAll(j) /\ job[j].status \in Live /\ done \subseteq done'
    BY <1>2 DEF KeepsPlan
  <2>2. IF job[j].requested # {}
        THEN all \ job[j].requested \subseteq done
        ELSE job[j].total \in {0, PageCount[job[j].doc]} \/ all \subseteq done
    BY <2>1 DEF Resumes
  <2> HIDE DEF done, all
  <2> QED
    BY <2>1, <2>2
<1>3. job'[j].doc = job[j].doc /\ job'[j].requested = job[j].requested
      /\ job'[j].total = job[j].total
  BY DEF KeepsPlan
<1> HIDE DEF done
<1>4. Resumes(j)'
  BY <1>2, <1>3 DEF Resumes, done
<1> QED
  BY <1>1, <1>4

\* The columns the plan consists of, in the rows that keep it
LEMMA TotalsKept ==
    ASSUME NEW row \in JobRow
    PROVE  /\ FailedRow(row).total = row.total
           /\ StartedRow(row).total = row.total
           /\ CancelledRow(row).total = row.total
           /\ [row EXCEPT !.status = "purged"].total = row.total
           /\ [row EXCEPT !.expired = TRUE].total = row.total
           /\ [row EXCEPT !.due = TRUE].total = row.total
BY DEF FailedRow, StartedRow, CancelledRow, ClearLease, JobRow

\* One row changes, and neither leases nor checkpoints do.
LEMMA RowKeepsPlan ==
    ASSUME TypeOK, NEW j \in Jobs, NEW row,
           row.doc = job[j].doc, row.attempt = job[j].attempt,
           row.requested = job[j].requested, row.total = job[j].total,
           row.status \in Live => job[j].status \in Live,
           job' = [job EXCEPT ![j] = row], UNCHANGED <<checkpoint, granted>>
    PROVE  \A k \in Jobs : KeepsPlan(k)
<1>1. \A k \in Jobs : SucceededPages(k)' = SucceededPages(k)
                      /\ AskedForAll(k)' = AskedForAll(k)
  BY DEF SucceededPages, AskedForAll
<1> QED
  BY <1>1 DEF TypeOK, KeepsPlan

\* A lease resumes the job: it names the pages of the plan not parsed so far.
LEMMA LeaseResumes ==
    ASSUME ResumeInv, FenceInv', NEW w \in Workers, NEW passed \in SUBSET Jobs,
           NEW j \in Jobs, ClaimLease(w, j, passed)
    PROVE  Untried(j)' /\ Resumes(j)'
<1> DEFINE row == LeasedRow(job[j], w, RemainingPages(j))
           all == 1..PageCount[job[j].doc]
           done == SucceededPages(j)
<1>1. /\ job[j] \in JobRow /\ job[j].attempt \in Nat
      /\ job[j].status \in Live
  BY Statuses, RowFields, ConstantsOK
     DEF ResumeInv, FenceInv, TypeInv, TypeOK, ClaimLease, Available
<1>2. /\ row.doc = job[j].doc /\ row.attempt = job[j].attempt + 1
      /\ row.requested = RemainingPages(j) /\ row.total = job[j].total
  BY <1>1 DEF LeasedRow, JobRow
<1>3. job'[j] = row /\ checkpoint' = checkpoint
      /\ granted' = granted \cup {GrantedLease(j, w)}
  BY DEF ClaimLease
<1> HIDE DEF row
<1>4. done' = done
  BY <1>3 DEF SucceededPages
<1>5. Untried(j)'
  BY <1>1, <1>2, <1>3 DEF Untried
<1>6. ASSUME AskedForAll(j)'
      PROVE  IF RemainingPages(j) # {}
             THEN all \ RemainingPages(j) \subseteq done
             ELSE job[j].total \in {0, PageCount[job[j].doc]} \/ all \subseteq done
  <2>1. CASE AskedForAll(j)
    <3>1. IF job[j].requested # {}
          THEN all \ job[j].requested \subseteq done
          ELSE job[j].total \in {0, PageCount[job[j].doc]} \/ all \subseteq done
      BY <1>1, <2>1 DEF ResumeInv, Resumes
    <3>2. CASE job[j].requested # {}
      <4>1. RemainingPages(j) = job[j].requested \ done
        BY <3>2 DEF RemainingPages
      <4> HIDE DEF all, done
      <4> QED
        BY <3>1, <3>2, <4>1
    <3>3. CASE job[j].requested = {}
      <4>1. RemainingPages(j) = (1..job[j].total) \ done
        BY <3>3 DEF RemainingPages
      <4>2. CASE job[j].total = 0
        BY <4>1, <4>2
      <4>3. CASE job[j].total = PageCount[job[j].doc]
        BY <4>1, <4>3
      <4>4. CASE all \subseteq done
        BY <4>4
      <4> QED
        BY <3>1, <3>3, <4>2, <4>3, <4>4
    <3> QED
      BY <3>2, <3>3
  <2>2. CASE ~AskedForAll(j)
    <3>1. GrantedLease(j, w).attempt = 1 /\ GrantedLease(j, w).requested = {}
      BY <1>3, <1>6, <2>2 DEF AskedForAll
    <3>2. job[j].attempt = 0 /\ RemainingPages(j) = {}
      BY <1>1, <3>1 DEF GrantedLease
    <3>3. job[j].total = 0
      BY <3>2 DEF ResumeInv, Untried
    <3> QED
      BY <3>2, <3>3
  <2> QED
    BY <2>1, <2>2
<1> HIDE DEF done
<1>7. Resumes(j)'
  BY <1>2, <1>3, <1>4, <1>6 DEF Resumes, done
<1> QED
  BY <1>5, <1>7

LEMMA ClaimResumes ==
    ASSUME ResumeInv, FenceInv', NEW w \in Workers, NEW passed \in SUBSET Jobs,
           \/ ClaimNothing(w, passed)
           \/ \E j \in Jobs : ClaimLease(w, j, passed)
    PROVE  ResumeInv'
<1>1. \A k \in Jobs : LET new == FailedRow(job[k]) IN
         /\ new.doc = job[k].doc /\ new.attempt = job[k].attempt
         /\ new.requested = job[k].requested /\ new.total = job[k].total
         /\ new.status \notin Live
  BY FailedRowFacts, TotalsKept, Statuses
     DEF ResumeInv, FenceInv, TypeInv, TypeOK, Keeps
<1>2. \A k \in Jobs : SucceededPages(k)' = SucceededPages(k)
  BY DEF SucceededPages, ClaimNothing, ClaimLease
<1>3. CASE ClaimNothing(w, passed)
  <2>1. \A k \in Jobs : AskedForAll(k)' = AskedForAll(k)
    BY <1>3 DEF AskedForAll, ClaimNothing
  <2>2. \A k \in Jobs : KeepsPlan(k)
    BY <1>1, <1>2, <1>3, <2>1 DEF ClaimNothing, KeepsPlan
  <2> QED
    BY <2>2, PlanKept DEF ResumeInv
<1>4. ASSUME NEW j \in Jobs, ClaimLease(w, j, passed) PROVE ResumeInv'
  <2>1. \A k \in Jobs \ {j} : AskedForAll(k)' => AskedForAll(k)
    BY <1>4 DEF AskedForAll, ClaimLease, GrantedLease
  <2>2. \A k \in Jobs \ {j} : job'[k] = IF k \in passed THEN FailedRow(job[k]) ELSE job[k]
    BY <1>4 DEF ClaimLease
  <2>3. \A k \in Jobs \ {j} : KeepsPlan(k)
    BY <1>1, <1>2, <2>1, <2>2 DEF KeepsPlan
  <2> QED
    BY <1>4, <2>3, PlanKept, LeaseResumes DEF ResumeInv
<1> QED
  BY <1>3, <1>4

\* The pages a command is asked for are those of its row.
LEMMA ObeyedLeaseIsTheRows ==
    ASSUME FenceInv, NEW l \in granted, ActiveLease(l)
    PROVE  l.requested = job[l.job].requested /\ job[l.job].attempt # 0
<1>1. l.job \in Jobs /\ l.attempt \in Attempts /\ l.attempt = job[l.job].attempt
      /\ job[l.job].status \in Held
  BY CommandTypes DEF FenceInv, TypeInv, ActiveLease
<1>2. PICK m \in granted : /\ m.job = l.job /\ m.attempt = job[l.job].attempt
                           /\ m.requested = job[l.job].requested
  BY <1>1 DEF FenceInv, RowMatchesLease
<1>3. l = m
  BY <1>1, <1>2 DEF FenceInv, OnePerAttempt
<1> QED
  BY <1>1, <1>2, <1>3, ConstantsOK DEF Attempts

\* A heartbeat may report the length of the request for the page count; that does no
\* harm, since the row then names its pages.
LEMMA HeartbeatResumes ==
    ASSUME ResumeInv, FenceInv', NEW l \in granted, NEW t \in ReportedTotals(l),
           Heartbeat(l, t)
    PROVE  ResumeInv'
<1> DEFINE j == l.job
           row == AliveRow(job[j], t)
<1>1. /\ j \in Jobs /\ job[j] \in JobRow /\ job \in [Jobs -> JobRow]
      /\ l.requested = job[j].requested /\ job[j].attempt # 0
  BY CommandTypes, ObeyedLeaseIsTheRows
     DEF ResumeInv, FenceInv, TypeInv, TypeOK, Heartbeat
<1>2. /\ row.doc = job[j].doc /\ row.attempt = job[j].attempt /\ row.total = t
      /\ row.requested = job[j].requested /\ row.status = job[j].status
  BY <1>1 DEF AliveRow, JobRow
<1>3. job' = [job EXCEPT ![j] = row] /\ UNCHANGED <<checkpoint, granted>>
  BY DEF Heartbeat
<1> HIDE DEF row
<1>4. \A k \in Jobs : SucceededPages(k)' = SucceededPages(k)
                      /\ AskedForAll(k)' = AskedForAll(k)
  BY <1>3 DEF SucceededPages, AskedForAll
<1>5. \A k \in Jobs \ {j} : KeepsPlan(k)
  BY <1>1, <1>3, <1>4 DEF KeepsPlan
<1>6. job[j].requested = {} => t \in {0, PageCount[job[j].doc]}
  BY <1>1, FS_EmptySet DEF ReportedTotals
<1>7. Untried(j)' /\ Resumes(j)'
  <2>1. job'[j] = row
    BY <1>1, <1>3
  <2>2. Untried(j)'
    BY <1>1, <1>2, <2>1 DEF Untried
  <2>3. Resumes(j)'
    BY <1>1, <1>2, <1>4, <1>6, <2>1 DEF Resumes, ResumeInv
  <2> QED
    BY <2>2, <2>3
<1> QED
  BY <1>5, <1>7, PlanKept DEF ResumeInv

\* A checkpoint is never overwritten, so no parsed page is lost.
LEMMA CheckpointResumes ==
    ASSUME ResumeInv, FenceInv', NEW l \in granted, NEW p \in Pages,
           NEW s \in PageState \ {"none"}, Checkpoint(l, p, s)
    PROVE  ResumeInv'
<1>1. /\ l.job \in Jobs /\ l.attempt \in Attempts /\ job' = job /\ granted' = granted
      /\ checkpoint[l.job][l.attempt][p] = "none"
      /\ checkpoint' = [checkpoint EXCEPT ![l.job][l.attempt][p] = s]
  BY CommandTypes DEF ResumeInv, FenceInv, TypeInv, Checkpoint
<1>2. \A k \in Jobs, a \in Attempts, q \in Pages :
        checkpoint[k][a][q] = "succeeded" => checkpoint'[k][a][q] = "succeeded"
  BY <1>1 DEF ResumeInv, FenceInv, TypeInv, TypeOK
<1>3. \A k \in Jobs : SucceededPages(k) \subseteq SucceededPages(k)'
  BY <1>2 DEF SucceededPages
<1>4. \A k \in Jobs : AskedForAll(k)' = AskedForAll(k)
  BY <1>1 DEF AskedForAll
<1>5. \A k \in Jobs : KeepsPlan(k)
  BY <1>1, <1>3, <1>4 DEF KeepsPlan
<1> QED
  BY <1>5, PlanKept DEF ResumeInv

\* A partial completion asks for exactly the missing pages.
LEMMA CompleteResumes ==
    ASSUME ResumeInv, FenceInv', NEW l \in granted,
           CompleteWhole(l) \/ CompletePartial(l)
    PROVE  ResumeInv'
<1> DEFINE j == l.job
           total == PageCount[job[j].doc]
<1>1. /\ j \in Jobs /\ job[j] \in JobRow /\ job \in [Jobs -> JobRow]
      /\ total \in 0..MaxPages /\ job[j].attempt # 0
  BY CommandTypes, ObeyedLeaseIsTheRows
     DEF ResumeInv, FenceInv, TypeInv, TypeOK, CompleteWhole, CompletePartial
<1>2. \A k \in Jobs : SucceededPages(k)' = SucceededPages(k)
                      /\ AskedForAll(k)' = AskedForAll(k)
  BY DEF SucceededPages, AskedForAll, CompleteWhole, CompletePartial
<1>3. ASSUME NEW row, job' = [job EXCEPT ![j] = row], row.doc = job[j].doc,
             row.attempt = job[j].attempt,
             row.status \in Live =>
                row.requested = MissingPages(j, total) /\ row.requested # {}
      PROVE  ResumeInv'
  <2>1. \A k \in Jobs \ {j} : KeepsPlan(k)
    BY <1>1, <1>2, <1>3 DEF KeepsPlan
  <2>2. job'[j] = row
    BY <1>1, <1>3
  <2>3. Untried(j)'
    BY <1>1, <1>3, <2>2 DEF Untried
  <2>4. Resumes(j)'
    BY <1>1, <1>2, <1>3, <2>2 DEF Resumes, MissingPages
  <2> QED
    BY <2>1, <2>3, <2>4, PlanKept DEF ResumeInv
<1>4. CASE CompleteWhole(l)
  <2> DEFINE row == SucceededRow(job[j], total)
  <2>1. row.doc = job[j].doc /\ row.attempt = job[j].attempt /\ row.status \notin Live
    BY <1>1, SucceededRowFacts, Statuses DEF Keeps
  <2>2. job' = [job EXCEPT ![j] = row]
    BY <1>4 DEF CompleteWhole
  <2> HIDE DEF row
  <2> QED
    BY <1>3, <2>1, <2>2
<1>5. CASE CompletePartial(l)
  <2> DEFINE missing == MissingPages(j, total)
             retrying == job[j].attempt < MaxAttempts
             profile == RetryProfile(j, l.attempt, missing)
             ended == EndedRow(job[j], retrying, "partial_failed")
             row == PartialRow(ended, total, missing, profile)
  <2>1. retrying \in BOOLEAN
    OBVIOUS
  <2>2. ended \in JobRow /\ ended.doc = job[j].doc /\ ended.attempt = job[j].attempt
    BY <1>1, <2>1, EndedRowFacts DEF Keeps
  <2>3. /\ row.doc = job[j].doc /\ row.attempt = job[j].attempt
        /\ row.requested = missing
    BY <2>2 DEF PartialRow, JobRow
  <2>4. job' = [job EXCEPT ![j] = row] /\ missing # {}
    BY <1>5 DEF CompletePartial
  <2> HIDE DEF row
  <2> QED
    BY <1>3, <2>3, <2>4
<1> QED
  BY <1>4, <1>5

LEMMA CommandKeepsPlan ==
    ASSUME ResumeInv, NEW l \in granted,
           Start(l) \/ \E retryable \in BOOLEAN : Fail(l, retryable)
    PROVE  \A k \in Jobs : KeepsPlan(k)
<1> DEFINE j == l.job
<1>1. j \in Jobs /\ job[j] \in JobRow /\ TypeOK
  BY CommandTypes DEF ResumeInv, FenceInv, TypeInv
<1>2. ActiveLease(l) => job[j].status \in Live
  BY Statuses DEF ActiveLease
<1>3. CASE Start(l)
  <2>1. LET row == StartedRow(job[j]) IN
          /\ row.doc = job[j].doc /\ row.attempt = job[j].attempt
          /\ row.requested = job[j].requested /\ row.total = job[j].total
    BY <1>1, StartedRowFacts, TotalsKept DEF Keeps
  <2> QED
    BY <1>1, <1>2, <1>3, <2>1, RowKeepsPlan DEF Start
<1>4. ASSUME NEW retryable \in BOOLEAN, Fail(l, retryable)
      PROVE  \A k \in Jobs : KeepsPlan(k)
  <2> DEFINE retrying == retryable /\ job[j].attempt < MaxAttempts
             row == EndedRow(job[j], retrying, "failed")
  <2>1. retrying \in BOOLEAN
    OBVIOUS
  <2>2. /\ row.doc = job[j].doc /\ row.attempt = job[j].attempt
        /\ row.requested = job[j].requested
    BY <1>1, <2>1, EndedRowFacts DEF Keeps
  <2>3. row.total = job[j].total
    BY <1>1 DEF EndedRow, ClearLease, JobRow
  <2>4. /\ ActiveLease(l) /\ job' = [job EXCEPT ![j] = row]
        /\ UNCHANGED <<checkpoint, granted>>
    BY <1>4 DEF Fail
  <2> HIDE DEF row
  <2> QED
    BY <1>1, <1>2, <2>2, <2>3, <2>4, RowKeepsPlan
<1> QED
  BY <1>3, <1>4

LEMMA UserResumes ==
    ASSUME ResumeInv, FenceInv', UserStep
    PROVE  ResumeInv'
<1>1. /\ TypeOK /\ \A k \in Jobs : job[k] \in JobRow
      /\ \A k \in Jobs : AskedForAll(k)' = AskedForAll(k)
  BY DEF ResumeInv, FenceInv, TypeInv, TypeOK, AskedForAll, UserStep, CompleteUpload,
         CompleteExcluded, Reparse, Enqueue, DeleteDocument, CleanupDocument
<1>2. ASSUME \A k \in Jobs : KeepsPlan(k) PROVE ResumeInv'
  BY <1>2, PlanKept DEF ResumeInv
<1>3. ASSUME NEW d, NEW j \in Jobs, NEW profile, NEW pages, Enqueue(d, j, profile, pages)
      PROVE  ResumeInv'
  <2> DEFINE row == NewJob(d, profile, pages)
  <2>1. row.attempt = 0 /\ row.total = 0
    BY DEF NewJob
  <2>2. job' = [job EXCEPT ![j] = row] /\ UNCHANGED <<checkpoint, granted>>
    BY <1>3 DEF Enqueue
  <2> HIDE DEF row
  <2>3. ~AskedForAll(j)
    <3>1. job[j].attempt = 0
      BY <1>3 DEF Enqueue, ResumeInv, FenceInv, TypeInv, Fresh
    <3> QED
      BY <3>1 DEF AskedForAll, ResumeInv, FenceInv, GrantsArePast
  <2>4. Untried(j)' /\ Resumes(j)'
    BY <1>1, <2>1, <2>2, <2>3 DEF Untried, Resumes, TypeOK
  <2>5. \A k \in Jobs : SucceededPages(k)' = SucceededPages(k)
    BY <2>2 DEF SucceededPages
  <2>6. \A k \in Jobs \ {j} : KeepsPlan(k)
    BY <1>1, <2>2, <2>5 DEF KeepsPlan, TypeOK
  <2> QED
    BY <2>4, <2>6, PlanKept DEF ResumeInv
<1>4. ASSUME NEW d \in Docs, CompleteExcluded(d) PROVE ResumeInv'
  <2>1. \A k \in Jobs : SucceededPages(k)' = SucceededPages(k)
    BY <1>4 DEF CompleteExcluded, SucceededPages
  <2> QED
    BY <1>1, <1>2, <1>4, <2>1 DEF CompleteExcluded, KeepsPlan
<1>5. ASSUME NEW d \in Docs, DeleteDocument(d) PROVE ResumeInv'
  <2>1. \A k \in Jobs : LET row == CancelledRow(job[k]) IN
          /\ row.doc = job[k].doc /\ row.attempt = job[k].attempt
          /\ row.requested = job[k].requested /\ row.total = job[k].total
          /\ row.status \notin Live
    BY <1>1, CancelledRowFacts, TotalsKept, Statuses DEF Keeps
  <2>2. \A k \in Jobs : SucceededPages(k)' = SucceededPages(k)
    BY <1>5 DEF DeleteDocument, SucceededPages
  <2> QED
    BY <1>1, <1>2, <1>5, <2>1, <2>2 DEF DeleteDocument, KeepsPlan
<1>6. ASSUME NEW d \in Docs, CleanupDocument(d) PROVE ResumeInv'
  <2> DEFINE row(k) == [job[k] EXCEPT !.status = "purged"]
             mine == {j \in Jobs : job[j].doc = d /\ job[j].status \in Terminal}
  <2>1. \A k \in Jobs : /\ row(k).doc = job[k].doc /\ row(k).attempt = job[k].attempt
                        /\ row(k).requested = job[k].requested
                        /\ row(k).total = job[k].total /\ row(k).status \notin Live
    BY <1>1, PurgedRowFacts, TotalsKept, Statuses DEF Keeps
  <2>2. \A k \in Jobs : /\ k \in mine => job'[k] = row(k)
                        /\ k \notin mine => job'[k] = job[k] /\ checkpoint'[k] = checkpoint[k]
    BY <1>6 DEF CleanupDocument
  <2> HIDE DEF row, mine
  <2>3. \A k \in Jobs \ mine : SucceededPages(k)' = SucceededPages(k)
    BY <2>2 DEF SucceededPages
  <2> QED
    BY <1>1, <1>2, <2>1, <2>2, <2>3 DEF KeepsPlan
<1> QED
  BY <1>3, <1>4, <1>5, <1>6 DEF UserStep, CompleteUpload, Reparse

LEMMA TimeKeepsPlan ==
    ASSUME TypeOK, NEW j \in Jobs, LeaseExpires(j) \/ BecomesDue(j)
    PROVE  \A k \in Jobs : KeepsPlan(k)
<1>1. job[j] \in JobRow
  BY DEF TypeOK
<1>2. CASE LeaseExpires(j)
  BY <1>1, <1>2, ExpiredRowFacts, TotalsKept, RowKeepsPlan DEF LeaseExpires, Keeps, TypeOK
<1>3. CASE BecomesDue(j)
  BY <1>1, <1>3, DueRowFacts, TotalsKept, RowKeepsPlan DEF BecomesDue, Keeps, TypeOK
<1> QED
  BY <1>2, <1>3

LEMMA ResumeInit == Init => ResumeInv
BY FenceInit DEF Init, Absent, ResumeInv, Untried, Resumes, AskedForAll

LEMMA ResumeNext == ResumeInv /\ [Next]_vars => ResumeInv'
<1> SUFFICES ASSUME ResumeInv, [Next]_vars PROVE ResumeInv'
  OBVIOUS
<1>1. FenceInv /\ FenceInv' /\ TypeOK
  BY FenceNext DEF ResumeInv, FenceInv, TypeInv
<1>2. ASSUME \A k \in Jobs : KeepsPlan(k) PROVE ResumeInv'
  BY <1>1, <1>2, PlanKept DEF ResumeInv
<1>3. CASE ClaimStep
  BY <1>1, <1>3, ClaimResumes DEF ClaimStep
<1>4. CASE CommandStep
  BY <1>1, <1>2, <1>4, CommandKeepsPlan, HeartbeatResumes, CheckpointResumes,
     CompleteResumes DEF CommandStep
<1>5. CASE UserStep
  BY <1>1, <1>5, UserResumes
<1>6. CASE TimeStep
  BY <1>1, <1>2, <1>6, TimeKeepsPlan DEF TimeStep
<1>7. CASE UNCHANGED vars
  <2>1. \A k \in Jobs : SucceededPages(k)' = SucceededPages(k)
                        /\ AskedForAll(k)' = AskedForAll(k)
    BY <1>7 DEF vars, SucceededPages, AskedForAll
  <2> QED
    BY <1>2, <1>7, <2>1 DEF vars, KeepsPlan
<1> QED
  BY <1>3, <1>4, <1>5, <1>6, <1>7 DEF Next

\* Resuming loses no page, whatever total_pages the heartbeats before reported: claim
\* asks for all pages that remaining_requested_pages has to find (claim, complete).
THEOREM NoPageIsForgotten == Spec => []ResumeCoversMissing
<1>1. ResumeInv => ResumeCoversMissing
  <2> SUFFICES ASSUME ResumeInv, NEW l \in granted, l.attempt = 1, l.requested = {},
                      job[l.job].status \in Live, job[l.job].requested # {},
                      NEW p \in 1..PageCount[job[l.job].doc] \ job[l.job].requested
               PROVE  \E a \in Attempts : checkpoint[l.job][a][p] = "succeeded"
    BY DEF ResumeCoversMissing
  <2>1. l.job \in Jobs
    BY CommandTypes DEF ResumeInv, FenceInv, TypeInv
  <2>2. p \in SucceededPages(l.job)
    BY <2>1 DEF ResumeInv, Resumes, AskedForAll
  <2> QED
    BY <2>2 DEF SucceededPages
<1> QED
  BY ResumeInit, ResumeNext, <1>1, PTL DEF Spec

-----------------------------------------------------------------------------
(* 9. FencedTask: steps of one job and the steps of its task             *)

\* The step is a step of the task of job j, or leaves the task as it is.
Maps(j) == [Task(j)!Next]_(Task(j)!vars)

\* A step that keeps the phase, the attempt, the owner and the checkpoints
LEMMA StutterMaps ==
    ASSUME NEW j \in Jobs, Phase(j)' = Phase(j),
           job'[j].attempt = job[j].attempt, job'[j].owner = job[j].owner,
           checkpoint'[j] = checkpoint[j]
    PROVE  Maps(j)
<1>1. \A a \in Attempts : CoveredPages(j, a)' = CoveredPages(j, a)
  BY DEF CoveredPages
<1> QED
  BY <1>1 DEF Maps, Task!vars

LEMMA SubmitMaps ==
    ASSUME NEW j \in Jobs, job[j].status = "none", job'[j].status = "queued",
           job'[j].attempt = job[j].attempt, job'[j].owner = job[j].owner,
           checkpoint'[j] = checkpoint[j]
    PROVE  Maps(j)
<1>1. \A a \in Attempts : CoveredPages(j, a)' = CoveredPages(j, a)
  BY DEF CoveredPages
<1>2. Phase(j) = "absent" /\ Phase(j)' = "waiting"
  BY DEF Phase, Held, Terminal
<1> QED
  BY <1>1, <1>2 DEF Maps, Task!Next, Task!Submit

LEMMA HandOutMaps ==
    ASSUME NEW j \in Jobs, NEW w \in Workers, job[j].status \in Live,
           job[j].attempt < MaxAttempts, job'[j].status = "leased",
           job'[j].attempt = job[j].attempt + 1, job'[j].owner = w,
           checkpoint'[j] = checkpoint[j]
    PROVE  Maps(j)
<1>1. \A a \in Attempts : CoveredPages(j, a)' = CoveredPages(j, a)
  BY DEF CoveredPages
<1>2. Phase(j) \in {"waiting", "held"} /\ Phase(j)' = "held"
  BY DEF Phase, Held, Terminal, Live
<1> QED
  BY <1>1, <1>2 DEF Maps, Task!Next, Task!HandOut

LEMMA RecordMaps ==
    ASSUME TypeOK, NEW j \in Jobs, NEW p \in Pages, NEW s \in PageState \ {"none"},
           job[j].status \in Held, job[j].attempt \in Attempts, job' = job,
           checkpoint[j][job[j].attempt][p] = "none",
           checkpoint' = [checkpoint EXCEPT ![j][job[j].attempt][p] = s]
    PROVE  Maps(j)
<1> DEFINE found == [a \in Attempts |-> CoveredPages(j, a)]
           now == job[j].attempt
<1>1. \A a \in Attempts, q \in Pages :
        checkpoint'[j][a][q] = IF a = now /\ q = p THEN s ELSE checkpoint[j][a][q]
  BY DEF TypeOK
<1>2. \A a \in Attempts : CoveredPages(j, a)' =
        IF a = now THEN CoveredPages(j, a) \cup {p} ELSE CoveredPages(j, a)
  BY <1>1 DEF CoveredPages
<1>3. found' = [found EXCEPT ![now] = found[now] \cup {p}]
  BY <1>2
<1>4. p \notin found[now]
  BY DEF CoveredPages
<1>5. Phase(j) = "held" /\ Phase(j)' = Phase(j)
  BY DEF Phase, Held
<1> QED
  BY <1>3, <1>4, <1>5 DEF Maps, Task!Next, Task!Record

LEMMA GiveBackMaps ==
    ASSUME NEW j \in Jobs, job[j].status \in Held, job'[j].status = "retry_wait",
           job[j].attempt < MaxAttempts, job'[j].attempt = job[j].attempt,
           job'[j].owner = NoWorker, checkpoint'[j] = checkpoint[j]
    PROVE  Maps(j)
<1>1. \A a \in Attempts : CoveredPages(j, a)' = CoveredPages(j, a)
  BY DEF CoveredPages
<1>2. Phase(j) = "held" /\ Phase(j)' = "waiting"
  BY DEF Phase, Held, Terminal
<1> QED
  BY <1>1, <1>2 DEF Maps, Task!Next, Task!GiveBack

LEMMA FinishMaps ==
    ASSUME NEW j \in Jobs, job[j].status \in Live, job'[j].status \in Terminal,
           job'[j].attempt = job[j].attempt, job'[j].owner = NoWorker,
           checkpoint'[j] = checkpoint[j]
    PROVE  Maps(j)
<1>1. \A a \in Attempts : CoveredPages(j, a)' = CoveredPages(j, a)
  BY DEF CoveredPages
<1>2. Phase(j) \in {"waiting", "held"} /\ Phase(j)' = "done"
  BY DEF Phase, Held, Terminal, Live
<1> QED
  BY <1>1, <1>2 DEF Maps, Task!Next, Task!Finish

LEMMA DiscardMaps ==
    ASSUME NEW j \in Jobs, job[j].status \in Terminal, job'[j].status = "purged",
           job'[j].attempt = job[j].attempt, job'[j].owner = job[j].owner,
           checkpoint'[j] = NoCheckpoints
    PROVE  Maps(j)
<1>1. \A a \in Attempts : CoveredPages(j, a)' = {}
  BY DEF CoveredPages, NoCheckpoints
<1>2. Phase(j) = "done" /\ Phase(j)' = "discarded"
  BY DEF Phase, Held, Terminal
<1> QED
  BY <1>1, <1>2 DEF Maps, Task!Next, Task!Discard, Task!Nothing, Attempts

\* The rows a step does not name
LEMMA OthersMap ==
    ASSUME NEW j \in Jobs, job'[j] = job[j], checkpoint'[j] = checkpoint[j]
    PROVE  Maps(j)
<1>1. Phase(j)' = Phase(j)
  BY DEF Phase
<1> QED
  BY <1>1, StutterMaps

-----------------------------------------------------------------------------
(* 10. FencedTask: the handlers                                          *)

LEMMA ClaimMaps ==
    ASSUME FenceInv, NEW w \in Workers, NEW passed \in SUBSET Jobs,
           \/ ClaimNothing(w, passed)
           \/ \E j \in Jobs : ClaimLease(w, j, passed),
           NEW k \in Jobs
    PROVE  Maps(k)
<1>1. /\ job[k] \in JobRow /\ checkpoint' = checkpoint
      /\ Available(k) => job[k].status \in Live
  BY Statuses DEF FenceInv, TypeInv, TypeOK, ClaimNothing, ClaimLease, Available
<1>2. ASSUME Available(k), job'[k] = FailedRow(job[k]) PROVE Maps(k)
  <2>1. /\ FailedRow(job[k]).status \in Terminal /\ FailedRow(job[k]).owner = NoWorker
        /\ FailedRow(job[k]).attempt = job[k].attempt
    BY <1>1, FailedRowFacts, Statuses DEF Keeps, Released
  <2> QED
    BY <1>1, <1>2, <2>1, FinishMaps
<1>3. CASE ClaimNothing(w, passed)
  <2>1. k \in passed => Available(k) /\ job'[k] = FailedRow(job[k])
    BY <1>3 DEF ClaimNothing
  <2>2. k \notin passed => job'[k] = job[k]
    BY <1>3 DEF ClaimNothing
  <2> QED
    BY <1>1, <1>2, <2>1, <2>2, OthersMap
<1>4. ASSUME NEW j \in Jobs, ClaimLease(w, j, passed) PROVE Maps(k)
  <2>1. CASE k = j
    <3> DEFINE row == LeasedRow(job[k], w, RemainingPages(k))
    <3>1. row.status = "leased" /\ row.attempt = job[k].attempt + 1 /\ row.owner = w
      BY <1>1 DEF LeasedRow, JobRow
    <3>2. job'[k] = row /\ Available(k) /\ ~Exhausted(k)
      BY <1>4, <2>1 DEF ClaimLease
    <3>3. job[k].attempt < MaxAttempts
      BY <1>1, <3>2, RowFields, ConstantsOK DEF Exhausted, FenceInv, TypeInv, Fresh
    <3> HIDE DEF row
    <3> QED
      BY <1>1, <3>1, <3>2, <3>3, HandOutMaps
  <2>2. CASE k # j
    <3>1. k \in passed => Available(k) /\ job'[k] = FailedRow(job[k])
      BY <1>4, <2>2 DEF ClaimLease
    <3>2. k \notin passed => job'[k] = job[k]
      BY <1>4, <2>2 DEF ClaimLease
    <3> QED
      BY <1>1, <1>2, <3>1, <3>2, OthersMap
  <2> QED
    BY <2>1, <2>2
<1> QED
  BY <1>3, <1>4

\* A row that ends its attempt
LEMMA EndedMaps ==
    ASSUME FenceInv, NEW j \in Jobs, NEW retrying \in BOOLEAN, job[j].status \in Held,
           retrying => job[j].attempt < MaxAttempts,
           NEW status \in {"failed", "partial_failed"},
           job'[j].status = IF retrying THEN "retry_wait" ELSE status,
           job'[j].attempt = job[j].attempt, job'[j].owner = NoWorker,
           checkpoint'[j] = checkpoint[j]
    PROVE  Maps(j)
<1>1. CASE retrying
  BY <1>1, GiveBackMaps
<1>2. CASE ~retrying
  BY <1>2, FinishMaps, Statuses
<1> QED
  BY <1>1, <1>2

LEMMA CommandMaps ==
    ASSUME FenceInv, NEW l \in granted,
           \/ Start(l)
           \/ \E total \in ReportedTotals(l) : Heartbeat(l, total)
           \/ \E p \in Pages, s \in PageState \ {"none"} : Checkpoint(l, p, s)
           \/ \E retryable \in BOOLEAN : Fail(l, retryable)
           \/ CompleteWhole(l)
           \/ CompletePartial(l),
           NEW k \in Jobs
    PROVE  Maps(k)
<1> DEFINE j == l.job
           total == PageCount[job[j].doc]
<1>1. /\ j \in Jobs /\ job[j] \in JobRow /\ total \in 0..MaxPages
      /\ l.attempt \in Attempts /\ job \in [Jobs -> JobRow]
  BY CommandTypes DEF FenceInv, TypeInv, TypeOK
<1>2. ActiveLease(l) => job[j].status \in Held /\ job[j].attempt = l.attempt
  BY DEF ActiveLease
<1>3. ASSUME NEW row, job' = [job EXCEPT ![j] = row], checkpoint' = checkpoint, k # j
      PROVE  Maps(k)
  BY <1>1, <1>3, OthersMap
<1>4. ASSUME NEW row, job' = [job EXCEPT ![j] = row], checkpoint' = checkpoint, k = j,
             job[j].status \in Held, row.status \in Held,
             row.attempt = job[j].attempt, row.owner = job[j].owner
      PROVE  Maps(k)
  <2>1. Phase(k)' = Phase(k)
    BY <1>1, <1>4 DEF Phase, Held
  <2> QED
    BY <1>1, <1>4, <2>1, StutterMaps
<1>5. CASE Start(l)
  <2> DEFINE row == StartedRow(job[j])
  <2>1. row.status \in Held /\ row.attempt = job[j].attempt /\ row.owner = job[j].owner
    BY <1>1, StartedRowFacts, Statuses DEF Keeps
  <2>2. job' = [job EXCEPT ![j] = row] /\ checkpoint' = checkpoint /\ ActiveLease(l)
    BY <1>5 DEF Start
  <2> HIDE DEF row
  <2> QED
    BY <1>2, <1>3, <1>4, <2>1, <2>2
<1>6. ASSUME NEW t \in ReportedTotals(l), Heartbeat(l, t) PROVE Maps(k)
  <2> DEFINE row == AliveRow(job[j], t)
  <2>1. /\ row.status = job[j].status /\ row.attempt = job[j].attempt
        /\ row.owner = job[j].owner
    BY <1>1 DEF AliveRow, JobRow
  <2>2. job' = [job EXCEPT ![j] = row] /\ checkpoint' = checkpoint /\ ActiveLease(l)
    BY <1>6 DEF Heartbeat
  <2> HIDE DEF row
  <2> QED
    BY <1>2, <1>3, <1>4, <2>1, <2>2
<1>7. ASSUME NEW p \in Pages, NEW s \in PageState \ {"none"}, Checkpoint(l, p, s)
      PROVE  Maps(k)
  <2>1. /\ job[j].status \in Held /\ job[j].attempt \in Attempts /\ job' = job
        /\ checkpoint[j][job[j].attempt][p] = "none"
        /\ checkpoint' = [checkpoint EXCEPT ![j][job[j].attempt][p] = s]
    BY <1>1, <1>2, <1>7 DEF Checkpoint
  <2>2. CASE k = j
    BY <2>1, <2>2, RecordMaps DEF FenceInv, TypeInv
  <2>3. CASE k # j
    BY <2>1, <2>3, OthersMap DEF FenceInv, TypeInv, TypeOK
  <2> QED
    BY <2>2, <2>3
<1>8. ASSUME NEW row, NEW retrying \in BOOLEAN, NEW status \in {"failed", "partial_failed"},
             job' = [job EXCEPT ![j] = row], checkpoint' = checkpoint,
             job[j].status \in Held, retrying => job[j].attempt < MaxAttempts,
             row.status = IF retrying THEN "retry_wait" ELSE status,
             row.attempt = job[j].attempt, row.owner = NoWorker
      PROVE  Maps(k)
  BY <1>1, <1>3, <1>8, EndedMaps
<1>9. ASSUME NEW retryable \in BOOLEAN, Fail(l, retryable) PROVE Maps(k)
  <2> DEFINE retrying == retryable /\ job[j].attempt < MaxAttempts
             row == EndedRow(job[j], retrying, "failed")
  <2>1. retrying \in BOOLEAN /\ (retrying => job[j].attempt < MaxAttempts)
    OBVIOUS
  <2>2. /\ row.attempt = job[j].attempt /\ row.owner = NoWorker
        /\ row.status = IF retrying THEN "retry_wait" ELSE "failed"
    BY <1>1, <2>1, EndedRowFacts DEF Keeps, Released
  <2>3. /\ job[j].status \in Held /\ job' = [job EXCEPT ![j] = row]
        /\ checkpoint' = checkpoint
    BY <1>2, <1>9 DEF Fail
  <2> HIDE DEF row, retrying
  <2> QED
    BY <1>8, <2>1, <2>2, <2>3
<1>10. CASE CompleteWhole(l)
  <2> DEFINE row == SucceededRow(job[j], total)
  <2>1. row.status \in Terminal /\ row.attempt = job[j].attempt /\ row.owner = NoWorker
    BY <1>1, SucceededRowFacts, Statuses DEF Keeps, Released
  <2>2. /\ job[j].status \in Live /\ job' = [job EXCEPT ![j] = row]
        /\ checkpoint' = checkpoint
    BY <1>2, <1>10, Statuses DEF CompleteWhole
  <2> HIDE DEF row
  <2> QED
    BY <1>1, <1>3, <2>1, <2>2, FinishMaps
<1>11. CASE CompletePartial(l)
  <2> DEFINE missing == MissingPages(j, total)
             retrying == job[j].attempt < MaxAttempts
             profile == RetryProfile(j, l.attempt, missing)
             ended == EndedRow(job[j], retrying, "partial_failed")
             row == PartialRow(ended, total, missing, profile)
  <2>1. retrying \in BOOLEAN
    OBVIOUS
  <2>2. /\ ended \in JobRow /\ ended.attempt = job[j].attempt /\ ended.owner = NoWorker
        /\ ended.status = IF retrying THEN "retry_wait" ELSE "partial_failed"
    BY <1>1, <2>1, EndedRowFacts DEF Keeps, Released
  <2>3. /\ row.attempt = ended.attempt /\ row.owner = ended.owner
        /\ row.status = ended.status
    BY <2>2 DEF PartialRow, JobRow
  <2>4. /\ job[j].status \in Held /\ job' = [job EXCEPT ![j] = row]
        /\ checkpoint' = checkpoint
    BY <1>2, <1>11 DEF CompletePartial
  <2>5. retrying => job[j].attempt < MaxAttempts
    OBVIOUS
  <2> HIDE DEF row, retrying, ended
  <2> QED
    BY <1>8, <2>1, <2>2, <2>3, <2>4, <2>5
<1> QED
  BY <1>5, <1>6, <1>7, <1>9, <1>10, <1>11

LEMMA UserMaps ==
    ASSUME FenceInv, UserStep, NEW k \in Jobs
    PROVE  Maps(k)
<1>1. /\ job[k] \in JobRow /\ job \in [Jobs -> JobRow]
      /\ job[k].status \notin Held => job[k].owner = NoWorker
      /\ job[k].status = "none" => job[k].attempt = 0
  BY DEF FenceInv, TypeInv, TypeOK, Fresh, RowMatchesLease
<1>2. ASSUME NEW d, NEW j \in Jobs, NEW profile, NEW pages, Enqueue(d, j, profile, pages)
      PROVE  Maps(k)
  <2>1. LET row == NewJob(d, profile, pages) IN
          row.status = "queued" /\ row.attempt = 0 /\ row.owner = NoWorker
    BY DEF NewJob
  <2>2. /\ checkpoint' = checkpoint
        /\ k = j => job[k].status = "none" /\ job'[k] = NewJob(d, profile, pages)
        /\ k # j => job'[k] = job[k]
    BY <1>1, <1>2 DEF Enqueue
  <2>3. CASE k = j
    BY <1>1, <2>1, <2>2, <2>3, SubmitMaps DEF Held
  <2> QED
    BY <2>2, <2>3, OthersMap
<1>3. ASSUME NEW d \in Docs, CompleteExcluded(d) PROVE Maps(k)
  BY <1>3, OthersMap DEF CompleteExcluded
<1>4. ASSUME NEW d \in Docs, DeleteDocument(d) PROVE Maps(k)
  <2>1. /\ CancelledRow(job[k]).status \in Terminal
        /\ CancelledRow(job[k]).attempt = job[k].attempt
        /\ CancelledRow(job[k]).owner = NoWorker
    BY <1>1, CancelledRowFacts, Statuses DEF Keeps, Released
  <2>2. CASE k \in CancelledJobs(d)
    BY <1>4, <2>1, <2>2, FinishMaps DEF DeleteDocument, CancelledJobs
  <2>3. CASE k \notin CancelledJobs(d)
    BY <1>4, <2>3, OthersMap DEF DeleteDocument
  <2> QED
    BY <2>2, <2>3
<1>5. ASSUME NEW d \in Docs, CleanupDocument(d) PROVE Maps(k)
  <2> DEFINE row == [job[k] EXCEPT !.status = "purged"]
             mine == {j \in Jobs : job[j].doc = d /\ job[j].status \in Terminal}
  <2>1. /\ row.status = "purged" /\ row.attempt = job[k].attempt
        /\ row.owner = job[k].owner
    BY <1>1, PurgedRowFacts DEF Keeps
  <2>2. CASE k \in mine
    <3>1. job'[k] = row /\ checkpoint'[k] = NoCheckpoints /\ job[k].status \in Terminal
      BY <1>5, <2>2 DEF CleanupDocument
    <3> HIDE DEF row
    <3> QED
      BY <2>1, <3>1, DiscardMaps
  <2>3. CASE k \notin mine
    BY <1>5, <2>3, OthersMap DEF CleanupDocument
  <2> QED
    BY <2>2, <2>3
<1> QED
  BY <1>2, <1>3, <1>4, <1>5 DEF UserStep, CompleteUpload, Reparse

LEMMA TimeMaps ==
    ASSUME FenceInv, NEW j \in Jobs, LeaseExpires(j) \/ BecomesDue(j), NEW k \in Jobs
    PROVE  Maps(k)
<1>1. job[j] \in JobRow /\ job \in [Jobs -> JobRow]
  BY DEF FenceInv, TypeInv, TypeOK
<1>2. PICK row : /\ job' = [job EXCEPT ![j] = row] /\ row.status = job[j].status
                 /\ row.attempt = job[j].attempt /\ row.owner = job[j].owner
  <2>1. CASE LeaseExpires(j)
    BY <1>1, <2>1, ExpiredRowFacts DEF LeaseExpires, Keeps
  <2>2. CASE BecomesDue(j)
    BY <1>1, <2>2, DueRowFacts DEF BecomesDue, Keeps
  <2> QED
    BY <2>1, <2>2
<1>3. checkpoint' = checkpoint
  BY DEF LeaseExpires, BecomesDue
<1>4. Phase(k)' = Phase(k)
  BY <1>1, <1>2 DEF Phase
<1> QED
  BY <1>1, <1>2, <1>3, <1>4, StutterMaps

-----------------------------------------------------------------------------
(* 11. FencedTask: the refinement                                        *)

LEMMA InitMaps == Init => \A j \in Jobs : Task(j)!Init
<1> SUFFICES ASSUME Init, NEW j \in Jobs PROVE Task(j)!Init
  OBVIOUS
<1>1. /\ job[j].status = "none" /\ job[j].attempt = 0 /\ job[j].owner = NoWorker
  BY DEF Init, Absent
<1>2. \A a \in Attempts : CoveredPages(j, a) = {}
  BY DEF Init, CoveredPages, NoCheckpoints
<1> QED
  BY <1>1, <1>2 DEF Task!Init, Phase, Task!Nothing, Attempts

LEMMA NextMaps ==
    FenceInv /\ [Next]_vars => [\A j \in Jobs : [Task(j)!Next]_(Task(j)!vars)]_vars
<1> SUFFICES ASSUME FenceInv, Next, NEW j \in Jobs PROVE Maps(j)
  BY DEF Maps
<1>1. CASE ClaimStep
  BY <1>1, ClaimMaps DEF ClaimStep
<1>2. CASE CommandStep
  BY <1>2, CommandMaps DEF CommandStep
<1>3. CASE UserStep
  BY <1>3, UserMaps
<1>4. CASE TimeStep
  BY <1>4, TimeMaps DEF TimeStep
<1> QED
  BY <1>1, <1>2, <1>3, <1>4 DEF Next

\* Every parse job is a fenced task: what workers, deletions and the clock can do to a
\* job is, seen from its attempts and their results, what FencedTask allows.
THEOREM JobsRefineFencedTask == Spec => JobsAreFencedTasks
BY FenceInit, FenceNext, InitMaps, NextMaps, PTL DEF Spec, JobsAreFencedTasks
=============================================================================
