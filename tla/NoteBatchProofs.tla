-------------------------- MODULE NoteBatchProofs --------------------------
(***************************************************************************)
(* Proofs about NoteBatch, for any documents, notes, batches, processes    *)
(* and bounds: a batch ends once, no writing is lost, and notes cite       *)
(* current sources only.                                                   *)
(***************************************************************************)
EXTENDS NoteBatch, SequenceTheorems, TLAPS

-----------------------------------------------------------------------------
(* 1. The invariant                                                        *)

Ended(b) == batch[b].status \in {"succeeded", "failed"}

\* A batch that creates a note has its name and no target, one that regenerates a note
\* has a target some batch has put out, and a version to come.
BatchInv ==
    \A b \in Batches :
        /\ batch[b].output # None <=> batch[b].status = "succeeded"
        /\ batch[b].output # None => batch[b].output = OutputNote(b)
        /\ batch[b].status # "absent" => (batch[b].target = None <=> b \in Notes)
        /\ batch[b].target # None => /\ IsWorkflow(batch[b].target)
                                     /\ batch[b].base < MaxVersion

\* The name of a note that a batch is to create is taken by nobody else, and a note that
\* an answer is being written for is not one of the batches'.
NoteInv ==
    \A n \in Notes :
        /\ Version(n) <= MaxVersion
        /\ Version(n) = 0 => note[n].snapshots = {}
        /\ batch[n].status \notin {"absent", "succeeded"} => Version(n) = 0
        /\ draft[n].on => batch[n].status = "absent" /\ ~IsWorkflow(n)

Inv == /\ TypeOK /\ BatchInv /\ NoteInv
       /\ EndsOnce /\ HistoryIsWhole /\ CleanedIsUnquoted

-----------------------------------------------------------------------------
(* 2. Types                                                                *)

LEMMA Names ==
    /\ Notes \subseteq Batches /\ Regenerations \subseteq Batches
    /\ None \notin Notes /\ "user" \notin Batches /\ "answer" \notin Batches
    /\ MaxVersion \in Nat /\ 1 \in Versions /\ 1 \in Revs
    /\ \A b \in Batches : b \notin Notes => b \in Regenerations
    /\ \A b \in Regenerations : b \notin Notes
BY BoundsOK, NamesOK DEF Batches, Versions, Revs

LEMMA BatchFields ==
    ASSUME NEW r \in BatchRow
    PROVE  /\ r.status \in {"absent", "queued", "running", "succeeded", "failed"}
           /\ r.phase \in Phases /\ r.attempt \in {0, 1} /\ r.target \in Notes \cup {None}
           /\ r.base \in 0..MaxVersion /\ r.frozen \in [Docs -> 0..MaxRev]
           /\ r.output \in Notes \cup {None} /\ r.outputVersion \in 0..MaxVersion
           /\ r.tail \in {"none", "progress", "end"}
           /\ r.target = None <=> r.base = 0
           /\ r.output = None <=> r.outputVersion = 0
BY DEF BatchRow

LEMMA NoteFields ==
    ASSUME NEW r \in NoteRow
    PROVE  /\ r.written \in Seq(Writing) /\ Len(r.written) \in Nat
           /\ r.snapshots \in SUBSET Versions /\ r.sources \in SUBSET Source
BY DEF NoteRow

LEMMA Rows ==
    ASSUME TypeOK
    PROVE  /\ \A b \in Batches : batch[b] \in BatchRow
           /\ \A n \in Notes : /\ note[n] \in NoteRow /\ Version(n) \in Nat
                               /\ asked[n] \in 0..MaxVersion
                               /\ draft[n].base \in 0..MaxVersion
                               /\ draft[n].frozen \in [Docs -> 0..MaxRev]
                               /\ draft[n].on \in BOOLEAN
           /\ \A d \in Docs : /\ doc[d].status \in {"ready", "parsing", "deleted", "cleaned"}
                              /\ doc[d].rev \in Revs
<1>1. \A b \in Batches : batch[b] \in BatchRow
  BY DEF TypeOK
<1>2. \A n \in Notes : note[n] \in NoteRow /\ Version(n) \in Nat
  BY NoteFields DEF TypeOK, Version
<1>3. \A n \in Notes : /\ asked[n] \in 0..MaxVersion /\ draft[n].base \in 0..MaxVersion
                       /\ draft[n].frozen \in [Docs -> 0..MaxRev]
                       /\ draft[n].on \in BOOLEAN
  BY DEF TypeOK
<1>4. \A d \in Docs : /\ doc[d].status \in {"ready", "parsing", "deleted", "cleaned"}
                       /\ doc[d].rev \in Revs
  BY DEF TypeOK, DocRow
<1> QED
  BY <1>1, <1>2, <1>3, <1>4

\* The versions of all notes that a batch has written
By(b) == {w \in Notes \X Versions : w[2] <= Version(w[1]) /\ note[w[1]].written[w[2]].by = b}

\* EndsOnce, one note and version at a time
Writes(b) ==
    \A n \in Notes : \A v \in Versions :
        v <= Version(n) /\ note[n].written[v].by = b =>
            /\ batch[b].status = "succeeded"
            /\ batch[b].output = n /\ batch[b].outputVersion = v

Wrote(b) ==
    batch[b].status = "succeeded" =>
        /\ batch[b].output \in Notes /\ batch[b].outputVersion \in Versions
        /\ batch[b].outputVersion <= Version(batch[b].output)
        /\ note[batch[b].output].written[batch[b].outputVersion].by = b

Told(b) == Ended(b) <=> batch[b].tail = "end"

LEMMA EndsOnceIs == EndsOnce <=> \A b \in Batches : Writes(b) /\ Wrote(b) /\ Told(b)
<1>1. ASSUME NEW b \in Batches
      PROVE  (By(b) = IF batch[b].status = "succeeded"
                      THEN {<<batch[b].output, batch[b].outputVersion>>} ELSE {})
                <=> Writes(b) /\ Wrote(b)
  <2> DEFINE pair == <<batch[b].output, batch[b].outputVersion>>
  <2>1. \A n, v : <<n, v>> \in By(b) <=>
          /\ n \in Notes /\ v \in Versions
          /\ v <= Version(n) /\ note[n].written[v].by = b
    BY DEF By
  <2>2. By(b) \subseteq Notes \X Versions
    BY DEF By
  <2>3. CASE batch[b].status = "succeeded"
    <3>1. By(b) = {pair} <=> pair \in By(b) /\ \A x \in By(b) : x = pair
      OBVIOUS
    <3>2. pair \in By(b) <=> Wrote(b)
      BY <2>1, <2>3 DEF Wrote
    <3>3. (\A x \in By(b) : x = pair) <=> \A n \in Notes : \A v \in Versions :
               <<n, v>> \in By(b) => n = batch[b].output /\ v = batch[b].outputVersion
      BY <2>2
    <3>4. (\A x \in By(b) : x = pair) <=> Writes(b)
      BY <2>1, <2>3, <3>3 DEF Writes
    <3> QED
      BY <2>3, <3>1, <3>2, <3>4
  <2>4. CASE batch[b].status # "succeeded"
    <3>1. By(b) = {} <=> \A n \in Notes : \A v \in Versions : <<n, v>> \notin By(b)
      BY <2>2
    <3> QED
      BY <2>1, <2>4, <3>1 DEF Writes, Wrote
  <2> QED
    BY <2>3, <2>4
<1>2. EndsOnce <=> \A b \in Batches :
          /\ By(b) = IF batch[b].status = "succeeded"
                     THEN {<<batch[b].output, batch[b].outputVersion>>} ELSE {}
          /\ Told(b)
  BY DEF EndsOnce, By, Told, Ended
<1> QED
  BY <1>1, <1>2

LEMMA EndsOnceNext == EndsOnce' <=> (\A b \in Batches : Writes(b) /\ Wrote(b) /\ Told(b))'
BY EndsOnceIs, PTL

LEMMA InvInit == Init => Inv
<1> SUFFICES ASSUME Init PROVE Inv
  OBVIOUS
<1>1. /\ \A b \in Batches : batch[b] = NoBatch
      /\ \A n \in Notes : note[n] = NoNote /\ draft[n] = NoDraft
  BY Names DEF Init
<1>2. /\ NoBatch \in BatchRow /\ NoBatch.status = "absent" /\ NoBatch.tail = "none"
      /\ NoBatch.target = None /\ NoBatch.output = None
  BY BoundsOK DEF NoBatch, NoFrozen, BatchRow, Phases
<1>3. /\ NoNote \in NoteRow /\ Len(NoNote.written) = 0 /\ NoNote.snapshots = {}
      /\ NoNote.sources = {}
  BY DEF NoNote, NoteRow
<1>4. /\ NoDraft \in [base : 0..MaxVersion, frozen : [Docs -> 0..MaxRev], on : BOOLEAN]
      /\ NoDraft.on = FALSE
  BY BoundsOK DEF NoDraft, NoFrozen
<1>5. TypeOK
  <2>1. doc \in [Docs -> DocRow] /\ faults \in 0..MaxFaults
    BY Names, BoundsOK DEF Init, DocRow
  <2>2. asked \in [Notes -> 0..MaxVersion] /\ task \in [Processes -> [Batches -> Steps]]
    BY Names DEF Init, Steps
  <2>3. /\ batch \in [Batches -> BatchRow] /\ note \in [Notes -> NoteRow]
        /\ draft \in [Notes -> [base : 0..MaxVersion, frozen : [Docs -> 0..MaxRev],
                                on : BOOLEAN]]
    BY <1>2, <1>3, <1>4 DEF Init
  <2> QED
    BY <2>1, <2>2, <2>3 DEF Init, TypeOK
<1>6. \A n \in Notes : /\ Version(n) = 0 /\ note[n].snapshots = {}
                       /\ note[n].sources = {} /\ ~IsWorkflow(n)
  BY <1>1, <1>2, <1>3, Names DEF Version, IsWorkflow
<1>7. BatchInv
  BY <1>1, <1>2 DEF BatchInv
<1>8. NoteInv
  BY <1>1, <1>2, <1>4, <1>6, Names DEF NoteInv
<1>9. EndsOnce
  BY <1>1, <1>2, <1>6, Names, EndsOnceIs DEF Writes, Wrote, Told, Ended, Versions
<1>10. HistoryIsWhole /\ CleanedIsUnquoted
  BY <1>6 DEF HistoryIsWhole, CleanedIsUnquoted
<1> QED
  BY <1>5, <1>7, <1>8, <1>9, <1>10 DEF Inv

-----------------------------------------------------------------------------
(* 3. Steps that write no version                                          *)

\* Batches move on or fail, but none is made or succeeds.
BatchQuiet ==
    \A b \in Batches :
        /\ batch'[b].target = batch[b].target /\ batch'[b].base = batch[b].base
        /\ batch'[b].output = batch[b].output
        /\ batch'[b].outputVersion = batch[b].outputVersion
        /\ batch'[b].status = "succeeded" <=> batch[b].status = "succeeded"
        /\ batch'[b].status = "absent" <=> batch[b].status = "absent"
        /\ Told(b)'

\* ... and no draft is begun, nor a cleanup done.
Quiet ==
    /\ BatchQuiet
    /\ note' = note
    /\ \A n \in Notes : draft'[n].on => draft[n].on
    /\ \A d \in Docs : doc'[d].status = "cleaned" => doc[d].status = "cleaned"

LEMMA SameNotes ==
    ASSUME note' = note
    PROVE  \A n \in Notes : Version(n)' = Version(n)
BY DEF Version

LEMMA QuietKeeps ==
    ASSUME Inv, TypeOK', Quiet
    PROVE  Inv'
<1>1. \A n \in Notes : Version(n)' = Version(n) /\ note'[n] = note[n]
  BY SameNotes DEF Quiet
<1>2. \A n : IsWorkflow(n)' <=> IsWorkflow(n)
  BY DEF IsWorkflow, Quiet, BatchQuiet
<1>3. BatchInv'
  <2> SUFFICES ASSUME NEW b \in Batches
      PROVE  /\ batch'[b].output # None <=> batch'[b].status = "succeeded"
             /\ batch'[b].output # None => batch'[b].output = OutputNote(b)'
             /\ batch'[b].status # "absent" => (batch'[b].target = None <=> b \in Notes)
             /\ batch'[b].target # None => /\ IsWorkflow(batch[b].target)'
                                           /\ batch'[b].base < MaxVersion
    BY DEF BatchInv, IsWorkflow
  <2> QED
    BY <1>2 DEF Inv, BatchInv, Quiet, BatchQuiet, OutputNote
<1>4. NoteInv'
  BY <1>1, <1>2, Names DEF Inv, NoteInv, Quiet, BatchQuiet
<1>5. EndsOnce'
  <2>1. \A b \in Batches : Writes(b) /\ Wrote(b)
    BY EndsOnceIs DEF Inv
  <2>2. ASSUME NEW b \in Batches
        PROVE  Writes(b)' /\ Wrote(b)' /\ Told(b)'
    <3>1. Writes(b)'
      BY <1>1, <2>1 DEF Writes, Quiet, BatchQuiet
    <3>2. Wrote(b)'
      BY <1>1, <2>1 DEF Wrote, Quiet, BatchQuiet
    <3> QED
      BY <3>1, <3>2 DEF Quiet, BatchQuiet
  <2> QED
    BY <2>2, EndsOnceNext
<1>6. HistoryIsWhole'
  BY <1>1, <1>2 DEF Inv, HistoryIsWhole
<1>7. CleanedIsUnquoted'
  <2>1. \A n \in Notes : \A s \in note[n].sources : s.doc \in Docs
    BY Rows, NoteFields DEF Inv, Source
  <2> QED
    BY <1>1, <2>1 DEF Inv, CleanedIsUnquoted, Quiet
<1> QED
  BY <1>3, <1>4, <1>5, <1>6, <1>7 DEF Inv

LEMMA GoesTo ==
    ASSUME TypeOK, NEW p \in Processes, NEW b \in Batches, NEW step \in Steps,
           Goes(p, b, step)
    PROVE  task' \in [Processes -> [Batches -> Steps]]
BY DEF TypeOK, Goes

LEMMA Scheduled ==
    ASSUME TypeOK, NEW p \in Processes, NEW b \in Batches, Schedule(p, b)
    PROVE  task' \in [Processes -> [Batches -> Steps]]
<1>1. CASE task[p][b] = "idle"
  <2>1. "due" \in Steps /\ Goes(p, b, "due")
    BY <1>1 DEF Steps, Schedule
  <2> QED
    BY <2>1, GoesTo
<1>2. CASE task[p][b] # "idle"
  BY <1>2 DEF Schedule, TypeOK
<1> QED
  BY <1>1, <1>2

\* One batch moves on or fails.
LEMMA RowQuiet ==
    ASSUME Inv, NEW b \in Batches, NEW row \in BatchRow,
           row.target = batch[b].target, row.base = batch[b].base,
           row.output = batch[b].output, row.outputVersion = batch[b].outputVersion,
           row.status = "succeeded" <=> batch[b].status = "succeeded",
           row.status = "absent" <=> batch[b].status = "absent",
           row.status \in {"succeeded", "failed"} <=> row.tail = "end",
           batch' = [batch EXCEPT ![b] = row]
    PROVE  batch' \in [Batches -> BatchRow] /\ BatchQuiet
<1>1. batch \in [Batches -> BatchRow] /\ \A c \in Batches : Told(c)
  BY EndsOnceIs DEF Inv, TypeOK
<1>2. /\ batch' \in [Batches -> BatchRow] /\ batch'[b] = row
      /\ \A c \in Batches : c # b => batch'[c] = batch[c]
  BY <1>1
<1>3. Told(b)'
  BY <1>2 DEF Told, Ended
<1>4. \A c \in Batches : c # b => Told(c)'
  BY <1>1, <1>2 DEF Told, Ended
<1> QED
  BY <1>2, <1>3, <1>4 DEF BatchQuiet

LEMMA SameBatches ==
    ASSUME Inv, batch' = batch
    PROVE  batch' \in [Batches -> BatchRow] /\ BatchQuiet
<1>1. \A b \in Batches : Told(b)
  BY EndsOnceIs DEF Inv
<1> QED
  BY <1>1 DEF Inv, TypeOK, BatchQuiet, Told, Ended

\* What a task may change beside its batch
TaskTypes ==
    /\ task' \in [Processes -> [Batches -> Steps]] /\ up' \subseteq Processes
    /\ faults' \in 0..MaxFaults /\ stranded' \subseteq Batches

LEMMA TaskKeeps ==
    ASSUME Inv, batch' \in [Batches -> BatchRow], BatchQuiet, TaskTypes,
           UNCHANGED <<doc, note, userVars>>
    PROVE  Inv'
<1>1. UNCHANGED <<doc, note, asked, draft>>
  BY DEF userVars
<1>2. TypeOK'
  BY <1>1 DEF Inv, TypeOK, TaskTypes
<1>3. Quiet
  BY <1>1 DEF Quiet
<1> QED
  BY <1>2, <1>3, QuietKeeps

LEMMA InPhaseQuiet ==
    ASSUME Inv, NEW b \in Batches, NEW phase \in Phases,
           batch' = [batch EXCEPT ![b] = InPhase(b, phase)]
    PROVE  batch' \in [Batches -> BatchRow] /\ BatchQuiet
<1>1. batch[b] \in BatchRow /\ Told(b)
  BY Rows, EndsOnceIs DEF Inv
<1>2. CASE Open(b)
  <2>1. PICK row : row = [batch[b] EXCEPT !.phase = phase, !.tail = "progress"]
    OBVIOUS
  <2>2. /\ row \in BatchRow /\ row.target = batch[b].target /\ row.base = batch[b].base
        /\ row.output = batch[b].output /\ row.outputVersion = batch[b].outputVersion
        /\ row.status = batch[b].status /\ row.tail = "progress"
    BY <1>1, <2>1 DEF BatchRow
  <2>3. batch' = [batch EXCEPT ![b] = row]
    BY <1>2, <2>1 DEF InPhase
  <2>4. row.status \in {"queued", "running"}
    BY <1>2, <2>2 DEF Open
  <2> QED
    BY <2>2, <2>3, <2>4, RowQuiet
<1>3. CASE ~Open(b)
  <2>1. batch' = batch
    BY <1>3 DEF InPhase, Inv, TypeOK
  <2> QED
    BY <2>1, SameBatches
<1> QED
  BY <1>2, <1>3

LEMMA StartKeeps ==
    ASSUME Inv, NEW p \in Processes, NEW b \in Batches, Start(p, b)
    PROVE  Inv'
<1>1. batch[b] \in BatchRow
  BY Rows DEF Inv
<1>2. {"idle", "retrieve"} \subseteq Steps /\ UNCHANGED <<doc, note, userVars>>
  BY DEF Steps, Start
<1>3. TaskTypes
  <2>1. Goes(p, b, "retrieve") \/ Goes(p, b, "idle")
    BY DEF Start
  <2>2. task' \in [Processes -> [Batches -> Steps]]
    BY <1>2, <2>1, GoesTo DEF Inv
  <2> QED
    BY <2>2 DEF Start, TaskTypes, Inv, TypeOK
<1>4. CASE Open(b)
  <2>1. PICK phase \in Phases :
            phase = IF batch[b].attempt = 0 THEN "validating_inputs" ELSE batch[b].phase
    BY <1>1, BatchFields DEF Phases
  <2>2. PICK row : row = [batch[b] EXCEPT !.status = "running", !.attempt = 1,
                                          !.phase = phase, !.tail = "progress"]
    OBVIOUS
  <2>3. /\ row \in BatchRow /\ row.target = batch[b].target /\ row.base = batch[b].base
        /\ row.output = batch[b].output /\ row.outputVersion = batch[b].outputVersion
        /\ row.status = "running" /\ row.tail = "progress"
    BY <1>1, <2>1, <2>2 DEF BatchRow
  <2>4. batch' = [batch EXCEPT ![b].status = "running", ![b].attempt = 1,
                   ![b].phase = IF batch[b].attempt = 0 THEN "validating_inputs" ELSE @,
                   ![b].tail = "progress"]
    BY <1>4 DEF Start
  <2>5. batch \in [Batches -> BatchRow]
    BY DEF Inv, TypeOK
  <2>6. batch' = [batch EXCEPT ![b] = row]
    BY <1>1, <2>1, <2>2, <2>4, <2>5
  <2>7. batch[b].status \in {"queued", "running"}
    BY <1>4 DEF Open
  <2> QED
    BY <1>2, <1>3, <2>3, <2>6, <2>7, RowQuiet, TaskKeeps
<1>5. CASE ~Open(b)
  <2>1. batch' = batch
    BY <1>5 DEF Start
  <2> QED
    BY <1>2, <1>3, <2>1, SameBatches, TaskKeeps
<1> QED
  BY <1>4, <1>5

LEMMA StepsQuiet ==
    ASSUME Inv, NEW p \in Processes, NEW b \in Batches,
           NEW step \in Steps, Goes(p, b, step), UNCHANGED <<up, faults, stranded>>
    PROVE  TaskTypes
BY GoesTo DEF Inv, TypeOK, TaskTypes

LEMMA PhaseKeeps ==
    ASSUME Inv, NEW p \in Processes, NEW b \in Batches,
           Load(p, b) \/ Announce(p, b) \/ Generate(p, b)
    PROVE  Inv'
<1>1. PICK step \in Steps, phase \in Phases :
          /\ Goes(p, b, step) /\ batch' = [batch EXCEPT ![b] = InPhase(b, phase)]
          /\ UNCHANGED <<doc, note, userVars, up, faults, stranded>>
  <2>1. /\ {"failing", "announce", "generate", "save"} \subseteq Steps
        /\ {"retrieving", "generating", "saving"} \subseteq Phases
    BY DEF Steps, Phases
  <2>2. CASE Load(p, b)
    <3>1. PICK step \in {"failing", "announce"} : Goes(p, b, step)
      BY <2>2 DEF Load
    <3> QED
      BY <2>1, <2>2, <3>1 DEF Load
  <2>3. CASE Announce(p, b)
    BY <2>1, <2>3 DEF Announce
  <2>4. CASE Generate(p, b)
    BY <2>1, <2>4 DEF Generate
  <2> QED
    BY <2>2, <2>3, <2>4
<1>2. TaskTypes
  BY <1>1, StepsQuiet
<1>3. UNCHANGED <<doc, note, userVars>>
  BY <1>1
<1> QED
  BY <1>1, <1>2, <1>3, InPhaseQuiet, TaskKeeps

LEMMA PreviewKeeps ==
    ASSUME Inv, NEW p \in Processes, NEW b \in Batches, Preview(p, b)
    PROVE  Inv'
<1>1. TaskTypes /\ UNCHANGED <<doc, note, userVars>>
  BY DEF Preview, procVars, TaskTypes, Inv, TypeOK
<1>2. batch[b] \in BatchRow /\ batch' = [batch EXCEPT ![b] = Previewed(b)]
  BY Rows DEF Inv, Preview
<1>3. CASE Open(b)
  <2>1. PICK row : row = [batch[b] EXCEPT !.tail = "progress"]
    OBVIOUS
  <2>2. /\ row \in BatchRow /\ row.target = batch[b].target /\ row.base = batch[b].base
        /\ row.output = batch[b].output /\ row.outputVersion = batch[b].outputVersion
        /\ row.status = batch[b].status /\ row.tail = "progress"
    BY <1>2, <2>1 DEF BatchRow
  <2>3. batch' = [batch EXCEPT ![b] = row]
    BY <1>2, <1>3, <2>1 DEF Previewed
  <2>4. row.status \in {"queued", "running"}
    BY <1>3, <2>2 DEF Open
  <2> QED
    BY <1>1, <2>2, <2>3, <2>4, RowQuiet, TaskKeeps
<1>4. CASE ~Open(b)
  <2>1. batch' = batch
    BY <1>2, <1>4 DEF Previewed, Inv, TypeOK
  <2> QED
    BY <1>1, <2>1, SameBatches, TaskKeeps
<1> QED
  BY <1>3, <1>4

LEMMA FailureKeeps ==
    ASSUME Inv, NEW p \in Processes, NEW b \in Batches, MarkFailure(p, b)
    PROVE  Inv'
<1>1. batch[b] \in BatchRow /\ batch[b].status \in {"queued", "running"}
  BY Rows DEF Inv, MarkFailure, Open
<1>2. PICK row : row = [batch[b] EXCEPT !.status = "failed", !.tail = "end"]
  OBVIOUS
<1>3. /\ row \in BatchRow /\ row.target = batch[b].target /\ row.base = batch[b].base
      /\ row.output = batch[b].output /\ row.outputVersion = batch[b].outputVersion
      /\ row.status = "failed" /\ row.tail = "end"
  BY <1>1, <1>2 DEF BatchRow
<1>4. batch' = [batch EXCEPT ![b] = row]
  BY <1>2 DEF MarkFailure, Failed
<1>5. "idle" \in Steps /\ Goes(p, b, "idle")
  BY DEF Steps, MarkFailure
<1>6. TaskTypes
  BY <1>5, GoesTo DEF MarkFailure, TaskTypes, Inv, TypeOK
<1>7. UNCHANGED <<doc, note, userVars>>
  BY DEF MarkFailure
<1> QED
  BY <1>1, <1>3, <1>4, <1>6, <1>7, RowQuiet, TaskKeeps

\* A task that ends or fails, a process that stops or starts, a repeated command: the
\* batches stay as they are.
LEMMA ProcessKeeps ==
    ASSUME Inv, NEW p \in Processes, NEW b \in Batches,
           \/ Retry(p, b) \/ StepFails(p, b) \/ SaveRefused(p, b) \/ GiveUp(p, b)
           \/ LoseTask(p, b)
    PROVE  Inv'
<1>1. batch' = batch /\ UNCHANGED <<doc, note, userVars>>
  BY DEF Retry, StepFails, SaveRefused, GiveUp, LoseTask
<1>2. TaskTypes
  <2>1. CASE Retry(p, b)
    BY <2>1, Scheduled DEF Retry, TaskTypes, Inv, TypeOK
  <2>2. CASE StepFails(p, b) \/ SaveRefused(p, b) \/ GiveUp(p, b)
    <3>1. PICK step \in {"failing", "idle"} : Goes(p, b, step)
      BY <2>2 DEF StepFails, SaveRefused, GiveUp
    <3>2. step \in Steps /\ UNCHANGED <<up, faults, stranded>>
      BY <2>2 DEF Steps, StepFails, SaveRefused, GiveUp
    <3> QED
      BY <3>1, <3>2, StepsQuiet
  <2>3. CASE LoseTask(p, b)
    <3>1. faults' \in 0..MaxFaults /\ up' = up /\ stranded' \subseteq Batches
      BY <2>3, BoundsOK DEF LoseTask, Inv, TypeOK
    <3>2. "idle" \in Steps /\ Goes(p, b, "idle")
      BY <2>3 DEF Steps, LoseTask
    <3> QED
      BY <3>1, <3>2, GoesTo DEF TaskTypes, Inv, TypeOK
  <2> QED
    BY <2>1, <2>2, <2>3
<1> QED
  BY <1>1, <1>2, SameBatches, TaskKeeps

LEMMA CrashKeeps ==
    ASSUME Inv, NEW p \in Processes, Crash(p) \/ Restart(p)
    PROVE  Inv'
<1>1. batch' = batch /\ UNCHANGED <<doc, note, userVars>>
  BY DEF Crash, Restart
<1>2. {"idle", "due"} \subseteq Steps
  BY DEF Steps
<1>3. TaskTypes
  <2>1. CASE Crash(p)
    <3>1. task' \in [Processes -> [Batches -> Steps]]
      BY <2>1, <1>2 DEF Crash, Inv, TypeOK
    <3> QED
      BY <2>1, <3>1, BoundsOK DEF Crash, Inv, TypeOK, TaskTypes
  <2>2. CASE Restart(p)
    <3>1. task' \in [Processes -> [Batches -> Steps]]
      BY <2>2, <1>2 DEF Restart, Inv, TypeOK
    <3> QED
      BY <2>2, <3>1 DEF Restart, Inv, TypeOK, TaskTypes
  <2> QED
    BY <2>1, <2>2
<1> QED
  BY <1>1, <1>3, SameBatches, TaskKeeps

LEMMA AskedKeeps ==
    ASSUME Inv, NEW n \in Notes, AskRegeneration(n) \/ RefuseRegeneration(n) \/ DropDraft(n)
    PROVE  Inv'
<1>1. /\ UNCHANGED <<doc, batch, note, procVars>> /\ UNCHANGED <<task, up, faults, stranded>>
  BY DEF AskRegeneration, RefuseRegeneration, DropDraft, procVars
<1>2. /\ asked' \in [Notes -> 0..MaxVersion]
      /\ draft' \in [Notes -> [base : 0..MaxVersion, frozen : [Docs -> 0..MaxRev], on : BOOLEAN]]
      /\ \A m \in Notes : draft'[m].on => draft[m].on
  <2>1. CASE AskRegeneration(n)
    <3>1. Version(n) \in 0..MaxVersion
      BY Rows, Names DEF Inv, NoteInv
    <3> QED
      BY <2>1, <3>1 DEF AskRegeneration, Inv, TypeOK
  <2>2. CASE RefuseRegeneration(n)
    BY <2>2, Names DEF RefuseRegeneration, Inv, TypeOK
  <2>3. CASE DropDraft(n)
    <3>1. /\ NoDraft.on = FALSE
          /\ NoDraft \in [base : 0..MaxVersion, frozen : [Docs -> 0..MaxRev], on : BOOLEAN]
      BY BoundsOK DEF NoDraft, NoFrozen
    <3> QED
      BY <2>3, <3>1 DEF DropDraft, Inv, TypeOK
  <2> QED
    BY <2>1, <2>2, <2>3
<1>3. TypeOK'
  BY <1>1, <1>2 DEF Inv, TypeOK
<1>4. Quiet
  BY <1>1, <1>2, SameBatches DEF Quiet
<1> QED
  BY <1>3, <1>4, QuietKeeps

LEMMA DocumentKeeps ==
    ASSUME Inv, NEW d \in Docs, Reparse(d) \/ Activate(d) \/ Delete(d)
    PROVE  Inv'
<1>1. /\ UNCHANGED <<batch, note, userVars, procVars>>
      /\ UNCHANGED <<batch, note, asked, draft, task, up, faults, stranded>>
  BY DEF Reparse, Activate, Delete, userVars, procVars
<1>2. /\ doc' \in [Docs -> DocRow]
      /\ \A e \in Docs : doc'[e].status = "cleaned" => doc[e].status = "cleaned"
  <2>1. doc \in [Docs -> DocRow] /\ doc[d].rev \in Revs
    BY Rows DEF Inv, TypeOK
  <2>2. CASE Reparse(d)
    <3>1. PICK row : row = [doc[d] EXCEPT !.status = "parsing"]
      OBVIOUS
    <3>2. row \in DocRow /\ row.status = "parsing"
      BY <2>1, <3>1 DEF DocRow
    <3>3. doc' = [doc EXCEPT ![d] = row]
      BY <2>1, <2>2, <3>1 DEF Reparse
    <3> QED
      BY <2>1, <3>2, <3>3
  <2>3. CASE Activate(d)
    <3>1. PICK row : row = [status |-> "ready", rev |-> doc[d].rev + 1]
      OBVIOUS
    <3>2. doc[d].rev + 1 \in Revs
      BY <2>1, <2>3, BoundsOK DEF Activate, Revs
    <3>3. row \in DocRow /\ row.status = "ready"
      BY <3>1, <3>2 DEF DocRow
    <3>4. doc' = [doc EXCEPT ![d] = row]
      BY <2>1, <2>3, <3>1 DEF Activate
    <3> QED
      BY <2>1, <3>3, <3>4
  <2>4. CASE Delete(d)
    <3>1. PICK row : row = [doc[d] EXCEPT !.status = "deleted"]
      OBVIOUS
    <3>2. row \in DocRow /\ row.status = "deleted"
      BY <2>1, <3>1 DEF DocRow
    <3>3. doc' = [doc EXCEPT ![d] = row]
      BY <2>1, <2>4, <3>1 DEF Delete
    <3> QED
      BY <2>1, <3>2, <3>3
  <2> QED
    BY <2>2, <2>3, <2>4
<1>3. TypeOK'
  BY <1>1, <1>2 DEF Inv, TypeOK
<1>4. Quiet
  BY <1>1, <1>2, SameBatches DEF Quiet
<1> QED
  BY <1>3, <1>4, QuietKeeps

LEMMA CleanUpKeeps ==
    ASSUME Inv, NEW d \in Docs, CleanUp(d)
    PROVE  Inv'
<1>1. /\ UNCHANGED <<batch, userVars, procVars>>
      /\ UNCHANGED <<batch, asked, draft, task, up, faults, stranded>>
  BY DEF CleanUp, userVars, procVars
<1>2. /\ doc' \in [Docs -> DocRow] /\ doc'[d].status = "cleaned"
      /\ \A e \in Docs : e # d => doc'[e] = doc[e]
  <2>1. doc \in [Docs -> DocRow]
    BY DEF Inv, TypeOK
  <2>2. PICK row : row = [doc[d] EXCEPT !.status = "cleaned"]
    OBVIOUS
  <2>3. row \in DocRow /\ row.status = "cleaned"
    BY <2>1, <2>2 DEF DocRow
  <2>4. doc' = [doc EXCEPT ![d] = row]
    BY <2>1, <2>2 DEF CleanUp
  <2> QED
    BY <2>1, <2>3, <2>4
<1>3. ASSUME NEW n \in Notes
      PROVE  /\ note'[n] \in NoteRow /\ note'[n].written = note[n].written
             /\ note'[n].snapshots = note[n].snapshots
             /\ note'[n].sources = Emptied(n, d)
  <2>1. note[n] \in NoteRow
    BY Rows DEF Inv
  <2>2. PICK row : row = [note[n] EXCEPT !.sources = Emptied(n, d)]
    OBVIOUS
  <2>3. note'[n] = row
    BY <2>2 DEF CleanUp
  <2>4. Emptied(n, d) \in SUBSET Source
    <3>1. note[n].sources \in SUBSET Source
      BY <2>1, NoteFields
    <3>2. \A s \in Source : [s EXCEPT !.open = FALSE] \in Source
      BY DEF Source
    <3> QED
      BY <3>1, <3>2 DEF Emptied
  <2> QED
    BY <2>1, <2>2, <2>3, <2>4 DEF NoteRow
<1>4. note' \in [Notes -> NoteRow]
  <2>1. PICK f : f = [n \in Notes |-> [note[n] EXCEPT !.sources = Emptied(n, d)]]
    OBVIOUS
  <2>2. note' = f
    BY <2>1 DEF CleanUp
  <2> QED
    BY <1>3, <2>1, <2>2
<1>5. TypeOK'
  BY <1>1, <1>2, <1>4 DEF Inv, TypeOK
<1>6. \A n \in Notes : Version(n)' = Version(n)
  BY <1>3 DEF Version
<1>7. \A n : IsWorkflow(n)' <=> IsWorkflow(n)
  BY <1>1 DEF IsWorkflow
<1>8. BatchInv'
  BY <1>1 DEF Inv, BatchInv, OutputNote, IsWorkflow
<1>9. NoteInv'
  BY <1>1, <1>3, <1>6, <1>7 DEF Inv, NoteInv
<1>10. EndsOnce'
  <2>1. ASSUME NEW b \in Batches
        PROVE  Writes(b)' /\ Wrote(b)' /\ Told(b)'
    <3>1. Writes(b) /\ Wrote(b) /\ Told(b)
      BY EndsOnceIs DEF Inv
    <3>2. Writes(b)'
      BY <1>1, <1>3, <1>6, <3>1 DEF Writes
    <3>3. Wrote(b)'
      BY <1>1, <1>3, <1>6, <3>1 DEF Wrote
    <3> QED
      BY <1>1, <3>1, <3>2, <3>3 DEF Told, Ended
  <2> QED
    BY <2>1, EndsOnceNext
<1>11. HistoryIsWhole'
  BY <1>3, <1>6, <1>7 DEF Inv, HistoryIsWhole
<1>12. CleanedIsUnquoted'
  <2> SUFFICES ASSUME NEW n \in Notes, NEW s \in Emptied(n, d), s.open
               PROVE  doc'[s.doc].status # "cleaned"
    BY <1>3 DEF CleanedIsUnquoted
  <2>1. note[n].sources \in SUBSET Source
    BY Rows, NoteFields DEF Inv
  <2>2. s \in note[n].sources /\ s.doc # d
    BY <2>1 DEF Emptied, Source
  <2>3. s.doc \in Docs
    BY <2>1, <2>2 DEF Source
  <2> QED
    BY <1>2, <2>2, <2>3 DEF Inv, CleanedIsUnquoted
<1> QED
  BY <1>5, <1>8, <1>9, <1>10, <1>11, <1>12 DEF Inv

-----------------------------------------------------------------------------
(* 4. Requests                                                             *)

LEMMA Frozen ==
    ASSUME TypeOK, NEW D
    PROVE  Freeze(D) \in [Docs -> 0..MaxRev]
<1>1. \A d \in Docs : doc[d].rev \in 0..MaxRev
  <2>1. \A d \in Docs : doc[d].rev \in Revs
    BY Rows
  <2>2. Revs \subseteq 0..MaxRev
    BY BoundsOK DEF Revs
  <2> QED
    BY <2>1, <2>2
<1>2. 0 \in 0..MaxRev
  BY BoundsOK
<1> QED
  BY <1>1, <1>2 DEF Freeze

\* A note that some batch has put out has a version.
LEMMA WorkflowExists ==
    ASSUME Inv, NEW n \in Notes, IsWorkflow(n)
    PROVE  Version(n) > 0
<1>1. PICK b \in Batches : batch[b].output = n
  BY DEF IsWorkflow
<1>2. batch[b].status = "succeeded"
  BY <1>1, Names DEF Inv, BatchInv
<1>3. Wrote(b)
  BY EndsOnceIs DEF Inv
<1>4. batch[b].outputVersion \in 1..MaxVersion /\ batch[b].outputVersion <= Version(n)
  BY <1>1, <1>2, <1>3 DEF Wrote, Versions
<1> QED
  BY <1>4, Rows, BoundsOK DEF Inv

LEMMA NewBatchKeeps ==
    ASSUME Inv, NEW b \in Batches, NEW frozen \in [Docs -> 0..MaxRev],
           NEW n \in Notes \cup {None}, NEW base \in 0..MaxVersion,
           NewBatch(b, frozen, n, base),
           n = None <=> base = 0, n = None <=> b \in Notes,
           n # None => IsWorkflow(n) /\ base < MaxVersion,
           b \in Notes => IsFree(b),
           TaskTypes, asked' \in [Notes -> 0..MaxVersion], UNCHANGED <<doc, note, draft>>
    PROVE  Inv'
<1>1. /\ batch \in [Batches -> BatchRow] /\ batch[b].status = "absent"
      /\ batch[b].output = None
  BY DEF Inv, TypeOK, BatchInv, NewBatch
<1>2. PICK row : row = [NoBatch EXCEPT !.status = "queued", !.frozen = frozen, !.target = n,
                                       !.base = base, !.tail = "progress"]
  OBVIOUS
<1>3. /\ row \in BatchRow /\ row.status = "queued" /\ row.target = n /\ row.base = base
      /\ row.output = None /\ row.tail = "progress"
  <2>1. row = [status |-> "queued", phase |-> "none", attempt |-> 0, target |-> n,
               base |-> base, frozen |-> frozen, output |-> None, outputVersion |-> 0,
               tail |-> "progress"]
    BY <1>2 DEF NoBatch
  <2>2. 0 \in 0..MaxVersion /\ "none" \in Phases
    BY BoundsOK DEF Phases
  <2> QED
    BY <2>1, <2>2 DEF BatchRow
<1>4. /\ batch' \in [Batches -> BatchRow] /\ batch'[b] = row
      /\ \A c \in Batches : c # b => batch'[c] = batch[c]
  <2>1. batch' = [batch EXCEPT ![b] = row]
    BY <1>2 DEF NewBatch
  <2> QED
    BY <1>1, <1>3, <2>1
<1>5. TypeOK'
  BY <1>4 DEF Inv, TypeOK, TaskTypes
<1>6. \A m \in Notes : Version(m)' = Version(m) /\ note'[m] = note[m]
  BY SameNotes
<1>7. \A m \in Notes : IsWorkflow(m)' <=> IsWorkflow(m)
  BY <1>1, <1>3, <1>4, Names DEF IsWorkflow
<1>8. BatchInv'
  <2> SUFFICES ASSUME NEW c \in Batches
      PROVE  /\ batch'[c].output # None <=> batch'[c].status = "succeeded"
             /\ batch'[c].output # None => batch'[c].output = OutputNote(c)'
             /\ batch'[c].status # "absent" => (batch'[c].target = None <=> c \in Notes)
             /\ batch'[c].target # None => /\ IsWorkflow(batch[c].target)'
                                           /\ batch'[c].base < MaxVersion
    BY DEF BatchInv, IsWorkflow
  <2>1. CASE c = b
    BY <1>3, <1>4, <1>7, <2>1
  <2>2. CASE c # b
    <3>1. batch'[c] = batch[c] /\ OutputNote(c)' = OutputNote(c)
      BY <1>4, <2>2 DEF OutputNote
    <3>2. batch[c].target # None => batch[c].target \in Notes
      BY <1>1, BatchFields
    <3> QED
      BY <1>7, <3>1, <3>2 DEF Inv, BatchInv
  <2> QED
    BY <2>1, <2>2
<1>9. NoteInv'
  <2>1. b \in Notes => ~draft[b].on /\ ~(Version(b) > 0)
    BY DEF IsFree, Exists
  <2> SUFFICES ASSUME NEW m \in Notes
      PROVE  /\ Version(m)' <= MaxVersion
             /\ Version(m)' = 0 => note'[m].snapshots = {}
             /\ batch'[m].status \notin {"absent", "succeeded"} => Version(m)' = 0
             /\ draft'[m].on => batch'[m].status = "absent" /\ ~IsWorkflow(m)'
    BY DEF NoteInv
  <2>2. CASE m = b
    BY <1>6, <1>7, <2>1, <2>2, Rows DEF Inv, NoteInv
  <2>3. CASE m # b
    BY <1>4, <1>6, <1>7, <2>3, Names DEF Inv, NoteInv
  <2> QED
    BY <2>2, <2>3
<1>10. EndsOnce'
  <2>1. ASSUME NEW c \in Batches
        PROVE  Writes(c)' /\ Wrote(c)' /\ Told(c)'
    <3>1. Writes(c) /\ Wrote(c) /\ Told(c)
      BY EndsOnceIs DEF Inv
    <3>2. CASE c = b
      BY <1>1, <1>3, <1>4, <1>6, <3>1, <3>2 DEF Writes, Wrote, Told, Ended
    <3>3. CASE c # b
      <4>1. batch'[c] = batch[c]
        BY <1>4, <3>3
      <4>2. Writes(c)'
        BY <1>6, <3>1, <4>1 DEF Writes
      <4>3. Wrote(c)'
        BY <1>6, <3>1, <4>1 DEF Wrote
      <4> QED
        BY <3>1, <4>1, <4>2, <4>3 DEF Told, Ended
    <3> QED
      BY <3>2, <3>3
  <2> QED
    BY <2>1, EndsOnceNext
<1>11. HistoryIsWhole'
  BY <1>6, <1>7 DEF Inv, HistoryIsWhole
<1>12. CleanedIsUnquoted'
  BY DEF Inv, CleanedIsUnquoted
<1> QED
  BY <1>5, <1>8, <1>9, <1>10, <1>11, <1>12 DEF Inv

LEMMA CreateKeeps ==
    ASSUME Inv, NEW p \in Processes, NEW b \in Batches, NEW D \in SUBSET Docs,
           CreateBatch(p, b, D)
    PROVE  Inv'
<1>1. Freeze(D) \in [Docs -> 0..MaxRev]
  BY Frozen DEF Inv
<1>2. /\ b \in Notes /\ IsFree(b) /\ NewBatch(b, Freeze(D), None, 0)
      /\ UNCHANGED <<doc, note, draft>> /\ asked' = asked
  BY DEF CreateBatch, userVars
<1>3. TaskTypes
  BY Scheduled DEF CreateBatch, TaskTypes, Inv, TypeOK
<1>4. 0 \in 0..MaxVersion /\ asked' \in [Notes -> 0..MaxVersion]
  BY <1>2, Names DEF Inv, TypeOK
<1> QED
  BY <1>1, <1>2, <1>3, <1>4, NewBatchKeeps

LEMMA RegenerationKeeps ==
    ASSUME Inv, NEW p \in Processes, NEW b \in Batches, NEW n \in Notes,
           CreateRegeneration(p, b, n)
    PROVE  Inv'
<1>1. PICK s \in SourceBatch(n, asked[n]) :
          NewBatch(b, Freeze(Inputs(batch[s].frozen)), n, asked[n])
  BY DEF CreateRegeneration
<1>2. IsWorkflow(n)
  BY <1>1 DEF SourceBatch, IsWorkflow
<1>3. PICK frozen \in [Docs -> 0..MaxRev] : frozen = Freeze(Inputs(batch[s].frozen))
  BY Frozen DEF Inv
<1>4. PICK base : base = asked[n]
  OBVIOUS
<1>5. base \in 1..MaxVersion /\ base < MaxVersion
  <2>1. note[n].snapshots \in SUBSET Versions
    BY Rows, NoteFields DEF Inv
  <2> QED
    BY <1>4, <2>1 DEF CreateRegeneration, Versions
<1>6. b \in Batches /\ b \notin Notes /\ n # None /\ base # 0 /\ base \in 0..MaxVersion
  BY <1>5, Names, BoundsOK DEF CreateRegeneration
<1>7. TaskTypes
  BY Scheduled DEF CreateRegeneration, TaskTypes, Inv, TypeOK
<1>8. UNCHANGED <<doc, note, draft>> /\ asked' \in [Notes -> 0..MaxVersion]
  BY Names DEF CreateRegeneration, Inv, TypeOK
<1>9. NewBatch(b, frozen, n, base)
  BY <1>1, <1>3, <1>4
<1> QED
  BY <1>2, <1>3, <1>5, <1>6, <1>7, <1>8, <1>9, NewBatchKeeps

LEMMA DraftKeeps ==
    ASSUME Inv, NEW n \in Notes, NEW D \in SUBSET Docs, Draft(n, D)
    PROVE  Inv'
<1>1. /\ UNCHANGED <<doc, batch, note, asked, procVars>>
      /\ UNCHANGED <<doc, batch, note, asked, task, up, faults, stranded>>
  BY DEF Draft, procVars
<1>2. PICK row : row = [base |-> Version(n), frozen |-> Freeze(D), on |-> TRUE]
  OBVIOUS
<1>3. row \in [base : 0..MaxVersion, frozen : [Docs -> 0..MaxRev], on : BOOLEAN]
  <2>1. Version(n) \in 0..MaxVersion
    BY Rows, Names DEF Inv, NoteInv
  <2> QED
    BY <1>2, <2>1, Frozen DEF Inv
<1>4. /\ draft' \in [Notes -> [base : 0..MaxVersion, frozen : [Docs -> 0..MaxRev], on : BOOLEAN]]
      /\ \A m \in Notes : m # n => draft'[m] = draft[m]
  BY <1>2, <1>3 DEF Draft, Inv, TypeOK
<1>5. TypeOK'
  BY <1>1, <1>4 DEF Inv, TypeOK
<1>6. ~IsWorkflow(n) /\ batch[n].status = "absent"
  <2>1. CASE IsFree(n)
    BY <2>1 DEF Draft, IsFree
  <2>2. CASE Exists(n)
    <3>1. batch[n].status \in {"absent", "succeeded"}
      BY <2>2, Rows DEF Inv, NoteInv, Exists
    <3>2. batch[n].status # "succeeded"
      <4> SUFFICES ASSUME batch[n].status = "succeeded" PROVE FALSE
        OBVIOUS
      <4>1. n \in Batches
        BY Names
      <4>2. batch[n].target = None /\ batch[n].output = OutputNote(n)
        BY <4>1 DEF Inv, BatchInv
      <4>3. batch[n].output = n
        BY <4>2 DEF OutputNote
      <4> QED
        BY <4>1, <4>3 DEF Draft, IsWorkflow
    <3> QED
      BY <3>1, <3>2 DEF Draft
  <2> QED
    BY <2>1, <2>2 DEF Draft
<1>7. \A m \in Notes : Version(m)' = Version(m) /\ note'[m] = note[m]
  BY <1>1, SameNotes
<1>8. \A m : IsWorkflow(m)' <=> IsWorkflow(m)
  BY <1>1 DEF IsWorkflow
<1>9. BatchInv'
  BY <1>1 DEF Inv, BatchInv, OutputNote, IsWorkflow
<1>10. NoteInv'
  <2> SUFFICES ASSUME NEW m \in Notes
      PROVE  /\ Version(m)' <= MaxVersion
             /\ Version(m)' = 0 => note'[m].snapshots = {}
             /\ batch'[m].status \notin {"absent", "succeeded"} => Version(m)' = 0
             /\ draft'[m].on => batch'[m].status = "absent" /\ ~IsWorkflow(m)'
    BY DEF NoteInv
  <2>1. CASE m = n
    BY <1>1, <1>6, <1>7, <1>8, <2>1 DEF Inv, NoteInv
  <2>2. CASE m # n
    BY <1>1, <1>4, <1>7, <1>8, <2>2 DEF Inv, NoteInv
  <2> QED
    BY <2>1, <2>2
<1>11. EndsOnce'
  BY <1>1 DEF Inv, EndsOnce, Version
<1>12. HistoryIsWhole'
  BY <1>7, <1>8 DEF Inv, HistoryIsWhole
<1>13. CleanedIsUnquoted'
  BY <1>1 DEF Inv, CleanedIsUnquoted
<1> QED
  BY <1>5, <1>9, <1>10, <1>11, <1>12, <1>13 DEF Inv

-----------------------------------------------------------------------------
(* 5. Writing a version                                                    *)

\* What a step that writes a version does to the notes
Grows(n, writing, snapshots, cited) ==
    /\ note' \in [Notes -> NoteRow]
    /\ \A m \in Notes : m # n => note'[m] = note[m] /\ Version(m)' = Version(m)
    /\ Version(n)' = Version(n) + 1
    /\ \A v \in 1..Version(n) : note'[n].written[v] = note[n].written[v]
    /\ note'[n].written[Version(n) + 1] = writing
    /\ note'[n].snapshots = note[n].snapshots \cup snapshots
    /\ note'[n].sources = cited

LEMMA Written ==
    ASSUME TypeOK, NEW n \in Notes, NEW writing \in Writing, NEW snapshots \in SUBSET Versions,
           NEW cited \in SUBSET Source,
           note' = [note EXCEPT ![n] = Rewritten(n, writing, snapshots, cited)]
    PROVE  Grows(n, writing, snapshots, cited)
<1>1. note[n] \in NoteRow /\ note \in [Notes -> NoteRow]
  BY DEF TypeOK
<1>2. PICK s : s = Append(note[n].written, writing)
  OBVIOUS
<1>3. /\ s \in Seq(Writing) /\ Len(s) = Version(n) + 1 /\ s[Version(n) + 1] = writing
      /\ \A v \in 1..Version(n) : s[v] = note[n].written[v]
  <2>1. note[n].written \in Seq(Writing)
    BY <1>1, NoteFields
  <2> QED
    BY <1>2, <2>1, AppendProperties DEF Version
<1>4. PICK row : row = [note[n] EXCEPT !.written = s, !.snapshots = @ \cup snapshots,
                                       !.sources = cited]
  OBVIOUS
<1>5. /\ row \in NoteRow /\ row.written = s /\ row.sources = cited
      /\ row.snapshots = note[n].snapshots \cup snapshots
  BY <1>1, <1>3, <1>4 DEF NoteRow
<1>6. note' = [note EXCEPT ![n] = row]
  BY <1>2, <1>4 DEF Rewritten
<1>7. note' \in [Notes -> NoteRow] /\ note'[n] = row /\ \A m \in Notes : m # n => note'[m] = note[m]
  BY <1>1, <1>5, <1>6
<1>8. Version(n)' = Version(n) + 1
  BY <1>3, <1>5, <1>7 DEF Version
<1>9. \A m \in Notes : m # n => Version(m)' = Version(m)
  BY <1>7 DEF Version
<1>10. /\ \A v \in 1..Version(n) : note'[n].written[v] = note[n].written[v]
       /\ note'[n].written[Version(n) + 1] = writing
       /\ note'[n].snapshots = note[n].snapshots \cup snapshots
       /\ note'[n].sources = cited
  BY <1>3, <1>5, <1>7
<1> QED
  BY <1>7, <1>8, <1>9, <1>10 DEF Grows

\* A version that goes on from the one before it, with its snapshot if the note is one of
\* the batches', leaves no gap.
LEMMA HistoryGrows ==
    ASSUME Inv, NEW n \in Notes, NEW writing \in Writing, NEW snapshots, NEW cited,
           Grows(n, writing, snapshots, cited), writing.base = Version(n),
           \A m \in Notes : m # n => (IsWorkflow(m)' <=> IsWorkflow(m)),
           IsWorkflow(n)' => /\ snapshots = {Version(n) + 1}
                             /\ IsWorkflow(n) \/ Version(n) = 0
    PROVE  HistoryIsWhole'
<1>1. ASSUME NEW m \in Notes, m # n
      PROVE  /\ \A v \in 1..Version(m)' : note'[m].written[v].base = v - 1
             /\ IsWorkflow(m)' => note'[m].snapshots = 1..Version(m)'
  BY <1>1 DEF Grows, Inv, HistoryIsWhole
<1>2. Version(n) \in Nat /\ Version(n)' = Version(n) + 1
  BY Rows DEF Inv, Grows
<1>3. \A v \in 1..Version(n)' : note'[n].written[v].base = v - 1
  <2> SUFFICES ASSUME NEW v \in 1..(Version(n) + 1)
               PROVE  note'[n].written[v].base = v - 1
    BY <1>2
  <2>1. CASE v = Version(n) + 1
    BY <1>2, <2>1 DEF Grows
  <2>2. CASE v # Version(n) + 1
    <3>1. v \in 1..Version(n)
      BY <1>2, <2>2
    <3> QED
      BY <3>1 DEF Grows, Inv, HistoryIsWhole
  <2> QED
    BY <2>1, <2>2
<1>4. ASSUME IsWorkflow(n)'
      PROVE  note'[n].snapshots = 1..(Version(n) + 1)
  <2>1. note[n].snapshots = 1..Version(n)
    <3>1. CASE IsWorkflow(n)
      BY <3>1 DEF Inv, HistoryIsWhole
    <3>2. CASE Version(n) = 0
      <4>1. note[n].snapshots = {}
        BY <3>2 DEF Inv, NoteInv
      <4> QED
        BY <3>2, <4>1
    <3> QED
      BY <1>4, <3>1, <3>2
  <2>2. note'[n].snapshots = 1..Version(n) \cup {Version(n) + 1}
    BY <1>4, <2>1 DEF Grows
  <2> QED
    BY <1>2, <2>2
<1> QED
  BY <1>1, <1>2, <1>3, <1>4 DEF HistoryIsWhole

\* A step of the user or of a request, while the batches stay as they are
LEMMA UserWrites ==
    ASSUME Inv, NEW n \in Notes, NEW writing \in Writing, NEW snapshots \in SUBSET Versions,
           NEW cited \in SUBSET Source,
           note' = [note EXCEPT ![n] = Rewritten(n, writing, snapshots, cited)],
           UNCHANGED <<doc, batch, asked, procVars>>,
           draft' \in [Notes -> [base : 0..MaxVersion, frozen : [Docs -> 0..MaxRev], on : BOOLEAN]],
           \A m \in Notes : draft'[m].on => draft[m].on,
           Version(n) < MaxVersion, writing.base = Version(n), writing.by \notin Batches,
           IsWorkflow(n) => snapshots = {Version(n) + 1},
           batch[n].status \in {"absent", "succeeded"},
           \A s \in cited : s.open => doc[s.doc].status # "cleaned"
    PROVE  Inv'
<1>1. Grows(n, writing, snapshots, cited)
  BY Written DEF Inv
<1>2. UNCHANGED <<doc, batch, asked, task, up, faults, stranded>>
  BY DEF procVars
<1>3. TypeOK'
  BY <1>1, <1>2 DEF Inv, TypeOK, Grows
<1>4. \A m : IsWorkflow(m)' <=> IsWorkflow(m)
  BY <1>2 DEF IsWorkflow
<1>5. Version(n) \in Nat /\ Version(n)' = Version(n) + 1
  BY <1>1, Rows DEF Inv, Grows
<1>6. BatchInv'
  BY <1>2 DEF Inv, BatchInv, OutputNote, IsWorkflow
<1>7. NoteInv'
  <2> SUFFICES ASSUME NEW m \in Notes
      PROVE  /\ Version(m)' <= MaxVersion
             /\ Version(m)' = 0 => note'[m].snapshots = {}
             /\ batch'[m].status \notin {"absent", "succeeded"} => Version(m)' = 0
             /\ draft'[m].on => batch'[m].status = "absent" /\ ~IsWorkflow(m)'
    BY DEF NoteInv
  <2>1. draft'[m].on => batch'[m].status = "absent" /\ ~IsWorkflow(m)'
    BY <1>2, <1>4 DEF Inv, NoteInv
  <2>2. CASE m = n
    BY <1>2, <1>5, <2>1, <2>2, Names
  <2>3. CASE m # n
    BY <1>1, <1>2, <2>1, <2>3 DEF Inv, NoteInv, Grows
  <2> QED
    BY <2>2, <2>3
<1>8. EndsOnce'
  <2>1. ASSUME NEW b \in Batches
        PROVE  Writes(b)' /\ Wrote(b)' /\ Told(b)'
    <3>1. Writes(b) /\ Wrote(b) /\ Told(b)
      BY EndsOnceIs DEF Inv
    <3>2. Writes(b)'
      <4> SUFFICES ASSUME NEW m \in Notes, NEW v \in Versions,
                          v <= Version(m)', note'[m].written[v].by = b
                   PROVE  /\ batch[b].status = "succeeded"
                          /\ batch[b].output = m /\ batch[b].outputVersion = v
        BY <1>2 DEF Writes
      <4>1. CASE m = n
        <5>1. v \in 1..Version(n)
          BY <1>1, <1>5, <4>1, BoundsOK DEF Grows, Versions
        <5>2. v <= Version(n) /\ note[n].written[v].by = b
          BY <1>1, <1>5, <4>1, <5>1 DEF Grows
        <5> QED
          BY <3>1, <4>1, <5>2 DEF Writes
      <4>2. CASE m # n
        BY <1>1, <3>1, <4>2 DEF Writes, Grows
      <4> QED
        BY <4>1, <4>2
    <3>3. Wrote(b)'
      <4> SUFFICES ASSUME batch[b].status = "succeeded"
                   PROVE  /\ batch[b].output \in Notes /\ batch[b].outputVersion \in Versions
                          /\ batch[b].outputVersion <= Version(batch[b].output)'
                          /\ note'[batch[b].output].written[batch[b].outputVersion].by = b
        BY <1>2 DEF Wrote, Version
      <4>1. PICK m \in Notes, v \in Versions :
                /\ m = batch[b].output /\ v = batch[b].outputVersion
                /\ v <= Version(m) /\ note[m].written[v].by = b
        BY <3>1 DEF Wrote
      <4>2. v <= Version(m)' /\ note'[m].written[v].by = b
        <5>1. CASE m = n
          <6>1. v \in 1..Version(n)
            BY <1>5, <4>1, <5>1, BoundsOK DEF Versions
          <6> QED
            BY <1>1, <1>5, <4>1, <5>1, <6>1 DEF Grows
        <5>2. CASE m # n
          BY <1>1, <4>1, <5>2 DEF Grows
        <5> QED
          BY <5>1, <5>2
      <4> QED
        BY <4>1, <4>2 DEF Version
    <3> QED
      BY <1>2, <3>1, <3>2, <3>3 DEF Told, Ended
  <2> QED
    BY <2>1, EndsOnceNext
<1>9. HistoryIsWhole'
  BY <1>1, <1>4, HistoryGrows
<1>10. CleanedIsUnquoted'
  BY <1>1, <1>2 DEF Inv, CleanedIsUnquoted, Grows
<1> QED
  BY <1>3, <1>6, <1>7, <1>8, <1>9, <1>10 DEF Inv

LEMMA EditKeeps ==
    ASSUME Inv, NEW n \in Notes, Edit(n)
    PROVE  Inv'
<1>1. /\ Version(n) \in 0..MaxVersion /\ Version(n) < MaxVersion /\ Version(n) > 0
      /\ note[n] \in NoteRow
  BY Rows, Names DEF Inv, NoteInv, Edit, Exists
<1>2. [by |-> "user", base |-> Version(n)] \in Writing
  BY <1>1 DEF Writing
<1>3. PICK writing \in Writing : writing = [by |-> "user", base |-> Version(n)]
  BY <1>2
<1>4. Version(n) + 1 \in Versions
  BY <1>1, BoundsOK DEF Versions
<1>5. EditedSnapshots(n) \in SUBSET Versions
  BY <1>4 DEF EditedSnapshots
<1>6. IsWorkflow(n) => EditedSnapshots(n) = {Version(n) + 1}
  BY DEF EditedSnapshots
<1>7. note[n].sources \in SUBSET Source
  BY <1>1, NoteFields
<1>8. \A s \in note[n].sources : s.open => doc[s.doc].status # "cleaned"
  BY DEF Inv, CleanedIsUnquoted
<1>9. /\ UNCHANGED <<doc, batch, asked, procVars>> /\ draft' = draft
      /\ note' = [note EXCEPT ![n] = Rewritten(n, writing, EditedSnapshots(n), note[n].sources)]
  BY <1>3 DEF Edit, userVars
<1>10. batch[n].status \in {"absent", "succeeded"}
  BY <1>1 DEF Inv, NoteInv
<1>11. /\ writing.by \notin Batches /\ writing.base = Version(n)
       /\ draft' \in [Notes -> [base : 0..MaxVersion, frozen : [Docs -> 0..MaxRev], on : BOOLEAN]]
  BY <1>3, <1>9, Names DEF Inv, TypeOK
<1> QED
  BY <1>1, <1>5, <1>6, <1>7, <1>8, <1>9, <1>10, <1>11, UserWrites

LEMMA ImportKeeps ==
    ASSUME Inv, NEW n \in Notes, Import(n)
    PROVE  Inv'
<1>1. Version(n) = 0 /\ batch[n].status = "absent"
  BY Rows DEF Inv, Import, IsFree, Exists
<1>2. ~IsWorkflow(n)
  BY <1>1, WorkflowExists
<1>3. PICK writing \in Writing : writing = [by |-> "user", base |-> 0]
  <2>1. 0 \in 0..MaxVersion
    BY BoundsOK
  <2>2. [by |-> "user", base |-> 0] \in Writing
    BY <2>1 DEF Writing
  <2> QED
    BY <2>2
<1>4. {} \in SUBSET Versions /\ {} \in SUBSET Source
  OBVIOUS
<1>5. /\ UNCHANGED <<doc, batch, asked, procVars>> /\ draft' = draft
      /\ note' = [note EXCEPT ![n] = Rewritten(n, writing, {}, {})]
  BY <1>3 DEF Import, userVars
<1>6. /\ writing.by \notin Batches /\ writing.base = Version(n) /\ Version(n) < MaxVersion
      /\ draft' \in [Notes -> [base : 0..MaxVersion, frozen : [Docs -> 0..MaxRev], on : BOOLEAN]]
  BY <1>1, <1>3, <1>5, Names, BoundsOK DEF Inv, TypeOK
<1> QED
  BY <1>1, <1>2, <1>4, <1>5, <1>6, UserWrites

\* A source that a writer may take: its document is live, of the revision cited, and for
\* a batch ready
CurrentSource(s, writer) ==
    /\ doc[s.doc].status \notin {"deleted", "cleaned"} /\ doc[s.doc].rev = s.rev
    /\ writer # "answer" => doc[s.doc].status = "ready"

\* Batches ask more of their inputs than answers do.
LEMMA UnchangedIsCurrent ==
    ASSUME NEW frozen, Unchanged(frozen)
    PROVE  SourcesCurrent(frozen)
BY DEF Unchanged, SourcesCurrent, Usable, Searchable

\* What a note cites of inputs that are current, or unchanged
LEMMA CitedIsCurrent ==
    ASSUME TypeOK, NEW frozen \in [Docs -> 0..MaxRev], SourcesCurrent(frozen),
           NEW writer, writer = "answer" \/ Unchanged(frozen),
           NEW D \in SUBSET Inputs(frozen)
    PROVE  /\ Cited(frozen, D) \in SUBSET Source
           /\ \A s \in Cited(frozen, D) : CurrentSource(s, writer)
<1>1. ASSUME NEW d \in D
      PROVE  /\ [doc |-> d, rev |-> frozen[d], open |-> TRUE] \in Source
             /\ doc[d].status \in {"ready", "parsing"} /\ doc[d].rev = frozen[d]
             /\ writer # "answer" => doc[d].status = "ready"
  <2>1. d \in Docs /\ frozen[d] # 0
    BY DEF Inputs
  <2>2. frozen[d] \in Revs
    BY <2>1, BoundsOK DEF Revs
  <2>3. doc[d].status \in {"ready", "parsing"} /\ doc[d].rev = frozen[d]
    BY DEF SourcesCurrent, Searchable
  <2>4. writer # "answer" => doc[d].status = "ready"
    BY DEF Unchanged, Usable
  <2> QED
    BY <2>1, <2>2, <2>3, <2>4 DEF Source
<1>2. ASSUME NEW s \in Cited(frozen, D)
      PROVE  s \in Source /\ CurrentSource(s, writer)
  <2>1. PICK d \in D : s = [doc |-> d, rev |-> frozen[d], open |-> TRUE]
    BY DEF Cited
  <2>2. s.doc = d /\ s.rev = frozen[d]
    BY <2>1
  <2> QED
    BY <1>1, <2>1, <2>2 DEF CurrentSource
<1> QED
  BY <1>2

LEMMA SaveDraftKeeps ==
    ASSUME Inv, NEW n \in Notes, SaveDraft(n)
    PROVE  Inv'
<1>1. /\ draft[n].on /\ draft[n].base = Version(n) /\ Version(n) < MaxVersion
      /\ draft[n].frozen \in [Docs -> 0..MaxRev] /\ SourcesCurrent(draft[n].frozen)
      /\ Version(n) \in 0..MaxVersion
  BY Rows, Names DEF Inv, NoteInv, SaveDraft
<1>2. PICK writing \in Writing : writing = [by |-> "answer", base |-> Version(n)]
  BY <1>1 DEF Writing
<1>3. PICK D \in SUBSET Inputs(draft[n].frozen) :
          note' = [note EXCEPT ![n] = Rewritten(n, writing, {}, Cited(draft[n].frozen, D))]
  BY <1>1, <1>2 DEF SaveDraft
<1>4. /\ Cited(draft[n].frozen, D) \in SUBSET Source
      /\ \A s \in Cited(draft[n].frozen, D) : s.open => doc[s.doc].status # "cleaned"
  BY <1>1, CitedIsCurrent DEF Inv, CurrentSource
<1>5. batch[n].status = "absent" /\ ~IsWorkflow(n)
  BY <1>1 DEF Inv, NoteInv
<1>6. /\ NoDraft.on = FALSE
      /\ NoDraft \in [base : 0..MaxVersion, frozen : [Docs -> 0..MaxRev], on : BOOLEAN]
  BY BoundsOK DEF NoDraft, NoFrozen
<1>7. /\ draft' \in [Notes -> [base : 0..MaxVersion, frozen : [Docs -> 0..MaxRev], on : BOOLEAN]]
      /\ \A m \in Notes : draft'[m].on => draft[m].on
  BY <1>6 DEF SaveDraft, Inv, TypeOK
<1>8. UNCHANGED <<doc, batch, asked, procVars>> /\ {} \in SUBSET Versions
  BY DEF SaveDraft
<1>9. writing.by \notin Batches /\ writing.base = Version(n)
  BY <1>2, Names
<1> QED
  BY <1>1, <1>3, <1>4, <1>5, <1>7, <1>8, <1>9, UserWrites

\* What a save finds: its batch has written nothing yet, and its note is where the batch
\* has left it.
LEMMA SaveFinds ==
    ASSUME Inv, NEW p \in Processes, NEW b \in Batches, Save(p, b)
    PROVE  /\ OutputNote(b) \in Notes /\ Version(OutputNote(b)) = batch[b].base
           /\ batch[b].base \in 0..MaxVersion /\ batch[b].base < MaxVersion
           /\ batch[b].frozen \in [Docs -> 0..MaxRev] /\ Unchanged(batch[b].frozen)
           /\ batch[b].status \in {"queued", "running"} /\ batch[b].output = None
           /\ \/ OutputNote(b) = b /\ batch[b].base = 0
              \/ b \notin Notes /\ IsWorkflow(OutputNote(b))
<1>1. /\ batch[b] \in BatchRow /\ batch[b].status \in {"queued", "running"}
      /\ Unchanged(batch[b].frozen) /\ TargetUnmoved(b)
  BY Rows DEF Inv, Save, Open
<1>2. /\ batch[b].base \in 0..MaxVersion /\ batch[b].frozen \in [Docs -> 0..MaxRev]
      /\ batch[b].output = None
      /\ batch[b].target \in Notes \cup {None}
      /\ batch[b].target = None <=> batch[b].base = 0
      /\ batch[b].target = None <=> b \in Notes
  BY <1>1, BatchFields DEF Inv, BatchInv
<1>3. CASE batch[b].target = None
  <2>1. b \in Notes /\ OutputNote(b) = b /\ batch[b].base = 0
    BY <1>2, <1>3 DEF OutputNote
  <2>2. Version(b) = 0
    BY <1>1, <2>1 DEF Inv, NoteInv
  <2> QED
    BY <1>1, <1>2, <2>1, <2>2, BoundsOK
<1>4. CASE batch[b].target # None
  <2>1. b \notin Notes /\ OutputNote(b) = batch[b].target /\ OutputNote(b) \in Notes
    BY <1>2, <1>4 DEF OutputNote
  <2>2. IsWorkflow(OutputNote(b)) /\ batch[b].base < MaxVersion
    BY <1>4, <2>1 DEF Inv, BatchInv
  <2>3. Version(OutputNote(b)) = batch[b].base
    BY <1>1, <1>4, <2>1 DEF TargetUnmoved
  <2> QED
    BY <1>1, <1>2, <2>1, <2>2, <2>3
<1> QED
  BY <1>3, <1>4

LEMMA SaveKeeps ==
    ASSUME Inv, NEW p \in Processes, NEW b \in Batches, Save(p, b)
    PROVE  Inv'
<1>1. PICK n \in Notes, base \in 0..MaxVersion : n = OutputNote(b) /\ base = batch[b].base
  BY SaveFinds
<1>2. /\ Version(n) = base /\ base < MaxVersion /\ batch[b].status \in {"queued", "running"}
      /\ batch[b].output = None /\ batch[b] \in BatchRow
      /\ \/ n = b /\ base = 0
         \/ b \notin Notes /\ IsWorkflow(n)
  BY <1>1, SaveFinds, Rows DEF Inv
<1>3. PICK writing \in Writing : writing = [by |-> b, base |-> base]
  BY DEF Writing
<1>4. PICK D \in SUBSET Inputs(batch[b].frozen) :
          note' = [note EXCEPT ![n] =
                      Rewritten(n, writing, {base + 1}, Cited(batch[b].frozen, D))]
  BY <1>1, <1>3 DEF Save, OutputVersion
<1>5. PICK cited \in SUBSET Source :
          /\ cited = Cited(batch[b].frozen, D)
          /\ \A s \in cited : s.open => doc[s.doc].status # "cleaned"
  BY SaveFinds, UnchangedIsCurrent, CitedIsCurrent DEF Inv, CurrentSource
<1>6. base + 1 \in Versions /\ {base + 1} \in SUBSET Versions
  BY <1>2, BoundsOK DEF Versions
<1>7. Grows(n, writing, {base + 1}, cited)
  BY <1>4, <1>5, <1>6, Written DEF Inv
<1>8. Version(n) \in Nat /\ Version(n)' = base + 1 /\ Version(n) = base
  BY <1>2, <1>7, Rows DEF Inv, Grows
<1>9. PICK row : row = [batch[b] EXCEPT !.status = "succeeded", !.phase = "saving",
                           !.tail = "end", !.output = n, !.outputVersion = base + 1]
  OBVIOUS
<1>10. /\ row \in BatchRow /\ row.status = "succeeded" /\ row.tail = "end"
       /\ row.output = n /\ row.outputVersion = base + 1
       /\ row.target = batch[b].target /\ row.base = batch[b].base
  <2>1. base + 1 \in 0..MaxVersion /\ base + 1 # 0 /\ n # None /\ "saving" \in Phases
    BY <1>2, Names, BoundsOK DEF Phases
  <2> QED
    BY <1>2, <1>9, <2>1 DEF BatchRow
<1>11. /\ batch' \in [Batches -> BatchRow] /\ batch'[b] = row
       /\ \A c \in Batches : c # b => batch'[c] = batch[c]
  <2>1. batch' = [batch EXCEPT ![b] = row]
    BY <1>1, <1>9 DEF Save, Finished, OutputVersion
  <2> QED
    BY <1>10, <2>1 DEF Inv, TypeOK
<1>12. TaskTypes /\ UNCHANGED <<doc, asked, draft>>
  <2>1. "idle" \in Steps /\ Goes(p, b, "idle")
    BY DEF Steps, Save
  <2> QED
    BY <2>1, GoesTo DEF Save, userVars, TaskTypes, Inv, TypeOK
<1>13. TypeOK'
  BY <1>7, <1>11, <1>12 DEF Inv, TypeOK, TaskTypes, Grows
<1>14. IsWorkflow(n)' /\ \A m \in Notes : m # n => (IsWorkflow(m)' <=> IsWorkflow(m))
  BY <1>2, <1>10, <1>11, Names DEF IsWorkflow
<1>15. BatchInv'
  <2> SUFFICES ASSUME NEW c \in Batches
      PROVE  /\ batch'[c].output # None <=> batch'[c].status = "succeeded"
             /\ batch'[c].output # None => batch'[c].output = OutputNote(c)'
             /\ batch'[c].status # "absent" => (batch'[c].target = None <=> c \in Notes)
             /\ batch'[c].target # None => /\ IsWorkflow(batch[c].target)'
                                           /\ batch'[c].base < MaxVersion
    BY <1>10, <1>11 DEF BatchInv, IsWorkflow
  <2>1. OutputNote(c)' = OutputNote(c) /\ batch'[c].target = batch[c].target
    BY <1>10, <1>11 DEF OutputNote
  <2>2. batch[c].target # None => IsWorkflow(batch[c].target)'
    <3>1. batch[c].target # None => batch[c].target \in Notes /\ IsWorkflow(batch[c].target)
      BY Rows, BatchFields DEF Inv, BatchInv
    <3>2. \A m \in Notes : IsWorkflow(m) => IsWorkflow(m)'
      BY <1>14
    <3> QED
      BY <2>1, <3>1, <3>2 DEF IsWorkflow
  <2>3. CASE c = b
    BY <1>1, <1>2, <1>10, <1>11, <2>1, <2>2, <2>3, Names DEF Inv, BatchInv
  <2>4. CASE c # b
    BY <1>11, <2>1, <2>2, <2>4 DEF Inv, BatchInv
  <2> QED
    BY <2>3, <2>4
<1>16. NoteInv'
  <2> SUFFICES ASSUME NEW m \in Notes
      PROVE  /\ Version(m)' <= MaxVersion
             /\ Version(m)' = 0 => note'[m].snapshots = {}
             /\ batch'[m].status \notin {"absent", "succeeded"} => Version(m)' = 0
             /\ draft'[m].on => batch'[m].status = "absent" /\ ~IsWorkflow(m)'
    BY DEF NoteInv
  <2>1. m \in Batches
    BY Names
  <2>2. CASE m = n
    <3>1. Version(m)' <= MaxVersion /\ Version(m)' # 0
      BY <1>2, <1>8, <2>2, Names
    <3>2. batch'[m].status \in {"absent", "succeeded"}
      <4>1. CASE n = b
        BY <1>10, <1>11, <2>2, <4>1
      <4>2. CASE n # b
        <5>1. Version(n) # 0
          BY <1>2, <4>2, WorkflowExists
        <5> QED
          BY <1>11, <2>1, <2>2, <4>2, <5>1, Rows DEF Inv, NoteInv
      <4> QED
        BY <4>1, <4>2
    <3>3. ~draft'[m].on
      BY <1>2, <1>12, <2>2 DEF Inv, NoteInv
    <3> QED
      BY <3>1, <3>2, <3>3
  <2>3. CASE m # n
    <3>1. m # b
      BY <1>2, <2>3
    <3> QED
      BY <1>7, <1>11, <1>12, <1>14, <2>1, <2>3, <3>1 DEF Inv, NoteInv, Grows
  <2> QED
    BY <2>2, <2>3
<1>17. EndsOnce'
  <2>1. \A c \in Batches : Writes(c) /\ Wrote(c) /\ Told(c)
    BY EndsOnceIs DEF Inv
  <2>2. ASSUME NEW c \in Batches, NEW m \in Notes, NEW v \in Versions,
               v <= Version(m)', note'[m].written[v].by = c
        PROVE  \/ c = b /\ m = n /\ v = base + 1
               \/ v <= Version(m) /\ note[m].written[v].by = c
    <3>1. CASE m = n /\ v = base + 1
      BY <1>3, <1>7, <1>8, <2>2, <3>1 DEF Grows
    <3>2. CASE m = n /\ v # base + 1
      <4>1. v \in 1..Version(n)
        BY <1>8, <2>2, <3>2, BoundsOK DEF Versions
      <4> QED
        BY <1>7, <1>8, <2>2, <3>2, <4>1 DEF Grows
    <3>3. CASE m # n
      BY <1>7, <2>2, <3>3 DEF Grows
    <3> QED
      BY <3>1, <3>2, <3>3
  <2>3. ASSUME NEW c \in Batches
        PROVE  Writes(c)' /\ Wrote(c)' /\ Told(c)'
    <3>1. CASE c = b
      <4>1. Writes(b)'
        <5>1. \A m \in Notes : \A v \in Versions :
                  ~(v <= Version(m) /\ note[m].written[v].by = b)
          BY <1>2, <2>1 DEF Writes
        <5> QED
          BY <1>10, <1>11, <2>2, <5>1 DEF Writes
      <4>2. Wrote(b)'
        <5>1. base + 1 <= Version(n)' /\ note'[n].written[base + 1].by = b
          BY <1>3, <1>7, <1>8 DEF Grows
        <5> QED
          BY <1>6, <1>10, <1>11, <5>1 DEF Wrote, Version
      <4> QED
        BY <1>10, <1>11, <3>1, <4>1, <4>2 DEF Told, Ended
    <3>2. CASE c # b
      <4>1. batch'[c] = batch[c]
        BY <1>11, <3>2
      <4>2. Writes(c)'
        BY <2>1, <2>2, <3>2, <4>1 DEF Writes
      <4>3. Wrote(c)'
        <5> SUFFICES ASSUME batch[c].status = "succeeded"
                     PROVE  /\ batch[c].output \in Notes /\ batch[c].outputVersion \in Versions
                            /\ batch[c].outputVersion <= Version(batch[c].output)'
                            /\ note'[batch[c].output].written[batch[c].outputVersion].by = c
          BY <4>1 DEF Wrote, Version
        <5>1. PICK m \in Notes, v \in Versions :
                  /\ m = batch[c].output /\ v = batch[c].outputVersion
                  /\ v <= Version(m) /\ note[m].written[v].by = c
          BY <2>1 DEF Wrote
        <5>2. v <= Version(m)' /\ note'[m].written[v].by = c
          <6>1. CASE m = n
            <7>1. v \in 1..Version(n)
              BY <1>8, <5>1, <6>1, BoundsOK DEF Versions
            <7> QED
              BY <1>7, <1>8, <5>1, <6>1, <7>1 DEF Grows
          <6>2. CASE m # n
            BY <1>7, <5>1, <6>2 DEF Grows
          <6> QED
            BY <6>1, <6>2
        <5> QED
          BY <4>1, <5>1, <5>2 DEF Version
      <4> QED
        BY <2>1, <4>1, <4>2, <4>3 DEF Told, Ended
    <3> QED
      BY <3>1, <3>2
  <2> QED
    BY <2>3, EndsOnceNext
<1>18. HistoryIsWhole'
  <2>1. writing.base = Version(n) /\ {base + 1} = {Version(n) + 1}
    BY <1>2, <1>3
  <2>2. IsWorkflow(n) \/ Version(n) = 0
    BY <1>2
  <2> QED
    BY <1>7, <1>14, <2>1, <2>2, HistoryGrows
<1>19. CleanedIsUnquoted'
  BY <1>5, <1>7, <1>12 DEF Inv, CleanedIsUnquoted, Grows
<1> QED
  BY <1>13, <1>15, <1>16, <1>17, <1>18, <1>19 DEF Inv

-----------------------------------------------------------------------------
(* 6. Every step                                                           *)

LEMMA InvNext == Inv /\ [Next]_vars => Inv'
<1> SUFFICES ASSUME Inv, [Next]_vars PROVE Inv'
  OBVIOUS
<1>1. ASSUME NEW p \in Processes, NEW b \in Batches, ProcessStep(p, b)
      PROVE  Inv'
  <2>1. ASSUME NEW D \in SUBSET Docs, CreateBatch(p, b, D)
        PROVE  Inv'
    BY <2>1, CreateKeeps
  <2>2. ASSUME NEW n \in Notes, CreateRegeneration(p, b, n)
        PROVE  Inv'
    BY <2>2, RegenerationKeeps
  <2>3. CASE TaskStep(p, b)
    <3>1. CASE Start(p, b)
      BY <3>1, StartKeeps
    <3>2. CASE Load(p, b) \/ Announce(p, b) \/ Generate(p, b)
      BY <3>2, PhaseKeeps
    <3>3. CASE Save(p, b)
      BY <3>3, SaveKeeps
    <3>4. CASE MarkFailure(p, b)
      BY <3>4, FailureKeeps
    <3>5. CASE StepFails(p, b) \/ SaveRefused(p, b) \/ GiveUp(p, b)
      BY <3>5, ProcessKeeps
    <3> QED
      BY <2>3, <3>1, <3>2, <3>3, <3>4, <3>5 DEF TaskStep
  <2>4. CASE Preview(p, b)
    BY <2>4, PreviewKeeps
  <2>5. CASE Retry(p, b) \/ LoseTask(p, b)
    BY <2>5, ProcessKeeps
  <2> QED
    BY <1>1, <2>1, <2>2, <2>3, <2>4, <2>5 DEF ProcessStep
<1>2. ASSUME NEW p \in Processes, Crash(p) \/ Restart(p)
      PROVE  Inv'
  BY <1>2, CrashKeeps
<1>3. ASSUME NEW n \in Notes, NoteStep(n) \/ AnswerStep(n)
      PROVE  Inv'
  <2>1. CASE AskRegeneration(n) \/ RefuseRegeneration(n) \/ DropDraft(n)
    BY <2>1, AskedKeeps
  <2>2. CASE Edit(n)
    BY <2>2, EditKeeps
  <2>3. CASE Import(n)
    BY <2>3, ImportKeeps
  <2>4. ASSUME NEW D \in SUBSET Docs, Draft(n, D)
        PROVE  Inv'
    BY <2>4, DraftKeeps
  <2>5. CASE SaveDraft(n)
    BY <2>5, SaveDraftKeeps
  <2> QED
    BY <1>3, <2>1, <2>2, <2>3, <2>4, <2>5 DEF NoteStep, AnswerStep
<1>4. ASSUME NEW d \in Docs, DocStep(d)
      PROVE  Inv'
  BY <1>4, DocumentKeeps, CleanUpKeeps DEF DocStep
<1>5. CASE UNCHANGED vars
  <2>1. UNCHANGED <<doc, batch, note, asked, draft, task, up, faults, stranded>>
    BY <1>5 DEF vars, userVars, procVars
  <2>2. TypeOK'
    BY <2>1 DEF Inv, TypeOK
  <2>3. Quiet
    BY <2>1, SameBatches DEF Quiet
  <2> QED
    BY <2>2, <2>3, QuietKeeps
<1> QED
  BY <1>1, <1>2, <1>3, <1>4, <1>5 DEF Next

-----------------------------------------------------------------------------
(* 7. The theorems                                                         *)

LEMMA AlwaysInv == Spec => []Inv
BY InvInit, InvNext, PTL DEF Spec

\* Every variable keeps its type: no version counter, attempt or quote leaves its range.
THEOREM TypeCorrect == Spec => []TypeOK
<1>1. Inv => TypeOK
  BY DEF Inv
<1> QED
  BY AlwaysInv, <1>1, PTL

\* However many tasks of however many processes run a batch, after crashes, restarts and
\* repeated commands, it writes exactly the version it names, or none if it failed, and
\* its last event is its end.
THEOREM BatchEndsOnce == Spec => []EndsOnce
<1>1. Inv => EndsOnce
  BY DEF Inv
<1> QED
  BY AlwaysInv, <1>1, PTL

\* Whoever writes a version of a note, the user, a batch or an answer, has had the version
\* before it, and every version of a workflow note has its snapshot.
THEOREM NoWritingIsLost == Spec => []HistoryIsWhole
<1>1. Inv => HistoryIsWhole
  BY DEF Inv
<1> QED
  BY AlwaysInv, <1>1, PTL

\* No note quotes a document that was cleaned up, whichever of cleanup and save is first.
THEOREM CleanupIsFinal == Spec => []CleanedIsUnquoted
<1>1. Inv => CleanedIsUnquoted
  BY DEF Inv
<1> QED
  BY AlwaysInv, <1>1, PTL

\* What a step that saves generated text puts into the sources of a note
CurrentStep ==
    \A n \in Notes : \A s \in note'[n].sources :
        LET writer == note'[n].written[Version(n)'].by IN
        Version(n)' > Version(n) /\ writer # "user"
            => /\ doc[s.doc].status \notin {"deleted", "cleaned"} /\ doc[s.doc].rev = s.rev
               /\ writer # "answer" => doc[s.doc].status = "ready"

LEMMA NotWritten ==
    ASSUME Inv, \A n \in Notes : Version(n)' = Version(n)
    PROVE  CurrentStep
BY Rows DEF CurrentStep, Inv

\* A step that cites the given sources in one note, and writes no other
LEMMA WrittenIsCurrent ==
    ASSUME Inv, NEW n \in Notes, NEW writing \in Writing, NEW snapshots, NEW cited,
           Grows(n, writing, snapshots, cited),
           \/ writing.by = "user"
           \/ \A s \in cited : CurrentSource(s, writing.by)
    PROVE  CurrentStep
<1> SUFFICES ASSUME NEW m \in Notes, NEW s \in note'[m].sources,
                    Version(m)' > Version(m), note'[m].written[Version(m)'].by # "user"
             PROVE  CurrentSource(s, note'[m].written[Version(m)'].by)
  BY DEF CurrentStep, CurrentSource
<1>1. m = n
  BY Rows DEF Inv, Grows
<1>2. note'[n].written[Version(n)'] = writing /\ s \in cited
  BY <1>1 DEF Grows
<1> QED
  BY <1>1, <1>2

LEMMA CurrentNext == Inv /\ [Next]_vars => CurrentStep
<1> SUFFICES ASSUME Inv, [Next]_vars PROVE CurrentStep
  OBVIOUS
<1>1. ASSUME NEW p \in Processes, NEW b \in Batches, ProcessStep(p, b)
      PROVE  CurrentStep
  <2>1. CASE Save(p, b)
    <3>1. PICK n \in Notes : n = OutputNote(b)
      BY <2>1, SaveFinds
    <3>2. PICK writing \in Writing : writing = [by |-> b, base |-> batch[b].base]
      BY <2>1, SaveFinds DEF Writing
    <3>3. PICK D \in SUBSET Inputs(batch[b].frozen) :
              note' = [note EXCEPT ![n] = Rewritten(n, writing, {OutputVersion(b)},
                                                    Cited(batch[b].frozen, D))]
      BY <2>1, <3>1, <3>2 DEF Save
    <3>4. /\ Cited(batch[b].frozen, D) \in SUBSET Source
          /\ \A s \in Cited(batch[b].frozen, D) : CurrentSource(s, b)
      BY <2>1, SaveFinds, UnchangedIsCurrent, CitedIsCurrent DEF Inv
    <3>5. {OutputVersion(b)} \in SUBSET Versions
      BY <2>1, SaveFinds, BoundsOK DEF OutputVersion, Versions
    <3>6. Grows(n, writing, {OutputVersion(b)}, Cited(batch[b].frozen, D))
      BY <3>3, <3>4, <3>5, Written DEF Inv
    <3> QED
      BY <3>2, <3>4, <3>6, WrittenIsCurrent
  <2>2. CASE ~Save(p, b)
    <3>1. note' = note
      BY <1>1, <2>2 DEF ProcessStep, CreateBatch, CreateRegeneration, Retry, TaskStep, Start,
         Load, Announce, Generate, StepFails, SaveRefused, GiveUp, MarkFailure, Preview,
         LoseTask
    <3> QED
      BY <3>1, SameNotes, NotWritten
  <2> QED
    BY <2>1, <2>2
<1>2. ASSUME NEW p \in Processes, Crash(p) \/ Restart(p)
      PROVE  CurrentStep
  <2>1. note' = note
    BY <1>2 DEF Crash, Restart
  <2> QED
    BY <2>1, SameNotes, NotWritten
<1>3. ASSUME NEW n \in Notes, NoteStep(n) \/ AnswerStep(n)
      PROVE  CurrentStep
  <2>1. CASE Edit(n)
    <3>1. /\ Version(n) \in 0..MaxVersion /\ Version(n) < MaxVersion
          /\ note[n].sources \in SUBSET Source
      BY <2>1, Rows, NoteFields, Names DEF Inv, NoteInv, Edit
    <3>2. PICK writing \in Writing : writing = [by |-> "user", base |-> Version(n)]
      BY <3>1 DEF Writing
    <3>3. EditedSnapshots(n) \in SUBSET Versions
      BY <3>1, BoundsOK DEF EditedSnapshots, Versions
    <3>4. note' = [note EXCEPT ![n] =
                      Rewritten(n, writing, EditedSnapshots(n), note[n].sources)]
      BY <2>1, <3>2 DEF Edit
    <3>5. Grows(n, writing, EditedSnapshots(n), note[n].sources)
      BY <3>1, <3>3, <3>4, Written DEF Inv
    <3> QED
      BY <3>2, <3>5, WrittenIsCurrent
  <2>2. CASE Import(n)
    <3>1. 0 \in 0..MaxVersion /\ {} \in SUBSET Versions /\ {} \in SUBSET Source
      BY BoundsOK
    <3>2. PICK writing \in Writing : writing = [by |-> "user", base |-> 0]
      BY <3>1 DEF Writing
    <3>3. note' = [note EXCEPT ![n] = Rewritten(n, writing, {}, {})]
      BY <2>2, <3>2 DEF Import
    <3>4. Grows(n, writing, {}, {})
      BY <3>1, <3>3, Written DEF Inv
    <3> QED
      BY <3>4, WrittenIsCurrent
  <2>3. CASE SaveDraft(n)
    <3>1. /\ draft[n].base \in 0..MaxVersion /\ draft[n].frozen \in [Docs -> 0..MaxRev]
          /\ SourcesCurrent(draft[n].frozen)
      BY <2>3, Rows DEF Inv, SaveDraft
    <3>2. PICK writing \in Writing : writing = [by |-> "answer", base |-> draft[n].base]
      BY <3>1 DEF Writing
    <3>3. PICK D \in SUBSET Inputs(draft[n].frozen) :
              note' = [note EXCEPT ![n] =
                          Rewritten(n, writing, {}, Cited(draft[n].frozen, D))]
      BY <2>3, <3>2 DEF SaveDraft
    <3>4. /\ Cited(draft[n].frozen, D) \in SUBSET Source
          /\ \A s \in Cited(draft[n].frozen, D) : CurrentSource(s, "answer")
      BY <3>1, CitedIsCurrent DEF Inv
    <3>5. Grows(n, writing, {}, Cited(draft[n].frozen, D))
      BY <3>3, <3>4, Written DEF Inv
    <3> QED
      BY <3>2, <3>4, <3>5, WrittenIsCurrent
  <2>4. CASE ~Edit(n) /\ ~Import(n) /\ ~SaveDraft(n)
    <3>1. note' = note
      BY <1>3, <2>4 DEF NoteStep, AnswerStep, AskRegeneration, RefuseRegeneration, Draft,
         DropDraft
    <3> QED
      BY <3>1, SameNotes, NotWritten
  <2> QED
    BY <2>1, <2>2, <2>3, <2>4
<1>4. ASSUME NEW d \in Docs, DocStep(d)
      PROVE  CurrentStep
  <2>1. \A n \in Notes : Version(n)' = Version(n)
    <3>1. CASE Reparse(d) \/ Activate(d) \/ Delete(d)
      <4>1. note' = note
        BY <3>1 DEF Reparse, Activate, Delete
      <4> QED
        BY <4>1, SameNotes
    <3>2. CASE CleanUp(d)
      <4>1. ASSUME NEW n \in Notes
            PROVE  note'[n].written = note[n].written
        <5>1. note[n] \in NoteRow
          BY Rows DEF Inv
        <5>2. PICK row : row = [note[n] EXCEPT !.sources = Emptied(n, d)]
          OBVIOUS
        <5>3. note'[n] = row
          BY <3>2, <5>2 DEF CleanUp
        <5> QED
          BY <5>1, <5>2, <5>3 DEF NoteRow
      <4> QED
        BY <4>1 DEF Version
    <3> QED
      BY <1>4, <3>1, <3>2 DEF DocStep
  <2> QED
    BY <2>1, NotWritten
<1>5. CASE UNCHANGED vars
  <2>1. note' = note
    BY <1>5 DEF vars
  <2> QED
    BY <2>1, SameNotes, NotWritten
<1> QED
  BY <1>1, <1>2, <1>3, <1>4, <1>5 DEF Next

\* A note comes to cite a document only while it is live and of the cited revision, in a
\* batch only while it is ready, although its text was read, and the model asked, long
\* before.
THEOREM CitesCurrentSources == Spec => SourcesAreCurrent
<1>1. Inv /\ [Next]_vars => [CurrentStep]_vars
  BY CurrentNext
<1> QED
  BY AlwaysInv, <1>1, PTL DEF Spec, SourcesAreCurrent, CurrentStep
=============================================================================
