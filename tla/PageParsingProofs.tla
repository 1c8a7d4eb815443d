------------------------- MODULE PageParsingProofs -------------------------
(***************************************************************************)
(* Proofs about PageParsing, for any document, any number of attempts,     *)
(* upgrades and faults, with the complex parser on or off: what is          *)
(* packaged is the attempt's own, nothing runs on after an attempt, and     *)
(* only a refusal or a real disagreement fails a document for good.         *)
(***************************************************************************)
EXTENDS PageParsing, WellFoundedInduction, TLAPS

-----------------------------------------------------------------------------
(* 1. The invariant                                                        *)

\* The backend whose result a page needs
Wanted(page) == IF profile = "native" THEN "native"
                ELSE IF page \in complex /\ StructureOn THEN "structure"
                ELSE "general"

OfProfile(backend) == backend = "native" <=> profile = "native"

\* The sandboxes: nothing is in one before its attempt begins, and what is in it was
\* left by a child of the attempt.
FilesInv ==
    \A a \in Attempts :
        /\ a > attempt => child[a].at = "none" /\ output[a] = NoFile
        /\ child[a].at # "none" => OfProfile(child[a].backend)
        /\ output[a] # NoFile => output[a].by = a /\ OfProfile(output[a].backend)

\* The result that is packaged for a page
Own(page, result) ==
    result.of = page /\ result.by = attempt /\ result.backend = Wanted(page)

\* The handler: between two children none runs, and what it has seen is its own.
TaskInv ==
    /\ task.at # "idle" => attempt \in Attempts
    /\ task.at \in Running => task.page \in task.pages
    /\ task.at \in Running \ {"waiting"} => child[attempt].at \in {"none", "exited"}
    /\ task.seen # NoFile => task.seen.by = attempt
    /\ task.base # NoFile => Own(task.base.of, task.base)
    /\ task.at = "complex" => /\ Wanted(task.page) = "structure"
                              /\ task.seen # NoFile
    /\ task.at = "parsed" => /\ task.seen # NoFile
                             /\ task.seen.of = task.page /\ task.seen.by = attempt
                             /\ task.seen.backend = Wanted(task.page)

\* The child has left a result of the page at hand, by the backend that was asked for.
Delivered ==
    /\ output[attempt] # NoFile
    /\ output[attempt].of = task.page
    /\ output[attempt].backend = task.backend

\* The handler waits for a child of the page at hand: whatever it finds when the child
\* has ended well is of that child, or the child has refused.
WaitInv ==
    task.at = "waiting" =>
        /\ child[attempt].at # "none"
        /\ child[attempt].page = task.page /\ child[attempt].backend = task.backend
        /\ task.backend = "structure" =>
              Wanted(task.page) = "structure" /\ task.seen # NoFile
        /\ profile = "ocr" /\ output[attempt] # NoFile => output[attempt].of = task.page
        /\ child[attempt].at = "written" => Delivered
        /\ child[attempt].at = "exited" /\ child[attempt].code = "ok" =>
              rejected \/ Delivered
        /\ child[attempt].at = "exited" /\ child[attempt].code = "final" => rejected

Inv == /\ TypeOK /\ FilesInv /\ TaskInv /\ WaitInv
       /\ PackagedIsOwn /\ NothingRunsOn /\ TransientIsRetried

-----------------------------------------------------------------------------
(* 2. Types                                                                *)

ChildRow == [at : {"none", "checking", "predicting", "written", "exited"},
             page : Pages, backend : Backends, code : {"ok", "retry", "final", "garbled"}]

TaskRow == [at : Running \cup Ended \cup {"idle"}, pages : SUBSET Pages,
            page : Pages, backend : Backends, seen : Results \cup {NoFile},
            base : Results \cup {NoFile}, refused : Results \cup {NoFile},
            packaged : SUBSET (Pages \X Results)]

LEMMA Types ==
    ASSUME TypeOK
    PROVE  /\ task \in TaskRow /\ child \in [Attempts -> ChildRow]
           /\ output \in [Attempts -> Results \cup {NoFile}]
           /\ sandbox \in [Attempts -> {"unused", "present", "removed"}]
           /\ installed \in Nat /\ 1 <= installed /\ attempt \in Nat
           /\ attempt # 0 => attempt \in Attempts
           /\ Attempts \subseteq Nat /\ 1 \in Pages /\ Pages \subseteq Nat
           /\ 1 \in Versions /\ Versions \subseteq Nat
           /\ profile \in {"native", "ocr"} /\ rejected \in BOOLEAN
BY BoundsOK DEF TypeOK, TaskRow, ChildRow, Attempts, Pages, Versions

LEMMA TaskFields ==
    ASSUME NEW t \in TaskRow
    PROVE  /\ t.at \in Running \cup Ended \cup {"idle"} /\ t.pages \in SUBSET Pages
           /\ t.page \in Pages /\ t.backend \in Backends
           /\ t.seen \in Results \cup {NoFile} /\ t.base \in Results \cup {NoFile}
           /\ t.refused \in Results \cup {NoFile}
           /\ t.packaged \in SUBSET (Pages \X Results)
BY DEF TaskRow

LEMMA ChildFields ==
    ASSUME NEW c \in ChildRow
    PROVE  /\ c.at \in {"none", "checking", "predicting", "written", "exited"}
           /\ c.page \in Pages /\ c.backend \in Backends
           /\ c.code \in {"ok", "retry", "final", "garbled"}
BY DEF ChildRow

LEMMA ResultFields ==
    ASSUME NEW r \in Results
    PROVE  /\ r.of \in Pages /\ r.by \in Attempts /\ r.backend \in Backends
           /\ r.version \in Versions /\ r # NoFile
BY NoFileIsNone DEF Results

\* The pages of a lease are parsed in their order.
LEMMA Least ==
    ASSUME NEW S \in SUBSET Nat, S # {}
    PROVE  (CHOOSE p \in S : \A q \in S : p <= q) \in S
<1> DEFINE R == {pair \in Nat \X Nat : pair[1] < pair[2]}
<1>1. R = OpToRel(<, Nat)
  BY DEF OpToRel
<1>2. IsWellFoundedOn(R, Nat)
  BY <1>1, NatLessThanWellFounded
<1> HIDE DEF R
<1>3. PICK m \in S : \A q \in S : ~ (<<q, m>> \in R)
  BY <1>2, WFMin
<1>4. ASSUME NEW q \in S PROVE m <= q
  <2>1. ~(<<q, m>> \in R)
    BY <1>3
  <2>2. ~(q < m)
    BY <2>1 DEF R
  <2> QED
    BY <2>2
<1>5. \E p \in S : \A q \in S : p <= q
  BY <1>4
<1> QED
  BY <1>5

LEMMA InvInit == Init => Inv
<1> SUFFICES ASSUME Init PROVE Inv
  OBVIOUS
<1>1. /\ attempt = 0 /\ task = NoTask /\ task.at = "idle"
      /\ task.seen = NoFile /\ task.base = NoFile /\ task.packaged = {}
      /\ \A a \in Attempts : child[a] = NoChild /\ output[a] = NoFile
  BY DEF Init, NoTask
<1>2. TypeOK
  <2>1. NoTask \in TaskRow /\ NoChild \in ChildRow
    BY BoundsOK DEF NoTask, NoChild, TaskRow, ChildRow, Pages, Backends
  <2>2. installed \in Versions /\ attempt \in 0 .. MaxAttempts /\ faults \in 0 .. MaxFaults
        /\ marker \in [OcrBackends -> Versions \cup {0}]
    BY BoundsOK DEF Init, Versions
  <2>3. complex \subseteq Pages
    BY DEF Init
  <2> QED
    BY <2>1, <2>2, <2>3 DEF Init, TypeOK, TaskRow, ChildRow
<1>3. FilesInv
  BY <1>1 DEF FilesInv, NoChild
<1>4. TaskInv
  BY <1>1 DEF TaskInv, Running
<1> QED
  BY <1>1, <1>2, <1>3, <1>4
     DEF Inv, WaitInv, PackagedIsOwn, NothingRunsOn, TransientIsRetried, Ended

-----------------------------------------------------------------------------
(* 3. The host and the children                                            *)

\* What a step of the host does
HostMoves ==
    /\ UNCHANGED <<taskVars, fileVars, faults, rejected>>
    /\ installed' \in Versions
    /\ marker' \in [OcrBackends -> Versions \cup {0}]

LEMMA HostKeeps ==
    ASSUME Inv, HostStep
    PROVE  Inv'
<1>1. HostMoves
  <2>1. CASE Upgrade
    <3>1. installed \in Versions /\ installed' = installed + 1 /\ installed' \in Versions
      BY <2>1, BoundsOK DEF Upgrade, Inv, TypeOK, Versions
    <3> QED
      BY <2>1, <3>1 DEF Upgrade, Inv, TypeOK, Versions, HostMoves
  <2>2. ASSUME NEW b \in OcrBackends, WarmUp(b)
        PROVE  HostMoves
    BY <2>2, BoundsOK DEF WarmUp, Marked, Inv, TypeOK, Versions, HostMoves
  <2> QED
    BY <2>1, <2>2, HostStep DEF HostStep
<1>2. /\ UNCHANGED <<profile, complex, attempt, task, sandbox, output, child>>
      /\ UNCHANGED <<faults, rejected>>
  BY <1>1 DEF HostMoves, taskVars, fileVars
<1>3. TypeOK'
  BY <1>1, <1>2 DEF HostMoves, Inv, TypeOK
<1>4. FilesInv'
  BY <1>2 DEF Inv, FilesInv, OfProfile
<1>5. TaskInv'
  BY <1>2 DEF Inv, TaskInv, Own, Wanted
<1>6. WaitInv'
  BY <1>2 DEF Inv, WaitInv, Delivered, Wanted
<1>7. PackagedIsOwn' /\ NothingRunsOn'
  BY <1>2 DEF Inv, PackagedIsOwn, NothingRunsOn
<1>8. TransientIsRetried'
  BY <1>2 DEF Inv, TransientIsRetried, Disagree
<1> QED
  BY <1>3, <1>4, <1>5, <1>6, <1>7, <1>8 DEF Inv

\* What any step of a child does: it writes into its own sandbox only, a result of the
\* page and backend it was started with, and ends well only after it did or refused.
Moves(a) ==
    /\ child[a].at \in {"checking", "predicting", "written"}
    /\ UNCHANGED <<hostVars, taskVars, sandbox>>
    /\ \A b \in Attempts : b # a => child'[b] = child[b] /\ output'[b] = output[b]
    /\ child'[a].page = child[a].page /\ child'[a].backend = child[a].backend
    /\ rejected => rejected'
    /\ \/ child'[a].at = "predicting" /\ output'[a] = output[a]
       \/ /\ child'[a].at = "written" /\ output'[a] \in Results
          /\ output'[a].of = child[a].page /\ output'[a].by = a
          /\ output'[a].backend = child[a].backend
       \/ /\ child'[a].at = "exited" /\ output'[a] = output[a]
          /\ a = attempt /\ child'[a].code = "ok" => child[a].at = "written" \/ rejected'
          /\ a = attempt /\ child'[a].code = "final" => rejected'

LEMMA MovesKeep ==
    ASSUME Inv, TypeOK', NEW a \in Attempts, Moves(a)
    PROVE  Inv'
<1>1. UNCHANGED <<installed, profile, complex, attempt, task, sandbox>>
  BY DEF Moves, hostVars, taskVars
<1>2. child[a].at \notin {"none", "exited"} /\ child'[a].at # "none"
  BY DEF Moves
<1>3. a <= attempt /\ attempt \in Attempts
  BY <1>2, Types DEF Inv, FilesInv, Attempts
<1>4. FilesInv'
  <2> SUFFICES ASSUME NEW b \in Attempts
      PROVE  /\ b > attempt => child'[b].at = "none" /\ output'[b] = NoFile
             /\ child'[b].at # "none" => OfProfile(child'[b].backend)
             /\ output'[b] # NoFile => output'[b].by = b /\ OfProfile(output'[b].backend)
    BY <1>1 DEF FilesInv, OfProfile
  <2>1. CASE b # a
    BY <2>1 DEF Inv, FilesInv, Moves
  <2>2. CASE b = a
    <3>1. OfProfile(child[a].backend) /\ OfProfile(child'[a].backend)
      BY <1>2 DEF Inv, FilesInv, Moves
    <3>2. ~(a > attempt)
      BY <1>3, Types DEF Inv
    <3>3. CASE output'[a] = output[a]
      BY <3>1, <3>2, <3>3, <2>2 DEF Inv, FilesInv
    <3>4. CASE output'[a] # output[a]
      BY <3>1, <3>2, <3>4, <2>2 DEF Moves
    <3> QED
      BY <3>3, <3>4
  <2> QED
    BY <2>1, <2>2
<1>5. a = attempt => task.at = "waiting" \/ task.at \notin Running
  BY <1>2 DEF Inv, TaskInv
<1>6. TaskInv'
  <2>1. task.at \in Running \ {"waiting"} => child'[attempt].at \in {"none", "exited"}
    BY <1>3, <1>5 DEF Inv, TaskInv, Moves
  <2> QED
    BY <1>1, <2>1 DEF Inv, TaskInv, Own, Wanted
<1>7. WaitInv'
  <2> SUFFICES ASSUME task.at = "waiting"
      PROVE  /\ child'[attempt].at # "none"
             /\ child'[attempt].page = task.page /\ child'[attempt].backend = task.backend
             /\ profile = "ocr" /\ output'[attempt] # NoFile => output'[attempt].of = task.page
             /\ child'[attempt].at = "written" => Delivered'
             /\ child'[attempt].at = "exited" /\ child'[attempt].code = "ok" =>
                   rejected' \/ Delivered'
             /\ child'[attempt].at = "exited" /\ child'[attempt].code = "final" => rejected'
    BY <1>1 DEF Inv, WaitInv, Wanted
  <2>1. CASE a # attempt
    <3>1. child'[attempt] = child[attempt] /\ output'[attempt] = output[attempt]
      BY <2>1, <1>3 DEF Moves
    <3>2. Delivered => Delivered'
      BY <3>1, <1>1 DEF Delivered
    <3> QED
      BY <3>1, <3>2 DEF Inv, WaitInv, Moves
  <2>2. CASE a = attempt
    <3>1. child[attempt].page = task.page /\ child[attempt].backend = task.backend
      BY DEF Inv, WaitInv
    <3>2. child'[attempt].at = "written" => Delivered'
      BY <3>1, <2>2, <1>1, ResultFields DEF Moves, Delivered
    <3>3. ASSUME child'[attempt].at = "exited", child'[attempt].code = "ok"
          PROVE  rejected' \/ Delivered'
      <4>1. output'[attempt] = output[attempt] /\ (child[attempt].at = "written" \/ rejected')
        BY <2>2, <3>3 DEF Moves
      <4>2. child[attempt].at = "written" => Delivered
        BY DEF Inv, WaitInv
      <4> QED
        BY <4>1, <4>2, <1>1 DEF Delivered
    <3>4. profile = "ocr" /\ output'[attempt] # NoFile => output'[attempt].of = task.page
      BY <3>1, <2>2 DEF Inv, WaitInv, Moves
    <3> QED
      BY <3>1, <3>2, <3>3, <3>4, <2>2, <1>2 DEF Moves
  <2> QED
    BY <2>1, <2>2
<1>8. PackagedIsOwn'
  BY <1>1 DEF Inv, PackagedIsOwn
<1>9. NothingRunsOn'
  <2>1. task.at \in Ended \ {"crashed"} => a # attempt
    BY <1>2 DEF Inv, NothingRunsOn
  <2> QED
    BY <2>1, <1>1, <1>3 DEF Inv, NothingRunsOn, Moves
<1>10. TransientIsRetried'
  BY <1>1 DEF Inv, TransientIsRetried, Disagree, Moves
<1> QED
  BY <1>4, <1>6, <1>7, <1>8, <1>9, <1>10 DEF Inv

\* The row of a child after a step, and the types that are left to show
LEMMA ChildTypes ==
    ASSUME Inv, NEW a \in Attempts, NEW row \in ChildRow,
           child' = [child EXCEPT ![a] = row],
           output' \in [Attempts -> Results \cup {NoFile}],
           UNCHANGED <<hostVars, taskVars, sandbox>>,
           faults' \in 0 .. MaxFaults, rejected' \in BOOLEAN
    PROVE  /\ TypeOK' /\ child'[a] = row
           /\ \A b \in Attempts : b # a => child'[b] = child[b]
<1>1. child \in [Attempts -> ChildRow]
  BY Types DEF Inv
<1>2. child' \in [Attempts -> ChildRow]
  BY <1>1
<1>3. TypeOK'
  BY <1>2 DEF Inv, TypeOK, hostVars, taskVars, ChildRow
<1> QED
  BY <1>1, <1>3

LEMMA MoveRow ==
    ASSUME TypeOK, NEW a \in Attempts, NEW at \in {"predicting", "written"}, Move(a, at)
    PROVE  \E row \in ChildRow : /\ child' = [child EXCEPT ![a] = row] /\ row.at = at
                                 /\ row.page = child[a].page
                                 /\ row.backend = child[a].backend
<1>1. child \in [Attempts -> ChildRow]
  BY Types
<1>2. PICK row : row = [child[a] EXCEPT !.at = at]
  OBVIOUS
<1>3. row \in ChildRow /\ row.at = at /\ row.page = child[a].page
      /\ row.backend = child[a].backend
  BY <1>1, <1>2 DEF ChildRow
<1>4. child' = [child EXCEPT ![a] = row]
  BY <1>1, <1>2 DEF Move
<1> QED
  BY <1>3, <1>4

LEMMA ExitRow ==
    ASSUME TypeOK, NEW a \in Attempts, NEW code \in {"ok", "retry", "final", "garbled"},
           Exit(a, code)
    PROVE  \E row \in ChildRow : /\ child' = [child EXCEPT ![a] = row]
                                 /\ row.at = "exited" /\ row.code = code
                                 /\ row.page = child[a].page
                                 /\ row.backend = child[a].backend
<1>1. child \in [Attempts -> ChildRow]
  BY Types
<1>2. PICK row : row = [child[a] EXCEPT !.at = "exited", !.code = code]
  OBVIOUS
<1>3. row \in ChildRow /\ row.at = "exited" /\ row.code = code
      /\ row.page = child[a].page /\ row.backend = child[a].backend
  BY <1>1, <1>2 DEF ChildRow
<1>4. child' = [child EXCEPT ![a] = row]
  BY <1>1, <1>2 DEF Exit
<1> QED
  BY <1>3, <1>4

LEMMA LeaveMoves ==
    ASSUME Inv, NEW a \in Attempts, child[a].at = "predicting", NEW r \in Results,
           r.of = child[a].page, r.by = a, r.backend = child[a].backend,
           Leave(a, r)
    PROVE  Moves(a) /\ TypeOK'
<1>1. /\ output' \in [Attempts -> Results \cup {NoFile}] /\ output'[a] = r
      /\ \A b \in Attempts : b # a => output'[b] = output[b]
  BY Types DEF Leave, Inv
<1>2. PICK row \in ChildRow :
          /\ child' = [child EXCEPT ![a] = row] /\ row.at = "written"
          /\ row.page = child[a].page /\ row.backend = child[a].backend
  BY MoveRow DEF Leave, Inv
<1>3. /\ UNCHANGED <<hostVars, taskVars, sandbox>> /\ rejected' = rejected
      /\ faults' \in 0 .. MaxFaults /\ rejected' \in BOOLEAN
  BY DEF Leave, Inv, TypeOK
<1>4. TypeOK' /\ child'[a] = row /\ \A b \in Attempts : b # a => child'[b] = child[b]
  BY <1>1, <1>2, <1>3, ChildTypes
<1> QED
  BY <1>1, <1>2, <1>3, <1>4 DEF Moves

LEMMA ExitMoves ==
    ASSUME Inv, NEW a \in Attempts, NEW code \in {"ok", "retry", "final", "garbled"},
           child[a].at \in {"checking", "predicting", "written"},
           Exit(a, code), UNCHANGED <<hostVars, taskVars, sandbox, output>>,
           faults' \in 0 .. MaxFaults, rejected' \in BOOLEAN, rejected => rejected',
           a = attempt /\ code = "ok" => child[a].at = "written" \/ rejected',
           a = attempt /\ code = "final" => rejected'
    PROVE  Moves(a) /\ TypeOK'
<1>1. PICK row \in ChildRow :
          /\ child' = [child EXCEPT ![a] = row] /\ row.at = "exited" /\ row.code = code
          /\ row.page = child[a].page /\ row.backend = child[a].backend
  BY ExitRow DEF Inv
<1>2. output' \in [Attempts -> Results \cup {NoFile}]
  BY Types DEF Inv
<1>3. TypeOK' /\ child'[a] = row /\ \A b \in Attempts : b # a => child'[b] = child[b]
  BY <1>1, <1>2, ChildTypes
<1> QED
  BY <1>1, <1>3 DEF Moves

LEMMA ChildKeeps ==
    ASSUME Inv, NEW a \in Attempts,
           CheckCache(a) \/ Recognise(a) \/ ParseNative(a) \/ Finish(a) \/ Break(a) \/ Refuse(a)
    PROVE  Inv'
<1>1. /\ installed \in Versions /\ installed \in Nat /\ 1 \in Versions /\ 1 <= installed
      /\ faults \in 0 .. MaxFaults /\ MaxFaults \in Nat /\ rejected \in BOOLEAN
  BY Types, BoundsOK DEF Inv, TypeOK
<1>2. child[a] \in ChildRow /\ child[a].page \in Pages /\ child[a].backend \in Backends
  BY Types, ChildFields DEF Inv
<1>3. /\ Result(a) \in Results /\ [Result(a) EXCEPT !.version = 1] \in Results
      /\ Result(a).of = child[a].page /\ Result(a).by = a
      /\ Result(a).backend = child[a].backend /\ Result(a).version = installed
      /\ [Result(a) EXCEPT !.version = 1].of = child[a].page
      /\ [Result(a) EXCEPT !.version = 1].by = a
      /\ [Result(a) EXCEPT !.version = 1].backend = child[a].backend
      /\ [Result(a) EXCEPT !.version = 1].version = 1
  BY <1>1, <1>2 DEF Result, Results
<1>4. CASE CheckCache(a)
  <2>1. CASE MayPredict(child[a].backend)
    <3>1. /\ child[a].at = "checking" /\ Move(a, "predicting")
          /\ UNCHANGED <<hostVars, taskVars, sandbox, output, faults, rejected>>
      BY <1>4, <2>1 DEF CheckCache
    <3>2. PICK row \in ChildRow :
              /\ child' = [child EXCEPT ![a] = row] /\ row.at = "predicting"
              /\ row.page = child[a].page /\ row.backend = child[a].backend
      BY <3>1, MoveRow DEF Inv
    <3>3. output' \in [Attempts -> Results \cup {NoFile}]
      BY <3>1, Types DEF Inv
    <3>4. TypeOK' /\ child'[a] = row /\ \A b \in Attempts : b # a => child'[b] = child[b]
      BY <1>1, <3>1, <3>2, <3>3, ChildTypes
    <3>5. Moves(a)
      BY <3>1, <3>2, <3>4 DEF Moves
    <3> QED
      BY <3>4, <3>5, MovesKeep
  <2>2. CASE ~MayPredict(child[a].backend)
    <3>1. /\ child[a].at = "checking" /\ Exit(a, "retry")
          /\ UNCHANGED <<hostVars, taskVars, sandbox, output, faults, rejected>>
      BY <1>4, <2>2 DEF CheckCache
    <3> QED
      BY <1>1, <3>1, ExitMoves, MovesKeep
  <2> QED
    BY <2>1, <2>2
<1>5. CASE Recognise(a)
  BY <1>1, <1>3, <1>5, LeaveMoves, MovesKeep DEF Recognise
<1>6. CASE ParseNative(a)
  BY <1>1, <1>3, <1>6, LeaveMoves, MovesKeep DEF ParseNative
<1>7. CASE Finish(a)
  BY <1>1, <1>7, ExitMoves, MovesKeep DEF Finish
<1>8. CASE Break(a)
  <2>1. PICK code \in {"retry", "garbled"} : Exit(a, code)
    BY <1>8 DEF Break
  <2> QED
    BY <1>1, <1>8, <2>1, ExitMoves, MovesKeep DEF Break
<1>9. CASE Refuse(a)
  <2>1. PICK code \in {"final", "ok"} : Exit(a, code)
    BY <1>9 DEF Refuse
  <2>2. rejected' \in BOOLEAN /\ (rejected => rejected') /\ (a = attempt => rejected')
    BY <1>9, Zenon DEF Refuse
  <2>3. /\ child[a].at \in {"checking", "predicting", "written"}
        /\ faults' \in 0 .. MaxFaults /\ UNCHANGED <<hostVars, taskVars, sandbox, output>>
    BY <1>1, <1>9 DEF Refuse
  <2> QED
    BY <2>1, <2>2, <2>3, ExitMoves, MovesKeep
<1> QED
  BY <1>4, <1>5, <1>6, <1>7, <1>8, <1>9

-----------------------------------------------------------------------------
(* 4. Attempts that end                                                    *)

\* Why a document may be failed for good
Reason(t) == Disagree(t.seen, t.refused) \/ Disagree(t.base, t.refused)

LEMMA KilledStops ==
    ASSUME Inv, attempt \in Attempts
    PROVE  /\ Killed \in [Attempts -> ChildRow]
           /\ \A b \in Attempts : b # attempt => Killed[b] = child[b]
           /\ Killed[attempt].at \in {"none", "exited"}
           /\ Killed[attempt].at # "none" => /\ child[attempt].at # "none"
                                            /\ Killed[attempt].backend = child[attempt].backend
<1>1. child \in [Attempts -> ChildRow] /\ child[attempt] \in ChildRow
  BY Types DEF Inv
<1>2. PICK row : row = [child[attempt] EXCEPT
                          !.at = IF @ = "none" THEN @ ELSE "exited",
                          !.code = IF child[attempt].at = "exited" THEN @ ELSE "garbled"]
  OBVIOUS
<1>3. row \in ChildRow /\ row.backend = child[attempt].backend
      /\ row.at = IF child[attempt].at = "none" THEN "none" ELSE "exited"
  BY <1>1, <1>2 DEF ChildRow
<1>4. Killed = [child EXCEPT ![attempt] = row]
  BY <1>1, <1>2 DEF Killed
<1> QED
  BY <1>1, <1>3, <1>4

\* The child of an attempt that ends is killed, or had ended.
Stops == \/ child' = Killed
         \/ child' = child /\ child[attempt].at \in {"none", "exited"}

LEMMA EndKeeps ==
    ASSUME Inv, task.at \in Running,
           NEW t \in TaskRow, task' = t, t.at \in Ended \ {"crashed"},
           t.pages = task.pages, t.seen = task.seen,
           t.base # NoFile => Own(t.base.of, t.base),
           \A packed \in t.packaged : Own(packed[1], packed[2]),
           sandbox' = [sandbox EXCEPT ![attempt] = "removed"],
           output' = [output EXCEPT ![attempt] = NoFile],
           Stops, UNCHANGED <<hostVars, profile, complex, attempt>>,
           faults' \in 0 .. MaxFaults, rejected' \in BOOLEAN,
           t.at = "failed" => rejected' \/ Reason(t)
    PROVE  Inv'
<1>1. attempt \in Attempts /\ attempt' = attempt /\ profile' = profile
      /\ complex' = complex /\ installed' = installed
  BY DEF Inv, TaskInv, Running, hostVars
<1>2. /\ child' \in [Attempts -> ChildRow]
      /\ \A b \in Attempts : b # attempt => child'[b] = child[b]
      /\ child'[attempt].at \in {"none", "exited"}
      /\ child'[attempt].at # "none" => /\ child[attempt].at # "none"
                                       /\ child'[attempt].backend = child[attempt].backend
  <2>1. CASE child' = Killed
    BY <2>1, <1>1, KilledStops
  <2>2. CASE child' = child /\ child[attempt].at \in {"none", "exited"}
    BY <2>2, Types DEF Inv
  <2> QED
    BY <2>1, <2>2 DEF Stops
<1>3. /\ output' \in [Attempts -> Results \cup {NoFile}] /\ output'[attempt] = NoFile
      /\ \A b \in Attempts : b # attempt => output'[b] = output[b]
      /\ sandbox' \in [Attempts -> {"unused", "present", "removed"}]
      /\ sandbox'[attempt] = "removed"
  BY <1>1, Types DEF Inv
<1>4. TypeOK'
  BY <1>1, <1>2, <1>3 DEF Inv, TypeOK, hostVars, TaskRow, ChildRow
<1>5. FilesInv'
  <2> SUFFICES ASSUME NEW b \in Attempts
      PROVE  /\ b > attempt => child'[b].at = "none" /\ output'[b] = NoFile
             /\ child'[b].at # "none" => OfProfile(child'[b].backend)
             /\ output'[b] # NoFile => output'[b].by = b /\ OfProfile(output'[b].backend)
    BY <1>1 DEF FilesInv, OfProfile
  <2>1. CASE b # attempt
    BY <2>1, <1>2, <1>3 DEF Inv, FilesInv
  <2>2. CASE b = attempt
    <3>1. ~(b > attempt)
      BY <2>2, Types DEF Inv
    <3> QED
      BY <3>1, <2>2, <1>2, <1>3 DEF Inv, FilesInv
  <2> QED
    BY <2>1, <2>2
<1>6. t.at \notin Running /\ t.at \notin {"waiting", "complex", "parsed"}
  BY DEF Ended, Running
<1>7. TaskInv'
  BY <1>1, <1>6 DEF Inv, TaskInv, Own, Wanted
<1>8. WaitInv'
  BY <1>6 DEF WaitInv
<1>9. PackagedIsOwn'
  BY <1>1 DEF PackagedIsOwn, Own, Wanted
<1>10. NothingRunsOn'
  BY <1>1, <1>2, <1>3 DEF NothingRunsOn
<1>11. TransientIsRetried'
  BY <1>1 DEF TransientIsRetried, Reason, Disagree
<1> QED
  BY <1>4, <1>5, <1>7, <1>8, <1>9, <1>10, <1>11 DEF Inv

\* What an attempt has packaged, and its first result, stay as they were.
LEMMA EndForKeeps ==
    ASSUME Inv, task.at \in Running, NEW outcome \in Ended \ {"crashed"},
           NEW result \in Results \cup {NoFile}, EndFor(outcome, result),
           Stops, UNCHANGED <<hostVars, profile, complex, attempt>>,
           faults' \in 0 .. MaxFaults, rejected' \in BOOLEAN,
           outcome = "failed" => \/ rejected' \/ Disagree(task.seen, result)
                                 \/ Disagree(task.base, result)
    PROVE  Inv'
<1>1. task \in TaskRow
  BY Types DEF Inv
<1>2. PICK t : t = [task EXCEPT !.at = outcome, !.refused = result]
  OBVIOUS
<1>3. /\ t \in TaskRow /\ t.at = outcome /\ t.pages = task.pages /\ t.seen = task.seen
      /\ t.refused = result
      /\ t.base = task.base /\ t.packaged = task.packaged
  BY <1>1, <1>2 DEF TaskRow
<1>4. /\ task' = t /\ sandbox' = [sandbox EXCEPT ![attempt] = "removed"]
      /\ output' = [output EXCEPT ![attempt] = NoFile]
  BY <1>2 DEF EndFor
<1>5. \A packed \in t.packaged : Own(packed[1], packed[2])
  BY <1>3 DEF Inv, PackagedIsOwn, Own, Wanted
<1>6. t.base # NoFile => Own(t.base.of, t.base)
  BY <1>3 DEF Inv, TaskInv
<1>7. t.at = "failed" => rejected' \/ Reason(t)
  BY <1>3 DEF Reason
<1> QED
  BY <1>3, <1>4, <1>5, <1>6, <1>7, EndKeeps

\* ... and without a result that is refused
LEMMA EndAsKeeps ==
    ASSUME Inv, task.at \in Running, NEW outcome \in Ended \ {"crashed"}, EndAs(outcome),
           Stops, UNCHANGED <<hostVars, profile, complex, attempt>>,
           faults' \in 0 .. MaxFaults, rejected' \in BOOLEAN,
           outcome = "failed" => rejected'
    PROVE  Inv'
BY EndForKeeps DEF EndAs

LEMMA Unhurried ==
    ASSUME Inv
    PROVE  /\ faults \in 0 .. MaxFaults /\ rejected \in BOOLEAN
           /\ faults < MaxFaults => faults + 1 \in 0 .. MaxFaults
BY BoundsOK DEF Inv, TypeOK

LEMMA PreparationKeeps ==
    ASSUME Inv, PreparationFails
    PROVE  Inv'
<1>1. PICK outcome \in Unprepared : EndAs(outcome) /\ rejected' = (outcome = "failed")
  BY DEF PreparationFails
<1>2. outcome \in Ended \ {"crashed"} /\ task.at \in Running /\ Stops
  BY DEF PreparationFails, Unprepared, Ended, Running, Stops, Inv, TaskInv
<1>3. UNCHANGED <<hostVars, profile, complex, attempt>> /\ faults' \in 0 .. MaxFaults
  BY Unhurried DEF PreparationFails
<1>4. outcome = "failed" => rejected'
  BY <1>1
<1>5. rejected' \in BOOLEAN
  BY <1>1
<1> QED
  BY <1>1, <1>2, <1>3, <1>4, <1>5, EndAsKeeps

\* An attempt that is given up, cancelled or late is tried again.
LEMMA GivenUpKeeps ==
    ASSUME Inv, Hinder \/ Overrun \/ Cancel
    PROVE  Inv'
<1>1. UNCHANGED <<hostVars, profile, complex, attempt>> /\ task.at \in Running
      /\ rejected' \in BOOLEAN /\ faults' \in 0 .. MaxFaults
  <2>1. rejected' = rejected /\ UNCHANGED <<hostVars, profile, complex, attempt>>
    BY DEF Hinder, Overrun, Cancel
  <2>2. task.at \in Running
    BY DEF Hinder, Overrun, Cancel, Running
  <2>3. CASE Hinder
    BY <2>1, <2>2, <2>3, Unhurried DEF Hinder
  <2>4. CASE Overrun \/ Cancel
    <3>1. faults' = faults
      BY <2>4 DEF Overrun, Cancel
    <3> QED
      BY <2>1, <2>2, <3>1, Unhurried
  <2> QED
    BY <2>3, <2>4
<1>2. Stops
  <2>1. CASE Hinder
    <3>1. child' = child /\ task.at \in Running \ {"waiting"}
      BY <2>1 DEF Hinder, Running
    <3> QED
      BY <3>1 DEF Stops, Inv, TaskInv
  <2>2. CASE Overrun
    BY <2>2 DEF Overrun, Stops
  <2>3. CASE Cancel
    BY <2>3 DEF Cancel, Cancelled, Stops
  <2> QED
    BY <2>1, <2>2, <2>3
<1>3. PICK outcome \in {"retry", "lost"} : EndAs(outcome)
  BY DEF Hinder, Overrun, Cancel
<1>4. outcome \in Ended \ {"crashed"} /\ outcome # "failed"
  BY DEF Ended
<1> QED
  BY <1>1, <1>2, <1>3, <1>4, EndAsKeeps

LEMMA ChildFailedKeeps ==
    ASSUME Inv, ChildFailed
    PROVE  Inv'
<1>1. PICK outcome : outcome = Verdict(child[attempt].code)
  OBVIOUS
<1>2. EndAs(outcome) /\ outcome \in Ended \ {"crashed"} /\ task.at \in Running /\ Stops
  BY <1>1 DEF ChildFailed, Verdict, Ended, Running, Stops
<1>3. /\ UNCHANGED <<hostVars, profile, complex, attempt>>
      /\ faults' \in 0 .. MaxFaults /\ rejected' = rejected /\ rejected' \in BOOLEAN
  BY Unhurried DEF ChildFailed
<1>4. outcome = "failed" => rejected'
  BY <1>1, <1>3 DEF ChildFailed, Verdict, Inv, WaitInv
<1> QED
  BY <1>2, <1>3, <1>4, EndAsKeeps

\* Results of pages that need the same backend disagree in their version only.
LEMMA RefusePageKeeps ==
    ASSUME Inv, RefusePage
    PROVE  Inv'
<1>1. /\ EndFor("failed", task.seen) /\ task.at \in Running
      /\ "failed" \in Ended \ {"crashed"} /\ Stops
      /\ UNCHANGED <<hostVars, profile, complex, attempt>>
      /\ faults' \in 0 .. MaxFaults /\ rejected' = rejected /\ rejected' \in BOOLEAN
  BY Unhurried DEF RefusePage, Ended, Running, Stops, Inv, TaskInv
<1>2. /\ task.base # NoFile
      /\ task.seen.backend # task.base.backend \/ task.seen.version # task.base.version
  BY DEF RefusePage, Consistent
<1>3. /\ task.seen # NoFile /\ task.seen.by = attempt
      /\ task.seen.backend = Wanted(task.seen.of)
  BY <1>1 DEF Inv, TaskInv, RefusePage
<1>4. task.base.by = attempt /\ task.base.backend = Wanted(task.base.of)
  BY <1>2 DEF Inv, TaskInv, Own
<1>5. task.seen.backend # task.base.backend
          => (task.base.of \in complex) # (task.seen.of \in complex)
  BY <1>3, <1>4 DEF Wanted
<1>6. Disagree(task.base, task.seen)
  BY <1>2, <1>3, <1>4, <1>5 DEF Disagree
<1>7. task.seen \in Results \cup {NoFile}
  BY Types, TaskFields DEF Inv
<1> QED
  BY <1>1, <1>6, <1>7, EndForKeeps

-----------------------------------------------------------------------------
(* 5. Attempts that go on                                                  *)

LEMMA BeginKeeps ==
    ASSUME Inv, Begin
    PROVE  Inv'
<1>1. /\ attempt' = attempt + 1 /\ attempt' \in Attempts /\ attempt \in Nat
      /\ UNCHANGED <<hostVars, profile, complex, output, child, faults>>
      /\ installed' = installed /\ rejected' = FALSE
  BY Types, BoundsOK DEF Begin, Inv, Attempts, TypeOK, hostVars
<1>2. PICK requested \in (SUBSET Pages) \ {{}} :
          task' = [NoTask EXCEPT !.at = "page", !.pages = requested,
                      !.page = CHOOSE p \in requested : \A q \in requested : p <= q]
  BY DEF Begin
<1>3. PICK first : first = CHOOSE p \in requested : \A q \in requested : p <= q
  OBVIOUS
<1>4. first \in requested /\ first \in Pages
  <2>1. requested \subseteq Pages /\ requested # {} /\ Pages \subseteq Nat
    BY <1>2, BoundsOK DEF Pages
  <2> QED
    BY <1>3, <2>1, Least
<1>5. PICK t : t = [NoTask EXCEPT !.at = "page", !.pages = requested, !.page = first]
  OBVIOUS
<1>6. /\ t \in TaskRow /\ t.at = "page" /\ t.pages = requested /\ t.page = first
      /\ t.seen = NoFile /\ t.base = NoFile /\ t.packaged = {}
  BY <1>4, <1>5 DEF NoTask, TaskRow, Running, Backends
<1>7. task' = t
  BY <1>2, <1>3, <1>5
<1>8. sandbox' \in [Attempts -> {"unused", "present", "removed"}]
  BY <1>1, Types DEF Begin, Inv
<1>9. TypeOK'
  <2>1. attempt' \in 0 .. MaxAttempts
    BY <1>1, BoundsOK DEF Attempts
  <2> QED
    BY <1>1, <1>6, <1>7, <1>8, <2>1 DEF Inv, TypeOK, hostVars, TaskRow
<1>10. child[attempt'].at = "none"
  BY <1>1 DEF Inv, FilesInv
<1>11. FilesInv'
  <2>1. \A a \in Attempts : a > attempt' => a > attempt
    BY <1>1, Types DEF Inv
  <2> QED
    BY <2>1, <1>1 DEF Inv, FilesInv, OfProfile
<1>12. TaskInv'
  BY <1>1, <1>4, <1>6, <1>7, <1>10 DEF TaskInv
<1>13. WaitInv' /\ PackagedIsOwn' /\ NothingRunsOn' /\ TransientIsRetried'
  BY <1>6, <1>7 DEF WaitInv, PackagedIsOwn, NothingRunsOn, TransientIsRetried, Ended
<1> QED
  BY <1>9, <1>11, <1>12, <1>13 DEF Inv

LEMMA DieKeeps ==
    ASSUME Inv, Die
    PROVE  Inv'
<1>1. UNCHANGED <<hostVars, profile, complex, attempt, fileVars, rejected>>
      /\ UNCHANGED <<installed, marker, sandbox, output, child>>
  BY DEF Die, hostVars, fileVars
<1>2. PICK t : t = [task EXCEPT !.at = "crashed"]
  OBVIOUS
<1>3. /\ t \in TaskRow /\ t.at = "crashed" /\ t.pages = task.pages /\ t.seen = task.seen
      /\ t.base = task.base /\ t.packaged = task.packaged /\ task' = t
  BY <1>2, Types DEF Die, Inv, TaskRow, Ended
<1>4. TypeOK'
  BY <1>1, <1>3, Unhurried DEF Die, Inv, TypeOK, TaskRow
<1>5. FilesInv'
  BY <1>1 DEF Inv, FilesInv, OfProfile
<1>6. TaskInv'
  BY <1>1, <1>3 DEF Die, Inv, TaskInv, Own, Wanted, Running
<1>7. PackagedIsOwn'
  BY <1>1, <1>3 DEF Inv, PackagedIsOwn
<1>8. WaitInv' /\ NothingRunsOn' /\ TransientIsRetried'
  BY <1>3 DEF WaitInv, NothingRunsOn, TransientIsRetried, Ended
<1> QED
  BY <1>4, <1>5, <1>6, <1>7, <1>8 DEF Inv

LEMMA StartChildKeeps ==
    ASSUME Inv, StartChild
    PROVE  Inv'
<1>1. /\ UNCHANGED <<hostVars, profile, complex, attempt, sandbox, faults, rejected>>
      /\ UNCHANGED <<installed, marker>> /\ attempt \in Attempts
      /\ task.at \in {"page", "complex"} /\ task.page \in task.pages
  BY DEF StartChild, hostVars, Inv, TaskInv, Running
<1>2. PICK backend \in Backends : backend = NextBackend
  BY DEF NextBackend, Backends, OcrBackends
<1>3. /\ OfProfile(backend)
      /\ backend = "structure" => Wanted(task.page) = "structure" /\ task.seen # NoFile
  BY <1>1, <1>2, Types DEF NextBackend, OfProfile, Inv, TaskInv
<1>4. PICK row : row = [at |-> "checking", page |-> task.page,
                        backend |-> backend, code |-> "ok"]
  OBVIOUS
<1>5. PICK t : t = [task EXCEPT !.at = "waiting", !.backend = backend]
  OBVIOUS
<1>6. task \in TaskRow /\ task.page \in Pages
  BY Types, TaskFields DEF Inv
<1>7. /\ row \in ChildRow /\ row.at = "checking" /\ row.page = task.page
      /\ row.backend = backend
  BY <1>4, <1>6 DEF ChildRow
<1>8. /\ t \in TaskRow /\ t.at = "waiting" /\ t.backend = backend /\ t.page = task.page
      /\ t.pages = task.pages /\ t.seen = task.seen /\ t.base = task.base
      /\ t.packaged = task.packaged
  BY <1>5, <1>6 DEF TaskRow, Running
<1>9. task' = t /\ child' = [child EXCEPT ![attempt] = row]
  BY <1>2, <1>4, <1>5 DEF StartChild
<1>10. /\ child' \in [Attempts -> ChildRow] /\ child'[attempt] = row
       /\ \A b \in Attempts : b # attempt => child'[b] = child[b]
  BY <1>1, <1>7, <1>9, Types DEF Inv
<1>11. /\ output' \in [Attempts -> Results \cup {NoFile}]
       /\ output'[attempt] = IF profile = "ocr" THEN NoFile ELSE output[attempt]
       /\ \A b \in Attempts : output'[b] = NoFile \/ output'[b] = output[b]
  BY <1>1, Types DEF StartChild, OutputBefore, Inv
<1>12. TypeOK'
  BY <1>1, <1>8, <1>9, <1>10, <1>11 DEF Inv, TypeOK, TaskRow, ChildRow
<1>13. FilesInv'
  <2> SUFFICES ASSUME NEW b \in Attempts
      PROVE  /\ b > attempt => child'[b].at = "none" /\ output'[b] = NoFile
             /\ child'[b].at # "none" => OfProfile(child'[b].backend)
             /\ output'[b] # NoFile => output'[b].by = b /\ OfProfile(output'[b].backend)
    BY <1>1 DEF FilesInv, OfProfile
  <2>1. /\ output'[b] # NoFile => output'[b].by = b /\ OfProfile(output'[b].backend)
        /\ b > attempt => output'[b] = NoFile
    BY <1>11 DEF Inv, FilesInv
  <2>2. CASE b # attempt
    BY <2>1, <2>2, <1>10 DEF Inv, FilesInv
  <2>3. CASE b = attempt
    <3>1. ~(b > attempt)
      BY <2>3, Types DEF Inv
    <3> QED
      BY <3>1, <2>1, <2>3, <1>3, <1>7, <1>10
  <2> QED
    BY <2>2, <2>3
<1>14. TaskInv'
  BY <1>1, <1>8, <1>9 DEF Inv, TaskInv, Own, Wanted
<1>15. WaitInv'
  <2>1. /\ child'[attempt].at = "checking" /\ child'[attempt].page = task'.page
        /\ child'[attempt].backend = task'.backend /\ task'.backend = backend
    BY <1>7, <1>8, <1>9, <1>10
  <2>2. profile = "ocr" => output'[attempt] = NoFile
    BY <1>11
  <2>3. backend = "structure" => Wanted(task.page)' = "structure" /\ task'.seen # NoFile
    BY <1>1, <1>3, <1>8, <1>9 DEF Wanted
  <2> QED
    BY <1>1, <2>1, <2>2, <2>3 DEF WaitInv
<1>16. PackagedIsOwn'
  BY <1>1, <1>8, <1>9 DEF Inv, PackagedIsOwn
<1>17. NothingRunsOn' /\ TransientIsRetried'
  BY <1>8, <1>9 DEF NothingRunsOn, TransientIsRetried, Ended
<1> QED
  BY <1>12, <1>13, <1>14, <1>15, <1>16, <1>17 DEF Inv

\* A step of the handler that starts no child, ends nothing and leaves the files alone
LEMMA HandlerKeeps ==
    ASSUME Inv, attempt \in Attempts,
           UNCHANGED <<hostVars, profile, complex, attempt, fileVars, faults, rejected>>,
           child[attempt].at \in {"none", "exited"},
           NEW t \in TaskRow, task' = t, t.at \in {"page", "complex", "parsed"},
           t.page \in t.pages,
           t.seen # NoFile => t.seen.by = attempt,
           t.base # NoFile => Own(t.base.of, t.base),
           t.at = "complex" => Wanted(t.page) = "structure" /\ t.seen # NoFile,
           t.at = "parsed" => t.seen # NoFile /\ Own(t.page, t.seen),
           \A packed \in t.packaged : Own(packed[1], packed[2])
    PROVE  Inv'
<1>1. UNCHANGED <<installed, marker, profile, complex, attempt, sandbox, output, child, faults,
                  rejected>>
  BY DEF hostVars, fileVars
<1>2. TypeOK'
  BY <1>1 DEF Inv, TypeOK, TaskRow
<1>3. FilesInv'
  BY <1>1 DEF Inv, FilesInv, OfProfile
<1>4. TaskInv'
  BY <1>1 DEF Inv, TaskInv, Wanted, Own
<1>5. PackagedIsOwn'
  BY <1>1 DEF PackagedIsOwn, Own, Wanted
<1>6. WaitInv' /\ NothingRunsOn' /\ TransientIsRetried'
  BY DEF WaitInv, NothingRunsOn, TransientIsRetried, Ended
<1> QED
  BY <1>2, <1>3, <1>4, <1>5, <1>6 DEF Inv

LEMMA ReadResultKeeps ==
    ASSUME Inv, ReadResult
    PROVE  Inv'
<1>1. /\ task.at = "waiting" /\ child[attempt].at = "exited" /\ child[attempt].code = "ok"
      /\ UNCHANGED <<hostVars, profile, complex, attempt, child, faults, rejected>>
      /\ attempt \in Attempts /\ task.at \in Running /\ task.page \in task.pages
  BY DEF ReadResult, Inv, TaskInv, Running
<1>2. /\ rejected \/ Delivered
      /\ child[attempt].at # "none" /\ child[attempt].backend = task.backend
      /\ task.backend = "structure" => Wanted(task.page) = "structure" /\ task.seen # NoFile
      /\ profile = "ocr" /\ output[attempt] # NoFile => output[attempt].of = task.page
  BY <1>1 DEF Inv, WaitInv
<1>3. OfProfile(task.backend) /\ task.backend \in Backends /\ task \in TaskRow
  BY <1>1, <1>2, Types, TaskFields DEF Inv, FilesInv
<1>4. PICK result : result = output[attempt]
  OBVIOUS
<1>5. /\ result \in Results \cup {NoFile}
      /\ result # NoFile => /\ result.by = attempt /\ OfProfile(result.backend)
  BY <1>1, <1>4, Types DEF Inv, FilesInv
<1>6. CASE Valid(result) /\ Agrees(result)
  <2>0. PICK at \in {"complex", "parsed"} : /\ at = IF TakesStructure THEN "complex" ELSE "parsed"
                                            /\ at = "complex" <=> TakesStructure
    BY DEF TakesStructure
  <2>1. PICK t : t = [task EXCEPT !.at = at, !.seen = result]
    OBVIOUS
  <2>2. /\ t \in TaskRow /\ t.at = at
        /\ t.seen = result /\ t.page = task.page /\ t.pages = task.pages
        /\ t.base = task.base /\ t.packaged = task.packaged
    BY <1>3, <1>5, <2>1 DEF TaskRow, Running
  <2>3. task' = t /\ UNCHANGED <<sandbox, output, child>>
    BY <1>1, <1>4, <1>6, <2>0, <2>1 DEF ReadResult
  <2>4. /\ result # NoFile /\ result.of = task.page
        /\ profile # "native" => result.backend = task.backend
    BY <1>2, <1>4, <1>6, Types DEF Valid, ValidNative, ValidOcr, Inv
  <2>5. TakesStructure => Wanted(task.page) = "structure"
    BY <1>3 DEF TakesStructure, IsComplex, Wanted, OfProfile
  <2>6. ~TakesStructure => result.backend = Wanted(task.page)
    <3>1. CASE profile = "native"
      BY <3>1, <1>5, <2>4 DEF OfProfile, Wanted
    <3>2. CASE profile # "native"
      <4>1. task.backend \in {"general", "structure"} /\ result.backend = task.backend
        BY <3>2, <1>3, <2>4 DEF OfProfile, Backends, OcrBackends
      <4>2. ASSUME ~TakesStructure, task.backend = "general"
            PROVE  Wanted(task.page) = "general"
        BY <4>2, <3>2 DEF TakesStructure, IsComplex, Wanted
      <4> QED
        BY <4>1, <4>2, <1>2
    <3> QED
      BY <3>1, <3>2
  <2>7. \A packed \in t.packaged : Own(packed[1], packed[2])
    BY <2>2 DEF Inv, PackagedIsOwn, Own, Wanted
  <2>8. t.base # NoFile => Own(t.base.of, t.base)
    BY <2>2 DEF Inv, TaskInv
  <2>9. t.at = "complex" => Wanted(t.page) = "structure" /\ t.seen # NoFile
    BY <2>0, <2>2, <2>4, <2>5
  <2>10. t.at = "parsed" => t.seen # NoFile /\ Own(t.page, t.seen)
    BY <1>5, <2>0, <2>2, <2>4, <2>6 DEF Own
  <2>11. UNCHANGED <<hostVars, profile, complex, attempt, fileVars, faults, rejected>>
    BY <1>1, <2>3 DEF fileVars
  <2>12. /\ t.at \in {"page", "complex", "parsed"} /\ t.page \in t.pages
         /\ t.seen # NoFile => t.seen.by = attempt
    BY <1>1, <1>5, <2>0, <2>2
  <2> QED
    BY <1>1, <2>2, <2>3, <2>7, <2>8, <2>9, <2>10, <2>11, <2>12, HandlerKeeps
<1>7. CASE ~(Valid(result) /\ Agrees(result))
  <2>1. EndFor("failed", result) /\ "failed" \in Ended \ {"crashed"} /\ Stops
    BY <1>1, <1>4, <1>7 DEF ReadResult, Ended, Stops
  <2>2. rejected \/ Disagree(task.seen, result)
    <3>1. ASSUME ~rejected PROVE Disagree(task.seen, result)
      <4>1. Delivered /\ Valid(result)
        BY <1>2, <1>4, <3>1 DEF Delivered, Valid, ValidNative, ValidOcr
      <4>2. task.seen # NoFile /\ result # NoFile /\ result.version # task.seen.version
        BY <1>2, <1>7, <4>1 DEF Agrees, Valid, ValidNative, ValidOcr
      <4>3. task.seen.by = attempt /\ result.by = attempt
        BY <4>2, <1>5 DEF Inv, TaskInv
      <4> QED
        BY <4>2, <4>3 DEF Disagree
    <3> QED
      BY <3>1
  <2>3. faults' \in 0 .. MaxFaults /\ rejected' \in BOOLEAN /\ rejected' = rejected
    BY <1>1, Unhurried
  <2> QED
    BY <1>1, <1>5, <2>1, <2>2, <2>3, EndForKeeps
<1> QED
  BY <1>6, <1>7

LEMMA PackagePageKeeps ==
    ASSUME Inv, PackagePage
    PROVE  Inv'
<1>1. /\ task.at = "parsed" /\ task.at \in Running /\ attempt \in Attempts
      /\ task.page \in task.pages /\ child[attempt].at \in {"none", "exited"}
      /\ UNCHANGED <<hostVars, profile, complex, attempt, child, faults, rejected>>
  BY DEF PackagePage, Running, Inv, TaskInv
<1>2. task.seen # NoFile /\ Own(task.page, task.seen)
  BY <1>1 DEF Inv, TaskInv, Own
<1>3. task \in TaskRow /\ task.page \in Pages /\ task.pages \in SUBSET Pages
      /\ task.seen \in Results
  BY <1>2, Types, TaskFields DEF Inv
<1>4. PICK base : base = IF task.base = NoFile THEN task.seen ELSE task.base
  OBVIOUS
<1>5. base \in Results /\ Own(base.of, base)
  <2>1. CASE task.base = NoFile
    BY <2>1, <1>1, <1>2, <1>3, <1>4 DEF Own
  <2>2. CASE task.base # NoFile
    BY <2>2, <1>3, <1>4, TaskFields DEF Inv, TaskInv
  <2> QED
    BY <2>1, <2>2
<1>6. PICK done : done = task.packaged \cup {<<task.page, task.seen>>}
  OBVIOUS
<1>7. /\ done \in SUBSET (Pages \X Results)
      /\ \A packed \in done : Own(packed[1], packed[2])
  <2>1. task.packaged \in SUBSET (Pages \X Results)
    BY <1>3, TaskFields
  <2>2. \A packed \in task.packaged : Own(packed[1], packed[2])
    BY DEF Inv, PackagedIsOwn, Own, Wanted
  <2> QED
    BY <1>2, <1>3, <1>6, <2>1, <2>2
<1>8. CASE Remaining = {}
  <2>1. PICK t : t = [[task EXCEPT !.packaged = @ \cup {<<task.page, task.seen>>},
                                   !.base = IF @ = NoFile THEN task.seen ELSE @]
                      EXCEPT !.at = "done"]
    OBVIOUS
  <2>2. /\ t \in TaskRow /\ t.at = "done" /\ t.pages = task.pages /\ t.seen = task.seen
        /\ t.base = base /\ t.packaged = done
    BY <1>3, <1>4, <1>5, <1>6, <1>7, <2>1 DEF TaskRow, Ended
  <2>3. /\ task' = t /\ sandbox' = [sandbox EXCEPT ![attempt] = "removed"]
        /\ output' = [output EXCEPT ![attempt] = NoFile]
    BY <1>8, <2>1 DEF PackagePage
  <2>4. Stops /\ faults' \in 0 .. MaxFaults /\ rejected' \in BOOLEAN
    BY <1>1, Unhurried DEF Stops
  <2>5. t.at \in Ended \ {"crashed"} /\ t.at # "failed"
    BY <2>2 DEF Ended
  <2> QED
    BY <1>1, <1>5, <1>7, <2>2, <2>3, <2>4, <2>5, EndKeeps
<1>9. CASE Remaining # {}
  <2>1. PICK next : next = CHOOSE p \in Remaining : \A q \in Remaining : p <= q
    OBVIOUS
  <2>2. next \in Remaining /\ next \in task.pages /\ next \in Pages
    <3>1. Remaining \subseteq task.pages /\ task.pages \subseteq Pages /\ Pages \subseteq Nat
      BY <1>3, BoundsOK DEF Remaining, Pages
    <3>2. next \in Remaining
      BY <1>9, <2>1, <3>1, Least
    <3> QED
      BY <3>1, <3>2
  <2>3. PICK t : t = [[task EXCEPT !.packaged = @ \cup {<<task.page, task.seen>>},
                                   !.base = IF @ = NoFile THEN task.seen ELSE @]
                      EXCEPT !.at = "page", !.page = next]
    OBVIOUS
  <2>4. /\ t \in TaskRow /\ t.at = "page" /\ t.pages = task.pages /\ t.seen = task.seen
        /\ t.base = base /\ t.packaged = done /\ t.page = next
    BY <1>3, <1>4, <1>5, <1>6, <1>7, <2>2, <2>3 DEF TaskRow, Running
  <2>5. task' = t /\ UNCHANGED <<sandbox, output>>
    BY <1>9, <2>1, <2>3 DEF PackagePage
  <2>6. UNCHANGED <<hostVars, profile, complex, attempt, fileVars, faults, rejected>>
    BY <1>1, <2>5 DEF fileVars
  <2> QED
    BY <1>1, <1>2, <1>5, <1>7, <2>2, <2>4, <2>5, <2>6, HandlerKeeps DEF Own
<1> QED
  BY <1>8, <1>9

-----------------------------------------------------------------------------
(* 6. The theorems                                                         *)

LEMMA InvNext == Inv /\ [Next]_vars => Inv'
<1> SUFFICES ASSUME Inv, [Next]_vars PROVE Inv'
  OBVIOUS
<1>1. CASE HostStep
  BY <1>1, HostKeeps
<1>2. CASE ChildStep
  BY <1>2, ChildKeeps DEF ChildStep
<1>3. CASE WorkerStep
  BY <1>3, StartChildKeeps, GivenUpKeeps, ChildFailedKeeps, ReadResultKeeps,
     PackagePageKeeps, RefusePageKeeps DEF WorkerStep
<1>4. CASE Begin \/ PreparationFails \/ Hinder \/ Cancel \/ Die
  BY <1>4, BeginKeeps, PreparationKeeps, GivenUpKeeps, DieKeeps
<1>5. CASE UNCHANGED vars
  <2>1. UNCHANGED <<profile, complex, installed, marker, attempt, task, sandbox, output,
                    child, faults, rejected>>
    BY <1>5 DEF vars, hostVars, taskVars, fileVars
  <2>2. TypeOK' /\ FilesInv' /\ TaskInv'
    BY <2>1 DEF Inv, TypeOK, FilesInv, OfProfile, TaskInv, Own, Wanted
  <2>3. WaitInv' /\ PackagedIsOwn' /\ NothingRunsOn' /\ TransientIsRetried'
    BY <2>1 DEF Inv, WaitInv, Delivered, Wanted, PackagedIsOwn, NothingRunsOn,
                TransientIsRetried, Disagree
  <2> QED
    BY <2>2, <2>3 DEF Inv
<1> QED
  BY <1>1, <1>2, <1>3, <1>4, <1>5 DEF Next

\* Host, children and handler keep their types, however often a task is begun again.
THEOREM TypeCorrect == Spec => []TypeOK
<1>1. Inv => TypeOK
  BY DEF Inv
<1> QED
  BY InvInit, InvNext, <1>1, PTL DEF Spec

\* The page that is packaged is the one that was asked for, made by a child of this
\* attempt with the backend the page needs (_run_backend, ocr_subprocess.py).
THEOREM PackagesAreOwn == Spec => []PackagedIsOwn
<1>1. Inv => PackagedIsOwn
  BY DEF Inv
<1> QED
  BY InvInit, InvNext, <1>1, PTL DEF Spec

\* No child and no directory outlives its attempt, on any way out of it
\* (SandboxedProcessRunner.run, SandboxManager.create).
THEOREM AttemptsCleanUp == Spec => []NothingRunsOn
<1>1. Inv => NothingRunsOn
  BY DEF Inv
<1> QED
  BY InvInit, InvNext, <1>1, PTL DEF Spec

\* Only a refusal, or a result that disagrees with another of the attempt, fails a
\* document for good, whatever dies, is late or is upgraded (TaskExecutionError.retryable).
THEOREM TransientErrorsAreRetried == Spec => []TransientIsRetried
<1>1. Inv => TransientIsRetried
  BY DEF Inv
<1> QED
  BY InvInit, InvNext, <1>1, PTL DEF Spec
=============================================================================
