--------------------------- MODULE QueryRunProofs ---------------------------
(***************************************************************************)
(* Proofs about QueryRun, for any documents, queries and bounds.  Section  *)
(* 1 proves the type invariant, section 2 the inductive invariant, section *)
(* 3 what an answer promises, section 4 that QueryRun implements           *)
(* SearchableCourse.                                                       *)
(***************************************************************************)
EXTENDS QueryRun, TLAPS

-----------------------------------------------------------------------------
(* 1. Types                                                                *)

LEMMA Rows ==
    ASSUME NEW r \in QueryRow, NEW e \in SUBSET Evidence, NEW s \in Status,
           NEW m \in Manifests \cup {0}, NEW f \in SUBSET Evidence
    PROVE  /\ [r EXCEPT !.status = s] \in QueryRow
           /\ [r EXCEPT !.trace = m] \in QueryRow
           /\ [r EXCEPT !.payload = e, !.index = m] \in QueryRow
           /\ [r EXCEPT !.status = s, !.citations = e, !.quotes = e] \in QueryRow
BY DEF QueryRow

LEMMA Requests ==
    ASSUME NEW c \in Request, NEW pc \in InFlight, NEW e \in SUBSET Evidence,
           NEW o \in {"answered", "abstained", "failed"}, NEW m \in Manifests \cup {0}
    PROVE  LET new == [c EXCEPT !.pc = pc] IN
           /\ new \in Request
           /\ [new EXCEPT !.index = m] \in Request
           /\ [new EXCEPT !.index = 0, !.seen = {}] \in Request
           /\ [new EXCEPT !.seen = e] \in Request
           /\ [new EXCEPT !.lexical = 0] \in Request
           /\ [new EXCEPT !.lexical = m, !.seen = @ \cup e] \in Request
           /\ [new EXCEPT !.candidates = e, !.seen = {}] \in Request
           /\ [new EXCEPT !.outcome = o] \in Request
           /\ [new EXCEPT !.outcome = o, !.cited = e] \in Request
BY DEF Request

LEMMA Moved ==
    ASSUME TypeOK, NEW q \in Queries, NEW pc \in InFlight
    PROVE  LET new == Moves(q, pc) IN
           /\ new \in Request /\ new.pc = pc
           /\ new.index = call[q].index /\ new.lexical = call[q].lexical
           /\ new.seen = call[q].seen /\ new.candidates = call[q].candidates
           /\ new.outcome = call[q].outcome /\ new.cited = call[q].cited
<1>1. call[q] \in Request
  BY DEF TypeOK
<1> QED
  BY <1>1 DEF Request, Moves

LEMMA Ends ==
    /\ Lost \in Request
    /\ [NoCall EXCEPT !.pc = "done"] \in Request
BY DEF Request, Lost, NoCall

\* The generation has an outcome before it is saved.
Decided == \A q \in Queries :
    call[q].pc \in {"drafted", "settled"} => call[q].outcome # "none"

LEMMA TypeInit == Init => TypeOK /\ Decided
BY BoundsOK DEF Init, TypeOK, Decided, NoRow, NoCall, QueryRow, Request, Status, Evidence, Manifests

\* The steps of a request leave the documents and the indexes alone.
LEMMA CallTypes ==
    ASSUME TypeOK, Decided, NEW q \in Queries, Ask(q) \/ CallStep(q)
    PROVE  TypeOK'
<1> USE DEF At
<1>1. /\ row[q] \in QueryRow /\ call[q] \in Request
      /\ DOMAIN contents \subseteq Manifests
  BY BoundsOK DEF TypeOK, Manifests
<1>2. /\ active \in Manifests \cup {0}
      /\ active # 0 => active \in DOMAIN contents /\ contents[active] \in SUBSET Evidence
  BY <1>1 DEF TypeOK
<1>3. SUFFICES /\ row' \in [Queries -> QueryRow] /\ call' \in [Queries -> Request]
               /\ cached' \subseteq DOMAIN contents /\ UNCHANGED <<docVars, indexVars>>
  BY DEF TypeOK, docVars, indexVars
<1>4. CASE Ask(q)
  BY <1>1, <1>4, Rows, Requests DEF Ask, TypeOK, Moves, InFlight, Status
<1>5. CASE StartRetrieval(q)
  BY <1>1, <1>5, Rows, Requests DEF StartRetrieval, TypeOK, Moves, InFlight, Status
<1>6. CASE FindIndex(q)
  <2>1. /\ NoIndex(q) \in Request
        /\ [Moves(q, "found") EXCEPT !.index = active] \in Request
    BY <1>1, <1>2, Requests DEF Moves, NoIndex, InFlight
  <2>2. /\ call' = [call EXCEPT ![q] = IF active = 0 THEN NoIndex(q)
                                        ELSE [Moves(q, "found") EXCEPT !.index = active]]
        /\ UNCHANGED <<docVars, indexVars, cached, row>>
    BY <1>6 DEF FindIndex
  <2> QED
    BY <2>1, <2>2 DEF TypeOK
<1>7. CASE ReadDense(q)
  <2>1. [Moves(q, "dense") EXCEPT !.seen = Current] \in Request
    BY <1>1, Requests DEF Moves, InFlight, Current
  <2>2. /\ call' = [call EXCEPT ![q] = [Moves(q, "dense") EXCEPT !.seen = Current]]
        /\ UNCHANGED <<docVars, indexVars, cached, row>>
    BY <1>7 DEF ReadDense
  <2> QED
    BY <2>1, <2>2 DEF TypeOK
<1>8. CASE EmbedFails(q)
  BY <1>1, <1>8, Requests DEF EmbedFails, TypeOK, Moves, InFlight
<1>9. CASE ReadLexical(q)
  <2>1. NoIndex(q) \in Request
    BY <1>1, Requests DEF NoIndex, Moves, InFlight
  <2>2. active # 0 =>
           [Moves(q, "lexical") EXCEPT !.lexical = active,
                                       !.seen = @ \cup contents[active]] \in Request
    BY <1>1, <1>2, Requests DEF Moves, InFlight
  <2>3. call' \in [Queries -> Request]
    BY <1>9, <2>1, <2>2, Ends DEF ReadLexical, TypeOK
  <2>4. cached' \subseteq DOMAIN contents /\ UNCHANGED <<docVars, indexVars, row>>
    BY <1>2, <1>9 DEF ReadLexical, TypeOK
  <2> QED
    BY <2>3, <2>4 DEF TypeOK
<1>10. CASE SaveTrace(q)
  <2>1. [Moves(q, "traced") EXCEPT !.lexical = 0] \in Request
    BY <1>1, Requests DEF Moves, InFlight
  <2>2. call' \in [Queries -> Request] /\ UNCHANGED <<docVars, indexVars, cached>>
    BY <1>10, <2>1, Ends DEF SaveTrace, TypeOK
  <2>3. row' \in [Queries -> QueryRow]
    <3>1. call[q].lexical \in Manifests \cup {0}
      BY <1>1 DEF Request
    <3>2. [row[q] EXCEPT !.trace = call[q].lexical] \in QueryRow
      BY <1>1, <3>1 DEF QueryRow
    <3> QED
      BY <1>10, <3>2 DEF SaveTrace, TypeOK
  <2> QED
    BY <2>2, <2>3 DEF TypeOK
<1>11. CASE Authorize(q)
  <2>1. PICK chosen \in SUBSET (call[q].seen \cap Current) :
           call' = [call EXCEPT ![q] = [Moves(q, "retrieved") EXCEPT !.candidates = chosen,
                                                                     !.seen = {}]]
    BY <1>11 DEF Authorize
  <2>2. [Moves(q, "retrieved") EXCEPT !.candidates = chosen, !.seen = {}] \in Request
    BY <1>1, Requests DEF Moves, InFlight, Current
  <2> QED
    BY <1>11, <2>1, <2>2 DEF Authorize, TypeOK
<1>12. CASE SaveRetrieval(q)
  <2>1. call[q].candidates \in SUBSET Evidence /\ call[q].index \in Manifests \cup {0}
    BY <1>1 DEF Request
  <2>2. [row[q] EXCEPT !.payload = call[q].candidates, !.index = call[q].index] \in QueryRow
    BY <1>1, <2>1 DEF QueryRow
  <2>3. row' \in [Queries -> QueryRow]
    BY <1>12, <2>2 DEF SaveRetrieval, TypeOK
  <2>4. \A pc \in {"generating", "saved"} : Moves(q, pc) \in Request
    BY <1>1, Requests DEF Moves, InFlight
  <2>5. call' \in [Queries -> Request]
    BY <1>12, <2>4 DEF SaveRetrieval, TypeOK
  <2> QED
    BY <1>12, <2>3, <2>5 DEF SaveRetrieval, TypeOK
<1>13. CASE StartGeneration(q)
  BY <1>1, <1>13, Rows, Requests DEF StartGeneration, TypeOK, Moves, InFlight, Status
<1>14. CASE Generate(q)
  <2>1. \E new \in Request : call' = [call EXCEPT ![q] = new]
    <3>1. CASE call' = [call EXCEPT ![q] = [Moves(q, "settled") EXCEPT !.outcome = "abstained"]]
      BY <1>1, <3>1, Requests DEF Moves, InFlight
    <3>2. CASE call' = [call EXCEPT ![q] = [Moves(q, "settled") EXCEPT !.outcome = "failed"]]
      BY <1>1, <3>2, Requests DEF Moves, InFlight
    <3>3. ASSUME NEW cited \in (SUBSET call[q].candidates) \ {{}},
                 call' = [call EXCEPT ![q] = [Moves(q, "drafted") EXCEPT
                                                   !.outcome = "answered", !.cited = cited]]
          PROVE  \E new \in Request : call' = [call EXCEPT ![q] = new]
      <4>1. cited \in SUBSET Evidence
        BY <1>1 DEF Request
      <4> QED
        BY <1>1, <3>3, <4>1, Requests DEF Moves, InFlight
    <3> QED
      BY <1>14, <3>1, <3>2, <3>3 DEF Generate
  <2> QED
    BY <1>14, <2>1 DEF Generate, TypeOK
<1>15. CASE CheckSources(q)
  <2>1. \E new \in Request : call' = [call EXCEPT ![q] = new]
    BY <1>1, <1>15, Requests DEF CheckSources, Moves, InFlight
  <2> QED
    BY <1>15, <2>1 DEF CheckSources, TypeOK
<1>16. CASE Finalize(q)
  <2> DEFINE cited == IF Resolved(q) = "answered" THEN call[q].cited ELSE {}
             new == [row[q] EXCEPT !.status = Resolved(q), !.citations = cited,
                                   !.quotes = cited]
  <2>1. Resolved(q) \in Status /\ cited \in SUBSET Evidence
    BY <1>1, <1>16 DEF Finalize, Decided, Resolved, Request, Status
  <2>2. new \in QueryRow
    BY <1>1, <2>1, Rows
  <2>3. row' = row \/ row' = [row EXCEPT ![q] = new]
    BY <1>16 DEF Finalize
  <2>4. row' \in [Queries -> QueryRow]
    BY <2>2, <2>3 DEF TypeOK
  <2> QED
    BY <1>16, <2>4, Ends DEF Finalize, TypeOK
<1> QED
  BY <1>4, <1>5, <1>6, <1>7, <1>8, <1>9, <1>10, <1>11, <1>12, <1>13, <1>14, <1>15, <1>16
     DEF CallStep

LEMMA CallDecides ==
    ASSUME TypeOK, Decided, NEW q \in Queries, Ask(q) \/ CallStep(q)
    PROVE  Decided'
<1>1. /\ call[q] \in Request /\ call \in [Queries -> Request]
      /\ call[q].pc = "drafted" => call[q].outcome # "none"
  BY DEF TypeOK, Decided
<1>2. SUFFICES /\ call'[q].pc \in {"drafted", "settled"} => call'[q].outcome # "none"
               /\ \A p \in Queries \ {q} : call'[p] = call[p]
  BY <1>1 DEF Decided
<1>3. CASE Ask(q) \/ StartRetrieval(q) \/ SaveRetrieval(q) \/ StartGeneration(q)
  BY <1>1, <1>3, Moved
     DEF Ask, StartRetrieval, SaveRetrieval, StartGeneration, InFlight
<1>4. CASE FindIndex(q)
  BY <1>1, <1>4, Moved DEF FindIndex, Request, NoIndex, InFlight
<1>5. CASE ReadDense(q)
  BY <1>1, <1>5 DEF ReadDense, Request, Moves
<1>6. CASE EmbedFails(q)
  BY <1>1, <1>6 DEF EmbedFails, Request, Moves
<1>7. CASE ReadLexical(q)
  BY <1>1, <1>7, Moved DEF ReadLexical, Request, NoIndex, Lost, NoCall, InFlight
<1>8. CASE SaveTrace(q)
  BY <1>1, <1>8 DEF SaveTrace, Request, Moves, Lost, NoCall
<1>9. CASE Authorize(q)
  BY <1>1, <1>9 DEF Authorize, Request, Moves
<1>10. CASE Generate(q)
  <2>1. CASE call' = [call EXCEPT ![q] = [Moves(q, "settled") EXCEPT !.outcome = "abstained"]]
    BY <1>1, <2>1 DEF Request, Moves
  <2>2. CASE call' = [call EXCEPT ![q] = [Moves(q, "settled") EXCEPT !.outcome = "failed"]]
    BY <1>1, <2>2 DEF Request, Moves
  <2>3. ASSUME NEW cited,
               call' = [call EXCEPT ![q] = [Moves(q, "drafted") EXCEPT
                                                 !.outcome = "answered", !.cited = cited]]
        PROVE  /\ call'[q].outcome # "none"
               /\ \A p \in Queries \ {q} : call'[p] = call[p]
    BY <1>1, <2>3 DEF Request, Moves
  <2> QED
    BY <1>10, <2>1, <2>2, <2>3 DEF Generate
<1>11. CASE CheckSources(q)
  BY <1>1, <1>11, Moved DEF CheckSources, At, Request, InFlight
<1>12. CASE Finalize(q)
  BY <1>1, <1>12 DEF Finalize, Request, NoCall
<1> QED
  BY <1>3, <1>4, <1>5, <1>6, <1>7, <1>8, <1>9, <1>10, <1>11, <1>12 DEF CallStep

\* The documents, the indexes and the process
LEMMA OtherTypes ==
    ASSUME TypeOK, Decided,
           \/ \E d \in Docs : Switch(d) \/ Delete(d) \/ CleanupStep(d)
           \/ Crash
           \/ UNCHANGED vars
    PROVE  TypeOK' /\ Decided'
<1>1. CASE \E d \in Docs : Switch(d)
  <2>1. PICK d \in Docs : Switch(d)
    BY <1>1
  <2>2. PICK r \in {rev[d], rev[d] + 1} \cap 1..MaxRev :
           /\ rev' = [rev EXCEPT ![d] = r]
           /\ Len(contents) < MaxManifest
           /\ contents' = Append(contents, {e \in Evidence : rev'[e[1]] = e[2]})
           /\ active' = Len(contents')
           /\ manifests' = manifests \cup {active'}
           /\ directories' = directories \cup {active'}
           /\ UNCHANGED <<deletion, cached, row, call>>
    BY <2>1 DEF Switch
  <2> DEFINE new == {e \in Evidence : rev'[e[1]] = e[2]}
  <2>3. new \in SUBSET Evidence
    OBVIOUS
  <2> HIDE DEF new
  <2>4. /\ contents' \in Seq(SUBSET Evidence)
        /\ Len(contents') = Len(contents) + 1 /\ Len(contents) \in Nat
        /\ DOMAIN contents = 1..Len(contents) /\ DOMAIN contents' = 1..Len(contents')
    BY <2>2, <2>3 DEF TypeOK, new
  <2>5. Len(contents') <= MaxManifest
    BY BoundsOK, <2>2, <2>4
  <2>6. rev' \in [Docs -> 0..MaxRev]
    BY BoundsOK, <2>2 DEF TypeOK
  <2>7. /\ manifests' \subseteq DOMAIN contents' /\ directories' \subseteq DOMAIN contents'
        /\ active' \in manifests' \cup {0} /\ cached' \subseteq DOMAIN contents'
    BY <2>2, <2>4 DEF TypeOK
  <2> QED
    BY <2>2, <2>4, <2>5, <2>6, <2>7 DEF TypeOK, Decided
<1>2. CASE \E d \in Docs : Delete(d)
  <2>1. PICK d \in Docs :
          /\ rev' = [rev EXCEPT ![d] = 0] /\ deletion' = [deletion EXCEPT ![d] = "pending"]
          /\ UNCHANGED <<contents, manifests, directories, active, cached, row, call>>
    BY <1>2 DEF Delete, indexVars
  <2>2. rev' \in [Docs -> 0..MaxRev]
    BY <2>1, BoundsOK DEF TypeOK
  <2> QED
    BY <2>1, <2>2 DEF TypeOK, Decided
<1>3. CASE \E d \in Docs : Cleanup(d)
  <2>1. PICK d \in Docs : Cleanup(d)
    BY <1>3
  <2>2. ASSUME NEW q \in Queries PROVE Purged(row[q], d) \in QueryRow
    <3> DEFINE kept == [row[q] EXCEPT !.payload = Without(@, d), !.quotes = Without(@, d)]
    <3>1. row[q] \in QueryRow
      BY DEF TypeOK
    <3>2. kept \in QueryRow
      BY <3>1 DEF QueryRow, Without
    <3>3. [kept EXCEPT !.status = "invalidated", !.citations = {}] \in QueryRow
      BY <3>2 DEF QueryRow, Status
    <3> QED
      BY <3>1, <3>3 DEF Purged
  <2>3. /\ row' \in [Queries -> QueryRow]
        /\ deletion' \in [Docs -> {"none", "pending", "retry_wait", "completed"}]
    BY <2>1, <2>2 DEF Cleanup, TypeOK
  <2>4. active' \in manifests' \cup {0}
    BY <2>1 DEF Cleanup, TypeOK, ActiveAfter
  <2> QED
    BY <2>1, <2>3, <2>4 DEF Cleanup, TypeOK, Decided
<1>4. CASE \E d \in Docs : CleanupRollsBack(d)
  BY <1>4 DEF CleanupRollsBack, TypeOK, Decided
<1>5. CASE Crash
  BY <1>5, Ends DEF Crash, TypeOK, Decided, Lost, NoCall, docVars, indexVars
<1>6. CASE UNCHANGED vars
  BY <1>6 DEF vars, docVars, indexVars, TypeOK, Decided
<1> QED
  BY <1>1, <1>2, <1>3, <1>4, <1>5, <1>6 DEF CleanupStep

LEMMA TypeStep == TypeOK /\ Decided /\ [Next]_vars => TypeOK' /\ Decided'
BY CallTypes, CallDecides, OtherTypes DEF Next

\* Every variable keeps its type, for any documents, questions and bounds.
THEOREM TypeCorrect == Spec => []TypeOK
<1>1. Spec => [](TypeOK /\ Decided)
  BY TypeInit, TypeStep, PTL DEF Spec
<1> QED
  BY <1>1, PTL

-----------------------------------------------------------------------------
(* 2. The inductive invariant                                              *)

\* No evidence is of a revision that its document has yet to reach.
Reached(evidence) == \A e \in evidence : e[2] <= rev[e[1]] \/ Deleted(e[1])

\* The course searches the newest index or none, and it holds every active revision.  A
\* document whose cleanup is complete is in no manifest.
IndexInv ==
    /\ \A d \in Docs : Deleted(d) => rev[d] = 0
    /\ active # 0 => active = Len(contents) /\ Current \subseteq contents[active]
    /\ \A m \in DOMAIN contents : Reached(contents[m])
    /\ \A d \in Docs : deletion[d] = "completed" => Affected(d) = {}

\* What is stored of a query comes from the manifest that its trace protects.
RowInv(q) ==
    /\ row[q].trace # 0 => row[q].trace \in manifests
    /\ row[q].payload \cup row[q].citations \cup row[q].quotes # {} =>
          /\ row[q].trace # 0
          /\ row[q].payload \cup row[q].citations \cup row[q].quotes
                \subseteq contents[row[q].trace]
    /\ row[q].status = "answered" =>
          /\ call[q].pc = "done"
          /\ row[q].index # 0 /\ row[q].index = row[q].trace

BeforeTrace == {"none", "created", "started", "found", "dense", "lexical"}

\* A request holds evidence only of the manifest of its trace, and its two readings of
\* the course pointer are in order.
CallInv(q) ==
    /\ Reached(call[q].seen)
    /\ call[q].pc \in BeforeTrace => row[q].trace = 0
    /\ call[q].pc \in BeforeTrace \cup {"traced"} => call[q].candidates = {}
    /\ call[q].pc \in {"found", "dense", "lexical", "traced"} => call[q].index # 0
    /\ call[q].pc \in {"found", "dense"} => call[q].index <= Len(contents)
    /\ call[q].pc = "lexical" =>
          /\ call[q].lexical \in DOMAIN contents /\ call[q].index <= call[q].lexical
          /\ call[q].seen \cap Current \subseteq contents[call[q].lexical]
    /\ call[q].pc = "traced" =>
          /\ row[q].trace # 0 /\ call[q].index <= row[q].trace
          /\ call[q].seen \cap Current \subseteq contents[row[q].trace]
    /\ call[q].candidates # {} =>
          /\ row[q].trace # 0 /\ call[q].index # 0 /\ call[q].index <= row[q].trace
          /\ call[q].candidates \subseteq contents[row[q].trace]
          /\ call[q].pc \notin {"traced", "retrieved"} => row[q].index = call[q].index
    /\ call[q].cited \subseteq call[q].candidates

IInv == TypeOK /\ IndexInv /\ \A q \in Queries : RowInv(q) /\ CallInv(q)

LEMMA InvInit == Init => IndexInv /\ \A q \in Queries : RowInv(q) /\ CallInv(q)
<1> SUFFICES ASSUME Init PROVE IndexInv /\ \A q \in Queries : RowInv(q) /\ CallInv(q)
  OBVIOUS
<1>1. IndexInv
  BY DEF Init, IndexInv, Deleted, Reached
<1>2. \A q \in Queries : RowInv(q) /\ CallInv(q)
  BY DEF Init, RowInv, CallInv, Reached, NoRow, NoCall
<1> QED
  BY <1>1, <1>2

\* What a request holds, from one step to the next
Carries(new, old) ==
    /\ new.index = old.index /\ new.candidates = old.candidates /\ new.cited = old.cited

LEMMA Frame ==
    ASSUME NEW p \in Queries, RowInv(p), CallInv(p),
           UNCHANGED <<docVars, indexVars>>, row'[p] = row[p], call'[p] = call[p]
    PROVE  RowInv(p)' /\ CallInv(p)'
BY DEF RowInv, CallInv, Reached, Current, Deleted, docVars, indexVars

LEMMA IndexFrame ==
    ASSUME IndexInv, UNCHANGED <<docVars, indexVars>>
    PROVE  IndexInv'
BY DEF IndexInv, Reached, Current, Deleted, Affected, docVars, indexVars

\* The steps of a request
LEMMA CallKeeps ==
    ASSUME IInv, Decided, TypeOK', NEW q \in Queries, Ask(q) \/ CallStep(q)
    PROVE  IndexInv' /\ \A p \in Queries : RowInv(p)' /\ CallInv(p)'
<1>1. /\ UNCHANGED <<docVars, indexVars>>
      /\ \A p \in Queries \ {q} : row'[p] = row[p] /\ call'[p] = call[p]
  BY DEF IInv, TypeOK, CallStep, Ask, StartRetrieval, FindIndex, ReadDense, EmbedFails,
         ReadLexical, SaveTrace, Authorize, SaveRetrieval, StartGeneration, Generate,
         CheckSources, Finalize
<1>2. SUFFICES RowInv(q)' /\ CallInv(q)'
  BY <1>1, Frame, IndexFrame DEF IInv
<1>3. /\ row \in [Queries -> QueryRow] /\ call \in [Queries -> Request]
      /\ row[q] \in QueryRow /\ call[q] \in Request
      /\ IndexInv /\ RowInv(q) /\ CallInv(q)
  BY DEF IInv, TypeOK
<1>4. /\ UNCHANGED <<rev, deletion, contents, manifests, active>>
      /\ Current' = Current /\ \A e : Reached(e)' <=> Reached(e)
  BY <1>1 DEF docVars, indexVars, Current, Reached, Deleted
<1>5. CASE Ask(q)
  BY <1>3, <1>4, <1>5
     DEF Ask, At, Moves, RowInv, CallInv, BeforeTrace, QueryRow, Request
<1>6. CASE StartRetrieval(q)
  BY <1>3, <1>4, <1>6
     DEF StartRetrieval, At, Moves, RowInv, CallInv, BeforeTrace, QueryRow, Request
<1>7. CASE FindIndex(q)
  BY <1>3, <1>4, <1>7
     DEF FindIndex, At, Moves, NoIndex, RowInv, CallInv, BeforeTrace, QueryRow, Request,
         IndexInv, Reached
<1>8. CASE ReadDense(q)
  <2>1. Reached(Current)
    BY DEF IInv, TypeOK, Reached, Current, Evidence
  <2>2. call'[q] = [Moves(q, "dense") EXCEPT !.seen = Current] /\ row' = row
    BY <1>3, <1>8 DEF ReadDense
  <2> QED
    BY <1>3, <1>4, <1>8, <2>1, <2>2
       DEF ReadDense, At, Moves, RowInv, CallInv, BeforeTrace, Request
<1>9. CASE EmbedFails(q)
  BY <1>3, <1>4, <1>9 DEF EmbedFails, At, Moves, RowInv, CallInv, BeforeTrace, Request
<1>10. CASE ReadLexical(q)
  <2>1. CASE active = 0
    BY <1>3, <1>4, <1>10, <2>1
       DEF ReadLexical, At, Moves, NoIndex, RowInv, CallInv, BeforeTrace, Request, Reached
  <2>2. CASE active # 0 /\ active \notin directories \cup cached
    <3>1. /\ call' = [call EXCEPT ![q] = Lost] /\ row' = row
          /\ call[q].pc = "dense"
      BY <1>10, <2>2 DEF ReadLexical, At
    <3>2. /\ Lost.pc = "lost" /\ Lost.seen = {} /\ Lost.candidates = {} /\ Lost.cited = {}
      BY DEF Lost, NoCall
    <3>3. RowInv(q)'
      BY <1>3, <1>4, <3>1 DEF RowInv
    <3>4. CallInv(q)'
      BY <1>3, <3>1, <3>2 DEF CallInv, BeforeTrace, Reached
    <3> QED
      BY <3>3, <3>4
  <2>3. CASE active # 0 /\ active \in directories \cup cached
    <3>1. /\ call'[q] = [Moves(q, "lexical") EXCEPT !.lexical = active,
                                                    !.seen = @ \cup contents[active]]
          /\ row' = row
      BY <1>3, <1>10, <2>3 DEF ReadLexical
    <3>2. /\ active \in DOMAIN contents /\ active = Len(contents)
          /\ Current \subseteq contents[active] /\ Reached(contents[active])
      BY <1>3, <2>3 DEF IndexInv, IInv, TypeOK
    <3>3. Reached(call[q].seen \cup contents[active])
      BY <1>3, <3>2 DEF CallInv, Reached
    <3>4. /\ call'[q].pc = "lexical" /\ call'[q].index = call[q].index
          /\ call'[q].lexical = active /\ call'[q].seen = call[q].seen \cup contents[active]
          /\ call'[q].candidates = call[q].candidates /\ call'[q].cited = call[q].cited
      BY <1>3, <3>1 DEF Moves, Request
    <3>5. call[q].pc = "dense"
      BY <1>10 DEF ReadLexical, At
    <3>6. RowInv(q)'
      BY <1>3, <1>4, <3>1, <3>4, <3>5 DEF RowInv
    <3>7. CallInv(q)'
      BY <1>3, <1>4, <3>1, <3>2, <3>3, <3>4, <3>5 DEF CallInv, BeforeTrace
    <3> QED
      BY <3>6, <3>7
  <2> QED
    BY <2>1, <2>2, <2>3
<1>11. CASE SaveTrace(q)
  <2>1. CASE call[q].lexical \in manifests
    <3>1. /\ row'[q] = [row[q] EXCEPT !.trace = call[q].lexical]
          /\ call'[q] = [Moves(q, "traced") EXCEPT !.lexical = 0]
      BY <1>3, <1>11, <2>1 DEF SaveTrace
    <3>2. /\ call'[q].pc = "traced" /\ Carries(call'[q], call[q])
          /\ call'[q].seen = call[q].seen
      BY <1>3, <3>1 DEF Moves, Request, Carries
    <3>3. /\ row'[q].trace = call[q].lexical /\ row'[q].payload = row[q].payload
          /\ row'[q].citations = row[q].citations /\ row'[q].quotes = row[q].quotes
          /\ row'[q].status = row[q].status
      BY <1>3, <3>1 DEF QueryRow
    <3>4. /\ call[q].pc = "lexical" /\ row[q].trace = 0 /\ call[q].lexical # 0
      BY <1>3, <1>11 DEF SaveTrace, At, CallInv, BeforeTrace, IInv, TypeOK
    <3>5. /\ row[q].payload \cup row[q].citations \cup row[q].quotes = {}
          /\ row[q].status # "answered" /\ call[q].candidates = {}
      BY <1>3, <3>4 DEF RowInv, CallInv
    <3>6. RowInv(q)'
      BY <1>4, <2>1, <3>3, <3>4, <3>5 DEF RowInv
    <3> QED
      BY <1>3, <1>4, <3>2, <3>3, <3>4, <3>5, <3>6 DEF CallInv, Carries, BeforeTrace
  <2>2. CASE call[q].lexical \notin manifests
    BY <1>3, <1>4, <1>11, <2>2
       DEF SaveTrace, At, Lost, NoCall, RowInv, CallInv, BeforeTrace, Reached
  <2> QED
    BY <2>1, <2>2
<1>12. CASE Authorize(q)
  <2>1. PICK chosen \in SUBSET (call[q].seen \cap Current) :
           call'[q] = [Moves(q, "retrieved") EXCEPT !.candidates = chosen, !.seen = {}]
    BY <1>3, <1>12 DEF Authorize
  <2>2. /\ call'[q].pc = "retrieved" /\ call'[q].candidates = chosen
        /\ call'[q].seen = {} /\ call'[q].index = call[q].index
        /\ call'[q].cited = call[q].cited
    BY <1>3, <2>1 DEF Moves, Request
  <2>3. call[q].pc = "traced" /\ row' = row
    BY <1>12 DEF Authorize, At
  <2>4. call[q].cited = {}
    BY <1>3, <2>3 DEF CallInv
  <2>5. RowInv(q)'
    BY <1>3, <1>4, <2>2, <2>3 DEF RowInv
  <2> QED
    BY <1>3, <1>4, <2>1, <2>2, <2>3, <2>4, <2>5 DEF CallInv, BeforeTrace, Reached
<1>13. CASE SaveRetrieval(q)
  BY <1>3, <1>4, <1>13
     DEF SaveRetrieval, At, Moves, RowInv, CallInv, BeforeTrace, QueryRow, Request
<1>14. CASE StartGeneration(q)
  BY <1>3, <1>4, <1>14
     DEF StartGeneration, At, Moves, RowInv, CallInv, BeforeTrace, QueryRow, Request
<1>15. CASE Generate(q)
  <2>1. /\ call'[q].pc \in {"settled", "drafted"} /\ call'[q].seen = call[q].seen
        /\ call'[q].index = call[q].index /\ call'[q].candidates = call[q].candidates
        /\ call'[q].cited \subseteq call[q].candidates
    <3>1. CASE \E o : call' = [call EXCEPT ![q] = [Moves(q, "settled") EXCEPT !.outcome = o]]
      BY <1>3, <3>1 DEF Moves, Request, CallInv
    <3>2. CASE \E cited \in (SUBSET call[q].candidates) \ {{}} :
                  call' = [call EXCEPT ![q] = [Moves(q, "drafted") EXCEPT
                                                    !.outcome = "answered", !.cited = cited]]
      BY <1>3, <3>2 DEF Moves, Request
    <3> QED
      BY <1>15, <3>1, <3>2 DEF Generate
  <2>2. call[q].pc = "generating" /\ row' = row
    BY <1>15 DEF Generate, At
  <2> QED
    BY <1>3, <1>4, <2>1, <2>2 DEF RowInv, CallInv, BeforeTrace
<1>16. CASE CheckSources(q)
  <2>1. /\ call'[q].pc = "settled" /\ call'[q].seen = call[q].seen
        /\ Carries(call'[q], call[q])
    <3>1. CASE call' = [call EXCEPT ![q] = Moves(q, "settled")]
      BY <1>3, <3>1 DEF Moves, Request, Carries
    <3>2. CASE call' = [call EXCEPT ![q] = [Moves(q, "settled") EXCEPT !.outcome = "abstained"]]
      BY <1>3, <3>2 DEF Moves, Request, Carries
    <3> QED
      BY <1>16, <3>1, <3>2 DEF CheckSources
  <2>2. call[q].pc = "drafted" /\ row' = row
    BY <1>16 DEF CheckSources, At
  <2> QED
    BY <1>3, <1>4, <2>1, <2>2 DEF RowInv, CallInv, Carries, BeforeTrace
<1>17. CASE Finalize(q)
  <2>1. call'[q] = [NoCall EXCEPT !.pc = "done"] /\ call[q].pc = "settled"
    BY <1>3, <1>17 DEF Finalize, At
  <2>2. CallInv(q)'
    BY <2>1 DEF CallInv, BeforeTrace, NoCall, Reached
  <2>3. CASE row' = row
    BY <1>3, <1>4, <2>1, <2>2, <2>3 DEF RowInv, NoCall
  <2>4. CASE row' # row /\ Resolved(q) # "answered"
    <3>1. row'[q] = [row[q] EXCEPT !.status = Resolved(q), !.citations = {}, !.quotes = {}]
      BY <1>3, <1>17, <2>4 DEF Finalize
    <3> QED
      BY <1>3, <1>4, <2>2, <2>4, <3>1 DEF RowInv, QueryRow
  <2>5. CASE row' # row /\ Resolved(q) = "answered"
    <3>1. row'[q] = [row[q] EXCEPT !.status = "answered", !.citations = call[q].cited,
                                   !.quotes = call[q].cited]
      BY <1>3, <1>17, <2>5 DEF Finalize
    <3>2. SourcesCurrent(q)
      BY <2>5 DEF Resolved
    <3>3. /\ row[q].trace # 0 /\ call[q].index # 0 /\ call[q].index <= row[q].trace
          /\ call[q].candidates \subseteq contents[row[q].trace]
          /\ row[q].index = call[q].index /\ active = call[q].index
          /\ call[q].cited \subseteq call[q].candidates
          /\ row[q].trace \in manifests
      BY <1>3, <2>1, <3>2 DEF CallInv, RowInv, SourcesCurrent
    <3>4. row[q].index # 0 /\ row[q].index = row[q].trace
      <4>1. active = Len(contents) /\ active \in Nat /\ row[q].trace \in 1..Len(contents)
        BY <1>3, <3>3 DEF IInv, TypeOK, IndexInv
      <4> QED
        BY <3>3, <4>1
    <3>5. RowInv(q)'
      BY <1>3, <1>4, <2>1, <3>1, <3>3, <3>4 DEF RowInv, QueryRow, NoCall
    <3> QED
      BY <2>2, <3>5
  <2> QED
    BY <2>3, <2>4, <2>5
<1> QED
  BY <1>5, <1>6, <1>7, <1>8, <1>9, <1>10, <1>11, <1>12, <1>13, <1>14, <1>15, <1>16, <1>17
     DEF CallStep

\* The index is switched: the new manifest holds exactly the active revisions.
LEMMA SwitchKeeps ==
    ASSUME IInv, TypeOK', NEW d \in Docs, Switch(d)
    PROVE  IndexInv' /\ \A q \in Queries : RowInv(q)' /\ CallInv(q)'
<1>1. PICK r \in {rev[d], rev[d] + 1} \cap 1..MaxRev :
         /\ rev' = [rev EXCEPT ![d] = r]
         /\ contents' = Append(contents, Current')
         /\ active' = Len(contents')
         /\ manifests' = manifests \cup {active'}
         /\ UNCHANGED <<deletion, row, call>>
  BY DEF Switch, Current
<1>2. /\ rev \in [Docs -> 0..MaxRev] /\ rev' \in [Docs -> 0..MaxRev]
      /\ ~Deleted(d) /\ \A c \in Docs : Deleted(c)' <=> Deleted(c)
      /\ \A c \in Docs \ {d} : rev'[c] = rev[c]
      /\ rev[d] <= rev'[d] /\ rev'[d] <= rev[d] + 1
  BY <1>1, BoundsOK DEF IInv, TypeOK, Switch, Deleted
<1>3. /\ Len(contents) \in Nat /\ Len(contents') = Len(contents) + 1
      /\ DOMAIN contents = 1..Len(contents) /\ DOMAIN contents' = 1..(Len(contents) + 1)
      /\ \A m \in DOMAIN contents : contents'[m] = contents[m]
      /\ contents'[active'] = Current'
  BY <1>1 DEF IInv, TypeOK
<1>4. \A evidence \in SUBSET Evidence : Reached(evidence) =>
         Reached(evidence)' /\ evidence \cap Current' \subseteq Current
  <2> SUFFICES ASSUME NEW evidence \in SUBSET Evidence, Reached(evidence),
                      NEW e \in evidence
               PROVE  /\ e[2] <= rev'[e[1]] \/ Deleted(e[1])'
                      /\ rev'[e[1]] = e[2] => rev[e[1]] = e[2]
    BY DEF Reached, Current
  <2>1. e[1] \in Docs /\ e[2] \in Nat /\ (e[2] <= rev[e[1]] \/ Deleted(e[1]))
    BY DEF Evidence, Reached
  <2>2. rev[e[1]] \in Nat /\ rev'[e[1]] \in Nat
    BY <1>2, <2>1, BoundsOK
  <2>3. CASE e[1] = d
    BY <1>2, <2>1, <2>2, <2>3
  <2>4. CASE e[1] # d
    BY <1>2, <2>1, <2>2, <2>4
  <2> QED
    BY <2>3, <2>4
<1>5. Reached(Current)'
  BY <1>2, BoundsOK DEF Reached, Current, Evidence, TypeOK
<1>6. IndexInv'
  <2>1. \A c \in Docs : Deleted(c)' => rev'[c] = 0
    BY <1>2 DEF IInv, IndexInv
  <2>2. active' = Len(contents') /\ Current' \subseteq contents'[active']
    BY <1>1, <1>3
  <2>3. \A m \in DOMAIN contents' : Reached(contents[m])'
    <3> SUFFICES ASSUME NEW m \in DOMAIN contents' PROVE Reached(contents[m])'
      OBVIOUS
    <3>1. CASE m \in DOMAIN contents
      <4>1. contents[m] \in SUBSET Evidence /\ Reached(contents[m])
        BY <3>1 DEF IInv, TypeOK, IndexInv
      <4>2. Reached(contents[m])' <=> \A e \in contents[m] : e[2] <= rev'[e[1]] \/ Deleted(e[1])'
        BY <1>3, <3>1 DEF Reached
      <4> QED
        BY <1>4, <4>1, <4>2 DEF Reached
    <3>2. CASE m \notin DOMAIN contents
      <4>1. m = active'
        BY <1>1, <1>3, <3>2
      <4>2. contents'[m] = Current'
        BY <1>3, <4>1
      <4> QED
        BY <1>5, <4>2 DEF Reached
    <3> QED
      BY <3>1, <3>2
  <2>4. \A c \in Docs : deletion'[c] = "completed" => Affected(c)' = {}
    <3> SUFFICES ASSUME NEW c \in Docs, deletion'[c] = "completed"
                 PROVE  \A m \in manifests' : c \notin DocsIn(contents'[m])
      BY DEF Affected
    <3>1. Affected(c) = {} /\ Deleted(c) /\ rev'[c] = 0
      BY <1>1, <1>2 DEF IInv, IndexInv, Deleted
    <3>2. c \notin DocsIn(Current')
      BY <3>1 DEF DocsIn, Current, Evidence
    <3>3. \A m \in manifests : m \in DOMAIN contents /\ c \notin DocsIn(contents[m])
      BY <3>1 DEF Affected, IInv, TypeOK
    <3>4. SUFFICES ASSUME NEW m \in manifests' PROVE c \notin DocsIn(contents'[m])
      OBVIOUS
    <3>5. CASE m \in manifests
      BY <1>3, <3>3, <3>5
    <3>6. CASE m = active'
      <4>1. contents'[m] = Current'
        BY <1>3, <3>6
      <4> QED
        BY <3>2, <4>1
    <3> QED
      BY <1>1, <3>5, <3>6
  <2> QED
    BY <2>1, <2>2, <2>3, <2>4 DEF IndexInv
<1>7. ASSUME NEW q \in Queries PROVE RowInv(q)' /\ CallInv(q)'
  <2>1. /\ row' = row /\ call' = call /\ RowInv(q) /\ CallInv(q)
        /\ row[q] \in QueryRow /\ call[q] \in Request
        /\ manifests \subseteq manifests' /\ manifests \subseteq DOMAIN contents
    BY <1>1 DEF IInv, TypeOK
  <2>2. RowInv(q)'
    BY <1>3, <2>1 DEF RowInv
  <2>3. Reached(call[q].seen)' /\ call[q].seen \cap Current' \subseteq Current
    BY <1>4, <2>1 DEF Request, CallInv
  <2>4. call[q].index \in Nat
    BY BoundsOK, <2>1 DEF Request, Manifests
  <2>5. row[q].trace # 0 => contents'[row[q].trace] = contents[row[q].trace]
    BY <1>3, <2>1 DEF RowInv
  <2>6. CallInv(q)'
    BY <1>3, <2>1, <2>3, <2>4, <2>5 DEF CallInv, Reached
  <2> QED
    BY <2>2, <2>6
<1> QED
  BY <1>6, <1>7

\* A deletion takes revisions out of Current; what was reached stays so.
LEMMA DeleteKeeps ==
    ASSUME IInv, NEW d \in Docs, Delete(d)
    PROVE  IndexInv' /\ \A q \in Queries : RowInv(q)' /\ CallInv(q)'
<1>1. /\ rev' = [rev EXCEPT ![d] = 0] /\ deletion' = [deletion EXCEPT ![d] = "pending"]
      /\ ~Deleted(d) /\ UNCHANGED <<contents, manifests, active, row, call>>
  BY DEF Delete, indexVars
<1>2. \A c \in Docs : /\ Deleted(c)' <=> Deleted(c) \/ c = d
                      /\ c # d => rev'[c] = rev[c] /\ deletion'[c] = deletion[c]
  BY <1>1 DEF IInv, TypeOK, Deleted
<1>3. rev'[d] = 0 /\ deletion'[d] = "pending"
  BY <1>1 DEF IInv, TypeOK
<1>4. Current' \subseteq Current
  <2> SUFFICES ASSUME NEW e \in Evidence, rev'[e[1]] = e[2] PROVE rev[e[1]] = e[2]
    BY DEF Current
  <2>1. e[1] \in Docs /\ e[2] \in 1..MaxRev
    BY DEF Evidence
  <2> QED
    BY <1>2, <1>3, <2>1
<1>5. \A evidence \in SUBSET Evidence : Reached(evidence) => Reached(evidence)'
  <2> SUFFICES ASSUME NEW evidence \in SUBSET Evidence, Reached(evidence),
                      NEW e \in evidence
               PROVE  e[2] <= rev'[e[1]] \/ Deleted(e[1])'
    BY DEF Reached
  <2>1. e[1] \in Docs /\ (e[2] <= rev[e[1]] \/ Deleted(e[1]))
    BY DEF Evidence, Reached
  <2> QED
    BY <1>2, <2>1
<1>6. IndexInv'
  <2>1. \A c \in Docs : Deleted(c)' => rev'[c] = 0
    BY <1>2, <1>3 DEF IInv, IndexInv
  <2>2. active' # 0 => active' = Len(contents') /\ Current' \subseteq contents'[active']
    BY <1>1, <1>4 DEF IInv, IndexInv
  <2>3. \A m \in DOMAIN contents : contents[m] \in SUBSET Evidence /\ Reached(contents[m])
    BY DEF IInv, TypeOK, IndexInv
  <2>4. \A m \in DOMAIN contents' : Reached(contents[m])'
    BY <1>1, <1>5, <2>3 DEF Reached
  <2>5. \A c \in Docs : deletion'[c] = "completed" => Affected(c)' = {}
    BY <1>1, <1>2, <1>3 DEF IInv, IndexInv, Affected
  <2> QED
    BY <2>1, <2>2, <2>4, <2>5 DEF IndexInv
<1>7. ASSUME NEW q \in Queries PROVE RowInv(q)' /\ CallInv(q)'
  <2>1. RowInv(q) /\ CallInv(q) /\ call[q].seen \in SUBSET Evidence
    BY DEF IInv, TypeOK, Request
  <2>2. Reached(call[q].seen)'
    BY <1>1, <1>5, <2>1 DEF CallInv, Reached
  <2> QED
    BY <1>1, <1>4, <2>1, <2>2 DEF RowInv, CallInv
<1> QED
  BY <1>6, <1>7

\* A cleanup that goes through deletes no manifest that a trace names: the queries
\* keep all their evidence, except for what it takes out itself.
LEMMA CleanupKeeps ==
    ASSUME IInv, NEW d \in Docs, Cleanup(d)
    PROVE  IndexInv' /\ \A q \in Queries : RowInv(q)' /\ CallInv(q)'
<1>1. /\ row' = [q \in Queries |-> Purged(row[q], d)]
      /\ manifests' = manifests \ Affected(d)
      /\ active' = ActiveAfter(d)
      /\ deletion' = [deletion EXCEPT ![d] = "completed"]
      /\ Deleted(d) /\ Held(d) = {}
      /\ UNCHANGED <<rev, contents, call>>
  BY DEF Cleanup
<1>2. \A c \in Docs : Deleted(c)' <=> Deleted(c)
  BY <1>1 DEF IInv, TypeOK, Deleted
<1>3. Current' = Current
  BY <1>1 DEF Current
<1>4. \A evidence \in SUBSET Evidence : Reached(evidence) => Reached(evidence)'
  BY <1>1, <1>2 DEF Reached, Evidence
<1>5. IndexInv'
  <2>1. \A c \in Docs : Deleted(c)' => rev'[c] = 0
    BY <1>1, <1>2 DEF IInv, IndexInv
  <2>2. active' # 0 => active' = Len(contents') /\ Current' \subseteq contents'[active']
    BY <1>1, <1>3 DEF IInv, IndexInv, ActiveAfter
  <2>3. \A m \in DOMAIN contents : contents[m] \in SUBSET Evidence /\ Reached(contents[m])
    BY DEF IInv, TypeOK, IndexInv
  <2>4. \A m \in DOMAIN contents' : Reached(contents[m])'
    BY <1>1, <1>4, <2>3 DEF Reached
  <2>5. \A c \in Docs : deletion'[c] = "completed" => Affected(c)' = {}
    BY <1>1 DEF IInv, TypeOK, IndexInv, Affected
  <2> QED
    BY <2>1, <2>2, <2>4, <2>5 DEF IndexInv
<1>6. ASSUME NEW q \in Queries PROVE RowInv(q)' /\ CallInv(q)'
  <2>1. /\ RowInv(q) /\ CallInv(q) /\ row[q] \in QueryRow /\ call[q].seen \in SUBSET Evidence
    BY DEF IInv, TypeOK, Request
  <2>2. /\ row'[q].trace = row[q].trace /\ row'[q].index = row[q].index
        /\ row'[q].payload \subseteq row[q].payload
        /\ row'[q].citations \subseteq row[q].citations
        /\ row'[q].quotes \subseteq row[q].quotes
        /\ row'[q].status \in {row[q].status, "invalidated"}
    BY <1>1, <2>1 DEF Purged, Without, QueryRow
  <2>3. row[q].trace # 0 => row[q].trace \in manifests'
    BY <1>1, <2>1 DEF RowInv, Held, Traced
  <2>4. RowInv(q)'
    BY <1>1, <2>1, <2>2, <2>3 DEF RowInv
  <2>5. Reached(call[q].seen)'
    BY <1>1, <1>4, <2>1 DEF CallInv, Reached
  <2>6. CallInv(q)'
    BY <1>1, <1>3, <2>1, <2>2, <2>5 DEF CallInv, Reached
  <2> QED
    BY <2>4, <2>6
<1> QED
  BY <1>5, <1>6

\* A cleanup that rolls back, a crash and a stutter change neither evidence nor rows.
LEMMA OthersKeep ==
    ASSUME IInv, (\E d \in Docs : CleanupRollsBack(d)) \/ Crash \/ UNCHANGED vars
    PROVE  IndexInv' /\ \A q \in Queries : RowInv(q)' /\ CallInv(q)'
<1>1. CASE \E d \in Docs : CleanupRollsBack(d)
  <2>1. PICK d \in Docs : CleanupRollsBack(d)
    BY <1>1
  <2>2. /\ deletion' = [deletion EXCEPT ![d] = "retry_wait"] /\ Deleted(d)
        /\ UNCHANGED <<rev, contents, manifests, active, row, call>>
    BY <2>1 DEF CleanupRollsBack
  <2>3. \A c \in Docs : /\ Deleted(c)' <=> Deleted(c)
                        /\ deletion'[c] = "completed" => deletion[c] = "completed"
    BY <2>2 DEF IInv, TypeOK, Deleted
  <2>4. \A evidence \in SUBSET Evidence : Reached(evidence) => Reached(evidence)'
    BY <2>2, <2>3 DEF Reached, Evidence
  <2>5. IndexInv'
    <3>1. \A m \in DOMAIN contents : contents[m] \in SUBSET Evidence /\ Reached(contents[m])
      BY DEF IInv, TypeOK, IndexInv
    <3>2. \A m \in DOMAIN contents' : Reached(contents[m])'
      BY <2>2, <2>4, <3>1 DEF Reached
    <3> QED
      BY <2>2, <2>3, <3>2 DEF IInv, IndexInv, Current, Affected
  <2>6. ASSUME NEW q \in Queries PROVE RowInv(q)' /\ CallInv(q)'
    <3>1. RowInv(q) /\ CallInv(q) /\ call[q].seen \in SUBSET Evidence
      BY DEF IInv, TypeOK, Request
    <3>2. Reached(call[q].seen)'
      BY <2>2, <2>4, <3>1 DEF CallInv, Reached
    <3> QED
      BY <2>2, <3>1, <3>2 DEF RowInv, CallInv, Current
  <2> QED
    BY <2>5, <2>6
<1>2. CASE Crash
  <2>1. /\ UNCHANGED <<docVars, indexVars, row>> /\ IndexInv'
        /\ \A q \in Queries : call'[q] = call[q] \/ (call'[q] = Lost /\ call[q].pc \in InFlight)
    BY <1>2, IndexFrame DEF Crash, IInv
  <2>2. ASSUME NEW q \in Queries PROVE RowInv(q)' /\ CallInv(q)'
    <3>1. CASE call'[q] = call[q]
      BY <2>1, <3>1, Frame DEF IInv
    <3>2. CASE call'[q] = Lost /\ call[q].pc \in InFlight
      BY <2>1, <3>2 DEF IInv, RowInv, CallInv, BeforeTrace, Lost, NoCall, Reached, InFlight,
                        indexVars
    <3> QED
      BY <2>1, <3>1, <3>2
  <2> QED
    BY <2>1, <2>2
<1>3. CASE UNCHANGED vars
  BY <1>3, Frame, IndexFrame DEF vars, IInv
<1> QED
  BY <1>1, <1>2, <1>3

LEMMA InvStep == IInv /\ Decided /\ [Next]_vars => IInv' /\ Decided'
<1> SUFFICES ASSUME IInv, Decided, [Next]_vars
             PROVE  IndexInv' /\ \A q \in Queries : RowInv(q)' /\ CallInv(q)'
  BY TypeStep DEF IInv
<1>1. TypeOK'
  BY TypeStep DEF IInv
<1> QED
  BY <1>1, CallKeeps, SwitchKeeps, DeleteKeeps, CleanupKeeps, OthersKeep DEF Next, CleanupStep

LEMMA Invariance == Spec => [](IInv /\ Decided)
<1>1. Init => IInv /\ Decided
  BY TypeInit, InvInit DEF IInv
<1> QED
  BY <1>1, InvStep, PTL DEF Spec

-----------------------------------------------------------------------------
(* 3. What an answer promises                                              *)

\* An answer rests on one index, however often the index is switched between the three
\* readings of the course pointer.
THEOREM OneIndex == Spec => []AnswerFromOneIndex
<1>1. IInv => AnswerFromOneIndex
  BY DEF IInv, RowInv, AnswerFromOneIndex
<1> QED
  BY <1>1, Invariance, PTL

\* Once the cleanup of a document is complete, nothing stored of a query holds its text:
\* the trace of a query that holds any names a manifest that does too.
THEOREM CleanedForGood == Spec => []CleanedLeavesNoText
<1>1. IInv => CleanedLeavesNoText
  BY DEF IInv, IndexInv, RowInv, CleanedLeavesNoText, Affected, DocsIn
<1> QED
  BY <1>1, Invariance, PTL

\* An answer is stored only after its citations were checked under the locks.
THEOREM NoLateCitation == Spec => NoCitationAfterDeletion
<1> DEFINE NoneAdded == \A d \in Docs, q \in Queries :
                          Deleted(d) /\ Cites(row'[q], d) => Cites(row[q], d)
<1>1. IInv /\ [Next]_vars => NoneAdded \/ UNCHANGED vars
  <2> SUFFICES ASSUME IInv, Next, NEW d \in Docs, NEW q \in Queries,
                      Deleted(d), Cites(row'[q], d)
               PROVE  Cites(row[q], d)
    BY DEF vars
  <2>1. /\ row \in [Queries -> QueryRow] /\ row[q] \in QueryRow /\ call[q] \in Request
        /\ rev[d] = 0 /\ CallInv(q)
    BY DEF IInv, TypeOK, IndexInv
  <2>2. CASE Finalize(q) /\ row' # row
    <3>1. row'[q].citations = IF Resolved(q) = "answered" THEN call[q].cited ELSE {}
      BY <2>1, <2>2 DEF Finalize, QueryRow
    <3>2. Resolved(q) = "answered" /\ d \in DocsIn(call[q].cited)
      BY <3>1 DEF Cites, DocsIn
    <3>3. call[q].cited \subseteq Current
      BY <2>1, <3>2 DEF Resolved, SourcesCurrent, CallInv
    <3>4. d \notin DocsIn(Current)
      BY <2>1 DEF Current, DocsIn, Evidence
    <3> QED
      BY <3>2, <3>3, <3>4 DEF DocsIn
  <2>3. CASE row'[q].citations \subseteq row[q].citations
    BY <2>3 DEF Cites, DocsIn
  <2> DEFINE NoMore == row'[q].citations \subseteq row[q].citations
  <2>4. (Finalize(q) /\ row' # row) \/ NoMore
    <3>1. ASSUME NEW p \in Queries, Ask(p) \/ CallStep(p)
          PROVE  (Finalize(q) /\ row' # row) \/ NoMore
      <4>1. row[p] \in QueryRow
        BY DEF IInv, TypeOK
      <4>2. CASE Ask(p) \/ StartRetrieval(p) \/ SaveTrace(p) \/ SaveRetrieval(p)
                 \/ StartGeneration(p)
        BY <2>1, <4>1, <4>2
           DEF Ask, StartRetrieval, SaveTrace, SaveRetrieval, StartGeneration, QueryRow
      <4>3. CASE Finalize(p)
        BY <2>1, <4>3 DEF Finalize
      <4>4. CASE row' = row
        BY <4>4
      <4> QED
        BY <3>1, <4>2, <4>3, <4>4
           DEF CallStep, FindIndex, ReadDense, EmbedFails, ReadLexical, Authorize, Generate,
               CheckSources
    <3>2. ASSUME NEW c \in Docs, Cleanup(c)
          PROVE  NoMore
      BY <2>1, <3>2 DEF Cleanup, Purged, QueryRow
    <3> QED
      BY <3>1, <3>2
         DEF Next, CleanupStep, Switch, Delete, CleanupRollsBack, Crash
  <2> QED
    BY <2>2, <2>3, <2>4
<1> QED
  BY <1>1, Invariance, PTL DEF Spec, NoCitationAfterDeletion

-----------------------------------------------------------------------------
(* 4. SearchableCourse: the refinement                                     *)

\* What is drafted cites something.
Supported == \A q \in Queries :
    call[q].pc \in {"drafted", "settled"} /\ call[q].outcome = "answered" => call[q].cited # {}

LEMMA SupportedStep == IInv /\ Supported /\ [Next]_vars => Supported'
<1> SUFFICES ASSUME IInv, Supported, Next PROVE Supported'
  BY DEF Supported, vars
<1>1. /\ call \in [Queries -> Request] /\ \A q \in Queries : call[q] \in Request
  BY DEF IInv, TypeOK
<1>2. ASSUME NEW q \in Queries, Ask(q) \/ CallStep(q) PROVE Supported'
  <2>1. SUFFICES /\ call'[q].pc \in {"drafted", "settled"} /\ call'[q].outcome = "answered"
                      => call'[q].cited # {}
                 /\ \A p \in Queries \ {q} : call'[p] = call[p]
    BY DEF Supported
  <2>2. CASE Ask(q) \/ StartRetrieval(q) \/ SaveRetrieval(q) \/ StartGeneration(q)
    BY <1>1, <2>2 DEF Ask, StartRetrieval, SaveRetrieval, StartGeneration, Moves, Request
  <2>3. CASE FindIndex(q)
    BY <1>1, <2>3, Moved DEF FindIndex, Request, NoIndex, InFlight, IInv
  <2>4. CASE ReadDense(q)
    BY <1>1, <2>4 DEF ReadDense, Request, Moves
  <2>5. CASE EmbedFails(q)
    BY <1>1, <2>5 DEF EmbedFails, Request, Moves
  <2>6. CASE ReadLexical(q)
    BY <1>1, <2>6, Moved DEF ReadLexical, Request, NoIndex, Lost, NoCall, InFlight, IInv
  <2>7. CASE SaveTrace(q)
    BY <1>1, <2>7 DEF SaveTrace, Request, Moves, Lost, NoCall
  <2>8. CASE Authorize(q)
    BY <1>1, <2>8 DEF Authorize, Moves, Request
  <2>9. CASE Generate(q)
    <3>1. CASE call' = [call EXCEPT ![q] = [Moves(q, "settled") EXCEPT !.outcome = "abstained"]]
      BY <1>1, <3>1 DEF Moves, Request
    <3>2. CASE call' = [call EXCEPT ![q] = [Moves(q, "settled") EXCEPT !.outcome = "failed"]]
      BY <1>1, <3>2 DEF Moves, Request
    <3>3. ASSUME NEW cited \in (SUBSET call[q].candidates) \ {{}},
                 call' = [call EXCEPT ![q] = [Moves(q, "drafted") EXCEPT
                                                   !.outcome = "answered", !.cited = cited]]
          PROVE  /\ call'[q].cited # {}
                 /\ \A p \in Queries \ {q} : call'[p] = call[p]
      <4>1. call'[q].cited = cited
        BY <1>1, <3>3 DEF Moves, Request
      <4>2. \A p \in Queries \ {q} : call'[p] = call[p]
        BY <1>1, <3>3
      <4>3. cited # {}
        BY <3>3
      <4> QED
        BY <4>1, <4>2, <4>3
    <3> QED
      BY <2>9, <3>1, <3>2, <3>3 DEF Generate
  <2>10. CASE CheckSources(q)
    <3>1. call[q].pc = "drafted" /\ Moves(q, "settled") = [call[q] EXCEPT !.pc = "settled"]
      BY <2>10 DEF CheckSources, At, Moves
    <3>2. CASE call' = [call EXCEPT ![q] = Moves(q, "settled")]
      BY <1>1, <3>1, <3>2 DEF Request, Supported
    <3>3. CASE call' = [call EXCEPT ![q] = [Moves(q, "settled") EXCEPT !.outcome = "abstained"]]
      BY <1>1, <3>1, <3>3 DEF Request
    <3> QED
      BY <2>10, <3>2, <3>3 DEF CheckSources
  <2>11. CASE Finalize(q)
    BY <1>1, <2>11 DEF Finalize, NoCall
  <2> QED
    BY <1>2, <2>2, <2>3, <2>4, <2>5, <2>6, <2>7, <2>8, <2>9, <2>10, <2>11 DEF CallStep
<1>3. CASE Crash
  BY <1>1, <1>3 DEF Crash, Supported, Lost, NoCall
<1>4. CASE \E d \in Docs : Switch(d) \/ Delete(d) \/ CleanupStep(d)
  BY <1>4 DEF Switch, Delete, CleanupStep, Cleanup, CleanupRollsBack, Supported
<1> QED
  BY <1>2, <1>3, <1>4 DEF Next

LEMMA SupportedAlways == Spec => [](IInv /\ Supported)
<1>1. Init => Supported
  BY DEF Init, Supported, NoCall
<1> QED
  BY <1>1, Invariance, SupportedStep, PTL DEF Spec

CourseStep == [Course!Next]_(Course!vars)

LEMMA CourseInit == Init => Course!Init
BY BoundsOK DEF Init, Course!Init, Current, Evidence, Indexed, Deleted, Given, NoRow

\* Until it is settled a request writes no answer.
LEMMA CallMaps ==
    ASSUME IInv, Supported, NEW q \in Queries, Ask(q) \/ CallStep(q)
    PROVE  CourseStep
<1>1. /\ row \in [Queries -> QueryRow] /\ row[q] \in QueryRow /\ call[q] \in Request
      /\ RowInv(q) /\ CallInv(q)
  BY DEF IInv, TypeOK
<1>2. /\ UNCHANGED <<rev, deletion, contents, manifests, directories, active>>
      /\ \A p \in Queries \ {q} : row'[p] = row[p]
  BY <1>1 DEF CallStep, Ask, StartRetrieval, FindIndex, ReadDense, EmbedFails, ReadLexical,
         SaveTrace, Authorize, SaveRetrieval, StartGeneration, Generate, CheckSources,
         Finalize, docVars, indexVars
<1>3. /\ Current' = Current /\ Indexed' = Indexed
      /\ (active \in directories)' <=> active \in directories
      /\ \A d \in Docs : (Deleted(d)' <=> Deleted(d)) /\ deletion'[d] = deletion[d]
  BY <1>2 DEF Current, Indexed, Deleted
<1>4. ASSUME Given(row'[q]) = Given(row[q]) PROVE CourseStep
  <2>1. [p \in Queries |-> Given(row[p])]' = [p \in Queries |-> Given(row[p])]
    BY <1>2, <1>4
  <2> QED
    BY <1>3, <2>1 DEF CourseStep, Course!vars
<1>5. CASE row' = row
  BY <1>4, <1>5
<1>6. CASE Ask(q) \/ StartRetrieval(q) \/ SaveTrace(q) \/ SaveRetrieval(q) \/ StartGeneration(q)
  <2>1. call[q].pc # "done"
    BY <1>6 DEF Ask, StartRetrieval, SaveTrace, SaveRetrieval, StartGeneration, At
  <2>2. row[q].status # "answered"
    BY <1>1, <2>1 DEF RowInv
  <2>3. row'[q].status # "answered"
    BY <1>1, <1>6, <2>2
       DEF Ask, StartRetrieval, SaveTrace, SaveRetrieval, StartGeneration, QueryRow
  <2> QED
    BY <1>4, <2>2, <2>3 DEF Given
<1>7. CASE Finalize(q)
  <2>1. call[q].pc = "settled" /\ Given(row[q]) = {}
    BY <1>1, <1>7 DEF Finalize, At, RowInv, Given
  <2>2. CASE row' # row /\ Resolved(q) # "answered"
    <3>1. row'[q].status = Resolved(q)
      BY <1>1, <1>7, <2>2 DEF Finalize, QueryRow
    <3> QED
      BY <1>4, <2>1, <2>2, <3>1 DEF Given
  <2>3. CASE row' # row /\ Resolved(q) = "answered"
    <3> DEFINE cited == call[q].cited
               answers == [p \in Queries |-> Given(row[p])]
    <3>1. row'[q].status = "answered" /\ row'[q].citations = cited
      BY <1>1, <1>7, <2>3 DEF Finalize, QueryRow
    <3>2. call[q].outcome = "answered" /\ SourcesCurrent(q)
      BY <2>3 DEF Resolved
    <3>3. cited # {}
      BY <2>1, <3>2 DEF Supported
    <3>4. cited \subseteq Current /\ active = call[q].index /\ active # 0
      BY <1>1, <3>2, <3>3 DEF CallInv, SourcesCurrent
    <3>5. Current \subseteq Indexed
      BY <3>4 DEF IInv, IndexInv, Indexed
    <3>6. cited \in SUBSET (Indexed \cap Current)
      BY <3>4, <3>5
    <3>7. Given(row'[q]) = cited
      BY <3>1 DEF Given
    <3>8. answers' = [answers EXCEPT ![q] = cited] /\ answers[q] = {}
      BY <1>2, <2>1, <3>7
    <3> HIDE DEF cited
    <3>9. Course!Answer(q, cited)
      BY <1>3, <3>3, <3>6, <3>8 DEF Course!Answer
    <3> QED
      BY <3>6, <3>9 DEF CourseStep, Course!Next
  <2> QED
    BY <1>5, <2>2, <2>3
<1> QED
  BY <1>5, <1>6, <1>7
     DEF CallStep, FindIndex, ReadDense, EmbedFails, ReadLexical, Authorize, Generate,
         CheckSources

LEMMA SwitchMaps ==
    ASSUME IInv, IInv', NEW d \in Docs, Switch(d)
    PROVE  CourseStep
<1>1. PICK r \in {rev[d], rev[d] + 1} \cap 1..MaxRev :
         /\ ~Deleted(d)
         /\ rev' = [rev EXCEPT ![d] = r]
         /\ contents' = Append(contents, Current')
         /\ active' = Len(contents')
         /\ directories' = directories \cup {active'}
         /\ UNCHANGED <<deletion, row>>
  BY DEF Switch, Current
<1>2. /\ rev \in [Docs -> 0..MaxRev] /\ rev'[d] = r /\ rev[d] <= r
      /\ \A c \in Docs \ {d} : rev'[c] = rev[c]
  BY <1>1, BoundsOK DEF IInv, TypeOK
<1>3. Current' = Course!Without(Current, d) \cup {<<d, r>>}
  BY <1>1, <1>2 DEF Current, Evidence, Course!Without
<1>4. \A e \in Current : e[1] = d => e[2] <= r
  BY <1>2 DEF Current
<1>5. Indexed' = Current'
  <2>1. /\ Len(contents) \in Nat /\ Len(contents') = Len(contents) + 1
        /\ contents'[Len(contents')] = Current'
    BY <1>1 DEF IInv, TypeOK
  <2> QED
    BY <1>1, <2>1 DEF Indexed
<1>6. active' \in directories'
  BY <1>1
<1>7. \A c \in Docs : (Deleted(c)' <=> Deleted(c)) /\ deletion'[c] = deletion[c]
  BY <1>1 DEF Deleted
<1>8. Course!Switch(d, r)
  BY <1>1, <1>3, <1>4, <1>5, <1>6, <1>7 DEF Course!Switch
<1> QED
  BY <1>1, <1>8 DEF CourseStep, Course!Next

LEMMA DeleteMaps ==
    ASSUME IInv, NEW d \in Docs, Delete(d)
    PROVE  CourseStep
<1>1. /\ rev' = [rev EXCEPT ![d] = 0] /\ deletion' = [deletion EXCEPT ![d] = "pending"]
      /\ ~Deleted(d) /\ UNCHANGED <<contents, directories, active, row>>
  BY DEF Delete, indexVars
<1>2. /\ rev'[d] = 0 /\ deletion'[d] = "pending"
      /\ \A c \in Docs \ {d} : rev'[c] = rev[c] /\ deletion'[c] = deletion[c]
  BY <1>1 DEF IInv, TypeOK
<1>3. Current' = Course!Without(Current, d)
  BY <1>2, BoundsOK DEF Current, Evidence, Course!Without
<1>4. {c \in Docs : Deleted(c)}' = {c \in Docs : Deleted(c)} \cup {d}
  BY <1>2 DEF Deleted
<1>5. {c \in Docs : deletion[c] = "completed"}' = {c \in Docs : deletion[c] = "completed"}
  BY <1>1, <1>2 DEF Deleted
<1>6. Indexed' = Indexed
  BY <1>1 DEF Indexed
<1>7. Course!Delete(d)
  BY <1>1, <1>3, <1>4, <1>5, <1>6 DEF Course!Delete
<1> QED
  BY <1>7 DEF CourseStep, Course!Next

\* The index holds a document when its manifest does.
LEMMA HoldsAffected ==
    ASSUME IInv, NEW d \in Docs
    PROVE  Course!Holds(Indexed, d) <=> active \in Affected(d)
<1>1. active \in manifests \cup {0} /\ 0 \notin manifests
  BY DEF IInv, TypeOK
<1> QED
  BY <1>1 DEF Course!Holds, Indexed, Affected, DocsIn

\* A trace protects the manifest, and so the text, of every answer.
LEMMA CleanupMaps ==
    ASSUME IInv, NEW d \in Docs, Cleanup(d)
    PROVE  CourseStep
<1>1. /\ Deleted(d) /\ Held(d) = {}
      /\ row' = [q \in Queries |-> Purged(row[q], d)]
      /\ directories' = directories \ Affected(d)
      /\ active' = ActiveAfter(d)
      /\ deletion' = [deletion EXCEPT ![d] = "completed"]
      /\ UNCHANGED <<rev, contents>>
  BY DEF Cleanup
<1>2. ASSUME NEW q \in Queries
      PROVE  d \notin DocsIn(row[q].payload \cup row[q].citations \cup row[q].quotes)
  <2>1. row[q].trace \notin Affected(d)
    BY <1>1 DEF Held, Traced
  <2> QED
    BY <2>1 DEF IInv, RowInv, Affected, DocsIn
<1>3. \A q \in Queries : row'[q] = row[q] /\ ~Course!Holds(Given(row[q]), d)
  BY <1>1, <1>2 DEF Purged, DocsIn, Given, Course!Holds
<1>4. Current' = Current /\ \A c \in Docs : Deleted(c)' <=> Deleted(c)
  BY <1>1 DEF Current, Deleted, IInv, TypeOK
<1>5. {c \in Docs : deletion[c] = "completed"}'
        = {c \in Docs : deletion[c] = "completed"} \cup {d}
  BY <1>1 DEF IInv, TypeOK
<1>6. Indexed' = IF Course!Holds(Indexed, d) THEN {} ELSE Indexed
  BY <1>1, HoldsAffected DEF Indexed, ActiveAfter
<1>7. (active \in directories)' <=> active \in directories /\ ~Course!Holds(Indexed, d)
  <2>1. 0 \notin directories
    BY DEF IInv, TypeOK
  <2> QED
    BY <1>1, <2>1, HoldsAffected DEF ActiveAfter
<1>8. [q \in Queries |-> Given(row[q])]' = [q \in Queries |-> Given(row[q])]
  BY <1>3
<1>9. Course!Cleanup(d)
  BY <1>1, <1>3, <1>4, <1>5, <1>6, <1>7, <1>8 DEF Course!Cleanup
<1> QED
  BY <1>9 DEF CourseStep, Course!Next

LEMMA RollsBackMaps ==
    ASSUME IInv, NEW d \in Docs, CleanupRollsBack(d)
    PROVE  CourseStep
<1>1. /\ Deleted(d) /\ Held(d) # {}
      /\ directories' = directories \ Affected(d)
      /\ deletion' = [deletion EXCEPT ![d] = "retry_wait"]
      /\ UNCHANGED <<rev, contents, active, row>>
  BY DEF CleanupRollsBack
<1>2. deletion[d] # "completed"
  BY <1>1 DEF IInv, IndexInv, Held
<1>3. /\ Current' = Current /\ Indexed' = Indexed
      /\ \A c \in Docs : Deleted(c)' <=> Deleted(c)
      /\ \A c \in Docs : deletion'[c] = "completed" <=> deletion[c] = "completed"
  BY <1>1, <1>2 DEF Current, Indexed, Deleted, IInv, TypeOK
<1>4. CASE active \in directories /\ active \in Affected(d)
  <2>1. Course!Holds(Indexed, d) /\ ~(active \in directories)'
    BY <1>1, <1>4, HoldsAffected
  <2>2. Course!Withdraw(d)
    BY <1>1, <1>3, <2>1 DEF Course!Withdraw
  <2> QED
    BY <2>2 DEF CourseStep, Course!Next
<1>5. CASE ~(active \in directories /\ active \in Affected(d))
  <2>1. (active \in directories)' <=> active \in directories
    BY <1>1, <1>5
  <2> QED
    BY <1>1, <1>3, <2>1 DEF CourseStep, Course!vars
<1> QED
  BY <1>4, <1>5

LEMMA CourseNext == IInv /\ IInv' /\ Supported /\ [Next]_vars => CourseStep
<1> SUFFICES ASSUME IInv, IInv', Supported, [Next]_vars PROVE CourseStep
  OBVIOUS
<1>1. ASSUME UNCHANGED <<docVars, indexVars, row>> PROVE CourseStep
  <2>1. /\ Current' = Current /\ Indexed' = Indexed
        /\ (active \in directories)' <=> active \in directories
        /\ \A d \in Docs : (Deleted(d)' <=> Deleted(d)) /\ deletion'[d] = deletion[d]
        /\ row' = row
    BY <1>1 DEF docVars, indexVars, Current, Indexed, Deleted
  <2> QED
    BY <2>1 DEF CourseStep, Course!vars
<1>2. CASE Crash \/ UNCHANGED vars
  BY <1>1, <1>2 DEF Crash, vars
<1> QED
  BY <1>2, CallMaps, SwitchMaps, DeleteMaps, CleanupMaps, RollsBackMaps
     DEF Next, CleanupStep

\* Seen from outside, the transactions of a request (QueryService.execute) are one step that
\* gives an answer for good, and switches, deletions and cleanups are what
\* SearchableCourse says.
THEOREM AnswersRefineCourse == Spec => AnswersTheCourse
<1>1. Spec => [](IInv /\ Supported)
  BY SupportedAlways
<1>2. IInv /\ Supported /\ IInv' /\ [Next]_vars => [Course!Next]_(Course!vars)
  BY CourseNext DEF CourseStep
<1> QED
  BY <1>1, <1>2, CourseInit, PTL DEF Spec, AnswersTheCourse, Course!Spec
=============================================================================
