----------------------------- MODULE PageParsing -----------------------------
(***************************************************************************)
(* How a worker turns the pages of one document into results: every page   *)
(* is parsed by a child process of its own, under a time limit, in the     *)
(* private directory (sandbox) of the attempt.  A native page takes one    *)
(* child; a page recognised by OCR takes a "general" child and, where the  *)
(* page is complex and the profile offers it, a second "structure" child.  *)
(* Children hang, die or leave no result; the profile they run from is     *)
(* upgraded under them; the task is cancelled, or its worker dies and      *)
(* leaves a child behind.                                                  *)
(*                                                                         *)
(* A result is what the child leaves in the sandbox: the backend and the   *)
(* version of the profile that made it.  The page it shows is written in   *)
(* it by the native parser only; "of" and "by" (the page it is really of   *)
(* and the attempt whose child made it) are there for the properties, and  *)
(* the worker reads "of" in a native result alone.                         *)
(***************************************************************************)
EXTENDS Naturals, FiniteSets

CONSTANTS LastPage,     \* the pages of the document are 1 .. LastPage
          StructureOn,  \* the complex parser is enabled and was reported
          MaxAttempts,  \* bound: attempts at the task
          MaxUpgrades,  \* bound: upgrades of the OCR profile
          MaxFaults,    \* bound: children that fail, inputs that do not open
          NoFile        \* no result file

VARIABLES
    profile,    \* the parser profile of the task: "native" or "ocr"
    complex,    \* the pages the router finds complex
    installed,  \* the version of the OCR profile on this host
    marker,     \* [backend -> version whose models were warmed up, 0: none]
    attempt,    \* the current attempt, 0 before the first
    task,       \* the handler of the current attempt
    sandbox,    \* [attempt -> "unused", "present", "removed"]
    output,     \* [attempt -> the result file in its sandbox, or NoFile]
    child,      \* [attempt -> the leader of the last process group it began]
    faults,     \* counts the faults
    rejected    \* a child of this attempt refused its page, or ended well with no result

hostVars == <<installed, marker>>
taskVars == <<profile, complex, attempt, task>>
fileVars == <<sandbox, output, child>>
vars == <<hostVars, taskVars, fileVars, faults, rejected>>

Pages == 1 .. LastPage
Attempts == 1 .. MaxAttempts
Versions == 1 .. MaxUpgrades + 1
OcrBackends == {"general", "structure"}
Backends == OcrBackends \cup {"native"}

Running == {"page", "complex", "waiting", "parsed"}
Ended == {"done", "failed", "retry", "lost", "crashed"}

Results == [of : Pages, by : Attempts, backend : Backends, version : Versions]

ASSUME BoundsOK ==
    /\ LastPage \in Nat \ {0} /\ MaxAttempts \in Nat
    /\ MaxUpgrades \in Nat /\ MaxFaults \in Nat

ASSUME NoFileIsNone == NoFile \notin Results

\* The page at hand, the last result that was read ("seen"), the first that was packaged
\* ("base") and, for the properties, the one the attempt was failed for ("refused")
NoTask == [at |-> "idle", pages |-> {}, page |-> 1, backend |-> "native",
           seen |-> NoFile, base |-> NoFile, refused |-> NoFile, packaged |-> {}]
NoChild == [at |-> "none", page |-> 1, backend |-> "native", code |-> "ok"]

TypeOK ==
    /\ profile \in {"native", "ocr"}
    /\ complex \subseteq Pages
    /\ installed \in Versions
    /\ marker \in [OcrBackends -> Versions \cup {0}]
    /\ attempt \in 0 .. MaxAttempts
    /\ task \in [at : Running \cup Ended \cup {"idle"}, pages : SUBSET Pages,
                 page : Pages, backend : Backends, seen : Results \cup {NoFile},
                 base : Results \cup {NoFile}, refused : Results \cup {NoFile},
                 packaged : SUBSET (Pages \X Results)]
    /\ sandbox \in [Attempts -> {"unused", "present", "removed"}]
    /\ output \in [Attempts -> Results \cup {NoFile}]
    /\ child \in [Attempts -> [at : {"none", "checking", "predicting", "written", "exited"},
                               page : Pages, backend : Backends,
                               code : {"ok", "retry", "final", "garbled"}]]
    /\ faults \in 0 .. MaxFaults
    /\ rejected \in BOOLEAN

Init ==
    /\ profile \in {"native", "ocr"}
    /\ complex \in IF profile = "ocr" THEN SUBSET Pages ELSE {{}}
    /\ installed = 1
    /\ marker \in [OcrBackends -> {0, 1}]
    /\ attempt = 0
    /\ task = NoTask
    /\ sandbox = [a \in Attempts |-> "unused"]
    /\ output = [a \in Attempts |-> NoFile]
    /\ child = [a \in Attempts |-> NoChild]
    /\ faults = 0
    /\ rejected = FALSE

----------------------------------------------------------------------------
(* The host: its operator upgrades the profile and warms its models up.     *)

\* New packages or models: no marker vouches for them.
Upgrade ==
    /\ installed < MaxUpgrades + 1
    /\ installed' = installed + 1
    /\ UNCHANGED <<marker, taskVars, fileVars, faults, rejected>>

\* The marker is written beside its place and renamed: a child reads the old
\* marker or the new one.
Marked(b) == [marker EXCEPT ![b] = installed]

\* warmup runs the backend on a page of its own before it writes the marker.
WarmUp(b) ==
    /\ marker[b] # installed
    /\ marker' = Marked(b)
    /\ UNCHANGED <<installed, taskVars, fileVars, faults, rejected>>

\* The marker names the packages and the hashes of the models as they are.
Ready(b) == marker[b] = installed

----------------------------------------------------------------------------
(* The child.                                                               *)

Move(a, at) == child' = [child EXCEPT ![a].at = at]
Exit(a, code) == child' = [child EXCEPT ![a].at = "exited", ![a].code = code]

\* A child of the OCR profile runs only on models that were warmed up.
MayPredict(b) == b = "native" \/ (Ready("general") /\ Ready(b))

CheckCache(a) ==
    /\ child[a].at = "checking"
    /\ IF MayPredict(child[a].backend) THEN Move(a, "predicting") ELSE Exit(a, "retry")
    /\ UNCHANGED <<hostVars, taskVars, sandbox, output, faults, rejected>>

\* The version is that of the packages as they are now.
Result(a) ==
    [of |-> child[a].page, by |-> a, backend |-> child[a].backend, version |-> installed]

\* The result is written beside its place and renamed: it is there or not.
Leave(a, result) ==
    /\ output' = [output EXCEPT ![a] = result]
    /\ Move(a, "written")
    /\ UNCHANGED <<hostVars, taskVars, sandbox, faults, rejected>>

Recognise(a) ==
    /\ child[a].at = "predicting" /\ child[a].backend # "native"
    /\ Leave(a, Result(a))

\* The native parser comes with the worker and has one version.
ParseNative(a) ==
    /\ child[a].at = "predicting" /\ child[a].backend = "native"
    /\ Leave(a, [Result(a) EXCEPT !.version = 1])

Finish(a) ==
    /\ child[a].at = "written"
    /\ Exit(a, "ok")
    /\ UNCHANGED <<hostVars, taskVars, sandbox, output, faults, rejected>>

\* The engine fails or memory runs out ("retry"), or the child dies by a signal
\* and its answer is cut short ("garbled").
Break(a) ==
    /\ child[a].at \in {"checking", "predicting", "written"}
    /\ faults < MaxFaults
    /\ faults' = faults + 1
    /\ \E code \in {"retry", "garbled"} : Exit(a, code)
    /\ UNCHANGED <<hostVars, taskVars, sandbox, output, rejected>>

\* The child refuses the page, or native code of it ends the process with
\* nothing written and no error.
Refuse(a) ==
    /\ child[a].at \in {"checking", "predicting"}
    /\ faults < MaxFaults
    /\ faults' = faults + 1
    /\ rejected' = (rejected \/ a = attempt)
    /\ \E code \in {"final", "ok"} : Exit(a, code)
    /\ UNCHANGED <<hostVars, taskVars, sandbox, output>>

----------------------------------------------------------------------------
(* The worker.                                                              *)

\* The process group is killed and its leader waited for.  (A group whose leader has
\* exited is not killed; what else may be in a group is not modelled.)
Killed == [child EXCEPT ![attempt].at = IF @ = "none" THEN @ ELSE "exited",
                        ![attempt].code = IF child[attempt].at = "exited" THEN @
                                          ELSE "garbled"]

\* However the attempt ends, its sandbox is removed on the way out.
EndFor(outcome, result) ==
    /\ task' = [task EXCEPT !.at = outcome, !.refused = result]
    /\ sandbox' = [sandbox EXCEPT ![attempt] = "removed"]
    /\ output' = [output EXCEPT ![attempt] = NoFile]

EndAs(outcome) == EndFor(outcome, NoFile)

\* A lease asks for the pages that are missing, in their order.
Begin ==
    /\ task.at \in {"idle", "retry", "lost", "crashed"}
    /\ attempt < MaxAttempts
    /\ attempt' = attempt + 1
    /\ \E requested \in (SUBSET Pages) \ {{}} :
          task' = [NoTask EXCEPT !.at = "page", !.pages = requested,
                       !.page = CHOOSE p \in requested : \A q \in requested : p <= q]
    /\ sandbox' = [sandbox EXCEPT ![attempt + 1] = "present"]
    /\ rejected' = FALSE
    /\ UNCHANGED <<hostVars, profile, complex, output, child, faults>>

\* An image is decoded within its limits or not at all, or could not be read.
Unprepared == {"retry", "failed"}

\* The page is rendered, or the image normalised, into the sandbox; a page
\* that cannot be is refused for good or to be tried again.
PreparationFails ==
    /\ task.at = "page" /\ profile = "ocr"
    /\ faults < MaxFaults
    /\ faults' = faults + 1
    /\ \E outcome \in Unprepared :
          EndAs(outcome) /\ rejected' = (outcome = "failed")
    /\ UNCHANGED <<hostVars, profile, complex, attempt, child>>

NextBackend == IF profile = "native" THEN "native"
               ELSE IF task.at = "page" THEN "general" ELSE "structure"

\* Mutant of OutputBefore: the result of the child before is left for both.
OutputKept == output[attempt]

\* The OCR parser removes the result of the child before; the native parser
\* leaves it, to be written over.
OutputBefore == IF profile = "ocr" THEN NoFile ELSE output[attempt]

StartChild ==
    /\ task.at \in {"page", "complex"}
    /\ output' = [output EXCEPT ![attempt] = OutputBefore]
    /\ child' = [child EXCEPT ![attempt] = [at |-> "checking", page |-> task.page,
                                            backend |-> NextBackend, code |-> "ok"]]
    /\ task' = [task EXCEPT !.at = "waiting", !.backend = NextBackend]
    /\ UNCHANGED <<hostVars, profile, complex, attempt, sandbox, faults, rejected>>

\* Mutant of Overrun: the time limit is looked at when the child has ended.
OverrunAfterwards ==
    /\ task.at = "waiting" /\ child[attempt].at = "exited"
    /\ child' = Killed
    /\ EndAs("retry")
    /\ UNCHANGED <<hostVars, profile, complex, attempt, faults, rejected>>

\* The time limit passes, or the child writes more than its pipes may carry.
Overrun ==
    /\ task.at = "waiting"
    /\ child' = Killed
    /\ EndAs("retry")
    /\ UNCHANGED <<hostVars, profile, complex, attempt, faults, rejected>>

\* Mutant of Verdict: an answer that cannot be read is taken for a refusal.
VerdictOfGarbled(code) == IF code = "retry" THEN "retry" ELSE "failed"

\* What the exit code and the error on the pipe say of the failed child.
Verdict(code) == IF code = "final" THEN "failed" ELSE "retry"

ChildFailed ==
    /\ task.at = "waiting"
    /\ child[attempt].at = "exited" /\ child[attempt].code # "ok"
    /\ EndAs(Verdict(child[attempt].code))
    /\ UNCHANGED <<hostVars, profile, complex, attempt, child, faults, rejected>>

\* The result file is there and of the backend that was run.
ValidOcr(result) == result # NoFile /\ result.backend = task.backend

\* A native result is also of the page that was asked for.
ValidNative(result) == result # NoFile /\ result.of = task.page

Valid(result) == IF profile = "native" THEN ValidNative(result) ELSE ValidOcr(result)

\* Both children of a complex page ran from one version of the profile.
Agrees(result) ==
    task.backend = "structure" => result.version = task.seen.version

\* The general result shows regions that overlap.
IsComplex(page) == page \in complex

TakesStructure == task.backend = "general" /\ IsComplex(task.page) /\ StructureOn

ReadResult ==
    /\ task.at = "waiting"
    /\ child[attempt].at = "exited" /\ child[attempt].code = "ok"
    /\ LET result == output[attempt] IN
          IF Valid(result) /\ Agrees(result)
          THEN /\ task' = [task EXCEPT !.at = IF TakesStructure THEN "complex" ELSE "parsed",
                                       !.seen = result]
               /\ UNCHANGED <<sandbox, output>>
          ELSE EndFor("failed", result)
    /\ UNCHANGED <<hostVars, profile, complex, attempt, child, faults, rejected>>

\* Every page of an attempt has the backend and version of its first.
Consistent(result) ==
    task.base # NoFile => /\ result.backend = task.base.backend
                          /\ result.version = task.base.version

Remaining == {p \in task.pages : p > task.page}

\* The page is uploaded and checkpointed before the next child is started.
PackagePage ==
    /\ task.at = "parsed"
    /\ Consistent(task.seen)
    /\ LET packaged == [task EXCEPT
               !.packaged = @ \cup {<<task.page, task.seen>>},
               !.base = IF @ = NoFile THEN task.seen ELSE @]
       IN IF Remaining = {}
          THEN /\ task' = [packaged EXCEPT !.at = "done"]
               /\ sandbox' = [sandbox EXCEPT ![attempt] = "removed"]
               /\ output' = [output EXCEPT ![attempt] = NoFile]
          ELSE /\ task' = [packaged EXCEPT !.at = "page",
                     !.page = CHOOSE p \in Remaining : \A q \in Remaining : p <= q]
               /\ UNCHANGED <<sandbox, output>>
    /\ UNCHANGED <<hostVars, profile, complex, attempt, child, faults, rejected>>

RefusePage ==
    /\ task.at = "parsed"
    /\ ~Consistent(task.seen)
    /\ EndFor("failed", task.seen)
    /\ UNCHANGED <<hostVars, profile, complex, attempt, child, faults, rejected>>

\* The process cannot be started or the artifact cannot be written or sent.
Hinder ==
    /\ task.at \in {"page", "complex", "parsed"}
    /\ faults < MaxFaults
    /\ faults' = faults + 1
    /\ EndAs("retry")
    /\ UNCHANGED <<hostVars, profile, complex, attempt, child, rejected>>

\* Mutant of Cancelled: only a late child is killed, not a cancelled one.
CancelledOnly == child

\* A cancelled run kills its child before it passes the cancellation on.
Cancelled == Killed

\* The deadline of the task passes ("retry"), or a heartbeat finds the lease
\* gone, or the worker is told to stop ("lost").
Cancel ==
    /\ task.at \in Running
    /\ child' = Cancelled
    /\ \E outcome \in {"retry", "lost"} : EndAs(outcome)
    /\ UNCHANGED <<hostVars, profile, complex, attempt, faults, rejected>>

\* The worker is killed: the sandbox stays and the child, a session of its
\* own, runs on in it.
Die ==
    /\ task.at \in Running
    /\ faults < MaxFaults
    /\ faults' = faults + 1
    /\ task' = [task EXCEPT !.at = "crashed"]
    /\ UNCHANGED <<hostVars, profile, complex, attempt, fileVars, rejected>>

----------------------------------------------------------------------------

HostStep == Upgrade \/ \E b \in OcrBackends : WarmUp(b)

ChildStep ==
    \E a \in Attempts :
        CheckCache(a) \/ Recognise(a) \/ ParseNative(a) \/ Finish(a) \/ Break(a) \/ Refuse(a)

WorkerStep ==
    \/ StartChild \/ Overrun \/ ChildFailed \/ ReadResult
    \/ PackagePage \/ RefusePage

Next ==
    \/ HostStep \/ ChildStep \/ WorkerStep
    \/ Begin \/ PreparationFails \/ Hinder \/ Cancel \/ Die

Spec == Init /\ [][Next]_vars

----------------------------------------------------------------------------
(* What must hold.                                                          *)

\* The result that is packaged for a page is of that page, from this attempt's
\* own child and from the backend its complexity asks for: a child that ends
\* without a word never passes off what the child before it left (the unlink of
\* _run_backend, the coverage check of the native parser).
PackagedIsOwn ==
    \A packed \in task.packaged :
        LET page == packed[1]  result == packed[2] IN
        /\ result.of = page /\ result.by = attempt
        /\ result.backend = IF profile = "native" THEN "native"
                            ELSE IF page \in complex /\ StructureOn THEN "structure"
                            ELSE "general"

\* When an attempt has ended, other than by the death of its worker, no child
\* of it runs on and its private directory is gone, whether it was cancelled,
\* late or done (_kill_process_group, SandboxManager.create).
NothingRunsOn ==
    task.at \in Ended \ {"crashed"} =>
        /\ child[attempt].at \in {"none", "exited"}
        /\ sandbox[attempt] = "removed"

\* Two results of this attempt that no document may have together: made by different
\* versions of the profile, or for pages that need different backends
Disagree(r, s) ==
    /\ NoFile \notin {r, s} /\ r.by = attempt /\ s.by = attempt
    /\ \/ r.version # s.version
       \/ r.backend # s.backend /\ (r.of \in complex) # (s.of \in complex)

\* Dead and late children, models that are not ready and a worker that stops never fail
\* a document for good, whatever is upgraded meanwhile.  It takes a refusal of a child
\* (or a child that ends with exit code 0 and no result, which the parsers take for one),
\* or a result that disagrees with the general result of its page or with the first page
\* of the attempt: an upgrade alone, with results that agree, fails nothing.
TransientIsRetried ==
    task.at = "failed" =>
        \/ rejected
        \/ Disagree(task.seen, task.refused)
        \/ Disagree(task.base, task.refused)

\* A document is recognised page by page, each with the backend it needs: one
\* that mixes plain and complex pages is not refused for it when no child
\* failed and nothing was upgraded (profiles/paddle/README.md).
MixedIsParsed == task.at = "failed" => faults > 0 \/ installed > 1

----------------------------------------------------------------------------

\* The event loop of the worker goes on and its time limit fires; nothing is
\* assumed of a child.
Fairness == WF_vars(WorkerStep)

FairSpec == Spec /\ Fairness

\* Every attempt ends, though a child hangs for ever.
EveryAttemptEnds == task.at \in Running ~> task.at \in Ended
=============================================================================
