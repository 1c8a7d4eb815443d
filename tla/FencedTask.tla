------------------------------ MODULE FencedTask -----------------------------
(***************************************************************************)
(* What the job queue promises about one parse job, without leases, time,  *)
(* tokens or documents: a task is handed to workers at most MaxTries       *)
(* times, only the newest holder records results, an older try's results   *)
(* are never touched again, and a task that is done stays done until its   *)
(* results are discarded with it.                                          *)
(***************************************************************************)
EXTENDS Naturals

CONSTANTS Workers, NoWorker, MaxTries, Pages

VARIABLES
    phase,   \* absent, waiting, held, done or discarded
    tries,   \* how often the task was handed out
    holder,  \* the worker that holds it
    found    \* the pages each try recorded an outcome for

vars == <<phase, tries, holder, found>>

Phase == {"absent", "waiting", "held", "done", "discarded"}

Nothing == [t \in 1..MaxTries |-> {}]

Init ==
    /\ phase = "absent"
    /\ tries = 0
    /\ holder = NoWorker
    /\ found = Nothing

Submit ==
    /\ phase = "absent"
    /\ phase' = "waiting"
    /\ UNCHANGED <<tries, holder, found>>

\* To a new holder, also from one that is presumed dead
HandOut(w) ==
    /\ phase \in {"waiting", "held"}
    /\ tries < MaxTries
    /\ phase' = "held"
    /\ tries' = tries + 1
    /\ holder' = w
    /\ UNCHANGED found

\* The holder records the outcome of a page, once
Record(p) ==
    /\ phase = "held"
    /\ p \notin found[tries]
    /\ found' = [found EXCEPT ![tries] = @ \cup {p}]
    /\ UNCHANGED <<phase, tries, holder>>

GiveBack ==
    /\ phase = "held"
    /\ tries < MaxTries
    /\ phase' = "waiting"
    /\ holder' = NoWorker
    /\ UNCHANGED <<tries, found>>

\* Done, well or badly
Finish ==
    /\ phase \in {"waiting", "held"}
    /\ phase' = "done"
    /\ holder' = NoWorker
    /\ UNCHANGED <<tries, found>>

Discard ==
    /\ phase = "done"
    /\ phase' = "discarded"
    /\ found' = Nothing
    /\ UNCHANGED <<tries, holder>>

Next ==
    \/ Submit
    \/ \E w \in Workers : HandOut(w)
    \/ \E p \in Pages : Record(p)
    \/ GiveBack
    \/ Finish
    \/ Discard

Spec == Init /\ [][Next]_vars
=============================================================================
