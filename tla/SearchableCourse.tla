--------------------------- MODULE SearchableCourse ---------------------------
(***************************************************************************)
(* What a course promises to those who ask it questions, without jobs,     *)
(* leases, attempts, manifests, traces or requests: the index is switched  *)
(* in one step to exactly the active revisions, a document only ever       *)
(* advances to newer ones, an answer is given once and for ever and cites  *)
(* what was searchable and active at that moment, and nothing that an      *)
(* answer cites is cleaned up.  A piece of evidence is a document with the *)
(* number of one of its revisions.                                         *)
(***************************************************************************)
EXTENDS Naturals

CONSTANTS Docs, Revs, Questions

VARIABLES
    current,    \* the active revisions of the documents that are not deleted
    index,      \* what the index of the course holds; nothing: it has none
    readable,   \* that index can be loaded, with just this content
    deleted,    \* documents their owner has deleted
    cleaned,    \* documents whose cleanup is complete
    answer      \* what the answer to each question cites; nothing: it has none

vars == <<current, index, readable, deleted, cleaned, answer>>

Holds(evidence, d) == \E e \in evidence : e[1] = d

Without(evidence, d) == {e \in evidence : e[1] # d}

Init ==
    /\ current = {} /\ index = {} /\ ~readable
    /\ deleted = {} /\ cleaned = {}
    /\ answer = [q \in Questions |-> {}]

\* The course is switched to an index with revision r of d and all other active revisions.
Switch(d, r) ==
    /\ d \notin deleted
    /\ \A e \in current : e[1] = d => e[2] <= r
    /\ current' = Without(current, d) \cup {<<d, r>>}
    /\ index' = current'
    /\ readable' = TRUE
    /\ UNCHANGED <<deleted, cleaned, answer>>

Delete(d) ==
    /\ d \notin deleted
    /\ deleted' = deleted \cup {d}
    /\ current' = Without(current, d)
    /\ UNCHANGED <<index, readable, cleaned, answer>>

\* A cleanup that fails takes only the files of the index.
Withdraw(d) ==
    /\ d \in deleted /\ Holds(index, d)
    /\ readable' = FALSE
    /\ UNCHANGED <<current, index, deleted, cleaned, answer>>

\* The index goes as a whole when it holds the document.
Cleanup(d) ==
    /\ d \in deleted
    /\ \A q \in Questions : ~Holds(answer[q], d)
    /\ cleaned' = cleaned \cup {d}
    /\ index' = IF Holds(index, d) THEN {} ELSE index
    /\ readable' = (readable /\ ~Holds(index, d))
    /\ UNCHANGED <<current, deleted, answer>>

Answer(q, cited) ==
    /\ answer[q] = {} /\ cited # {}
    /\ cited \subseteq index \cap current
    /\ answer' = [answer EXCEPT ![q] = cited]
    /\ UNCHANGED <<current, index, readable, deleted, cleaned>>

Next ==
    \/ \E d \in Docs : \E r \in Revs : Switch(d, r)
    \/ \E d \in Docs : Delete(d) \/ Withdraw(d) \/ Cleanup(d)
    \/ \E q \in Questions : \E cited \in SUBSET (index \cap current) : Answer(q, cited)

Spec == Init /\ [][Next]_vars
=============================================================================
