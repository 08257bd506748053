----------------------------- MODULE MCEvolution ------------------------------
(* Values for model-checking Evolution.                                      *)
EXTENDS Evolution, TLC

CONSTANTS p1, p2, p3, o1, o2, ns, other, subject, ann, task, tea, coffee, t1, t2

MCScope == [namespace |-> ns, subject |-> subject, owner |-> ann,
            visibility |-> "private"]
MCScopes == {MCScope}

MCObservation(context, text, change, captured_at) ==
    [scope |-> MCScope, context |-> context, text |-> text, change |-> change,
     captured_at |-> captured_at]

\* An observation that the rules take for a conflict, and one, made later and out
\* of the task, that they take for a correction.
MCObserved ==
    [o \in Observations |->
        IF o = o1 THEN MCObservation(task, tea, "conflict", 0)
        ELSE MCObservation(NoTask, coffee, "correction", 1)]
MCTraceNamespace == [t \in Traces |-> IF t = t1 THEN ns ELSE other]

MCValidTime == [p \in Proposals |-> [from |-> IF p = p3 THEN 1 ELSE 0, to |-> NoTime]]

MCSymmetry == Permutations({p1, p2})
===============================================================================
