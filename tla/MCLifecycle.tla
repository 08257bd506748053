----------------------------- MODULE MCLifecycle ------------------------------
(* Values for model-checking Lifecycle.                                      *)
EXTENDS Lifecycle, FiniteSets, TLC

CONSTANTS p1, p2, p3, p4, ns, task, subject, ann, bob

MCScope(owner, visibility) ==
    [namespace |-> ns, subject |-> subject, owner |-> owner, visibility |-> visibility]
MCOneScope == {MCScope(ann, "private")}

\* Every proposal is valid from the start: the runs are about other things.
MCAlways == [p \in Proposals |-> [from |-> 0, to |-> NoTime]]

\* Bound: beside vectors and working sets, two proposals are enough.
MCFewWithIndexes ==
    \/ embedding \cup embeddings = {} /\ \A k \in DOMAIN working : working[k] = None
    \/ Cardinality({p \in Proposals : operations[p] # None}) <= 2

ProposalSymmetry == Permutations(Proposals)
===============================================================================
