------------------------------ MODULE MCPortable -------------------------------
(* Values for model-checking Portable.                                       *)
EXTENDS Portable, TLC

CONSTANTS p1, p2, p3, ns, subject, ann, bob

MCScope(owner, visibility) ==
    [namespace |-> ns, subject |-> subject, owner |-> owner, visibility |-> visibility]
MCScopes == {MCScope(ann, "private"), MCScope(bob, "shared")}

MCAccess(owners, shared) ==
    [namespace |-> ns, subject |-> subject, owners |-> owners, shared |-> shared,
     public |-> FALSE]
MCAccesses == {MCAccess({ann}, TRUE), MCAccess({ann}, FALSE), MCAccess({bob}, TRUE)}

MCAlways == [p \in Proposals |-> [from |-> 0, to |-> NoTime]]

MCSymmetry == Permutations(Proposals)
===============================================================================
