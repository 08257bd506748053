------------------------------- MODULE MCAccess -------------------------------
(* Values for model-checking Access.                                         *)
EXTENDS Access, TLC

CONSTANTS t1, t2, c1, c2, home, away, ann, bob, k1, k2

MCGrant(namespace, owners, scopes) ==
    [namespace |-> namespace, owners |-> owners, scopes |-> scopes]

MCLocal == MCGrant(home, {ann}, Scope)

\* In the other namespace, an administrator of two owners, one of one of them,
\* and a writer; and a writer beside the local principal.
MCIssuable ==
    {MCGrant(away, {ann, bob}, {"admin"}), MCGrant(away, {bob}, {"admin"}),
     MCGrant(away, {bob}, {"memory:write"}), MCGrant(home, {bob}, {"memory:write"})}

Captured(keys) == {j \in Job : jobs[j] # None /\ j[2] \in keys}

\* Bound: either one memory per namespace and no writer at home, or two memories at
\* home, one derived from the other, which requests change one at a time.
MCWorlds ==
    \/ /\ Captured({k2}) = {}
       /\ \A t \in Tokens : tokens[t] # None => tokens[t].grant.namespace = away
    \/ /\ now = 0 /\ Captured({k1, k2}) \subseteq {home} \X Keys
       /\ \A t \in Tokens : tokens[t] # None =>
             /\ tokens[t].grant.namespace = home /\ ~tokens[t].revoked
             /\ tokens[t].expires_at = NoTime
       /\ \A j \in Captured({k1, k2}) :
             jobs[j].evidence = "untrusted" /\ jobs[j].state = "queued"
       /\ Cardinality({c \in Clients : requests[c] # None}) <= 1
       /\ \A c \in Clients : requests[c] # None =>
             requests[c].handler \in {"remember", "archive", "forget", "purge"}

MCSymmetry == Permutations(Clients) \cup Permutations(Tokens)
===============================================================================
