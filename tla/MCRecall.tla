------------------------------- MODULE MCRecall -------------------------------
(* Values for model-checking Recall.                                         *)
EXTENDS Recall

CONSTANTS p1, p2, p3, ns, subject, ann, bob

MCScope(owner, visibility) ==
    [namespace |-> ns, subject |-> subject, owner |-> owner, visibility |-> visibility]
MCScopes == {MCScope(ann, "private"), MCScope(ann, "shared"),
             MCScope(bob, "private"), MCScope(bob, "public")}

\* Always valid, valid for an instant, and valid from an instant on.
MCValidTime ==
    [p \in Proposals |->
        [from |-> IF p = p1 THEN 0 ELSE 2, to |-> IF p = p2 THEN 3 ELSE NoTime]]

\* p1 and p2 have the same text, and p2 has more blanks in it.
MCText == [p \in Proposals |-> IF p \in {p1, p2} THEN "same" ELSE "other"]
MCTokens == [p \in Proposals |-> IF p = p1 THEN 1 ELSE 2]

\* All of the proposals are valid at 2.
MCRequest(owners, others, mode, system_at, budget, limit) ==
    [namespace |-> ns, subject |-> subject, private_owners |-> owners,
     allow_shared |-> others, allow_public |-> others,
     context |-> NoTask, include_global_working |-> TRUE,
     functions |-> {}, mode |-> mode, matches |-> Proposals,
     valid_at |-> 2, system_at |-> system_at,
     token_budget |-> budget, candidate_limit |-> limit]

\* Both modes with two queries, about the past and with a text that matches nothing,
\* and the modes with one query.
MCHistory ==
    {MCRequest({ann}, FALSE, mode, 1, 10, 3) : mode \in {"auto", "hybrid"}}
    \cup {[MCRequest({ann}, FALSE, mode, MaxTime, 10, 3) EXCEPT !.matches = {}] :
             mode \in {"auto", "hybrid"}}
    \cup {MCRequest({ann}, FALSE, mode, MaxTime, 10, 3) : mode \in {"lexical", "semantic"}}
\* Every grant.
MCGrants ==
    {MCRequest(owners, others, "lexical", MaxTime, 10, 3) :
        owners \in {{ann}, {bob}}, others \in BOOLEAN}
\* Budgets and limits around what three candidates need.
MCBudgets ==
    {MCRequest({ann}, FALSE, "lexical", MaxTime, budget, limit) :
        budget \in 1..4, limit \in 1..3}
MCRequests == MCHistory \cup MCGrants \cup MCBudgets

\* Bound: either two proposals in one scope, without conflicts and derivations, while
\* time passes, or three proposals in all scopes at one moment and without vectors.
MCWorlds ==
    \/ /\ operations[p3] = None /\ dependencies = {}
       /\ \A v \in StoredVersions : /\ ScopeOf(v) = MCScope(ann, "private")
                                    /\ versions[v].group = NoGroup
       /\ recall # NoRecall => recall.request \in MCHistory
    \/ /\ now = 0 /\ embedding \cup embeddings = {}
       /\ recall # NoRecall => recall.request \in MCGrants \cup MCBudgets
===============================================================================
