-------------------------------- MODULE Recall --------------------------------
(*****************************************************************************)
(* Recall over the tables of Lifecycle: the storage filter, the lexical and  *)
(* the semantic query with writers in between, the fallback of mode auto,    *)
(* and the selection of candidates within the token budget.                  *)
(*                                                                           *)
(* A recall keeps nothing when it ends, so one recall is followed, and it    *)
(* may start at any time.  Each query is one SQL statement and reads one     *)
(* snapshot; the two queries of a hybrid recall read two.  What a candidate  *)
(* holds is what the statement read: its group may change while the recall   *)
(* still works with it.  Scores are left out: any candidate may rank before  *)
(* any other, so one that is considered next is any that is left.            *)
(*****************************************************************************)
EXTENDS Lifecycle, FiniteSetsExt

CONSTANTS RecallRequests,  \* the requests that may be made
          Text,            \* normalized text of the content of each proposal
          Tokens           \* estimated tokens of that content

Mode == {"auto", "lexical", "semantic", "hybrid"}
Function == {"working", "lasting"}       \* lasting: factual or experiential

\* matches: the contents that share a token with the query text.
RecallRequest ==
    [namespace : Namespaces, subject : Subjects, private_owners : SUBSET Principals,
     allow_shared : BOOLEAN, allow_public : BOOLEAN,
     context : Tasks \cup {NoTask}, include_global_working : BOOLEAN,
     functions : SUBSET Function, mode : Mode, matches : SUBSET Proposals,
     valid_at : Instant, system_at : Instant,
     token_budget : Nat \ {0}, candidate_limit : Nat \ {0}]

\* validateRecallRequest and candidateWhere ask for an owner.
ASSUME RequestAssumption ==
    RecallRequests \subseteq {q \in RecallRequest : q.private_owners # {}}
ASSUME ContentAssumption == Tokens \in [Proposals -> Nat \ {0}]

VARIABLE recall

Candidate == [version : Proposals, memory : Proposals, function : Function,
              group : Proposals \cup {NoGroup}]
RecallPhase == {"idle", "lexical", "embed", "semantic", "requery", "again",
                "select", "done", "failed"}
Fallback == {"none", "embedding_not_configured", "embedding_unavailable",
             "no_compatible_embeddings"}

\* Candidates considered so far, as the trace records them: those selected,
\* and those passed over because an earlier one has the same key.
Recalling ==
    [pc : RecallPhase, request : RecallRequests, started_at : Instant,
     mode : Mode \ {"auto"}, fallback : Fallback,
     lexical : SUBSET Candidate, semantic : SUBSET Candidate,
     considered : SUBSET Candidate, selected : SUBSET Candidate,
     duplicates : SUBSET Candidate, tokens_used : Nat]

NoRecall == [pc |-> "idle"]

RecallTypeOK == TypeOK /\ recall \in Recalling \cup {NoRecall}

RecallInit == Init /\ recall = NoRecall
-------------------------------------------------------------------------------
(* The storage filter: candidateWhere.                                       *)

Authorized(scope, q) ==
    /\ scope.namespace = q.namespace /\ scope.subject = q.subject
    /\ \/ scope.visibility = "private" /\ scope.owner \in q.private_owners
       \/ scope.visibility = "shared" /\ q.allow_shared
       \/ scope.visibility = "public" /\ q.allow_public

\* Mutant: the end of the interval is not looked at.
MutInForce(from, to, at) == StoredAtMost(from, at)

\* A half-open interval, compared as stored texts.
InForce(from, to, at) ==
    StoredAtMost(from, at) /\ (to = NoTime \/ StoredBefore(at, to))

Believed(version, valid_at, system_at) ==
    /\ InForce(version.valid_from, version.valid_to, valid_at)
    /\ InForce(version.system_from, version.system_to, system_at)

WorkingVisible(memory, q) ==
    LET set == working[<<memory.scope.namespace, memory.task>>] IN
    /\ set # None /\ set.state = "active"
    /\ set.expires_at = NoTime \/ StoredBefore(q.system_at, set.expires_at)
    /\ IF q.context # NoTask THEN memory.task = q.context
       ELSE q.include_global_working /\ set.global_recall

FunctionOf(memory) == IF memory.task = NoTask THEN "lasting" ELSE "working"

Eligible(v, q) ==
    LET version == versions[v] memory == memories[version.memory] IN
    /\ Authorized(memory.scope, q)
    /\ memory.state = "active" /\ version.state \in {"current", "superseded"}
    /\ Believed(version, q.valid_at, q.system_at)
    /\ memory.task # NoTask => WorkingVisible(memory, q)
    /\ q.functions # {} => FunctionOf(memory) \in q.functions

CandidateOf(v) ==
    [version |-> v, memory |-> versions[v].memory, group |-> versions[v].group,
     function |-> FunctionOf(memories[versions[v].memory])]

\* poolLimit, and ORDER BY ... LIMIT: the best ones, as many as it admits.
PoolLimit(q) == Min({4 * q.candidate_limit, 1000})
Best(hits, q) == kSubset(Min({PoolLimit(q), Cardinality(hits)}), hits)

Hits(q, vs) == {CandidateOf(v) : v \in {x \in vs \cap StoredVersions : Eligible(x, q)}}
LexicalHits(q) == Hits(q, fts \cap q.matches)
SemanticHits(q) == Hits(q, embeddings \cap fts)
-------------------------------------------------------------------------------
(* Recall, one step per query.                                               *)

\* resolveMode; a request for vectors without an embedder is refused.
Resolved(q) ==
    IF q.mode # "auto" THEN q.mode ELSE IF Embedder THEN "hybrid" ELSE "lexical"

Start(q) ==
    /\ recall = NoRecall
    /\ q.mode \in {"semantic", "hybrid"} => Embedder
    /\ recall' = [pc |-> IF Resolved(q) = "semantic" THEN "embed" ELSE "lexical",
                  request |-> q, started_at |-> now, mode |-> Resolved(q),
                  fallback |-> IF q.mode = "auto" /\ ~Embedder
                               THEN "embedding_not_configured" ELSE "none",
                  lexical |-> {}, semantic |-> {},
                  considered |-> {}, selected |-> {}, duplicates |-> {},
                  tokens_used |-> 0]
    /\ UNCHANGED vars

At(phase) == recall.pc = phase
Continue(phase) == recall' = [recall EXCEPT !.pc = phase] /\ UNCHANGED vars

SearchLexicalCandidates ==
    /\ At("lexical")
    /\ \E hits \in Best(LexicalHits(recall.request), recall.request) :
          recall' = [recall EXCEPT !.lexical = hits,
                                   !.pc = IF recall.mode = "hybrid" THEN "embed"
                                          ELSE "select"]
    /\ UNCHANGED vars

EmbedQuery == At("embed") /\ Continue("semantic")

\* Mutant: a recall in an explicit mode degrades, too.
MutMayFallBack(q) == q.mode \in {"auto", "hybrid"}

MayFallBack(q) == q.mode = "auto"

\* Any error of the provider, of the query or of a stored vector.
SemanticFails ==
    /\ At("embed") \/ At("semantic")
    /\ recall' =
          IF ~MayFallBack(recall.request) THEN [recall EXCEPT !.pc = "failed"]
          ELSE [recall EXCEPT !.mode = "lexical", !.fallback = "embedding_unavailable",
                              !.pc = IF recall.lexical = {} THEN "requery" ELSE "select"]
    /\ UNCHANGED vars

\* Nothing of the semantic query is left to use.
WithoutVectors(r) ==
    IF r.request.mode = "auto"
    THEN [r EXCEPT !.mode = "lexical", !.fallback = "no_compatible_embeddings",
                   !.pc = IF r.lexical = {} THEN "again" ELSE "select"]
    ELSE IF r.request.mode = "hybrid" /\ r.lexical # {}
    THEN [r EXCEPT !.pc = "failed"]
    ELSE [r EXCEPT !.pc = "select"]

ListSemanticCandidates ==
    /\ At("semantic")
    /\ \E hits \in Best(SemanticHits(recall.request), recall.request) :
          recall' = IF hits = {} THEN WithoutVectors(recall)
                    ELSE [recall EXCEPT !.semantic = hits, !.pc = "select"]
    /\ UNCHANGED vars

\* An empty result is a nil slice, so the lexical query is made once more.  Its
\* success clears err, and the next test takes the failure for an empty answer.
Requery ==
    /\ At("requery")
    /\ \E hits \in Best(LexicalHits(recall.request), recall.request) :
          recall' = WithoutVectors([recall EXCEPT !.lexical = hits])
    /\ UNCHANGED vars

Again ==
    /\ At("again")
    /\ \E hits \in Best(LexicalHits(recall.request), recall.request) :
          recall' = [recall EXCEPT !.lexical = hits, !.pc = "select"]
    /\ UNCHANGED vars

LexicalFails ==
    (At("lexical") \/ At("requery") \/ At("again")) /\ Continue("failed")
-------------------------------------------------------------------------------
(* rankCandidates and selectCandidates.                                      *)

\* One entry per version; the row that the lexical query read is preferred.
Ranked ==
    recall.lexical \cup
    {c \in recall.semantic : \A l \in recall.lexical : l.version # c.version}

\* dedupeKey
Key(c) == <<c.function, Text[c.version]>>

Duplicate(c) == \E d \in recall.considered : Key(d) = Key(c)

\* Mutant: the last candidate may exceed the budget.
MutFits(c) == recall.tokens_used < recall.request.token_budget

Fits(c) == recall.tokens_used + Tokens[c.version] <= recall.request.token_budget

Taken(c) == ~Duplicate(c) /\ Fits(c)

Counted(c) ==
    IF Taken(c) THEN recall.tokens_used + Tokens[c.version] ELSE recall.tokens_used

MoreToConsider ==
    /\ recall.considered # Ranked
    /\ Cardinality(recall.considered) < recall.request.candidate_limit

Select(c) ==
    /\ At("select") /\ MoreToConsider
    /\ c \in Ranked \ recall.considered
    /\ recall' = [recall EXCEPT
          !.considered = @ \cup {c},
          !.duplicates = IF Duplicate(c) THEN @ \cup {c} ELSE @,
          !.selected = IF Taken(c) THEN @ \cup {c} ELSE @,
          !.tokens_used = Counted(c)]
    /\ UNCHANGED vars

\* The trace is stored, and the bundle returned; or storing it fails.
Answer == At("select") /\ ~MoreToConsider /\ (Continue("done") \/ Continue("failed"))
-------------------------------------------------------------------------------
\* Writers commit between the queries.  What they do once the last query has
\* been answered makes no difference to the recall.
Writer ==
    /\ recall.pc \notin {"select", "done", "failed"}
    /\ Next /\ UNCHANGED recall

RecallStep ==
    \/ SearchLexicalCandidates \/ EmbedQuery \/ ListSemanticCandidates
    \/ SemanticFails \/ Requery \/ Again \/ LexicalFails
    \/ \E c \in Ranked : Select(c)
    \/ Answer

RecallNext ==
    \/ Writer
    \/ \E q \in RecallRequests : Start(q)
    \/ recall # NoRecall /\ RecallStep

RecallSpec == RecallInit /\ [][RecallNext]_<<vars, recall>>
-------------------------------------------------------------------------------
(* Properties.                                                               *)

Found == recall.lexical \cup recall.semantic
Answered == recall.pc \in {"select", "done"}

\* What a recall finds is not derived, over any number of memories in between,
\* from a private memory of somebody whose private content the principal may
\* not read.  The filter looks at the scope of the memory alone, so this rests
\* on what apply has checked before.
NoForeignAncestry ==
    recall # NoRecall =>
        \A c \in Found, s \in StoredVersions :
            /\ c.version \in Descendants(s) /\ ScopeOf(s).visibility = "private"
               => ScopeOf(s).owner \in recall.request.private_owners

\* No writer, whenever it read its clock, can still reach the second of system_at.
Settled(system_at, at) ==
    (system_at \div TicksPerSecond + 1) * TicksPerSecond + MaxDelay <= at

\* u was closed and, after another version, w was begun in the second of at.
WithinSecond(u, w, at) ==
    /\ versions[u].system_to < versions[w].system_from
    /\ versions[u].system_to \div TicksPerSecond = at \div TicksPerSecond
    /\ versions[w].system_from \div TicksPerSecond = at \div TicksPerSecond

\* A recall that asks about a time that no writer can still reach finds at most
\* one version of a memory, although its two queries read the tables at two
\* moments and memories are superseded in between; unless the memory was
\* superseded several times in the second it asks about, in which the texts of
\* the instants are out of order.
OneVersionOfSettledPast ==
    recall # NoRecall /\ Settled(recall.request.system_at, recall.started_at) =>
        \A c, d \in Found :
           /\ {c.version, d.version} \subseteq StoredVersions
           /\ c.memory = d.memory /\ c.version # d.version
           => \/ WithinSecond(c.version, d.version, recall.request.system_at)
              \/ WithinSecond(d.version, c.version, recall.request.system_at)

\* What was believed at a system time that no writer can reach any more is not
\* added to, and is taken back only when a newer fact about the same memory is
\* stored, and only for valid times from the start of that fact on, to the end of
\* time: superseding closes the valid time of the row it supersedes, the only one
\* that holds the older belief, also for the time after the newer fact has ended.
SettledPastNarrows ==
    [][\A v \in {x \in Proposals : versions'[x] # versions[x]},
          valid_at \in 0..MaxTime, system_at \in 0..now :
          Settled(system_at, now) =>
             LET Now == versions[v] # None /\ Believed(versions[v], valid_at, system_at)
                 Then == versions'[v] # None /\ Believed(versions'[v], valid_at, system_at)
             IN /\ Then => Now
                /\ Now /\ versions'[v] # None /\ ~Then =>
                      \E s \in Proposals :
                         /\ versions[s] = None /\ versions'[s] # None
                         /\ versions'[s].memory = versions[v].memory
                         /\ ~StoredBefore(valid_at, versions'[s].valid_from)
      ]_<<vars, recall>>

\* A version that was visible at a pair of valid and system time which no writer can
\* reach any more stays visible there for as long as it is stored, so that historical
\* retrieval can recover it.  The code does not keep this: applyEvolution shortens
\* the valid time of the version it closes, for all system times.
SettledPastKept ==
    [][\A v \in StoredVersions, valid_at \in 0..MaxTime, system_at \in 0..now :
          /\ Settled(system_at, now) /\ versions'[v] # None
          /\ Believed(versions[v], valid_at, system_at)
          => Believed(versions'[v], valid_at, system_at)]_<<vars, recall>>

\* An explicit mode is never exchanged for another one, auto always says why it
\* is not hybrid, a lexical answer uses no vectors, and a hybrid answer that is
\* not empty does use them, on every path of failures and repeated queries.
HonestFallback ==
    recall # NoRecall /\ Answered =>
        /\ recall.request.mode # "auto" =>
              recall.mode = recall.request.mode /\ recall.fallback = "none"
        /\ recall.request.mode = "auto" =>
              (recall.mode = "lexical" <=> recall.fallback # "none")
        /\ recall.mode = "lexical" => recall.semantic = {}
        /\ recall.mode = "hybrid" /\ Found # {} => recall.semantic # {}

\* Selection keeps to the budget and selects no content twice, and whatever it
\* passed over has a reason that still holds at the end: it is a duplicate of a
\* candidate that was considered, or it does not fit.
SelectionSound ==
    recall # NoRecall =>
        /\ recall.tokens_used <= recall.request.token_budget
        /\ \A c, d \in recall.selected : Key(c) = Key(d) => c = d
        /\ recall.selected \cap recall.duplicates = {}
        /\ \A c \in recall.duplicates :
              \E d \in recall.considered \ recall.duplicates : Key(c) = Key(d)
        /\ \A c \in recall.considered \ (recall.selected \cup recall.duplicates) : ~Fits(c)
===============================================================================
