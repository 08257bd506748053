----------------------------- MODULE RecallProofs -----------------------------
(*****************************************************************************)
(* Theorems about Recall, for every value of its constants.                  *)
(*****************************************************************************)
EXTENDS Recall, LifecycleProofs

\* A recall only reads the store: what it does next to the writers is a
\* behaviour of Lifecycle, and every theorem about Lifecycle holds here too.
THEOREM RecallOnlyReads == RecallSpec => Spec
<1>1. RecallInit => Init
  BY DEF RecallInit
<1>2. [RecallNext]_<<vars, recall>> => [Next]_vars
  BY DEF RecallNext, RecallStep, Writer, Start, SearchLexicalCandidates, EmbedQuery,
         Continue, ListSemanticCandidates, SemanticFails, Requery, Again, LexicalFails,
         Select, Answer
<1> QED
  BY <1>1, <1>2, PTL DEF RecallSpec, Spec

\* A query returns candidates, none of them more than once.
LEMMA HitsAreCandidates ==
  ASSUME TypeOK, NEW q, NEW vs, NEW hits \in Best(Hits(q, vs), q)
  PROVE  hits \in SUBSET Candidate
<1>1. hits \subseteq Hits(q, vs)
  BY DEF Best, kSubset
<1>2. \A v \in StoredVersions : CandidateOf(v) \in Candidate
  BY StoredRows DEF CandidateOf, Candidate, MemoryVersion, FunctionOf, Function
<1> QED
  BY <1>1, <1>2 DEF Hits

\* So do both queries of a recall.
LEMMA QueriesFindCandidates ==
  ASSUME TypeOK
  PROVE  /\ \A hits \in Best(LexicalHits(recall.request), recall.request) :
               hits \in SUBSET Candidate
         /\ \A hits \in Best(SemanticHits(recall.request), recall.request) :
               hits \in SUBSET Candidate
<1>1. LexicalHits(recall.request) = Hits(recall.request, fts \cap recall.request.matches)
  BY DEF LexicalHits
<1>2. SemanticHits(recall.request) = Hits(recall.request, embeddings \cap fts)
  BY DEF SemanticHits
<1> QED
  BY <1>1, <1>2, HitsAreCandidates

\* What a recall record is.
RecallTyped == recall \in Recalling \cup {NoRecall}

\* A recall record has its fields.
LEMMA RecallFields ==
  ASSUME RecallTypeOK, recall # NoRecall
  PROVE  recall \in Recalling
  BY DEF RecallTypeOK

\* Every step of a recall leaves a record of the declared type.
THEOREM RecallTypeCorrect == RecallSpec => []RecallTypeOK
<1>1. RecallInit => RecallTyped
  BY DEF RecallInit, RecallTyped
<1>2. RecallTypeOK /\ [RecallNext]_<<vars, recall>> => RecallTyped'
  <2> SUFFICES ASSUME RecallTypeOK, [RecallNext]_<<vars, recall>>
               PROVE  recall' \in Recalling \cup {NoRecall}
    BY DEF RecallTyped
  <2>1. ASSUME NEW q \in RecallRequests, Start(q)
        PROVE  recall' \in Recalling
    <3>1. q \in RecallRequest /\ now \in Instant
      BY RequestAssumption DEF RecallTypeOK, TypeOK
    <3>2. Resolved(q) \in Mode \ {"auto"}
      BY <3>1 DEF Resolved, Mode, RecallRequest
    <3> QED
      BY <2>1, <3>1, <3>2 DEF Start, Recalling, RecallPhase, Fallback
  <2>2. ASSUME recall # NoRecall, RecallStep
        PROVE  recall' \in Recalling
    <3> USE <2>2, RecallFields
    <3>1. CASE SearchLexicalCandidates
      <4>1. PICK hits \in Best(LexicalHits(recall.request), recall.request) :
              recall' = [recall EXCEPT !.lexical = hits,
                                       !.pc = IF recall.mode = "hybrid" THEN "embed"
                                              ELSE "select"]
        BY <3>1 DEF SearchLexicalCandidates
      <4>2. hits \in SUBSET Candidate
        BY <4>1, QueriesFindCandidates DEF RecallTypeOK
      <4> QED
        BY <4>1, <4>2 DEF Recalling, RecallPhase
    <3>2. CASE EmbedQuery \/ LexicalFails \/ Answer
      BY <3>2 DEF EmbedQuery, LexicalFails, Answer, Continue, Recalling, RecallPhase
    <3>3. CASE ListSemanticCandidates
      <4>1. PICK hits \in Best(SemanticHits(recall.request), recall.request) :
              recall' = IF hits = {} THEN WithoutVectors(recall)
                        ELSE [recall EXCEPT !.semantic = hits, !.pc = "select"]
        BY <3>3 DEF ListSemanticCandidates
      <4>2. hits \in SUBSET Candidate
        BY <4>1, QueriesFindCandidates DEF RecallTypeOK
      <4>3. WithoutVectors(recall) \in Recalling
        BY DEF WithoutVectors, Recalling, RecallPhase, Fallback, Mode
      <4> QED
        BY <4>1, <4>2, <4>3 DEF Recalling, RecallPhase
    <3>4. CASE SemanticFails
      BY <3>4 DEF SemanticFails, Recalling, RecallPhase, Fallback, Mode
    <3>5. CASE Requery
      <4>1. PICK hits \in Best(LexicalHits(recall.request), recall.request) :
              recall' = WithoutVectors([recall EXCEPT !.lexical = hits])
        BY <3>5 DEF Requery
      <4>2. hits \in SUBSET Candidate
        BY <4>1, QueriesFindCandidates DEF RecallTypeOK
      <4>3. [recall EXCEPT !.lexical = hits] \in Recalling
        BY <4>2 DEF Recalling
      <4> QED
        BY <4>1, <4>3 DEF WithoutVectors, Recalling, RecallPhase, Fallback, Mode
    <3>6. CASE Again
      <4>1. PICK hits \in Best(LexicalHits(recall.request), recall.request) :
              recall' = [recall EXCEPT !.lexical = hits, !.pc = "select"]
        BY <3>6 DEF Again
      <4>2. hits \in SUBSET Candidate
        BY <4>1, QueriesFindCandidates DEF RecallTypeOK
      <4> QED
        BY <4>1, <4>2 DEF Recalling, RecallPhase
    <3>7. ASSUME NEW c \in Ranked, Select(c)
          PROVE  recall' \in Recalling
      <4>1. c \in Candidate
        BY DEF Ranked, Recalling
      <4>2. Tokens[c.version] \in Nat
        BY <4>1, ContentAssumption DEF Candidate
      <4>3. Counted(c) \in Nat
        BY <4>2 DEF Counted, Recalling
      <4>4. /\ recall.considered \cup {c} \in SUBSET Candidate
            /\ (IF Duplicate(c) THEN recall.duplicates \cup {c} ELSE recall.duplicates)
                  \in SUBSET Candidate
            /\ (IF Taken(c) THEN recall.selected \cup {c} ELSE recall.selected)
                  \in SUBSET Candidate
        BY <4>1 DEF Recalling
      <4> QED
        BY <3>7, <4>3, <4>4 DEF Select, Recalling
    <3> QED
      BY <3>1, <3>2, <3>3, <3>4, <3>5, <3>6, <3>7 DEF RecallStep
  <2>3. CASE Writer \/ UNCHANGED <<vars, recall>>
    BY <2>3 DEF Writer, RecallTypeOK
  <2> QED
    BY <2>1, <2>2, <2>3 DEF RecallNext
<1>3. RecallTypeOK <=> TypeOK /\ RecallTyped
  BY DEF RecallTypeOK, RecallTyped
<1> QED
  BY <1>1, <1>2, <1>3, RecallOnlyReads, TypeCorrect, PTL DEF RecallSpec
-------------------------------------------------------------------------------
(* Fallback.                                                                 *)

\* What holds before the candidates are ranked: how far the modes have been
\* narrowed down when each query is made.
FallbackSoFar ==
    recall # NoRecall =>
        /\ recall.pc = "lexical" =>
              /\ recall.mode = Resolved(recall.request) /\ recall.mode # "semantic"
              /\ recall.semantic = {}
              /\ recall.fallback = IF recall.request.mode = "auto" /\ ~Embedder
                                   THEN "embedding_not_configured" ELSE "none"
        /\ recall.pc \in {"embed", "semantic"} =>
              /\ recall.mode = Resolved(recall.request)
              /\ recall.mode \in {"hybrid", "semantic"}
              /\ recall.mode = "semantic" => recall.request.mode = "semantic"
              /\ recall.semantic = {} /\ recall.fallback = "none"
        /\ recall.pc \in {"requery", "again"} =>
              /\ recall.request.mode = "auto" /\ recall.mode = "lexical"
              /\ recall.semantic = {} /\ recall.fallback # "none"

FallbackInv == FallbackSoFar /\ HonestFallback

\* Recall degrades only in mode auto, always with a reason, and a hybrid answer
\* without vectors is refused, whatever fails and however often a query of
\* Recall is made again.
THEOREM FallbackIsHonest == RecallSpec => []HonestFallback
<1>1. RecallInit => FallbackInv
  BY DEF RecallInit, FallbackInv, FallbackSoFar, HonestFallback
<1>2. RecallTypeOK /\ FallbackInv /\ [RecallNext]_<<vars, recall>> => FallbackInv'
  <2> SUFFICES ASSUME RecallTypeOK, FallbackInv, [RecallNext]_<<vars, recall>>
               PROVE  FallbackInv'
    OBVIOUS
  <2> USE DEF FallbackInv, FallbackSoFar, HonestFallback, Answered, Found
  <2>1. ASSUME NEW q \in RecallRequests, Start(q)
        PROVE  FallbackInv'
    <3>1. q.mode \in Mode
      BY RequestAssumption DEF RecallRequest
    <3> QED
      BY <2>1, <3>1 DEF Start, Resolved, Mode
  <2>2. ASSUME recall # NoRecall, RecallStep
        PROVE  FallbackInv'
    <3>1. recall \in Recalling /\ recall.request.mode \in Mode
      BY <2>2, RecallFields, RequestAssumption DEF Recalling, RecallRequest
    <3>2. CASE SearchLexicalCandidates
      BY <2>2, <3>1, <3>2 DEF SearchLexicalCandidates, At, Recalling, Resolved, Mode
    <3>3. CASE EmbedQuery
      BY <2>2, <3>1, <3>3 DEF EmbedQuery, Continue, At, Recalling
    <3>4. CASE ListSemanticCandidates
      BY <2>2, <3>1, <3>4
         DEF ListSemanticCandidates, WithoutVectors, At, Recalling, Resolved, Mode
    <3>5. CASE SemanticFails
      BY <2>2, <3>1, <3>5 DEF SemanticFails, MayFallBack, At, Recalling
    <3>6. CASE Requery
      BY <2>2, <3>1, <3>6 DEF Requery, WithoutVectors, At, Recalling
    <3>7. CASE Again
      BY <2>2, <3>1, <3>7 DEF Again, At, Recalling
    <3>8. CASE LexicalFails \/ Answer
      BY <2>2, <3>1, <3>8 DEF LexicalFails, Answer, Continue, At, Recalling
    <3>9. ASSUME NEW c \in Ranked, Select(c)
          PROVE  FallbackInv'
      BY <2>2, <3>1, <3>9 DEF Select, At, Recalling
    <3> QED
      BY <2>2, <3>2, <3>3, <3>4, <3>5, <3>6, <3>7, <3>8, <3>9 DEF RecallStep
  <2>3. CASE Writer \/ UNCHANGED <<vars, recall>>
    BY <2>3 DEF Writer
  <2> QED
    BY <2>1, <2>2, <2>3 DEF RecallNext
<1>3. FallbackInv => HonestFallback
  BY DEF FallbackInv
<1> QED
  BY <1>1, <1>2, <1>3, RecallTypeCorrect, PTL DEF RecallSpec
-------------------------------------------------------------------------------
(* Selection.                                                                *)

\* Besides SelectionSound: every candidate passed over or selected was
\* considered, nothing is considered before the ranking, and each key that was
\* considered has a first candidate, which is no duplicate.
SelectionSoFar ==
    recall # NoRecall =>
        /\ recall.selected \subseteq recall.considered
        /\ recall.duplicates \subseteq recall.considered

SelectionInv == SelectionSoFar /\ SelectionSound

\* selectCandidates keeps within the budget, selects no content twice, and
\* leaves out nothing that would fit.
THEOREM SelectionIsSound == RecallSpec => []SelectionSound
<1>1. RecallInit => SelectionInv
  BY DEF RecallInit, SelectionInv, SelectionSoFar, SelectionSound
<1>2. RecallTypeOK /\ SelectionInv /\ [RecallNext]_<<vars, recall>> => SelectionInv'
  <2> SUFFICES ASSUME RecallTypeOK, SelectionInv, [RecallNext]_<<vars, recall>>
               PROVE  SelectionInv'
    OBVIOUS
  <2>1. ASSUME NEW q \in RecallRequests, Start(q)
        PROVE  SelectionInv'
    <3>1. q.token_budget \in Nat
      BY RequestAssumption DEF RecallRequest
    <3> QED
      BY <2>1, <3>1 DEF Start, SelectionInv, SelectionSoFar, SelectionSound, Key, Fits
  <2>2. ASSUME recall # NoRecall, NEW c \in Ranked, Select(c)
        PROVE  SelectionInv'
    <3> DEFINE r == recall'
    <3>1. recall \in Recalling /\ recall.request.token_budget \in Nat
      BY <2>2, RecallFields, RequestAssumption DEF Recalling, RecallRequest
    <3>2. /\ r.considered = recall.considered \cup {c}
          /\ r.duplicates = IF Duplicate(c) THEN recall.duplicates \cup {c}
                            ELSE recall.duplicates
          /\ r.selected = IF Taken(c) THEN recall.selected \cup {c} ELSE recall.selected
          /\ r.tokens_used = Counted(c)
          /\ r.request = recall.request
      BY <2>2, <3>1 DEF Select, Recalling
    <3>3. /\ recall.tokens_used \in Nat /\ c \in Candidate
          /\ \A d \in Candidate : Tokens[d.version] \in Nat
          /\ c \notin recall.considered /\ recall.considered \subseteq Candidate
      BY <2>2, <3>1, ContentAssumption DEF Recalling, Ranked, Candidate, Select
    <3>4. r # NoRecall /\ recall # NoRecall
      BY <2>2, <3>1 DEF Select, Recalling, NoRecall
    <3>5. r.tokens_used >= recall.tokens_used /\ r.tokens_used \in Nat
      BY <3>2, <3>3 DEF Counted
    <3>6. r.tokens_used <= r.request.token_budget
      BY <2>2, <3>1, <3>2, <3>3 DEF SelectionInv, SelectionSound, Counted, Taken, Fits
    <3>7. /\ r.selected \subseteq r.considered /\ r.duplicates \subseteq r.considered
          /\ r.selected \cap r.duplicates = {}
      BY <2>2, <3>2, <3>3 DEF SelectionInv, SelectionSoFar, SelectionSound, Taken
    <3>8. \A d, e \in r.selected : Key(d) = Key(e) => d = e
      BY <2>2, <3>2 DEF SelectionInv, SelectionSoFar, SelectionSound, Taken, Duplicate
    <3>9. \A d \in r.duplicates :
             \E e \in r.considered \ r.duplicates : Key(d) = Key(e)
      BY <2>2, <3>2, <3>3 DEF SelectionInv, SelectionSoFar, SelectionSound, Duplicate
    <3>10. \A d \in r.considered \ (r.selected \cup r.duplicates) : ~Fits(d)'
      BY <2>2, <3>1, <3>2, <3>3, <3>5 DEF SelectionInv, SelectionSound, Taken, Fits, Counted
    <3> QED
      BY <3>4, <3>6, <3>7, <3>8, <3>9, <3>10
         DEF SelectionInv, SelectionSoFar, SelectionSound, Key
  <2>3. ASSUME recall # NoRecall, RecallStep, ~\E c \in Ranked : Select(c)
        PROVE  SelectionInv'
    <3>1. recall \in Recalling
      BY <2>3, RecallFields
    <3>2. /\ recall'.considered = recall.considered /\ recall'.selected = recall.selected
          /\ recall'.duplicates = recall.duplicates /\ recall'.request = recall.request
          /\ recall'.tokens_used = recall.tokens_used /\ recall' # NoRecall
      BY <2>3, <3>1 DEF RecallStep, SearchLexicalCandidates, EmbedQuery, Continue,
         ListSemanticCandidates, WithoutVectors, SemanticFails, Requery, Again,
         LexicalFails, Answer, Recalling, NoRecall
    <3> QED
      BY <2>3, <3>2 DEF SelectionInv, SelectionSoFar, SelectionSound, Key, Fits
  <2>4. CASE Writer \/ UNCHANGED <<vars, recall>>
    BY <2>4 DEF Writer, SelectionInv, SelectionSoFar, SelectionSound, Key, Fits
  <2> QED
    BY <2>1, <2>2, <2>3, <2>4 DEF RecallNext
<1>3. SelectionInv => SelectionSound
  BY DEF SelectionInv
<1> QED
  BY <1>1, <1>2, <1>3, RecallTypeCorrect, PTL DEF RecallSpec
-------------------------------------------------------------------------------
(* Authorization.                                                            *)

\* What a recall has found was applied before it started to look, and as long
\* as it is stored its scope is one that the principal may read.
FoundAuthorized ==
    recall # NoRecall =>
        \A c \in Found :
            /\ ~New(c.version)
            /\ c.version \in StoredVersions
                  => Authorized(ScopeOf(c.version), recall.request)

\* What a query returns is stored, and its scope is authorized.
LEMMA HitsAreAuthorized ==
  ASSUME RowsInv, NEW q, NEW vs, NEW hits \in Best(Hits(q, vs), q), NEW c \in hits
  PROVE  ~New(c.version) /\ Authorized(ScopeOf(c.version), q)
<1>1. c \in Hits(q, vs)
  BY DEF Best, kSubset
<1>2. PICK v \in StoredVersions : Eligible(v, q) /\ c = CandidateOf(v)
  BY <1>1 DEF Hits
<1>3. c.version = v
  BY <1>2 DEF CandidateOf
<1> QED
  BY <1>2, <1>3 DEF Eligible, ScopeOf, RowsInv, Made, New

\* The scopes and the operations that FoundAuthorized speaks of are kept by the
\* writers, and a version that was purged is not inserted again.
LEMMA WritersKeepFound ==
  ASSUME RowsInv, RowsInv', RecallTyped, FoundAuthorized, [Next]_vars, UNCHANGED recall
  PROVE  FoundAuthorized'
<1> SUFFICES ASSUME recall # NoRecall, NEW c \in Found
             PROVE  /\ ~New(c.version)'
                    /\ c.version \in StoredVersions'
                          => Authorized(ScopeOf(c.version)', recall.request)
  BY DEF FoundAuthorized, Found, Authorized
<1>1. c.version \in Proposals /\ ~New(c.version)
  BY DEF FoundAuthorized, Found, RecallTyped, Recalling, Candidate
<1>2. ~New(c.version)' /\ (c.version \in StoredVersions' => c.version \in StoredVersions)
  BY <1>1, NotRemade
<1>3. ASSUME c.version \in StoredVersions'
      PROVE  Authorized(ScopeOf(c.version)', recall.request)
  <2>1. c.version \in StoredVersions
    BY <1>2, <1>3
  <2>2. ScopeOf(c.version)' = ScopeOf(c.version)
    BY <1>3, <2>1, StoredScopes, ScopesKept DEF ScopeOf, RowsInv, Homed
  <2> QED
    BY <2>1, <2>2 DEF FoundAuthorized
<1> QED
  BY <1>2, <1>3

\* What is found is found by a query, which reads one state of the store.
FoundBy(c, q) == \E vs : \E hits \in Best(Hits(q, vs), q) : c \in hits

\* A step of the recall adds only what a query of its own has returned.
LEMMA QueriesFind ==
  ASSUME RecallTyped, recall # NoRecall, RecallStep
  PROVE  /\ UNCHANGED vars /\ recall' # NoRecall /\ recall'.request = recall.request
         /\ \A c \in Found' : c \in Found \/ FoundBy(c, recall.request)
<1> DEFINE q == recall.request
<1>1. recall \in Recalling
  BY DEF RecallTyped
<1>2. UNCHANGED vars
  BY DEF RecallStep, SearchLexicalCandidates, EmbedQuery, Continue, ListSemanticCandidates,
         SemanticFails, Requery, Again, LexicalFails, Select, Answer
<1>3. \A hits \in Best(LexicalHits(q), q) : \A c \in hits : FoundBy(c, q)
  BY DEF LexicalHits, FoundBy
<1>4. \A hits \in Best(SemanticHits(q), q) : \A c \in hits : FoundBy(c, q)
  BY DEF SemanticHits, FoundBy
<1>5. CASE SearchLexicalCandidates
  <2>1. PICK hits \in Best(LexicalHits(q), q) :
          recall' = [recall EXCEPT !.lexical = hits,
                                   !.pc = IF recall.mode = "hybrid" THEN "embed"
                                          ELSE "select"]
    BY <1>5 DEF SearchLexicalCandidates
  <2>2. /\ recall'.request = q /\ recall'.lexical = hits
        /\ recall'.semantic = recall.semantic /\ recall' # NoRecall
    BY <1>1, <2>1 DEF Recalling, NoRecall
  <2> QED BY <1>2, <1>3, <2>2 DEF Found
<1>6. CASE ListSemanticCandidates
  <2>1. PICK hits \in Best(SemanticHits(q), q) :
          recall' = IF hits = {} THEN WithoutVectors(recall)
                    ELSE [recall EXCEPT !.semantic = hits, !.pc = "select"]
    BY <1>6 DEF ListSemanticCandidates
  <2>2. /\ recall'.request = q /\ recall'.lexical = recall.lexical
        /\ recall'.semantic \in {recall.semantic, hits} /\ recall' # NoRecall
    BY <1>1, <2>1 DEF Recalling, WithoutVectors, NoRecall
  <2> QED BY <1>2, <1>4, <2>2 DEF Found
<1>7. CASE Requery \/ Again
  <2>1. PICK hits \in Best(LexicalHits(q), q) :
           \/ recall' = WithoutVectors([recall EXCEPT !.lexical = hits])
           \/ recall' = [recall EXCEPT !.lexical = hits, !.pc = "select"]
    BY <1>7 DEF Requery, Again
  <2>2. /\ recall'.request = q /\ recall'.lexical = hits
        /\ recall'.semantic = recall.semantic /\ recall' # NoRecall
    BY <1>1, <2>1 DEF Recalling, WithoutVectors, NoRecall
  <2> QED BY <1>2, <1>3, <2>2 DEF Found
<1>8. CASE \/ EmbedQuery \/ SemanticFails \/ LexicalFails \/ Answer
           \/ \E c \in Ranked : Select(c)
  <2>1. /\ recall'.request = q /\ recall'.lexical = recall.lexical
        /\ recall'.semantic = recall.semantic /\ recall' # NoRecall
    BY <1>1, <1>8 DEF EmbedQuery, SemanticFails, LexicalFails, Answer, Continue, Select,
       Recalling, NoRecall
  <2> QED BY <1>2, <2>1 DEF Found
<1> QED BY <1>5, <1>6, <1>7, <1>8 DEF RecallStep

\* So whatever holds of the results of every query holds of what is found.
LEMMA QueriesKeepFound ==
  ASSUME RowsInv, RecallTyped, FoundAuthorized, recall # NoRecall, RecallStep
  PROVE  FoundAuthorized'
<1>1. /\ UNCHANGED vars /\ recall' # NoRecall /\ recall'.request = recall.request
      /\ \A c \in Found' : c \in Found \/ FoundBy(c, recall.request)
  BY QueriesFind
<1>2. \A c : FoundBy(c, recall.request) =>
         ~New(c.version) /\ Authorized(ScopeOf(c.version), recall.request)
  BY HitsAreAuthorized DEF FoundBy
<1> QED BY <1>1, <1>2
        DEF FoundAuthorized, New, StoredVersions, ScopeOf, Authorized, vars

\* A recall finds nothing that was derived, over any number of memories and by
\* whatever chain of operations, from private content that its principal may
\* not read, although candidateWhere looks at the scope of one memory only.
THEOREM AncestryIsAuthorized == RecallSpec => []NoForeignAncestry
<1>1. RecallInit => FoundAuthorized
  BY DEF RecallInit, FoundAuthorized
<1>2. RowsInv /\ RowsInv' /\ RecallTyped /\ FoundAuthorized /\ [RecallNext]_<<vars, recall>>
         => FoundAuthorized'
  <2> SUFFICES ASSUME RowsInv, RowsInv', RecallTyped, FoundAuthorized,
                      [RecallNext]_<<vars, recall>>
               PROVE  FoundAuthorized'
    OBVIOUS
  <2>1. ASSUME NEW q \in RecallRequests, Start(q)
        PROVE  FoundAuthorized'
    BY <2>1 DEF Start, FoundAuthorized, Found
  <2>2. ASSUME recall # NoRecall, RecallStep
        PROVE  FoundAuthorized'
    BY <2>2, QueriesKeepFound
  <2>3. CASE Writer \/ UNCHANGED <<vars, recall>>
    BY <2>3, WritersKeepFound DEF Writer
  <2> QED
    BY <2>1, <2>2, <2>3 DEF RecallNext
<1>3. RowsInv /\ EdgesFlow /\ RecallTyped /\ FoundAuthorized => NoForeignAncestry
  <2> SUFFICES ASSUME RowsInv, EdgesFlow, FoundAuthorized, recall # NoRecall,
                      NEW c \in Found, NEW s \in StoredVersions,
                      c.version \in Descendants(s), ScopeOf(s).visibility = "private"
               PROVE  ScopeOf(s).owner \in recall.request.private_owners
    BY DEF NoForeignAncestry
  <2>1. c.version \in StoredVersions /\ MayFlow(ScopeOf(s), ScopeOf(c.version))
    BY PathsFlow
  <2>2. Authorized(ScopeOf(c.version), recall.request)
    BY <2>1 DEF FoundAuthorized
  <2> QED
    BY <2>1, <2>2 DEF MayFlow, Authorized
<1>4. RecallTypeOK => RecallTyped
  BY DEF RecallTypeOK, RecallTyped
<1> QED
  BY <1>1, <1>2, <1>3, <1>4, RecallOnlyReads, EdgesAlways, RecallTypeCorrect, PTL
     DEF RecallSpec
-------------------------------------------------------------------------------
(* Instants and their texts.                                                 *)

\* A second has ticks.
LEMMA SecondTicks == TicksPerSecond \in Nat \ {0}
  BY PowerAssumption, DigitsAssumption DEF TicksPerSecond

\* Whole seconds and the ticks left over.
LEMMA WholeSeconds ==
  ASSUME NEW t \in Nat, NEW k \in Nat \ {0}
  PROVE  t \div k \in Nat /\ k * (t \div k) <= t /\ t < k * (t \div k) + k
  OBVIOUS

\* The texts agree with the instants about the order of the seconds.
LEMMA StoredSeconds ==
  ASSUME NEW a \in Instant, NEW b \in Instant
  PROVE  /\ a \div TicksPerSecond \in Nat /\ b \div TicksPerSecond \in Nat
         /\ StoredBefore(a, b) => a \div TicksPerSecond <= b \div TicksPerSecond
         /\ a \div TicksPerSecond < b \div TicksPerSecond => StoredBefore(a, b)
<1> DEFINE A == a \div TicksPerSecond
           B == b \div TicksPerSecond
<1>1. A \in Nat /\ B \in Nat
  BY SecondTicks, WholeSeconds DEF Instant
<1>2. formatTime(a)[0] = A /\ formatTime(b)[0] = B
  BY DigitsAssumption DEF formatTime
<1> HIDE DEF A, B
<1>3. ASSUME StoredBefore(a, b)
      PROVE  A <= B
  <2>1. PICK i \in 0..Digits :
           /\ formatTime(a)[i] < formatTime(b)[i]
           /\ \A j \in 0..(i - 1) : formatTime(a)[j] = formatTime(b)[j]
    BY <1>3 DEF StoredBefore, TextLess
  <2>2. CASE i = 0
    BY <1>1, <1>2, <2>1, <2>2
  <2>3. CASE i # 0
    <3>1. 0 \in 0..(i - 1)
      BY <2>3, DigitsAssumption
    <3> QED BY <1>1, <1>2, <2>1, <3>1
  <2> QED BY <2>2, <2>3
<1>4. ASSUME A < B
      PROVE  StoredBefore(a, b)
  <2>1. 0 \in 0..Digits /\ 0..(0 - 1) = {}
    BY DigitsAssumption
  <2> QED BY <1>2, <1>4, <2>1 DEF StoredBefore, TextLess
<1> QED BY <1>1, <1>3, <1>4 DEF A, B

\* A text is made of numbers.
LEMMA TextNumbers ==
  ASSUME NEW t \in Instant, NEW i \in 0..Digits
  PROVE  formatTime(t)[i] \in Int
<1>1. CASE i = 0
  BY <1>1, StoredSeconds DEF formatTime
<1>2. CASE i # 0 /\ Trimmed(t, i)
  BY <1>2, RadixAssumption DEF formatTime
<1>3. CASE i # 0 /\ ~Trimmed(t, i)
  <2>1. formatTime(t)[i] = (t \div (Radix ^ (Digits - i))) % Radix
    BY <1>3 DEF formatTime
  <2>2. Radix ^ (Digits - i) \in Nat \ {0}
    BY <1>3, PowerAssumption, DigitsAssumption
  <2>3. t \div (Radix ^ (Digits - i)) \in Nat
    BY <2>2, WholeSeconds DEF Instant
  <2> QED BY <2>1, <2>3, RadixAssumption
<1> QED BY <1>1, <1>2, <1>3

\* The order of the texts is strict, whatever it says about the instants.
LEMMA StoredStrict ==
  ASSUME NEW a \in Instant, NEW b \in Instant, StoredBefore(a, b)
  PROVE  a # b /\ ~StoredBefore(b, a)
<1> DEFINE x == formatTime(a)
           y == formatTime(b)
<1>1. \A i \in 0..Digits : x[i] \in Int /\ y[i] \in Int
  BY TextNumbers
<1>2. PICK i \in 0..Digits : x[i] < y[i] /\ \A k \in 0..(i - 1) : x[k] = y[k]
  BY DEF StoredBefore, TextLess
<1> HIDE DEF x, y
<1>3. ASSUME NEW j \in 0..Digits, y[j] < x[j], \A k \in 0..(j - 1) : y[k] = x[k]
      PROVE  FALSE
  <2>1. CASE i < j
    <3>1. i \in 0..(j - 1)
      BY <2>1, DigitsAssumption
    <3> QED BY <1>1, <1>2, <1>3, <3>1
  <2>2. CASE j < i
    <3>1. j \in 0..(i - 1)
      BY <2>2, DigitsAssumption
    <3> QED BY <1>1, <1>2, <1>3, <3>1
  <2>3. CASE i = j
    BY <1>1, <1>2, <1>3, <2>3
  <2> QED BY <2>1, <2>2, <2>3, DigitsAssumption
<1>4. x # y
  BY <1>1, <1>2
<1>5. ~StoredBefore(b, a)
  BY <1>3 DEF StoredBefore, TextLess, x, y
<1> QED BY <1>4, <1>5 DEF x, y

\* And it is transitive.
LEMMA StoredTransitive ==
  ASSUME NEW a \in Instant, NEW b \in Instant, NEW c \in Instant,
         StoredBefore(a, b), StoredBefore(b, c)
  PROVE  StoredBefore(a, c)
<1> DEFINE x == formatTime(a)
           y == formatTime(b)
           z == formatTime(c)
<1>1. \A i \in 0..Digits : x[i] \in Int /\ y[i] \in Int /\ z[i] \in Int
  BY TextNumbers
<1>2. PICK i \in 0..Digits : x[i] < y[i] /\ \A k \in 0..(i - 1) : x[k] = y[k]
  BY DEF StoredBefore, TextLess
<1>3. PICK j \in 0..Digits : y[j] < z[j] /\ \A k \in 0..(j - 1) : y[k] = z[k]
  BY DEF StoredBefore, TextLess
<1> HIDE DEF x, y, z
<1>4. \E l \in 0..Digits : x[l] < z[l] /\ \A k \in 0..(l - 1) : x[k] = z[k]
  <2>1. CASE i <= j
    <3>1. \A k \in 0..(i - 1) : k \in 0..(j - 1)
      BY <2>1, DigitsAssumption
    <3>2. y[i] <= z[i]
      <4>1. CASE i = j
        BY <1>1, <1>3, <4>1
      <4>2. CASE i # j
        <5>1. i \in 0..(j - 1)
          BY <2>1, <4>2, DigitsAssumption
        <5> QED BY <1>1, <1>3, <5>1
      <4> QED BY <4>1, <4>2
    <3>3. x[i] < z[i]
      BY <1>1, <1>2, <3>2
    <3> QED BY <1>2, <1>3, <3>1, <3>3
  <2>2. CASE j < i
    <3>1. j \in 0..(i - 1) /\ \A k \in 0..(j - 1) : k \in 0..(i - 1)
      BY <2>2, DigitsAssumption
    <3>2. x[j] < z[j]
      BY <1>1, <1>2, <1>3, <3>1
    <3> QED BY <1>2, <1>3, <3>1, <3>2
  <2> QED BY <2>1, <2>2, DigitsAssumption
<1> QED BY <1>4 DEF StoredBefore, TextLess, x, y, z

-------------------------------------------------------------------------------
(* The settled past.                                                         *)

\* Whoever has read its clock late enough for the transaction to run now writes
\* a time of a later second than a settled one.
LEMMA SettledIsBefore ==
  ASSUME NEW s \in Instant, NEW t \in Instant, NEW at \in Instant,
         Settled(s, t), t <= at + MaxDelay
  PROVE  s \div TicksPerSecond < at \div TicksPerSecond /\ StoredBefore(s, at)
<1> DEFINE k == TicksPerSecond
           S == s \div k
           A == at \div k
<1>1. k \in Nat \ {0} /\ s \in Nat /\ t \in Nat /\ at \in Nat /\ MaxDelay \in Nat
  BY SecondTicks, BoundAssumption DEF Instant
<1>2. (S + 1) * k + MaxDelay <= t
  BY DEF Settled
<1> HIDE DEF k
<1>3. S \in Nat /\ A \in Nat /\ at < k * A + k
  BY <1>1, WholeSeconds
<1> HIDE DEF S, A
<1>4. (S + 1) * k \in Nat /\ (S + 1) * k = k * S + k
  BY <1>1, <1>3
<1>5. k * S + k <= at
  BY <1>1, <1>2, <1>4
<1>6. A <= S => k * A <= k * S
  BY <1>1, <1>3
<1>7. k * A \in Nat /\ k * S \in Nat
  BY <1>1, <1>3
<1>8. ~(A <= S)
  BY <1>1, <1>3, <1>5, <1>6, <1>7
<1>9. S < A
  BY <1>3, <1>8
<1> QED BY <1>9, StoredSeconds DEF S, A, k

\* The clock does not run backwards.
LEMMA ClockRuns == ASSUME TypeOK, [Next]_vars PROVE now <= now'
<1>1. now \in Nat
  BY DEF TypeOK, Instant
<1>2. ASSUME NEW p \in Proposals, Apply(p) \/ Purge(p) \/ Embed(p)
      PROVE  now' = now
  BY <1>2 DEF Apply, Create, Evolve, Supersede, Conflict, Archive, Forget, ApplyState,
     Purge, PurgeCascade, PurgeMarkStale, Remove, Embed, EmbedRead, EmbedWrite
<1>3. KeepWorkingSets \/ UNCHANGED vars => now' = now
  BY DEF KeepWorkingSets, ChangeWorkingSet, PutWorkingSet, SetWorkingGlobalRecall,
     ExpireWorkingSets, vars
<1> QED BY <1>1, <1>2, <1>3 DEF Next, Tick

\* Of two versions of a memory one was closed before the other began, or just
\* when it did.
Precedes(u, v) ==
    versions[u].system_to # NoTime /\ versions[u].system_to <= versions[v].system_from

HistoryOrdered ==
    \A u, v \in StoredVersions :
        versions[u].memory = versions[v].memory /\ u # v => Precedes(u, v) \/ Precedes(v, u)

\* Superseding appends to the history.
LEMMA OrderedStep ==
  RowsInv /\ RowsInv' /\ SystemHistory /\ HistoryOrdered /\ [Next]_vars => HistoryOrdered'
<1> SUFFICES ASSUME RowsInv, RowsInv', SystemHistory, HistoryOrdered, [Next]_vars,
                    NEW u \in StoredVersions', NEW v \in StoredVersions',
                    versions'[u].memory = versions'[v].memory, u # v
             PROVE  Precedes(u, v)' \/ Precedes(v, u)'
  BY DEF HistoryOrdered
<1>1. ASSUME u \in StoredVersions, v \in StoredVersions, SamePlace(u), SamePlace(v)
      PROVE  Precedes(u, v)' \/ Precedes(v, u)'
  BY <1>1 DEF HistoryOrdered, Precedes, SamePlace
<1>2. CASE RowsStay
  BY <1>1, <1>2 DEF RowsStay
<1>3. ASSUME NEW p \in Proposals, Inserting(p)
      PROVE  Precedes(u, v)' \/ Precedes(v, u)'
  <2>1. \A w \in StoredVersions : w # p /\ SamePlace(w) /\ versions[w].memory # p
    BY <1>3 DEF Inserting, RowsInv, Homed, StoredMemories
  <2>2. versions'[p].memory = p /\ StoredVersions' = StoredVersions \cup {p}
    BY <1>3 DEF Inserting
  <2> QED BY <1>1, <2>1, <2>2 DEF SamePlace
<1>4. ASSUME NEW p \in Proposals, NEW m \in Proposals, NEW current \in Proposals,
             NEW group \in KnownGroups, NEW at \in Recent,
             Superseding(p, m, current, group, at), at > versions[current].system_from
      PROVE  Precedes(u, v)' \/ Precedes(v, u)'
  <2>1. /\ IsCurrent(current, m) /\ current \in StoredVersions /\ current # p
        /\ versions[current].memory = m /\ StoredVersions' = StoredVersions \cup {p}
        /\ versions'[p] = NewVersion(p, m, versions[current].number + 1, at, group)
        /\ versions'[current].memory = m
        /\ versions'[current].system_from = versions[current].system_from
        /\ versions'[current].system_to = at
        /\ \A w \in StoredVersions \ {current} : w # p /\ SamePlace(w)
    BY <1>4 DEF Superseding, KeptOrStale
  <2>2. versions[current].system_to = NoTime
    BY <2>1 DEF SystemHistory
  <2>3. /\ at \in Nat /\ at # NoTime
        /\ \A w \in StoredVersions : /\ versions[w].system_from \in Nat
                                     /\ versions[w].system_to \in Nat \cup {NoTime}
    BY RecentInstants, StoredRows DEF RowsInv, MemoryVersion, Instant, NoTime
  <2>4. ASSUME NEW w \in StoredVersions \ {current}, versions[w].memory = m
        PROVE  /\ versions[w].system_to # NoTime
               /\ versions[w].system_to <= versions[current].system_from
    BY <2>1, <2>2, <2>4 DEF HistoryOrdered, Precedes
  <2>5. ASSUME NEW w \in StoredVersions \ {current}, versions[w].memory = m
        PROVE  Precedes(w, current)' /\ Precedes(w, p)'
    <3>1. /\ versions'[w].system_to = versions[w].system_to
          /\ versions'[p].system_from = at
      BY <2>1 DEF SamePlace, NewVersion
    <3>2. versions[w].system_to <= at
      BY <1>4, <2>1, <2>3, <2>4, <2>5
    <3> QED BY <2>1, <2>4, <2>5, <3>1, <3>2 DEF Precedes
  <2>6. Precedes(current, p)'
    BY <2>1, <2>3 DEF Precedes, NewVersion
  <2>7. versions'[p].memory = m
    BY <2>1 DEF NewVersion
  <2>8. CASE u \in {current, p} \/ v \in {current, p}
    BY <2>1, <2>5, <2>6, <2>7, <2>8 DEF SamePlace
  <2>9. CASE u \notin {current, p} /\ v \notin {current, p}
    BY <1>1, <2>1, <2>9
  <2> QED BY <2>8, <2>9
<1> QED BY <1>2, <1>3, <1>4, StepEffects

\* So every history is in order.
LEMMA OrderedAlways == Spec => []HistoryOrdered
<1>1. Init => HistoryOrdered
  BY DEF Init, HistoryOrdered, StoredVersions
<1> QED BY <1>1, OrderedStep, RowsAlways, HistoriesAreGapless, PTL DEF Spec

\* A later instant is not in an earlier second.
LEMMA SecondsInOrder ==
  ASSUME NEW a \in Instant, NEW b \in Instant, a <= b
  PROVE  a \div TicksPerSecond <= b \div TicksPerSecond
<1> DEFINE k == TicksPerSecond
           A == a \div k
           B == b \div k
<1>1. k \in Nat \ {0} /\ a \in Nat /\ b \in Nat
  BY SecondTicks DEF Instant
<1> HIDE DEF k
<1>2. A \in Nat /\ B \in Nat /\ k * A <= a /\ b < k * B + k
  BY <1>1, WholeSeconds
<1> HIDE DEF A, B
<1>3. B + 1 <= A => k * (B + 1) <= k * A
  BY <1>1, <1>2
<1>4. k * (B + 1) = k * B + k /\ k * A \in Nat /\ k * B \in Nat
  BY <1>1, <1>2
<1>5. ~(B + 1 <= A)
  BY <1>1, <1>2, <1>3, <1>4
<1>6. A <= B
  BY <1>2, <1>5
<1> QED BY <1>6 DEF A, B, k

\* What a recall about a settled time has found is still believed of that time,
\* as long as it is stored.
StillBelieved(c, q) ==
    /\ versions[c.version].memory = c.memory
    /\ InForce(versions[c.version].system_from, versions[c.version].system_to, q.system_at)

FoundSettled ==
    recall # NoRecall =>
        /\ recall.started_at <= now
        /\ \A c \in Found :
              /\ ~New(c.version)
              /\ Settled(recall.request.system_at, recall.started_at) =>
                    (c.version \in StoredVersions => StillBelieved(c, recall.request))

\* The filter looks at the system time of each version.
LEMMA HitsAreBelieved ==
  ASSUME RowsInv, NEW q, NEW c, FoundBy(c, q)
  PROVE  ~New(c.version) /\ StillBelieved(c, q)
<1>1. PICK vs : \E hits \in Best(Hits(q, vs), q) : c \in hits
  BY DEF FoundBy
<1>2. c \in Hits(q, vs)
  BY <1>1 DEF Best, kSubset
<1>3. PICK v \in StoredVersions : Eligible(v, q) /\ c = CandidateOf(v)
  BY <1>2 DEF Hits
<1>4. c.version = v /\ c.memory = versions[v].memory
  BY <1>3 DEF CandidateOf
<1> QED BY <1>3, <1>4 DEF StillBelieved, Eligible, Believed, RowsInv, Made, New

\* A writer closes a version only after every settled time.
LEMMA WritersKeepBelief ==
  ASSUME RowsInv, RowsInv', [Next]_vars, NEW v \in StoredVersions, v \in StoredVersions',
         NEW s \in Instant, NEW t \in Instant, Settled(s, t), t <= now,
         InForce(versions[v].system_from, versions[v].system_to, s)
  PROVE  /\ versions'[v].memory = versions[v].memory
         /\ InForce(versions'[v].system_from, versions'[v].system_to, s)
<1>1. CASE SamePlace(v)
  BY <1>1 DEF SamePlace
<1>2. ASSUME NEW p \in Proposals, NEW m \in Proposals,
             NEW group \in KnownGroups, NEW at \in Recent,
             Superseding(p, m, v, group, at)
      PROVE  /\ versions'[v].memory = versions[v].memory
             /\ InForce(versions'[v].system_from, versions'[v].system_to, s)
  <2>1. /\ versions'[v].memory = versions[v].memory
        /\ versions'[v].system_from = versions[v].system_from
        /\ versions'[v].system_to = at
    BY <1>2 DEF Superseding
  <2>2. at \in Instant /\ at + MaxDelay >= now /\ now \in Nat
    BY RecentInstants DEF RowsInv, TypeOK, Instant, Recent
  <2>3. t <= at + MaxDelay
    BY <2>2, BoundAssumption DEF Instant
  <2>4. StoredBefore(s, at)
    BY <2>2, <2>3, SettledIsBefore
  <2> QED BY <2>1, <2>4 DEF InForce
<1>3. CASE \E p, m, current \in Proposals, group \in KnownGroups, at \in Recent :
              /\ Superseding(p, m, current, group, at)
              /\ at > versions[current].system_from
  <2>1. PICK p, m, current \in Proposals, group \in KnownGroups, at \in Recent :
                Superseding(p, m, current, group, at)
    BY <1>3
  <2>2. CASE v = current
    BY <1>2, <2>1, <2>2
  <2>3. CASE v # current
    BY <1>1, <2>1, <2>3 DEF Superseding, KeptOrStale
  <2> QED BY <2>2, <2>3
<1> QED BY <1>1, <1>3, StepEffects DEF RowsStay, Inserting

\* Two versions that are believed of one instant follow each other within its
\* second, with a third one in between.
LEMMA BelievedTogether ==
  ASSUME TypeOK, NEW u \in StoredVersions, NEW w \in StoredVersions, Precedes(u, w),
         NEW s \in Instant,
         InForce(versions[u].system_from, versions[u].system_to, s),
         InForce(versions[w].system_from, versions[w].system_to, s)
  PROVE  WithinSecond(u, w, s)
<1> DEFINE to == versions[u].system_to
           from == versions[w].system_from
<1>1. to \in Instant /\ from \in Instant /\ to <= from
  BY StoredRows DEF Precedes, MemoryVersion
<1>2. StoredBefore(s, to) /\ (from = s \/ StoredBefore(from, s))
  BY DEF InForce, StoredAtMost, Precedes
<1> HIDE DEF to, from
<1>3. to # from
  BY <1>1, <1>2, StoredStrict
<1>4. /\ s \div TicksPerSecond <= to \div TicksPerSecond
      /\ from \div TicksPerSecond <= s \div TicksPerSecond
  <2>1. s \div TicksPerSecond <= to \div TicksPerSecond
    BY <1>1, <1>2, StoredSeconds
  <2>2. from \div TicksPerSecond \in Nat
    BY <1>1, StoredSeconds
  <2>3. from \div TicksPerSecond <= s \div TicksPerSecond
    BY <1>1, <1>2, <2>2, StoredSeconds
  <2> QED BY <2>1, <2>3
<1>5. to \div TicksPerSecond <= from \div TicksPerSecond
  BY <1>1, SecondsInOrder
<1>6. /\ to \div TicksPerSecond \in Nat /\ from \div TicksPerSecond \in Nat
      /\ s \div TicksPerSecond \in Nat
  BY <1>1, StoredSeconds
<1>7. /\ to < from
      /\ to \div TicksPerSecond = s \div TicksPerSecond
      /\ from \div TicksPerSecond = s \div TicksPerSecond
  BY <1>1, <1>3, <1>4, <1>5, <1>6 DEF Instant
<1> QED BY <1>7 DEF WithinSecond, to, from

\* A recall about a settled time does not mix two versions of a memory, although
\* a supersede may be committed between its queries; what the order of texts
\* can do to it stays within one second.
THEOREM SettledPastIsOneVersion == RecallSpec => []OneVersionOfSettledPast
<1>1. RecallInit => FoundSettled
  BY DEF RecallInit, FoundSettled
<1>2. RowsInv /\ RowsInv' /\ RecallTyped /\ FoundSettled /\ [RecallNext]_<<vars, recall>>
         => FoundSettled'
  <2> SUFFICES ASSUME RowsInv, RowsInv', RecallTyped, FoundSettled,
                      [RecallNext]_<<vars, recall>>
               PROVE  FoundSettled'
    OBVIOUS
  <2>1. ASSUME NEW q \in RecallRequests, Start(q)
        PROVE  FoundSettled'
    BY <2>1 DEF Start, FoundSettled, Found, vars, RowsInv, TypeOK, Instant
  <2>2. ASSUME recall # NoRecall, RecallStep
        PROVE  FoundSettled'
    <3>1. /\ UNCHANGED vars /\ recall' # NoRecall /\ recall'.request = recall.request
          /\ \A c \in Found' : c \in Found \/ FoundBy(c, recall.request)
      BY <2>2, QueriesFind
    <3>2. recall'.started_at = recall.started_at
      BY <2>2, RecallFields
         DEF RecallTyped, RecallStep, SearchLexicalCandidates, EmbedQuery, Continue,
         ListSemanticCandidates, WithoutVectors, SemanticFails, Requery, Again,
         LexicalFails, Select, Answer, Recalling
    <3>3. \A c \in Found' :
             /\ ~New(c.version)
             /\ Settled(recall.request.system_at, recall.started_at) =>
                   (c.version \in StoredVersions => StillBelieved(c, recall.request))
      BY <2>2, <3>1, HitsAreBelieved DEF FoundSettled
    <3> QED BY <2>2, <3>1, <3>2, <3>3
            DEF FoundSettled, StillBelieved, New, StoredVersions, vars
  <2>3. ASSUME [Next]_vars, UNCHANGED recall, recall # NoRecall
        PROVE  FoundSettled'
    <3> DEFINE q == recall.request
    <3>1. recall.started_at <= now'
      <4>1. now <= now' /\ now \in Nat /\ now' \in Nat /\ recall.started_at \in Nat
        BY <2>3, ClockRuns DEF RowsInv, TypeOK, RecallTyped, Recalling, Instant
      <4> QED BY <2>3, <4>1 DEF FoundSettled
    <3>2. ASSUME NEW c \in Found
          PROVE  /\ ~New(c.version)'
                 /\ Settled(q.system_at, recall.started_at) /\ c.version \in StoredVersions'
                       => StillBelieved(c, q)'
      <4>1. c.version \in Proposals /\ ~New(c.version)
        BY <2>3 DEF FoundSettled, Found, RecallTyped, Recalling, Candidate
      <4>2. /\ ~New(c.version)'
            /\ c.version \in StoredVersions' => c.version \in StoredVersions
        BY <2>3, <4>1, NotRemade
      <4>3. q.system_at \in Instant /\ recall.started_at \in Instant
        BY <2>3, RequestAssumption DEF RecallTyped, Recalling, RecallRequest
      <4>4. ASSUME Settled(q.system_at, recall.started_at), c.version \in StoredVersions'
            PROVE  StillBelieved(c, q)'
        <5>1. c.version \in StoredVersions /\ StillBelieved(c, q)
          BY <2>3, <4>2, <4>4 DEF FoundSettled
        <5>2. /\ versions'[c.version].memory = c.memory
              /\ InForce(versions'[c.version].system_from, versions'[c.version].system_to,
                         q.system_at)
          BY <2>3, <4>3, <4>4, <5>1, WritersKeepBelief DEF FoundSettled, StillBelieved
        <5> QED BY <2>3, <5>2 DEF StillBelieved
      <4> QED BY <4>2, <4>4
    <3> QED BY <2>3, <3>1, <3>2 DEF FoundSettled, Found
  <2>4. recall' = NoRecall => FoundSettled'
    BY DEF FoundSettled
  <2>5. CASE Writer \/ UNCHANGED <<vars, recall>>
    BY <2>3, <2>4, <2>5 DEF Writer
  <2> QED BY <2>1, <2>2, <2>5 DEF RecallNext
<1>3. RowsInv /\ HistoryOrdered /\ RecallTyped /\ FoundSettled => OneVersionOfSettledPast
  <2> SUFFICES ASSUME RowsInv, HistoryOrdered, RecallTyped, FoundSettled,
                      recall # NoRecall,
                      Settled(recall.request.system_at, recall.started_at),
                      NEW c \in Found, NEW d \in Found,
                      c.version \in StoredVersions, d.version \in StoredVersions,
                      c.memory = d.memory, c.version # d.version
               PROVE  \/ WithinSecond(c.version, d.version, recall.request.system_at)
                      \/ WithinSecond(d.version, c.version, recall.request.system_at)
    BY DEF OneVersionOfSettledPast
  <2>1. StillBelieved(c, recall.request) /\ StillBelieved(d, recall.request)
    BY DEF FoundSettled
  <2>2. Precedes(c.version, d.version) \/ Precedes(d.version, c.version)
    BY <2>1 DEF StillBelieved, HistoryOrdered
  <2>3. recall.request.system_at \in Instant
    BY RequestAssumption DEF RecallTyped, Recalling, RecallRequest
  <2> QED BY <2>1, <2>2, <2>3, BelievedTogether DEF StillBelieved, RowsInv
<1>4. RecallTypeOK => RecallTyped
  BY DEF RecallTypeOK, RecallTyped
<1> QED BY <1>1, <1>2, <1>3, <1>4, RecallOnlyReads, RowsAlways, OrderedAlways,
           RecallTypeCorrect, PTL
        DEF RecallSpec

\* The four times of a version are left as they are.
SameTimes(v) ==
    /\ versions'[v].valid_from = versions[v].valid_from
    /\ versions'[v].valid_to = versions[v].valid_to
    /\ versions'[v].system_from = versions[v].system_from
    /\ versions'[v].system_to = versions[v].system_to

\* Version v, which was open, is closed by a new version p of its memory.
ClosedFor(v, p, at) ==
    /\ versions[v].system_to = NoTime /\ versions'[v] = Closed(versions[v], p, at)
    /\ versions[p] = None /\ versions'[p] # None
    /\ versions'[p].memory = versions[v].memory
    /\ versions'[p].valid_from = ValidTime[p].from

\* Only a supersede changes the times of a version, and new versions begin at a
\* time that their caller has read.
LEMMA TimesKept ==
  ASSUME RowsInv, RowsInv', SystemHistory, [Next]_vars, NEW v \in StoredVersions'
  PROVE  \/ v \in StoredVersions /\ SameTimes(v)
         \/ v \notin StoredVersions /\ versions'[v].system_from \in Recent
         \/ v \in StoredVersions /\ \E p \in Proposals, at \in Recent : ClosedFor(v, p, at)
<1> DEFINE Kept == v \in StoredVersions /\ SameTimes(v)
           Begun == v \notin StoredVersions /\ versions'[v].system_from \in Recent
<1>1. ASSUME NEW p \in Proposals, NEW scope \in Scopes, NEW task \in Tasks \cup {NoTask},
             NEW parents \in SUBSET StoredVersions, NEW group \in KnownGroups,
             NEW at \in Recent, Create(p, scope, task, parents, group, at)
      PROVE  Kept \/ Begun
  <2>1. /\ versions' = [versions EXCEPT ![p] = NewVersion(p, p, 1, at, group)]
        /\ versions[p] = None /\ v \in Proposals /\ versions'[v] # None
    <3>1. operations[p] = None
      BY <1>1 DEF Create, New
    <3>2. versions[p] = None
      BY <1>1, NewIsFresh DEF RowsInv, Create
    <3> QED BY <1>1, <3>2 DEF Create, StoredVersions
  <2>2. CASE v = p
    BY <2>1, <2>2 DEF NewVersion, RowsInv, TypeOK, StoredVersions
  <2>3. CASE v # p
    BY <2>1, <2>3 DEF SameTimes, RowsInv, TypeOK, StoredVersions
  <2> QED BY <2>2, <2>3
<1>2. ASSUME NEW p \in Proposals, NEW m \in Proposals, NEW current \in Proposals,
             NEW parents \in SUBSET StoredVersions, NEW group \in KnownGroups,
             NEW at \in Recent, Supersede(p, m, current, parents, group, at)
      PROVE  Kept \/ Begun \/ (v \in StoredVersions /\ ClosedFor(v, p, at))
  <2>1. Superseding(p, m, current, group, at)
    BY <1>2, SupersedeEffects
  <2>2. /\ versions[p] = None /\ IsCurrent(current, m) /\ current \in StoredVersions
        /\ versions[current].memory = m /\ StoredVersions' = StoredVersions \cup {p}
        /\ versions'[p] = NewVersion(p, m, versions[current].number + 1, at, group)
        /\ current # p
    BY <2>1 DEF Superseding
  <2>3. CASE v = p
    BY <2>2, <2>3 DEF NewVersion, StoredVersions
  <2>4. CASE v = current
    <3>1. versions'[v] = Closed(versions[v], p, at)
      BY <1>2, <2>2, <2>4 DEF Supersede
    <3>2. versions[v].system_to = NoTime
      BY <2>2, <2>4 DEF SystemHistory
    <3>3. versions'[p] # None
      BY <2>2 DEF StoredVersions
    <3> QED BY <2>2, <2>4, <3>1, <3>2, <3>3 DEF ClosedFor, NewVersion
  <2>5. CASE v # p /\ v # current
    <3>1. v \in StoredVersions
      BY <2>2, <2>5
    <3>2. versions'[v] = versions[v] \/ versions'[v] = MarkStale(versions[v])
      BY <1>2, <2>5, <3>1 DEF Supersede, StoredVersions
    <3> QED BY <3>1, <3>2 DEF SameTimes, MarkStale, WithState
  <2> QED BY <2>3, <2>4, <2>5
<1>3. ASSUME NEW p \in Proposals, NEW m \in Proposals, NEW current \in Proposals,
             NEW parents \in SUBSET StoredVersions, NEW group \in KnownGroups,
             NEW at \in Recent, Conflict(p, m, current, parents, group, at)
      PROVE  Kept \/ Begun
  <2>1. PICK g : versions' = [versions EXCEPT ![current] = Grouped(@, g),
                                              ![p] = NewVersion(p, p, 1, at, g)]
    BY <1>3 DEF Conflict
  <2>2. StoredVersions' = StoredVersions \cup {p} /\ p \notin StoredVersions
    BY <1>3, ConflictEffects DEF Inserting, StoredVersions
  <2>3. CASE v = p
    BY <2>1, <2>2, <2>3 DEF NewVersion, RowsInv, TypeOK
  <2>4. CASE v # p
    <3>1. v \in StoredVersions /\ v \in Proposals
      BY <2>2, <2>4 DEF StoredVersions
    <3>2. versions'[v] = versions[v] \/ versions'[v] = Grouped(versions[v], g)
      BY <2>1, <2>4, <3>1 DEF RowsInv, TypeOK
    <3> QED BY <3>1, <3>2 DEF SameTimes, Grouped
  <2> QED BY <2>3, <2>4
<1>4. ASSUME v \in StoredVersions,
             \/ versions'[v] = versions[v] \/ versions'[v] = MarkStale(versions[v])
             \/ \E state : versions'[v] = WithState(versions[v], state)
      PROVE  Kept
  <2>1. CASE versions'[v] = versions[v]
    BY <1>4, <2>1 DEF SameTimes
  <2>2. CASE versions'[v] = MarkStale(versions[v])
    <3>1. CASE versions[v].state = "current"
      BY <1>4, <2>2, <3>1 DEF SameTimes, MarkStale, WithState
    <3>2. CASE versions[v].state # "current"
      BY <1>4, <2>2, <3>2 DEF SameTimes, MarkStale
    <3> QED BY <3>1, <3>2
  <2>3. ASSUME NEW state, versions'[v] = WithState(versions[v], state)
        PROVE  Kept
    BY <1>4, <2>3 DEF SameTimes, WithState
  <2> QED BY <1>4, <2>1, <2>2, <2>3
<1>5. ASSUME NEW p \in Proposals, NEW m \in Proposals, NEW current \in Proposals,
             Archive(p, m, current) \/ Forget(p, m, current)
      PROVE  Kept
  <2>1. PICK state \in {"archived", "forgotten"} : ApplyState(p, m, current, state)
    BY <1>5 DEF Archive, Forget
  <2>2. v \in StoredVersions
    BY <2>1, StateEffects DEF RowsStay
  <2>3. versions'[v] = versions[v] \/ versions'[v] = WithState(versions[v], state)
    BY <2>1, <2>2 DEF ApplyState, RowsInv, TypeOK, StoredVersions
  <2> QED BY <1>4, <2>2, <2>3
<1>6. ASSUME NEW m \in Proposals, Purge(m)
      PROVE  Kept
  <2>1. v \in StoredVersions
    BY <1>6, PurgeEffects DEF RowsStay
  <2>2. versions'[v] = versions[v] \/ versions'[v] = MarkStale(versions[v])
    BY <1>6, PurgedRows DEF StoredVersions
  <2> QED BY <1>4, <2>1, <2>2
<1>7. ASSUME NEW at \in Recent, ExpireWorkingSets(at)
      PROVE  Kept
  <2>1. v \in StoredVersions
    BY <1>7, ExpireEffects DEF RowsStay
  <2>2. versions'[v] = versions[v] \/ versions'[v] = WithState(versions[v], "archived")
    BY <1>7, <2>1 DEF ExpireWorkingSets, StoredVersions
  <2> QED BY <1>4, <2>1, <2>2
<1>8. ASSUME NEW u \in Proposals, Embed(u)
      PROVE  versions' = versions
  BY <1>8 DEF Embed, EmbedRead, EmbedWrite
<1>9. ASSUME NEW n, NEW t, ChangeWorkingSet(n, t)
      PROVE  versions' = versions
  BY <1>9 DEF ChangeWorkingSet, PutWorkingSet, SetWorkingGlobalRecall
<1>10. Tick \/ UNCHANGED vars => versions' = versions
  BY DEF Tick, vars
<1>11. versions' = versions => Kept
  BY <1>4 DEF StoredVersions
<1> QED BY <1>1, <1>2, <1>3, <1>5, <1>6, <1>7, <1>8, <1>9, <1>10, <1>11
        DEF Next, Apply, Evolve, KeepWorkingSets

\* What a writer that may still run writes is after a settled time.
LEMMA WrittenLater ==
  ASSUME TypeOK, NEW at \in Recent, NEW s \in Instant, Settled(s, now)
  PROVE  at \in Instant /\ StoredBefore(s, at) /\ ~StoredAtMost(at, s)
<1>1. at \in Instant /\ at + MaxDelay >= now /\ now \in Instant
  BY RecentInstants DEF TypeOK, Recent
<1>2. now <= at + MaxDelay
  BY <1>1, BoundAssumption DEF Instant
<1>3. StoredBefore(s, at)
  BY <1>1, <1>2, SettledIsBefore
<1> QED BY <1>1, <1>3, StoredStrict DEF StoredAtMost

\* Closing a version takes back only the valid times from which the new version
\* is in effect, and adds none.
LEMMA ClosedNarrows ==
  ASSUME TypeOK, NEW v \in StoredVersions, NEW p \in Proposals, NEW at \in Recent,
         ClosedFor(v, p, at), NEW t \in Instant, NEW s \in Instant, Settled(s, now)
  PROVE  /\ Believed(versions'[v], t, s) => Believed(versions[v], t, s)
         /\ Believed(versions[v], t, s) /\ StoredBefore(t, ValidTime[p].from) =>
               Believed(versions'[v], t, s)
<1> DEFINE old == versions[v]
           from == ValidTime[p].from
<1>1. old.valid_to \in Instant \cup {NoTime} /\ from \in Instant
  BY StoredRows, ValidTimeAssumption DEF MemoryVersion, Interval
<1>2. StoredBefore(s, at)
  BY WrittenLater
<1>3. CASE old.state \notin {"current", "stale"}
  BY <1>3 DEF ClosedFor, Closed
<1>4. CASE old.state \in {"current", "stale"}
  <2>1. /\ versions'[v].valid_from = old.valid_from
        /\ versions'[v].system_from = old.system_from
        /\ versions'[v].system_to = at /\ old.system_to = NoTime
    BY <1>4 DEF ClosedFor, Closed
  <2>2. \/ versions'[v].valid_to = old.valid_to
        \/ /\ versions'[v].valid_to = from
           /\ old.valid_to = NoTime \/ StoredBefore(from, old.valid_to)
    BY <1>4 DEF ClosedFor, Closed
  <2>3. versions'[v].valid_to = NoTime \/ StoredBefore(t, versions'[v].valid_to) =>
           old.valid_to = NoTime \/ StoredBefore(t, old.valid_to)
    <3>1. CASE versions'[v].valid_to = old.valid_to
      BY <3>1
    <3>2. CASE versions'[v].valid_to = from /\ StoredBefore(from, old.valid_to)
                 /\ old.valid_to # NoTime
      <4>1. old.valid_to \in Instant /\ from # NoTime
        BY <1>1, <3>2, BoundAssumption DEF Instant, NoTime
      <4> QED BY <1>1, <3>2, <4>1, StoredTransitive
    <3> QED BY <2>2, <3>1, <3>2
  <2>4. StoredBefore(t, from) /\ (old.valid_to = NoTime \/ StoredBefore(t, old.valid_to)) =>
           versions'[v].valid_to = NoTime \/ StoredBefore(t, versions'[v].valid_to)
    BY <2>2
  <2> HIDE DEF old, from
  <2> QED BY <1>2, <2>1, <2>3, <2>4 DEF Believed, InForce, old, from
<1> QED BY <1>3, <1>4

\* A belief about a settled time is never added, and is taken back only when a newer
\* fact about the same memory is stored, for the valid times from the start of that
\* fact on, whether or not it has ended by then: no supersede reaches back behind the
\* time its caller has read, and what it closes is the end of the valid time.
THEOREM SettledPastOnlyNarrows == RecallSpec => SettledPastNarrows
<1> DEFINE BelievedNext(v, t, s) == versions'[v] # None /\ Believed(versions'[v], t, s)
           BelievedNow(v, t, s) == versions[v] # None /\ Believed(versions[v], t, s)
           Newer(v, t) == \E p \in Proposals :
                             /\ versions[p] = None /\ versions'[p] # None
                             /\ versions'[p].memory = versions[v].memory
                             /\ ~StoredBefore(t, versions'[p].valid_from)
<1>1. ASSUME RowsInv, RowsInv', SystemHistory, [Next]_vars,
             NEW v \in Proposals, NEW t \in Instant, NEW s \in Instant, Settled(s, now)
      PROVE  /\ BelievedNext(v, t, s) => BelievedNow(v, t, s)
             /\ BelievedNow(v, t, s) /\ versions'[v] # None /\ ~BelievedNext(v, t, s) => Newer(v, t)
  <2> SUFFICES ASSUME versions'[v] # None
               PROVE  /\ BelievedNext(v, t, s) => BelievedNow(v, t, s)
                      /\ BelievedNow(v, t, s) /\ ~BelievedNext(v, t, s) => Newer(v, t)
    OBVIOUS
  <2>1. v \in StoredVersions'
    BY DEF StoredVersions
  <2>2. CASE v \in StoredVersions /\ SameTimes(v)
    BY <2>2 DEF SameTimes, Believed, StoredVersions
  <2>3. CASE v \notin StoredVersions /\ versions'[v].system_from \in Recent
    <3>1. ~StoredAtMost(versions'[v].system_from, s)
      BY <1>1, <2>3, WrittenLater DEF RowsInv
    <3>2. versions[v] = None
      BY <2>3 DEF StoredVersions
    <3> QED BY <3>1, <3>2 DEF Believed, InForce
  <2>4. ASSUME v \in StoredVersions, NEW p \in Proposals, NEW at \in Recent,
               ClosedFor(v, p, at)
        PROVE  /\ BelievedNext(v, t, s) => BelievedNow(v, t, s)
               /\ BelievedNow(v, t, s) /\ ~BelievedNext(v, t, s) => Newer(v, t)
    <3>1. /\ Believed(versions'[v], t, s) => Believed(versions[v], t, s)
          /\ Believed(versions[v], t, s) /\ StoredBefore(t, ValidTime[p].from) =>
                Believed(versions'[v], t, s)
      BY <1>1, <2>4, ClosedNarrows DEF RowsInv
    <3>2. versions[v] # None
      BY <2>4 DEF StoredVersions
    <3>3. ~StoredBefore(t, ValidTime[p].from) => Newer(v, t)
      BY <2>4 DEF ClosedFor
    <3> QED BY <3>1, <3>2, <3>3
  <2> QED BY <1>1, <2>1, <2>2, <2>3, <2>4, TimesKept
<1>2. RowsInv /\ RowsInv' /\ SystemHistory /\ [Next]_vars =>
        [\A v \in {x \in Proposals : versions'[x] # versions[x]},
            valid_at \in 0..MaxTime, system_at \in 0..now :
            Settled(system_at, now) =>
               LET Now == versions[v] # None /\ Believed(versions[v], valid_at, system_at)
                   Then == versions'[v] # None /\ Believed(versions'[v], valid_at, system_at)
               IN /\ Then => Now
                  /\ Now /\ versions'[v] # None /\ ~Then =>
                        \E s \in Proposals :
                           /\ versions[s] = None /\ versions'[s] # None
                           /\ versions'[s].memory = versions[v].memory
                           /\ ~StoredBefore(valid_at, versions'[s].valid_from)
        ]_<<vars, recall>>
  <2> SUFFICES ASSUME RowsInv, RowsInv', SystemHistory, [Next]_vars,
                      NEW v \in {x \in Proposals : versions'[x] # versions[x]},
                      NEW t \in 0..MaxTime, NEW s \in 0..now, Settled(s, now)
               PROVE  /\ BelievedNext(v, t, s) => BelievedNow(v, t, s)
                      /\ BelievedNow(v, t, s) /\ versions'[v] # None /\ ~BelievedNext(v, t, s) =>
                            Newer(v, t)
    OBVIOUS
  <2>1. v \in Proposals /\ now \in Instant /\ t \in Instant
    BY BoundAssumption DEF RowsInv, TypeOK, Instant
  <2>2. s \in Instant
    BY <2>1 DEF Instant
  <2> QED BY <1>1, <2>1, <2>2
<1> QED BY <1>2, RecallOnlyReads, RowsAlways, HistoriesAreGapless, PTL
        DEF Spec, SettledPastNarrows
===============================================================================
