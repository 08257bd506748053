------------------------------ MODULE Evolution -------------------------------
(*****************************************************************************)
(* Formation and evolution strategies over the lifecycle repository, the     *)
(* episodes lessons rest on and the feedback on their use.                   *)
(*                                                                           *)
(* A strategy only proposes.  Its caller reads the current version, a        *)
(* generator may take its time, and the proposal is applied later, to        *)
(* whatever version is current then: any number of proposals may be drawn    *)
(* from one version.  A proposal that fails a check is refused and changes   *)
(* nothing, so neither that, nor a generator that fails or answers outside   *)
(* its schema, is an action.                                                 *)
(*                                                                           *)
(* Episode and outcome ids are hashes of the observation they are about, so  *)
(* an observation stands for its episode and its outcome.                    *)
(*****************************************************************************)
EXTENDS Lifecycle, Sequences, FiniteSets

CONSTANTS Observations,    \* stored observations
          Observed,        \* what each of them says
          Texts,           \* contents, up to case and spacing
          NoText,          \* a blank answer of a generator
          Traces,          \* stored retrieval traces
          TraceNamespace,  \* the namespace of each
          MaxFormed,       \* bound: formations proposed
          MaxRecording     \* bound: feedback being recorded at a time

MemoryFunction == {"factual", "experiential", "working"}
Mode == {"generator-free", "assisted"}
Observation == [scope : Scopes, context : Tasks \cup {NoTask}, text : Texts,
                change : {"none", "correction", "conflict"}, captured_at : Instant]

ASSUME ObservedAssumption == Observed \in [Observations -> Observation]
ASSUME TextAssumption == NoText \notin Texts
ASSUME EvolutionBoundAssumption == MaxFormed \in Nat /\ MaxRecording \in Nat
ASSUME TraceAssumption == TraceNamespace \in [Traces -> Namespaces]

VARIABLES payloads,        \* the payload of each version
          proposed,        \* proposals made so far, by id
          episodes,        \* observations whose episode and outcome are recorded
          feedback,        \* table experiential_feedback: <<version, trace>>
          recording        \* feedback that was checked and is about to be written

evolutionVars == <<payloads, proposed, episodes, feedback, recording>>

\* sources: the episodes of a lesson, or what a working state is compacted from.
Payload == [function : MemoryFunction, task : Tasks \cup {NoTask}, text : Texts,
            sources : Seq(Observations)]

\* base: the version a strategy read; the proposal does not say which it was.
Proposal == [kind : {"create", "supersede", "conflict"}, mode : Mode,
             target : Proposals, base : Proposals \cup {None},
             observation : Observations, payload : Payload]

ASSUME NoneIsNoPayload == None \notin Payload \cup Proposal

EvolutionTypeOK ==
    /\ TypeOK
    /\ payloads \in [Proposals -> Payload \cup {None}]
    /\ proposed \in [Proposals -> Proposal \cup {None}]
    /\ episodes \subseteq Observations
    /\ feedback \subseteq Proposals \X Traces
    /\ recording \subseteq Proposals \X Traces

EvolutionInit ==
    /\ Init
    /\ payloads = [v \in Proposals |-> None]
    /\ proposed = [p \in Proposals |-> None]
    /\ episodes = {} /\ feedback = {} /\ recording = {}
-------------------------------------------------------------------------------
(* Proposals.  Their ids are hashes: of the observation and the payload for a *)
(* formation, of the memory, the version and the observation for an evolution. *)

\* What the id of a proposal is a hash of.
Key(proposal) ==
    IF proposal.kind = "create"
    THEN <<proposal.mode, proposal.observation, proposal.payload>>
    ELSE <<proposal.mode, proposal.observation, proposal.target, proposal.base>>

\* Proposal p is made, for the first time or, by a retry, again.
Propose(p, proposal, valid_from) ==
    /\ New(p) /\ ValidTime[p] = [from |-> valid_from, to |-> NoTime]
    /\ \A q \in Proposals : proposed[q] # None =>
          (q = p <=> Key(proposed[q]) = Key(proposal))
    /\ proposed' = [proposed EXCEPT ![p] = proposal]
    /\ UNCHANGED <<vars, payloads, episodes, feedback, recording>>

\* What a generator may answer; its answer is not trusted.
Answers == Texts \cup {NoText}

Formed == {p \in Proposals : proposed[p] # None /\ proposed[p].kind = "create"}

\* Every lesson has an episode with an outcome.
Evidenced(payload) == payload.function = "experiential" => payload.sources # << >>

Valid(payload) == payload.text # NoText /\ Evidenced(payload)

\* A working memory has the context of its scope as its task.
ValidCreate(payload, o) ==
    /\ Valid(payload)
    /\ payload.function = "working" => /\ payload.task # NoTask
                                       /\ payload.task = Observed[o].context

ProposeCreate(p, mode, o, payload) ==
    /\ Cardinality(Formed \cup {p}) <= MaxFormed
    /\ ValidCreate(payload, o)
    /\ Propose(p, [kind |-> "create", mode |-> mode, target |-> p, base |-> None,
                   observation |-> o, payload |-> payload],
               Observed[o].captured_at)

\* A memory of one observation, which is its evidence.
Formation(function, o, text) ==
    [function |-> function, text |-> text,
     task |-> IF function = "working" THEN Observed[o].context ELSE NoTask,
     sources |-> IF function = "factual" THEN << >> ELSE <<o>>]

\* baselinePayload: the observation itself.
FormByRule(p, function, o) ==
    ProposeCreate(p, "generator-free", o, Formation(function, o, Observed[o].text))

\* assistedPayload: what the generator makes of it.
FormAssisted(p, function, o, text) ==
    ProposeCreate(p, "assisted", o, Formation(function, o, text))

\* Mutant: the new evidence replaces that of the current version.
MutSources(current, o) ==
    IF current.function = "factual" THEN << >> ELSE <<o>>

\* The evidence of the current version and the new observation.  Only a working
\* state is looked through for it.
Sources(current, o) ==
    IF \/ current.function = "factual"
       \/ current.function = "working" /\ \E i \in DOMAIN current.sources :
                                             current.sources[i] = o
    THEN current.sources ELSE Append(current.sources, o)

\* The memory and the observation agree.
Agrees(m, current, o) ==
    /\ memories[m].scope.namespace = Observed[o].scope.namespace
    /\ memories[m].scope.subject = Observed[o].scope.subject
    /\ payloads[current].function = "working" =>
          Observed[o].context = payloads[current].task

\* Rebuild, which a strategy never proposes, is for derived versions.
ValidUpdate(kind, payload) == kind \in {"supersede", "conflict"} /\ Valid(payload)

Candidate(current, o, text) ==
    [payloads[current] EXCEPT !.text = text, !.sources = Sources(payloads[current], o)]

ProposeUpdate(p, mode, m, current, o, kind, text, valid_from) ==
    /\ IsCurrent(current, m) /\ Agrees(m, current, o)
    /\ ValidUpdate(kind, Candidate(current, o, text))
    /\ Propose(p, [kind |-> kind, mode |-> mode, target |-> m, base |-> current,
                   observation |-> o, payload |-> Candidate(current, o, text)],
               valid_from)

\* ErrNoChange: a fact the memory already states.
Known(current, o) ==
    payloads[current].function = "factual" /\ payloads[current].text = Observed[o].text

\* baselineEvolution: the metadata of the observation say what it is.
EvolveByRule(p, m, current, o) ==
    LET change == Observed[o].change IN
    /\ ~Known(current, o)
    /\ ProposeUpdate(p, "generator-free", m, current, o,
                     IF change = "conflict" THEN "conflict" ELSE "supersede",
                     Observed[o].text,
                     IF change = "correction" THEN versions[current].valid_from
                     ELSE Observed[o].captured_at)

\* assistedEvolution: the generator says what it is and what the text becomes.
EvolveAssisted(p, m, current, o, kind, text) ==
    ProposeUpdate(p, "assisted", m, current, o, kind, text, Observed[o].captured_at)
-------------------------------------------------------------------------------
(* Applying them.                                                            *)

\* PutEpisode: the episode and its outcome in one transaction, once.
PutEpisode(o) ==
    /\ o \notin episodes
    /\ episodes' = episodes \cup {o}
    /\ UNCHANGED <<vars, payloads, proposed, feedback, recording>>

\* Mutant: only a new lesson is looked at, not an evolved one.
MutReferencesHold(proposal, scope) ==
    proposal.kind = "create" /\ proposal.payload.function = "experiential" =>
       \A i \in DOMAIN proposal.payload.sources :
          LET o == proposal.payload.sources[i] IN
          /\ o \in episodes
          /\ Observed[o].scope.namespace = scope.namespace
          /\ Observed[o].scope.subject = scope.subject

\* validateExperientialReferences.
ReferencesHold(proposal, scope) ==
    proposal.payload.function = "experiential" =>
       \A i \in DOMAIN proposal.payload.sources :
          LET o == proposal.payload.sources[i] IN
          /\ o \in episodes
          /\ Observed[o].scope.namespace = scope.namespace
          /\ Observed[o].scope.subject = scope.subject

Stored(p, payload) ==
    /\ payloads' = [payloads EXCEPT ![p] = payload]
    /\ UNCHANGED <<proposed, episodes, feedback, recording>>

ApplyFormation(p) ==
    LET proposal == proposed[p] IN
    /\ proposal # None /\ proposal.kind = "create"
    /\ ReferencesHold(proposal, Observed[proposal.observation].scope)
    /\ \E at \in Recent :
          Create(p, Observed[proposal.observation].scope, proposal.payload.task, {},
                 NoGroup, at)
    /\ Stored(p, proposal.payload)

\* Whatever version is current now: the base is not compared with it.
ApplyEvolution(p, current) ==
    LET proposal == proposed[p] IN
    /\ proposal # None /\ proposal.kind \in {"supersede", "conflict"}
    /\ proposal.target \in StoredMemories /\ IsCurrent(current, proposal.target)
    /\ ReferencesHold(proposal, memories[proposal.target].scope)
    /\ \E at \in Recent :
          \/ /\ proposal.kind = "supersede"
             /\ Supersede(p, proposal.target, current, {}, NoGroup, at)
          \/ /\ proposal.kind = "conflict"
             /\ Conflict(p, proposal.target, current, {}, NoGroup, at)
    /\ Stored(p, proposal.payload)

\* Payloads and feedback go with the version.
PurgeMemory(m) ==
    /\ Purge(m)
    /\ payloads' = [v \in Proposals |->
                       IF versions'[v] = None THEN None ELSE payloads[v]]
    /\ feedback' = {f \in feedback : versions'[f[1]] # None}
    /\ UNCHANGED <<proposed, episodes, recording>>

\* The worker makes the set of a task before it applies a working memory.
OpenTask(o) ==
    /\ Observed[o].context # NoTask
    /\ PutWorkingSet(Observed[o].scope.namespace, Observed[o].context, NoTime, FALSE)
    /\ UNCHANGED evolutionVars

Pass == Tick /\ UNCHANGED evolutionVars
-------------------------------------------------------------------------------
(* RecordUsageFeedback: two reads, then an insert or update of its own.      *)

CheckFeedback(v, t) ==
    /\ Cardinality(recording) < MaxRecording
    /\ v \in StoredVersions /\ payloads[v].function = "experiential"
    /\ ScopeOf(v).namespace = TraceNamespace[t]
    /\ recording' = recording \cup {<<v, t>>}
    /\ UNCHANGED <<vars, payloads, proposed, episodes, feedback>>

\* Mutant: foreign keys are not enforced.
MutWriteFeedback(v, t) ==
    /\ <<v, t>> \in recording
    /\ recording' = recording \ {<<v, t>>}
    /\ feedback' = feedback \cup {<<v, t>>}
    /\ UNCHANGED <<vars, payloads, proposed, episodes>>

\* The foreign key refuses a version that was purged in between.
WriteFeedback(v, t) ==
    /\ <<v, t>> \in recording
    /\ recording' = recording \ {<<v, t>>}
    /\ feedback' = feedback \cup ({<<v, t>>} \cap (StoredVersions \X Traces))
    /\ UNCHANGED <<vars, payloads, proposed, episodes>>
-------------------------------------------------------------------------------
Unapplied == {p \in Proposals : New(p)}

FormMemory(p, o) ==
    \E function \in MemoryFunction :
       \/ FormByRule(p, function, o)
       \/ \E text \in Answers : FormAssisted(p, function, o, text)

EvolveMemory(p, o) ==
    \E m \in StoredMemories : \E current \in VersionsOf(m) :
       \/ EvolveByRule(p, m, current, o)
       \/ \E kind \in {"supersede", "conflict", "rebuild"}, text \in Answers :
             EvolveAssisted(p, m, current, o, kind, text)

ApplyProposed(p) ==
    \/ ApplyFormation(p)
    \/ \E current \in StoredVersions : ApplyEvolution(p, current)

EvolutionNext ==
    \/ \E p \in Unapplied : ApplyProposed(p) \/ \E o \in Observations :
                                                FormMemory(p, o) \/ EvolveMemory(p, o)
    \/ \E m \in StoredMemories : PurgeMemory(m)
    \/ \E o \in Observations : PutEpisode(o) \/ OpenTask(o)
    \/ \E v \in StoredVersions, t \in Traces : CheckFeedback(v, t)
    \/ \E r \in recording : WriteFeedback(r[1], r[2])
    \/ Pass

EvolutionSpec == EvolutionInit /\ [][EvolutionNext]_<<vars, evolutionVars>>
-------------------------------------------------------------------------------
(* Properties.                                                               *)

\* A lesson, however often it was evolved and by whom, rests on recorded
\* episodes of its own namespace and subject.
LessonsGrounded ==
    \A v \in StoredVersions : payloads[v].function = "experiential" =>
        /\ payloads[v].sources # << >>
        /\ \A i \in DOMAIN payloads[v].sources :
              LET o == payloads[v].sources[i] IN
              /\ o \in episodes
              /\ Observed[o].scope.namespace = ScopeOf(v).namespace
              /\ Observed[o].scope.subject = ScopeOf(v).subject

\* A working state is compacted only from observations of its task, and from
\* each of them once, also when an observation is compacted again by another
\* strategy or into a later version.
CompactedWithinTask ==
    \A v \in StoredVersions : payloads[v].function = "working" =>
        LET sources == payloads[v].sources IN
        \A i, j \in DOMAIN sources :
           /\ Observed[sources[i]].context = payloads[v].task
           /\ sources[i] = sources[j] => i = j

\* Both: what a strategy has put on record as evidence is evidence.
EvidenceSound == LessonsGrounded /\ CompactedWithinTask

\* Usage feedback is about a stored lesson and a trace of the same namespace,
\* although the version may be purged while the feedback is being recorded.
FeedbackAnchored ==
    \A f \in feedback :
        /\ f[1] \in StoredVersions
        /\ payloads[f[1]].function = "experiential"
        /\ ScopeOf(f[1]).namespace = TraceNamespace[f[2]]

Keeps(older, newer) ==
    /\ Len(older.sources) <= Len(newer.sources)
    /\ \A i \in DOMAIN older.sources : newer.sources[i] = older.sources[i]

Supersedes(p) ==
    /\ proposed[p] # None /\ proposed[p].kind = "supersede"
    /\ versions[p] = None /\ versions'[p] # None

\* The version that proposal p closes.
Replaced(p) == CHOOSE v \in StoredVersions : IsCurrent(v, proposed[p].target)

\* A new version drops evidence of the version it replaces, or repeats its fact
\* by rule, only if another version came between the reading
\* and the applying.
LostOnlyByRace ==
    [][\A p \in Proposals : Supersedes(p) /\ proposed[p].base = Replaced(p) =>
          /\ Keeps(payloads[Replaced(p)], payloads'[p])
          /\ proposed[p].mode = "generator-free" /\ payloads'[p].function = "factual"
                => payloads'[p].text # payloads[Replaced(p)].text]_payloads
===============================================================================
