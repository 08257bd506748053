---------------------------- MODULE EvolutionProofs ----------------------------
(*****************************************************************************)
(* Theorems about Evolution: what a proposal says, when it was made and when *)
(* it is applied, for every value of the constants.                          *)
(*****************************************************************************)
EXTENDS Evolution, LifecycleProofs

\* What a strategy may put on record as the evidence of a payload.
SoundEvidence(payload) ==
    /\ Evidenced(payload)
    /\ payload.function = "working" =>
          \A i, j \in DOMAIN payload.sources :
             /\ Observed[payload.sources[i]].context = payload.task
             /\ payload.sources[i] = payload.sources[j] => i = j

\* An evolution was drawn from a version of its target: as long as that version
\* is stored, the proposal keeps its evidence and does not repeat its fact.
Drawn(proposal) ==
    proposal.kind # "create" =>
        /\ proposal.base \in Proposals /\ ~New(proposal.base)
        /\ proposal.base \in StoredVersions =>
              LET older == payloads[proposal.base] newer == proposal.payload IN
              /\ versions[proposal.base].memory = proposal.target
              /\ Keeps(older, newer)
              /\ proposal.mode = "generator-free" /\ newer.function = "factual"
                    => newer.text # older.text

\* Every proposal that was made is sound.
ProposalsSound ==
    \A p \in Proposals : proposed[p] # None =>
        SoundEvidence(proposed[p].payload) /\ Drawn(proposed[p])

\* A stored version is what its proposal says, and rests on what was checked
\* when it was applied.
Recorded(v) ==
    /\ proposed[v] # None /\ payloads[v] = proposed[v].payload
    /\ ReferencesHold(proposed[v], ScopeOf(v))

\* Feedback is about a lesson and a trace of one namespace.
Anchored(f) ==
    /\ payloads[f[1]].function = "experiential"
    /\ ScopeOf(f[1]).namespace = TraceNamespace[f[2]]

EvolutionInv ==
    /\ EvolutionTypeOK /\ RowsInv /\ ProposalsSound
    /\ \A v \in StoredVersions : Recorded(v)
    /\ \A f \in feedback : f[1] \in StoredVersions /\ Anchored(f)
    /\ \A f \in recording : ~New(f[1]) /\ (f[1] \in StoredVersions => Anchored(f))
-------------------------------------------------------------------------------
(* What a strategy proposes.                                                 *)

\* A formation is a payload, and its evidence is the observation.
LEMMA FormationSound ==
  ASSUME NEW function \in MemoryFunction, NEW o \in Observations, NEW text \in Answers,
         Valid(Formation(function, o, text))
  PROVE  /\ Formation(function, o, text) \in Payload
         /\ SoundEvidence(Formation(function, o, text))
<1>1. text \in Texts
  BY DEF Valid, Formation, Answers
<1>2. Observed[o].context \in Tasks \cup {NoTask}
  BY ObservedAssumption DEF Observation
<1>3. <<o>> \in Seq(Observations) /\ << >> \in Seq(Observations)
  OBVIOUS
<1>4. Formation(function, o, text) \in Payload
  BY <1>1, <1>2, <1>3 DEF Formation, Payload
<1>5. SoundEvidence(Formation(function, o, text))
  BY DEF SoundEvidence, Formation, Valid
<1> QED BY <1>4, <1>5

\* An evolution keeps the evidence of what it was drawn from, adds at most the
\* observation, and adds it only where it fits.
LEMMA SourcesGrow ==
  ASSUME NEW current \in Payload, NEW o \in Observations
  PROVE  /\ Sources(current, o) \in Seq(Observations)
         /\ Len(current.sources) <= Len(Sources(current, o))
         /\ \A i \in DOMAIN current.sources :
               Sources(current, o)[i] = current.sources[i]
         /\ \A i \in DOMAIN Sources(current, o) \ DOMAIN current.sources :
               /\ i = Len(current.sources) + 1 /\ Sources(current, o)[i] = o
               /\ current.function = "working" =>
                     \A j \in DOMAIN current.sources : current.sources[j] # o
<1>1. current.sources \in Seq(Observations)
  BY DEF Payload
<1>2. /\ Append(current.sources, o) \in Seq(Observations)
      /\ Len(Append(current.sources, o)) = Len(current.sources) + 1
      /\ \A i \in 1..Len(current.sources) :
            Append(current.sources, o)[i] = current.sources[i]
      /\ Append(current.sources, o)[Len(current.sources) + 1] = o
  BY <1>1
<1>3. /\ DOMAIN current.sources = 1..Len(current.sources) /\ Len(current.sources) \in Nat
      /\ DOMAIN Append(current.sources, o) = 1..(Len(current.sources) + 1)
  BY <1>1, <1>2
<1>4. CASE Sources(current, o) = current.sources
  BY <1>1, <1>3, <1>4
<1>5. CASE /\ Sources(current, o) = Append(current.sources, o)
           /\ current.function = "working" =>
                 \A j \in DOMAIN current.sources : current.sources[j] # o
  BY <1>2, <1>3, <1>5
<1> QED BY <1>4, <1>5 DEF Sources

\* So it is as sound as what it was drawn from.
LEMMA CandidateSound ==
  ASSUME NEW current \in Proposals, NEW o \in Observations, NEW text \in Answers,
         payloads[current] \in Payload, SoundEvidence(payloads[current]),
         Valid(Candidate(current, o, text)),
         payloads[current].function = "working" =>
            Observed[o].context = payloads[current].task
  PROVE  /\ Candidate(current, o, text) \in Payload
         /\ SoundEvidence(Candidate(current, o, text))
         /\ Keeps(payloads[current], Candidate(current, o, text))
         /\ Candidate(current, o, text).function = payloads[current].function
         /\ Candidate(current, o, text).text = text
<1> DEFINE older == payloads[current]
           newer == Candidate(current, o, text)
<1>1. /\ Sources(older, o) \in Seq(Observations)
      /\ Len(older.sources) <= Len(Sources(older, o))
      /\ \A i \in DOMAIN older.sources : Sources(older, o)[i] = older.sources[i]
      /\ \A i \in DOMAIN Sources(older, o) \ DOMAIN older.sources :
            /\ i = Len(older.sources) + 1 /\ Sources(older, o)[i] = o
            /\ older.function = "working" =>
                  \A j \in DOMAIN older.sources : older.sources[j] # o
  BY SourcesGrow
<1>2. /\ newer.function = older.function /\ newer.task = older.task
      /\ newer.text = text /\ newer.sources = Sources(older, o)
  BY DEF Candidate, Payload
<1>3. newer \in Payload
  <2>1. text \in Texts
    BY <1>2 DEF Valid, Answers
  <2> QED BY <1>1, <2>1 DEF Candidate, Payload
<1>4. Keeps(older, newer)
  BY <1>1, <1>2 DEF Keeps
<1>5. SoundEvidence(newer)
  <2>1. Evidenced(newer)
    BY DEF Valid
  <2>2. ASSUME newer.function = "working", NEW i \in DOMAIN newer.sources
        PROVE  Observed[newer.sources[i]].context = newer.task
    <3>1. CASE i \in DOMAIN older.sources
      BY <1>1, <1>2, <2>2, <3>1 DEF SoundEvidence
    <3>2. CASE i \notin DOMAIN older.sources
      BY <1>1, <1>2, <2>2, <3>2
    <3> QED BY <3>1, <3>2
  <2>3. ASSUME newer.function = "working", NEW i \in DOMAIN newer.sources,
               NEW j \in DOMAIN newer.sources, newer.sources[i] = newer.sources[j]
        PROVE  i = j
    <3>1. CASE i \in DOMAIN older.sources /\ j \in DOMAIN older.sources
      BY <1>1, <1>2, <2>3, <3>1 DEF SoundEvidence
    <3>2. CASE i \notin DOMAIN older.sources /\ j \notin DOMAIN older.sources
      BY <1>1, <1>2, <2>3, <3>2
    <3>3. CASE i \in DOMAIN older.sources /\ j \notin DOMAIN older.sources
      BY <1>1, <1>2, <2>3, <3>3
    <3>4. CASE i \notin DOMAIN older.sources /\ j \in DOMAIN older.sources
      BY <1>1, <1>2, <2>3, <3>4
    <3> QED BY <3>1, <3>2, <3>3, <3>4
  <2> QED BY <2>1, <2>2, <2>3 DEF SoundEvidence
<1> QED BY <1>2, <1>3, <1>4, <1>5

\* What is true of a proposal when it is made.
Proposing(p, proposal) ==
    /\ proposal \in Proposal
    /\ \E valid_from : Propose(p, proposal, valid_from)
    /\ SoundEvidence(proposal.payload) /\ Drawn(proposal)

\* A formation.
LEMMA CreateProposed ==
  ASSUME NEW p \in Proposals, NEW mode \in Mode, NEW o \in Observations,
         NEW function \in MemoryFunction, NEW text \in Answers,
         ProposeCreate(p, mode, o, Formation(function, o, text))
  PROVE  \E proposal : Proposing(p, proposal)
<1> DEFINE payload == Formation(function, o, text)
           proposal == [kind |-> "create", mode |-> mode, target |-> p, base |-> None,
                        observation |-> o, payload |-> payload]
<1>1. payload \in Payload /\ SoundEvidence(payload)
  BY FormationSound DEF ProposeCreate, ValidCreate
<1> HIDE DEF payload
<1>2. proposal \in Proposal
  BY <1>1 DEF Proposal
<1>3. Propose(p, proposal, Observed[o].captured_at)
  BY DEF ProposeCreate, payload
<1>4. SoundEvidence(proposal.payload) /\ Drawn(proposal)
  BY <1>1 DEF Drawn
<1> QED BY <1>2, <1>3, <1>4 DEF Proposing

\* An evolution; the rules do not repeat a fact.
LEMMA UpdateProposed ==
  ASSUME EvolutionInv, NEW p \in Proposals, NEW mode \in Mode,
         NEW m \in StoredMemories, NEW current \in VersionsOf(m), NEW o \in Observations,
         NEW kind, NEW text \in Answers, NEW valid_from,
         ProposeUpdate(p, mode, m, current, o, kind, text, valid_from),
         mode = "generator-free" => ~Known(current, o) /\ text = Observed[o].text
  PROVE  \E proposal : Proposing(p, proposal)
<1> DEFINE payload == Candidate(current, o, text)
           proposal == [kind |-> kind, mode |-> mode, target |-> m, base |-> current,
                        observation |-> o, payload |-> payload]
<1>1. /\ current \in Proposals /\ current \in StoredVersions /\ m \in Proposals
      /\ versions[current].memory = m
  BY DEF VersionsOf, StoredVersions, StoredMemories
<1>2. /\ proposed[current] \in Proposal /\ payloads[current] = proposed[current].payload
      /\ SoundEvidence(payloads[current])
  BY <1>1 DEF EvolutionInv, EvolutionTypeOK, Recorded, ProposalsSound
<1>3. payloads[current] \in Payload
  BY <1>2 DEF Proposal
<1>4. /\ kind \in {"supersede", "conflict"} /\ Valid(payload)
      /\ Propose(p, proposal, valid_from)
      /\ payloads[current].function = "working" =>
            Observed[o].context = payloads[current].task
  BY DEF ProposeUpdate, ValidUpdate, Agrees
<1>5. /\ payload \in Payload /\ SoundEvidence(payload)
      /\ Keeps(payloads[current], payload)
      /\ payload.function = payloads[current].function /\ payload.text = text
  BY <1>1, <1>3, <1>2, <1>4, CandidateSound
<1> HIDE DEF payload
<1>6. proposal \in Proposal
  BY <1>1, <1>4, <1>5 DEF Proposal
<1>7. ~New(current)
  BY <1>1 DEF EvolutionInv, RowsInv, Made, New
<1>8. mode = "generator-free" /\ payload.function = "factual"
         => payload.text # payloads[current].text
  BY <1>5 DEF Known
<1>9. Drawn(proposal)
  BY <1>1, <1>5, <1>7, <1>8 DEF Drawn
<1> QED BY <1>4, <1>5, <1>6, <1>9 DEF Proposing

\* These are all proposals that strategies make.
LEMMA StrategiesPropose ==
  ASSUME EvolutionInv, NEW p \in Proposals, NEW o \in Observations,
         FormMemory(p, o) \/ EvolveMemory(p, o)
  PROVE  \E proposal : Proposing(p, proposal)
<1>1. Observed[o].text \in Answers
  BY ObservedAssumption DEF Observation, Answers
<1>2. CASE FormMemory(p, o)
  <2>1. \E function \in MemoryFunction, mode \in Mode, text \in Answers :
           ProposeCreate(p, mode, o, Formation(function, o, text))
    BY <1>1, <1>2 DEF FormMemory, FormByRule, FormAssisted, Mode
  <2> QED BY <2>1, CreateProposed
<1>3. CASE EvolveMemory(p, o)
  <2>1. \E m \in StoredMemories : \E current \in VersionsOf(m) :
           \E mode \in Mode, kind \in {"supersede", "conflict", "rebuild"},
              text \in Answers, valid_from \in {versions[current].valid_from,
                                                Observed[o].captured_at} :
              /\ ProposeUpdate(p, mode, m, current, o, kind, text, valid_from)
              /\ mode = "generator-free" => ~Known(current, o) /\ text = Observed[o].text
    BY <1>1, <1>3 DEF EvolveMemory, EvolveByRule, EvolveAssisted, Mode
  <2> QED BY <2>1, UpdateProposed
<1> QED BY <1>2, <1>3
-------------------------------------------------------------------------------
(* What the steps do.                                                        *)

\* A proposal is applied: it is checked against the scope its version gets.
Applying(p) ==
    /\ p \notin StoredVersions /\ proposed[p] # None
    /\ StoredVersions' = StoredVersions \cup {p}
    /\ ReferencesHold(proposed[p], ScopeOf(p)')
    /\ Stored(p, proposed[p].payload)

\* Whichever way it is applied.
LEMMA ProposalApplied ==
  ASSUME EvolutionInv, NEW p \in Proposals, ApplyProposed(p)
  PROVE  Applying(p) /\ Apply(p)
<1> DEFINE proposal == proposed[p]
<1>1. proposal \in Proposal /\ proposal # None
  BY DEF ApplyProposed, ApplyFormation, ApplyEvolution, EvolutionInv, EvolutionTypeOK
<1>2. /\ Observed[proposal.observation].scope \in Scopes
      /\ proposal.payload.task \in Tasks \cup {NoTask} /\ proposal.target \in Proposals
  BY <1>1, ObservedAssumption DEF Proposal, Payload, Observation
<1>3. {} \in SUBSET StoredVersions /\ NoGroup \in KnownGroups
  BY DEF KnownGroups
<1>4. RowsInv
  BY DEF EvolutionInv
<1>5. CASE ApplyFormation(p)
  <2> DEFINE scope == Observed[proposal.observation].scope
  <2>1. PICK at \in Recent : Create(p, scope, proposal.payload.task, {}, NoGroup, at)
    BY <1>5 DEF ApplyFormation
  <2>2. New(p) /\ Apply(p)
    BY <1>2, <1>3, <2>1 DEF Apply, Create
  <2>3. StoredVersions' = StoredVersions \cup {p} /\ ScopeOf(p)' = scope
    BY <1>2, <1>3, <1>4, <2>1, CreatedVersion
  <2>4. ReferencesHold(proposal, scope) /\ Stored(p, proposal.payload)
    BY <1>5 DEF ApplyFormation
  <2>5. p \notin StoredVersions
    BY <1>4, <2>2 DEF RowsInv, Made, New
  <2> QED BY <1>1, <2>2, <2>3, <2>4, <2>5 DEF Applying
<1>6. ASSUME NEW current \in StoredVersions, ApplyEvolution(p, current)
      PROVE  Applying(p) /\ Apply(p)
  <2> DEFINE m == proposal.target
  <2>0. current \in Proposals
    BY DEF StoredVersions
  <2>1. PICK at \in Recent : \/ Supersede(p, m, current, {}, NoGroup, at)
                             \/ Conflict(p, m, current, {}, NoGroup, at)
    BY <1>6 DEF ApplyEvolution
  <2>2. New(p) /\ Apply(p)
    BY <1>2, <1>3, <2>0, <2>1 DEF Apply, Evolve, Supersede, Conflict, MayEvolve
  <2>3. StoredVersions' = StoredVersions \cup {p} /\ ScopeOf(p)' = memories[m].scope
    BY <1>2, <1>3, <1>4, <2>0, <2>1, EvolvedVersion
  <2>4. ReferencesHold(proposal, memories[m].scope) /\ Stored(p, proposal.payload)
    BY <1>6 DEF ApplyEvolution
  <2>5. p \notin StoredVersions
    BY <1>4, <2>2 DEF RowsInv, Made, New
  <2> QED BY <1>1, <2>2, <2>3, <2>4, <2>5 DEF Applying
<1> QED BY <1>5, <1>6 DEF ApplyProposed

\* Purging, opening the set of a task and passing time leave no new version, and
\* the rest of what is kept here.
Pruning ==
    /\ StoredVersions' \subseteq StoredVersions
    /\ \A v \in StoredVersions' : payloads'[v] = payloads[v]
    /\ payloads' \in [Proposals -> Payload \cup {None}]
    /\ feedback' = {f \in feedback : f[1] \in StoredVersions'}
    /\ UNCHANGED <<proposed, episodes, recording>>

\* Purging in either mode does.
LEMMA PurgePrunes ==
  ASSUME EvolutionInv, NEW m \in Proposals, PurgeMemory(m)
  PROVE  Pruning
<1>1. RowsStay
  BY PurgeEffects DEF PurgeMemory, EvolutionInv
<1>2. \A f \in feedback : f[1] \in Proposals
  BY DEF EvolutionInv, EvolutionTypeOK
<1> QED BY <1>1, <1>2 DEF RowsStay, Pruning, PurgeMemory, EvolutionInv, EvolutionTypeOK,
                        StoredVersions

\* Every step of the strategies is a step of the repository or leaves it alone.
LEMMA StepRefined ==
  ASSUME EvolutionInv, [EvolutionNext]_<<vars, evolutionVars>>
  PROVE  [Next]_vars
<1>1. ASSUME NEW p \in Proposals, ApplyProposed(p)
      PROVE  Next
  BY <1>1, ProposalApplied DEF Next
<1>2. ASSUME NEW p \in Proposals, NEW o \in Observations,
             FormMemory(p, o) \/ EvolveMemory(p, o)
      PROVE  UNCHANGED vars
  BY <1>2, StrategiesPropose DEF Proposing, Propose
<1>3. ASSUME NEW m \in StoredMemories, PurgeMemory(m)
      PROVE  Next
  BY <1>3 DEF PurgeMemory, Next, StoredMemories
<1>4. ASSUME NEW o \in Observations, OpenTask(o)
      PROVE  Next
  <2>1. Observed[o].scope.namespace \in Namespaces /\ Observed[o].context \in Tasks
    BY <1>4, ObservedAssumption, ScopeAssumption DEF OpenTask, Observation
  <2> QED BY <1>4, <2>1 DEF OpenTask, Next, KeepWorkingSets, ChangeWorkingSet
<1>5. ASSUME NEW o \in Observations, PutEpisode(o)
      PROVE  UNCHANGED vars
  BY <1>5 DEF PutEpisode
<1>6. ASSUME NEW v, NEW t, CheckFeedback(v, t) \/ WriteFeedback(v, t)
      PROVE  UNCHANGED vars
  BY <1>6 DEF CheckFeedback, WriteFeedback
<1>7. Pass => Next
  BY DEF Pass, Next
<1> QED BY <1>1, <1>2, <1>3, <1>4, <1>5, <1>6, <1>7 DEF EvolutionNext, Unapplied

\* Opening the set of a task, passing time and stuttering do as well.
LEMMA OthersPrune ==
  ASSUME EvolutionInv,
         \/ \E o \in Observations : OpenTask(o)
         \/ Pass \/ UNCHANGED <<vars, evolutionVars>>
  PROVE  Pruning
<1>1. versions' = versions /\ UNCHANGED evolutionVars
  BY DEF OpenTask, PutWorkingSet, Pass, Tick, vars
<1>2. StoredVersions' = StoredVersions
  BY <1>1 DEF StoredVersions
<1> QED BY <1>1, <1>2 DEF Pruning, evolutionVars, EvolutionInv, EvolutionTypeOK
-------------------------------------------------------------------------------
(* What a step keeps.                                                        *)

\* A version that stays keeps its memory and its scope.
LEMMA PlacesKept ==
  ASSUME RowsInv, RowsInv', [Next]_vars, NEW v \in StoredVersions, v \in StoredVersions'
  PROVE  versions'[v].memory = versions[v].memory /\ ScopeOf(v)' = ScopeOf(v)
  BY StoredScopes, ScopesKept DEF ScopeOf, RowsInv, Homed

\* A proposal stays what it was drawn as: a purged base is not made again.
LEMMA DrawnKept ==
  ASSUME RowsInv, RowsInv', [Next]_vars, NEW proposal, Drawn(proposal),
         \A v \in StoredVersions : v \in StoredVersions' => payloads'[v] = payloads[v]
  PROVE  Drawn(proposal)'
<1> SUFFICES ASSUME proposal.kind # "create" PROVE Drawn(proposal)'
  BY DEF Drawn
<1> DEFINE base == proposal.base
<1>1. base \in Proposals /\ ~New(base)
  BY DEF Drawn
<1>2. ~New(base)' /\ (base \in StoredVersions' => base \in StoredVersions)
  BY <1>1, NotRemade
<1>3. base \in StoredVersions' =>
         versions'[base].memory = versions[base].memory /\ payloads'[base] = payloads[base]
  BY <1>2, PlacesKept
<1> QED BY <1>1, <1>2, <1>3 DEF Drawn, Keeps

\* A version stays recorded as long as what it rests on is not taken back.
LEMMA RecordedKept ==
  ASSUME RowsInv, RowsInv', [Next]_vars, NEW v \in StoredVersions, v \in StoredVersions',
         Recorded(v), payloads'[v] = payloads[v], proposed'[v] = proposed[v],
         episodes \subseteq episodes'
  PROVE  Recorded(v)'
<1>1. ScopeOf(v)' = ScopeOf(v)
  BY PlacesKept
<1> QED BY <1>1 DEF Recorded, ReferencesHold

\* Feedback stays anchored as long as its version is there.
LEMMA AnchoredKept ==
  ASSUME RowsInv, RowsInv', [Next]_vars, NEW f, f[1] \in StoredVersions,
         f[1] \in StoredVersions', Anchored(f), payloads'[f[1]] = payloads[f[1]]
  PROVE  Anchored(f)'
<1>1. ScopeOf(f[1])' = ScopeOf(f[1])
  BY PlacesKept
<1> QED BY <1>1 DEF Anchored

\* Making a proposal keeps the invariant.
LEMMA ProposingKeeps ==
  ASSUME EvolutionInv, RowsInv', [Next]_vars, NEW p \in Proposals, NEW proposal,
         Proposing(p, proposal)
  PROVE  EvolutionInv'
<1>1. /\ New(p) /\ proposed' = [proposed EXCEPT ![p] = proposal]
      /\ UNCHANGED <<vars, payloads, episodes, feedback, recording>>
  BY DEF Proposing, Propose
<1>2. StoredVersions' = StoredVersions /\ p \notin StoredVersions
  BY <1>1 DEF StoredVersions, vars, New, EvolutionInv, RowsInv, Made
<1>3. EvolutionTypeOK'
  BY <1>1 DEF EvolutionInv, EvolutionTypeOK, Proposing, vars, TypeOK, Instant
<1>4. /\ proposed'[p] = proposal
      /\ \A q \in Proposals \ {p} : proposed'[q] = proposed[q]
  BY <1>1 DEF EvolutionInv, EvolutionTypeOK
<1>5. ASSUME NEW q \in Proposals, proposed'[q] # None
      PROVE  SoundEvidence(proposed'[q].payload) /\ Drawn(proposed[q])'
  <2>1. SoundEvidence(proposed'[q].payload) /\ Drawn(proposed'[q])
    BY <1>4, <1>5 DEF Proposing, EvolutionInv, ProposalsSound
  <2>2. PICK x : x = proposed'[q]
    OBVIOUS
  <2>3. Drawn(x)'
    BY <1>1, <2>1, <2>2, DrawnKept DEF EvolutionInv
  <2> QED BY <2>1, <2>2, <2>3 DEF Drawn
<1>7. ProposalsSound'
  BY <1>5 DEF ProposalsSound, SoundEvidence, Evidenced
<1>8. \A v \in StoredVersions' : Recorded(v)'
  <2> SUFFICES ASSUME NEW v \in StoredVersions PROVE Recorded(v)'
    BY <1>2
  <2>1. v \in Proposals /\ v # p
    BY <1>2 DEF StoredVersions
  <2> QED BY <1>1, <1>2, <1>4, <2>1, RecordedKept DEF EvolutionInv
<1>9. ASSUME NEW f, f[1] \in StoredVersions, Anchored(f)
      PROVE  Anchored(f)'
  BY <1>1, <1>2, <1>9, AnchoredKept DEF EvolutionInv
<1>10. \A f \in recording : New(f[1])' <=> New(f[1])
  BY <1>1 DEF New, vars
<1>11. \A f \in feedback' : f[1] \in StoredVersions' /\ Anchored(f)'
  BY <1>1, <1>2, <1>9 DEF EvolutionInv
<1>12. \A f \in recording' : ~New(f[1])' /\ (f[1] \in StoredVersions' => Anchored(f)')
  BY <1>1, <1>2, <1>9, <1>10 DEF EvolutionInv
<1> QED BY <1>3, <1>7, <1>8, <1>11, <1>12 DEF EvolutionInv

\* The proposals are not touched by the other steps.
LEMMA ProposalsKept ==
  ASSUME EvolutionInv, RowsInv', [Next]_vars, UNCHANGED proposed,
         \A v \in StoredVersions : v \in StoredVersions' => payloads'[v] = payloads[v]
  PROVE  ProposalsSound'
<1>1. ASSUME NEW q \in Proposals, proposed'[q] # None
      PROVE  SoundEvidence(proposed'[q].payload) /\ Drawn(proposed[q])'
  <2>1. SoundEvidence(proposed'[q].payload) /\ Drawn(proposed[q])
    BY <1>1 DEF EvolutionInv, ProposalsSound
  <2>2. PICK x : x = proposed[q]
    OBVIOUS
  <2>3. Drawn(x)'
    BY <2>1, <2>2, DrawnKept DEF EvolutionInv
  <2> QED BY <2>1, <2>2, <2>3 DEF Drawn
<1> QED BY <1>1 DEF ProposalsSound, SoundEvidence, Evidenced

\* Applying a proposal keeps the invariant.
LEMMA ApplyingKeeps ==
  ASSUME EvolutionInv, RowsInv', [Next]_vars, NEW p \in Proposals, Applying(p)
  PROVE  EvolutionInv'
<1>1. /\ p \notin StoredVersions /\ proposed[p] # None
      /\ StoredVersions' = StoredVersions \cup {p}
      /\ ReferencesHold(proposed[p], ScopeOf(p)')
      /\ payloads' = [payloads EXCEPT ![p] = proposed[p].payload]
      /\ UNCHANGED <<proposed, episodes, feedback, recording>>
  BY DEF Applying, Stored
<1>2. payloads'[p] = proposed[p].payload /\ proposed[p].payload \in Payload
  BY <1>1 DEF EvolutionInv, EvolutionTypeOK, Proposal
<1>3. \A v \in StoredVersions : v # p /\ payloads'[v] = payloads[v]
  BY <1>1 DEF EvolutionInv, EvolutionTypeOK, StoredVersions
<1>4. EvolutionTypeOK'
  BY <1>1, <1>2 DEF EvolutionInv, EvolutionTypeOK, RowsInv
<1>5. ProposalsSound'
  BY <1>1, <1>3, ProposalsKept
<1>6. Recorded(p)'
  BY <1>1, <1>2 DEF Recorded, ReferencesHold
<1>7. \A v \in StoredVersions : Recorded(v)'
  BY <1>1, <1>3, RecordedKept DEF EvolutionInv
<1>8. ASSUME NEW f, f[1] \in StoredVersions, Anchored(f)
      PROVE  Anchored(f)'
  BY <1>1, <1>3, <1>8, AnchoredKept DEF EvolutionInv
<1>9. ASSUME NEW f \in recording
      PROVE  ~New(f[1])' /\ (f[1] \in StoredVersions' => f[1] \in StoredVersions)
  <2>1. f[1] \in Proposals /\ ~New(f[1])
    BY DEF EvolutionInv, EvolutionTypeOK
  <2> QED BY <2>1, NotRemade DEF EvolutionInv
<1>10. \A f \in feedback' : f[1] \in StoredVersions' /\ Anchored(f)'
  BY <1>1, <1>8 DEF EvolutionInv
<1>11. \A f \in recording' : ~New(f[1])' /\ (f[1] \in StoredVersions' => Anchored(f)')
  BY <1>1, <1>8, <1>9 DEF EvolutionInv
<1> QED BY <1>1, <1>4, <1>5, <1>6, <1>7, <1>10, <1>11 DEF EvolutionInv

\* Pruning keeps the invariant: what is about a purged version goes with it, or
\* finds it gone.
LEMMA PruningKeeps ==
  ASSUME EvolutionInv, RowsInv', [Next]_vars, Pruning
  PROVE  EvolutionInv'
<1>1. /\ StoredVersions' \subseteq StoredVersions
      /\ \A v \in StoredVersions' : payloads'[v] = payloads[v]
      /\ payloads' \in [Proposals -> Payload \cup {None}]
      /\ feedback' = {f \in feedback : f[1] \in StoredVersions'}
      /\ UNCHANGED <<proposed, episodes, recording>>
  BY DEF Pruning
<1>2. EvolutionTypeOK'
  BY <1>1 DEF EvolutionInv, EvolutionTypeOK, RowsInv
<1>3. ProposalsSound'
  BY <1>1, ProposalsKept
<1>4. \A v \in StoredVersions' : Recorded(v)'
  BY <1>1, RecordedKept DEF EvolutionInv
<1>5. ASSUME NEW f, f[1] \in StoredVersions', Anchored(f)
      PROVE  Anchored(f)'
  BY <1>1, <1>5, AnchoredKept DEF EvolutionInv
<1>6. ASSUME NEW f \in recording
      PROVE  ~New(f[1])'
  <2>1. f[1] \in Proposals /\ ~New(f[1])
    BY DEF EvolutionInv, EvolutionTypeOK
  <2> QED BY <2>1, NotRemade DEF EvolutionInv
<1>7. \A f \in feedback' : f[1] \in StoredVersions' /\ Anchored(f)'
  BY <1>1, <1>5 DEF EvolutionInv
<1>8. \A f \in recording' : ~New(f[1])' /\ (f[1] \in StoredVersions' => Anchored(f)')
  BY <1>1, <1>5, <1>6 DEF EvolutionInv
<1> QED BY <1>2, <1>3, <1>4, <1>7, <1>8 DEF EvolutionInv

\* Recording an episode keeps the invariant.
LEMMA EpisodesKeep ==
  ASSUME EvolutionInv, RowsInv', [Next]_vars, NEW o \in Observations, PutEpisode(o)
  PROVE  EvolutionInv'
<1>1. /\ episodes' = episodes \cup {o}
      /\ UNCHANGED <<vars, payloads, proposed, feedback, recording>>
  BY DEF PutEpisode
<1>2. StoredVersions' = StoredVersions
  BY <1>1 DEF StoredVersions, vars
<1>3. EvolutionTypeOK'
  BY <1>1 DEF EvolutionInv, EvolutionTypeOK, RowsInv
<1>4. ProposalsSound'
  BY <1>1, ProposalsKept
<1>5. \A v \in StoredVersions' : Recorded(v)'
  BY <1>1, <1>2, RecordedKept DEF EvolutionInv
<1>6. ASSUME NEW f, f[1] \in StoredVersions, Anchored(f)
      PROVE  Anchored(f)'
  BY <1>1, <1>2, <1>6, AnchoredKept DEF EvolutionInv
<1>7. \A f \in recording : New(f[1])' <=> New(f[1])
  BY <1>1 DEF New, vars
<1>8. \A f \in feedback' : f[1] \in StoredVersions' /\ Anchored(f)'
  BY <1>1, <1>2, <1>6 DEF EvolutionInv
<1>9. \A f \in recording' : ~New(f[1])' /\ (f[1] \in StoredVersions' => Anchored(f)')
  BY <1>1, <1>2, <1>6, <1>7 DEF EvolutionInv
<1> QED BY <1>3, <1>4, <1>5, <1>8, <1>9 DEF EvolutionInv

\* Feedback keeps it: what was checked of a version holds as long as it is there.
LEMMA FeedbackKeeps ==
  ASSUME EvolutionInv, RowsInv', [Next]_vars, NEW v \in Proposals, NEW t \in Traces,
         CheckFeedback(v, t) \/ WriteFeedback(v, t)
  PROVE  EvolutionInv'
<1> DEFINE g == <<v, t>>
<1>1. /\ UNCHANGED <<vars, payloads, proposed, episodes>>
      /\ recording' \subseteq recording \cup {g}
      /\ feedback' \subseteq feedback \cup ({g} \cap (StoredVersions \X Traces))
  BY DEF CheckFeedback, WriteFeedback
<1>2. StoredVersions' = StoredVersions
  BY <1>1 DEF StoredVersions, vars
<1>3. EvolutionTypeOK'
  BY <1>1 DEF EvolutionInv, EvolutionTypeOK, RowsInv
<1>4. ProposalsSound'
  BY <1>1, ProposalsKept
<1>5. \A u \in StoredVersions' : Recorded(u)'
  BY <1>1, <1>2, RecordedKept DEF EvolutionInv
<1>6. ~New(v) /\ (v \in StoredVersions => Anchored(g))
  BY DEF CheckFeedback, WriteFeedback, Anchored, EvolutionInv, RowsInv, Made, New
<1>7. ASSUME NEW f, f[1] \in StoredVersions, Anchored(f)
      PROVE  Anchored(f)'
  BY <1>1, <1>2, <1>7, AnchoredKept DEF EvolutionInv
<1>8. \A f \in recording \cup {g} : New(f[1])' <=> New(f[1])
  BY <1>1 DEF New, vars
<1>9. \A f \in feedback' : f[1] \in StoredVersions' /\ Anchored(f)'
  BY <1>1, <1>2, <1>6, <1>7 DEF EvolutionInv
<1>10. \A f \in recording' : ~New(f[1])' /\ (f[1] \in StoredVersions' => Anchored(f)')
  BY <1>1, <1>2, <1>6, <1>7, <1>8 DEF EvolutionInv
<1> QED BY <1>3, <1>4, <1>5, <1>9, <1>10 DEF EvolutionInv

\* So does every step.
LEMMA EvolutionStep ==
  EvolutionInv /\ [EvolutionNext]_<<vars, evolutionVars>> => EvolutionInv'
<1> SUFFICES ASSUME EvolutionInv, [EvolutionNext]_<<vars, evolutionVars>>
             PROVE  EvolutionInv'
  OBVIOUS
<1>1. [Next]_vars
  BY StepRefined
<1>2. RowsInv'
  BY <1>1, RowsStep DEF EvolutionInv
<1>3. ASSUME NEW p \in Proposals, ApplyProposed(p)
      PROVE  EvolutionInv'
  BY <1>1, <1>2, <1>3, ProposalApplied, ApplyingKeeps
<1>4. ASSUME NEW p \in Proposals, NEW o \in Observations,
             FormMemory(p, o) \/ EvolveMemory(p, o)
      PROVE  EvolutionInv'
  BY <1>1, <1>2, <1>4, StrategiesPropose, ProposingKeeps
<1>5. ASSUME NEW m \in StoredMemories, PurgeMemory(m)
      PROVE  EvolutionInv'
  BY <1>1, <1>2, <1>5, PurgePrunes, PruningKeeps DEF StoredMemories
<1>6. ASSUME \/ \E o \in Observations : OpenTask(o)
             \/ Pass \/ UNCHANGED <<vars, evolutionVars>>
      PROVE  EvolutionInv'
  BY <1>1, <1>2, <1>6, OthersPrune, PruningKeeps
<1>7. ASSUME NEW o \in Observations, PutEpisode(o)
      PROVE  EvolutionInv'
  BY <1>1, <1>2, <1>7, EpisodesKeep
<1>8. ASSUME NEW v \in StoredVersions, NEW t \in Traces, CheckFeedback(v, t)
      PROVE  EvolutionInv'
  BY <1>1, <1>2, <1>8, FeedbackKeeps DEF StoredVersions
<1>9. ASSUME NEW r \in recording, WriteFeedback(r[1], r[2])
      PROVE  EvolutionInv'
  <2>1. r[1] \in Proposals /\ r[2] \in Traces
    BY DEF EvolutionInv, EvolutionTypeOK
  <2> QED BY <1>1, <1>2, <1>9, <2>1, FeedbackKeeps
<1> QED BY <1>3, <1>4, <1>5, <1>6, <1>7, <1>8, <1>9 DEF EvolutionNext, Unapplied

\* It holds in every reachable state.
LEMMA EvolutionAlways == EvolutionSpec => []EvolutionInv
<1>1. EvolutionInit => EvolutionInv
  BY DEF EvolutionInit, Init, EvolutionInv, EvolutionTypeOK, RowsInv, TypeOK, Instant,
         Made, Homed, StateAgreement, ProposalsSound, StoredMemories, StoredVersions
<1> QED BY <1>1, EvolutionStep, PTL DEF EvolutionSpec
-------------------------------------------------------------------------------
(* Theorems.                                                                 *)

\* Proposals, payloads and feedback are always of the declared types.
THEOREM EvolutionTypeCorrect == EvolutionSpec => []EvolutionTypeOK
<1>1. EvolutionInv => EvolutionTypeOK
  BY DEF EvolutionInv
<1> QED BY <1>1, EvolutionAlways, PTL

\* The strategies use the repository as it is: what they do to its tables is a
\* behaviour of Lifecycle, so every theorem about Lifecycle is one about them.
THEOREM RepositoryImplemented == EvolutionSpec => Spec
<1>1. EvolutionInit => Init
  BY DEF EvolutionInit
<1>2. EvolutionInv /\ [EvolutionNext]_<<vars, evolutionVars>> => [Next]_vars
  BY StepRefined
<1> QED BY <1>1, <1>2, EvolutionAlways, PTL DEF EvolutionSpec, Spec

\* What a strategy has put on record as evidence is evidence, whoever formed and
\* evolved the version, and from whatever older version a proposal was drawn.
THEOREM EvidenceIsSound == EvolutionSpec => []EvidenceSound
<1>1. EvolutionInv => EvidenceSound
  <2> SUFFICES ASSUME EvolutionInv PROVE EvidenceSound
    OBVIOUS
  <2>1. ASSUME NEW v \in StoredVersions
        PROVE  /\ payloads[v] = proposed[v].payload /\ SoundEvidence(payloads[v])
               /\ ReferencesHold(proposed[v], ScopeOf(v))
    BY DEF EvolutionInv, Recorded, ProposalsSound, StoredVersions
  <2>2. LessonsGrounded
    BY <2>1 DEF LessonsGrounded, SoundEvidence, Evidenced, ReferencesHold
  <2>3. CompactedWithinTask
    BY <2>1 DEF CompactedWithinTask, SoundEvidence
  <2> QED BY <2>2, <2>3 DEF EvidenceSound
<1> QED BY <1>1, EvolutionAlways, PTL

\* Feedback that was checked before a purge and written after it is refused.
THEOREM FeedbackIsAnchored == EvolutionSpec => []FeedbackAnchored
<1>1. EvolutionInv => FeedbackAnchored
  BY DEF EvolutionInv, Anchored, FeedbackAnchored
<1> QED BY <1>1, EvolutionAlways, PTL

\* A supersede that replaces the version it was drawn from loses none of its
\* evidence: only a version that came in between can.
THEOREM EvidenceIsKept == EvolutionSpec => LostOnlyByRace
<1>1. ASSUME EvolutionInv, [EvolutionNext]_<<vars, evolutionVars>>,
             NEW p \in Proposals, Supersedes(p), proposed[p].base = Replaced(p)
      PROVE  /\ Keeps(payloads[Replaced(p)], payloads'[p])
             /\ proposed[p].mode = "generator-free" /\ payloads'[p].function = "factual"
                   => payloads'[p].text # payloads[Replaced(p)].text
  <2>1. p \in StoredVersions' /\ p \notin StoredVersions
    BY <1>1 DEF Supersedes, StoredVersions
  <2>2. ASSUME NEW q \in Proposals, ApplyProposed(q)
        PROVE  q = p
    BY <1>1, <2>1, <2>2, ProposalApplied DEF Applying
  <2>3. UNCHANGED versions \/ Pruning => FALSE
    BY <2>1 DEF StoredVersions, Pruning
  <2>4. ASSUME NEW q \in Proposals, NEW o \in Observations,
               FormMemory(q, o) \/ EvolveMemory(q, o)
        PROVE  UNCHANGED versions
    BY <1>1, <2>4, StrategiesPropose DEF Proposing, Propose, vars
  <2>5. ASSUME NEW m \in StoredMemories, PurgeMemory(m)
        PROVE  Pruning
    BY <1>1, <2>5, PurgePrunes DEF StoredMemories
  <2>6. ASSUME NEW o \in Observations, PutEpisode(o)
        PROVE  UNCHANGED versions
    BY <2>6 DEF PutEpisode, vars
  <2>7. ASSUME NEW v, NEW t, CheckFeedback(v, t) \/ WriteFeedback(v, t)
        PROVE  UNCHANGED versions
    BY <2>7 DEF CheckFeedback, WriteFeedback, vars
  <2>8. ApplyProposed(p)
    BY <1>1, <2>2, <2>3, <2>4, <2>5, <2>6, <2>7, OthersPrune DEF EvolutionNext, Unapplied
  <2>9. PICK current \in StoredVersions : IsCurrent(current, proposed[p].target)
    BY <1>1, <2>8 DEF ApplyProposed, ApplyFormation, ApplyEvolution, Supersedes
  <2>10. Replaced(p) \in StoredVersions
    BY <2>9 DEF Replaced
  <2>11. /\ proposed[p] \in Proposal /\ proposed[p].kind = "supersede"
         /\ Drawn(proposed[p])
    BY <1>1 DEF EvolutionInv, EvolutionTypeOK, ProposalsSound, Supersedes
  <2>12. payloads'[p] = proposed[p].payload
    BY <1>1, <2>8, ProposalApplied DEF Applying, Stored, EvolutionInv, EvolutionTypeOK
  <2> QED BY <1>1, <2>10, <2>11, <2>12 DEF Drawn
<1>2. EvolutionInv /\ [EvolutionNext]_<<vars, evolutionVars>> =>
         [\A p \in Proposals : Supersedes(p) /\ proposed[p].base = Replaced(p) =>
             /\ Keeps(payloads[Replaced(p)], payloads'[p])
             /\ proposed[p].mode = "generator-free" /\ payloads'[p].function = "factual"
                   => payloads'[p].text # payloads[Replaced(p)].text]_payloads
  BY <1>1
<1> QED BY <1>2, EvolutionAlways, PTL DEF EvolutionSpec, LostOnlyByRace
===============================================================================
