------------------------------ MODULE Lifecycle -------------------------------
(*****************************************************************************)
(* The lifecycle repository of the SQLite store: memories, their versions,   *)
(* the derivation edges between versions, the two search indexes, the apply  *)
(* operations, purge receipts and working sets.                              *)
(*                                                                           *)
(* Every transaction is one step.  A transaction that finds a reason to      *)
(* refuse rolls back, and a replayed proposal only reads: neither changes    *)
(* the store, so neither is an action.  The target, the parents and the time *)
(* of a proposal were read by its caller some time before; they are          *)
(* arbitrary here, and only what the transaction checks again can be relied  *)
(* on.  PutEmbedding is two statements outside a transaction.                *)
(*                                                                           *)
(* The ids of memories and versions are hashes of the proposal that made     *)
(* them (lifecycleID), so memory p and version p stand for these ids.        *)
(*****************************************************************************)
EXTENDS StoredTime

CONSTANTS Proposals,
          Namespaces, Subjects, Principals,
          Scopes,          \* [namespace, subject, owner, visibility]
          Tasks,           \* task ids; a working memory has one as its context
          NoTask,          \* a factual or experiential memory
          None,            \* no row
          NoGroup,         \* SQL NULL in conflict_group_id
          ValidTime,       \* valid time of each proposal: as stated, or open from
                           \* the time it was created
          Embedder,        \* whether an embedding provider is configured
          MaxDelay,        \* bound: ticks from reading the clock to the effect
          MaxTime          \* bound: last instant of the clock

Visibility == {"private", "shared", "public"}

ASSUME ScopeAssumption ==
    Scopes \subseteq [namespace : Namespaces, subject : Subjects,
                      owner : Principals, visibility : Visibility]

NoTime == -1               \* SQL NULL in system_to, valid_to and expires_at
Interval == [from : Instant, to : Instant \cup {NoTime}]

ASSUME ValidTimeAssumption == ValidTime \in [Proposals -> Interval]
ASSUME EmbedderAssumption == Embedder \in BOOLEAN
ASSUME BoundAssumption == MaxDelay \in Nat /\ MaxTime \in Nat
ASSUME NoneAssumption ==
    None \notin Proposals /\ NoGroup \notin Proposals /\ NoTask \notin Tasks

VARIABLES memories,        \* table memories, by id
          versions,        \* table memory_versions, by id
          dependencies,    \* table memory_dependencies: <<parent, child>>
          fts,             \* version ids in memory_fts
          embeddings,      \* version ids in memory_embeddings
          embedding,       \* versions whose vector PutEmbedding is about to write
          operations,      \* the target of the apply operation of each proposal
          receipts,        \* targets in purge_receipts
          working,         \* table working_sets, by namespace and task
          now              \* the wall clock

vars == <<memories, versions, dependencies, fts, embeddings, embedding,
          operations, receipts, working, now>>

MemoryState == {"active", "archived", "forgotten"}
VersionState == {"current", "superseded", "archived", "forgotten", "stale"}

Memory == [scope : Scopes, task : Tasks \cup {NoTask}, state : MemoryState,
           current_version : Nat \ {0}]
MemoryVersion == [memory : Proposals, number : Nat \ {0}, state : VersionState,
                  valid_from : Instant, valid_to : Instant \cup {NoTime},
                  system_from : Instant, system_to : Instant \cup {NoTime},
                  group : Proposals \cup {NoGroup}]
WorkingSet == [state : {"active", "expired"}, expires_at : Instant \cup {NoTime},
               global_recall : BOOLEAN]

ASSUME RowAssumption == None \notin Memory \cup MemoryVersion \cup WorkingSet

TypeOK ==
    /\ memories \in [Proposals -> Memory \cup {None}]
    /\ versions \in [Proposals -> MemoryVersion \cup {None}]
    /\ dependencies \subseteq Proposals \X Proposals
    /\ fts \subseteq Proposals
    /\ embeddings \subseteq Proposals
    /\ embedding \subseteq Proposals
    /\ operations \in [Proposals -> Proposals \cup {None}]
    /\ receipts \subseteq Proposals
    /\ working \in [Namespaces \X Tasks -> WorkingSet \cup {None}]
    /\ now \in Instant

Init ==
    /\ memories = [m \in Proposals |-> None]
    /\ versions = [v \in Proposals |-> None]
    /\ dependencies = {} /\ fts = {} /\ embeddings = {} /\ embedding = {}
    /\ operations = [p \in Proposals |-> None] /\ receipts = {}
    /\ working = [k \in Namespaces \X Tasks |-> None]
    /\ now = 0

\* A time that a caller may have read before its transaction.
Recent == {t \in 0..now : t + MaxDelay >= now}

StoredMemories == {m \in Proposals : memories[m] # None}
StoredVersions == {v \in Proposals : versions[v] # None}
VersionsOf(m) == {v \in StoredVersions : versions[v].memory = m}
ScopeOf(v) == memories[versions[v].memory].scope

\* loadCurrentMemory: the version whose number the memory row names.
IsCurrent(v, m) ==
    v \in VersionsOf(m) /\ versions[v].number = memories[m].current_version

\* The recursive queries: everything reachable from vs along the edges.
ClosedUnder(edges, T) == \A e \in edges : e[1] \in T => e[2] \in T
Tree(edges, vs) ==
    {v \in Proposals : \A T \in SUBSET Proposals :
                          vs \subseteq T /\ ClosedUnder(edges, T) => v \in T}
Children(edges, v) == {d \in Proposals : <<v, d>> \in edges}
Descendants(v) == Tree(dependencies, Children(dependencies, v))
-------------------------------------------------------------------------------
(* Checks inside the transaction.                                            *)

\* Mutant: the visibility of the target is not looked at.
MutMayFlow(source, target) ==
    /\ source.namespace = target.namespace /\ source.subject = target.subject
    /\ source.visibility = "private" => source.owner = target.owner
    /\ source.visibility = "shared" => target.visibility # "public"

\* validateDependencies: what content of one scope may be derived into another.
MayFlow(source, target) ==
    /\ source.namespace = target.namespace /\ source.subject = target.subject
    /\ source.visibility = "private" =>
          source.owner = target.owner /\ target.visibility = "private"
    /\ source.visibility = "shared" => target.visibility # "public"

ValidParents(parents, scope) ==
    parents \subseteq StoredVersions /\ \A v \in parents : MayFlow(ScopeOf(v), scope)

Acyclic(parents, current) == parents \cap ({current} \cup Descendants(current)) = {}

\* Mutant: only the expiry time is checked, not the state of the set.
MutWorkingReference(scope, task, at) ==
    task # NoTask =>
        LET set == working[<<scope.namespace, task>>] IN
        set # None /\ (set.expires_at = NoTime \/ set.expires_at > at)

\* validateWorkingReference: compares parsed times, not the stored texts.
WorkingReference(scope, task, at) ==
    task # NoTask =>
        LET set == working[<<scope.namespace, task>>] IN
        /\ set # None /\ set.state = "active"
        /\ set.expires_at = NoTime \/ set.expires_at > at
-------------------------------------------------------------------------------
(* Apply: one proposal, one transaction, one operation row.                  *)

New(p) == operations[p] = None          \* otherwise loadAppliedProposal replays

NewMemory(scope, task) ==
    [scope |-> scope, task |-> task, state |-> "active", current_version |-> 1]

NewVersion(p, m, number, at, group) ==
    [memory |-> m, number |-> number, state |-> "current",
     valid_from |-> ValidTime[p].from, valid_to |-> ValidTime[p].to,
     system_from |-> at, system_to |-> NoTime, group |-> group]

\* Group ids a caller may name: none, or one it has seen.
KnownGroups == {NoGroup} \cup {versions[v].group : v \in StoredVersions}

\* insertMemoryRows and insertVersionRows: the row, its edges, its index entry.
InsertEdgesAndIndex(p, parents) ==
    /\ dependencies' = dependencies \cup (parents \X {p})
    /\ fts' = fts \cup {p}

Create(p, scope, task, parents, group, at) ==
    /\ New(p)
    /\ ValidParents(parents, scope) /\ WorkingReference(scope, task, at)
    /\ memories' = [memories EXCEPT ![p] = NewMemory(scope, task)]
    /\ versions' = [versions EXCEPT ![p] = NewVersion(p, p, 1, at, group)]
    /\ InsertEdgesAndIndex(p, parents)
    /\ operations' = [operations EXCEPT ![p] = p]
    /\ UNCHANGED <<embeddings, embedding, receipts, working, now>>

\* The common guard of both evolution modes.
MayEvolve(p, m, current, parents, at) ==
    /\ New(p)
    /\ m \in StoredMemories /\ IsCurrent(current, m)
    /\ memories[m].state = "active"
    /\ ValidParents(parents, memories[m].scope) /\ Acyclic(parents, current)
    /\ WorkingReference(memories[m].scope, memories[m].task, at)

WithState(version, state) ==
    [memory |-> version.memory, number |-> version.number, state |-> state,
     valid_from |-> version.valid_from, valid_to |-> version.valid_to,
     system_from |-> version.system_from, system_to |-> version.system_to,
     group |-> version.group]

\* Mutant: the closed version stays open in system time.
MutClosed(version, p, at) == WithState(version, "superseded")

\* Mutant: valid time is closed at the time of the supersede.
MutClosedNow(version, p, at) ==
    [WithState(version, "superseded") EXCEPT !.system_to = at, !.valid_to = at]

\* Valid time is closed only by a fact that takes effect within it.
Closed(version, p, at) ==
    IF version.state \in {"current", "stale"}
    THEN [memory |-> version.memory, number |-> version.number, state |-> "superseded",
          valid_from |-> version.valid_from,
          valid_to |->
             LET from == ValidTime[p].from IN
             IF /\ StoredBefore(version.valid_from, from)
                /\ version.valid_to = NoTime \/ StoredBefore(from, version.valid_to)
             THEN from ELSE version.valid_to,
          system_from |-> version.system_from, system_to |-> at,
          group |-> version.group]
    ELSE version

\* Mutant: only the direct children of the closed version are marked.
MutStaleBelow(v) == StoredVersions \cap Children(dependencies, v)

\* markDescendantsStale.
StaleBelow(v) == StoredVersions \cap Descendants(v)

MarkStale(version) ==
    IF version.state = "current" THEN WithState(version, "stale") ELSE version

\* Supersede and rebuild (rebuild and consolidation demand a parent).
Supersede(p, m, current, parents, group, at) ==
    /\ MayEvolve(p, m, current, parents, at)
    /\ at > versions[current].system_from
    /\ versions' = [v \in Proposals |->
          IF v = p THEN NewVersion(p, m, versions[current].number + 1, at, group)
          ELSE IF v = current THEN Closed(versions[v], p, at)
          ELSE IF v \in StaleBelow(current) THEN MarkStale(versions[v])
          ELSE versions[v]]
    /\ memories' = [memories EXCEPT ![m] =
          [scope |-> @.scope, task |-> @.task, state |-> "active",
           current_version |-> versions[current].number + 1]]
    /\ InsertEdgesAndIndex(p, parents)
    /\ operations' = [operations EXCEPT ![p] = m]
    /\ UNCHANGED <<embeddings, embedding, receipts, working, now>>

\* Mutant: the group of the current version is not looked at.
MutConflictGroup(m, current, group) == IF group # NoGroup THEN group ELSE m

ConflictGroup(m, current, group) ==
    IF versions[current].group # NoGroup THEN versions[current].group
    ELSE IF group # NoGroup THEN group ELSE m

Grouped(version, group) ==
    [memory |-> version.memory, number |-> version.number, state |-> version.state,
     valid_from |-> version.valid_from, valid_to |-> version.valid_to,
     system_from |-> version.system_from, system_to |-> version.system_to,
     group |-> group]

\* The alternative becomes a memory of its own, in the group of the target.
Conflict(p, m, current, parents, group, at) ==
    /\ MayEvolve(p, m, current, parents, at)
    /\ versions[current].group # NoGroup /\ group # NoGroup
          => group = versions[current].group
    /\ LET g == ConflictGroup(m, current, group) IN
       versions' = [versions EXCEPT ![current] = Grouped(@, g),
                                    ![p] = NewVersion(p, p, 1, at, g)]
    /\ memories' = [memories EXCEPT ![p] =
          NewMemory(memories[m].scope, memories[m].task)]
    /\ InsertEdgesAndIndex(p, parents)
    /\ operations' = [operations EXCEPT ![p] = p]
    /\ UNCHANGED <<embeddings, embedding, receipts, working, now>>

InState(memory, state) ==
    [scope |-> memory.scope, task |-> memory.task, state |-> state,
     current_version |-> memory.current_version]

\* applyState, whatever state the memory is in.
ApplyState(p, m, current, state) ==
    /\ New(p) /\ m \in StoredMemories /\ IsCurrent(current, m)
    /\ memories' = [memories EXCEPT ![m] = InState(@, state)]
    /\ versions' = [versions EXCEPT ![current] = WithState(@, state)]
    /\ operations' = [operations EXCEPT ![p] = m]
    /\ UNCHANGED <<dependencies, embedding, receipts, working, now>>

Archive(p, m, current) ==
    /\ ApplyState(p, m, current, "archived")
    /\ UNCHANGED <<fts, embeddings>>

\* Mutant: only the current version leaves the lexical index.
MutForget(p, m, current) ==
    /\ ApplyState(p, m, current, "forgotten")
    /\ fts' = fts \ {current}
    /\ embeddings' = embeddings \ VersionsOf(m)

Forget(p, m, current) ==
    /\ ApplyState(p, m, current, "forgotten")
    /\ fts' = fts \ VersionsOf(m)
    /\ embeddings' = embeddings \ VersionsOf(m)
-------------------------------------------------------------------------------
(* Purge.  The receipt names the target, not what was removed with it.       *)

\* purgeTargets: the versions of the target and all that is derived from them.
VersionTree(m) == StoredVersions \cap Tree(dependencies, VersionsOf(m))
TreeMemories(m) == {versions[v].memory : v \in VersionTree(m)}

\* DELETE FROM memories; the foreign keys cascade to versions and edges.
Removed(ms) == {v \in StoredVersions : versions[v].memory \in ms}
Remove(m, ms) ==
    /\ memories' = [x \in Proposals |-> IF x \in ms THEN None ELSE memories[x]]
    /\ dependencies' = {e \in dependencies :
                           e[1] \notin Removed(ms) /\ e[2] \notin Removed(ms)}
    /\ fts' = fts \ Removed(ms)
    /\ embeddings' = embeddings \ Removed(ms)
    /\ receipts' = receipts \cup {m}
    /\ UNCHANGED <<embedding, working, now>>

\* Mutant: the operations of the purged memory go with it.
MutPurgeCascade(m) ==
    /\ m \in StoredMemories
    /\ Remove(m, TreeMemories(m))
    /\ versions' = [v \in Proposals |->
          IF v \in Removed(TreeMemories(m)) THEN None ELSE versions[v]]
    /\ operations' = [p \in Proposals |->
          IF operations[p] = m THEN None ELSE operations[p]]

PurgeCascade(m) ==
    /\ m \in StoredMemories
    /\ Remove(m, TreeMemories(m))
    /\ versions' = [v \in Proposals |->
          IF v \in Removed(TreeMemories(m)) THEN None ELSE versions[v]]
    /\ UNCHANGED operations

PurgeMarkStale(m) ==
    /\ m \in StoredMemories
    /\ Remove(m, {m})
    /\ versions' = [v \in Proposals |->
          IF v \in VersionsOf(m) THEN None
          ELSE IF v \in VersionTree(m) THEN MarkStale(versions[v])
          ELSE versions[v]]
    /\ UNCHANGED operations
-------------------------------------------------------------------------------
(* PutEmbedding: read the indexed content, then write the vector.            *)

EmbedRead(v) ==
    /\ Embedder /\ v \in fts
    /\ embedding' = embedding \cup {v}
    /\ UNCHANGED <<memories, versions, dependencies, fts, embeddings,
                   operations, receipts, working, now>>

\* Mutant: foreign keys are not enforced.
MutEmbedWrite(v) ==
    /\ v \in embedding
    /\ embedding' = embedding \ {v}
    /\ embeddings' = embeddings \cup {v}
    /\ UNCHANGED <<memories, versions, dependencies, fts, operations, receipts,
                   working, now>>

\* The foreign key refuses a version that is gone.
EmbedWrite(v) ==
    /\ v \in embedding
    /\ embedding' = embedding \ {v}
    /\ embeddings' = embeddings \cup ({v} \cap StoredVersions)
    /\ UNCHANGED <<memories, versions, dependencies, fts, operations, receipts,
                   working, now>>
-------------------------------------------------------------------------------
(* Working sets.                                                             *)

\* One set per namespace and task, whatever happened to it.
PutWorkingSet(n, t, expires, global) ==
    /\ working[<<n, t>>] = None
    /\ working' = [working EXCEPT ![<<n, t>>] =
          [state |-> "active", expires_at |-> expires, global_recall |-> global]]
    /\ UNCHANGED <<memories, versions, dependencies, fts, embeddings, embedding,
                   operations, receipts, now>>

SetWorkingGlobalRecall(n, t, enabled) ==
    /\ working[<<n, t>>] # None /\ working[<<n, t>>].state = "active"
    /\ working' = [working EXCEPT ![<<n, t>>] =
          [state |-> @.state, expires_at |-> @.expires_at, global_recall |-> enabled]]
    /\ UNCHANGED <<memories, versions, dependencies, fts, embeddings, embedding,
                   operations, receipts, now>>

Expired(k, at) ==
    /\ working[k] # None /\ working[k].state = "active"
    /\ working[k].expires_at # NoTime /\ StoredAtMost(working[k].expires_at, at)
OfExpiredTask(m, at) ==
    /\ m \in StoredMemories /\ memories[m].task # NoTask
    /\ Expired(<<memories[m].scope.namespace, memories[m].task>>, at)

\* Mutant: only sets and memories are archived, not the current versions.
MutExpireWorkingSets(at) ==
    /\ \E k \in DOMAIN working : Expired(k, at)
    /\ working' = [k \in DOMAIN working |->
          IF Expired(k, at)
          THEN [state |-> "expired", expires_at |-> working[k].expires_at,
                global_recall |-> working[k].global_recall]
          ELSE working[k]]
    /\ memories' = [m \in Proposals |->
          IF OfExpiredTask(m, at) THEN InState(memories[m], "archived")
          ELSE memories[m]]
    /\ UNCHANGED <<versions, dependencies, fts, embeddings, embedding, operations,
                   receipts, now>>

ExpireWorkingSets(at) ==
    /\ \E k \in DOMAIN working : Expired(k, at)
    /\ working' = [k \in DOMAIN working |->
          IF Expired(k, at)
          THEN [state |-> "expired", expires_at |-> working[k].expires_at,
                global_recall |-> working[k].global_recall]
          ELSE working[k]]
    /\ memories' = [m \in Proposals |->
          IF OfExpiredTask(m, at) THEN InState(memories[m], "archived")
          ELSE memories[m]]
    /\ versions' = [v \in Proposals |->
          IF /\ v \in StoredVersions /\ IsCurrent(v, versions[v].memory)
             /\ OfExpiredTask(versions[v].memory, at)
          THEN WithState(versions[v], "archived") ELSE versions[v]]
    /\ UNCHANGED <<dependencies, fts, embeddings, embedding, operations,
                   receipts, now>>

Tick ==
    /\ now < MaxTime
    /\ now' = now + 1
    /\ UNCHANGED <<memories, versions, dependencies, fts, embeddings, embedding,
                   operations, receipts, working>>
-------------------------------------------------------------------------------
Evolve(p, m, current) ==
    \E parents \in SUBSET StoredVersions, group \in KnownGroups, at \in Recent :
        \/ Supersede(p, m, current, parents, group, at)
        \/ Conflict(p, m, current, parents, group, at)

Apply(p) ==
    \/ \E scope \in Scopes, task \in Tasks \cup {NoTask},
          parents \in SUBSET StoredVersions, group \in KnownGroups, at \in Recent :
          Create(p, scope, task, parents, group, at)
    \/ \E m, current \in Proposals :
          Evolve(p, m, current) \/ Archive(p, m, current) \/ Forget(p, m, current)

Purge(m) == PurgeCascade(m) \/ PurgeMarkStale(m)

Embed(v) == EmbedRead(v) \/ EmbedWrite(v)

ChangeWorkingSet(n, t) ==
    \/ \E expires \in (now + 1)..MaxTime \cup {NoTime}, global \in BOOLEAN :
          PutWorkingSet(n, t, expires, global)
    \/ \E enabled \in BOOLEAN : SetWorkingGlobalRecall(n, t, enabled)

KeepWorkingSets ==
    \/ \E n \in Namespaces, t \in Tasks : ChangeWorkingSet(n, t)
    \/ \E at \in Recent : ExpireWorkingSets(at)

Next ==
    \/ \E p \in Proposals : Apply(p) \/ Purge(p) \/ Embed(p)
    \/ KeepWorkingSets
    \/ Tick

Spec == Init /\ [][Next]_vars
-------------------------------------------------------------------------------
(* Properties.                                                               *)

\* The two tables that both record the state of a memory agree, through every
\* interleaving of evolution, archive, forget, purge and expiry: the memory row
\* names one stored version, that version shows the state of the memory (stale
\* counts as active), and every other version of it is superseded.
StateAgreement ==
    \A m \in StoredMemories :
        \E v \in VersionsOf(m) :
            /\ IsCurrent(v, m)
            /\ IF memories[m].state = "active"
               THEN versions[v].state \in {"current", "stale"}
               ELSE versions[v].state = memories[m].state
            /\ \A u \in VersionsOf(m) \ {v} :
                  /\ versions[u].number < versions[v].number
                  /\ versions[u].state = "superseded"

\* Versions hang on memories, edges and index entries on versions, although
\* only some of them are removed by a foreign key (memory_fts has none).
NoOrphans ==
    /\ \A v \in StoredVersions : versions[v].memory \in StoredMemories
    /\ \A e \in dependencies : e[1] \in StoredVersions /\ e[2] \in StoredVersions
    /\ fts \cup embeddings \subseteq StoredVersions

\* The system-time history of a memory has no gap and no overlap: one version
\* is open, and each closed one ends where the next begins, although every
\* caller brings a clock reading of its own.
SystemHistory ==
    \A v \in StoredVersions :
        LET m == versions[v].memory IN
        IF IsCurrent(v, m) THEN versions[v].system_to = NoTime
        ELSE \E next \in VersionsOf(m) :
                /\ versions[next].number = versions[v].number + 1
                /\ versions[next].system_from = versions[v].system_to
                /\ versions[v].system_from < versions[v].system_to

\* The lexical index holds every version of an active memory and none of a
\* forgotten one.
SearchIndexAgrees ==
    \A m \in StoredMemories :
        /\ memories[m].state = "active" => VersionsOf(m) \subseteq fts
        /\ memories[m].state = "forgotten" => VersionsOf(m) \cap fts = {}

\* Content never flows, over any number of derivations, from private memory to
\* another owner or another visibility, from shared memory to public memory, or
\* out of its namespace and subject.
DerivedContentStays ==
    \A v \in StoredVersions : \A d \in Descendants(v) :
        LET source == ScopeOf(v) target == ScopeOf(d) IN
        /\ source.namespace = target.namespace /\ source.subject = target.subject
        /\ source.visibility = "private" =>
              target.owner = source.owner /\ target.visibility = "private"
        /\ source.visibility = "shared" => target.visibility # "public"

\* No working memory of a task is active once its set has expired, also if the
\* proposal was made, or its clock read, before the expiry.
ExpiredTaskInactive ==
    \A m \in StoredMemories : memories[m].task # NoTask =>
        LET set == working[<<memories[m].scope.namespace, memories[m].task>>] IN
        /\ set # None
        /\ set.state = "expired" => memories[m].state # "active"

\* The recorded group of a version is never replaced: alternatives that were
\* grouped once are recalled together for as long as they are stored.
ConflictGroupKept ==
    [][\A v \in StoredVersions :
          versions[v].group # NoGroup /\ versions'[v] # None
              => versions'[v].group = versions[v].group]_vars

\* When a version is superseded, nothing transitively derived from it is still
\* presented as current, nor is the version that replaces it derived from it.
SupersededNotCurrentBelow ==
    [][\A v \in StoredVersions :
          versions[v].state # "superseded" /\ versions'[v] # None
          /\ versions'[v].state = "superseded" =>
             \A d \in Tree(dependencies', Children(dependencies', v)) :
                versions'[d].state # "current"]_vars

\* Purging in either mode leaves nothing current that was transitively derived
\* from a version of the target.
PurgedNotCurrentBelow ==
    [][\A m \in receipts' \ receipts :
          /\ memories'[m] = None
          /\ \A d \in Tree(dependencies, VersionsOf(m)) :
                versions'[d] # None => versions'[d].state # "current"]_vars

\* Both: what a change took the ground from is not presented as current.
NotCurrentBelow == SupersededNotCurrentBelow /\ PurgedNotCurrentBelow

\* Purged is for good: what a purge removed, as its target or with it, is not
\* made again by a retry of the proposal that made it.
PurgedForGood ==
    [][\A m \in Proposals :
          (m \in receipts \/ operations[m] # None) /\ memories[m] = None
              => memories'[m] = None]_vars
===============================================================================
