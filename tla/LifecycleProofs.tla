--------------------------- MODULE LifecycleProofs ----------------------------
(*****************************************************************************)
(* Theorems about Lifecycle, for every value of its constants.               *)
(*****************************************************************************)
EXTENDS Lifecycle, TLAPS

\* A caller's clock reading is an instant, whatever the bound on its delay.
LEMMA RecentInstants == ASSUME TypeOK PROVE Recent \subseteq Instant
  BY DEF Recent, Instant, TypeOK

\* The stored rows are rows.
LEMMA StoredRows ==
  ASSUME TypeOK
  PROVE  /\ \A m \in StoredMemories : m \in Proposals /\ memories[m] \in Memory
         /\ \A v \in StoredVersions : v \in Proposals /\ versions[v] \in MemoryVersion
  BY DEF TypeOK, StoredMemories, StoredVersions

\* A new memory is a row.
LEMMA NewMemoryRow ==
  ASSUME NEW scope \in Scopes, NEW task \in Tasks \cup {NoTask}
  PROVE  NewMemory(scope, task) \in Memory
  BY DEF NewMemory, Memory, MemoryState

\* A new version is a row.
LEMMA NewVersionRow ==
  ASSUME NEW p \in Proposals, NEW m \in Proposals, NEW number \in Nat \ {0},
         NEW at \in Instant, NEW group \in Proposals \cup {NoGroup}
  PROVE  NewVersion(p, m, number, at, group) \in MemoryVersion
<1>1. ValidTime[p] \in Interval
  BY ValidTimeAssumption
<1> QED
  BY <1>1 DEF NewVersion, MemoryVersion, VersionState, Interval

\* The updates of a version row keep it a row.
LEMMA VersionRow ==
  ASSUME NEW version \in MemoryVersion
  PROVE  /\ \A state \in VersionState : WithState(version, state) \in MemoryVersion
         /\ \A p \in Proposals, at \in Instant : Closed(version, p, at) \in MemoryVersion
         /\ \A group \in Proposals \cup {NoGroup} :
               Grouped(version, group) \in MemoryVersion
         /\ MarkStale(version) \in MemoryVersion
<1>1. \A p \in Proposals : ValidTime[p].from \in Instant
  BY ValidTimeAssumption DEF Interval
<1>2. \A p \in Proposals, at \in Instant : Closed(version, p, at) \in MemoryVersion
  BY <1>1 DEF Closed, MemoryVersion, VersionState
<1> QED
  BY <1>2 DEF WithState, Grouped, MarkStale, MemoryVersion, VersionState

\* The updates of a memory row keep it a row.
LEMMA MemoryRow ==
  ASSUME NEW memory \in Memory, NEW state \in MemoryState
  PROVE  InState(memory, state) \in Memory
  BY DEF InState, Memory

\* The groups that callers know are groups.
LEMMA GroupsKnown ==
  ASSUME TypeOK PROVE KnownGroups \subseteq Proposals \cup {NoGroup}
  BY StoredRows DEF KnownGroups, MemoryVersion
-------------------------------------------------------------------------------
\* The one version that loadCurrentMemory joins with a memory row is a version.
LEMMA CurrentRows ==
  ASSUME TypeOK, NEW m, NEW v, m \in StoredMemories, IsCurrent(v, m)
  PROVE  /\ v \in Proposals /\ versions[v] \in MemoryVersion /\ versions[v] # None
         /\ m \in Proposals /\ memories[m] \in Memory /\ memories[m] # None
         /\ versions[v].memory = m /\ versions[v].number \in Nat \ {0}
         /\ versions[v].number = memories[m].current_version
  BY StoredRows DEF IsCurrent, VersionsOf, StoredVersions, StoredMemories, MemoryVersion

\* Every statement of the repository leaves rows of the declared types behind.
LEMMA TypeStep == TypeOK /\ [Next]_vars => TypeOK'
<1> SUFFICES ASSUME TypeOK, [Next]_vars PROVE TypeOK'
  OBVIOUS
<1>1. ASSUME NEW p \in Proposals, NEW scope \in Scopes,
             NEW task \in Tasks \cup {NoTask}, NEW parents \in SUBSET StoredVersions,
             NEW group \in KnownGroups, NEW at \in Recent,
             Create(p, scope, task, parents, group, at)
      PROVE  TypeOK'
  <2>1. NewMemory(scope, task) \in Memory
    BY NewMemoryRow
  <2>2. at \in Instant /\ group \in Proposals \cup {NoGroup}
    BY RecentInstants, GroupsKnown
  <2>3. NewVersion(p, p, 1, at, group) \in MemoryVersion
    BY <2>2, NewVersionRow
  <2>4. parents \subseteq Proposals
    BY DEF StoredVersions
  <2> QED BY <1>1, <2>1, <2>3, <2>4 DEF Create, InsertEdgesAndIndex, TypeOK
<1>2. ASSUME NEW p \in Proposals, NEW m \in Proposals, NEW current \in Proposals,
             NEW parents \in SUBSET StoredVersions,
             NEW group \in KnownGroups, NEW at \in Recent,
             Supersede(p, m, current, parents, group, at)
      PROVE  TypeOK'
  <2>1. at \in Instant /\ group \in Proposals \cup {NoGroup}
    BY RecentInstants, GroupsKnown
  <2>2. /\ versions[current] \in MemoryVersion /\ memories[m] \in Memory
        /\ versions[current].number \in Nat \ {0}
    BY <1>2, CurrentRows DEF Supersede, MayEvolve
  <2>3. versions[current].number + 1 \in Nat \ {0}
    BY <2>2
  <2>4. NewVersion(p, m, versions[current].number + 1, at, group) \in MemoryVersion
    BY <2>1, <2>3, NewVersionRow
  <2>5. Closed(versions[current], p, at) \in MemoryVersion
    BY <2>1, <2>2, VersionRow
  <2>6. \A v \in StaleBelow(current) : MarkStale(versions[v]) \in MemoryVersion
    BY StoredRows, VersionRow DEF StaleBelow
  <2>7. versions' \in [Proposals -> MemoryVersion \cup {None}]
    BY <1>2, <2>4, <2>5, <2>6 DEF Supersede, TypeOK
  <2>8. memories' \in [Proposals -> Memory \cup {None}]
    <3>1. [scope |-> memories[m].scope, task |-> memories[m].task, state |-> "active",
           current_version |-> versions[current].number + 1] \in Memory
      BY <2>2, <2>3 DEF Memory, MemoryState
    <3> QED BY <1>2, <3>1 DEF Supersede, TypeOK
  <2>9. parents \subseteq Proposals
    BY DEF StoredVersions
  <2> QED BY <1>2, <2>7, <2>8, <2>9 DEF Supersede, InsertEdgesAndIndex, TypeOK
<1>3. ASSUME NEW p \in Proposals, NEW m \in Proposals, NEW current \in Proposals,
             NEW parents \in SUBSET StoredVersions,
             NEW group \in KnownGroups, NEW at \in Recent,
             Conflict(p, m, current, parents, group, at)
      PROVE  TypeOK'
  <2>1. at \in Instant /\ group \in Proposals \cup {NoGroup}
    BY RecentInstants, GroupsKnown
  <2>2. versions[current] \in MemoryVersion /\ memories[m] \in Memory
    BY <1>3, CurrentRows DEF Conflict, MayEvolve
  <2> DEFINE g == ConflictGroup(m, current, group)
  <2>3. g \in Proposals \cup {NoGroup}
    BY <2>1, <2>2 DEF ConflictGroup, MemoryVersion
  <2>4. Grouped(versions[current], g) \in MemoryVersion
    BY <2>2, <2>3, VersionRow
  <2>5. NewVersion(p, p, 1, at, g) \in MemoryVersion
    BY <2>1, <2>3, NewVersionRow
  <2>6. NewMemory(memories[m].scope, memories[m].task) \in Memory
    BY <2>2, NewMemoryRow DEF Memory
  <2> HIDE DEF g
  <2>7. versions' = [versions EXCEPT ![current] = Grouped(@, g),
                                     ![p] = NewVersion(p, p, 1, at, g)]
    BY <1>3 DEF Conflict, g
  <2>8. versions' \in [Proposals -> MemoryVersion \cup {None}]
    BY <2>4, <2>5, <2>7 DEF TypeOK
  <2>9. parents \subseteq Proposals
    BY DEF StoredVersions
  <2> QED BY <1>3, <2>6, <2>8, <2>9 DEF Conflict, InsertEdgesAndIndex, TypeOK
<1>4. ASSUME NEW p \in Proposals, NEW m \in Proposals, NEW current \in Proposals,
             Archive(p, m, current) \/ Forget(p, m, current)
      PROVE  TypeOK'
  <2>1. versions[current] \in MemoryVersion /\ memories[m] \in Memory
    BY <1>4, CurrentRows DEF Archive, Forget, ApplyState
  <2>2. \A state \in {"archived", "forgotten"} :
           /\ WithState(versions[current], state) \in MemoryVersion
           /\ InState(memories[m], state) \in Memory
    BY <2>1, VersionRow, MemoryRow DEF VersionState, MemoryState
  <2> QED BY <1>4, <2>2 DEF Archive, Forget, ApplyState, TypeOK
<1>5. ASSUME NEW m \in Proposals, Purge(m)
      PROVE  TypeOK'
  <2>2. \A v \in VersionTree(m) : MarkStale(versions[v]) \in MemoryVersion
    BY StoredRows, VersionRow DEF VersionTree
  <2>3. CASE PurgeCascade(m)
    BY <2>3 DEF PurgeCascade, Remove, TypeOK
  <2>4. CASE PurgeMarkStale(m)
    <3>1. versions' \in [Proposals -> MemoryVersion \cup {None}]
      BY <2>2, <2>4 DEF PurgeMarkStale, TypeOK
    <3> QED BY <2>4, <3>1 DEF PurgeMarkStale, Remove, TypeOK
  <2> QED BY <1>5, <2>3, <2>4 DEF Purge
<1>6. ASSUME NEW v \in Proposals, Embed(v)
      PROVE  TypeOK'
  BY <1>6 DEF Embed, EmbedRead, EmbedWrite, TypeOK
<1>7. ASSUME NEW n \in Namespaces, NEW t \in Tasks, ChangeWorkingSet(n, t)
      PROVE  TypeOK'
  <2>1. ASSUME NEW expires \in ((now + 1)..MaxTime) \cup {NoTime}, NEW global \in BOOLEAN,
               PutWorkingSet(n, t, expires, global)
        PROVE  TypeOK'
    <3>1. [state |-> "active", expires_at |-> expires, global_recall |-> global]
             \in WorkingSet
      BY DEF WorkingSet, Instant, NoTime, TypeOK
    <3> QED BY <2>1, <3>1 DEF PutWorkingSet, TypeOK
  <2>2. ASSUME NEW enabled \in BOOLEAN, SetWorkingGlobalRecall(n, t, enabled)
        PROVE  TypeOK'
    <3>1. working[<<n, t>>] \in WorkingSet
      BY <2>2 DEF SetWorkingGlobalRecall, TypeOK
    <3>2. [state |-> working[<<n, t>>].state, expires_at |-> working[<<n, t>>].expires_at,
           global_recall |-> enabled] \in WorkingSet
      BY <3>1 DEF WorkingSet
    <3> QED BY <2>2, <3>2 DEF SetWorkingGlobalRecall, TypeOK
  <2> QED BY <1>7, <2>1, <2>2 DEF ChangeWorkingSet
<1>8. ASSUME NEW at \in Recent, ExpireWorkingSets(at)
      PROVE  TypeOK'
  <2>1. \A k \in Namespaces \X Tasks : Expired(k, at) =>
           [state |-> "expired", expires_at |-> working[k].expires_at,
            global_recall |-> working[k].global_recall] \in WorkingSet
    BY DEF Expired, WorkingSet, TypeOK
  <2>2. \A m \in Proposals : OfExpiredTask(m, at) =>
           InState(memories[m], "archived") \in Memory
    BY StoredRows, MemoryRow DEF OfExpiredTask, MemoryState
  <2>3. \A v \in StoredVersions : WithState(versions[v], "archived") \in MemoryVersion
    BY StoredRows, VersionRow DEF VersionState
  <2>4. DOMAIN working = Namespaces \X Tasks
    BY DEF TypeOK
  <2>5. working' \in [Namespaces \X Tasks -> WorkingSet \cup {None}]
    BY <1>8, <2>1, <2>4 DEF ExpireWorkingSets, TypeOK
  <2>6. memories' \in [Proposals -> Memory \cup {None}]
    BY <1>8, <2>2 DEF ExpireWorkingSets, TypeOK
  <2>7. versions' \in [Proposals -> MemoryVersion \cup {None}]
    BY <1>8, <2>3 DEF ExpireWorkingSets, TypeOK
  <2> QED BY <1>8, <2>5, <2>6, <2>7 DEF ExpireWorkingSets, TypeOK
<1>9. CASE Tick
  BY <1>9 DEF Tick, TypeOK, Instant
<1>10. CASE UNCHANGED vars
  BY <1>10 DEF vars, TypeOK
<1> QED BY <1>1, <1>2, <1>3, <1>4, <1>5, <1>6, <1>7, <1>8, <1>9, <1>10
        DEF Next, Apply, Evolve, KeepWorkingSets

\* The rows are always of the declared types, and the clock is an instant.
THEOREM TypeCorrect == Spec => []TypeOK
<1>1. Init => TypeOK
  BY DEF Init, TypeOK, Instant
<1> QED BY <1>1, TypeStep, PTL DEF Spec
-------------------------------------------------------------------------------
\* Every stored row was made by an applied proposal, and a receipt names a
\* memory that is gone: what keeps a retry from making anything twice.
Made ==
    /\ \A v \in StoredVersions : operations[v] # None
    /\ \A m \in StoredMemories : operations[m] # None
    /\ \A m \in receipts : operations[m] # None

\* A proposal that is new has no memory and no version yet.
LEMMA NewIsFresh ==
  ASSUME TypeOK, Made, NEW p \in Proposals, New(p)
  PROVE  memories[p] = None /\ versions[p] = None /\ p \notin receipts
  BY DEF Made, New, StoredMemories, StoredVersions, TypeOK

\* Every step keeps Made: rows appear only with the operation that made them,
\* and operations and receipts are never removed.
LEMMA MadeStep == TypeOK /\ TypeOK' /\ Made /\ [Next]_vars => Made'
<1> SUFFICES ASSUME TypeOK, TypeOK', Made, [Next]_vars PROVE Made'
  OBVIOUS
<1> USE DEF Made, StoredMemories, StoredVersions
<1>1. ASSUME NEW p \in Proposals, NEW scope \in Scopes,
             NEW task \in Tasks \cup {NoTask}, NEW parents \in SUBSET StoredVersions,
             NEW group \in KnownGroups, NEW at \in Recent,
             Create(p, scope, task, parents, group, at)
      PROVE  Made'
  BY <1>1, NoneAssumption DEF Create, TypeOK
<1>2. ASSUME NEW p \in Proposals, NEW m \in Proposals, NEW current \in Proposals,
             NEW parents \in SUBSET StoredVersions,
             NEW group \in KnownGroups, NEW at \in Recent,
             Supersede(p, m, current, parents, group, at)
      PROVE  Made'
  <2>1. versions[current] # None /\ memories[m] # None
    BY <1>2, CurrentRows DEF Supersede, MayEvolve
  <2>2. \A v \in Proposals : versions'[v] # None => v = p \/ versions[v] # None
    BY <1>2, <2>1 DEF Supersede, StaleBelow, TypeOK
  <2>3. \A x \in Proposals : memories'[x] # None => memories[x] # None
    BY <1>2, <2>1 DEF Supersede, TypeOK
  <2>4. operations' = [operations EXCEPT ![p] = m] /\ receipts' = receipts
    BY <1>2 DEF Supersede
  <2> QED BY <2>2, <2>3, <2>4, NoneAssumption DEF TypeOK
<1>3. ASSUME NEW p \in Proposals, NEW m \in Proposals, NEW current \in Proposals,
             NEW parents \in SUBSET StoredVersions,
             NEW group \in KnownGroups, NEW at \in Recent,
             Conflict(p, m, current, parents, group, at)
      PROVE  Made'
  <2>1. versions[current] # None /\ memories[m] # None
    BY <1>3, CurrentRows DEF Conflict, MayEvolve
  <2>2. \A v \in Proposals : versions'[v] # None => v = p \/ versions[v] # None
    BY <1>3, <2>1 DEF Conflict, TypeOK
  <2>3. \A x \in Proposals : memories'[x] # None => x = p \/ memories[x] # None
    BY <1>3, <2>1 DEF Conflict, TypeOK
  <2>4. operations' = [operations EXCEPT ![p] = p] /\ receipts' = receipts
    BY <1>3 DEF Conflict
  <2> QED BY <2>2, <2>3, <2>4, NoneAssumption DEF TypeOK
<1>4. ASSUME NEW p \in Proposals, NEW m \in Proposals, NEW current \in Proposals,
             Archive(p, m, current) \/ Forget(p, m, current)
      PROVE  Made'
  <2>1. versions[current] # None /\ memories[m] # None
    BY <1>4, CurrentRows DEF Archive, Forget, ApplyState
  <2> QED BY <1>4, <2>1, NoneAssumption DEF Archive, Forget, ApplyState, TypeOK
<1>5. ASSUME NEW m \in Proposals, Purge(m)
      PROVE  Made'
  <2>1. operations' = operations /\ receipts' = receipts \cup {m} /\ memories[m] # None
    BY <1>5 DEF Purge, PurgeCascade, PurgeMarkStale, Remove
  <2>2. \A x \in Proposals : memories'[x] # None => memories[x] # None
    BY <1>5 DEF Purge, PurgeCascade, PurgeMarkStale, Remove
  <2>3. \A v \in Proposals : versions'[v] # None => versions[v] # None
    BY <1>5 DEF Purge, PurgeCascade, PurgeMarkStale, VersionTree
  <2> QED BY <2>1, <2>2, <2>3
<1>6. ASSUME NEW v \in Proposals, Embed(v)
      PROVE  Made'
  BY <1>6 DEF Embed, EmbedRead, EmbedWrite
<1>7. ASSUME NEW n \in Namespaces, NEW t \in Tasks, ChangeWorkingSet(n, t)
      PROVE  Made'
  BY <1>7 DEF ChangeWorkingSet, PutWorkingSet, SetWorkingGlobalRecall
<1>8. ASSUME NEW at \in Recent, ExpireWorkingSets(at)
      PROVE  Made'
  BY <1>8 DEF ExpireWorkingSets, OfExpiredTask
<1>9. CASE Tick
  BY <1>9 DEF Tick
<1>10. CASE UNCHANGED vars
  BY <1>10 DEF vars
<1> QED BY <1>1, <1>2, <1>3, <1>4, <1>5, <1>6, <1>7, <1>8, <1>9, <1>10
        DEF Next, Apply, Evolve, KeepWorkingSets

\* The invariant behind the theorems below.
LEMMA MadeAlways == Spec => [](TypeOK /\ Made)
<1>1. Init => Made
  BY DEF Init, Made, StoredVersions, StoredMemories
<1> QED BY <1>1, MadeStep, TypeCorrect, PTL DEF Spec

\* A purge is final: no retry, replay or late proposal makes a memory again
\* that a purge removed, whether as its target or as derived from it.
THEOREM PurgeIsFinal == Spec => PurgedForGood
<1>1. TypeOK /\ TypeOK' /\ Made /\ [Next]_vars =>
         [\A m \in Proposals :
             (m \in receipts \/ operations[m] # None) /\ memories[m] = None
                 => memories'[m] = None]_vars
  <2> SUFFICES ASSUME TypeOK, TypeOK', Made, [Next]_vars, NEW x \in Proposals,
                      x \in receipts \/ operations[x] # None, memories[x] = None
               PROVE  memories'[x] = None
    OBVIOUS
  <2>0. operations[x] # None
    BY DEF Made
  <2>1. ASSUME NEW p \in Proposals, NEW scope \in Scopes,
               NEW task \in Tasks \cup {NoTask}, NEW parents \in SUBSET StoredVersions,
               NEW group \in KnownGroups, NEW at \in Recent,
               Create(p, scope, task, parents, group, at)
        PROVE  memories'[x] = None
    BY <2>0, <2>1 DEF Create, New, TypeOK
  <2>2. ASSUME NEW p \in Proposals, NEW m \in Proposals, NEW current \in Proposals,
               NEW parents \in SUBSET StoredVersions,
               NEW group \in KnownGroups, NEW at \in Recent,
               Supersede(p, m, current, parents, group, at)
                  \/ Conflict(p, m, current, parents, group, at)
        PROVE  memories'[x] = None
    <3>1. memories[m] # None /\ operations[p] = None
      BY <2>2 DEF Supersede, Conflict, MayEvolve, New, StoredMemories
    <3> QED BY <2>0, <2>2, <3>1 DEF Supersede, Conflict, TypeOK
  <2>3. ASSUME NEW p \in Proposals, NEW m \in Proposals, NEW current \in Proposals,
               Archive(p, m, current) \/ Forget(p, m, current)
        PROVE  memories'[x] = None
    BY <2>3 DEF Archive, Forget, ApplyState, StoredMemories, TypeOK
  <2>4. ASSUME NEW m \in Proposals, Purge(m)
        PROVE  memories'[x] = None
    BY <2>4 DEF Purge, PurgeCascade, PurgeMarkStale, Remove
  <2>5. ASSUME NEW v \in Proposals, Embed(v)
        PROVE  memories'[x] = None
    BY <2>5 DEF Embed, EmbedRead, EmbedWrite
  <2>6. CASE KeepWorkingSets
    BY <2>6 DEF KeepWorkingSets, ChangeWorkingSet, PutWorkingSet,
                SetWorkingGlobalRecall, ExpireWorkingSets, OfExpiredTask, StoredMemories
  <2>7. CASE Tick
    BY <2>7 DEF Tick
  <2>8. CASE UNCHANGED vars
    BY <2>8 DEF vars
  <2> QED BY <2>1, <2>2, <2>3, <2>4, <2>5, <2>6, <2>7, <2>8
          DEF Next, Apply, Evolve
<1> QED BY <1>1, MadeAlways, PTL DEF Spec, PurgedForGood
-------------------------------------------------------------------------------
\* What StateAgreement says of one memory.
Agreement(m) ==
    \E v \in VersionsOf(m) :
        /\ IsCurrent(v, m)
        /\ IF memories[m].state = "active"
           THEN versions[v].state \in {"current", "stale"}
           ELSE versions[v].state = memories[m].state
        /\ \A u \in VersionsOf(m) \ {v} :
              /\ versions[u].number < versions[v].number
              /\ versions[u].state = "superseded"

\* Every version belongs to a stored memory (the foreign key and its cascade).
Homed == \A v \in StoredVersions : versions[v].memory \in StoredMemories

\* There is one current version; the others are below it and superseded.
LEMMA CurrentIsUnique ==
  ASSUME TypeOK, NEW m \in StoredMemories, Agreement(m), NEW v, IsCurrent(v, m)
  PROVE  /\ IF memories[m].state = "active"
            THEN versions[v].state \in {"current", "stale"}
            ELSE versions[v].state = memories[m].state
         /\ \A u \in VersionsOf(m) \ {v} :
               /\ versions[u].number < versions[v].number
               /\ versions[u].state = "superseded"
<1>1. PICK c \in VersionsOf(m) :
        /\ IsCurrent(c, m)
        /\ IF memories[m].state = "active"
           THEN versions[c].state \in {"current", "stale"}
           ELSE versions[c].state = memories[m].state
        /\ \A u \in VersionsOf(m) \ {c} :
              /\ versions[u].number < versions[c].number
              /\ versions[u].state = "superseded"
  BY DEF Agreement
<1>2. c = v
  <2>1. versions[c].number = versions[v].number /\ versions[v].number \in Nat \ {0}
    BY <1>1, CurrentRows
  <2>2. v \in VersionsOf(m)
    BY DEF IsCurrent
  <2> QED BY <1>1, <2>1, <2>2
<1> QED BY <1>1, <1>2

\* A step that changes neither the row nor the versions of a memory, except that
\* it may mark a current one stale, keeps the agreement.
LEMMA AgreementKept ==
  ASSUME TypeOK, NEW m \in StoredMemories, Agreement(m), m \in StoredMemories',
         memories'[m].state = memories[m].state,
         memories'[m].current_version = memories[m].current_version,
         VersionsOf(m)' = VersionsOf(m),
         \A v \in VersionsOf(m) :
            /\ versions'[v].number = versions[v].number
            /\ \/ versions'[v].state = versions[v].state
               \/ versions[v].state = "current" /\ versions'[v].state = "stale"
  PROVE  Agreement(m)'
<1>1. PICK c \in VersionsOf(m) :
        /\ IsCurrent(c, m)
        /\ IF memories[m].state = "active"
           THEN versions[c].state \in {"current", "stale"}
           ELSE versions[c].state = memories[m].state
        /\ \A u \in VersionsOf(m) \ {c} :
              /\ versions[u].number < versions[c].number
              /\ versions[u].state = "superseded"
  BY DEF Agreement
<1>2. memories[m].state \in MemoryState
  BY StoredRows DEF Memory
<1>3. IsCurrent(c, m)'
  BY <1>1 DEF IsCurrent
<1>4. IF memories'[m].state = "active"
      THEN versions'[c].state \in {"current", "stale"}
      ELSE versions'[c].state = memories'[m].state
  BY <1>1, <1>2 DEF MemoryState
<1>5. \A u \in VersionsOf(m)' \ {c} :
         /\ versions'[u].number < versions'[c].number
         /\ versions'[u].state = "superseded"
  BY <1>1
<1> QED BY <1>1, <1>3, <1>4, <1>5 DEF Agreement

\* A memory that a step creates has one version, and it is current.
LEMMA AgreementOfNew ==
  ASSUME NEW p \in Proposals, NEW scope, NEW task, NEW at, NEW group,
         memories'[p] = NewMemory(scope, task), p \in StoredMemories',
         versions'[p] = NewVersion(p, p, 1, at, group), VersionsOf(p)' = {p}
  PROVE  Agreement(p)'
<1>1. IsCurrent(p, p)'
  BY DEF IsCurrent, NewMemory, NewVersion
<1> QED BY <1>1 DEF Agreement, NewMemory, NewVersion

RowsInv == TypeOK /\ Made /\ Homed /\ StateAgreement

\* StateAgreement is the agreement of every stored memory.
LEMMA AgreementOfAll == StateAgreement <=> \A m \in StoredMemories : Agreement(m)
  BY DEF StateAgreement, Agreement

\* Create inserts one memory and its one version and changes no other row.
LEMMA CreateEffects ==
  ASSUME RowsInv,
         NEW p \in Proposals, NEW scope \in Scopes, NEW task \in Tasks \cup {NoTask},
         NEW parents \in SUBSET StoredVersions, NEW group \in KnownGroups,
         NEW at \in Recent, Create(p, scope, task, parents, group, at)
  PROVE  /\ memories[p] = None /\ versions[p] = None
         /\ StoredMemories' = StoredMemories \cup {p}
         /\ StoredVersions' = StoredVersions \cup {p}
         /\ \A x \in StoredMemories : x # p /\ memories'[x] = memories[x]
         /\ \A v \in StoredVersions : v # p /\ versions'[v] = versions[v]
         /\ memories'[p] = NewMemory(scope, task)
         /\ versions'[p] = NewVersion(p, p, 1, at, group)
<1>1. memories[p] = None /\ versions[p] = None
  BY NewIsFresh DEF RowsInv, Create
<1>2. memories' = [memories EXCEPT ![p] = NewMemory(scope, task)]
  BY DEF Create
<1>3. versions' = [versions EXCEPT ![p] = NewVersion(p, p, 1, at, group)]
  BY DEF Create
<1>4. NewMemory(scope, task) # None /\ NewVersion(p, p, 1, at, group) # None
  <2>1. at \in Instant /\ group \in Proposals \cup {NoGroup}
    BY RecentInstants, GroupsKnown DEF RowsInv
  <2>2. NewVersion(p, p, 1, at, group) \in MemoryVersion
    BY <2>1, NewVersionRow
  <2> QED BY <2>2, NewMemoryRow, RowAssumption
<1>5. StoredMemories' = StoredMemories \cup {p}
  BY <1>2, <1>4 DEF StoredMemories, RowsInv, TypeOK
<1>6. StoredVersions' = StoredVersions \cup {p}
  BY <1>3, <1>4 DEF StoredVersions, RowsInv, TypeOK
<1>7. \A v \in StoredVersions : v # p /\ versions'[v] = versions[v]
  BY <1>1, <1>3 DEF StoredVersions, RowsInv, TypeOK
<1>8. \A x \in StoredMemories : x # p /\ memories'[x] = memories[x]
  BY <1>1, <1>2 DEF StoredMemories, RowsInv, TypeOK
<1>9. versions'[p] = NewVersion(p, p, 1, at, group) /\ memories'[p] = NewMemory(scope, task)
  BY <1>2, <1>3 DEF RowsInv, TypeOK
<1> QED BY <1>1, <1>5, <1>6, <1>7, <1>8, <1>9

\* Create leaves the other memories alone; its own has the one new version.
LEMMA CreateAgrees ==
  ASSUME RowsInv, TypeOK',
         NEW p \in Proposals, NEW scope \in Scopes, NEW task \in Tasks \cup {NoTask},
         NEW parents \in SUBSET StoredVersions, NEW group \in KnownGroups,
         NEW at \in Recent, Create(p, scope, task, parents, group, at)
  PROVE  Homed' /\ \A m \in StoredMemories' : Agreement(m)'
<1>1. /\ memories[p] = None /\ versions[p] = None
      /\ StoredMemories' = StoredMemories \cup {p}
      /\ StoredVersions' = StoredVersions \cup {p}
      /\ \A x \in StoredMemories : x # p /\ memories'[x] = memories[x]
      /\ \A v \in StoredVersions : v # p /\ versions'[v] = versions[v]
      /\ memories'[p] = NewMemory(scope, task)
      /\ versions'[p] = NewVersion(p, p, 1, at, group)
  BY CreateEffects
<1>2. versions'[p].memory = p
  BY <1>1 DEF NewVersion
<1>3. Homed'
  BY <1>1, <1>2 DEF Homed, RowsInv
<1>4. Agreement(p)'
  <2>1. \A v \in StoredVersions : versions[v].memory # p
    BY <1>1 DEF Homed, RowsInv, StoredMemories
  <2>2. VersionsOf(p)' = {p}
    BY <1>1, <1>2, <2>1 DEF VersionsOf
  <2>3. p \in StoredMemories'
    BY <1>1
  <2> QED BY <1>1, <2>2, <2>3, AgreementOfNew
<1>5. ASSUME NEW m \in StoredMemories' \ {p} PROVE Agreement(m)'
  <2>1. m \in StoredMemories /\ Agreement(m) /\ memories'[m] = memories[m]
    BY <1>1, <1>5, AgreementOfAll DEF RowsInv
  <2>2. VersionsOf(m)' = VersionsOf(m)
    BY <1>1, <1>2, <1>5 DEF VersionsOf
  <2>3. \A v \in VersionsOf(m) : versions'[v] = versions[v]
    BY <1>1 DEF VersionsOf
  <2> QED BY <2>1, <2>2, <2>3, <1>5, AgreementKept DEF RowsInv
<1> QED BY <1>3, <1>4, <1>5

\* What a row says of the place of a version in the history of its memory.
SamePlace(v) ==
    /\ versions'[v].memory = versions[v].memory
    /\ versions'[v].number = versions[v].number
    /\ versions'[v].system_from = versions[v].system_from
    /\ versions'[v].system_to = versions[v].system_to

\* A version is left as it was, or marked stale.
KeptOrStale(v) ==
    /\ v \in Proposals /\ versions'[v] # None
    /\ SamePlace(v) /\ versions'[v].group = versions[v].group
    /\ \/ versions'[v].state = versions[v].state
       \/ versions[v].state = "current" /\ versions'[v].state = "stale"

\* Marking a stored version stale, or not, is all that KeptOrStale says.
LEMMA MarkedRow ==
  ASSUME TypeOK, NEW v \in StoredVersions,
         versions'[v] = versions[v] \/ versions'[v] = MarkStale(versions[v])
  PROVE  KeptOrStale(v)
<1>1. v \in Proposals /\ versions[v] \in MemoryVersion /\ versions[v] # None
  BY StoredRows DEF StoredVersions
<1>2. MarkStale(versions[v]) \in MemoryVersion
  BY <1>1, VersionRow
<1> QED BY <1>1, <1>2, RowAssumption DEF KeptOrStale, SamePlace, MarkStale, WithState

\* Supersede closes the current version of m, inserts the next one, moves the
\* memory row to it, and may mark other versions stale.
Superseding(p, m, current, group, at) ==
    /\ memories[p] = None /\ versions[p] = None
    /\ m \in StoredMemories /\ IsCurrent(current, m)
    /\ current \in VersionsOf(m) /\ current \in StoredVersions
    /\ m # p /\ current # p /\ memories[m].state = "active"
    /\ versions[current].memory = m /\ versions[current].number \in Nat \ {0}
    /\ memories'[m] = [scope |-> memories[m].scope, task |-> memories[m].task,
                       state |-> "active",
                       current_version |-> versions[current].number + 1]
    /\ \A x \in Proposals \ {m} : memories'[x] = memories[x]
    /\ versions'[p] = NewVersion(p, m, versions[current].number + 1, at, group)
    /\ versions'[current].memory = m
    /\ versions'[current].number = versions[current].number
    /\ versions'[current].state = "superseded"
    /\ versions'[current].system_from = versions[current].system_from
    /\ versions'[current].system_to = at
    /\ versions'[current].group = versions[current].group
    /\ \A v \in StoredVersions \ {current} : v # p /\ KeptOrStale(v)
    /\ StoredVersions' = StoredVersions \cup {p}
    /\ StoredMemories' = StoredMemories

LEMMA SupersedeEffects ==
  ASSUME RowsInv,
         NEW p \in Proposals, NEW m \in Proposals, NEW current \in Proposals,
         NEW parents \in SUBSET StoredVersions, NEW group \in KnownGroups,
         NEW at \in Recent, Supersede(p, m, current, parents, group, at)
  PROVE  Superseding(p, m, current, group, at)
<1> DEFINE next == versions[current].number + 1
<1>1. memories[p] = None /\ versions[p] = None
  BY NewIsFresh DEF RowsInv, Supersede, MayEvolve
<1>2. /\ m \in StoredMemories /\ IsCurrent(current, m) /\ memories[m].state = "active"
      /\ current \in VersionsOf(m) /\ current \in StoredVersions
  BY DEF Supersede, MayEvolve, IsCurrent, VersionsOf
<1>3. /\ versions[current] \in MemoryVersion /\ versions[current] # None
      /\ versions[current].memory = m /\ versions[current].number \in Nat \ {0}
      /\ memories[m] \in Memory /\ m # p /\ current # p
  BY <1>1, <1>2, CurrentRows DEF RowsInv
<1>4. versions' = [v \in Proposals |->
          IF v = p THEN NewVersion(p, m, next, at, group)
          ELSE IF v = current THEN Closed(versions[v], p, at)
          ELSE IF v \in StaleBelow(current) THEN MarkStale(versions[v])
          ELSE versions[v]]
  BY DEF Supersede
<1>5. memories'[m] = [scope |-> memories[m].scope, task |-> memories[m].task,
                      state |-> "active", current_version |-> next]
      /\ \A x \in Proposals \ {m} : memories'[x] = memories[x]
  BY <1>2 DEF Supersede, RowsInv, TypeOK
<1>6. versions'[p] = NewVersion(p, m, next, at, group) /\ versions'[p] # None
  <2>1. at \in Instant /\ group \in Proposals \cup {NoGroup} /\ next \in Nat \ {0}
    BY <1>3, RecentInstants, GroupsKnown DEF RowsInv
  <2>2. NewVersion(p, m, next, at, group) \in MemoryVersion
    BY <2>1, NewVersionRow
  <2>3. versions'[p] = NewVersion(p, m, next, at, group)
    BY <1>4
  <2> HIDE DEF next
  <2> QED BY <2>2, <2>3, RowAssumption
<1>7. /\ versions'[current].memory = m
      /\ versions'[current].number = versions[current].number
      /\ versions'[current].state = "superseded" /\ versions'[current] # None
      /\ versions'[current].system_from = versions[current].system_from
      /\ versions'[current].system_to = at
      /\ versions'[current].group = versions[current].group
  <2>1. at \in Instant
    BY RecentInstants DEF RowsInv
  <2>2. versions'[current] = Closed(versions[current], p, at)
    BY <1>3, <1>4
  <2>3. Closed(versions[current], p, at) \in MemoryVersion
    BY <1>3, <2>1, VersionRow
  <2>4. versions[current].state \in {"current", "stale"}
    BY <1>2, AgreementOfAll, CurrentIsUnique DEF RowsInv
  <2> QED BY <1>3, <2>2, <2>3, <2>4, RowAssumption DEF Closed
<1>8. ASSUME NEW v \in StoredVersions \ {current}
      PROVE  v # p /\ KeptOrStale(v)
  <2>1. v \in Proposals /\ v # p
    BY <1>1 DEF StoredVersions
  <2>2. versions'[v] = versions[v] \/ versions'[v] = MarkStale(versions[v])
    BY <1>4, <2>1
  <2> QED BY <2>1, <2>2, MarkedRow DEF RowsInv
<1>9. StoredVersions' = StoredVersions \cup {p}
  <2>1. \A v \in Proposals \ {p} : v \notin StoredVersions => versions'[v] = versions[v]
    BY <1>2, <1>4 DEF StaleBelow
  <2> QED BY <1>6, <1>7, <1>8, <2>1 DEF StoredVersions, KeptOrStale
<1>10. StoredMemories' = StoredMemories
  <2>1. memories'[m] \in Memory
    <3>1. next \in Nat \ {0}
      BY <1>3
    <3> HIDE DEF next
    <3> QED BY <1>3, <1>5, <3>1 DEF Memory, MemoryState
  <2>2. memories'[m] # None
    BY <2>1, RowAssumption
  <2> QED BY <1>2, <1>5, <2>2 DEF StoredMemories
<1> QED BY <1>1, <1>2, <1>3, <1>5, <1>6, <1>7, <1>8, <1>9, <1>10 DEF Superseding

\* After it the new version is the current one, and the old one is superseded.
LEMMA SupersedeAgrees ==
  ASSUME RowsInv, TypeOK',
         NEW p \in Proposals, NEW m \in Proposals, NEW current \in Proposals,
         NEW parents \in SUBSET StoredVersions, NEW group \in KnownGroups,
         NEW at \in Recent, Supersede(p, m, current, parents, group, at)
  PROVE  Homed' /\ \A x \in StoredMemories' : Agreement(x)'
<1> DEFINE next == versions[current].number + 1
<1>0. Superseding(p, m, current, group, at)
  BY SupersedeEffects
<1>1. /\ m \in StoredMemories /\ IsCurrent(current, m) /\ current \in VersionsOf(m)
      /\ versions[current].memory = m /\ versions[current].number \in Nat \ {0}
  BY <1>0 DEF Superseding
<1>2. /\ memories'[m].state = "active" /\ memories'[m].current_version = next
      /\ \A x \in Proposals \ {m} : memories'[x] = memories[x]
  BY <1>0 DEF Superseding
<1>3. /\ versions'[p].memory = m /\ versions'[p].number = next
      /\ versions'[p].state = "current"
  <2>1. versions'[p] = NewVersion(p, m, next, at, group)
    BY <1>0 DEF Superseding
  <2> QED BY <2>1 DEF NewVersion
<1>4. /\ versions'[current].memory = m
      /\ versions'[current].number = versions[current].number
      /\ versions'[current].state = "superseded"
  BY <1>0 DEF Superseding
<1>5. \A v \in StoredVersions \ {current} :
         /\ v # p
         /\ versions'[v].memory = versions[v].memory
         /\ versions'[v].number = versions[v].number
         /\ \/ versions'[v].state = versions[v].state
            \/ versions[v].state = "current" /\ versions'[v].state = "stale"
  BY <1>0 DEF Superseding, KeptOrStale, SamePlace
<1>6. StoredVersions' = StoredVersions \cup {p} /\ StoredMemories' = StoredMemories
  BY <1>0 DEF Superseding
<1> HIDE DEF next
<1>7. Homed'
  <2>1. \A v \in StoredVersions' : versions'[v].memory \in StoredMemories
    BY <1>1, <1>3, <1>4, <1>5, <1>6 DEF RowsInv, Homed
  <2> QED BY <2>1, <1>6 DEF Homed
<1>8. \A x \in StoredMemories \ {m} : Agreement(x)'
  <2> SUFFICES ASSUME NEW x \in StoredMemories \ {m} PROVE Agreement(x)'
    OBVIOUS
  <2>1. Agreement(x) /\ memories'[x] = memories[x] /\ x \in StoredMemories'
    BY <1>2, <1>6, AgreementOfAll DEF RowsInv, StoredMemories
  <2>2. VersionsOf(x)' = VersionsOf(x)
    BY <1>1, <1>3, <1>4, <1>5, <1>6 DEF VersionsOf
  <2>3. \A v \in VersionsOf(x) : v \in StoredVersions \ {current}
    BY <1>1 DEF VersionsOf
  <2> QED BY <1>5, <2>1, <2>2, <2>3, AgreementKept DEF RowsInv
<1>9. Agreement(m)'
  <2>1. VersionsOf(m)' = VersionsOf(m) \cup {p}
    BY <1>1, <1>3, <1>4, <1>5, <1>6 DEF VersionsOf
  <2>2. IsCurrent(p, m)'
    BY <1>2, <1>3, <2>1 DEF IsCurrent
  <2>3. \A u \in VersionsOf(m) \ {current} :
           /\ versions[u].number < versions[current].number
           /\ versions[u].state = "superseded" /\ u \in StoredVersions
           /\ versions[u].number \in Nat
    BY <1>1, AgreementOfAll, CurrentIsUnique, StoredRows
       DEF RowsInv, VersionsOf, MemoryVersion
  <2>4. \A u \in VersionsOf(m)' \ {p} :
           versions'[u].number < next /\ versions'[u].state = "superseded"
    BY <1>1, <1>4, <1>5, <2>1, <2>3 DEF next
  <2> QED BY <1>2, <1>3, <2>1, <2>2, <2>4 DEF Agreement
<1> QED BY <1>6, <1>7, <1>8, <1>9

\* Conflict groups the current version and adds a memory beside it.
LEMMA ConflictAgrees ==
  ASSUME RowsInv, TypeOK',
         NEW p \in Proposals, NEW m \in Proposals, NEW current \in Proposals,
         NEW parents \in SUBSET StoredVersions, NEW group \in KnownGroups,
         NEW at \in Recent, Conflict(p, m, current, parents, group, at)
  PROVE  Homed' /\ \A x \in StoredMemories' : Agreement(x)'
<1> DEFINE g == ConflictGroup(m, current, group)
<1>1. memories[p] = None /\ versions[p] = None
  BY NewIsFresh DEF RowsInv, Conflict, MayEvolve
<1>2. m \in StoredMemories /\ IsCurrent(current, m) /\ current \in VersionsOf(m)
  BY DEF Conflict, MayEvolve, IsCurrent
<1>3. /\ versions[current] \in MemoryVersion /\ versions[current] # None
      /\ memories[m] \in Memory /\ m # p /\ current # p
  BY <1>1, <1>2, CurrentRows DEF RowsInv
<1>4. g \in Proposals \cup {NoGroup} /\ at \in Instant
  BY <1>3, RecentInstants, GroupsKnown DEF RowsInv, ConflictGroup, MemoryVersion
<1>5. Grouped(versions[current], g) \in MemoryVersion
  BY <1>3, <1>4, VersionRow
<1>6. NewVersion(p, p, 1, at, g) \in MemoryVersion
  BY <1>4, NewVersionRow
<1>7. versions' = [versions EXCEPT ![current] = Grouped(@, g),
                                   ![p] = NewVersion(p, p, 1, at, g)]
  BY DEF Conflict
<1>8. memories' = [memories EXCEPT ![p] = NewMemory(memories[m].scope, memories[m].task)]
  BY DEF Conflict
<1> HIDE DEF g
<1>9. NewMemory(memories[m].scope, memories[m].task) \in Memory
  BY <1>3, NewMemoryRow DEF Memory
<1>10. versions'[p] = NewVersion(p, p, 1, at, g) /\ versions'[p] # None /\ versions'[p].memory = p
  BY <1>6, <1>7, RowAssumption DEF RowsInv, TypeOK, NewVersion
<1>11. \A v \in StoredVersions :
         /\ v # p /\ versions'[v] # None
         /\ versions'[v].memory = versions[v].memory
         /\ versions'[v].number = versions[v].number
         /\ versions'[v].state = versions[v].state
  BY <1>1, <1>5, <1>7, RowAssumption DEF RowsInv, TypeOK, StoredVersions, Grouped
<1>12. StoredVersions' = StoredVersions \cup {p}
  <2>1. \A v \in Proposals \ {p} : v \notin StoredVersions => versions'[v] = versions[v]
    BY <1>2, <1>7 DEF VersionsOf, RowsInv, TypeOK
  <2> QED BY <1>10, <1>11, <2>1 DEF StoredVersions
<1>13. /\ StoredMemories' = StoredMemories \cup {p}
       /\ memories'[p] = NewMemory(memories[m].scope, memories[m].task)
       /\ \A x \in StoredMemories : memories'[x] = memories[x] /\ x # p
  BY <1>1, <1>8, <1>9, RowAssumption DEF StoredMemories, RowsInv, TypeOK
<1>14. Homed'
  BY <1>10, <1>11, <1>12, <1>13 DEF Homed, RowsInv
<1>15. Agreement(p)'
  <2>1. \A v \in StoredVersions : versions[v].memory # p
    BY <1>1 DEF Homed, RowsInv, StoredMemories
  <2>2. VersionsOf(p)' = {p}
    BY <1>10, <1>11, <1>12, <2>1 DEF VersionsOf
  <2> QED BY <1>10, <1>13, <2>2, AgreementOfNew
<1>16. \A x \in StoredMemories : Agreement(x)'
  <2> SUFFICES ASSUME NEW x \in StoredMemories PROVE Agreement(x)'
    OBVIOUS
  <2>1. Agreement(x) /\ memories'[x] = memories[x] /\ x \in StoredMemories' /\ x # p
    BY <1>13, AgreementOfAll DEF RowsInv
  <2>2. VersionsOf(x)' = VersionsOf(x)
    BY <1>10, <1>11, <1>12, <2>1 DEF VersionsOf
  <2>3. \A v \in VersionsOf(x) : v \in StoredVersions
    BY DEF VersionsOf
  <2> QED BY <1>11, <2>1, <2>2, <2>3, AgreementKept DEF RowsInv
<1> QED BY <1>13, <1>14, <1>15, <1>16

\* Archive and forget move the memory and its current version together.
LEMMA StateAgrees ==
  ASSUME RowsInv, TypeOK',
         NEW p \in Proposals, NEW m \in Proposals, NEW current \in Proposals,
         NEW state \in {"archived", "forgotten"}, ApplyState(p, m, current, state)
  PROVE  Homed' /\ \A x \in StoredMemories' : Agreement(x)'
<1>1. m \in StoredMemories /\ IsCurrent(current, m) /\ current \in VersionsOf(m)
  BY DEF ApplyState, IsCurrent
<1>2. /\ versions[current] \in MemoryVersion /\ versions[current] # None
      /\ versions[current].memory = m /\ memories[m] \in Memory
  BY <1>1, CurrentRows DEF RowsInv
<1>3. /\ versions'[current] = WithState(versions[current], state)
      /\ \A v \in Proposals \ {current} : versions'[v] = versions[v]
  BY DEF ApplyState, RowsInv, TypeOK
<1>4. /\ memories'[m] = InState(memories[m], state)
      /\ \A x \in Proposals \ {m} : memories'[x] = memories[x]
  BY DEF ApplyState, RowsInv, TypeOK
<1>5. WithState(versions[current], state) # None /\ InState(memories[m], state) # None
  <2>1. WithState(versions[current], state) \in MemoryVersion
    BY <1>2, VersionRow DEF VersionState
  <2>2. InState(memories[m], state) \in Memory
    BY <1>2, MemoryRow DEF MemoryState
  <2> QED BY <2>1, <2>2, RowAssumption
<1>6. StoredVersions' = StoredVersions
  BY <1>2, <1>3, <1>5 DEF StoredVersions
<1>7. StoredMemories' = StoredMemories
  BY <1>1, <1>4, <1>5 DEF StoredMemories
<1>8. \A v \in StoredVersions :
         /\ versions'[v].memory = versions[v].memory
         /\ versions'[v].number = versions[v].number
  BY <1>3 DEF StoredVersions, WithState
<1>9. \A x : VersionsOf(x)' = VersionsOf(x)
  BY <1>6, <1>8 DEF VersionsOf
<1>10. Homed'
  BY <1>6, <1>7, <1>8 DEF Homed, RowsInv
<1>11. \A x \in StoredMemories \ {m} : Agreement(x)'
  <2> SUFFICES ASSUME NEW x \in StoredMemories \ {m} PROVE Agreement(x)'
    OBVIOUS
  <2>1. Agreement(x) /\ memories'[x] = memories[x] /\ x \in StoredMemories'
    BY <1>4, <1>7, AgreementOfAll DEF RowsInv, StoredMemories
  <2>2. \A v \in VersionsOf(x) : versions'[v] = versions[v]
    BY <1>2, <1>3 DEF VersionsOf, StoredVersions
  <2> QED BY <1>9, <2>1, <2>2, AgreementKept DEF RowsInv
<1>12. Agreement(m)'
  <2>1. \A u \in VersionsOf(m) \ {current} :
           /\ versions[u].number < versions[current].number
           /\ versions[u].state = "superseded"
    BY <1>1, AgreementOfAll, CurrentIsUnique DEF RowsInv
  <2>2. IsCurrent(current, m)'
    BY <1>1, <1>3, <1>4, <1>9 DEF IsCurrent, WithState, InState
  <2>3. \A u \in VersionsOf(m)' \ {current} :
           /\ versions'[u].number < versions'[current].number
           /\ versions'[u].state = "superseded"
    BY <1>3, <1>9, <2>1 DEF WithState, VersionsOf, StoredVersions
  <2>4. memories'[m].state = state /\ versions'[current].state = state
    BY <1>3, <1>4 DEF InState, WithState
  <2> QED BY <1>1, <1>9, <2>2, <2>3, <2>4 DEF Agreement
<1> QED BY <1>7, <1>10, <1>11, <1>12

\* A purge removes some memories with all their versions, and the other
\* versions are left as they are or marked stale.
LEMMA PurgedRows ==
  ASSUME RowsInv, NEW m \in Proposals, Purge(m)
  PROVE  \E ms \in SUBSET Proposals :
            /\ Remove(m, ms)
            /\ \A v \in Removed(ms) : versions'[v] = None
            /\ \A v \in Proposals \ Removed(ms) :
                  \/ versions'[v] = versions[v]
                  \/ v \in StoredVersions /\ versions'[v] = MarkStale(versions[v])
<1>1. CASE PurgeCascade(m)
  <2>1. TreeMemories(m) \in SUBSET Proposals
    BY StoredRows DEF TreeMemories, VersionTree, RowsInv, MemoryVersion
  <2>2. Removed(TreeMemories(m)) \subseteq Proposals
    BY DEF Removed, StoredVersions
  <2>3. Remove(m, TreeMemories(m))
    BY <1>1 DEF PurgeCascade
  <2>4. \A v \in Removed(TreeMemories(m)) : versions'[v] = None
    BY <1>1, <2>2 DEF PurgeCascade
  <2>5. \A v \in Proposals \ Removed(TreeMemories(m)) :
           \/ versions'[v] = versions[v]
           \/ v \in StoredVersions /\ versions'[v] = MarkStale(versions[v])
    BY <1>1 DEF PurgeCascade
  <2> QED BY <2>1, <2>3, <2>4, <2>5
<1>2. CASE PurgeMarkStale(m)
  <2>1. Removed({m}) = VersionsOf(m)
    BY DEF Removed, VersionsOf
  <2>2. VersionTree(m) \subseteq StoredVersions /\ VersionsOf(m) \subseteq Proposals
    BY DEF VersionTree, VersionsOf, StoredVersions
  <2>3. Remove(m, {m})
    BY <1>2 DEF PurgeMarkStale
  <2>4. \A v \in Removed({m}) : versions'[v] = None
    BY <1>2, <2>1, <2>2 DEF PurgeMarkStale
  <2>5. \A v \in Proposals \ Removed({m}) :
           \/ versions'[v] = versions[v]
           \/ v \in StoredVersions /\ versions'[v] = MarkStale(versions[v])
    BY <1>2, <2>1, <2>2 DEF PurgeMarkStale
  <2> QED BY <2>3, <2>4, <2>5
<1> QED BY <1>1, <1>2 DEF Purge

\* A purge removes the versions of the memories it removes, all of them, and
\* leaves those of the others, which it may mark stale.
LEMMA PurgeAgrees ==
  ASSUME RowsInv, TypeOK', NEW m \in Proposals, Purge(m)
  PROVE  Homed' /\ \A x \in StoredMemories' : Agreement(x)'
<1>1. PICK ms \in SUBSET Proposals :
         /\ Remove(m, ms)
         /\ \A v \in Removed(ms) : versions'[v] = None
         /\ \A v \in Proposals \ Removed(ms) :
               \/ versions'[v] = versions[v]
               \/ v \in StoredVersions /\ versions'[v] = MarkStale(versions[v])
  BY PurgedRows
<1>2. \A x \in Proposals : memories'[x] = IF x \in ms THEN None ELSE memories[x]
  BY <1>1 DEF Remove
<1>3. StoredMemories' = StoredMemories \ ms
  BY <1>2 DEF StoredMemories
<1>4. \A v \in StoredVersions \ Removed(ms) :
         /\ v \in Proposals /\ versions'[v] # None
         /\ versions'[v].memory = versions[v].memory
         /\ versions'[v].number = versions[v].number
         /\ \/ versions'[v].state = versions[v].state
            \/ versions[v].state = "current" /\ versions'[v].state = "stale"
  BY <1>1, MarkedRow DEF RowsInv, StoredVersions, KeptOrStale, SamePlace
<1>5. StoredVersions' = StoredVersions \ Removed(ms)
  BY <1>1, <1>4 DEF StoredVersions
<1>6. \A v \in StoredVersions' : versions[v].memory \notin ms
  BY <1>5 DEF Removed
<1>7. Homed'
  BY <1>3, <1>4, <1>5, <1>6 DEF Homed, RowsInv
<1>8. ASSUME NEW x \in StoredMemories' PROVE Agreement(x)'
  <2>1. x \in StoredMemories /\ x \notin ms /\ Agreement(x) /\ memories'[x] = memories[x]
    BY <1>2, <1>3, AgreementOfAll DEF RowsInv, StoredMemories
  <2>2. VersionsOf(x)' = VersionsOf(x)
    BY <1>4, <1>5, <2>1 DEF VersionsOf, Removed
  <2>3. \A v \in VersionsOf(x) : v \in StoredVersions \ Removed(ms)
    BY <2>1 DEF VersionsOf, Removed
  <2> QED BY <1>4, <1>8, <2>1, <2>2, <2>3, AgreementKept DEF RowsInv
<1> QED BY <1>7, <1>8

\* Expiry archives a memory together with the one version that its row names.
LEMMA ExpireAgrees ==
  ASSUME RowsInv, TypeOK', NEW at, ExpireWorkingSets(at)
  PROVE  Homed' /\ \A x \in StoredMemories' : Agreement(x)'
<1>1. \A m \in Proposals : memories'[m] =
         IF OfExpiredTask(m, at) THEN InState(memories[m], "archived") ELSE memories[m]
  BY DEF ExpireWorkingSets
<1>2. \A v \in Proposals : versions'[v] =
         IF /\ v \in StoredVersions /\ IsCurrent(v, versions[v].memory)
            /\ OfExpiredTask(versions[v].memory, at)
         THEN WithState(versions[v], "archived") ELSE versions[v]
  BY DEF ExpireWorkingSets
<1>3. \A m \in StoredMemories : m \in Proposals /\ InState(memories[m], "archived") # None
  <2>1. \A m \in StoredMemories : InState(memories[m], "archived") \in Memory
    BY StoredRows, MemoryRow DEF RowsInv, MemoryState
  <2> QED BY <2>1, RowAssumption DEF StoredMemories
<1>4. \A v \in StoredVersions :
         v \in Proposals /\ WithState(versions[v], "archived") # None
  <2>1. \A v \in StoredVersions : WithState(versions[v], "archived") \in MemoryVersion
    BY StoredRows, VersionRow DEF RowsInv, VersionState
  <2> QED BY <2>1, RowAssumption DEF StoredVersions
<1>5. StoredMemories' = StoredMemories
  BY <1>1, <1>3 DEF StoredMemories, OfExpiredTask
<1>6. StoredVersions' = StoredVersions
  BY <1>2, <1>4 DEF StoredVersions
<1>7. \A v \in StoredVersions :
         /\ versions'[v].memory = versions[v].memory
         /\ versions'[v].number = versions[v].number
  <2>1. \A v \in StoredVersions :
           versions'[v] = versions[v] \/ versions'[v] = WithState(versions[v], "archived")
    BY <1>2, <1>4
  <2>2. \A v \in StoredVersions :
           /\ WithState(versions[v], "archived").memory = versions[v].memory
           /\ WithState(versions[v], "archived").number = versions[v].number
    BY DEF WithState
  <2> QED BY <2>1, <2>2
<1>8. \A x : VersionsOf(x)' = VersionsOf(x)
  BY <1>6, <1>7 DEF VersionsOf
<1>9. Homed'
  BY <1>5, <1>6, <1>7 DEF Homed, RowsInv
<1>10. ASSUME NEW x \in StoredMemories' PROVE Agreement(x)'
  <2>1. x \in StoredMemories /\ x \in Proposals /\ Agreement(x)
    BY <1>3, <1>5, AgreementOfAll DEF RowsInv
  <2>2. \A v \in VersionsOf(x) : v \in StoredVersions /\ versions[v].memory = x
    BY DEF VersionsOf
  <2>3. CASE ~OfExpiredTask(x, at)
    <3>1. memories'[x] = memories[x]
      BY <1>1, <2>1, <2>3
    <3>2. \A v \in VersionsOf(x) : versions'[v] = versions[v]
      BY <1>2, <1>4, <2>2, <2>3
    <3> QED BY <1>8, <1>10, <2>1, <3>1, <3>2, AgreementKept DEF RowsInv
  <2>4. CASE OfExpiredTask(x, at)
    <3>1. PICK c \in VersionsOf(x) : IsCurrent(c, x)
      BY <2>1 DEF Agreement
    <3>2. \A u \in VersionsOf(x) \ {c} :
             /\ versions[u].number < versions[c].number
             /\ versions[u].state = "superseded"
      BY <2>1, <3>1, CurrentIsUnique DEF RowsInv
    <3>3. versions[c].number \in Nat /\ versions[c].number = memories[x].current_version
      BY <2>1, <3>1, CurrentRows DEF RowsInv
    <3>4. \A u \in VersionsOf(x) \ {c} : ~IsCurrent(u, x)
      BY <3>2, <3>3 DEF IsCurrent
    <3>5. memories'[x] = InState(memories[x], "archived")
      BY <1>1, <2>1, <2>4
    <3>6. versions'[c] = WithState(versions[c], "archived")
      BY <1>2, <1>4, <2>2, <2>4, <3>1
    <3>7. \A u \in VersionsOf(x) \ {c} : versions'[u] = versions[u]
      BY <1>2, <1>4, <2>2, <3>4
    <3>8. IsCurrent(c, x)'
      BY <1>8, <3>1, <3>3, <3>5, <3>6 DEF InState, WithState, IsCurrent
    <3>9. memories'[x].state = "archived" /\ versions'[c].state = "archived"
      BY <3>5, <3>6 DEF InState, WithState
    <3>10. \A u \in VersionsOf(x)' \ {c} :
              /\ versions'[u].number < versions'[c].number
              /\ versions'[u].state = "superseded"
      BY <1>8, <3>2, <3>6, <3>7 DEF WithState
    <3> QED BY <1>8, <3>1, <3>8, <3>9, <3>10 DEF Agreement
  <2> QED BY <2>3, <2>4
<1> QED BY <1>9, <1>10

\* A step of any kind keeps all of them.
LEMMA RowsStep == RowsInv /\ [Next]_vars => RowsInv'
<1> SUFFICES ASSUME RowsInv, TypeOK', [Next]_vars
             PROVE  Homed' /\ \A x \in StoredMemories' : Agreement(x)'
  BY TypeStep, MadeStep DEF RowsInv, StateAgreement, Agreement
<1>1. CASE UNCHANGED <<memories, versions>>
  <2>1. StoredMemories' = StoredMemories /\ StoredVersions' = StoredVersions
    BY <1>1 DEF StoredMemories, StoredVersions
  <2>2. \A x : VersionsOf(x)' = VersionsOf(x)
    BY <1>1, <2>1 DEF VersionsOf
  <2>3. \A x \in StoredMemories : Agreement(x)'
    BY <1>1, <2>1, <2>2, AgreementOfAll, AgreementKept DEF RowsInv
  <2> QED BY <1>1, <2>1, <2>3 DEF Homed, RowsInv
<1>2. ASSUME NEW p \in Proposals, NEW m \in Proposals, NEW current \in Proposals,
             Archive(p, m, current) \/ Forget(p, m, current)
      PROVE  Homed' /\ \A x \in StoredMemories' : Agreement(x)'
  BY <1>2, StateAgrees DEF Archive, Forget
<1>3. ASSUME NEW p \in Proposals, Embed(p)
      PROVE  UNCHANGED <<memories, versions>>
  BY <1>3 DEF Embed, EmbedRead, EmbedWrite
<1>4. ASSUME NEW n, NEW t, ChangeWorkingSet(n, t)
      PROVE  UNCHANGED <<memories, versions>>
  BY <1>4 DEF ChangeWorkingSet, PutWorkingSet, SetWorkingGlobalRecall
<1>5. Tick \/ UNCHANGED vars => UNCHANGED <<memories, versions>>
  BY DEF Tick, vars
<1> QED BY <1>1, <1>2, <1>3, <1>4, <1>5, CreateAgrees, SupersedeAgrees,
           ConflictAgrees, PurgeAgrees, ExpireAgrees
        DEF Next, Apply, Evolve, KeepWorkingSets

\* All of these hold in every reachable state.
LEMMA RowsAlways == Spec => []RowsInv
<1>1. Init => RowsInv
  BY DEF Init, RowsInv, TypeOK, Instant, Made, Homed, StateAgreement, StoredMemories,
         StoredVersions
<1> QED BY <1>1, RowsStep, PTL DEF Spec

\* The memory row, its current version and the versions below it never part,
\* whatever the order in which proposals, purges and expiries are committed.
THEOREM StatesAgree == Spec => []StateAgreement
<1>1. RowsInv => StateAgreement
  BY DEF RowsInv
<1> QED BY <1>1, RowsAlways, PTL
-------------------------------------------------------------------------------
(* What a step may do to the rows, as the history of a memory sees it.       *)

\* Nothing is inserted: what remains of the rows is in its place.
RowsStay ==
    /\ \A v \in StoredVersions' :
          /\ v \in StoredVersions /\ SamePlace(v)
          /\ versions'[v].group = versions[v].group
    /\ \A x \in StoredMemories' :
          /\ x \in StoredMemories /\ VersionsOf(x)' = VersionsOf(x)
          /\ memories'[x].current_version = memories[x].current_version

\* A memory with one version is inserted; no group that is there is replaced.
Inserting(p) ==
    /\ memories[p] = None /\ versions[p] = None
    /\ StoredMemories' = StoredMemories \cup {p}
    /\ StoredVersions' = StoredVersions \cup {p}
    /\ \A x \in StoredMemories : x # p /\ memories'[x] = memories[x]
    /\ \A v \in StoredVersions :
          /\ v # p /\ SamePlace(v)
          /\ versions[v].group # NoGroup => versions'[v].group = versions[v].group
    /\ memories'[p].current_version = 1
    /\ versions'[p].memory = p /\ versions'[p].number = 1
    /\ versions'[p].system_to = NoTime

\* Create inserts, and so does Conflict, which groups the current version too.
LEMMA ConflictEffects ==
  ASSUME RowsInv,
         NEW p \in Proposals, NEW m \in Proposals, NEW current \in Proposals,
         NEW parents \in SUBSET StoredVersions, NEW group \in KnownGroups,
         NEW at \in Recent, Conflict(p, m, current, parents, group, at)
  PROVE  Inserting(p)
<1> DEFINE g == ConflictGroup(m, current, group)
<1>1. memories[p] = None /\ versions[p] = None
  BY NewIsFresh DEF RowsInv, Conflict, MayEvolve
<1>2. m \in StoredMemories /\ IsCurrent(current, m) /\ current \in StoredVersions
  BY DEF Conflict, MayEvolve, IsCurrent, VersionsOf
<1>3. /\ versions[current] \in MemoryVersion /\ memories[m] \in Memory /\ current # p
  BY <1>1, <1>2, CurrentRows DEF RowsInv
<1>4. g \in Proposals \cup {NoGroup} /\ at \in Instant
  BY <1>3, RecentInstants, GroupsKnown DEF RowsInv, ConflictGroup, MemoryVersion
<1>5. versions[current].group # NoGroup => g = versions[current].group
  BY DEF ConflictGroup
<1>6. Grouped(versions[current], g) # None
  BY <1>3, <1>4, VersionRow, RowAssumption
<1>7. NewVersion(p, p, 1, at, g) # None
  BY <1>4, NewVersionRow, RowAssumption
<1>8. NewMemory(memories[m].scope, memories[m].task) # None
  BY <1>3, NewMemoryRow, RowAssumption DEF Memory
<1>9. versions' = [versions EXCEPT ![current] = Grouped(@, g),
                                   ![p] = NewVersion(p, p, 1, at, g)]
  BY DEF Conflict
<1>10. memories' = [memories EXCEPT ![p] = NewMemory(memories[m].scope, memories[m].task)]
  BY DEF Conflict
<1> HIDE DEF g
<1>11. /\ StoredMemories' = StoredMemories \cup {p}
       /\ \A x \in StoredMemories : x # p /\ memories'[x] = memories[x]
       /\ memories'[p] = NewMemory(memories[m].scope, memories[m].task)
  BY <1>1, <1>8, <1>10 DEF StoredMemories, RowsInv, TypeOK
<1>12. versions'[p] = NewVersion(p, p, 1, at, g)
  BY <1>9 DEF RowsInv, TypeOK
<1>13. versions'[current] = Grouped(versions[current], g)
  BY <1>3, <1>9 DEF RowsInv, TypeOK
<1>14. \A v \in Proposals \ {p, current} : versions'[v] = versions[v]
  BY <1>9 DEF RowsInv, TypeOK
<1>15. StoredVersions' = StoredVersions \cup {p}
  BY <1>2, <1>6, <1>7, <1>12, <1>13, <1>14 DEF StoredVersions
<1>16. /\ SamePlace(current)
       /\ versions[current].group # NoGroup
             => versions'[current].group = versions[current].group
  BY <1>5, <1>13 DEF SamePlace, Grouped
<1>17. \A v \in StoredVersions :
          /\ v # p /\ SamePlace(v)
          /\ versions[v].group # NoGroup => versions'[v].group = versions[v].group
  BY <1>1, <1>14, <1>16 DEF StoredVersions, SamePlace
<1> QED BY <1>1, <1>11, <1>12, <1>15, <1>17 DEF Inserting, NewMemory, NewVersion

\* Archive and forget change states only.
LEMMA StateEffects ==
  ASSUME RowsInv,
         NEW p \in Proposals, NEW m \in Proposals, NEW current \in Proposals,
         NEW state \in {"archived", "forgotten"}, ApplyState(p, m, current, state)
  PROVE  RowsStay
<1>1. m \in StoredMemories /\ IsCurrent(current, m) /\ current \in StoredVersions
  BY DEF ApplyState, IsCurrent, VersionsOf
<1>2. versions' = [versions EXCEPT ![current] = WithState(versions[current], state)]
  BY DEF ApplyState
<1>3. memories' = [memories EXCEPT ![m] = InState(memories[m], state)]
  BY DEF ApplyState
<1>4. WithState(versions[current], state) # None
  BY <1>1, StoredRows, VersionRow, RowAssumption DEF RowsInv, VersionState
<1>5. StoredVersions' = StoredVersions
  BY <1>1, <1>2, <1>4 DEF StoredVersions, RowsInv, TypeOK
<1>6. \A v \in StoredVersions : SamePlace(v) /\ versions'[v].group = versions[v].group
  BY <1>2 DEF StoredVersions, SamePlace, WithState, RowsInv, TypeOK
<1>7. \A x \in StoredMemories' :
         x \in StoredMemories /\ memories'[x].current_version = memories[x].current_version
  BY <1>1, <1>3 DEF StoredMemories, InState, RowsInv, TypeOK
<1>8. \A x : VersionsOf(x)' = VersionsOf(x)
  BY <1>5, <1>6 DEF VersionsOf, SamePlace
<1> QED BY <1>5, <1>6, <1>7, <1>8 DEF RowsStay

\* A purge removes memories with all their versions.
LEMMA PurgeEffects ==
  ASSUME RowsInv, NEW m \in Proposals, Purge(m)
  PROVE  RowsStay
<1>1. PICK ms \in SUBSET Proposals :
         /\ Remove(m, ms)
         /\ \A v \in Removed(ms) : versions'[v] = None
         /\ \A v \in Proposals \ Removed(ms) :
               \/ versions'[v] = versions[v]
               \/ v \in StoredVersions /\ versions'[v] = MarkStale(versions[v])
  BY PurgedRows
<1>2. \A x \in Proposals : memories'[x] = IF x \in ms THEN None ELSE memories[x]
  BY <1>1 DEF Remove
<1>3. \A v \in StoredVersions \ Removed(ms) : KeptOrStale(v)
  BY <1>1, MarkedRow DEF RowsInv, StoredVersions
<1>4. StoredVersions' = StoredVersions \ Removed(ms)
  BY <1>1, <1>3 DEF StoredVersions, KeptOrStale
<1>5. \A x \in StoredMemories' :
         x \in StoredMemories /\ x \notin ms /\ memories'[x] = memories[x]
  BY <1>2 DEF StoredMemories
<1>6. \A x \in StoredMemories' : VersionsOf(x)' = VersionsOf(x)
  BY <1>3, <1>4, <1>5 DEF VersionsOf, Removed, KeptOrStale, SamePlace
<1> QED BY <1>3, <1>4, <1>5, <1>6 DEF RowsStay, KeptOrStale

\* Expiry changes states only.
LEMMA ExpireEffects ==
  ASSUME RowsInv, NEW at, ExpireWorkingSets(at)
  PROVE  RowsStay
<1>1. \A v \in Proposals :
         \/ versions'[v] = versions[v]
         \/ v \in StoredVersions /\ versions'[v] = WithState(versions[v], "archived")
  BY DEF ExpireWorkingSets
<1>2. \A v \in StoredVersions : WithState(versions[v], "archived") # None
  BY StoredRows, VersionRow, RowAssumption DEF RowsInv, VersionState
<1>3. StoredVersions' = StoredVersions
  BY <1>1, <1>2 DEF StoredVersions
<1>4. ASSUME NEW v \in StoredVersions
      PROVE  SamePlace(v) /\ versions'[v].group = versions[v].group
  <2>1. versions'[v] = versions[v] \/ versions'[v] = WithState(versions[v], "archived")
    BY <1>1 DEF StoredVersions
  <2> QED BY <2>1 DEF SamePlace, WithState
<1>5. \A x \in StoredMemories' :
         x \in StoredMemories /\ memories'[x].current_version = memories[x].current_version
  BY DEF ExpireWorkingSets, OfExpiredTask, StoredMemories, InState
<1>6. \A x : VersionsOf(x)' = VersionsOf(x)
  BY <1>3, <1>4 DEF VersionsOf, SamePlace
<1> QED BY <1>3, <1>4, <1>5, <1>6 DEF RowsStay

\* Every step is one of these.
LEMMA StepEffects ==
  ASSUME RowsInv, [Next]_vars
  PROVE  \/ RowsStay
         \/ \E p \in Proposals : Inserting(p)
         \/ \E p, m, current \in Proposals, group \in KnownGroups, at \in Recent :
               /\ Superseding(p, m, current, group, at)
               /\ at > versions[current].system_from
<1>1. ASSUME NEW p \in Proposals, NEW scope \in Scopes, NEW task \in Tasks \cup {NoTask},
             NEW parents \in SUBSET StoredVersions, NEW group \in KnownGroups,
             NEW at \in Recent, Create(p, scope, task, parents, group, at)
      PROVE  Inserting(p)
  <2>1. /\ memories[p] = None /\ versions[p] = None
        /\ StoredMemories' = StoredMemories \cup {p}
        /\ StoredVersions' = StoredVersions \cup {p}
        /\ \A x \in StoredMemories : x # p /\ memories'[x] = memories[x]
        /\ \A v \in StoredVersions : v # p /\ versions'[v] = versions[v]
        /\ memories'[p] = NewMemory(scope, task)
        /\ versions'[p] = NewVersion(p, p, 1, at, group)
    BY <1>1, CreateEffects
  <2> QED BY <2>1 DEF Inserting, SamePlace, NewMemory, NewVersion
<1>2. ASSUME NEW p \in Proposals, NEW m \in Proposals, NEW current \in Proposals,
             NEW parents \in SUBSET StoredVersions, NEW group \in KnownGroups,
             NEW at \in Recent, Supersede(p, m, current, parents, group, at)
      PROVE  Superseding(p, m, current, group, at) /\ at > versions[current].system_from
  BY <1>2, SupersedeEffects DEF Supersede
<1>3. ASSUME NEW p \in Proposals, NEW m \in Proposals, NEW current \in Proposals,
             Archive(p, m, current) \/ Forget(p, m, current)
      PROVE  RowsStay
  BY <1>3, StateEffects DEF Archive, Forget
<1>4. UNCHANGED <<memories, versions>> => RowsStay
  BY DEF RowsStay, SamePlace, VersionsOf, StoredVersions, StoredMemories
<1>5. ASSUME NEW v \in Proposals, Embed(v)
      PROVE  UNCHANGED <<memories, versions>>
  BY <1>5 DEF Embed, EmbedRead, EmbedWrite
<1>6. ASSUME NEW n, NEW t, ChangeWorkingSet(n, t)
      PROVE  UNCHANGED <<memories, versions>>
  BY <1>6 DEF ChangeWorkingSet, PutWorkingSet, SetWorkingGlobalRecall
<1>7. Tick \/ UNCHANGED vars => UNCHANGED <<memories, versions>>
  BY DEF Tick, vars
<1> QED BY <1>1, <1>2, <1>3, <1>4, <1>5, <1>6, <1>7, ConflictEffects, PurgeEffects,
           ExpireEffects
        DEF Next, Apply, Evolve, KeepWorkingSets

\* A version keeps the group it was recorded in for as long as it is stored,
\* whatever group a later proposal of a caller names.
THEOREM GroupsAreKept == Spec => ConflictGroupKept
<1>1. RowsInv /\ [Next]_vars =>
         [\A v \in StoredVersions :
             versions[v].group # NoGroup /\ versions'[v] # None
                 => versions'[v].group = versions[v].group]_vars
  <2> SUFFICES ASSUME RowsInv, [Next]_vars, NEW v \in StoredVersions,
                      versions[v].group # NoGroup, versions'[v] # None
               PROVE  versions'[v].group = versions[v].group
    OBVIOUS
  <2>1. CASE RowsStay
    BY <2>1 DEF RowsStay, StoredVersions
  <2>2. CASE \E p \in Proposals : Inserting(p)
    BY <2>2 DEF Inserting
  <2>3. CASE \E p, m, current \in Proposals, group \in KnownGroups, at \in Recent :
                Superseding(p, m, current, group, at)
    BY <2>3 DEF Superseding, KeptOrStale
  <2> QED BY <2>1, <2>2, <2>3, StepEffects
<1> QED BY <1>1, RowsAlways, PTL DEF Spec, ConflictGroupKept
-------------------------------------------------------------------------------
\* What SystemHistory says of one version of m.
InHistory(v, m) ==
    IF IsCurrent(v, m) THEN versions[v].system_to = NoTime
    ELSE \E next \in VersionsOf(m) :
            /\ versions[next].number = versions[v].number + 1
            /\ versions[next].system_from = versions[v].system_to
            /\ versions[v].system_from < versions[v].system_to

\* SystemHistory is the history of every stored version.
LEMMA HistoryOfAll ==
  SystemHistory <=> \A v \in StoredVersions : InHistory(v, versions[v].memory)
  BY DEF SystemHistory, InHistory

\* A memory whose row and versions stay in place keeps its history.
LEMMA HistoryKept ==
  ASSUME NEW m, NEW v \in VersionsOf(m), InHistory(v, m),
         VersionsOf(m)' = VersionsOf(m), \A u \in VersionsOf(m) : SamePlace(u),
         memories'[m].current_version = memories[m].current_version
  PROVE  InHistory(v, m)'
<1>1. IsCurrent(v, m)' <=> IsCurrent(v, m)
  BY DEF IsCurrent, SamePlace
<1>2. CASE IsCurrent(v, m)
  BY <1>1, <1>2 DEF InHistory, SamePlace
<1>3. CASE ~IsCurrent(v, m)
  <2>1. PICK next \in VersionsOf(m) :
           /\ versions[next].number = versions[v].number + 1
           /\ versions[next].system_from = versions[v].system_to
           /\ versions[v].system_from < versions[v].system_to
    BY <1>3 DEF InHistory
  <2>2. SamePlace(next) /\ SamePlace(v)
    OBVIOUS
  <2>3. /\ versions'[next].number = versions'[v].number + 1
        /\ versions'[next].system_from = versions'[v].system_to
        /\ versions'[v].system_from < versions'[v].system_to
    BY <2>1, <2>2 DEF SamePlace
  <2> QED BY <1>1, <1>3, <2>3 DEF InHistory
<1> QED BY <1>2, <1>3

\* Only a supersede lengthens a history: it closes the current version at the
\* instant the new one opens, which lies after its own beginning.
LEMMA HistoryStep == RowsInv /\ RowsInv' /\ SystemHistory /\ [Next]_vars => SystemHistory'
<1> SUFFICES ASSUME RowsInv, RowsInv', SystemHistory, [Next]_vars,
                    NEW v \in StoredVersions'
             PROVE  InHistory(v, versions[v].memory)'
  BY DEF SystemHistory, InHistory
<1>1. \A u \in StoredVersions :
         /\ InHistory(u, versions[u].memory) /\ u \in VersionsOf(versions[u].memory)
         /\ versions[u].memory \in StoredMemories
  BY HistoryOfAll DEF VersionsOf, RowsInv, Homed
<1>2. CASE RowsStay
  <2>0. PICK m : m = versions[v].memory
    OBVIOUS
  <2>1. v \in StoredVersions /\ versions'[v].memory = m
    BY <1>2, <2>0 DEF RowsStay, SamePlace
  <2>2. m \in StoredMemories'
    BY <2>1 DEF Homed, RowsInv
  <2>3. /\ VersionsOf(m)' = VersionsOf(m)
        /\ memories'[m].current_version = memories[m].current_version
    BY <1>2, <2>2 DEF RowsStay
  <2>4. \A u \in VersionsOf(m) : SamePlace(u)
    BY <1>2, <2>3 DEF RowsStay, VersionsOf
  <2>5. v \in VersionsOf(m) /\ InHistory(v, m)
    BY <1>1, <2>0, <2>1
  <2>6. InHistory(v, m)'
    BY <2>3, <2>4, <2>5, HistoryKept
  <2> QED BY <2>1, <2>6
<1>3. ASSUME NEW p \in Proposals, Inserting(p)
      PROVE  InHistory(v, versions[v].memory)'
  <2>1. CASE v = p
    <3>1. IsCurrent(p, p)'
      BY <1>3 DEF Inserting, IsCurrent, VersionsOf
    <3> QED BY <1>3, <2>1, <3>1 DEF Inserting, InHistory
  <2>2. CASE v # p
    <3>0. PICK m : m = versions[v].memory
      OBVIOUS
    <3>1. v \in StoredVersions /\ versions'[v].memory = m
      BY <1>3, <2>2, <3>0 DEF Inserting, SamePlace
    <3>2. m # p /\ memories'[m] = memories[m]
      BY <1>1, <1>3, <3>0, <3>1 DEF Inserting
    <3>3. VersionsOf(m)' = VersionsOf(m)
      BY <1>3, <3>2 DEF Inserting, VersionsOf, SamePlace
    <3>4. \A u \in VersionsOf(m) : SamePlace(u)
      BY <1>3 DEF Inserting, VersionsOf
    <3>5. v \in VersionsOf(m) /\ InHistory(v, m)
      BY <1>1, <3>0, <3>1
    <3>6. InHistory(v, m)'
      BY <3>2, <3>3, <3>4, <3>5, HistoryKept
    <3> QED BY <3>1, <3>6
  <2> QED BY <2>1, <2>2
<1>4. ASSUME NEW p \in Proposals, NEW m \in Proposals, NEW current \in Proposals,
             NEW group \in KnownGroups, NEW at \in Recent,
             Superseding(p, m, current, group, at), at > versions[current].system_from
      PROVE  InHistory(v, versions[v].memory)'
  <2> DEFINE number == versions[current].number
  <2>1. /\ versions'[p].memory = m /\ versions'[p].number = number + 1
        /\ versions'[p].system_from = at /\ versions'[p].system_to = NoTime
    BY <1>4 DEF Superseding, NewVersion
  <2>2. /\ current \in VersionsOf(m) /\ number \in Nat \ {0} /\ current # p
        /\ versions'[current].memory = m /\ versions'[current].number = number
        /\ versions'[current].system_from = versions[current].system_from
        /\ versions'[current].system_to = at
        /\ memories'[m].current_version = number + 1
    BY <1>4 DEF Superseding
  <2>3. /\ \A u \in StoredVersions \ {current} : u # p /\ SamePlace(u)
        /\ StoredVersions' = StoredVersions \cup {p}
        /\ m \in StoredMemories
        /\ \A x \in Proposals \ {m} : memories'[x] = memories[x]
    BY <1>4 DEF Superseding, KeptOrStale
  <2>4. VersionsOf(m)' = VersionsOf(m) \cup {p}
    BY <2>1, <2>2, <2>3 DEF VersionsOf, SamePlace
  <2> HIDE DEF number
  <2>5. CASE v = p
    <3>1. IsCurrent(p, m)'
      BY <2>1, <2>2, <2>4 DEF IsCurrent
    <3> QED BY <2>1, <2>5, <3>1 DEF InHistory
  <2>6. CASE v = current
    <3>1. ~IsCurrent(current, m)'
      BY <2>2 DEF IsCurrent
    <3>2. at > versions'[current].system_from
      BY <1>4, <2>2
    <3>3. versions'[current].system_from < at
      <4>1. versions[current].system_from \in Int /\ at \in Int
        BY <2>2, StoredRows, RecentInstants
           DEF RowsInv, VersionsOf, MemoryVersion, Instant
      <4> QED BY <2>2, <3>2, <4>1
    <3> QED BY <2>1, <2>2, <2>4, <2>6, <3>1, <3>3 DEF InHistory
  <2>7. CASE v \notin {p, current}
    <3>0. PICK x : x = versions[v].memory
      OBVIOUS
    <3>1. v \in StoredVersions /\ SamePlace(v) /\ versions'[v].memory = x
      BY <2>3, <2>7, <3>0 DEF SamePlace
    <3>2. x \in StoredMemories /\ v \in VersionsOf(x) /\ InHistory(v, x)
      BY <1>1, <3>0, <3>1
    <3>3. CASE x # m
      <4>1. memories'[x] = memories[x]
        BY <2>3, <3>2, <3>3 DEF StoredMemories
      <4>2. VersionsOf(x)' = VersionsOf(x)
        BY <2>1, <2>2, <2>3, <3>3 DEF VersionsOf, SamePlace
      <4>3. \A u \in VersionsOf(x) : SamePlace(u)
        BY <2>2, <2>3, <3>3 DEF VersionsOf
      <4>4. InHistory(v, x)'
        BY <3>2, <4>1, <4>2, <4>3, HistoryKept
      <4> QED BY <3>1, <4>4
    <3>4. CASE x = m
      <4>1. IsCurrent(current, m)
        BY <1>4 DEF Superseding
      <4>2. versions[v].number < number /\ versions[v].number \in Nat
        <5>1. Agreement(m)
          BY <2>3, AgreementOfAll DEF RowsInv
        <5> QED BY <2>3, <2>7, <3>2, <3>4, <4>1, <5>1, CurrentIsUnique, StoredRows
                DEF RowsInv, VersionsOf, MemoryVersion, number
      <4>3. ~IsCurrent(v, m) /\ ~IsCurrent(v, m)'
        <5>1. memories[m].current_version = number
          BY <4>1 DEF IsCurrent, number
        <5>2. versions'[v].number = versions[v].number
          BY <3>1 DEF SamePlace
        <5> QED BY <2>2, <4>2, <5>1, <5>2 DEF IsCurrent
      <4>4. PICK next \in VersionsOf(m) :
               /\ versions[next].number = versions[v].number + 1
               /\ versions[next].system_from = versions[v].system_to
               /\ versions[v].system_from < versions[v].system_to
        BY <3>2, <3>4, <4>3 DEF InHistory
      <4>5. /\ versions'[next].number = versions[next].number
            /\ versions'[next].system_from = versions[next].system_from
            /\ next \in VersionsOf(m)'
        BY <2>2, <2>3, <2>4 DEF VersionsOf, SamePlace, number
      <4> QED BY <3>1, <3>4, <4>3, <4>4, <4>5 DEF InHistory, SamePlace
    <3> QED BY <3>3, <3>4
  <2> QED BY <2>5, <2>6, <2>7
<1> QED BY <1>2, <1>3, <1>4, StepEffects

\* The versions of a memory follow each other without gap or overlap, although
\* each was committed with a clock reading taken before its transaction.
THEOREM HistoriesAreGapless == Spec => []SystemHistory
<1>1. Init => SystemHistory
  BY DEF Init, SystemHistory, StoredVersions
<1> QED BY <1>1, RowsAlways, HistoryStep, PTL DEF Spec
-------------------------------------------------------------------------------
\* The key of the working set of memory m.
SetOf(m) == <<memories[m].scope.namespace, memories[m].task>>

\* What ExpiredTaskInactive says of one memory.
OnTime(m) ==
    memories[m].task # NoTask =>
        /\ working[SetOf(m)] # None
        /\ working[SetOf(m)].state = "expired" => memories[m].state # "active"

\* ExpiredTaskInactive is that of every stored memory.
LEMMA OnTimeOfAll == ExpiredTaskInactive <=> \A m \in StoredMemories : OnTime(m)
  BY DEF ExpiredTaskInactive, OnTime, SetOf

\* A working set is an element of the table.
LEMMA SetKey ==
  ASSUME TypeOK, NEW m \in StoredMemories, memories[m].task # NoTask
  PROVE  SetOf(m) \in Namespaces \X Tasks
<1>1. memories[m] \in Memory
  BY StoredRows
<1>2. memories[m].scope \in Scopes /\ memories[m].task \in Tasks
  BY <1>1 DEF Memory
<1>3. memories[m].scope.namespace \in Namespaces
  BY <1>2, ScopeAssumption
<1> QED BY <1>2, <1>3 DEF SetOf

\* A step that does not expire the set of a memory, nor activates the memory,
\* leaves it on time.
LEMMA OnTimeKept ==
  ASSUME NEW m, OnTime(m),
         memories'[m].scope = memories[m].scope, memories'[m].task = memories[m].task,
         memories'[m].state = "active" => memories[m].state = "active",
         memories[m].task # NoTask =>
            /\ working'[SetOf(m)] # None
            /\ working'[SetOf(m)].state = "expired" => working[SetOf(m)].state = "expired"
  PROVE  OnTime(m)'
  BY DEF OnTime, SetOf

\* validateWorkingReference lets a memory in only while its set is active.
LEMMA ReferencedOnTime ==
  ASSUME NEW m, NEW scope, NEW task, NEW at, WorkingReference(scope, task, at),
         memories'[m] = NewMemory(scope, task), working' = working
  PROVE  OnTime(m)'
  BY DEF OnTime, SetOf, NewMemory, WorkingReference

\* Every step leaves every memory on time: the apply operations look at the set
\* in their transaction, and expiry archives in the transaction that expires.
LEMMA OnTimeStep == RowsInv /\ ExpiredTaskInactive /\ [Next]_vars => ExpiredTaskInactive'
<1> SUFFICES ASSUME RowsInv, \A m \in StoredMemories : OnTime(m), [Next]_vars,
                    NEW x \in StoredMemories'
             PROVE  OnTime(x)'
  BY OnTimeOfAll DEF ExpiredTaskInactive, OnTime, SetOf
<1>1. ASSUME x \in StoredMemories, working' = working,
             memories'[x].scope = memories[x].scope, memories'[x].task = memories[x].task,
             memories'[x].state = "active" => memories[x].state = "active"
      PROVE  OnTime(x)'
  <2>1. memories[x].task # NoTask => working[SetOf(x)] # None
    BY <1>1 DEF OnTime
  <2> QED BY <1>1, <2>1, OnTimeKept
<1>2. ASSUME x \in StoredMemories, working' = working, memories'[x] = memories[x]
      PROVE  OnTime(x)'
  BY <1>1, <1>2
<1>3. ASSUME NEW p \in Proposals, NEW scope \in Scopes, NEW task \in Tasks \cup {NoTask},
             NEW parents \in SUBSET StoredVersions, NEW group \in KnownGroups,
             NEW at \in Recent, Create(p, scope, task, parents, group, at)
      PROVE  OnTime(x)'
  <2>1. /\ StoredMemories' = StoredMemories \cup {p}
        /\ \A y \in StoredMemories : memories'[y] = memories[y]
        /\ memories'[p] = NewMemory(scope, task)
    BY <1>3, CreateEffects
  <2>2. WorkingReference(scope, task, at) /\ working' = working
    BY <1>3 DEF Create
  <2>3. x \in StoredMemories \/ x = p
    BY <2>1
  <2>4. CASE x \in StoredMemories
    BY <1>2, <2>1, <2>2, <2>4
  <2>5. CASE x = p
    BY <2>1, <2>2, <2>5, ReferencedOnTime
  <2> QED BY <2>3, <2>4, <2>5
<1>4. ASSUME NEW p \in Proposals, NEW m \in Proposals, NEW current \in Proposals,
             NEW parents \in SUBSET StoredVersions, NEW group \in KnownGroups,
             NEW at \in Recent, Supersede(p, m, current, parents, group, at)
      PROVE  OnTime(x)'
  <2>1. Superseding(p, m, current, group, at)
    BY <1>4, SupersedeEffects
  <2>2. working' = working
    BY <1>4 DEF Supersede
  <2>3. x \in StoredMemories /\ x \in Proposals
    BY <2>1 DEF Superseding, StoredMemories
  <2>4. CASE x = m
    BY <1>1, <2>1, <2>2, <2>3, <2>4 DEF Superseding
  <2>5. CASE x # m
    BY <1>2, <2>1, <2>2, <2>3, <2>5 DEF Superseding
  <2> QED BY <2>4, <2>5
<1>5. ASSUME NEW p \in Proposals, NEW m \in Proposals, NEW current \in Proposals,
             NEW parents \in SUBSET StoredVersions, NEW group \in KnownGroups,
             NEW at \in Recent, Conflict(p, m, current, parents, group, at)
      PROVE  OnTime(x)'
  <2>1. Inserting(p)
    BY <1>5, ConflictEffects
  <2>2. /\ WorkingReference(memories[m].scope, memories[m].task, at)
        /\ working' = working
        /\ memories' = [memories EXCEPT ![p] =
              NewMemory(memories[m].scope, memories[m].task)]
    BY <1>5 DEF Conflict, MayEvolve
  <2>3. memories'[p] = NewMemory(memories[m].scope, memories[m].task)
    BY <2>2 DEF RowsInv, TypeOK
  <2>4. x = p \/ (x \in StoredMemories /\ memories'[x] = memories[x])
    BY <2>1 DEF Inserting
  <2>5. CASE x = p
    BY <2>2, <2>3, <2>5, ReferencedOnTime
  <2>6. CASE x \in StoredMemories /\ memories'[x] = memories[x]
    BY <1>2, <2>2, <2>6
  <2> QED BY <2>4, <2>5, <2>6
<1>6. ASSUME NEW p \in Proposals, NEW m \in Proposals, NEW current \in Proposals,
             Archive(p, m, current) \/ Forget(p, m, current)
      PROVE  OnTime(x)'
  <2>1. PICK state \in {"archived", "forgotten"} : ApplyState(p, m, current, state)
    BY <1>6 DEF Archive, Forget
  <2>2. /\ memories' = [memories EXCEPT ![m] = InState(@, state)] /\ working' = working
        /\ m \in StoredMemories
    BY <2>1 DEF ApplyState
  <2>3. x \in StoredMemories
    BY <2>2 DEF StoredMemories, RowsInv, TypeOK
  <2>4. /\ memories'[x].scope = memories[x].scope /\ memories'[x].task = memories[x].task
        /\ memories'[x].state = "active" => memories[x].state = "active"
    BY <2>2, <2>3 DEF InState, StoredMemories, RowsInv, TypeOK
  <2> QED BY <1>1, <2>2, <2>3, <2>4
<1>7. ASSUME NEW m \in Proposals, Purge(m)
      PROVE  OnTime(x)'
  <2>1. memories'[x] = memories[x] /\ x \in StoredMemories /\ working' = working
    BY <1>7 DEF Purge, PurgeCascade, PurgeMarkStale, Remove, StoredMemories
  <2> QED BY <1>2, <2>1
<1>8. ASSUME NEW at \in Recent, ExpireWorkingSets(at)
      PROVE  OnTime(x)'
  <2>1. memories'[x] =
           IF OfExpiredTask(x, at) THEN InState(memories[x], "archived") ELSE memories[x]
    BY <1>8 DEF ExpireWorkingSets, StoredMemories
  <2>2. x \in StoredMemories
    BY <2>1 DEF OfExpiredTask, StoredMemories
  <2>3. /\ memories'[x].scope = memories[x].scope /\ memories'[x].task = memories[x].task
        /\ memories'[x].state = "active" =>
              memories[x].state = "active" /\ ~OfExpiredTask(x, at)
    BY <2>1 DEF InState
  <2>4. CASE memories[x].task = NoTask
    BY <2>2, <2>3, <2>4, OnTimeKept
  <2>5. CASE memories[x].task # NoTask
    <3>1. SetOf(x) \in DOMAIN working /\ OnTime(x)
      BY <2>2, <2>5, SetKey DEF RowsInv, TypeOK
    <3>2. OfExpiredTask(x, at) <=> Expired(SetOf(x), at)
      BY <2>2, <2>5 DEF OfExpiredTask, SetOf
    <3>3. working'[SetOf(x)] =
             IF Expired(SetOf(x), at)
             THEN [state |-> "expired", expires_at |-> working[SetOf(x)].expires_at,
                   global_recall |-> working[SetOf(x)].global_recall]
             ELSE working[SetOf(x)]
      BY <1>8, <3>1 DEF ExpireWorkingSets
    <3>4. SetOf(x)' = SetOf(x)
      BY <2>3 DEF SetOf
    <3>5. working'[SetOf(x)] # None
      <4>1. working[SetOf(x)] # None /\ SetOf(x) \in Namespaces \X Tasks
        BY <2>2, <2>5, <3>1, SetKey DEF OnTime, RowsInv
      <4>2. working[SetOf(x)] \in WorkingSet
        BY <4>1 DEF RowsInv, TypeOK
      <4>3. [state |-> "expired", expires_at |-> working[SetOf(x)].expires_at,
             global_recall |-> working[SetOf(x)].global_recall] \in WorkingSet
        BY <4>2 DEF WorkingSet
      <4> QED BY <3>3, <4>1, <4>3, RowAssumption
    <3>6. CASE Expired(SetOf(x), at)
      BY <2>3, <3>2, <3>4, <3>5, <3>6 DEF OnTime
    <3>7. CASE ~Expired(SetOf(x), at)
      BY <2>3, <3>1, <3>3, <3>4, <3>5, <3>7, OnTimeKept
    <3> QED BY <3>6, <3>7
  <2> QED BY <2>4, <2>5
<1>9. ASSUME NEW n \in Namespaces, NEW t \in Tasks, ChangeWorkingSet(n, t)
      PROVE  OnTime(x)'
  <2>1. memories' = memories /\ x \in StoredMemories
    BY <1>9 DEF ChangeWorkingSet, PutWorkingSet, SetWorkingGlobalRecall, StoredMemories
  <2>2. PICK set \in WorkingSet :
           /\ working' = [working EXCEPT ![<<n, t>>] = set]
           /\ set.state = "active"
    <3>1. ASSUME NEW expires \in ((now + 1)..MaxTime) \cup {NoTime}, NEW global \in BOOLEAN,
                 PutWorkingSet(n, t, expires, global)
          PROVE  \E set \in WorkingSet :
                    /\ working' = [working EXCEPT ![<<n, t>>] = set]
                    /\ set.state = "active"
      <4> DEFINE set == [state |-> "active", expires_at |-> expires, global_recall |-> global]
      <4>1. set \in WorkingSet
        BY DEF WorkingSet, Instant, NoTime, TypeOK, RowsInv
      <4> QED BY <3>1, <4>1 DEF PutWorkingSet
    <3>2. ASSUME NEW enabled \in BOOLEAN, SetWorkingGlobalRecall(n, t, enabled)
          PROVE  \E set \in WorkingSet :
                    /\ working' = [working EXCEPT ![<<n, t>>] = set]
                    /\ set.state = "active"
      <4> DEFINE set == [state |-> working[<<n, t>>].state,
                         expires_at |-> working[<<n, t>>].expires_at,
                         global_recall |-> enabled]
      <4>1. working[<<n, t>>] \in WorkingSet /\ working[<<n, t>>].state = "active"
        BY <3>2 DEF SetWorkingGlobalRecall, TypeOK, RowsInv
      <4>2. set \in WorkingSet /\ set.state = "active"
        BY <4>1 DEF WorkingSet
      <4>3. working' = [working EXCEPT ![<<n, t>>] = set]
        BY <3>2 DEF SetWorkingGlobalRecall
      <4> QED BY <4>2, <4>3
    <3> QED BY <1>9, <3>1, <3>2 DEF ChangeWorkingSet
  <2>3. ASSUME memories[x].task # NoTask
        PROVE  /\ working'[SetOf(x)] # None
               /\ working'[SetOf(x)].state = "expired" => working[SetOf(x)].state = "expired"
    <3>1. SetOf(x) \in Namespaces \X Tasks /\ working[SetOf(x)] # None
      BY <2>1, <2>3, SetKey DEF OnTime, RowsInv
    <3>2. working'[SetOf(x)] = set \/ working'[SetOf(x)] = working[SetOf(x)]
      BY <2>2, <3>1 DEF RowsInv, TypeOK
    <3> QED BY <2>2, <3>1, <3>2, RowAssumption
  <2> QED BY <2>1, <2>3, OnTimeKept
<1>10. ASSUME NEW v \in Proposals, Embed(v)
       PROVE  UNCHANGED <<memories, working>>
  BY <1>10 DEF Embed, EmbedRead, EmbedWrite
<1>11. Tick \/ UNCHANGED vars => UNCHANGED <<memories, working>>
  BY DEF Tick, vars
<1>12. UNCHANGED <<memories, working>> => OnTime(x)'
  BY <1>2 DEF StoredMemories
<1> QED BY <1>3, <1>4, <1>5, <1>6, <1>7, <1>8, <1>9, <1>10, <1>11, <1>12
        DEF Next, Apply, Evolve, KeepWorkingSets

\* No working memory is active once its set has expired, however old the clock
\* reading or the proposal that a transaction brings: a set is inserted once for a
\* task, the sweep archives what it finds, and apply looks at the state of the set.
THEOREM ExpiryIsComplete == Spec => []ExpiredTaskInactive
<1>1. Init => ExpiredTaskInactive
  BY DEF Init, ExpiredTaskInactive, StoredMemories
<1> QED BY <1>1, RowsAlways, OnTimeStep, PTL DEF Spec
-------------------------------------------------------------------------------
(* Derivation: where content may flow, and what is marked, over any number   *)
(* of edges between versions; and the two indexes.                           *)

\* Where content may flow twice, it may flow at once.
LEMMA FlowIsTransitive ==
  ASSUME NEW a \in Scopes, NEW b \in Scopes, NEW c \in Scopes,
         MayFlow(a, b), MayFlow(b, c)
  PROVE  MayFlow(a, c)
<1>1. b.visibility \in Visibility
  BY ScopeAssumption
<1> QED
  BY <1>1 DEF MayFlow, Visibility

\* The scope of a stored version is that of its memory, which is stored.
LEMMA StoredScopes ==
  ASSUME RowsInv, NEW v \in StoredVersions
  PROVE  /\ versions[v].memory \in StoredMemories
         /\ ScopeOf(v) \in Scopes
  BY StoredRows DEF RowsInv, Homed, ScopeOf, Memory

\* What validateDependencies checked of every edge when it was inserted.
EdgesFlow ==
    \A e \in dependencies :
        /\ e[1] \in StoredVersions /\ e[2] \in StoredVersions
        /\ MayFlow(ScopeOf(e[1]), ScopeOf(e[2]))

\* If every edge is such a flow, so is every path, whatever its length.
LEMMA PathsFlow ==
  ASSUME RowsInv, EdgesFlow, NEW v \in StoredVersions, NEW d \in Descendants(v)
  PROVE  d \in StoredVersions /\ MayFlow(ScopeOf(v), ScopeOf(d))
<1> DEFINE Reached == {x \in StoredVersions : MayFlow(ScopeOf(v), ScopeOf(x))}
<1>1. Reached \in SUBSET Proposals
  BY DEF StoredVersions
<1>2. Children(dependencies, v) \subseteq Reached
  BY DEF EdgesFlow, Children
<1>3. ClosedUnder(dependencies, Reached)
  <2> SUFFICES ASSUME NEW e \in dependencies, e[1] \in Reached
               PROVE  e[2] \in Reached
    BY DEF ClosedUnder
  <2>1. e[2] \in StoredVersions /\ MayFlow(ScopeOf(e[1]), ScopeOf(e[2]))
    BY DEF EdgesFlow
  <2> QED
    BY <2>1, StoredScopes, FlowIsTransitive
<1>4. d \in Reached
  BY <1>1, <1>2, <1>3 DEF Descendants, Tree
<1> QED
  BY <1>4

\* A step moves no memory to another scope or task and no version to another
\* memory.
LEMMA ScopesKept ==
  ASSUME RowsInv, [Next]_vars
  PROVE  /\ \A m \in StoredMemories :
               m \in StoredMemories' => /\ memories'[m].scope = memories[m].scope
                                       /\ memories'[m].task = memories[m].task
         /\ \A v \in StoredVersions :
               v \in StoredVersions' => versions'[v].memory = versions[v].memory
<1> USE DEF RowsInv, TypeOK, StoredMemories, StoredVersions
<1>1. ASSUME NEW p \in Proposals, NEW scope, NEW task, NEW parents, NEW group, NEW at,
             Create(p, scope, task, parents, group, at)
      PROVE  /\ \A m \in StoredMemories : memories'[m] = memories[m]
             /\ \A v \in StoredVersions : versions'[v] = versions[v]
  BY <1>1, NewIsFresh DEF Create
<1>2. ASSUME NEW p \in Proposals, NEW m \in Proposals, NEW current \in Proposals,
             NEW parents, NEW group, NEW at,
             Supersede(p, m, current, parents, group, at)
      PROVE  /\ \A x \in StoredMemories : /\ memories'[x].scope = memories[x].scope
                                          /\ memories'[x].task = memories[x].task
             /\ \A v \in StoredVersions : versions'[v].memory = versions[v].memory
  <2>1. \A x \in StoredMemories : /\ memories'[x].scope = memories[x].scope
                                   /\ memories'[x].task = memories[x].task
    BY <1>2 DEF Supersede
  <2>2. versions[p] = None
    BY <1>2, NewIsFresh DEF Supersede, MayEvolve
  <2>3. \A v \in StoredVersions : versions'[v].memory = versions[v].memory
    BY <1>2, <2>2 DEF Supersede, Closed, MarkStale, WithState
  <2> QED BY <2>1, <2>3
<1>3. ASSUME NEW p \in Proposals, NEW m \in Proposals, NEW current \in Proposals,
             NEW parents, NEW group, NEW at,
             Conflict(p, m, current, parents, group, at)
      PROVE  /\ \A x \in StoredMemories : memories'[x] = memories[x]
             /\ \A v \in StoredVersions : versions'[v].memory = versions[v].memory
  <2>1. memories[p] = None /\ versions[p] = None
    BY <1>3, NewIsFresh DEF Conflict, MayEvolve
  <2>2. \A x \in StoredMemories : memories'[x] = memories[x]
    BY <1>3, <2>1 DEF Conflict
  <2>3. PICK g : versions' = [versions EXCEPT ![current] = Grouped(@, g),
                                              ![p] = NewVersion(p, p, 1, at, g)]
    BY <1>3 DEF Conflict
  <2>4. \A v \in StoredVersions : versions'[v].memory = versions[v].memory
    BY <2>1, <2>3 DEF Grouped
  <2> QED BY <2>2, <2>4
<1>4. ASSUME NEW p \in Proposals, NEW m \in Proposals, NEW current \in Proposals,
             Archive(p, m, current) \/ Forget(p, m, current)
      PROVE  /\ \A x \in StoredMemories : /\ memories'[x].scope = memories[x].scope
                                          /\ memories'[x].task = memories[x].task
             /\ \A v \in StoredVersions : versions'[v].memory = versions[v].memory
  BY <1>4 DEF Archive, Forget, ApplyState, InState, WithState
<1>5. ASSUME NEW m \in Proposals, Purge(m)
      PROVE  /\ \A x \in StoredMemories' : memories'[x] = memories[x]
             /\ \A v \in StoredVersions' : versions'[v].memory = versions[v].memory
  BY <1>5 DEF Purge, PurgeCascade, PurgeMarkStale, Remove, MarkStale, WithState
<1>6. ASSUME NEW v \in Proposals, Embed(v)
      PROVE  UNCHANGED <<memories, versions>>
  BY <1>6 DEF Embed, EmbedRead, EmbedWrite
<1>7. ASSUME NEW n, NEW t, ChangeWorkingSet(n, t)
      PROVE  UNCHANGED <<memories, versions>>
  BY <1>7 DEF ChangeWorkingSet, PutWorkingSet, SetWorkingGlobalRecall
<1>8. ASSUME NEW at \in Recent, ExpireWorkingSets(at)
      PROVE  /\ \A x \in StoredMemories : /\ memories'[x].scope = memories[x].scope
                                          /\ memories'[x].task = memories[x].task
             /\ \A v \in StoredVersions : versions'[v].memory = versions[v].memory
  BY <1>8 DEF ExpireWorkingSets, InState, WithState
<1>9. Tick \/ UNCHANGED vars => UNCHANGED <<memories, versions>>
  BY DEF Tick, vars
<1> QED
  BY <1>1, <1>2, <1>3, <1>4, <1>5, <1>6, <1>7, <1>8, <1>9
     DEF Next, Apply, Evolve, KeepWorkingSets

\* An edge that a step leaves alone, with both its ends, is as good as before.
LEMMA OldEdge ==
  ASSUME RowsInv, RowsInv', EdgesFlow, [Next]_vars, NEW e \in dependencies,
         e[1] \in StoredVersions', e[2] \in StoredVersions'
  PROVE  MayFlow(ScopeOf(e[1]), ScopeOf(e[2]))'
<1>1. ASSUME NEW v \in StoredVersions, v \in StoredVersions'
      PROVE  ScopeOf(v)' = ScopeOf(v)
  BY <1>1, StoredScopes, ScopesKept DEF ScopeOf, RowsInv, Homed
<1> QED
  BY <1>1 DEF EdgesFlow, MayFlow

\* The edges that an apply operation adds lead from versions whose content may
\* flow into the scope of the new version.
LEMMA NewEdge ==
  ASSUME RowsInv, RowsInv', [Next]_vars, NEW p \in Proposals, NEW scope \in Scopes,
         NEW parents \in SUBSET StoredVersions, ValidParents(parents, scope),
         NEW v \in parents, v \in StoredVersions', p \in StoredVersions',
         ScopeOf(p)' = scope
  PROVE  MayFlow(ScopeOf(v), ScopeOf(p))'
<1>1. ScopeOf(v)' = ScopeOf(v)
  BY StoredScopes, ScopesKept DEF ScopeOf, RowsInv, Homed
<1>2. MayFlow(ScopeOf(v), scope)
  BY DEF ValidParents
<1> QED
  BY <1>1, <1>2 DEF MayFlow

\* Create inserts its version into the given scope and removes none.
LEMMA CreatedVersion ==
  ASSUME RowsInv, NEW p \in Proposals, NEW scope \in Scopes, NEW task \in Tasks \cup {NoTask},
         NEW parents \in SUBSET StoredVersions, NEW group \in KnownGroups, NEW at \in Recent,
         Create(p, scope, task, parents, group, at)
  PROVE  StoredVersions' = StoredVersions \cup {p} /\ ScopeOf(p)' = scope
<1>1. /\ StoredVersions' = StoredVersions \cup {p}
      /\ memories'[p] = NewMemory(scope, task)
      /\ versions'[p] = NewVersion(p, p, 1, at, group)
  BY CreateEffects
<1> QED
  BY <1>1 DEF ScopeOf, NewMemory, NewVersion

\* Supersede and Conflict insert their version into the scope of the memory and
\* remove none.
LEMMA EvolvedVersion ==
  ASSUME RowsInv, NEW p \in Proposals, NEW m \in Proposals, NEW current \in Proposals,
         NEW parents \in SUBSET StoredVersions, NEW group \in KnownGroups, NEW at \in Recent,
         \/ Supersede(p, m, current, parents, group, at)
         \/ Conflict(p, m, current, parents, group, at)
  PROVE  StoredVersions' = StoredVersions \cup {p} /\ ScopeOf(p)' = memories[m].scope
<1> USE DEF RowsInv
<1>1. CASE Supersede(p, m, current, parents, group, at)
  <2>1. Superseding(p, m, current, group, at)
    BY <1>1, SupersedeEffects
  <2> QED
    BY <2>1 DEF Superseding, ScopeOf, NewVersion
<1>2. CASE Conflict(p, m, current, parents, group, at)
  <2>1. Inserting(p)
    BY <1>2, ConflictEffects
  <2>2. memories' = [memories EXCEPT ![p] = NewMemory(memories[m].scope, memories[m].task)]
    BY <1>2 DEF Conflict
  <2>3. memories'[p].scope = memories[m].scope
    BY <2>2 DEF NewMemory, TypeOK
  <2> QED
    BY <2>1, <2>3 DEF Inserting, ScopeOf
<1> QED
  BY <1>1, <1>2

\* What has been applied once is not inserted again, and stays applied.
LEMMA NotRemade ==
  ASSUME RowsInv, [Next]_vars, NEW v \in Proposals, ~New(v)
  PROVE  ~New(v)' /\ (v \in StoredVersions' => v \in StoredVersions)
<1> USE DEF RowsInv, New, TypeOK
<1>1. ASSUME NEW p \in Proposals, NEW scope \in Scopes, NEW task \in Tasks \cup {NoTask},
             NEW parents \in SUBSET StoredVersions, NEW group \in KnownGroups, NEW at \in Recent,
             Create(p, scope, task, parents, group, at)
      PROVE  ~New(v)' /\ (v \in StoredVersions' => v \in StoredVersions)
  <2>1. operations' = [operations EXCEPT ![p] = p] /\ operations[p] = None
    BY <1>1 DEF Create
  <2>2. StoredVersions' = StoredVersions \cup {p}
    BY <1>1, CreatedVersion
  <2> QED
    BY <2>1, <2>2, NoneAssumption
<1>2. ASSUME NEW p \in Proposals, NEW m \in Proposals, NEW current \in Proposals,
             NEW parents \in SUBSET StoredVersions, NEW group \in KnownGroups, NEW at \in Recent,
             \/ Supersede(p, m, current, parents, group, at)
             \/ Conflict(p, m, current, parents, group, at)
      PROVE  ~New(v)' /\ (v \in StoredVersions' => v \in StoredVersions)
  <2>1. /\ operations[p] = None
        /\ \E x \in Proposals : operations' = [operations EXCEPT ![p] = x]
    BY <1>2 DEF Supersede, Conflict, MayEvolve
  <2>2. StoredVersions' = StoredVersions \cup {p}
    BY <1>2, EvolvedVersion
  <2> QED
    BY <2>1, <2>2, NoneAssumption
<1>3. ASSUME NEW p \in Proposals, NEW m \in Proposals, NEW current \in Proposals,
             Archive(p, m, current) \/ Forget(p, m, current)
      PROVE  ~New(v)' /\ (v \in StoredVersions' => v \in StoredVersions)
  <2>1. versions[current] # None
    BY <1>3, CurrentRows DEF Archive, Forget, ApplyState
  <2>2. operations' = [operations EXCEPT ![p] = m]
    BY <1>3 DEF Archive, Forget, ApplyState
  <2>3. versions'[v] # None => versions[v] # None
    BY <1>3, <2>1 DEF Archive, Forget, ApplyState
  <2> QED
    BY <2>2, <2>3, NoneAssumption DEF StoredVersions
<1>4. ASSUME NEW m \in Proposals, Purge(m)
      PROVE  ~New(v)' /\ (v \in StoredVersions' => v \in StoredVersions)
  BY <1>4 DEF Purge, PurgeCascade, PurgeMarkStale, VersionTree, StoredVersions
<1>5. ASSUME NEW at \in Recent, ExpireWorkingSets(at)
      PROVE  ~New(v)' /\ (v \in StoredVersions' => v \in StoredVersions)
  BY <1>5 DEF ExpireWorkingSets, StoredVersions
<1>6. ASSUME NEW u \in Proposals, Embed(u)
      PROVE  UNCHANGED <<operations, versions>>
  BY <1>6 DEF Embed, EmbedRead, EmbedWrite
<1>7. ASSUME NEW n, NEW t, ChangeWorkingSet(n, t)
      PROVE  UNCHANGED <<operations, versions>>
  BY <1>7 DEF ChangeWorkingSet, PutWorkingSet, SetWorkingGlobalRecall
<1>8. Tick \/ UNCHANGED vars => UNCHANGED <<operations, versions>>
  BY DEF Tick, vars
<1>9. UNCHANGED <<operations, versions>>
         => ~New(v)' /\ (v \in StoredVersions' => v \in StoredVersions)
  BY DEF StoredVersions
<1> QED
  BY <1>1, <1>2, <1>3, <1>4, <1>5, <1>6, <1>7, <1>8, <1>9
     DEF Next, Apply, Evolve, KeepWorkingSets

\* Edges stay flows between stored versions.
LEMMA EdgesStep == RowsInv /\ RowsInv' /\ EdgesFlow /\ [Next]_vars => EdgesFlow'
<1> SUFFICES ASSUME RowsInv, RowsInv', EdgesFlow, [Next]_vars
             PROVE  \A e \in dependencies' :
                       /\ e[1] \in StoredVersions' /\ e[2] \in StoredVersions'
                       /\ MayFlow(ScopeOf(e[1]), ScopeOf(e[2]))'
  BY DEF EdgesFlow, MayFlow
<1>1. ASSUME dependencies' \subseteq dependencies,
             \A e \in dependencies' : e[1] \in StoredVersions' /\ e[2] \in StoredVersions'
      PROVE  \A e \in dependencies' :
                /\ e[1] \in StoredVersions' /\ e[2] \in StoredVersions'
                /\ MayFlow(ScopeOf(e[1]), ScopeOf(e[2]))'
  BY <1>1, OldEdge
<1>2. ASSUME NEW p \in Proposals, NEW scope \in Scopes, NEW parents \in SUBSET StoredVersions,
             ValidParents(parents, scope),
             InsertEdgesAndIndex(p, parents),
             StoredVersions' = StoredVersions \cup {p}, ScopeOf(p)' = scope
      PROVE  \A e \in dependencies' :
                /\ e[1] \in StoredVersions' /\ e[2] \in StoredVersions'
                /\ MayFlow(ScopeOf(e[1]), ScopeOf(e[2]))'
  <2>1. \A e \in dependencies : e[1] \in StoredVersions' /\ e[2] \in StoredVersions'
    BY <1>2 DEF EdgesFlow
  <2>2. \A v \in parents : v \in StoredVersions' /\ MayFlow(ScopeOf(v), ScopeOf(p))'
    BY <1>2, NewEdge
  <2>3. \A e \in parents \X {p} :
           /\ e[1] \in StoredVersions' /\ e[2] \in StoredVersions'
           /\ MayFlow(ScopeOf(e[1]), ScopeOf(e[2]))'
    BY <1>2, <2>2
  <2> QED
    BY <1>2, <2>1, <2>3, OldEdge DEF InsertEdgesAndIndex
<1>3. ASSUME NEW p \in Proposals, NEW scope \in Scopes, NEW task \in Tasks \cup {NoTask},
             NEW parents \in SUBSET StoredVersions, NEW group \in KnownGroups, NEW at \in Recent,
             Create(p, scope, task, parents, group, at)
      PROVE  \A e \in dependencies' :
                /\ e[1] \in StoredVersions' /\ e[2] \in StoredVersions'
                /\ MayFlow(ScopeOf(e[1]), ScopeOf(e[2]))'
  BY <1>2, <1>3, CreatedVersion DEF Create
<1>4. ASSUME NEW p \in Proposals, NEW m \in Proposals, NEW current \in Proposals,
             NEW parents \in SUBSET StoredVersions, NEW group \in KnownGroups, NEW at \in Recent,
             \/ Supersede(p, m, current, parents, group, at)
             \/ Conflict(p, m, current, parents, group, at)
      PROVE  \A e \in dependencies' :
                /\ e[1] \in StoredVersions' /\ e[2] \in StoredVersions'
                /\ MayFlow(ScopeOf(e[1]), ScopeOf(e[2]))'
  <2>1. memories[m].scope \in Scopes
    BY <1>4, CurrentRows DEF Supersede, Conflict, MayEvolve, RowsInv, Memory
  <2>2. ValidParents(parents, memories[m].scope) /\ InsertEdgesAndIndex(p, parents)
    BY <1>4 DEF Supersede, Conflict, MayEvolve
  <2> QED
    BY <1>2, <1>4, <2>1, <2>2, EvolvedVersion
<1>5. ASSUME NEW p \in Proposals, NEW m \in Proposals, NEW current \in Proposals,
             Archive(p, m, current) \/ Forget(p, m, current)
      PROVE  dependencies' = dependencies /\ StoredVersions' = StoredVersions
  <2>1. /\ current \in Proposals /\ versions[current] \in MemoryVersion
        /\ versions[current] # None
    BY <1>5, CurrentRows DEF Archive, Forget, ApplyState, RowsInv
  <2>2. \A state \in VersionState : WithState(versions[current], state) # None
    BY <2>1, VersionRow, RowAssumption
  <2> QED
    BY <1>5, <2>1, <2>2 DEF Archive, Forget, ApplyState, StoredVersions, VersionState,
       RowsInv, TypeOK
<1>6. ASSUME NEW m \in Proposals, Purge(m)
      PROVE  /\ dependencies' \subseteq dependencies
             /\ \A e \in dependencies' : e[1] \in StoredVersions' /\ e[2] \in StoredVersions'
  <2>1. \A v \in VersionTree(m) : MarkStale(versions[v]) # None
    BY StoredRows, VersionRow, RowAssumption DEF VersionTree, RowsInv
  <2>2. CASE PurgeCascade(m)
    BY <2>2 DEF PurgeCascade, Remove, EdgesFlow, StoredVersions
  <2>3. CASE PurgeMarkStale(m)
    BY <2>1, <2>3 DEF PurgeMarkStale, Remove, Removed, VersionsOf, EdgesFlow, StoredVersions
  <2> QED
    BY <1>6, <2>2, <2>3 DEF Purge
<1>7. ASSUME NEW at \in Recent, ExpireWorkingSets(at)
      PROVE  dependencies' = dependencies /\ StoredVersions' = StoredVersions
  <2>1. \A v \in StoredVersions : WithState(versions[v], "archived") # None
    BY StoredRows, VersionRow, RowAssumption DEF VersionState, RowsInv
  <2> QED
    BY <1>7, <2>1 DEF ExpireWorkingSets, StoredVersions
<1>8. ASSUME NEW v \in Proposals, Embed(v)
      PROVE  UNCHANGED <<dependencies, versions>>
  BY <1>8 DEF Embed, EmbedRead, EmbedWrite
<1>9. ASSUME NEW n, NEW t, ChangeWorkingSet(n, t)
      PROVE  UNCHANGED <<dependencies, versions>>
  BY <1>9 DEF ChangeWorkingSet, PutWorkingSet, SetWorkingGlobalRecall
<1>10. Tick \/ UNCHANGED vars => UNCHANGED <<dependencies, versions>>
  BY DEF Tick, vars
<1>11. ASSUME dependencies' = dependencies, StoredVersions' = StoredVersions
       PROVE  \A e \in dependencies' :
                 /\ e[1] \in StoredVersions' /\ e[2] \in StoredVersions'
                 /\ MayFlow(ScopeOf(e[1]), ScopeOf(e[2]))'
  BY <1>1, <1>11 DEF EdgesFlow
<1>12. UNCHANGED <<dependencies, versions>>
          => dependencies' = dependencies /\ StoredVersions' = StoredVersions
  BY DEF StoredVersions
<1> QED
  BY <1>1, <1>3, <1>4, <1>5, <1>6, <1>7, <1>8, <1>9, <1>10, <1>11, <1>12
     DEF Next, Apply, Evolve, KeepWorkingSets

\* The edges are flows in every reachable state.
LEMMA EdgesAlways == Spec => [](RowsInv /\ EdgesFlow)
<1>1. Init => EdgesFlow
  BY DEF Init, EdgesFlow
<1> QED
  BY <1>1, RowsAlways, EdgesStep, PTL DEF Spec

\* Over any number of derivations, content never leaves its namespace and
\* subject, private content never reaches another owner or visibility, and
\* shared content never becomes public, although each apply operation checks
\* only the scopes of the direct parents.
THEOREM ContentStays == Spec => []DerivedContentStays
<1>1. RowsInv /\ EdgesFlow => DerivedContentStays
  BY PathsFlow DEF DerivedContentStays, MayFlow
<1> QED
  BY <1>1, EdgesAlways, PTL
-------------------------------------------------------------------------------
\* What is reached from a set of versions is closed under the edges, and lies in
\* every closed set that holds them.
LEMMA TreeIsClosed ==
  ASSUME NEW edges \in SUBSET (Proposals \X Proposals), NEW vs \in SUBSET Proposals
  PROVE  /\ vs \subseteq Tree(edges, vs) /\ ClosedUnder(edges, Tree(edges, vs))
         /\ \A T \in SUBSET Proposals :
               vs \subseteq T /\ ClosedUnder(edges, T) => Tree(edges, vs) \subseteq T
<1>1. ASSUME NEW e \in edges, e[1] \in Tree(edges, vs)
      PROVE  e[2] \in Tree(edges, vs)
  <2>1. e[2] \in Proposals
    OBVIOUS
  <2>2. ASSUME NEW T \in SUBSET Proposals, vs \subseteq T, ClosedUnder(edges, T)
        PROVE  e[2] \in T
    <3>1. e[1] \in T
      BY <1>1, <2>2 DEF Tree
    <3> QED
      BY <2>2, <3>1 DEF ClosedUnder
  <2> QED
    BY <2>1, <2>2 DEF Tree
<1>2. vs \subseteq Tree(edges, vs)
  BY DEF Tree
<1>3. \A T \in SUBSET Proposals :
         vs \subseteq T /\ ClosedUnder(edges, T) => Tree(edges, vs) \subseteq T
  BY DEF Tree
<1> QED
  BY <1>1, <1>2, <1>3 DEF ClosedUnder

\* The edges that a supersede inserts lead out of what was derived from the
\* version it closes, so nothing new is derived from that version.
LEMMA DerivedStays ==
  ASSUME TypeOK, NEW p \in Proposals, NEW current \in Proposals,
         NEW parents \in SUBSET Proposals, Acyclic(parents, current),
         dependencies' = dependencies \cup (parents \X {p})
  PROVE  Tree(dependencies', Children(dependencies', current)) \subseteq Descendants(current)
<1> DEFINE T == Descendants(current)
<1>1. T \in SUBSET Proposals
  BY DEF Descendants, Tree
<1>2. /\ Children(dependencies, current) \subseteq T /\ ClosedUnder(dependencies, T)
  BY TreeIsClosed DEF Descendants, Children, TypeOK
<1>3. parents \cap T = {} /\ current \notin parents
  BY DEF Acyclic
<1> HIDE DEF T
<1>4. Children(dependencies', current) = Children(dependencies, current)
  BY <1>3 DEF Children
<1>5. ClosedUnder(dependencies', T)
  BY <1>2, <1>3 DEF ClosedUnder
<1>6. Tree(dependencies', Children(dependencies', current)) \subseteq T
  BY <1>1, <1>2, <1>4, <1>5 DEF Tree
<1> QED
  BY <1>6 DEF T

\* A supersede leaves nothing current that is derived from what it closes.
LEMMA SupersedeMarks ==
  ASSUME RowsInv, EdgesFlow,
         NEW p \in Proposals, NEW m \in Proposals, NEW current \in Proposals,
         NEW parents \in SUBSET StoredVersions, NEW group \in KnownGroups,
         NEW at \in Recent, Supersede(p, m, current, parents, group, at)
  PROVE  \A d \in Tree(dependencies', Children(dependencies', current)) :
            versions'[d].state # "current"
<1> SUFFICES ASSUME NEW d \in Tree(dependencies', Children(dependencies', current))
             PROVE  versions'[d].state # "current"
  OBVIOUS
<1>1. Superseding(p, m, current, group, at)
  BY SupersedeEffects
<1>2. /\ Acyclic(parents, current)
      /\ dependencies' = dependencies \cup (parents \X {p})
  BY DEF Supersede, MayEvolve, InsertEdgesAndIndex
<1>3. d \in Descendants(current)
  BY <1>2, DerivedStays DEF RowsInv, StoredVersions
<1>4. d \in StoredVersions
  BY <1>1, <1>3, PathsFlow DEF Superseding
<1>5. d # p
  BY <1>1, <1>4 DEF Superseding, StoredVersions
<1>6. CASE d = current
  BY <1>1, <1>6 DEF Superseding
<1>7. CASE d # current
  <2>1. versions'[d] = MarkStale(versions[d])
    BY <1>3, <1>4, <1>5, <1>7 DEF Supersede, StaleBelow, StoredVersions
  <2> QED
    BY <2>1 DEF MarkStale, WithState
<1> QED
  BY <1>6, <1>7

\* Supersede is the only step that supersedes, and only the current version.
LEMMA OnlySupersede ==
  ASSUME RowsInv, [Next]_vars, NEW v \in StoredVersions,
         versions[v].state # "superseded", versions'[v] # None,
         versions'[v].state = "superseded"
  PROVE  \E p, m \in Proposals, parents \in SUBSET StoredVersions,
            group \in KnownGroups, at \in Recent :
            Supersede(p, m, v, parents, group, at)
<1>0. v \in Proposals
  BY DEF StoredVersions
<1>1. ASSUME NEW p \in Proposals, NEW scope \in Scopes, NEW task \in Tasks \cup {NoTask},
             NEW parents \in SUBSET StoredVersions, NEW group \in KnownGroups,
             NEW at \in Recent, Create(p, scope, task, parents, group, at)
      PROVE  FALSE
  <2>1. versions'[v] = versions[v]
    BY <1>1, CreateEffects
  <2> QED
    BY <2>1
<1>2. ASSUME NEW p \in Proposals, NEW m \in Proposals, NEW current \in Proposals,
             NEW parents \in SUBSET StoredVersions, NEW group \in KnownGroups,
             NEW at \in Recent, Supersede(p, m, current, parents, group, at)
      PROVE  v = current
  <2>1. Superseding(p, m, current, group, at)
    BY <1>2, SupersedeEffects
  <2> QED
    BY <2>1 DEF Superseding, KeptOrStale
<1>3. ASSUME NEW p \in Proposals, NEW m \in Proposals, NEW current \in Proposals,
             NEW parents \in SUBSET StoredVersions, NEW group \in KnownGroups,
             NEW at \in Recent, Conflict(p, m, current, parents, group, at)
      PROVE  FALSE
  <2>1. PICK g : versions' = [versions EXCEPT ![current] = Grouped(@, g),
                                              ![p] = NewVersion(p, p, 1, at, g)]
    BY <1>3 DEF Conflict
  <2>2. v # p
    BY <1>3, ConflictEffects DEF Inserting
  <2>3. versions'[v].state = versions[v].state
    BY <1>0, <2>1, <2>2 DEF Grouped, RowsInv, TypeOK
  <2> QED
    BY <2>3
<1>4. ASSUME NEW p \in Proposals, NEW m \in Proposals, NEW current \in Proposals,
             Archive(p, m, current) \/ Forget(p, m, current)
      PROVE  FALSE
  BY <1>0, <1>4 DEF Archive, Forget, ApplyState, WithState, RowsInv, TypeOK
<1>5. ASSUME NEW m \in Proposals, Purge(m)
      PROVE  FALSE
  BY <1>0, <1>5 DEF Purge, PurgeCascade, PurgeMarkStale, MarkStale, WithState
<1>6. ASSUME NEW at, ExpireWorkingSets(at)
      PROVE  FALSE
  BY <1>0, <1>6 DEF ExpireWorkingSets, WithState
<1>7. ASSUME NEW u \in Proposals, Embed(u)
      PROVE  FALSE
  BY <1>7 DEF Embed, EmbedRead, EmbedWrite
<1>8. ASSUME NEW n, NEW t, ChangeWorkingSet(n, t)
      PROVE  FALSE
  BY <1>8 DEF ChangeWorkingSet, PutWorkingSet, SetWorkingGlobalRecall
<1>9. ~(Tick \/ UNCHANGED vars)
  BY DEF Tick, vars
<1> QED
  BY <1>1, <1>2, <1>3, <1>4, <1>5, <1>6, <1>7, <1>8, <1>9
     DEF Next, Apply, Evolve, KeepWorkingSets

\* A purge in either mode leaves nothing current below its target.
LEMMA PurgeMarks ==
  ASSUME RowsInv, NEW m \in Proposals, Purge(m)
  PROVE  /\ memories'[m] = None /\ receipts' = receipts \cup {m}
         /\ \A d \in Tree(dependencies, VersionsOf(m)) :
               versions'[d] # None => versions'[d].state # "current"
<1>1. CASE PurgeCascade(m)
  <2>1. \A d \in VersionTree(m) : versions'[d] = None
    BY <1>1 DEF PurgeCascade, Removed, TreeMemories, VersionTree, StoredVersions
  <2>2. \A d \in Proposals \ StoredVersions : versions'[d] = None
    BY <1>1 DEF PurgeCascade, StoredVersions
  <2>3. \A d \in Tree(dependencies, VersionsOf(m)) : versions'[d] = None
    BY <2>1, <2>2 DEF VersionTree, Tree
  <2>4. m \in TreeMemories(m)
    <3>1. PICK v \in VersionsOf(m) : IsCurrent(v, m)
      BY <1>1, AgreementOfAll DEF PurgeCascade, RowsInv, Agreement
    <3>2. v \in Tree(dependencies, VersionsOf(m))
      BY <3>1 DEF Tree, VersionsOf, StoredVersions
    <3>3. v \in VersionTree(m) /\ versions[v].memory = m
      BY <3>1, <3>2 DEF VersionTree, VersionsOf
    <3> QED
      BY <3>3 DEF TreeMemories
  <2> QED
    BY <1>1, <2>3, <2>4 DEF PurgeCascade, Remove
<1>2. CASE PurgeMarkStale(m)
  <2>1. \A d \in VersionTree(m) :
           versions'[d] = None \/ versions'[d] = MarkStale(versions[d])
    BY <1>2 DEF PurgeMarkStale, VersionTree, StoredVersions
  <2>2. ASSUME NEW d \in VersionTree(m), versions'[d] # None
        PROVE  versions'[d].state # "current"
    <3>1. versions'[d] = MarkStale(versions[d])
      BY <2>1, <2>2
    <3> QED
      BY <3>1 DEF MarkStale, WithState
  <2>3. \A d \in Proposals \ StoredVersions : versions'[d] = None
    BY <1>2 DEF PurgeMarkStale, VersionTree, StoredVersions
  <2>4. \A d \in Tree(dependencies, VersionsOf(m)) :
           versions'[d] # None => versions'[d].state # "current"
    BY <2>2, <2>3 DEF VersionTree, Tree
  <2> QED
    BY <1>2, <2>4 DEF PurgeMarkStale, Remove
<1> QED
  BY <1>1, <1>2 DEF Purge

\* A receipt is written by a purge of the memory it names.
LEMMA OnlyPurge ==
  ASSUME [Next]_vars, NEW m \in receipts' \ receipts
  PROVE  Purge(m)
<1>1. ASSUME NEW p \in Proposals, Apply(p)
      PROVE  receipts' = receipts
  BY <1>1 DEF Apply, Evolve, Create, Supersede, Conflict, Archive, Forget, ApplyState
<1>2. ASSUME NEW x \in Proposals, Purge(x)
      PROVE  receipts' = receipts \cup {x}
  BY <1>2 DEF Purge, PurgeCascade, PurgeMarkStale, Remove
<1>3. ASSUME NEW v \in Proposals, Embed(v)
      PROVE  receipts' = receipts
  BY <1>3 DEF Embed, EmbedRead, EmbedWrite
<1>4. KeepWorkingSets \/ Tick \/ UNCHANGED vars => receipts' = receipts
  BY DEF KeepWorkingSets, ChangeWorkingSet, PutWorkingSet, SetWorkingGlobalRecall,
         ExpireWorkingSets, Tick, vars
<1> QED
  BY <1>1, <1>2, <1>3, <1>4 DEF Next

\* What a supersede or a purge took the ground from, over any number of
\* derivations, is never again presented as current by the same step: the
\* transaction that closes or removes a version marks everything below it.
THEOREM StaleIsMarked == Spec => NotCurrentBelow
<1>1. RowsInv /\ EdgesFlow /\ [Next]_vars =>
         [\A v \in StoredVersions :
             versions[v].state # "superseded" /\ versions'[v] # None
             /\ versions'[v].state = "superseded" =>
                \A d \in Tree(dependencies', Children(dependencies', v)) :
                   versions'[d].state # "current"]_vars
  BY OnlySupersede, SupersedeMarks DEF StoredVersions
<1>2. RowsInv /\ RowsInv' /\ [Next]_vars =>
         [\A m \in receipts' \ receipts :
             /\ memories'[m] = None
             /\ \A d \in Tree(dependencies, VersionsOf(m)) :
                   versions'[d] # None => versions'[d].state # "current"]_vars
  <2> SUFFICES ASSUME RowsInv, RowsInv', [Next]_vars, NEW m \in receipts' \ receipts
               PROVE  /\ memories'[m] = None
                      /\ \A d \in Tree(dependencies, VersionsOf(m)) :
                            versions'[d] # None => versions'[d].state # "current"
    OBVIOUS
  <2>1. m \in Proposals
    BY DEF RowsInv, TypeOK
  <2> QED
    BY <2>1, OnlyPurge, PurgeMarks
<1> QED
  BY <1>1, <1>2, EdgesAlways, PTL
     DEF Spec, NotCurrentBelow, SupersededNotCurrentBelow, PurgedNotCurrentBelow
-------------------------------------------------------------------------------
\* No foreign key removes a row of memory_fts: the statements themselves keep
\* both indexes to the versions that are stored.
IndexesStored == fts \cup embeddings \subseteq StoredVersions

\* What SearchIndexAgrees says of one memory.
IndexOf(m) ==
    /\ memories[m].state = "active" => VersionsOf(m) \subseteq fts
    /\ memories[m].state = "forgotten" => VersionsOf(m) \cap fts = {}

\* A new memory is indexed; so is a new version, and only active memories have one.
LEMMA InsertIndexes ==
  ASSUME RowsInv, RowsInv', IndexesStored, SearchIndexAgrees, NEW p \in Proposals,
         NEW parents, InsertEdgesAndIndex(p, parents), embeddings' = embeddings,
         \/ Inserting(p) /\ memories'[p].state = "active"
         \/ \E m, current \in Proposals, group \in KnownGroups, at \in Recent :
               Superseding(p, m, current, group, at)
  PROVE  IndexesStored' /\ \A x \in StoredMemories' : IndexOf(x)'
<1>1. fts' = fts \cup {p}
  BY DEF InsertEdgesAndIndex
<1>2. ASSUME StoredVersions' = StoredVersions \cup {p}
      PROVE  IndexesStored'
  BY <1>1, <1>2 DEF IndexesStored
<1>3. ASSUME NEW x \in StoredMemories, memories'[x].state = memories[x].state,
             VersionsOf(x)' = VersionsOf(x), p \notin VersionsOf(x)
      PROVE  IndexOf(x)'
  BY <1>1, <1>3 DEF SearchIndexAgrees, IndexOf
<1>4. CASE Inserting(p) /\ memories'[p].state = "active"
  <2>1. VersionsOf(p)' = {p}
    BY <1>4 DEF Inserting, VersionsOf, SamePlace, RowsInv, Homed, StoredMemories
  <2>2. IndexOf(p)'
    BY <1>1, <1>4, <2>1 DEF IndexOf
  <2>3. ASSUME NEW x \in StoredMemories PROVE IndexOf(x)'
    <3>1. x # p /\ memories'[x] = memories[x]
      BY <1>4 DEF Inserting
    <3>2. VersionsOf(x)' = VersionsOf(x) /\ p \notin VersionsOf(x)
      BY <1>4, <3>1 DEF Inserting, VersionsOf, SamePlace
    <3> QED
      BY <1>3, <3>1, <3>2
  <2> QED
    BY <1>2, <1>4, <2>2, <2>3 DEF Inserting
<1>5. ASSUME NEW m \in Proposals, NEW current \in Proposals, NEW group, NEW at,
             Superseding(p, m, current, group, at)
      PROVE  IndexesStored' /\ \A x \in StoredMemories' : IndexOf(x)'
  <2>1. /\ StoredVersions' = StoredVersions \cup {p} /\ StoredMemories' = StoredMemories
        /\ \A v \in StoredVersions : v # p /\ versions'[v].memory = versions[v].memory
        /\ versions'[p].memory = m
    BY <1>5 DEF Superseding, NewVersion, KeptOrStale, SamePlace
  <2>2. ASSUME NEW x \in StoredMemories PROVE IndexOf(x)'
    <3>1. CASE x = m
      <4>1. VersionsOf(m) \subseteq fts
        BY <1>5 DEF Superseding, SearchIndexAgrees
      <4>2. VersionsOf(m)' \subseteq fts'
        BY <1>1, <2>1, <4>1 DEF VersionsOf
      <4>3. memories'[m].state = "active"
        BY <1>5 DEF Superseding
      <4> QED
        BY <3>1, <4>2, <4>3 DEF IndexOf
    <3>2. CASE x # m
      <4>1. memories'[x] = memories[x]
        BY <1>5, <3>2 DEF Superseding, StoredMemories
      <4>2. VersionsOf(x)' = VersionsOf(x) /\ p \notin VersionsOf(x)
        BY <2>1, <3>2 DEF VersionsOf
      <4> QED
        BY <1>3, <4>1, <4>2
    <3> QED
      BY <3>1, <3>2
  <2> QED
    BY <1>2, <2>1, <2>2
<1> QED
  BY <1>4, <1>5

\* Every step keeps the indexes to stored versions and to the state of memories.
LEMMA IndexStep ==
  RowsInv /\ RowsInv' /\ IndexesStored /\ SearchIndexAgrees /\ [Next]_vars
     => IndexesStored' /\ SearchIndexAgrees'
<1> SUFFICES ASSUME RowsInv, RowsInv', IndexesStored, SearchIndexAgrees, [Next]_vars
             PROVE  IndexesStored' /\ \A x \in StoredMemories' : IndexOf(x)'
  BY DEF SearchIndexAgrees, IndexOf
<1>1. ASSUME NEW x \in StoredMemories, VersionsOf(x)' = VersionsOf(x), fts' = fts,
             memories'[x].state \in {memories[x].state, "archived"}
      PROVE  IndexOf(x)'
  BY <1>1 DEF SearchIndexAgrees, IndexOf
<1>2. ASSUME NEW p \in Proposals, NEW scope \in Scopes, NEW task \in Tasks \cup {NoTask},
             NEW parents \in SUBSET StoredVersions, NEW group \in KnownGroups,
             NEW at \in Recent, Create(p, scope, task, parents, group, at)
      PROVE  IndexesStored' /\ \A x \in StoredMemories' : IndexOf(x)'
  <2>1. /\ memories[p] = None /\ versions[p] = None
        /\ StoredMemories' = StoredMemories \cup {p}
        /\ StoredVersions' = StoredVersions \cup {p}
        /\ \A x \in StoredMemories : x # p /\ memories'[x] = memories[x]
        /\ \A v \in StoredVersions : v # p /\ versions'[v] = versions[v]
        /\ memories'[p] = NewMemory(scope, task)
        /\ versions'[p] = NewVersion(p, p, 1, at, group)
    BY <1>2, CreateEffects
  <2>2. Inserting(p) /\ memories'[p].state = "active"
    BY <2>1 DEF Inserting, SamePlace, NewMemory, NewVersion
  <2>3. InsertEdgesAndIndex(p, parents) /\ embeddings' = embeddings
    BY <1>2 DEF Create
  <2> QED
    BY <2>2, <2>3, InsertIndexes
<1>3. ASSUME NEW p \in Proposals, NEW m \in Proposals, NEW current \in Proposals,
             NEW parents \in SUBSET StoredVersions, NEW group \in KnownGroups,
             NEW at \in Recent, Supersede(p, m, current, parents, group, at)
      PROVE  IndexesStored' /\ \A x \in StoredMemories' : IndexOf(x)'
  <2>1. Superseding(p, m, current, group, at)
    BY <1>3, SupersedeEffects
  <2>2. InsertEdgesAndIndex(p, parents) /\ embeddings' = embeddings
    BY <1>3 DEF Supersede
  <2> QED
    BY <2>1, <2>2, InsertIndexes
<1>4. ASSUME NEW p \in Proposals, NEW m \in Proposals, NEW current \in Proposals,
             NEW parents \in SUBSET StoredVersions, NEW group \in KnownGroups,
             NEW at \in Recent, Conflict(p, m, current, parents, group, at)
      PROVE  IndexesStored' /\ \A x \in StoredMemories' : IndexOf(x)'
  <2>1. Inserting(p)
    BY <1>4, ConflictEffects
  <2>2. memories' = [memories EXCEPT ![p] = NewMemory(memories[m].scope, memories[m].task)]
    BY <1>4 DEF Conflict
  <2>3. memories'[p].state = "active"
    BY <2>2 DEF NewMemory, RowsInv, TypeOK
  <2>4. InsertEdgesAndIndex(p, parents) /\ embeddings' = embeddings
    BY <1>4 DEF Conflict
  <2> QED
    BY <2>1, <2>3, <2>4, InsertIndexes
<1>5. ASSUME NEW p \in Proposals, NEW m \in Proposals, NEW current \in Proposals,
             Archive(p, m, current) \/ Forget(p, m, current)
      PROVE  IndexesStored' /\ \A x \in StoredMemories' : IndexOf(x)'
  <2>1. PICK state \in {"archived", "forgotten"} :
           /\ ApplyState(p, m, current, state)
           /\ \/ /\ state = "archived" /\ fts' = fts /\ embeddings' = embeddings
              \/ /\ state = "forgotten" /\ fts' = fts \ VersionsOf(m)
                 /\ embeddings' \subseteq embeddings
    BY <1>5 DEF Archive, Forget
  <2>2. RowsStay
    BY <2>1, StateEffects
  <2>3. StoredVersions' = StoredVersions
    <3>1. current \in StoredVersions
      BY <2>1 DEF ApplyState, IsCurrent, VersionsOf
    <3>2. WithState(versions[current], state) # None
      BY <3>1, StoredRows, VersionRow, RowAssumption DEF RowsInv, VersionState
    <3> QED
      BY <2>1, <3>1, <3>2 DEF ApplyState, StoredVersions, RowsInv, TypeOK
  <2>4. IndexesStored'
    BY <2>1, <2>3 DEF IndexesStored
  <2>5. /\ memories'[m].state = state
        /\ \A x \in StoredMemories' \ {m} : memories'[x] = memories[x]
    BY <2>1 DEF ApplyState, InState, StoredMemories, RowsInv, TypeOK
  <2>6. ASSUME NEW x \in StoredMemories' PROVE IndexOf(x)'
    <3>1. x \in StoredMemories /\ VersionsOf(x)' = VersionsOf(x)
      BY <2>2 DEF RowsStay
    <3>2. CASE state = "archived"
      BY <1>1, <2>1, <2>5, <3>1, <3>2
    <3>3. CASE state = "forgotten" /\ x = m
      BY <2>1, <2>5, <3>1, <3>3 DEF IndexOf
    <3>4. CASE state = "forgotten" /\ x # m
      <4>1. VersionsOf(x) \cap VersionsOf(m) = {} /\ fts' = fts \ VersionsOf(m)
        BY <2>1, <3>4 DEF VersionsOf
      <4> QED
        BY <2>5, <3>1, <3>4, <4>1 DEF SearchIndexAgrees, IndexOf
    <3> QED
      BY <3>2, <3>3, <3>4
  <2> QED
    BY <2>4, <2>6
<1>6. ASSUME NEW m \in Proposals, Purge(m)
      PROVE  IndexesStored' /\ \A x \in StoredMemories' : IndexOf(x)'
  <2>1. PICK ms \in SUBSET Proposals :
           /\ Remove(m, ms)
           /\ \A v \in Removed(ms) : versions'[v] = None
           /\ \A v \in Proposals \ Removed(ms) :
                 \/ versions'[v] = versions[v]
                 \/ v \in StoredVersions /\ versions'[v] = MarkStale(versions[v])
    BY <1>6, PurgedRows
  <2>2. /\ fts' = fts \ Removed(ms) /\ embeddings' = embeddings \ Removed(ms)
        /\ \A x \in StoredMemories' : x \notin ms /\ memories'[x] = memories[x]
    BY <2>1 DEF Remove, StoredMemories
  <2>3. \A v \in StoredVersions \ Removed(ms) : v \in StoredVersions'
    BY <2>1, MarkedRow DEF RowsInv, StoredVersions, KeptOrStale
  <2>4. IndexesStored'
    BY <2>2, <2>3 DEF IndexesStored
  <2>5. ASSUME NEW x \in StoredMemories' PROVE IndexOf(x)'
    <3>1. x \in StoredMemories /\ VersionsOf(x)' = VersionsOf(x)
      BY <1>6, PurgeEffects DEF RowsStay
    <3>2. VersionsOf(x) \cap Removed(ms) = {}
      BY <2>2 DEF VersionsOf, Removed
    <3> QED
      BY <2>2, <3>1, <3>2 DEF SearchIndexAgrees, IndexOf
  <2> QED
    BY <2>4, <2>5
<1>7. ASSUME NEW at \in Recent, ExpireWorkingSets(at)
      PROVE  IndexesStored' /\ \A x \in StoredMemories' : IndexOf(x)'
  <2>1. RowsStay /\ fts' = fts /\ embeddings' = embeddings
    BY <1>7, ExpireEffects DEF ExpireWorkingSets
  <2>2. \A v \in StoredVersions : WithState(versions[v], "archived") # None
    BY StoredRows, VersionRow, RowAssumption DEF RowsInv, VersionState
  <2>3. StoredVersions' = StoredVersions
    BY <1>7, <2>2 DEF ExpireWorkingSets, StoredVersions
  <2>4. \A x \in StoredMemories' : memories'[x].state \in {memories[x].state, "archived"}
    BY <1>7 DEF ExpireWorkingSets, InState, StoredMemories
  <2> QED
    BY <1>1, <2>1, <2>3, <2>4 DEF RowsStay, IndexesStored
<1>8. ASSUME NEW v \in Proposals, Embed(v)
      PROVE  /\ UNCHANGED <<memories, versions, fts>>
             /\ embeddings' \subseteq embeddings \cup StoredVersions
  BY <1>8 DEF Embed, EmbedRead, EmbedWrite
<1>9. ASSUME NEW n, NEW t, ChangeWorkingSet(n, t)
      PROVE  UNCHANGED <<memories, versions, fts, embeddings>>
  BY <1>9 DEF ChangeWorkingSet, PutWorkingSet, SetWorkingGlobalRecall
<1>10. Tick \/ UNCHANGED vars => UNCHANGED <<memories, versions, fts, embeddings>>
  BY DEF Tick, vars
<1>11. ASSUME UNCHANGED <<memories, versions, fts>>,
              embeddings' \subseteq embeddings \cup StoredVersions
       PROVE  IndexesStored' /\ \A x \in StoredMemories' : IndexOf(x)'
  <2>1. StoredVersions' = StoredVersions /\ StoredMemories' = StoredMemories
    BY <1>11 DEF StoredVersions, StoredMemories
  <2>2. \A x : VersionsOf(x)' = VersionsOf(x)
    BY <1>11, <2>1 DEF VersionsOf
  <2> QED
    BY <1>1, <1>11, <2>1, <2>2 DEF IndexesStored
<1> QED
  BY <1>2, <1>3, <1>4, <1>5, <1>6, <1>7, <1>8, <1>9, <1>10, <1>11
     DEF Next, Apply, Evolve, KeepWorkingSets

\* The indexes are sound in every reachable state.
LEMMA IndexAlways == Spec => [](IndexesStored /\ SearchIndexAgrees)
<1>1. Init => IndexesStored /\ SearchIndexAgrees
  BY DEF Init, IndexesStored, SearchIndexAgrees, StoredMemories
<1> QED
  BY <1>1, RowsAlways, IndexStep, PTL DEF Spec

\* The lexical index shows all of an active memory and nothing of a forgotten one.
THEOREM IndexAgrees == Spec => []SearchIndexAgrees
  BY IndexAlways, PTL

\* No version outlives its memory, no edge and no index entry outlives a version,
\* although only some of them go by a foreign key and a vector is written by a
\* statement of its own, long after the version was read.
THEOREM NothingIsOrphaned == Spec => []NoOrphans
<1>1. RowsInv /\ EdgesFlow /\ IndexesStored => NoOrphans
  BY DEF RowsInv, Homed, EdgesFlow, IndexesStored, NoOrphans
<1> QED
  BY <1>1, EdgesAlways, IndexAlways, PTL
===============================================================================
