---------------------------- MODULE PortableProofs -----------------------------
(*****************************************************************************)
(* Theorems about Portable: what a file of the first store is, and what the  *)
(* second store is made of, for every value of the constants.                *)
(*****************************************************************************)
EXTENDS Portable, LifecycleProofs

\* Exports only read the first store, and imports never touch it: what happens
\* there is a behaviour of Lifecycle, whose theorems hold here too.
THEOREM FirstStoreKept == PortableSpec => Spec
<1>1. PortableInit => Init
  BY DEF PortableInit
<1>2. [PortableNext]_portableVars => [Next]_vars
  BY DEF PortableNext, portableVars, ExportSubject, ImportSubject, Look, Backup, Insert,
         GiveUp, Capture, PurgeTarget
<1> QED
  BY <1>1, <1>2, PTL DEF PortableSpec, Spec
-------------------------------------------------------------------------------
(* Sound tables.                                                             *)

\* The versions of memory m in a table of versions.
Of(vs, m) == {v \in Proposals : vs[v] # None /\ vs[v].memory = m}

\* What Lifecycle promises of a memory, said of any two tables: its first
\* version has its name, one version is current and shows its state, and its
\* history has no gap.
SoundMemory(ms, vs, m) ==
    /\ m \in Of(vs, m)
    /\ \E v \in Of(vs, m) :
          /\ vs[v].number = ms[m].current_version
          /\ IF ms[m].state = "active" THEN vs[v].state \in {"current", "stale"}
             ELSE vs[v].state = ms[m].state
          /\ \A u \in Of(vs, m) \ {v} :
                vs[u].number < vs[v].number /\ vs[u].state = "superseded"
    /\ \A v \in Of(vs, m) :
          IF vs[v].number = ms[m].current_version THEN vs[v].system_to = NoTime
          ELSE \E next \in Of(vs, m) :
                  /\ vs[next].number = vs[v].number + 1
                  /\ vs[next].system_from = vs[v].system_to
                  /\ vs[v].system_from < vs[v].system_to

SoundTables(ms, vs) ==
    /\ \A v \in Has(vs) : vs[v].memory \in Has(ms)
    /\ \A m \in Has(ms) : SoundMemory(ms, vs, m)

\* Only what is stored of the memory matters for it.
LEMMA SoundnessIsLocal ==
  ASSUME NEW ms, NEW vs, NEW ms2, NEW vs2, NEW m, SoundMemory(ms, vs, m),
         ms2[m] = ms[m], Of(vs2, m) = Of(vs, m), \A v \in Of(vs, m) : vs2[v] = vs[v]
  PROVE  SoundMemory(ms2, vs2, m)
<1> DEFINE O == Of(vs, m)
<1>1. Of(vs2, m) = O /\ \A v \in O : vs2[v] = vs[v]
  OBVIOUS
<1>2. m \in O
  BY DEF SoundMemory
<1>3. PICK v \in O :
         /\ vs[v].number = ms[m].current_version
         /\ IF ms[m].state = "active" THEN vs[v].state \in {"current", "stale"}
            ELSE vs[v].state = ms[m].state
         /\ \A u \in O \ {v} : vs[u].number < vs[v].number /\ vs[u].state = "superseded"
  BY DEF SoundMemory
<1>4. \A u \in O :
         IF vs[u].number = ms[m].current_version THEN vs[u].system_to = NoTime
         ELSE \E next \in O :
                 /\ vs[next].number = vs[u].number + 1
                 /\ vs[next].system_from = vs[u].system_to
                 /\ vs[u].system_from < vs[u].system_to
  BY DEF SoundMemory
<1> HIDE DEF O
<1>5. \E w \in O :
         /\ vs2[w].number = ms2[m].current_version
         /\ IF ms2[m].state = "active" THEN vs2[w].state \in {"current", "stale"}
            ELSE vs2[w].state = ms2[m].state
         /\ \A u \in O \ {w} : vs2[u].number < vs2[w].number /\ vs2[u].state = "superseded"
  BY <1>1, <1>3
<1>6. \A u \in O :
         IF vs2[u].number = ms2[m].current_version THEN vs2[u].system_to = NoTime
         ELSE \E next \in O :
                 /\ vs2[next].number = vs2[u].number + 1
                 /\ vs2[next].system_from = vs2[u].system_to
                 /\ vs2[u].system_from < vs2[u].system_to
  BY <1>1, <1>4
<1> QED BY <1>1, <1>2, <1>5, <1>6 DEF SoundMemory

\* A memory is named after the proposal that made it and its first version, which
\* stays as long as the memory does.
Named == \A m \in StoredMemories : m \in VersionsOf(m)

\* No step takes the first version from a memory.
LEMMA NamedStep == RowsInv /\ Named /\ [Next]_vars => Named'
<1> SUFFICES ASSUME RowsInv, Named, [Next]_vars, NEW m \in StoredMemories'
             PROVE  m \in StoredVersions' /\ versions'[m].memory = m
  BY DEF Named, VersionsOf
<1>1. CASE RowsStay
  <2>1. m \in StoredMemories /\ VersionsOf(m)' = VersionsOf(m)
    BY <1>1 DEF RowsStay
  <2> QED BY <2>1 DEF Named, VersionsOf
<1>2. ASSUME NEW p \in Proposals, Inserting(p)
      PROVE  m \in StoredVersions' /\ versions'[m].memory = m
  <2>1. CASE m = p
    BY <1>2, <2>1 DEF Inserting
  <2>2. CASE m # p
    BY <1>2, <2>2 DEF Inserting, SamePlace, Named, VersionsOf
  <2> QED BY <2>1, <2>2
<1>3. ASSUME NEW p \in Proposals, NEW x \in Proposals, NEW current \in Proposals,
             NEW group \in KnownGroups, NEW at \in Recent,
             Superseding(p, x, current, group, at)
      PROVE  m \in StoredVersions' /\ versions'[m].memory = m
  <2>1. m \in StoredVersions /\ versions[m].memory = m
    BY <1>3 DEF Superseding, Named, VersionsOf
  <2>2. CASE m = current
    BY <1>3, <2>1, <2>2 DEF Superseding
  <2>3. CASE m # current
    BY <1>3, <2>1, <2>3 DEF Superseding, KeptOrStale, SamePlace
  <2> QED BY <2>1, <2>2, <2>3
<1> QED BY <1>1, <1>2, <1>3, StepEffects

\* What the first store keeps, all of it, in every reachable state.
FirstInv ==
    /\ RowsInv /\ SystemHistory /\ Named
    /\ IndexesStored /\ SearchIndexAgrees

LEMMA FirstAlways == PortableSpec => []FirstInv
<1>1. Init => Named
  BY DEF Init, Named, StoredMemories
<1>2. Spec => []Named
  BY <1>1, NamedStep, RowsAlways, PTL DEF Spec
<1> QED
  BY <1>2, FirstStoreKept, RowsAlways, HistoriesAreGapless, IndexAlways, PTL DEF FirstInv

\* Its tables are sound.
LEMMA FirstIsSound ==
  ASSUME FirstInv
  PROVE  SoundTables(memories, versions)
<1>1. /\ DOMAIN memories = Proposals /\ DOMAIN versions = Proposals
      /\ Has(memories) = StoredMemories /\ Has(versions) = StoredVersions
  BY DEF FirstInv, RowsInv, TypeOK, Has, StoredMemories, StoredVersions
<1>2. \A m : Of(versions, m) = VersionsOf(m)
  BY DEF Of, VersionsOf, StoredVersions
<1>3. \A v \in StoredVersions : versions[v].memory \in StoredMemories
  BY DEF FirstInv, RowsInv, Homed
<1>4. ASSUME NEW m \in StoredMemories
      PROVE  SoundMemory(memories, versions, m)
  <2>1. m \in VersionsOf(m)
    BY DEF FirstInv, Named
  <2>2. \E v \in VersionsOf(m) :
          /\ versions[v].number = memories[m].current_version
          /\ IF memories[m].state = "active" THEN versions[v].state \in {"current", "stale"}
             ELSE versions[v].state = memories[m].state
          /\ \A u \in VersionsOf(m) \ {v} :
                versions[u].number < versions[v].number /\ versions[u].state = "superseded"
    BY DEF FirstInv, RowsInv, StateAgreement, IsCurrent
  <2>3. \A v \in VersionsOf(m) :
          IF versions[v].number = memories[m].current_version
          THEN versions[v].system_to = NoTime
          ELSE \E next \in VersionsOf(m) :
                  /\ versions[next].number = versions[v].number + 1
                  /\ versions[next].system_from = versions[v].system_to
                  /\ versions[v].system_from < versions[v].system_to
    BY DEF FirstInv, SystemHistory, VersionsOf, IsCurrent
  <2> QED BY <1>2, <2>1, <2>2, <2>3 DEF SoundMemory
<1> QED BY <1>1, <1>3, <1>4 DEF SoundTables
-------------------------------------------------------------------------------
(* Types.                                                                    *)

\* An import has the file that it was started with.
Typed == PortableTypeOK /\ (import # None => file # None)

\* The tables of a store or of a file.
LEMMA ContentTables ==
  ASSUME NEW c \in Content
  PROVE  /\ c.observations \in [Observation -> Scopes \cup {None}]
         /\ c.memories \in [Proposals -> Memory \cup {None}]
         /\ c.versions \in [Proposals -> MemoryVersion \cup {None}]
         /\ c.derived \in [Proposals -> SUBSET Proposals]
         /\ DOMAIN c.observations = Observation
         /\ DOMAIN c.memories = Proposals /\ DOMAIN c.versions = Proposals
  BY DEF Content

\* The rows that a step of the first store leaves.
LEMMA RecordedTyped ==
  ASSUME rows \in Rows, RowsInv', Recorded
  PROVE  rows' \in Rows
<1>1. \A o \in Proposals : versions'[o] # None => memories'[versions'[o].memory].scope \in Scopes
  <2> SUFFICES ASSUME NEW o \in Proposals, versions'[o] # None
               PROVE  memories'[versions'[o].memory].scope \in Scopes
    OBVIOUS
  <2>1. versions'[o].memory \in Proposals /\ memories'[versions'[o].memory] # None
    BY DEF RowsInv, Homed, StoredVersions, StoredMemories
  <2>2. memories' \in [Proposals -> Memory \cup {None}]
    BY DEF RowsInv, TypeOK
  <2> QED BY <2>1, <2>2 DEF Memory
<1>2. /\ rows.observations \in [Observation -> Scopes \cup {None}]
      /\ rows.derived \in [Proposals -> SUBSET Proposals]
  BY DEF Rows
<1>3. rows'.observations \in [Observation -> Scopes \cup {None}]
  BY <1>1, <1>2 DEF Recorded
<1>4. rows'.derived \in [Proposals -> SUBSET Proposals]
  BY <1>2 DEF Recorded
<1> QED BY <1>3, <1>4 DEF Rows, Recorded

\* An export of the first store has the tables of a store.
LEMMA ExportTyped ==
  ASSUME TypeOK, rows \in Rows, NEW access
  PROVE  Here \in Content /\ Authorized(Here, access) \in Content
<1>1. /\ rows.observations \in [Observation -> Scopes \cup {None}]
      /\ rows.derived \in [Proposals -> SUBSET Proposals]
  BY DEF Rows
<1>2. Here \in Content
  BY <1>1 DEF TypeOK, Here, Content
<1> DEFINE c == Authorized(Here, access)
<1>3. c.observations \in [Observation -> Scopes \cup {None}]
  BY <1>1 DEF Authorized, Here
<1>4. c.memories \in [Proposals -> Memory \cup {None}]
  BY DEF Authorized, Here, TypeOK
<1>5. c.versions \in [Proposals -> MemoryVersion \cup {None}]
  BY DEF Authorized, Here, TypeOK
<1>6. c.derived \in [Proposals -> SUBSET Proposals]
  BY <1>1 DEF Authorized, Here
<1> QED BY <1>2, <1>3, <1>4, <1>5, <1>6 DEF Authorized, Content

\* Inserting rows into a store gives a store.
LEMMA InsertTyped ==
  ASSUME NEW store \in Store, NEW c \in Content
  PROVE  Inserted(store, c) \in Store
<1> DEFINE t == store.content
           u == Inserted(store, c)
<1>1. /\ t \in Content /\ store.dependencies \subseteq Proposals \X Proposals
      /\ store.fts \subseteq Proposals /\ store.purged \subseteq Proposals
  BY DEF Store
<1>2. /\ t.observations \in [Observation -> Scopes \cup {None}]
      /\ t.memories \in [Proposals -> Memory \cup {None}]
      /\ t.versions \in [Proposals -> MemoryVersion \cup {None}]
      /\ t.derived \in [Proposals -> SUBSET Proposals]
  BY <1>1, ContentTables
<1>3. /\ c.observations \in [Observation -> Scopes \cup {None}]
      /\ c.memories \in [Proposals -> Memory \cup {None}]
      /\ c.versions \in [Proposals -> MemoryVersion \cup {None}]
      /\ c.derived \in [Proposals -> SUBSET Proposals]
      /\ DOMAIN c.versions = Proposals
  BY ContentTables
<1>4. /\ Union(t.observations, c.observations) \in [Observation -> Scopes \cup {None}]
      /\ Union(t.memories, c.memories) \in [Proposals -> Memory \cup {None}]
      /\ Union(t.versions, c.versions) \in [Proposals -> MemoryVersion \cup {None}]
      /\ Derivations(store, c) \in [Proposals -> SUBSET Proposals]
  BY <1>2, <1>3 DEF Union, Derivations
<1>5. u.content \in Content
  BY <1>4 DEF Inserted, Content
<1>6. u.dependencies \in SUBSET (Proposals \X Proposals) /\ u.fts \in SUBSET Proposals
  BY <1>1, <1>3 DEF Inserted, Edges, Indexed, Has
<1> QED BY <1>1, <1>5, <1>6 DEF Inserted, Store

\* A purge of the second store leaves a store, and touches no observation.
Purged(ms) ==
    LET gone == {v \in Has(target.content.versions) : target.content.versions[v].memory \in ms}
    IN  /\ target'.content.observations = target.content.observations
        /\ target'.content.memories =
              [x \in Proposals |-> IF x \in ms THEN None ELSE target.content.memories[x]]
        /\ target'.content.versions =
              [v \in Proposals |-> IF v \in gone THEN None ELSE target.content.versions[v]]
        /\ target'.content.derived =
              [v \in Proposals |-> IF v \in gone THEN {} ELSE target.content.derived[v]]
        /\ target'.dependencies = {e \in target.dependencies : e[1] \notin gone /\ e[2] \notin gone}
        /\ target'.fts = target.fts \ gone
        /\ target'.purged = target.purged \cup ms

\* It removes memories that some version of the second store is of.
LEMMA PurgeTyped ==
  ASSUME target \in Store, NEW m \in Proposals, PurgeTarget(m)
  PROVE  /\ target' \in Store
         /\ \E ms \in SUBSET Proposals :
               /\ Purged(ms)
               /\ \A x \in ms : \E v \in Has(target.content.versions) :
                     target.content.versions[v].memory = x
<1> DEFINE t == target.content
           ms == {t.versions[v].memory :
                    v \in Has(t.versions) \cap Tree(target.dependencies, InTarget(m))}
           gone == {v \in Has(t.versions) : t.versions[v].memory \in ms}
<1>1. t \in Content
  BY DEF Store
<1>2. /\ t.observations \in [Observation -> Scopes \cup {None}]
      /\ t.memories \in [Proposals -> Memory \cup {None}]
      /\ t.versions \in [Proposals -> MemoryVersion \cup {None}]
      /\ t.derived \in [Proposals -> SUBSET Proposals]
      /\ DOMAIN t.versions = Proposals
  BY <1>1, ContentTables
<1>3. /\ ms \in SUBSET Proposals
      /\ \A x \in ms : \E v \in Has(t.versions) : t.versions[v].memory = x
  BY <1>2 DEF Has, MemoryVersion
<1>4. target' =
         [content |-> [t EXCEPT
             !.memories = [x \in Proposals |-> IF x \in ms THEN None ELSE t.memories[x]],
             !.versions = [v \in Proposals |-> IF v \in gone THEN None ELSE t.versions[v]],
             !.derived = [v \in Proposals |-> IF v \in gone THEN {} ELSE t.derived[v]]],
          dependencies |-> {e \in target.dependencies : e[1] \notin gone /\ e[2] \notin gone},
          fts |-> target.fts \ gone,
          purged |-> target.purged \cup ms]
  BY <1>1 DEF PurgeTarget, Content
<1> HIDE DEF ms
<1>5. Purged(ms)
  BY <1>1, <1>4 DEF Purged, Content
<1>6. target' \in Store
  <2>1. target'.content \in Content
    BY <1>1, <1>2, <1>4 DEF Content
  <2> QED BY <1>3, <1>4, <2>1 DEF Store
<1> QED BY <1>3, <1>5, <1>6

\* Every step leaves tables, files and imports of the declared types.
LEMMA TypedStep ==
  Typed /\ RowsInv' /\ TypeOK' /\ [PortableNext]_portableVars => Typed'
<1> SUFFICES ASSUME Typed, RowsInv', TypeOK', [PortableNext]_portableVars
             PROVE  Typed'
  OBVIOUS
<1>1. /\ rows \in Rows /\ file \in File \cup {None} /\ target \in Store
      /\ import \in Import \cup {None} /\ imports \in 0..MaxImports /\ TypeOK
      /\ import # None => file # None
  BY DEF Typed, PortableTypeOK
<1>2. ASSUME Next, Recorded, UNCHANGED <<file, target, import, imports>>
      PROVE  Typed'
  BY <1>1, <1>2, RecordedTyped DEF Typed, PortableTypeOK
<1>3. ASSUME NEW access \in Accesses, ExportSubject(access)
      PROVE  Typed'
  <2>1. file' \in File
    BY <1>1, <1>3, ExportTyped, AccessAssumption DEF ExportSubject, File
  <2> QED BY <1>1, <1>3, <2>1 DEF ExportSubject, Typed, PortableTypeOK, vars
<1>4. ASSUME NEW dry_run \in BOOLEAN, ImportSubject(dry_run)
      PROVE  Typed'
  <2>1. import' \in Import /\ imports' \in 0..MaxImports
    BY <1>1, <1>4, ImportAssumption DEF ImportSubject, Import
  <2> QED BY <1>1, <1>4, <2>1 DEF ImportSubject, Typed, PortableTypeOK, vars
<1>5. CASE Look
  <2>1. import' \in Import
    BY <1>1, <1>5 DEF Look, Import, Store
  <2> QED BY <1>1, <1>5, <2>1 DEF Look, Typed, PortableTypeOK, vars
<1>6. CASE Backup
  <2>1. import' \in Import
    BY <1>1, <1>6 DEF Backup, Import, Store
  <2> QED BY <1>1, <1>6, <2>1 DEF Backup, Typed, PortableTypeOK, vars
<1>7. CASE Insert
  <2>1. file.content \in Content
    BY <1>1, <1>7 DEF Insert, File
  <2>2. target' \in Store
    BY <1>1, <1>7, <2>1, InsertTyped DEF Insert
  <2> QED BY <1>1, <1>7, <2>2 DEF Insert, Typed, PortableTypeOK, vars
<1>8. CASE GiveUp
  BY <1>1, <1>8 DEF GiveUp, Typed, PortableTypeOK, vars
<1>9. ASSUME NEW scope \in Scopes, Capture(scope)
      PROVE  Typed'
  <2>1. target' \in Store
    BY <1>1, <1>9 DEF Capture, Store, Content
  <2> QED BY <1>1, <1>9, <2>1 DEF Capture, Typed, PortableTypeOK, vars
<1>10. ASSUME NEW m \in Proposals, PurgeTarget(m)
       PROVE  Typed'
  <2>1. target' \in Store
    BY <1>1, <1>10, PurgeTyped
  <2>2. UNCHANGED <<vars, rows, file, import, imports>>
    BY <1>10 DEF PurgeTarget
  <2> QED BY <1>1, <2>1, <2>2 DEF Typed, PortableTypeOK, vars
<1>11. CASE UNCHANGED portableVars
  BY <1>1, <1>11 DEF portableVars, Typed, PortableTypeOK, vars
<1> QED BY <1>2, <1>3, <1>4, <1>5, <1>6, <1>7, <1>8, <1>9, <1>10, <1>11 DEF PortableNext

LEMMA TypedAlways == PortableSpec => []Typed
<1>1. PortableInit => Typed
  BY ImportAssumption
     DEF PortableInit, Typed, PortableTypeOK, Init, TypeOK, NoRows, Rows, Empty, NoContent,
     Store, Content, Instant
<1>2. Spec => []TypeOK
  BY TypeCorrect
<1> QED
  BY <1>1, <1>2, TypedStep, FirstStoreKept, RowsAlways, PTL DEF PortableSpec

\* Every step of an export, an import, a capture or a purge leaves rows, files
\* and imports of the declared types.
THEOREM PortableTypeCorrect == PortableSpec => []PortableTypeOK
<1>1. Typed => PortableTypeOK
  BY DEF Typed
<1> QED BY <1>1, TypedAlways, PTL
-------------------------------------------------------------------------------
(* Imports and their backups.                                                *)

\* An import ends without a change of the second store, or with its transaction.
LEMMA ImportEnds ==
  ASSUME [PortableNext]_portableVars, import # None, import' = None
  PROVE  target' = target \/ Insert
<1>1. ASSUME NEW m \in Proposals, PurgeTarget(m)
      PROVE  import' = import
  BY <1>1 DEF PurgeTarget
<1>2. ASSUME NEW scope \in Scopes, Capture(scope)
      PROVE  import' = import
  BY <1>2 DEF Capture
<1>3. Look \/ Backup => target' = target
  BY DEF Look, Backup
<1>4. ASSUME NEW access \in Accesses, ExportSubject(access)
      PROVE  target' = target
  BY <1>4 DEF ExportSubject
<1>5. ASSUME NEW dry_run \in BOOLEAN, ImportSubject(dry_run)
      PROVE  target' = target
  BY <1>5 DEF ImportSubject
<1> QED BY <1>1, <1>2, <1>3, <1>4, <1>5 DEF PortableNext, GiveUp, portableVars

\* The second store changes by whole files: its transaction inserts every row of
\* the file and changes none that is there, and nothing else an import does
\* changes anything.
THEOREM FilesAreImportedWhole == PortableSpec => ImportsWholeFiles
<1>1. ASSUME Typed, [PortableNext]_portableVars, import # None, import' = None
      PROVE  \/ target' = target
             \/ /\ ~import.dry_run
                /\ \A table \in {"observations", "memories", "versions"} :
                      \A id \in DOMAIN target.content[table] :
                         LET before == target.content[table][id]
                             added == file.content[table][id]
                         IN target'.content[table][id] =
                               IF before # None THEN before ELSE added
  <2> SUFFICES ASSUME Insert
               PROVE  /\ ~import.dry_run
                      /\ \A table \in {"observations", "memories", "versions"} :
                            \A id \in DOMAIN target.content[table] :
                               target'.content[table][id] =
                                  IF target.content[table][id] # None
                                  THEN target.content[table][id]
                                  ELSE file.content[table][id]
    BY <1>1, ImportEnds
  <2>1. /\ target'.content.observations =
              Union(target.content.observations, file.content.observations)
        /\ target'.content.memories = Union(target.content.memories, file.content.memories)
        /\ target'.content.versions = Union(target.content.versions, file.content.versions)
    BY DEF Insert, Inserted
  <2> QED BY <2>1 DEF Insert, Union
<1>2. Typed /\ [PortableNext]_portableVars =>
         [import # None /\ import' = None =>
             \/ target' = target
             \/ /\ ~import.dry_run
                /\ \A table \in {"observations", "memories", "versions"} :
                      \A id \in DOMAIN target.content[table] :
                         LET before == target.content[table][id]
                             added == file.content[table][id]
                         IN target'.content[table][id] =
                               IF before # None THEN before ELSE added]_portableVars
  BY <1>1
<1> QED BY <1>2, TypedAlways, PTL DEF PortableSpec, ImportsWholeFiles

\* No observation is ever changed or removed in the second store.
LEMMA ObservationsStay ==
  ASSUME Typed, [PortableNext]_portableVars, NEW o \in Observation,
         target.content.observations[o] # None
  PROVE  target'.content.observations[o] = target.content.observations[o]
<1>1. target \in Store /\ target.content \in Content
  BY DEF Typed, PortableTypeOK, Store
<1>2. DOMAIN target.content.observations = Observation
  BY <1>1, ContentTables
<1>3. CASE Insert
  BY <1>2, <1>3 DEF Insert, Inserted, Union
<1>4. ASSUME NEW scope \in Scopes, Capture(scope)
      PROVE  target'.content.observations[o] = target.content.observations[o]
  <2>1. target.content.observations[Local] = None
    BY <1>4 DEF Capture
  <2>2. target' = [target EXCEPT !.content.observations[Local] = scope]
    BY <1>4 DEF Capture
  <2> QED BY <1>1, <1>2, <2>1, <2>2 DEF Store, Content
<1>5. ASSUME NEW m \in Proposals, PurgeTarget(m)
      PROVE  target'.content.observations[o] = target.content.observations[o]
  BY <1>1, <1>5, PurgeTyped DEF Purged
<1>6. ASSUME NEW access \in Accesses, ExportSubject(access)
      PROVE  target' = target
  BY <1>6 DEF ExportSubject
<1>7. ASSUME NEW dry_run \in BOOLEAN, ImportSubject(dry_run)
      PROVE  target' = target
  BY <1>7 DEF ImportSubject
<1>8. Look \/ Backup \/ GiveUp \/ UNCHANGED portableVars => target' = target
  BY DEF Look, Backup, GiveUp, portableVars
<1> QED BY <1>3, <1>4, <1>5, <1>6, <1>7, <1>8 DEF PortableNext
-------------------------------------------------------------------------------
(* Files.                                                                    *)

\* A file has whole memories, with every version they have in the first store.
LEMMA ExportedRows ==
  ASSUME TypeOK, rows \in Rows, SoundTables(memories, versions), NEW access
  PROVE  LET c == Authorized(Here, access) IN
         /\ \A m \in Has(c.memories) :
               m \in StoredMemories /\ c.memories[m] = memories[m]
                  /\ Of(c.versions, m) = Of(versions, m)
         /\ \A v \in Has(c.versions) :
               v \in StoredVersions /\ c.versions[v] = versions[v]
                  /\ versions[v].memory \in Has(c.memories)
<1> DEFINE c == Authorized(Here, access)
           ms == {m \in Proposals : memories[m] # None /\ Visible(memories[m].scope, access)}
           vs == {v \in Proposals : versions[v] # None /\ versions[v].memory \in ms}
<1>1. /\ c.memories = [m \in Proposals |-> IF m \in ms THEN memories[m] ELSE None]
      /\ c.versions = [v \in Proposals |-> IF v \in vs THEN versions[v] ELSE None]
  BY DEF Authorized, Here
<1>2. Has(c.memories) = ms /\ Has(c.versions) = vs
  BY <1>1 DEF Has
<1>3. ASSUME NEW m \in ms
      PROVE  c.memories[m] = memories[m] /\ Of(c.versions, m) = Of(versions, m)
  BY <1>1, <1>3 DEF Of
<1>4. \A v \in vs : c.versions[v] = versions[v] /\ versions[v].memory \in ms
  BY <1>1
<1> QED BY <1>2, <1>3, <1>4 DEF StoredMemories, StoredVersions

\* Hence its tables are sound.
LEMMA ExportIsSound ==
  ASSUME TypeOK, rows \in Rows, SoundTables(memories, versions), NEW access
  PROVE  SoundTables(Authorized(Here, access).memories, Authorized(Here, access).versions)
<1> DEFINE c == Authorized(Here, access)
<1>1. /\ \A m \in Has(c.memories) :
            m \in StoredMemories /\ c.memories[m] = memories[m]
               /\ Of(c.versions, m) = Of(versions, m)
      /\ \A v \in Has(c.versions) :
            v \in StoredVersions /\ c.versions[v] = versions[v]
               /\ versions[v].memory \in Has(c.memories)
  BY ExportedRows
<1>2. c \in Content /\ DOMAIN c.versions = Proposals /\ DOMAIN memories = Proposals
  BY ExportTyped, ContentTables DEF TypeOK
<1> HIDE DEF c
<1>3. ASSUME NEW m \in Has(c.memories)
      PROVE  SoundMemory(c.memories, c.versions, m)
  <2>1. m \in Has(memories)
    BY <1>1, <1>2 DEF StoredMemories, Has
  <2>2. SoundMemory(memories, versions, m)
    BY <2>1 DEF SoundTables
  <2>3. \A v \in Of(versions, m) : c.versions[v] = versions[v]
    BY <1>1, <1>2 DEF Of, Has
  <2> QED BY <1>1, <2>2, <2>3, SoundnessIsLocal
<1>4. \A v \in Has(c.versions) : c.versions[v].memory \in Has(c.memories)
  BY <1>1
<1>5. SoundTables(c.memories, c.versions)
  BY <1>3, <1>4 DEF SoundTables
<1> QED BY <1>5 DEF c

\* Whatever happened to the first store since, a file is sound and valid.
FileSound ==
    file # None =>
        /\ SoundTables(file.content.memories, file.content.versions)
        /\ Valid(file.content)
        /\ \A v \in Proposals :
              file.content.derived[v] # {} => v \in Has(file.content.versions)

LEMMA FileStep ==
  Typed /\ FirstInv /\ FileSound /\ [PortableNext]_portableVars => FileSound'
<1> SUFFICES ASSUME Typed, FirstInv, FileSound, [PortableNext]_portableVars
             PROVE  FileSound'
  OBVIOUS
<1>1. ASSUME NEW access \in Accesses, ExportSubject(access)
      PROVE  FileSound'
  <2>1. PICK c : c = Authorized(Here, access)
    OBVIOUS
  <2>2. file'.content = c /\ Valid(c)
    BY <1>1, <2>1 DEF ExportSubject
  <2>3. SoundTables(c.memories, c.versions)
    BY <2>1, ExportIsSound, FirstIsSound DEF Typed, PortableTypeOK
  <2>4. \A v \in Proposals : c.derived[v] # {} => v \in Has(c.versions)
    BY <2>1 DEF Authorized, Here, Has
  <2> QED BY <2>2, <2>3, <2>4 DEF FileSound, Valid
<1>2. CASE file' = file
  BY <1>2 DEF FileSound
<1>3. ASSUME NEW m \in Proposals, PurgeTarget(m)
      PROVE  file' = file
  BY <1>3 DEF PurgeTarget
<1> QED BY <1>1, <1>2, <1>3
        DEF PortableNext, portableVars, ImportSubject, Look, Backup, Insert, GiveUp, Capture

LEMMA FileAlways == PortableSpec => [](Typed /\ FirstInv /\ FileSound)
<1>1. PortableInit => FileSound
  BY DEF PortableInit, FileSound
<1> QED BY <1>1, FileStep, TypedAlways, FirstAlways, PTL DEF PortableSpec
-------------------------------------------------------------------------------
(* The second store.                                                         *)

\* What the rows of the second store have to do with each other.
SecondRows ==
    LET t == target.content IN
    /\ SoundTables(t.memories, t.versions)
    /\ \A v \in Has(t.versions) : t.observations[v] # None
    /\ \A m \in target.purged : t.memories[m] = None /\ t.observations[m] # None

\* Its edges are flows.
ScopeThere(v) == target.content.memories[target.content.versions[v].memory].scope

SecondEdges ==
    \A e \in target.dependencies :
        /\ e[1] \in Has(target.content.versions) /\ e[2] \in Has(target.content.versions)
        /\ MayFlow(ScopeThere(e[1]), ScopeThere(e[2]))

\* Its index has what it should.
SecondIndex ==
    /\ target.fts \subseteq Has(target.content.versions)
    /\ \A m \in Has(target.content.memories) :
          LET state == target.content.memories[m].state IN
          /\ state = "active" => Of(target.content.versions, m) \subseteq target.fts
          /\ state = "forgotten" => Of(target.content.versions, m) \cap target.fts = {}

\* What Insert and PurgeTarget do to the rows, table by table.
LEMMA InsertedRows ==
  ASSUME Typed, Insert
  PROVE  LET t == target.content
             c == file.content
             u == target'.content
         IN /\ \A m \in Proposals :
                  /\ u.memories[m] = IF t.memories[m] = None THEN c.memories[m]
                                     ELSE t.memories[m]
                  /\ t.memories[m] = None \/ c.memories[m] = None
            /\ \A v \in Proposals :
                  /\ u.versions[v] = IF t.versions[v] = None THEN c.versions[v]
                                     ELSE t.versions[v]
                  /\ t.versions[v] = None \/ c.versions[v] = None
            /\ \A o \in Observation :
                  /\ u.observations[o] = IF t.observations[o] = None THEN c.observations[o]
                                         ELSE t.observations[o]
                  /\ t.observations[o] = None \/ c.observations[o] = None
            /\ target'.dependencies = target.dependencies \cup Edges(c)
            /\ target'.fts = target.fts \cup Indexed(c)
            /\ target'.purged = target.purged
<1> DEFINE t == target.content
           c == file.content
<1>1. t \in Content /\ c \in Content
  BY DEF Typed, PortableTypeOK, Store, File, Insert
<1>2. /\ DOMAIN t.memories = Proposals /\ DOMAIN c.memories = Proposals
      /\ DOMAIN t.versions = Proposals /\ DOMAIN c.versions = Proposals
      /\ DOMAIN t.observations = Observation /\ DOMAIN c.observations = Observation
  BY <1>1, ContentTables
<1>3. /\ Has(c.observations) \cap Has(t.observations) = {}
      /\ Has(c.memories) \cap Has(t.memories) = {}
      /\ Has(c.versions) \cap Has(t.versions) = {}
  BY DEF Insert, Conflicts
<1>4. target' = Inserted(target, c)
  BY DEF Insert
<1> QED BY <1>2, <1>3, <1>4 DEF Inserted, Union, Has

\* A memory and its versions come from one side: from the store or from the file.
LEMMA InsertedMemories ==
  ASSUME Typed, Insert, SecondRows, FileSound
  PROVE  LET t == target.content
             c == file.content
             u == target'.content
         IN /\ Has(u.memories) = Has(t.memories) \cup Has(c.memories)
            /\ Has(u.versions) = Has(t.versions) \cup Has(c.versions)
            /\ \A m \in Has(t.memories) :
                  /\ u.memories[m] = t.memories[m] /\ Of(u.versions, m) = Of(t.versions, m)
                  /\ \A v \in Of(t.versions, m) : u.versions[v] = t.versions[v]
            /\ \A m \in Has(c.memories) :
                  /\ u.memories[m] = c.memories[m] /\ Of(u.versions, m) = Of(c.versions, m)
                  /\ \A v \in Of(c.versions, m) : u.versions[v] = c.versions[v]
<1> DEFINE t == target.content
           c == file.content
<1> PICK u : u = target'.content
  OBVIOUS
<1>1. /\ t \in Content /\ c \in Content /\ target' = Inserted(target, c) /\ target' \in Store
  BY InsertTyped DEF Typed, PortableTypeOK, Store, File, Insert
<1>2. u \in Content
  BY <1>1 DEF Store
<1>3. /\ DOMAIN t.memories = Proposals /\ DOMAIN c.memories = Proposals
      /\ DOMAIN t.versions = Proposals /\ DOMAIN c.versions = Proposals
      /\ DOMAIN u.memories = Proposals /\ DOMAIN u.versions = Proposals
  BY <1>1, <1>2, ContentTables
<1>4. /\ \A m \in Proposals :
            /\ u.memories[m] = IF t.memories[m] = None THEN c.memories[m] ELSE t.memories[m]
            /\ t.memories[m] = None \/ c.memories[m] = None
      /\ \A v \in Proposals :
            /\ u.versions[v] = IF t.versions[v] = None THEN c.versions[v] ELSE t.versions[v]
            /\ t.versions[v] = None \/ c.versions[v] = None
  BY InsertedRows
<1>5. /\ \A v \in Has(t.versions) : t.versions[v].memory \in Has(t.memories)
      /\ \A v \in Has(c.versions) : c.versions[v].memory \in Has(c.memories)
  BY DEF Insert, SecondRows, FileSound, SoundTables, Typed
<1> HIDE DEF t, c
<1>6. /\ Has(u.memories) = Has(t.memories) \cup Has(c.memories)
      /\ Has(u.versions) = Has(t.versions) \cup Has(c.versions)
  BY <1>3, <1>4 DEF Has
<1>7. ASSUME NEW m \in Has(t.memories)
      PROVE  /\ u.memories[m] = t.memories[m] /\ Of(u.versions, m) = Of(t.versions, m)
             /\ \A v \in Of(t.versions, m) : u.versions[v] = t.versions[v]
  BY <1>3, <1>4, <1>5 DEF Has, Of
<1>8. ASSUME NEW m \in Has(c.memories)
      PROVE  /\ u.memories[m] = c.memories[m] /\ Of(u.versions, m) = Of(c.versions, m)
             /\ \A v \in Of(c.versions, m) : u.versions[v] = c.versions[v]
  BY <1>3, <1>4, <1>5 DEF Has, Of
<1> QED BY <1>6, <1>7, <1>8 DEF t, c

\* What a purge leaves of the second store is left as it was, in whole memories.
LEMMA PurgedMemories ==
  ASSUME Typed, NEW ms \in SUBSET Proposals, Purged(ms)
  PROVE  LET t == target.content
             u == target'.content
         IN /\ Has(u.memories) = Has(t.memories) \ ms
            /\ Has(u.versions) = {v \in Has(t.versions) : t.versions[v].memory \notin ms}
            /\ \A v \in Has(u.versions) : u.versions[v] = t.versions[v]
            /\ \A x \in Has(u.memories) :
                  u.memories[x] = t.memories[x] /\ Of(u.versions, x) = Of(t.versions, x)
<1> DEFINE t == target.content
<1> PICK u : u = target'.content
  OBVIOUS
<1>1. t \in Content
  BY DEF Typed, PortableTypeOK, Store
<1>2. DOMAIN t.memories = Proposals /\ DOMAIN t.versions = Proposals
  BY <1>1, ContentTables
<1> DEFINE gone == {v \in Has(t.versions) : t.versions[v].memory \in ms}
<1>3. /\ u.memories = [x \in Proposals |-> IF x \in ms THEN None ELSE t.memories[x]]
      /\ u.versions = [v \in Proposals |-> IF v \in gone THEN None ELSE t.versions[v]]
  BY DEF Purged
<1> HIDE DEF t
<1>4. Has(u.memories) = Has(t.memories) \ ms
  BY <1>2, <1>3 DEF Has
<1>5. Has(u.versions) = {v \in Has(t.versions) : t.versions[v].memory \notin ms}
  BY <1>2, <1>3 DEF Has
<1>6. \A v \in Has(u.versions) : u.versions[v] = t.versions[v]
  BY <1>2, <1>3 DEF Has
<1>7. ASSUME NEW x \in Has(u.memories)
      PROVE  u.memories[x] = t.memories[x] /\ Of(u.versions, x) = Of(t.versions, x)
  <2>1. x \in Proposals /\ x \notin ms /\ u.memories[x] = t.memories[x]
    BY <1>2, <1>3, <1>4 DEF Has
  <2>2. \A v \in Proposals : v \in Of(u.versions, x) <=> v \in Of(t.versions, x)
    BY <1>2, <1>3, <2>1 DEF Has, Of
  <2> QED BY <2>1, <2>2 DEF Of
<1> QED BY <1>4, <1>5, <1>6, <1>7 DEF t

\* Only an import and a purge touch the memories, versions, edges and index of
\* the second store.
SameTables ==
    /\ target'.content.memories = target.content.memories
    /\ target'.content.versions = target.content.versions
    /\ target'.dependencies = target.dependencies
    /\ target'.fts = target.fts
    /\ target'.purged = target.purged

LEMMA SecondSteps ==
  ASSUME Typed, [PortableNext]_portableVars
  PROVE  \/ Insert
         \/ SameTables
         \/ \E ms \in SUBSET Proposals :
               /\ Purged(ms)
               /\ \A x \in ms : \E v \in Has(target.content.versions) :
                     target.content.versions[v].memory = x
<1>1. target \in Store
  BY DEF Typed, PortableTypeOK
<1>2. ASSUME NEW scope \in Scopes, Capture(scope)
      PROVE  SameTables
  BY <1>1, <1>2 DEF Capture, SameTables, Store, Content
<1>3. ASSUME NEW m \in Proposals, PurgeTarget(m)
      PROVE  \E ms \in SUBSET Proposals :
               /\ Purged(ms)
               /\ \A x \in ms : \E v \in Has(target.content.versions) :
                     target.content.versions[v].memory = x
  BY <1>1, <1>3, PurgeTyped
<1>4. target' = target => SameTables
  BY DEF SameTables
<1>5. ASSUME NEW access \in Accesses, ExportSubject(access)
      PROVE  target' = target
  BY <1>5 DEF ExportSubject
<1>6. ASSUME NEW dry_run \in BOOLEAN, ImportSubject(dry_run)
      PROVE  target' = target
  BY <1>6 DEF ImportSubject
<1>7. Look \/ Backup \/ GiveUp \/ UNCHANGED portableVars => target' = target
  BY DEF Look, Backup, GiveUp, portableVars
<1> QED BY <1>2, <1>3, <1>4, <1>5, <1>6, <1>7 DEF PortableNext

\* The second store stays sound, and keeps the observation of every version, also
\* of those it has no more.
LEMMA SecondRowsStep ==
  Typed /\ Typed' /\ FileSound /\ SecondRows /\ [PortableNext]_portableVars => SecondRows'
<1> SUFFICES ASSUME Typed, Typed', FileSound, SecondRows, [PortableNext]_portableVars
             PROVE  SecondRows'
  OBVIOUS
<1> DEFINE t == target.content
           c == file.content
<1> PICK u : u = target'.content
  OBVIOUS
<1>1. /\ t \in Content /\ u \in Content /\ target.purged \subseteq Proposals
      /\ target'.purged \subseteq Proposals
  BY DEF Typed, PortableTypeOK, Store
<1>2. /\ DOMAIN t.memories = Proposals /\ DOMAIN t.versions = Proposals
      /\ DOMAIN u.memories = Proposals /\ DOMAIN u.versions = Proposals
  BY <1>1, ContentTables
<1>3. /\ SoundTables(t.memories, t.versions)
      /\ \A v \in Has(t.versions) : t.observations[v] # None
      /\ \A m \in target.purged : t.memories[m] = None /\ t.observations[m] # None
  BY DEF SecondRows
<1>4. SUFFICES /\ \A v \in Has(u.versions) : u.versions[v].memory \in Has(u.memories)
               /\ \A m \in Has(u.memories) : SoundMemory(u.memories, u.versions, m)
               /\ \A v \in Has(u.versions) : u.observations[v] # None
               /\ \A m \in target'.purged : u.memories[m] = None /\ u.observations[m] # None
  BY DEF SecondRows, SoundTables
<1>5. \A o \in Proposals : t.observations[o] # None => u.observations[o] = t.observations[o]
  BY ObservationsStay DEF Observation
<1>6. \A m \in Has(t.memories) : m \in Has(t.versions)
  BY <1>2, <1>3 DEF SoundTables, SoundMemory, Of, Has
<1>7. CASE Insert
  <2>1. /\ Has(u.memories) = Has(t.memories) \cup Has(c.memories)
        /\ Has(u.versions) = Has(t.versions) \cup Has(c.versions)
        /\ \A m \in Has(t.memories) :
              /\ u.memories[m] = t.memories[m] /\ Of(u.versions, m) = Of(t.versions, m)
              /\ \A v \in Of(t.versions, m) : u.versions[v] = t.versions[v]
        /\ \A m \in Has(c.memories) :
              /\ u.memories[m] = c.memories[m] /\ Of(u.versions, m) = Of(c.versions, m)
              /\ \A v \in Of(c.versions, m) : u.versions[v] = c.versions[v]
    BY <1>7, InsertedMemories
  <2>2. /\ file # None /\ c \in Content /\ DOMAIN c.versions = Proposals
        /\ DOMAIN c.memories = Proposals
        /\ SoundTables(c.memories, c.versions) /\ Valid(c)
    BY <1>7, ContentTables DEF Insert, FileSound, Typed, PortableTypeOK, File
  <2>3. \A v \in Has(c.versions) : c.observations[v] # None
    BY <2>2 DEF Valid
  <2>4. \A o \in Observation :
           /\ u.observations[o] = IF t.observations[o] = None THEN c.observations[o]
                                  ELSE t.observations[o]
           /\ t.observations[o] = None \/ c.observations[o] = None
    BY <1>7, InsertedRows
  <2>5. target'.purged = target.purged
    BY <1>7, InsertedRows
  <2> HIDE DEF t, c
  <2>6. ASSUME NEW m \in Has(u.memories)
        PROVE  SoundMemory(u.memories, u.versions, m)
    BY <1>3, <2>1, <2>2, SoundnessIsLocal DEF SoundTables
  <2>7. \A v \in Has(u.versions) : u.versions[v].memory \in Has(u.memories)
    <3>1. ASSUME NEW v \in Has(t.versions)
          PROVE  u.versions[v].memory \in Has(u.memories)
      <4>1. v \in Of(t.versions, t.versions[v].memory) /\ t.versions[v].memory \in Has(t.memories)
        BY <1>2, <1>3 DEF SoundTables, Of, Has
      <4> QED BY <2>1, <4>1
    <3>2. ASSUME NEW v \in Has(c.versions)
          PROVE  u.versions[v].memory \in Has(u.memories)
      <4>1. v \in Of(c.versions, c.versions[v].memory) /\ c.versions[v].memory \in Has(c.memories)
        BY <2>2 DEF SoundTables, Of, Has
      <4> QED BY <2>1, <4>1
    <3> QED BY <2>1, <3>1, <3>2
  <2>8. \A v \in Has(u.versions) : u.observations[v] # None
    BY <1>2, <1>3, <2>1, <2>2, <2>3, <2>4 DEF Has, Observation
  <2>9. ASSUME NEW m \in target'.purged
        PROVE  u.memories[m] = None /\ u.observations[m] # None
    <3>1. m \in Proposals /\ t.memories[m] = None /\ t.observations[m] # None
      BY <1>1, <1>3, <2>5
    <3>2. c.observations[m] = None
      BY <2>4, <3>1 DEF Observation
    <3>3. m \notin Has(c.memories)
      BY <2>2, <2>3, <3>2 DEF SoundTables, SoundMemory, Of, Has
    <3> QED BY <1>2, <1>5, <2>1, <3>1, <3>3 DEF Has
  <2> QED BY <2>6, <2>7, <2>8, <2>9
<1>8. CASE SameTables
  BY <1>1, <1>2, <1>3, <1>5, <1>8 DEF SameTables, SoundTables, Has
<1>9. ASSUME NEW ms \in SUBSET Proposals, Purged(ms),
             \A x \in ms : \E v \in Has(t.versions) : t.versions[v].memory = x
      PROVE  /\ \A v \in Has(u.versions) : u.versions[v].memory \in Has(u.memories)
             /\ \A m \in Has(u.memories) : SoundMemory(u.memories, u.versions, m)
             /\ \A v \in Has(u.versions) : u.observations[v] # None
             /\ \A m \in target'.purged : u.memories[m] = None /\ u.observations[m] # None
  <2>1. /\ Has(u.memories) = Has(t.memories) \ ms
        /\ Has(u.versions) = {v \in Has(t.versions) : t.versions[v].memory \notin ms}
        /\ \A v \in Has(u.versions) : u.versions[v] = t.versions[v]
        /\ \A x \in Has(u.memories) :
              u.memories[x] = t.memories[x] /\ Of(u.versions, x) = Of(t.versions, x)
    BY <1>9, PurgedMemories
  <2>2. target'.purged = target.purged \cup ms
    BY <1>9 DEF Purged
  <2> HIDE DEF t
  <2>3. \A v \in Has(u.versions) : u.versions[v].memory \in Has(u.memories)
    BY <1>3, <2>1 DEF SoundTables
  <2>4. ASSUME NEW m \in Has(u.memories)
        PROVE  SoundMemory(u.memories, u.versions, m)
    <3>1. \A v \in Of(t.versions, m) : u.versions[v] = t.versions[v]
      BY <1>2, <2>1 DEF Of, Has
    <3> QED BY <1>3, <2>1, <3>1, SoundnessIsLocal DEF SoundTables
  <2>5. \A v \in Has(u.versions) : u.observations[v] # None
    BY <1>2, <1>3, <1>5, <2>1 DEF Has
  <2>6. ASSUME NEW m \in target'.purged
        PROVE  u.memories[m] = None /\ u.observations[m] # None
    <3>1. CASE m \in ms
      <4>1. m \in Proposals /\ m \in Has(t.memories)
        BY <1>3, <1>9, <3>1 DEF SoundTables, t
      <4>2. t.observations[m] # None
        BY <1>3, <1>6, <4>1
      <4> QED BY <1>2, <1>5, <2>1, <3>1, <4>1, <4>2 DEF Has
    <3>2. CASE m \notin ms
      <4>1. m \in target.purged /\ m \in Proposals
        BY <1>1, <2>2, <3>2
      <4> QED BY <1>2, <1>3, <1>5, <2>1, <4>1 DEF Has
    <3> QED BY <3>1, <3>2
  <2> QED BY <2>3, <2>4, <2>5, <2>6
<1> QED BY <1>7, <1>8, <1>9, SecondSteps

LEMMA SecondAlways == PortableSpec => [](Typed /\ FirstInv /\ FileSound /\ SecondRows)
<1>1. PortableInit => SecondRows
  BY DEF PortableInit, SecondRows, Empty, NoContent, SoundTables, Has
<1> QED BY <1>1, SecondRowsStep, FileAlways, PTL DEF PortableSpec

\* What a purge removed from the second store does not return with any file,
\* because observations survive the purge and files have them.
THEOREM PurgedStaysAway == PortableSpec => []PurgedNotImported
<1>1. SecondRows => PurgedNotImported
  BY DEF SecondRows, PurgedNotImported
<1> QED BY <1>1, SecondAlways, PTL

\* A memory that stays keeps its scope, whoever else comes or goes.
LEMMA ScopesThere ==
  ASSUME Typed, Typed', FileSound, SecondRows, [PortableNext]_portableVars,
         NEW v \in Has(target.content.versions), v \in Has(target'.content.versions)
  PROVE  ScopeThere(v)' = ScopeThere(v)
<1> DEFINE t == target.content
<1> PICK u : u = target'.content
  OBVIOUS
<1>1. t \in Content /\ u \in Content
  BY DEF Typed, PortableTypeOK, Store
<1>2. DOMAIN t.versions = Proposals /\ DOMAIN u.versions = Proposals
  BY <1>1, ContentTables
<1>3. v \in Of(t.versions, t.versions[v].memory) /\ t.versions[v].memory \in Has(t.memories)
  BY <1>2 DEF SecondRows, SoundTables, Of, Has
<1>4. ASSUME Insert
      PROVE  u.versions[v] = t.versions[v]
             /\ u.memories[t.versions[v].memory] = t.memories[t.versions[v].memory]
  <2>1. \A m \in Has(t.memories) :
           /\ u.memories[m] = t.memories[m]
           /\ \A x \in Of(t.versions, m) : u.versions[x] = t.versions[x]
    BY <1>4, InsertedMemories
  <2> QED BY <1>3, <2>1
<1>5. CASE SameTables
  BY <1>5 DEF SameTables, ScopeThere
<1>6. ASSUME NEW ms \in SUBSET Proposals, Purged(ms)
      PROVE  u.versions[v] = t.versions[v]
             /\ u.memories[t.versions[v].memory] = t.memories[t.versions[v].memory]
  <2>1. /\ Has(u.memories) = Has(t.memories) \ ms
        /\ Has(u.versions) = {x \in Has(t.versions) : t.versions[x].memory \notin ms}
        /\ \A x \in Has(u.versions) : u.versions[x] = t.versions[x]
        /\ \A x \in Has(u.memories) : u.memories[x] = t.memories[x]
    BY <1>6, PurgedMemories
  <2>2. v \in Has(u.versions)
    OBVIOUS
  <2> QED BY <1>3, <2>1, <2>2
<1>7. u.versions[v] = t.versions[v]
      /\ u.memories[t.versions[v].memory] = t.memories[t.versions[v].memory]
      => ScopeThere(v)' = ScopeThere(v)
  BY DEF ScopeThere
<1> QED BY <1>4, <1>5, <1>6, <1>7, SecondSteps

\* Every edge of the second store is a flow, because Validate asks it of the
\* edges of a file, and an edge is inserted with both its ends.
LEMMA SecondEdgesStep ==
  /\ Typed /\ Typed' /\ FileSound /\ SecondRows /\ SecondEdges
  /\ [PortableNext]_portableVars
  => SecondEdges'
<1> SUFFICES ASSUME Typed, Typed', FileSound, SecondRows, SecondEdges,
                    [PortableNext]_portableVars, NEW e \in target'.dependencies
             PROVE  /\ e[1] \in Has(target'.content.versions)
                    /\ e[2] \in Has(target'.content.versions)
                    /\ MayFlow(ScopeThere(e[1])', ScopeThere(e[2])')
  BY DEF SecondEdges
<1> DEFINE t == target.content
           c == file.content
<1> PICK u : u = target'.content
  OBVIOUS
<1>1. ASSUME e \in target.dependencies,
             e[1] \in Has(u.versions), e[2] \in Has(u.versions)
      PROVE  MayFlow(ScopeThere(e[1])', ScopeThere(e[2])')
  <2>1. /\ e[1] \in Has(t.versions) /\ e[2] \in Has(t.versions)
        /\ MayFlow(ScopeThere(e[1]), ScopeThere(e[2]))
    BY <1>1 DEF SecondEdges
  <2>2. ScopeThere(e[1])' = ScopeThere(e[1]) /\ ScopeThere(e[2])' = ScopeThere(e[2])
    BY <1>1, <2>1, ScopesThere
  <2> QED BY <2>1, <2>2
<1>2. CASE Insert
  <2>1. /\ Has(u.versions) = Has(t.versions) \cup Has(c.versions)
        /\ \A m \in Has(c.memories) :
              /\ u.memories[m] = c.memories[m]
              /\ \A v \in Of(c.versions, m) : u.versions[v] = c.versions[v]
    BY <1>2, InsertedMemories
  <2>2. target'.dependencies = target.dependencies \cup Edges(c)
    BY <1>2, InsertedRows
  <2>3. CASE e \in target.dependencies
    BY <1>1, <2>1, <2>3 DEF SecondEdges
  <2>4. CASE e \in Edges(c)
    <3>1. /\ c \in Content /\ DOMAIN c.versions = Proposals
          /\ SoundTables(c.memories, c.versions) /\ Valid(c)
          /\ \A v \in Proposals : c.derived[v] # {} => v \in Has(c.versions)
      BY <1>2, ContentTables DEF Insert, FileSound, Typed, PortableTypeOK, File
    <3> HIDE DEF c
    <3>2. e[2] \in Proposals /\ e[1] \in c.derived[e[2]]
      BY <2>4 DEF Edges
    <3>3. e[2] \in Has(c.versions)
      BY <3>1, <3>2
    <3>4. /\ e[1] \in Has(c.versions)
          /\ MayFlow(c.memories[c.versions[e[1]].memory].scope,
                     c.memories[c.versions[e[2]].memory].scope)
      BY <3>1, <3>2, <3>3 DEF Valid
    <3>5. ASSUME NEW v \in Has(c.versions)
          PROVE  ScopeThere(v)' = c.memories[c.versions[v].memory].scope
      <4>1. v \in Of(c.versions, c.versions[v].memory) /\ c.versions[v].memory \in Has(c.memories)
        BY <3>1 DEF SoundTables, Of, Has
      <4>2. u.versions[v] = c.versions[v]
            /\ u.memories[c.versions[v].memory] = c.memories[c.versions[v].memory]
        BY <2>1, <4>1
      <4> QED BY <4>2 DEF ScopeThere
    <3> QED BY <2>1, <3>3, <3>4, <3>5
  <2> QED BY <2>2, <2>3, <2>4
<1>3. CASE SameTables
  BY <1>1, <1>3 DEF SameTables, SecondEdges
<1>4. ASSUME NEW ms \in SUBSET Proposals, Purged(ms)
      PROVE  /\ e \in target.dependencies
             /\ e[1] \in Has(u.versions) /\ e[2] \in Has(u.versions)
  <2>1. Has(u.versions) = {v \in Has(t.versions) : t.versions[v].memory \notin ms}
    BY <1>4, PurgedMemories
  <2> QED BY <1>4, <2>1 DEF Purged, SecondEdges
<1> QED BY <1>1, <1>2, <1>3, <1>4, SecondSteps

\* The versions of an active memory are not forgotten.
LEMMA ActiveIsKnown ==
  ASSUME NEW ms, NEW vs, NEW m, SoundMemory(ms, vs, m), ms[m].state = "active",
         NEW v \in Of(vs, m)
  PROVE  vs[v].state # "forgotten"
  BY DEF SoundMemory

\* The import indexes exactly what belongs into the index.
LEMMA SecondIndexStep ==
  /\ Typed /\ Typed' /\ FileSound /\ SecondRows /\ SecondIndex
  /\ [PortableNext]_portableVars
  => SecondIndex'
<1> SUFFICES ASSUME Typed, Typed', FileSound, SecondRows, SecondIndex,
                    [PortableNext]_portableVars
             PROVE  SecondIndex'
  OBVIOUS
<1> DEFINE t == target.content
           c == file.content
<1> PICK u : u = target'.content
  OBVIOUS
<1>1. /\ t \in Content /\ u \in Content
      /\ DOMAIN t.versions = Proposals /\ DOMAIN u.versions = Proposals
  BY ContentTables DEF Typed, PortableTypeOK, Store
<1>2. /\ target.fts \subseteq Has(t.versions)
      /\ \A m \in Has(t.memories) :
            /\ t.memories[m].state = "active" => Of(t.versions, m) \subseteq target.fts
            /\ t.memories[m].state = "forgotten" => Of(t.versions, m) \cap target.fts = {}
  BY DEF SecondIndex
<1>3. SUFFICES /\ target'.fts \subseteq Has(u.versions)
               /\ \A m \in Has(u.memories) :
                     /\ u.memories[m].state = "active" => Of(u.versions, m) \subseteq target'.fts
                     /\ u.memories[m].state = "forgotten" =>
                           Of(u.versions, m) \cap target'.fts = {}
  BY DEF SecondIndex
<1>4. CASE Insert
  <2>1. /\ Has(u.memories) = Has(t.memories) \cup Has(c.memories)
        /\ Has(u.versions) = Has(t.versions) \cup Has(c.versions)
        /\ \A m \in Has(t.memories) :
              u.memories[m] = t.memories[m] /\ Of(u.versions, m) = Of(t.versions, m)
        /\ \A m \in Has(c.memories) :
              u.memories[m] = c.memories[m] /\ Of(u.versions, m) = Of(c.versions, m)
    BY <1>4, InsertedMemories
  <2>2. /\ SoundTables(c.memories, c.versions) /\ DOMAIN c.versions = Proposals
        /\ Has(c.versions) \cap Has(t.versions) = {}
    BY <1>4, ContentTables DEF Insert, Conflicts, FileSound, Typed, PortableTypeOK, File
  <2>3. target'.fts = target.fts \cup Indexed(c)
    BY <1>4, InsertedRows
  <2> HIDE DEF t, c
  <2>4. Indexed(c) \subseteq Has(c.versions)
    BY DEF Indexed
  <2>5. ASSUME NEW m \in Has(t.memories)
        PROVE  /\ u.memories[m].state = "active" => Of(u.versions, m) \subseteq target'.fts
               /\ u.memories[m].state = "forgotten" =>
                     Of(u.versions, m) \cap target'.fts = {}
    <3>1. Of(t.versions, m) \subseteq Has(t.versions)
      BY <1>1 DEF Of, Has
    <3> QED BY <1>2, <2>1, <2>2, <2>3, <2>4, <3>1
  <2>6. ASSUME NEW m \in Has(c.memories)
        PROVE  /\ u.memories[m].state = "active" => Of(u.versions, m) \subseteq target'.fts
               /\ u.memories[m].state = "forgotten" =>
                     Of(u.versions, m) \cap target'.fts = {}
    <3>1. /\ Of(c.versions, m) \subseteq Has(c.versions)
          /\ \A v \in Of(c.versions, m) : c.versions[v].memory = m
      BY <2>2 DEF Of, Has
    <3>2. c.memories[m].state = "active" => Of(c.versions, m) \subseteq Indexed(c)
      <4> SUFFICES ASSUME c.memories[m].state = "active", NEW v \in Of(c.versions, m)
                   PROVE  v \in Indexed(c)
        OBVIOUS
      <4>1. c.versions[v].state # "forgotten"
        BY <2>2, ActiveIsKnown DEF SoundTables
      <4> QED BY <3>1, <4>1 DEF Indexed
    <3>3. c.memories[m].state = "forgotten" => Of(c.versions, m) \cap Indexed(c) = {}
      BY <3>1 DEF Indexed
    <3> QED BY <1>2, <2>1, <2>2, <2>3, <3>1, <3>2, <3>3
  <2> QED BY <1>2, <2>1, <2>3, <2>4, <2>5, <2>6
<1>5. CASE SameTables
  BY <1>2, <1>5 DEF SameTables
<1>6. ASSUME NEW ms \in SUBSET Proposals, Purged(ms)
      PROVE  /\ target'.fts \subseteq Has(u.versions)
             /\ \A m \in Has(u.memories) :
                   /\ u.memories[m].state = "active" =>
                         Of(u.versions, m) \subseteq target'.fts
                   /\ u.memories[m].state = "forgotten" =>
                         Of(u.versions, m) \cap target'.fts = {}
  <2>1. /\ Has(u.memories) = Has(t.memories) \ ms
        /\ Has(u.versions) = {v \in Has(t.versions) : t.versions[v].memory \notin ms}
        /\ \A x \in Has(u.memories) :
              u.memories[x] = t.memories[x] /\ Of(u.versions, x) = Of(t.versions, x)
    BY <1>6, PurgedMemories
  <2>2. target'.fts = target.fts \ {v \in Has(t.versions) : t.versions[v].memory \in ms}
    BY <1>6 DEF Purged
  <2>3. \A m : \A v \in Of(t.versions, m) : t.versions[v].memory = m
    BY DEF Of
  <2> HIDE DEF t
  <2> QED BY <1>2, <2>1, <2>2, <2>3
<1> QED BY <1>4, <1>5, <1>6, SecondSteps

\* All that is known of the second store.
SecondInv == Typed /\ SecondRows /\ SecondEdges /\ SecondIndex

LEMMA SecondInvAlways == PortableSpec => []SecondInv
<1>1. PortableInit => SecondEdges /\ SecondIndex
  BY DEF PortableInit, SecondEdges, SecondIndex, Empty, NoContent, Has
<1> QED
  BY <1>1, SecondEdgesStep, SecondIndexStep, SecondAlways, PTL DEF PortableSpec, SecondInv

\* What is derived in the second store, over a chain of any length, stays where
\* its source may flow.
LEMMA PathsThere ==
  ASSUME SecondInv, NEW v \in Has(target.content.versions),
         NEW d \in Tree(target.dependencies, Children(target.dependencies, v))
  PROVE  d \in Has(target.content.versions) /\ MayFlow(ScopeThere(v), ScopeThere(d))
<1> DEFINE t == target.content
           Reached == {x \in Has(t.versions) : MayFlow(ScopeThere(v), ScopeThere(x))}
<1>1. /\ t \in Content /\ target.dependencies \subseteq Proposals \X Proposals
      /\ t.memories \in [Proposals -> Memory \cup {None}]
      /\ DOMAIN t.versions = Proposals
  BY ContentTables DEF SecondInv, Typed, PortableTypeOK, Store
<1>2. \A x \in Has(t.versions) : ScopeThere(x) \in Scopes
  <2> SUFFICES ASSUME NEW x \in Has(t.versions)
               PROVE  ScopeThere(x) \in Scopes
    OBVIOUS
  <2>1. t.versions[x].memory \in Has(t.memories)
    BY DEF SecondInv, SecondRows, SoundTables
  <2> QED BY <1>1, <2>1 DEF ScopeThere, Has, Memory
<1>3. Children(target.dependencies, v) \subseteq Reached
  BY <1>1 DEF Children, SecondInv, SecondEdges
<1>4. ClosedUnder(target.dependencies, Reached)
  <2> SUFFICES ASSUME NEW e \in target.dependencies, e[1] \in Reached
               PROVE  e[2] \in Reached
    BY DEF ClosedUnder
  <2>1. e[2] \in Has(t.versions) /\ MayFlow(ScopeThere(e[1]), ScopeThere(e[2]))
    BY DEF SecondInv, SecondEdges
  <2> QED BY <1>2, <2>1, FlowIsTransitive
<1>5. Reached \in SUBSET Proposals
  BY <1>1 DEF Has
<1>6. d \in Reached
  BY <1>3, <1>4, <1>5 DEF Tree
<1> QED BY <1>6

\* The invariant of the second store says of its tables, read as the tables of a
\* lifecycle repository, what that repository says of its own.
LEMMA SecondIsConsistent ==
  ASSUME SecondInv
  PROVE  ImportedConsistent
<1> DEFINE t == target.content
<1>1. /\ t \in Content /\ target.dependencies \subseteq Proposals \X Proposals
      /\ DOMAIN t.memories = Proposals /\ DOMAIN t.versions = Proposals
  BY ContentTables DEF SecondInv, Typed, PortableTypeOK, Store
<1>2. /\ Target!StoredMemories = Has(t.memories) /\ Target!StoredVersions = Has(t.versions)
      /\ \A m : Target!VersionsOf(m) = Of(t.versions, m)
  BY <1>1 DEF Target!StoredMemories, Target!StoredVersions, Target!VersionsOf, Has, Of
<1>3. /\ \A v \in Has(t.versions) : t.versions[v].memory \in Has(t.memories)
      /\ \A m \in Has(t.memories) : SoundMemory(t.memories, t.versions, m)
  BY DEF SecondInv, SecondRows, SoundTables
<1>4. Target!NoOrphans
  BY <1>2, <1>3 DEF Target!NoOrphans, SecondInv, SecondEdges, SecondIndex
<1>5. Target!StateAgreement
  <2> SUFFICES ASSUME NEW m \in Has(t.memories)
               PROVE  \E v \in Of(t.versions, m) :
                         /\ Target!IsCurrent(v, m)
                         /\ IF t.memories[m].state = "active"
                            THEN t.versions[v].state \in {"current", "stale"}
                            ELSE t.versions[v].state = t.memories[m].state
                         /\ \A u \in Of(t.versions, m) \ {v} :
                               /\ t.versions[u].number < t.versions[v].number
                               /\ t.versions[u].state = "superseded"
    BY <1>2 DEF Target!StateAgreement
  <2> QED BY <1>2, <1>3 DEF Target!IsCurrent, SoundMemory
<1>6. Target!SystemHistory
  <2> SUFFICES ASSUME NEW v \in Has(t.versions), NEW m, m = t.versions[v].memory
               PROVE  IF Target!IsCurrent(v, m) THEN t.versions[v].system_to = NoTime
                      ELSE \E next \in Of(t.versions, m) :
                              /\ t.versions[next].number = t.versions[v].number + 1
                              /\ t.versions[next].system_from = t.versions[v].system_to
                              /\ t.versions[v].system_from < t.versions[v].system_to
    BY <1>2 DEF Target!SystemHistory, Target!NoTime, NoTime
  <2>1. v \in Of(t.versions, m) /\ m \in Has(t.memories)
    BY <1>1, <1>3 DEF Of, Has
  <2> QED BY <1>2, <1>3, <2>1 DEF Target!IsCurrent, SoundMemory
<1>7. Target!SearchIndexAgrees
  BY <1>2 DEF Target!SearchIndexAgrees, SecondInv, SecondIndex
<1>8. Target!DerivedContentStays
  <2>1. \A edges, vs : Target!Tree(edges, vs) = Tree(edges, vs)
    BY DEF Target!Tree, Target!ClosedUnder, Tree, ClosedUnder
  <2>2. \A v : /\ Target!Descendants(v)
                     = Target!Tree(target.dependencies, Target!Children(target.dependencies, v))
               /\ Target!Children(target.dependencies, v) = Children(target.dependencies, v)
    BY DEF Target!Descendants, Target!Children, Children
  <2>3. \A v : Target!Descendants(v) = Tree(target.dependencies, Children(target.dependencies, v))
    BY <2>1, <2>2
  <2>4. \A v : Target!ScopeOf(v) = ScopeThere(v)
    BY DEF Target!ScopeOf, ScopeThere
  <2> SUFFICES ASSUME NEW v \in Has(t.versions),
                      NEW d \in Tree(target.dependencies, Children(target.dependencies, v))
               PROVE  LET source == ScopeThere(v) to == ScopeThere(d) IN
                      /\ source.namespace = to.namespace /\ source.subject = to.subject
                      /\ source.visibility = "private" =>
                            to.owner = source.owner /\ to.visibility = "private"
                      /\ source.visibility = "shared" => to.visibility # "public"
    BY <1>2, <2>3, <2>4 DEF Target!DerivedContentStays
  <2> QED BY PathsThere DEF MayFlow
<1> QED BY <1>4, <1>5, <1>6, <1>7, <1>8 DEF ImportedConsistent

\* The second store, filled from files that were exported at different moments
\* and under different accesses and purged in between, has all the invariants of
\* the lifecycle repository.
THEOREM ImportsAreConsistent == PortableSpec => []ImportedConsistent
BY SecondInvAlways, SecondIsConsistent, PTL
-------------------------------------------------------------------------------
(* The round trip.                                                           *)

\* Inserting a file into an empty store gives the rows of the file.
LEMMA InsertedIntoEmpty ==
  ASSUME NEW c \in Content
  PROVE  Inserted(Empty, c).content = c /\ Inserted(Empty, c).fts = Indexed(c)
<1>1. /\ c.observations \in [Observation -> Scopes \cup {None}]
      /\ c.memories \in [Proposals -> Memory \cup {None}]
      /\ c.versions \in [Proposals -> MemoryVersion \cup {None}]
      /\ c.derived \in [Proposals -> SUBSET Proposals]
  BY ContentTables
<1>2. /\ Union(NoContent.observations, c.observations) = c.observations
      /\ Union(NoContent.memories, c.memories) = c.memories
      /\ Union(NoContent.versions, c.versions) = c.versions
  BY <1>1 DEF Union, NoContent
<1>3. Derivations(Empty, c) = c.derived
  BY <1>1 DEF Derivations, Empty, NoContent
<1>4. Inserted(Empty, c).content =
         [observations |-> c.observations, memories |-> c.memories,
          versions |-> c.versions, derived |-> c.derived]
  BY <1>2, <1>3 DEF Inserted, Empty
<1>5. c = [observations |-> c.observations, memories |-> c.memories,
           versions |-> c.versions, derived |-> c.derived]
  BY DEF Content
<1> QED BY <1>4, <1>5 DEF Inserted, Empty

\* Exporting a file under its own access takes all of it.
LEMMA ExportedAgain ==
  ASSUME NEW c \in Content, NEW access, NEW d, d = Authorized(c, access)
  PROVE  Authorized(d, access) = d
<1> DEFINE ms == {m \in Proposals : c.memories[m] # None
                                    /\ Visible(c.memories[m].scope, access)}
           vs == {v \in Proposals : c.versions[v] # None /\ c.versions[v].memory \in ms}
<1>1. /\ d.observations = [o \in Observation |->
            IF c.observations[o] # None /\ Visible(c.observations[o], access)
            THEN c.observations[o] ELSE None]
      /\ d.memories = [m \in Proposals |-> IF m \in ms THEN c.memories[m] ELSE None]
      /\ d.versions = [v \in Proposals |-> IF v \in vs THEN c.versions[v] ELSE None]
      /\ d.derived = [v \in Proposals |-> IF v \in vs THEN c.derived[v] ELSE {}]
  BY DEF Authorized
<1>2. {m \in Proposals : d.memories[m] # None /\ Visible(d.memories[m].scope, access)} = ms
  BY <1>1
<1>3. {v \in Proposals : d.versions[v] # None /\ d.versions[v].memory \in ms} = vs
  BY <1>1
<1> DEFINE e == Authorized(d, access)
<1>4. /\ e.memories = [m \in Proposals |-> IF m \in ms THEN d.memories[m] ELSE None]
      /\ e.versions = [v \in Proposals |-> IF v \in vs THEN d.versions[v] ELSE None]
      /\ e.derived = [v \in Proposals |-> IF v \in vs THEN d.derived[v] ELSE {}]
  BY <1>2, <1>3 DEF Authorized
<1>5. e.observations = [o \in Observation |->
         IF d.observations[o] # None /\ Visible(d.observations[o], access)
         THEN d.observations[o] ELSE None]
  BY DEF Authorized
<1> HIDE DEF ms, vs
<1>6. e.memories = d.memories /\ e.versions = d.versions /\ e.derived = d.derived
  BY <1>1, <1>4
<1>7. e.observations = d.observations
  BY <1>1, <1>5
<1>8. /\ e = [observations |-> e.observations, memories |-> e.memories,
              versions |-> e.versions, derived |-> e.derived]
      /\ d = [observations |-> d.observations, memories |-> d.memories,
              versions |-> d.versions, derived |-> d.derived]
  BY DEF Authorized
<1> QED BY <1>6, <1>7, <1>8

\* What an import writes is what was exported: exporting it again gives the same
\* file, and active memories are indexed as they were.
THEOREM NothingIsLostOnTheWay == PortableSpec => []RoundTrip
<1>1. ASSUME Typed, FirstInv, NEW access \in Accesses
      PROVE  LET content == Authorized(Here, access) IN
             Valid(content) =>
                /\ Authorized(Inserted(Empty, content).content, access) = content
                /\ \A m \in Has(content.memories) :
                      content.memories[m].state = "active" =>
                         Inserted(Empty, content).fts \cap VersionsOf(m)
                            = fts \cap VersionsOf(m)
  <2> PICK c : c = Authorized(Here, access)
    OBVIOUS
  <2>1. c \in Content /\ Here \in Content /\ DOMAIN c.versions = Proposals
    BY <1>1, ExportTyped, ContentTables DEF Typed, PortableTypeOK
  <2>2. Inserted(Empty, c).content = c /\ Inserted(Empty, c).fts = Indexed(c)
    BY <2>1, InsertedIntoEmpty
  <2>3. Authorized(c, access) = c
    BY <2>1, ExportedAgain
  <2>4. /\ SoundTables(memories, versions)
        /\ SoundTables(c.memories, c.versions)
    BY <1>1, FirstIsSound, ExportIsSound DEF Typed, PortableTypeOK
  <2>5. ASSUME NEW m \in Has(c.memories), c.memories[m].state = "active"
        PROVE  Indexed(c) \cap VersionsOf(m) = fts \cap VersionsOf(m)
    <3>1. /\ m \in StoredMemories /\ c.memories[m] = memories[m]
          /\ Of(c.versions, m) = Of(versions, m)
      BY <1>1, <2>4, <2>5, ExportedRows DEF Typed, PortableTypeOK
    <3>2. VersionsOf(m) = Of(c.versions, m)
      BY <3>1 DEF VersionsOf, Of, StoredVersions
    <3>3. VersionsOf(m) \subseteq fts
      BY <1>1, <2>5, <3>1 DEF FirstInv, SearchIndexAgrees
    <3>4. ASSUME NEW v \in Of(c.versions, m)
          PROVE  v \in Indexed(c)
      <4>1. v \in Has(c.versions) /\ c.versions[v].memory = m
        BY <2>1 DEF Of, Has
      <4>2. c.versions[v].state # "forgotten"
        BY <2>4, <2>5, ActiveIsKnown DEF SoundTables
      <4> QED BY <2>5, <4>1, <4>2 DEF Indexed
    <3> QED BY <3>2, <3>3, <3>4
  <2> QED BY <2>2, <2>3, <2>5
<1>2. Typed /\ FirstInv => RoundTrip
  BY <1>1 DEF RoundTrip
<1> QED BY <1>2, SecondAlways, PTL
===============================================================================
