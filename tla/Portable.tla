------------------------------- MODULE Portable --------------------------------
(*****************************************************************************)
(* Subject export and import.  The lifecycle repository of one store goes on *)
(* while files are exported of it, each under an access of its own, and are  *)
(* imported, as often as somebody likes, into a second store, where a daemon *)
(* captures and purges at the same time.                                     *)
(*                                                                           *)
(* An export is one read transaction.  An import looks whether the store has *)
(* data, makes a backup if it has, and inserts all rows in one transaction.  *)
(*                                                                           *)
(* A memory version cites the observation of its proposal, which has the     *)
(* scope of the memory; observations are never deleted.  Working sets and    *)
(* episodes, which only a capture makes, are left out.                       *)
(*****************************************************************************)
EXTENDS Lifecycle

CONSTANTS Accesses,        \* what exports are asked for
          Local,           \* an observation captured in the second store itself
          MaxImports       \* bound: imports

Access == [namespace : Namespaces, subject : Subjects, owners : SUBSET Principals,
           shared : BOOLEAN, public : BOOLEAN]

ASSUME AccessAssumption == Accesses \subseteq Access
ASSUME LocalAssumption == Local \notin Proposals
ASSUME ImportAssumption == MaxImports \in Nat

VARIABLES rows,            \* of the first store: what Lifecycle does not keep
          file,            \* the file exported last, or being imported
          target,          \* the second store
          import,          \* the import that runs, if any
          imports          \* imports so far

Observation == Proposals \cup {Local}

\* observations: their scopes.  derived: derived_from_json of the versions.
Rows == [observations : [Observation -> Scopes \cup {None}],
         derived : [Proposals -> SUBSET Proposals]]
Content == [observations : [Observation -> Scopes \cup {None}],
            memories : [Proposals -> Memory \cup {None}],
            versions : [Proposals -> MemoryVersion \cup {None}],
            derived : [Proposals -> SUBSET Proposals]]
Store == [content : Content, dependencies : SUBSET (Proposals \X Proposals),
          fts : SUBSET Proposals, purged : SUBSET Proposals]
File == [access : Access, content : Content]
Import == [pc : {"look", "backup", "insert"}, dry_run : BOOLEAN,
           backup : Content \cup {None}]

ASSUME NoImportAssumption == None \notin Scopes \cup Content \cup File \cup Import

NoRows == [observations |-> [o \in Observation |-> None],
           derived |-> [v \in Proposals |-> {}]]
NoContent == [observations |-> [o \in Observation |-> None],
              memories |-> [m \in Proposals |-> None],
              versions |-> [v \in Proposals |-> None],
              derived |-> [v \in Proposals |-> {}]]
Empty == [content |-> NoContent, dependencies |-> {}, fts |-> {}, purged |-> {}]

PortableTypeOK ==
    /\ TypeOK
    /\ rows \in Rows
    /\ file \in File \cup {None}
    /\ target \in Store
    /\ import \in Import \cup {None}
    /\ imports \in 0..MaxImports

PortableInit ==
    /\ Init /\ rows = NoRows
    /\ file = None /\ target = Empty /\ import = None /\ imports = 0

\* A new version brings derived_from_json and cites its observation.  Nothing
\* changes either afterwards, a purge removes the version's row alone.
Recorded ==
    rows' = [observations |->
                [o \in Observation |->
                    IF o \in Proposals /\ versions'[o] # None
                    THEN memories'[versions'[o].memory].scope ELSE rows.observations[o]],
             derived |->
                [v \in Proposals |->
                    IF versions'[v] = None THEN {}
                    ELSE IF versions[v] = None
                    THEN {p \in Proposals : <<p, v>> \in dependencies'}
                    ELSE rows.derived[v]]]
-------------------------------------------------------------------------------
(* Export.                                                                   *)

\* portableAccessWhere, and validateScope of what a file contains.
Visible(scope, access) ==
    /\ scope.namespace = access.namespace /\ scope.subject = access.subject
    /\ scope.visibility = "private" => scope.owner \in access.owners
    /\ scope.visibility = "shared" => access.shared
    /\ scope.visibility = "public" => access.public

\* exportObservations and exportMemories.
Authorized(content, access) ==
    LET ms == {m \in Proposals : content.memories[m] # None
                                 /\ Visible(content.memories[m].scope, access)}
        vs == {v \in Proposals : content.versions[v] # None
                                 /\ content.versions[v].memory \in ms}
    IN [observations |-> [o \in Observation |->
            LET scope == content.observations[o] IN
            IF scope # None /\ Visible(scope, access) THEN scope ELSE None],
        memories |-> [m \in Proposals |-> IF m \in ms THEN content.memories[m] ELSE None],
        versions |-> [v \in Proposals |-> IF v \in vs THEN content.versions[v] ELSE None],
        derived |-> [v \in Proposals |-> IF v \in vs THEN content.derived[v] ELSE {}]]

Has(table) == {id \in DOMAIN table : table[id] # None}
Edges(content) == {e \in Proposals \X Proposals : e[1] \in content.derived[e[2]]}

\* Mutant: references between versions are not looked up.
MutValid(content) ==
    /\ \A m \in Has(content.memories) : \E v \in Has(content.versions) :
          /\ content.versions[v].memory = m
          /\ content.versions[v].number = content.memories[m].current_version
    /\ \A v \in Has(content.versions) : content.observations[v] # None

\* SubjectExport.Validate: the current versions are there, and what the versions
\* refer to; no derivation widens visibility, and none leads back to its start.
Valid(content) ==
    LET ScopeIn(v) == content.memories[content.versions[v].memory].scope IN
    /\ \A m \in Has(content.memories) : \E v \in Has(content.versions) :
          /\ content.versions[v].memory = m
          /\ content.versions[v].number = content.memories[m].current_version
    /\ \A v \in Has(content.versions) :
          /\ content.observations[v] # None
          /\ content.derived[v] \subseteq Has(content.versions)
          /\ \A p \in content.derived[v] : MayFlow(ScopeIn(p), ScopeIn(v))
          /\ v \notin Tree(Edges(content), Children(Edges(content), v))

Here == [observations |-> rows.observations, memories |-> memories,
         versions |-> versions, derived |-> rows.derived]

ExportSubject(access) ==
    LET content == Authorized(Here, access) IN
    /\ import = None /\ Valid(content)
    /\ file' = [access |-> access, content |-> content]
    /\ UNCHANGED <<vars, rows, target, import, imports>>
-------------------------------------------------------------------------------
(* Import.                                                                   *)

ImportSubject(dry_run) ==
    /\ import = None /\ file # None /\ Valid(file.content)
    /\ imports < MaxImports /\ imports' = imports + 1
    /\ import' = [pc |-> "look", dry_run |-> dry_run, backup |-> None]
    /\ UNCHANGED <<vars, rows, file, target>>

HasPortableData == Has(target.content.observations) # {} \/ target.purged # {}

\* hasPortableData; a dry run has no need to know.
Look ==
    /\ import # None /\ import.pc = "look"
    /\ import' = [import EXCEPT
          !.pc = IF ~import.dry_run /\ HasPortableData THEN "backup" ELSE "insert"]
    /\ UNCHANGED <<vars, rows, file, target, imports>>

Backup ==
    /\ import # None /\ import.pc = "backup"
    /\ import' = [import EXCEPT !.pc = "insert", !.backup = target.content]
    /\ UNCHANGED <<vars, rows, file, target, imports>>

\* Mutant: an observation that is there already is not inserted again.
MutConflicts(content) ==
    \/ Has(content.memories) \cap Has(target.content.memories) # {}
    \/ Has(content.versions) \cap Has(target.content.versions) # {}

\* The primary keys.
Conflicts(content) ==
    \/ Has(content.observations) \cap Has(target.content.observations) # {}
    \/ Has(content.memories) \cap Has(target.content.memories) # {}
    \/ Has(content.versions) \cap Has(target.content.versions) # {}

Union(table, other) ==
    [id \in DOMAIN table |-> IF table[id] = None THEN other[id] ELSE table[id]]

\* Neither a forgotten memory nor a forgotten version is indexed again.
Indexed(content) ==
    {v \in Has(content.versions) :
        /\ content.versions[v].state # "forgotten"
        /\ content.memories[content.versions[v].memory].state # "forgotten"}

\* Mutant: only the edges are written, not derived_from_json.
MutDerivations(store, content) == store.content.derived

Derivations(store, content) ==
    [v \in Proposals |-> store.content.derived[v] \cup content.derived[v]]

\* importSubjectRows.
Inserted(store, content) ==
    [content |->
        [observations |-> Union(store.content.observations, content.observations),
         memories |-> Union(store.content.memories, content.memories),
         versions |-> Union(store.content.versions, content.versions),
         derived |-> Derivations(store, content)],
     dependencies |-> store.dependencies \cup Edges(content),
     fts |-> store.fts \cup Indexed(content),
     purged |-> store.purged]

\* Mutant: a dry run commits.
MutInsert ==
    /\ import # None /\ import.pc = "insert"
    /\ ~Conflicts(file.content)
    /\ target' = Inserted(target, file.content)
    /\ import' = None
    /\ UNCHANGED <<vars, rows, file, imports>>

\* The transaction; a dry run rolls it back.
Insert ==
    /\ import # None /\ import.pc = "insert"
    /\ ~import.dry_run /\ ~Conflicts(file.content)
    /\ target' = Inserted(target, file.content)
    /\ import' = None
    /\ UNCHANGED <<vars, rows, file, imports>>

\* A row that is there already, a statement that fails, a dry run, a crash.
GiveUp ==
    /\ import # None
    /\ import' = None
    /\ UNCHANGED <<vars, rows, file, target, imports>>
-------------------------------------------------------------------------------
(* The daemon of the second store.                                           *)

Capture(scope) ==
    /\ target.content.observations[Local] = None
    /\ target' = [target EXCEPT !.content.observations[Local] = scope]
    /\ UNCHANGED <<vars, rows, file, import, imports>>

InTarget(m) == {v \in Has(target.content.versions) : target.content.versions[v].memory = m}

\* PurgeMemory, as in Lifecycle.
PurgeTarget(m) ==
    LET content == target.content
        ms == {content.versions[v].memory :
                  v \in Has(content.versions) \cap Tree(target.dependencies, InTarget(m))}
        gone == {v \in Has(content.versions) : content.versions[v].memory \in ms}
    IN /\ content.memories[m] # None
       /\ target' =
            [content |-> [content EXCEPT
                !.memories = [x \in Proposals |-> IF x \in ms THEN None ELSE @[x]],
                !.versions = [v \in Proposals |-> IF v \in gone THEN None ELSE @[v]],
                !.derived = [v \in Proposals |-> IF v \in gone THEN {} ELSE @[v]]],
             dependencies |-> {e \in target.dependencies :
                                  e[1] \notin gone /\ e[2] \notin gone},
             fts |-> target.fts \ gone,
             purged |-> target.purged \cup ms]
       /\ UNCHANGED <<vars, rows, file, import, imports>>
-------------------------------------------------------------------------------
PortableNext ==
    \/ Next /\ Recorded /\ UNCHANGED <<file, target, import, imports>>
    \/ \E access \in Accesses : ExportSubject(access)
    \/ \E dry_run \in BOOLEAN : ImportSubject(dry_run)
    \/ Look \/ Backup \/ Insert \/ GiveUp
    \/ \E scope \in Scopes : Capture(scope)
    \/ \E m \in Proposals : PurgeTarget(m)

portableVars == <<vars, rows, file, target, import, imports>>
PortableSpec == PortableInit /\ [][PortableNext]_portableVars
-------------------------------------------------------------------------------
(* Properties.                                                               *)

\* The tables of the second store; a file has no vectors, and nobody makes them
\* there.
Target == INSTANCE Lifecycle WITH
    memories <- target.content.memories, versions <- target.content.versions,
    dependencies <- target.dependencies, fts <- target.fts, embeddings <- {}

\* A store that was filled from files, exported at different moments and under
\* different accesses, and purged in between, satisfies the invariants of the
\* lifecycle repository, although none of its rows went through its checks.
ImportedConsistent ==
    /\ Target!NoOrphans /\ Target!StateAgreement /\ Target!SystemHistory
    /\ Target!SearchIndexAgrees /\ Target!DerivedContentStays

\* Nothing is lost or added on the way: whatever the first store went through,
\* exporting from an empty store a file was imported into gives the same file.
RoundTrip ==
    \A access \in Accesses :
        LET content == Authorized(Here, access) IN
        Valid(content) =>
            /\ Authorized(Inserted(Empty, content).content, access) = content
            /\ \A m \in Has(content.memories) :
                  content.memories[m].state = "active" =>
                     Inserted(Empty, content).fts \cap VersionsOf(m) = fts \cap VersionsOf(m)

\* The second store changes by whole files: an import that is refused, tried out,
\* or dies leaves it alone, and one that commits changes no row that was there.
ImportsWholeFiles ==
    [][import # None /\ import' = None =>
          \/ target' = target
          \/ /\ ~import.dry_run
             /\ \A table \in {"observations", "memories", "versions"} :
                   \A id \in DOMAIN target.content[table] :
                      LET before == target.content[table][id]
                          added == file.content[table][id]
                      IN target'.content[table][id] = IF before # None THEN before ELSE added
             ]_portableVars

\* What a purge removed from the second store does not come back with the next
\* import of a file that still has it.
PurgedNotImported ==
    \A m \in target.purged : target.content.memories[m] = None

\* An import that commits into a store with data has made a backup before it, as
\* docs/storage-safety.md says.  ImportSubject looks for data in a statement of its
\* own, before the transaction, so a capture in between has none.
ImportBackedUp ==
    [][import # None /\ import' = None /\ target' # target /\ HasPortableData =>
          import.backup # None]_portableVars
===============================================================================
