----------------------------- MODULE Installation ------------------------------
(*****************************************************************************)
(* The database file of an installation and the processes (daemon and        *)
(* commands) that open it, bring its schema up to date, capture in it, back  *)
(* it up and restore it: Open, migrate, Probe, Backup and RestoreFile of     *)
(* the SQLite adapter.                                                       *)
(*                                                                           *)
(* A commit goes to the write-ahead log beside the file.  A checkpoint, and  *)
(* the close of the last connection, move the log into the file; a crash     *)
(* leaves it.  Whoever opens the file next applies the log it finds, also    *)
(* when the file is another one by then.  Nobody opens the database while a  *)
(* restore replaces it.                                                      *)
(*****************************************************************************)
EXTENDS Integers, Sequences

CONSTANTS Procs,           \* processes that open the database
          Items,           \* what can be captured
          Latest,          \* latestSchemaVersion
          Found,           \* schema versions of databases other releases left
          None,
          MaxCrashes,      \* bound: processes that crash
          MaxRestores      \* bound: restores begun

ASSUME LatestAssumption == Latest \in Nat \ {0}
ASSUME FoundAssumption == Found \subseteq Nat \ {0}
ASSUME BoundAssumption == MaxCrashes \in Nat /\ MaxRestores \in Nat

VARIABLES main,            \* the file at the database path
          wal,             \* the log beside it
          probe,           \* whether memory_fts has a row probe-v
          process,
          restore,         \* the restore that runs, if any
          output,          \* the file at the destination of data backup
          promised,        \* (history) what a backup reported valid must hold
          preserved,       \* *.pre-restore-*.bak
          migrations,      \* *.pre-migration-*.bak
          captured,        \* (history) what was acknowledged
          parted,          \* (history) a restore has taken a file away from its log
          crashes, restores

vars == <<main, wal, probe, process, restore, output, promised, preserved, migrations,
          captured, parted, crashes, restores>>
copies == <<output, promised, preserved, migrations>>
bounds == <<crashes, restores>>
history == <<captured, parted>>

Version == 0..Latest \cup Found

\* applied: the rows of schema_migrations, in order.  origin: (history) what
\* was found.
Database == [version : Version, applied : Seq(Nat), items : SUBSET Items,
             sound : BOOLEAN,
             origin : [version : Version, items : SUBSET Items]]
Log == [stale : BOOLEAN, image : Database]
Process == [pc : {"ping", "backup", "migrate", "select", "delete",
                  "check", "open", "copy"},
            existed : BOOLEAN, current : Version,
            version : Version, ranked : BOOLEAN,   \* Capabilities
            held : SUBSET Items]                   \* (history) when the copy began
Restore == [temporary : Database, replaced : Database \cup {None},
            pc : {"preserve", "install"}]

ASSUME NoneAssumption == None \notin Database \cup Log \cup Process \cup Restore

Left(version, items) ==
    [version |-> version, applied |-> [i \in 1..version |-> i], items |-> items,
     sound |-> TRUE,
     origin |-> [version |-> version, items |-> items]]
NoDatabase == Left(0, {})

TypeOK ==
    /\ main \in Database \cup {None}
    /\ wal \in Log \cup {None}
    /\ probe \in BOOLEAN
    /\ process \in [Procs -> Process \cup {None}]
    /\ restore \in Restore \cup {None}
    /\ output \in Database \cup {None}
    /\ promised \in SUBSET Items
    /\ preserved \subseteq Database
    /\ migrations \subseteq Database
    /\ captured \subseteq Items
    /\ parted \in BOOLEAN
    /\ crashes \in 0..MaxCrashes
    /\ restores \in 0..MaxRestores

\* Nothing is there, or what an older or a newer release has left.
Init ==
    /\ captured \in SUBSET Items
    /\ \/ main = None /\ captured = {}
       \/ \E version \in Found : main = Left(version, captured)
    /\ wal = None /\ probe = FALSE
    /\ process = [p \in Procs |-> None]
    /\ restore = None
    /\ output = None /\ promised = {} /\ preserved = {} /\ migrations = {}
    /\ parted = FALSE /\ crashes = 0 /\ restores = 0

At(p, pc) == process[p] # None /\ process[p].pc = pc
Goto(p, pc) == process' = [process EXCEPT ![p].pc = pc]
Running == {p \in Procs : process[p] # None}
Connected == {p \in Running : ~At(p, "ping")}

\* What a connection reads.  A log of another file overwrites pages of this one.
Committed ==
    IF wal = None THEN main
    ELSE IF wal.stale THEN [main EXCEPT !.sound = FALSE] ELSE wal.image

Commit(db) ==
    /\ wal' = [stale |-> FALSE, image |-> db]
    /\ UNCHANGED main

\* The log goes into the file and is removed.
Checkpointed ==
    /\ main' = Committed
    /\ wal' = None

\* p is done.  Whoever closes the last connection takes the log along.
Ended(p) ==
    /\ process' = [process EXCEPT ![p] = None]
    /\ IF Connected = {p} THEN Checkpointed ELSE UNCHANGED <<main, wal>>
-----------------------------------------------------------------------------
\* Open: nonEmptyFile
Stat(p) ==
    /\ process[p] = None /\ restore = None
    /\ process' = [process EXCEPT ![p] =
                      [pc |-> "ping", existed |-> main # None, current |-> 0,
                       version |-> 0, ranked |-> FALSE, held |-> {}]]
    /\ UNCHANGED <<probe, main, wal, restore, copies, history, bounds>>

\* Mutant: a new database is backed up, and an existing one is not.
MutNeedsBackup(existed, version) == ~existed /\ version < Latest

Supported(version) == version <= Latest
NeedsBackup(existed, version) == existed /\ version < Latest

\* The first statement creates the file if there is none; a log beside an empty
\* file is removed.  An older database that was there is backed up first.
Ping(p) ==
    /\ At(p, "ping")
    /\ LET current == IF main = None THEN 0 ELSE Committed.version
           pc == IF NeedsBackup(process[p].existed, current) THEN "backup" ELSE "migrate"
       IN /\ Supported(current)
          /\ process' = [process EXCEPT ![p].current = current, ![p].existed = FALSE,
                                        ![p].pc = pc]
    /\ IF main = None THEN main' = NoDatabase /\ wal' = None
                      ELSE UNCHANGED <<main, wal>>
    /\ UNCHANGED <<probe, restore, copies, history, bounds>>

\* Mutant: the file is copied without its log.
MutSnapshot == main

\* What the online backup copies: a committed state of the source.
Snapshot == Committed

BackupBeforeMigration(p) ==
    /\ At(p, "backup")
    /\ Snapshot.sound
    /\ migrations' = migrations \cup {Snapshot}
    /\ Goto(p, "migrate")
    /\ UNCHANGED <<probe, main, wal, restore, output, promised, preserved, history, bounds>>

\* Mutant: a migration that another process has applied is applied again.
MutMigrated(db, version) ==
    Commit([db EXCEPT !.version = version, !.applied = Append(@, version)])

\* One transaction: the tables, the row of schema_migrations, user_version.
\* It fails if somebody has applied it in the meantime.
Migrated(db, version) ==
    /\ version \notin {db.applied[i] : i \in 1..Len(db.applied)}
    /\ Commit([db EXCEPT !.version = version, !.applied = Append(@, version)])

Migrate(p) ==
    /\ At(p, "migrate") /\ process[p].current < Latest
    /\ Migrated(Committed, process[p].current + 1)
    /\ process' = [process EXCEPT ![p].current = @ + 1]
    /\ UNCHANGED <<probe, restore, copies, history, bounds>>

\* Probe: its statements commit one by one.
ProbeInsert(p) ==
    /\ At(p, "migrate") /\ process[p].current >= Latest
    /\ probe' = TRUE
    /\ Commit(Committed)
    /\ process' = [process EXCEPT ![p].pc = "select", ![p].version = Committed.version]
    /\ UNCHANGED <<restore, copies, history, bounds>>

ProbeSelect(p) ==
    /\ At(p, "select")
    /\ process' = [process EXCEPT ![p].pc = "delete", ![p].ranked = probe]
    /\ UNCHANGED <<probe, main, wal, restore, copies, history, bounds>>

\* Deferred, its error is ignored.
ProbeDelete(p) ==
    /\ At(p, "delete")
    /\ \/ probe' = FALSE /\ Commit(Committed)
       \/ UNCHANGED <<probe, main, wal>>
    /\ Goto(p, "check")
    /\ UNCHANGED <<restore, copies, history, bounds>>

Opened(p) ==
    /\ At(p, "check") /\ process[p].ranked /\ process[p].version = Latest
    /\ process' = [process EXCEPT ![p].pc = "open", ![p].ranked = FALSE]
    /\ UNCHANGED <<probe, main, wal, restore, copies, history, bounds>>

\* Open is refused, or fails at any of its steps.
OpenFails(p) ==
    /\ p \in Running /\ ~At(p, "open") /\ ~At(p, "copy")
    /\ Ended(p)
    /\ UNCHANGED <<probe, restore, copies, history, bounds>>
-----------------------------------------------------------------------------
Capture(p, item) ==
    /\ At(p, "open") /\ item \notin captured
    /\ Commit([Committed EXCEPT !.items = @ \cup {item}])
    /\ captured' = captured \cup {item}
    /\ UNCHANGED <<parted, probe, process, restore, copies, bounds>>

\* PRAGMA wal_checkpoint(TRUNCATE) of a purge.
Checkpoint(p) ==
    /\ At(p, "open") /\ wal # None
    /\ Checkpointed
    /\ UNCHANGED <<probe, process, restore, copies, history, bounds>>

Close(p) ==
    /\ At(p, "open")
    /\ Ended(p)
    /\ UNCHANGED <<probe, restore, copies, history, bounds>>

\* data backup: nothing may be at the destination.
BeginBackup(p) ==
    /\ At(p, "open") /\ output = None
    /\ output' = NoDatabase
    /\ process' = [process EXCEPT ![p].pc = "copy", ![p].held = Committed.items]
    /\ UNCHANGED <<probe, main, wal, restore, promised, preserved, migrations, history,
                   bounds>>

FinishBackup(p) ==
    /\ At(p, "copy")
    /\ Snapshot.sound
    /\ output' = Snapshot
    /\ promised' = process[p].held
    /\ process' = [process EXCEPT ![p].pc = "open", ![p].held = {}]
    /\ UNCHANGED <<probe, main, wal, restore, preserved, migrations, history, bounds>>

BackupFails(p) ==
    /\ At(p, "copy")
    /\ output' = None
    /\ process' = [process EXCEPT ![p].pc = "open", ![p].held = {}]
    /\ UNCHANGED <<probe, main, wal, restore, promised, preserved, migrations, history,
                   bounds>>

\* The files stay as they are.
Crash(p) ==
    /\ p \in Running /\ crashes < MaxCrashes
    /\ process' = [process EXCEPT ![p] = None]
    /\ crashes' = crashes + 1
    /\ UNCHANGED <<probe, main, wal, restore, copies, history, restores>>
-----------------------------------------------------------------------------
\* RestoreFile: the source is validated and copied beside the target.
BeginRestore(source, overwrite) ==
    /\ restore = None /\ Running = {} /\ restores < MaxRestores
    /\ source.sound
    /\ main # None => overwrite
    /\ restore' = [temporary |-> source, replaced |-> None,
                   pc |-> IF main # None THEN "preserve" ELSE "install"]
    /\ restores' = restores + 1
    /\ UNCHANGED <<probe, main, wal, process, copies, history, crashes>>

\* Mutant: the replaced file is not kept.
MutPreserve ==
    /\ restore # None /\ restore.pc = "preserve"
    /\ main' = None
    /\ restore' = [restore EXCEPT !.replaced = main, !.pc = "install"]
    /\ parted' = (parted \/ wal # None)
    /\ UNCHANGED <<probe, wal, process, copies, captured, bounds>>

\* Only the file is renamed, not the log beside it.
Preserve ==
    /\ restore # None /\ restore.pc = "preserve"
    /\ preserved' = preserved \cup {main}
    /\ main' = None
    /\ restore' = [restore EXCEPT !.replaced = main, !.pc = "install"]
    /\ parted' = (parted \/ wal # None)
    /\ UNCHANGED <<probe, wal, process, output, promised, migrations, captured, bounds>>

\* A log that is still there has nothing to do with the file installed.
Install ==
    /\ restore # None /\ restore.pc = "install"
    /\ main' = restore.temporary
    /\ wal' = IF wal = None THEN None ELSE [wal EXCEPT !.stale = TRUE]
    /\ restore' = None
    /\ UNCHANGED <<probe, process, copies, history, bounds>>

InstallFails ==
    /\ restore # None /\ restore.pc = "install" /\ restore.replaced # None
    /\ main' = restore.replaced
    /\ preserved' = preserved \ {restore.replaced}
    /\ restore' = None
    /\ UNCHANGED <<probe, wal, process, output, promised, migrations, history, bounds>>

\* The command dies, or fails with nothing to put back or unable to.
Abandon ==
    /\ restore # None
    /\ restore' = None
    /\ UNCHANGED <<probe, main, wal, process, copies, history, bounds>>

Backups == preserved \cup migrations \cup ({output} \ {None})

Next ==
    \/ \E p \in Procs :
         \/ Stat(p) \/ Ping(p) \/ BackupBeforeMigration(p) \/ Migrate(p)
         \/ ProbeInsert(p) \/ ProbeSelect(p) \/ ProbeDelete(p) \/ Opened(p)
         \/ OpenFails(p) \/ Checkpoint(p) \/ Close(p) \/ Crash(p)
         \/ BeginBackup(p) \/ FinishBackup(p) \/ BackupFails(p)
         \/ \E item \in Items : Capture(p, item)
    \/ \E source \in Backups, overwrite \in BOOLEAN : BeginRestore(source, overwrite)
    \/ Preserve \/ Install \/ InstallFails \/ Abandon

Spec == Init /\ [][Next]_vars
-----------------------------------------------------------------------------
Held(db) == IF db # None /\ db.sound THEN db.items ELSE {}
Current == IF main = None THEN None ELSE Committed

\* What a process has acknowledged is in the database, or in a database that a
\* restore has replaced and RestoreFile has preserved.
NothingLost ==
    restore = None =>
        captured \subseteq Held(Current) \cup UNION {Held(f) : f \in preserved}

\* Crashes, closes, failed opens and migrations, and restores, complete, failed or
\* given up half way, lose nothing that was acknowledged, unless a restore found a
\* log beside the file it put away.
LostOnlyWithLog == parted \/ NothingLost

\* However many processes open a database at once, and wherever they crash or
\* fail in migrate, an open store has every migration, once and in order; whatever
\* was restored before, as long as no log of another file was applied to it.
OpenedMigrated ==
    \A p \in Procs : At(p, "open") /\ Committed.sound =>
        /\ Committed.version = Latest
        /\ Committed.applied = [i \in 1..Latest |-> i]

\* There is a way back from a migration: when a database has another schema
\* than it was found with, a backup that Open made has that schema, and all that
\* was in it.  Restores may change which database that is; of one that a log of
\* another file was applied to nothing is said.
WayBack ==
    LET db == Current
    IN db # None /\ db.sound /\ db.origin.version # 0 /\ db.version # db.origin.version =>
          \E m \in migrations : /\ m.sound
                                /\ m.version = db.origin.version
                                /\ m.items = db.origin.items

\* A backup that was reported valid has all that the database had when the
\* backup began, whatever was captured, checkpointed or restored since.
BackupComplete == promised # {} => output # None /\ promised \subseteq output.items

\* A database of a newer release is left as it is by all but a restore, unless a
\* restore has already put it beside the log of another file.
NewerUntouched ==
    [][Current # None /\ Current.sound /\ Current.version > Latest /\ restore = None
       => Current' = Current /\ probe' = probe]_vars
=============================================================================
