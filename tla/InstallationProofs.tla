-------------------------- MODULE InstallationProofs --------------------------
(*****************************************************************************)
(* Theorems about Installation, for every number of processes, migrations,   *)
(* crashes and restores, also of restores that find a log beside the file.   *)
(*****************************************************************************)
EXTENDS Installation, TLAPS

\* There is a backup of what was found.
Saved(origin) ==
    \E m \in migrations : /\ m.sound /\ m.version = origin.version
                          /\ m.items = origin.items

\* A database has its migrations in order, and nothing was captured in it before
\* it had the last of them, unless the log of another file was applied to it.
DatabaseOK(db) ==
    /\ db \in Database
    /\ db.sound =>
          /\ db.applied = [i \in 1..db.version |-> i]
          /\ db.origin.version <= db.version
          /\ db.origin.version # 0 /\ db.origin.version = db.version /\ db.version < Latest
                => db.items = db.origin.items

\* It has a way back, and no log of another file was applied before a restore has
\* found one.
Safe(db) ==
    /\ parted \/ db.sound
    /\ db.sound /\ db.origin.version # 0 /\ db.version # db.origin.version =>
          Saved(db.origin)

\* Every database there is.
Stored ==
    ({main, output} \cup preserved \cup migrations
        \cup (IF wal = None THEN {} ELSE {wal.image})
        \cup (IF restore = None THEN {} ELSE {restore.temporary, restore.replaced})) \ {None}

LogOK == parted \/ wal = None \/ (~wal.stale /\ main # None)

FilesOK ==
    /\ \A db \in Stored : DatabaseOK(db) /\ Safe(db)
    /\ LogOK
    /\ main # None => DatabaseOK(Committed) /\ Safe(Committed)

\* A process that is past its first statement has a database of this release or
\* an older one, which it has not overtaken; before it applies a migration to
\* what was found, that was saved.
Knows(p) ==
    /\ process[p].pc = "ping" /\ ~process[p].existed => Committed.origin.version = 0
    /\ process[p].pc # "ping" =>
          /\ Committed.version <= Latest
          /\ Committed.origin.version <= process[p].current
          /\ process[p].current <= Committed.version
    /\ process[p].pc = "backup" => process[p].current < Latest
    /\ process[p].pc = "migrate" /\ process[p].current < Latest =>
          Committed.origin.version = 0 \/ Saved(Committed.origin)
    /\ process[p].pc \in {"select", "delete", "check", "open", "copy"} =>
          Committed.version = Latest
    /\ process[p].pc = "copy" => process[p].held \subseteq Committed.items

\* So it is with a database that no log of another file was applied to.
ProcessOK(p) ==
    /\ restore = None
    /\ process[p].pc # "ping" => main # None
    /\ main # None /\ Committed.sound => Knows(p)

ProcessesOK == \A p \in Running : ProcessOK(p)

RestoreOK ==
    restore # None =>
        /\ restore.pc = "preserve" => main # None /\ restore.replaced = None
        /\ restore.pc = "install" =>
              /\ main = None /\ restore.replaced \in preserved \cup {None}
              /\ parted \/ wal = None

\* LostOnlyWithLog, also while a restore is under way.
Kept ==
    parted \/ captured \subseteq (IF main = None THEN {} ELSE Committed.items)
                                 \cup UNION {db.items : db \in preserved}

\* One process at a time writes the file at the destination of data backup.
CopyOK ==
    /\ \A p \in Running : process[p].pc = "copy" => promised = {} /\ output # None
    /\ \A p, q \in Running : process[p].pc = "copy" /\ process[q].pc = "copy" => p = q
    /\ output = None => promised = {}
    /\ output # None => promised \subseteq output.items

Inv == TypeOK /\ FilesOK /\ ProcessesOK /\ RestoreOK /\ Kept /\ CopyOK
USE DEF history
-------------------------------------------------------------------------------
LEMMA Versions == /\ Version \subseteq Nat /\ 0 \in Version
                  /\ \A version \in 0..Latest : version \in Version
  BY LatestAssumption, FoundAssumption DEF Version

\* What was found, and a database that was just created, are in order.
LEMMA LeftDatabase ==
  ASSUME NEW version \in Version, NEW items \in SUBSET Items
  PROVE  DatabaseOK(Left(version, items)) /\ Safe(Left(version, items))
<1>1. version \in Nat
  BY Versions
<1>2. [i \in 1..version |-> i] \in Seq(Nat)
  BY <1>1
<1> QED
  BY <1>1, <1>2 DEF Left, DatabaseOK, Safe, Database

\* The next migration keeps a database in order, and its way back.
LEMMA MigratedDatabase ==
  ASSUME NEW db, DatabaseOK(db), Safe(db), NEW current \in Nat, current < Latest,
         db.sound => /\ current <= db.version /\ db.origin.version <= current
                     /\ db.origin.version = 0 \/ Saved(db.origin),
         current + 1 \notin {db.applied[i] : i \in 1..Len(db.applied)}
  PROVE  LET new == [db EXCEPT !.version = current + 1, !.applied = Append(@, current + 1)]
         IN /\ DatabaseOK(new) /\ Safe(new)
            /\ db.sound => new.version = db.version + 1 /\ new.version <= Latest
            /\ new.items = db.items /\ new.origin = db.origin /\ new.sound = db.sound
<1> DEFINE new == [db EXCEPT !.version = current + 1, !.applied = Append(@, current + 1)]
<1>1. db \in Database /\ db.version \in Nat /\ db.origin.version \in Nat
      /\ db.applied \in Seq(Nat)
  BY Versions DEF DatabaseOK, Database
<1>2. Append(db.applied, current + 1) \in Seq(Nat)
  BY <1>1
<1>3. current + 1 \in Version
  BY Versions, LatestAssumption
<1>4. /\ new \in Database /\ new.version = current + 1 /\ new.items = db.items
      /\ new.applied = Append(db.applied, current + 1) /\ new.origin = db.origin
      /\ new.sound = db.sound
  <2>1. PICK applied, version : applied = Append(db.applied, current + 1) /\ version = current + 1
    OBVIOUS
  <2>2. new = [db EXCEPT !.version = version, !.applied = applied]
    BY <2>1
  <2> QED
    BY <1>1, <1>2, <1>3, <2>1, <2>2 DEF Database
<1>5. CASE ~db.sound
  BY <1>4, <1>5 DEF DatabaseOK, Safe
<1>6. CASE db.sound
  <2>1. Len(db.applied) = db.version /\ \A i \in 1..db.version : db.applied[i] = i
    BY <1>1, <1>6 DEF DatabaseOK
  <2>2. db.version = current
    BY <1>1, <1>6, <2>1
  <2>3. Append(db.applied, current + 1) = [i \in 1..(current + 1) |-> i]
    BY <1>1, <2>1, <2>2
  <2>4. new.version = db.version + 1 /\ new.version <= Latest
    BY <1>4, <2>2, LatestAssumption
  <2>5. DatabaseOK(new)
    BY <1>1, <1>4, <1>6, <2>2, <2>3 DEF DatabaseOK
  <2> HIDE DEF new
  <2>6. Safe(new)
    BY <1>4, <1>6 DEF Safe, Saved
  <2> QED
    BY <1>4, <2>4, <2>5, <2>6 DEF new
<1> QED
  BY <1>5, <1>6

\* A capture keeps a migrated database in order.
LEMMA CapturedDatabase ==
  ASSUME NEW db, DatabaseOK(db), Safe(db), db.sound => db.version = Latest,
         NEW item \in Items
  PROVE  LET new == [db EXCEPT !.items = @ \cup {item}]
         IN /\ DatabaseOK(new) /\ Safe(new) /\ new.sound = db.sound
            /\ new.version = db.version /\ new.origin = db.origin
            /\ new.items = db.items \cup {item}
<1> DEFINE new == [db EXCEPT !.items = @ \cup {item}]
<1>1. db \in Database
  BY DEF DatabaseOK
<1>2. /\ new \in Database /\ new.version = db.version /\ new.items = db.items \cup {item}
      /\ new.applied = db.applied /\ new.origin = db.origin /\ new.sound = db.sound
  BY <1>1 DEF Database
<1> QED
  BY <1>2, LatestAssumption DEF DatabaseOK, Safe, Saved
-------------------------------------------------------------------------------
(* What a step does to the database.                                         *)

\* The database at the path is the same, in whatever file.
Same ==
    /\ main' = None <=> main = None
    /\ main # None => Committed' = Committed

\* A commit, a checkpoint and the close of a connection.
LEMMA CommitDatabase ==
  ASSUME FilesOK, main # None, NEW db \in Database, Commit(db)
  PROVE  Committed' = db /\ main' = main /\ wal' # None /\ ~wal'.stale /\ wal'.image = db
<1>1. wal' = [stale |-> FALSE, image |-> db] /\ main' = main
  BY DEF Commit
<1>2. wal' \in Log
  BY <1>1 DEF Log
<1> QED
  BY <1>1, <1>2, NoneAssumption DEF Committed

LEMMA CheckpointDatabase ==
  ASSUME FilesOK, main # None, Checkpointed PROVE Same /\ wal' = None
<1>1. main' # None
  BY NoneAssumption DEF Checkpointed, FilesOK, DatabaseOK
<1> QED
  BY <1>1 DEF Checkpointed, Committed, Same

LEMMA EndDatabase ==
  ASSUME FilesOK, NEW p \in Procs, process[p] # None, ProcessOK(p), Ended(p)
  PROVE  /\ Same /\ main' \in {main, Committed}
         /\ wal' = None \/ (wal' = wal /\ main' = main)
<1>1. CASE Connected = {p}
  <2>1. main # None
    BY <1>1 DEF Connected, Running, At, ProcessOK
  <2> QED
    BY <1>1, <2>1, CheckpointDatabase DEF Ended, Checkpointed
<1>2. CASE Connected # {p}
  BY <1>2 DEF Ended, Same, Committed
<1> QED
  BY <1>1, <1>2

\* What others may do to the database of a process that has opened it.
Moves ==
    /\ restore' = restore /\ parted' = parted
    /\ migrations \subseteq migrations'
    /\ main = None => main' = None \/ (main' # None /\ Committed'.origin.version = 0)
    /\ main # None =>
          /\ main' # None
          /\ Committed'.origin = Committed.origin /\ Committed'.sound = Committed.sound
          /\ Committed'.items \in SUBSET Items /\ Committed.items \subseteq Committed'.items
          /\ Committed.sound =>
                \/ Committed'.version = Committed.version
                \/ /\ Committed'.version = Committed.version + 1
                   /\ Committed'.version <= Latest

LEMMA SameMoves ==
  ASSUME FilesOK, Same, restore' = restore, parted' = parted, migrations \subseteq migrations'
  PROVE  Moves
  BY DEF FilesOK, DatabaseOK, Database, Same, Moves

LEMMA OthersKept ==
  ASSUME FilesOK, RestoreOK, Moves, NEW q, ProcessOK(q), process[q] \in Process,
         process'[q] = process[q]
  PROVE  ProcessOK(q)'
<1>1. restore' = None /\ (process'[q].pc # "ping" => main' # None)
  BY DEF ProcessOK, Moves
<1>2. ASSUME main' # None, Committed'.sound
      PROVE  Knows(q)'
  <2>1. CASE process[q].pc = "ping" /\ main = None
    BY <1>2, <2>1 DEF Knows, Moves
  <2>2. CASE main # None
    <3>1. Committed.sound /\ Knows(q)
      BY <1>2, <2>2 DEF Moves, ProcessOK
    <3>2. Committed.version \in Nat /\ Committed.origin.version \in Nat
      BY <2>2, Versions DEF FilesOK, DatabaseOK, Database
    <3>3. Committed'.version \in Nat /\ Committed.version <= Committed'.version
      BY <2>2, <3>1, <3>2 DEF Moves
    <3>4. process[q].current \in Nat
      BY Versions DEF Process
    <3>5. Committed'.origin = Committed.origin /\ Committed.items \subseteq Committed'.items
      BY <2>2 DEF Moves
    <3>6. CASE process[q].pc = "ping"
      BY <3>1, <3>5, <3>6 DEF Knows
    <3>7. CASE process[q].pc # "ping"
      <4>1. Committed'.version <= Latest
        BY <2>2, <3>1, <3>2, <3>7 DEF Knows, Moves
      <4>2. Committed.version = Latest => Committed'.version = Latest
        BY <3>2, <3>3, <4>1, LatestAssumption
      <4>3. Saved(Committed.origin) => Saved(Committed.origin)'
        BY <3>5 DEF Saved, Moves
      <4>4. process'[q].current <= Committed'.version
        BY <3>1, <3>2, <3>3, <3>4, <3>7 DEF Knows
      <4> QED
        BY <3>1, <3>5, <3>7, <4>1, <4>2, <4>3, <4>4 DEF Knows
    <3> QED
      BY <3>6, <3>7
  <2> QED
    BY <2>1, <2>2 DEF ProcessOK
<1> QED
  BY <1>1, <1>2 DEF ProcessOK

LEMMA KeptMoves ==
  ASSUME Kept, Moves, preserved' = preserved,
         captured' \subseteq captured \cup (IF main' = None THEN {} ELSE Committed'.items)
  PROVE  Kept'
  BY DEF Kept, Moves

\* The files are in order if each of them is, whichever is read.
LEMMA FilesKept ==
  ASSUME FilesOK, migrations \subseteq migrations', parted => parted',
         main' \in Database \cup {None}, wal' \in Log \cup {None},
         \A db \in Stored' : db \in Stored \/ (DatabaseOK(db) /\ Safe(db)),
         LogOK'
  PROVE  FilesOK'
<1>1. ASSUME NEW db \in Stored'
      PROVE  DatabaseOK(db) /\ Safe(db)'
  BY <1>1 DEF FilesOK, Safe, Saved
<1>2. ASSUME main' # None
      PROVE  DatabaseOK(Committed') /\ Safe(Committed)'
  <2>1. CASE wal' = None
    <3>1. Committed' = main' /\ main' \in Stored'
      BY <1>2, <2>1 DEF Committed, Stored
    <3> QED
      BY <1>1, <3>1 DEF Safe, Saved
  <2>2. CASE wal' # None /\ wal'.stale
    <3>1. Committed' = [main' EXCEPT !.sound = FALSE]
      BY <2>2 DEF Committed
    <3>2. Committed' \in Database /\ ~Committed'.sound
      BY <1>2, <3>1 DEF Database
    <3> QED
      BY <2>2, <3>2 DEF DatabaseOK, Safe, LogOK
  <2>3. CASE wal' # None /\ ~wal'.stale
    <3>1. Committed' = wal'.image /\ wal'.image # None
      BY <2>3, NoneAssumption DEF Committed, Log
    <3>2. wal'.image \in Stored'
      BY <2>3, <3>1 DEF Stored
    <3> QED
      BY <1>1, <3>1, <3>2 DEF Safe, Saved
  <2> QED
    BY <2>1, <2>2, <2>3
<1> QED
  BY <1>1, <1>2 DEF FilesOK, DatabaseOK
-------------------------------------------------------------------------------
(* The steps.                                                                *)

\* A step of one process that leaves the database and the copies alone.
LEMMA QuietStep ==
  ASSUME Inv, NEW p \in Procs, Same, FilesOK',
         UNCHANGED <<restore, copies, history, restores>>,
         main' \in Database \cup {None}, wal' \in Log \cup {None}, probe' \in BOOLEAN,
         crashes' \in 0..MaxCrashes,
         NEW row \in Process \cup {None}, process' = [process EXCEPT ![p] = row],
         row # None => /\ ProcessOK(p)'
                       /\ row.pc = "copy" => process[p] # None /\ process[p].pc = "copy",
         restore = None
  PROVE  Inv'
<1>1. Moves
  BY SameMoves DEF Inv, copies
<1>2. TypeOK'
  BY DEF Inv, TypeOK, copies
<1>3. ProcessesOK'
  BY <1>1, OthersKept DEF Inv, ProcessesOK, Running, TypeOK
<1>4. RestoreOK'
  BY DEF RestoreOK
<1>5. Kept'
  BY <1>1, KeptMoves DEF Inv, copies
<1>6. CopyOK'
  BY DEF Inv, CopyOK, Running, TypeOK, copies
<1> QED
  BY <1>2, <1>3, <1>4, <1>5, <1>6 DEF Inv

\* The files after a commit that changes nothing, a checkpoint, or nothing.
LEMMA SameFiles ==
  ASSUME Inv, Same, UNCHANGED <<restore, copies, parted>>, main' \in {main, Committed},
         \/ wal' = None \/ (wal' = wal /\ main' = main)
         \/ main # None /\ wal' = [stale |-> FALSE, image |-> Committed]
  PROVE  FilesOK' /\ main' \in Database \cup {None} /\ wal' \in Log \cup {None}
<1> USE DEF copies
<1>1. main # None => Committed \in Database /\ Committed # None /\ main' # None
  BY NoneAssumption DEF Inv, FilesOK, DatabaseOK, Same
<1>2. main = None => main' = None
  BY DEF Same
<1>3. main # None => [stale |-> FALSE, image |-> Committed] \in Log
  BY <1>1 DEF Log
<1>4. main' \in Database \cup {None} /\ wal' \in Log \cup {None}
  BY <1>1, <1>2, <1>3 DEF Inv, TypeOK
<1>5. LogOK'
  BY <1>1, <1>3 DEF Inv, FilesOK, LogOK
<1>6. \A db \in Stored' : db \in Stored \/ (main # None /\ db = Committed)
  BY <1>1, <1>2, <1>3, NoneAssumption DEF Stored
<1>7. FilesOK'
  BY <1>4, <1>5, <1>6, FilesKept DEF Inv, FilesOK
<1> QED
  BY <1>4, <1>7

\* A process that takes a step with its database unchanged has not been ahead of
\* it before and is not now.
LEMMA StepProcess ==
  ASSUME Inv, NEW p \in Procs, process[p] # None
  PROVE  /\ process[p] \in Process /\ ProcessOK(p) /\ restore = None
         /\ process[p].pc # "ping" =>
               /\ main # None /\ Committed \in Database /\ DatabaseOK(Committed)
               /\ Safe(Committed) /\ (Committed.sound => Knows(p))
  BY DEF Inv, TypeOK, ProcessesOK, ProcessOK, Running, FilesOK, DatabaseOK

LEMMA StatStep ==
  ASSUME Inv, NEW p \in Procs, Stat(p) PROVE Inv'
<1> DEFINE row == [pc |-> "ping", existed |-> main # None, current |-> 0,
                   version |-> 0, ranked |-> FALSE, held |-> {}]
<1>1. row \in Process
  BY Versions DEF Process
<1>2. Same /\ FilesOK' /\ main' \in Database \cup {None} /\ wal' \in Log \cup {None}
  BY SameFiles DEF Stat, Same, Committed, Inv
<1>3. process'[p] = row
  BY DEF Stat, Inv, TypeOK
<1>4. /\ process'[p].pc = "ping" /\ restore' = None /\ main' = main
      /\ ~process'[p].existed => main = None
  <2>1. row.pc = "ping" /\ (row.existed = (main # None))
    OBVIOUS
  <2> QED
    BY <1>3, <2>1 DEF Stat
<1>5. ProcessOK(p)'
  BY <1>4 DEF ProcessOK, Knows
<1> QED
  BY <1>1, <1>2, <1>5, QuietStep DEF Stat, Inv, TypeOK, bounds

LEMMA EndStep ==
  ASSUME Inv, NEW p \in Procs, process[p] # None,
         \/ Ended(p) \/ (process' = [process EXCEPT ![p] = None] /\ UNCHANGED <<main, wal>>),
         UNCHANGED <<probe, restore, copies, history, restores>>,
         crashes' \in 0..MaxCrashes
  PROVE  Inv'
<1>1. restore = None /\ ProcessOK(p)
  BY StepProcess
<1>2. process' = [process EXCEPT ![p] = None]
  BY DEF Ended
<1>3. /\ Same /\ main' \in {main, Committed}
      /\ wal' = None \/ (wal' = wal /\ main' = main)
  <2>1. CASE Ended(p)
    BY <1>1, <2>1, EndDatabase DEF Inv
  <2>2. CASE UNCHANGED <<main, wal>>
    BY <2>2 DEF Same, Committed
  <2> QED
    BY <2>1, <2>2
<1>4. FilesOK' /\ main' \in Database \cup {None} /\ wal' \in Log \cup {None}
  BY <1>3, SameFiles
<1> QED
  BY <1>1, <1>2, <1>3, <1>4, QuietStep DEF Inv, TypeOK

\* A running process goes on with its database as it is: what is left to show is
\* what it knows of it.
LEMMA GoOn ==
  ASSUME Inv, NEW p \in Procs, process[p] # None, process[p].pc # "ping",
         NEW row \in Process, process' = [process EXCEPT ![p] = row],
         row.pc # "ping", row.current = process[p].current,
         row.pc = "copy" => process[p].pc = "copy" /\ row.held = process[p].held,
         row.pc # "backup" \/ process[p].pc = "backup",
         row.pc = "migrate" => process[p].pc = "migrate",
         Committed.sound /\ row.pc \in {"select", "delete", "check", "open", "copy"} =>
             Committed.version = Latest,
         UNCHANGED <<restore, copies, history, bounds>>, probe' \in BOOLEAN,
         \/ UNCHANGED <<main, wal>> \/ Commit(Committed) \/ Checkpointed
  PROVE  Inv'
<1>1. /\ restore = None /\ main # None /\ Committed \in Database
      /\ DatabaseOK(Committed) /\ (Committed.sound => Knows(p))
  BY StepProcess
<1>2. /\ Same /\ main' \in {main, Committed}
      /\ \/ wal' = None \/ (wal' = wal /\ main' = main)
         \/ wal' = [stale |-> FALSE, image |-> Committed]
  <2>1. CASE Checkpointed
    BY <1>1, <2>1, CheckpointDatabase DEF Checkpointed, Inv
  <2>2. CASE Commit(Committed)
    BY <1>1, <2>2, CommitDatabase DEF Commit, Same, Inv
  <2>3. CASE UNCHANGED <<main, wal>>
    BY <2>3 DEF Same, Committed
  <2> QED
    BY <2>1, <2>2, <2>3
<1>3. FilesOK' /\ main' \in Database \cup {None} /\ wal' \in Log \cup {None}
  BY <1>1, <1>2, SameFiles
<1>4. process'[p] = row /\ Committed' = Committed /\ main' # None /\ restore' = None
  BY <1>1, <1>2 DEF Same, Inv, TypeOK
<1>5. migrations' = migrations
  BY DEF copies
<1>6. ProcessOK(p)'
  BY <1>1, <1>4, <1>5 DEF ProcessOK, Knows, Saved
<1> QED
  BY <1>1, <1>2, <1>3, <1>6, QuietStep DEF Inv, TypeOK, bounds

LEMMA OpenSteps ==
  ASSUME Inv, NEW p \in Procs,
         ProbeInsert(p) \/ ProbeSelect(p) \/ ProbeDelete(p) \/ Opened(p) \/ Checkpoint(p)
  PROVE  Inv'
<1> USE DEF At
<1>1. /\ process[p] # None /\ process[p] \in Process /\ process[p].pc # "ping"
      /\ process[p].current \in Nat /\ probe \in BOOLEAN
      /\ Committed.version \in Nat /\ Committed.version \in Version
      /\ Committed.sound => Knows(p) /\ Committed.version <= Latest
  BY StepProcess, Versions
     DEF ProbeInsert, ProbeSelect, ProbeDelete, Opened, Checkpoint, Process, Inv, TypeOK,
         Database, Knows
<1>2. ASSUME ProbeInsert(p)
      PROVE  Inv'
  <2> DEFINE row == [process[p] EXCEPT !.pc = "select", !.version = Committed.version]
  <2>1. row \in Process /\ row.pc = "select" /\ row.current = process[p].current
    BY <1>1 DEF Process
  <2>2. Committed.sound => Committed.version = Latest
    BY <1>1, <1>2, LatestAssumption DEF ProbeInsert, Knows
  <2>3. process' = [process EXCEPT ![p] = row]
    BY <1>2 DEF ProbeInsert
  <2> QED
    BY <1>1, <1>2, <2>1, <2>2, <2>3, GoOn DEF ProbeInsert
<1>3. ASSUME NEW pc \in {"delete", "check", "open"},
             NEW ranked \in BOOLEAN,
             process[p].pc \in {"select", "delete", "check"},
             process' = [process EXCEPT ![p].pc = pc, ![p].ranked = ranked],
             UNCHANGED <<restore, copies, history, bounds>>, probe' \in BOOLEAN,
             UNCHANGED <<main, wal>> \/ Commit(Committed)
      PROVE  Inv'
  <2> DEFINE row == [process[p] EXCEPT !.pc = pc, !.ranked = ranked]
  <2>1. row \in Process /\ row.pc = pc /\ row.current = process[p].current
    BY <1>1 DEF Process
  <2>2. Committed.sound => Committed.version = Latest
    BY <1>1, <1>3 DEF Knows
  <2>3. process' = [process EXCEPT ![p] = row]
    BY <1>3
  <2> QED
    BY <1>1, <1>3, <2>1, <2>2, <2>3, GoOn
<1>4. CASE ProbeSelect(p)
  BY <1>1, <1>3, <1>4 DEF ProbeSelect
<1>5. CASE ProbeDelete(p)
  <2>1. process' = [process EXCEPT ![p].pc = "check", ![p].ranked = process[p].ranked]
    BY <1>1, <1>5 DEF ProbeDelete, Goto, Process, Inv, TypeOK
  <2>2. process[p].ranked \in BOOLEAN
    BY <1>1 DEF Process
  <2> QED
    BY <1>1, <1>3, <1>5, <2>1, <2>2 DEF ProbeDelete
<1>6. CASE Opened(p)
  BY <1>1, <1>3, <1>6 DEF Opened
<1>7. CASE Checkpoint(p)
  <2>1. process' = [process EXCEPT ![p] = process[p]]
    BY <1>7 DEF Checkpoint, Inv, TypeOK
  <2>2. Committed.sound => Committed.version = Latest
    BY <1>1, <1>7 DEF Knows, Checkpoint
  <2> QED
    BY <1>1, <1>7, <2>1, <2>2, GoOn DEF Checkpoint
<1> QED
  BY <1>2, <1>4, <1>5, <1>6, <1>7

\* A step of a process that has work to do in the database.
LEMMA WorkStep ==
  ASSUME Inv, NEW p \in Procs, process[p] # None,
         NEW row \in Process, process' = [process EXCEPT ![p] = row],
         Moves, FilesOK', TypeOK', CopyOK', ProcessOK(p)', preserved' = preserved,
         captured' \subseteq captured \cup (IF main' = None THEN {} ELSE Committed'.items)
  PROVE  Inv'
<1>1. restore = None /\ restore' = None
  BY StepProcess DEF Moves
<1>2. ProcessesOK'
  BY OthersKept DEF Inv, ProcessesOK, Running, TypeOK
<1>3. Kept'
  BY KeptMoves DEF Inv
<1> QED
  BY <1>1, <1>2, <1>3 DEF Inv, RestoreOK

\* The files after the commit of another state of the database.
LEMMA CommitFiles ==
  ASSUME Inv, main # None, NEW db, DatabaseOK(db), Safe(db), Commit(db),
         UNCHANGED <<restore, copies, parted>>
  PROVE  /\ FilesOK' /\ main' \in Database \cup {None} /\ wal' \in Log \cup {None}
         /\ main' # None /\ Committed' = db
<1> USE DEF copies
<1>1. db \in Database
  BY DEF DatabaseOK
<1>2. Committed' = db /\ main' = main /\ wal' # None /\ ~wal'.stale /\ wal'.image = db
  BY <1>1, CommitDatabase DEF Inv
<1>3. wal' \in Log
  BY <1>1 DEF Commit, Log
<1>4. db # None
  BY <1>1, NoneAssumption
<1>5. LogOK'
  BY <1>2 DEF LogOK
<1>6. \A other \in Stored' : other \in Stored \/ other = db
  BY <1>2 DEF Stored
<1>7. FilesOK'
  BY <1>2, <1>3, <1>5, <1>6, FilesKept DEF Inv, FilesOK, TypeOK
<1> QED
  BY <1>2, <1>3, <1>7 DEF Inv, TypeOK

LEMMA MigrateStep ==
  ASSUME Inv, NEW p \in Procs, Migrate(p) PROVE Inv'
<1> DEFINE db == Committed
           current == process[p].current
           row == [process[p] EXCEPT !.current = current + 1]
           new == [db EXCEPT !.version = current + 1, !.applied = Append(@, current + 1)]
<1>1. /\ process[p] # None /\ process[p].pc = "migrate" /\ current < Latest
      /\ current + 1 \notin {db.applied[i] : i \in 1..Len(db.applied)}
      /\ Commit(new) /\ UNCHANGED <<probe, restore, copies, history, bounds>>
  BY DEF Migrate, Migrated, At
<1>2. /\ process[p] \in Process /\ (db.sound => Knows(p)) /\ restore = None
      /\ main # None /\ db \in Database /\ DatabaseOK(db) /\ Safe(db)
      /\ current \in Nat
  BY <1>1, StepProcess, Versions DEF Process
<1>3. db.sound => /\ current <= db.version /\ db.origin.version <= current
                  /\ db.origin.version = 0 \/ Saved(db.origin)
  BY <1>1, <1>2 DEF Knows
<1>4. /\ DatabaseOK(new) /\ Safe(new) /\ new.sound = db.sound
      /\ db.sound => new.version = db.version + 1 /\ new.version <= Latest
      /\ new.items = db.items /\ new.origin = db.origin
      /\ new.version = current + 1
  <2> HIDE DEF current, db
  <2>1. LET n == [db EXCEPT !.version = current + 1, !.applied = Append(@, current + 1)]
        IN /\ DatabaseOK(n) /\ Safe(n)
           /\ db.sound => n.version = db.version + 1 /\ n.version <= Latest
           /\ n.items = db.items /\ n.origin = db.origin /\ n.sound = db.sound
    BY <1>1, <1>2, <1>3, MigratedDatabase
  <2>2. new.version = current + 1
    BY <1>2 DEF Database
  <2> QED
    BY <2>1, <2>2
<1> HIDE DEF new
<1>5. /\ FilesOK' /\ main' \in Database \cup {None} /\ wal' \in Log \cup {None}
      /\ main' # None /\ Committed' = new
  BY <1>1, <1>2, <1>4, CommitFiles
<1>6. row \in Process /\ row.pc = "migrate" /\ row.current = current + 1
      /\ row.existed = process[p].existed
  <2>1. current + 1 \in Version
    BY <1>1, <1>2, Versions, LatestAssumption
  <2> QED
    BY <1>1, <1>2, <2>1 DEF Process
<1> HIDE DEF row
<1>7. process' = [process EXCEPT ![p] = row] /\ process'[p] = row
  BY DEF Migrate, row, Inv, TypeOK
<1>8. Moves
  BY <1>1, <1>2, <1>4, <1>5 DEF Moves, copies, Database
<1>9. TypeOK'
  BY <1>1, <1>5, <1>6, <1>7 DEF Inv, TypeOK, copies, bounds
<1>10. CopyOK'
  BY <1>1, <1>6, <1>7 DEF Inv, CopyOK, Running, TypeOK, copies
<1>11. ProcessOK(p)'
  <2>1. Saved(db.origin) => Saved(Committed.origin)'
    BY <1>1, <1>4, <1>5 DEF Saved, copies
  <2>2. new.origin.version \in Nat /\ db.version \in Nat
    BY <1>2, <1>4, Versions DEF Database
  <2> QED
    BY <1>1, <1>2, <1>3, <1>4, <1>5, <1>6, <1>7, <2>1, <2>2 DEF ProcessOK, Knows
<1> QED
  BY <1>1, <1>2, <1>5, <1>6, <1>7, <1>8, <1>9, <1>10, <1>11, WorkStep DEF copies

LEMMA CaptureStep ==
  ASSUME Inv, NEW p \in Procs, NEW item \in Items, Capture(p, item) PROVE Inv'
<1> DEFINE db == Committed
           new == [db EXCEPT !.items = @ \cup {item}]
<1>1. /\ process[p] # None /\ process[p].pc = "open" /\ Commit(new)
      /\ captured' = captured \cup {item}
      /\ UNCHANGED <<parted, probe, process, restore, copies, bounds>>
  BY DEF Capture, At
<1>2. /\ process[p] \in Process /\ ProcessOK(p) /\ restore = None
      /\ main # None /\ db \in Database /\ DatabaseOK(db) /\ Safe(db)
      /\ db.sound => db.version = Latest
  BY <1>1, StepProcess DEF Knows
<1>3. /\ DatabaseOK(new) /\ Safe(new) /\ new.version = db.version /\ new.sound = db.sound
      /\ new.origin = db.origin /\ new.items = db.items \cup {item}
  BY <1>2, CapturedDatabase
<1> HIDE DEF new
<1>4. /\ FilesOK' /\ main' \in Database \cup {None} /\ wal' \in Log \cup {None}
      /\ main' # None /\ Committed' = new
  BY <1>1, <1>2, <1>3, CommitFiles
<1>5. Moves
  BY <1>1, <1>2, <1>3, <1>4 DEF Moves, copies, Database
<1>6. TypeOK'
  BY <1>1, <1>4 DEF Inv, TypeOK, copies, bounds
<1>7. CopyOK'
  BY <1>1 DEF Inv, CopyOK, Running, copies
<1>8. ProcessOK(p)'
  BY <1>1, <1>2, <1>5, OthersKept DEF Inv
<1>9. process' = [process EXCEPT ![p] = process[p]]
  BY <1>1 DEF Inv, TypeOK
<1>10. captured' \subseteq captured \cup (IF main' = None THEN {} ELSE Committed'.items)
  BY <1>1, <1>3, <1>4
<1> QED
  BY <1>1, <1>2, <1>4, <1>5, <1>6, <1>7, <1>8, <1>9, <1>10, WorkStep DEF copies

\* The files after a copy of the database was written, or removed.
LEMMA CopiedFiles ==
  ASSUME Inv, UNCHANGED <<main, wal, restore, parted>>, migrations \subseteq migrations',
         \A db \in Stored' : db \in Stored \/ (DatabaseOK(db) /\ Safe(db))
  PROVE  FilesOK' /\ Committed' = Committed /\ Same
<1>1. Committed' = Committed
  BY DEF Committed
<1>2. LogOK'
  BY DEF Inv, FilesOK, LogOK
<1>3. FilesOK'
  BY <1>2, FilesKept DEF Inv, TypeOK
<1> QED
  BY <1>1, <1>3 DEF Same

LEMMA BackupBeforeMigrationStep ==
  ASSUME Inv, NEW p \in Procs, BackupBeforeMigration(p) PROVE Inv'
<1> DEFINE row == [process[p] EXCEPT !.pc = "migrate"]
<1>1. /\ process[p] # None /\ process[p].pc = "backup"
      /\ migrations' = migrations \cup {Committed}
      /\ process' = [process EXCEPT ![p] = row]
      /\ UNCHANGED <<probe, main, wal, restore, output, promised, preserved, history, bounds>>
  BY DEF BackupBeforeMigration, At, Snapshot, Goto
<1>2. /\ process[p] \in Process /\ Knows(p) /\ Committed.sound /\ restore = None
      /\ main # None /\ Committed \in Database /\ DatabaseOK(Committed)
      /\ Safe(Committed) /\ process[p].current \in Nat
  BY <1>1, StepProcess, Versions DEF Process, BackupBeforeMigration, Snapshot
<1>3. \A db \in Stored' : db \in Stored \/ db = Committed
  BY <1>1 DEF Stored
<1>4. FilesOK' /\ Committed' = Committed /\ Same
  BY <1>1, <1>2, <1>3, CopiedFiles
<1>5. /\ row \in Process /\ row.pc = "migrate" /\ row.current = process[p].current
      /\ process'[p] = row
  BY <1>1, <1>2 DEF Process, Inv, TypeOK
<1> HIDE DEF row
<1>6. Moves
  BY <1>1, <1>4, SameMoves DEF Inv
<1>7. TypeOK'
  BY <1>1, <1>2, <1>5 DEF Inv, TypeOK, bounds
<1>8. CopyOK'
  BY <1>1, <1>5 DEF Inv, CopyOK, Running, TypeOK
<1>9. Committed.origin.version = 0 \/ Saved(Committed.origin)'
  <2>1. CASE Committed.version = Committed.origin.version /\ Committed.origin.version # 0
    <3>1. Committed.version < Latest
      <4>1. process[p].current < Latest /\ Committed.origin.version <= process[p].current
        BY <1>1, <1>2 DEF Knows
      <4>2. Committed.version \in Nat
        BY <1>2, Versions DEF Database
      <4> QED
        BY <1>2, <2>1, <4>1, <4>2, LatestAssumption
    <3>2. Committed.items = Committed.origin.items /\ Committed.sound
      BY <1>2, <2>1, <3>1 DEF DatabaseOK
    <3> QED
      BY <1>1, <1>4, <2>1, <3>2 DEF Saved
  <2>2. CASE Committed.version # Committed.origin.version
    BY <1>1, <1>2, <1>4, <2>2 DEF Safe, Saved
  <2> QED
    BY <2>1, <2>2
<1>10. ProcessOK(p)'
  BY <1>1, <1>2, <1>4, <1>5, <1>9 DEF ProcessOK, Knows
<1> QED
  BY <1>1, <1>2, <1>4, <1>5, <1>6, <1>7, <1>8, <1>10, WorkStep

\* The first statement of a process.
LEMMA PingStep ==
  ASSUME Inv, NEW p \in Procs, Ping(p) PROVE Inv'
<1> DEFINE current == IF main = None THEN 0 ELSE Committed.version
           pc == IF NeedsBackup(process[p].existed, current) THEN "backup" ELSE "migrate"
           row == [process[p] EXCEPT !.current = current, !.existed = FALSE, !.pc = pc]
<1>1. /\ process[p] # None /\ process[p].pc = "ping" /\ current <= Latest
      /\ process' = [process EXCEPT ![p] = row]
      /\ UNCHANGED <<probe, restore, copies, history, bounds>>
      /\ IF main = None THEN main' = NoDatabase /\ wal' = None ELSE UNCHANGED <<main, wal>>
  BY DEF Ping, At, Supported
<1>2. process[p] \in Process /\ ProcessOK(p) /\ restore = None
  BY <1>1, StepProcess
<1>3. /\ DatabaseOK(NoDatabase) /\ Safe(NoDatabase) /\ NoDatabase \in Database
      /\ NoDatabase.version = 0 /\ NoDatabase.origin.version = 0 /\ NoDatabase # None
  <2>1. 0 \in Version /\ {} \in SUBSET Items
    BY Versions
  <2>2. DatabaseOK(NoDatabase) /\ Safe(NoDatabase)
    BY <2>1, LeftDatabase DEF NoDatabase
  <2>3. NoDatabase.version = 0 /\ NoDatabase.origin.version = 0
    BY DEF NoDatabase, Left
  <2> QED
    BY <2>2, <2>3, NoneAssumption DEF DatabaseOK
<1>4. /\ FilesOK' /\ main' # None /\ Committed'.version = current
      /\ Committed'.sound => Committed'.origin.version <= current
      /\ IF main = None THEN Committed'.origin.version = 0 ELSE Committed' = Committed
      /\ main' \in Database \cup {None} /\ wal' \in Log \cup {None}
  <2>1. CASE main = None
    <3>1. Committed' = NoDatabase
      BY <1>1, <2>1 DEF Committed
    <3>2. \A db \in Stored' : db \in Stored \/ db = NoDatabase
      BY <1>1, <2>1 DEF Stored, copies
    <3>3. FilesOK'
      BY <1>1, <1>3, <2>1, <3>2, FilesKept DEF Inv, LogOK, copies
    <3> QED
      BY <1>1, <1>3, <2>1, <3>1, <3>3
  <2>2. CASE main # None
    <3>1. FilesOK' /\ Committed' = Committed
      BY <1>1, <2>2, CopiedFiles DEF Stored, copies
    <3> QED
      BY <1>1, <2>2, <3>1 DEF Inv, TypeOK, FilesOK, DatabaseOK
  <2> QED
    BY <2>1, <2>2
<1>5. current \in Version /\ current \in Nat
  <2>1. main # None => Committed.version \in Version
    BY DEF Inv, FilesOK, DatabaseOK, Database
  <2> QED
    BY <2>1, Versions
<1>6. /\ row.pc = "backup" => current < Latest
      /\ row.pc = "migrate" /\ current < Latest => ~process[p].existed
      /\ row.pc \in {"backup", "migrate"}
  BY <1>2 DEF NeedsBackup, Process
<1>7. row \in Process /\ row.current = current /\ ~row.existed /\ process'[p] = row
  BY <1>1, <1>2, <1>5 DEF Process, Inv, TypeOK
<1> HIDE DEF row, pc
<1>8. Moves
  <2>1. CASE main = None
    BY <1>1, <1>4, <2>1 DEF Moves, copies
  <2>2. CASE main # None
    BY <1>1, <1>4, <2>2, SameMoves DEF Same, Inv, copies
  <2> QED
    BY <2>1, <2>2
<1>9. TypeOK'
  BY <1>1, <1>4, <1>7 DEF Inv, TypeOK, copies, bounds
<1>10. CopyOK'
  BY <1>1, <1>6, <1>7 DEF Inv, CopyOK, Running, TypeOK, copies
<1>11. Committed'.sound /\ row.pc = "migrate" /\ current < Latest =>
          Committed'.origin.version = 0
  BY <1>1, <1>2, <1>4, <1>6 DEF ProcessOK, Knows
<1>12. ProcessOK(p)'
  BY <1>1, <1>2, <1>4, <1>5, <1>6, <1>7, <1>11 DEF ProcessOK, Knows
<1> QED
  BY <1>1, <1>2, <1>4, <1>7, <1>8, <1>9, <1>10, <1>12, WorkStep DEF copies

\* data backup, at its begin and at its end.
LEMMA CopyStep ==
  ASSUME Inv, NEW p \in Procs, process[p] # None, process[p].pc \in {"open", "copy"},
         NEW pc \in {"open", "copy"}, NEW held \in SUBSET Items,
         process' = [process EXCEPT ![p].pc = pc, ![p].held = held],
         pc = "copy" => held \subseteq Committed.items,
         UNCHANGED <<probe, main, wal, restore, preserved, migrations, history, bounds>>,
         output' = None \/ (DatabaseOK(output') /\ Safe(output')),
         promised' \in SUBSET Items,
         output' = None => promised' = {},
         output' # None => promised' \subseteq output'.items,
         pc = "copy" => promised' = {} /\ output' # None,
         \A q \in Running \ {p} : process[q].pc # "copy"
  PROVE  Inv'
<1> DEFINE row == [process[p] EXCEPT !.pc = pc, !.held = held]
<1>1. /\ process[p] \in Process /\ ProcessOK(p) /\ restore = None
      /\ main # None /\ Committed \in Database
  BY StepProcess
<1>2. /\ row \in Process /\ row.pc = pc /\ row.held = held
      /\ row.current = process[p].current /\ process' = [process EXCEPT ![p] = row]
      /\ process'[p] = row
  BY <1>1 DEF Process, Inv, TypeOK
<1> HIDE DEF row
<1>3. \A db \in Stored' : db \in Stored \/ (db = output' /\ db # None)
  BY DEF Stored
<1>4. FilesOK' /\ Committed' = Committed /\ Same
  BY <1>3, CopiedFiles
<1>5. Moves
  BY <1>4, SameMoves DEF Inv
<1>6. TypeOK'
  BY <1>2 DEF Inv, TypeOK, bounds, DatabaseOK
<1>7. CopyOK'
  BY <1>2 DEF CopyOK, Running, Inv, TypeOK
<1>8. ProcessOK(p)'
  BY <1>1, <1>2, <1>4 DEF ProcessOK, Knows
<1> QED
  BY <1>1, <1>2, <1>4, <1>5, <1>6, <1>7, <1>8, WorkStep

LEMMA BackupSteps ==
  ASSUME Inv, NEW p \in Procs, BeginBackup(p) \/ FinishBackup(p) \/ BackupFails(p)
  PROVE  Inv'
<1>1. /\ process[p] # None /\ process[p].pc \in {"open", "copy"}
      /\ process[p] \in Process /\ ProcessOK(p)
      /\ Committed \in Database /\ DatabaseOK(Committed) /\ Safe(Committed)
      /\ Committed.items \in SUBSET Items
  <2>1. process[p] # None /\ process[p].pc \in {"open", "copy"}
    BY DEF BeginBackup, FinishBackup, BackupFails, At
  <2> QED
    BY <2>1, StepProcess DEF Database
<1>2. CASE BeginBackup(p)
  <2>1. 0 \in Version /\ {} \in SUBSET Items
    BY Versions
  <2>2. DatabaseOK(NoDatabase) /\ Safe(NoDatabase) /\ NoDatabase # None
    BY <2>1, LeftDatabase, NoneAssumption DEF NoDatabase, DatabaseOK
  <2>3. process' = [process EXCEPT ![p].pc = "copy", ![p].held = Committed.items]
    BY <1>2 DEF BeginBackup
  <2>4. promised = {} /\ \A q \in Running : process[q].pc # "copy"
    BY <1>2 DEF BeginBackup, Inv, CopyOK
  <2>5. /\ output' # None /\ DatabaseOK(output') /\ Safe(output')
    BY <1>2, <2>2 DEF BeginBackup, Safe, Saved
  <2> QED
    BY <1>1, <1>2, <2>3, <2>4, <2>5, CopyStep DEF BeginBackup
<1>3. ASSUME process[p].pc = "copy"
      PROVE  \A q \in Running \ {p} : process[q].pc # "copy"
  BY <1>1, <1>3 DEF Running, Inv, CopyOK
<1>4. CASE FinishBackup(p)
  <2>1. process' = [process EXCEPT ![p].pc = "open", ![p].held = {}]
        /\ process[p].pc = "copy"
    BY <1>4 DEF FinishBackup, At
  <2>2. promised' = process[p].held /\ output' = Committed
    BY <1>4 DEF FinishBackup, Snapshot
  <2>3. process[p].held \subseteq Committed.items
    BY <1>1, <1>4, <2>1, StepProcess DEF Knows, FinishBackup, Snapshot
  <2>4. output' # None /\ DatabaseOK(output') /\ Safe(output')
    BY <1>1, <1>4, <2>2, NoneAssumption DEF Safe, Saved, FinishBackup
  <2>5. \A q \in Running \ {p} : process[q].pc # "copy"
    BY <1>3, <2>1
  <2>6. PICK held : held = {} /\ held \in SUBSET Items
    <3>1. {} = {} /\ {} \in SUBSET Items
      OBVIOUS
    <3> WITNESS {}
    <3> QED
      BY <3>1
  <2>7. process' = [process EXCEPT ![p].pc = "open", ![p].held = held]
    BY <2>1, <2>6
  <2> QED
    BY <1>1, <1>4, <2>2, <2>3, <2>4, <2>5, <2>6, <2>7, CopyStep DEF FinishBackup
<1>5. CASE BackupFails(p)
  <2>1. process' = [process EXCEPT ![p].pc = "open", ![p].held = {}]
        /\ process[p].pc = "copy"
    BY <1>5 DEF BackupFails, At
  <2>2. promised = {}
    BY <1>1, <2>1 DEF Inv, CopyOK, Running
  <2>3. \A q \in Running \ {p} : process[q].pc # "copy"
    BY <1>3, <2>1
  <2>4. PICK held : held = {} /\ held \in SUBSET Items
    <3>1. {} = {} /\ {} \in SUBSET Items
      OBVIOUS
    <3> WITNESS {}
    <3> QED
      BY <3>1
  <2>5. process' = [process EXCEPT ![p].pc = "open", ![p].held = held]
    BY <2>1, <2>4
  <2> QED
    BY <1>1, <1>5, <2>2, <2>3, <2>4, <2>5, CopyStep DEF BackupFails
<1> QED
  BY <1>2, <1>4, <1>5

\* Nobody has the database open while a restore runs.
LEMMA RestoreAlone == ASSUME Inv, restore # None PROVE Running = {}
  BY DEF Inv, ProcessesOK, ProcessOK

\* A step of a restore that puts no other database anywhere.
LEMMA RestoreStep ==
  ASSUME Inv, Running = {}, TypeOK', RestoreOK', Kept', LogOK', parted => parted',
         UNCHANGED <<process, output, promised, migrations>>,
         Stored' \subseteq Stored
  PROVE  Inv'
<1>1. FilesOK'
  BY FilesKept DEF Inv, TypeOK
<1>2. ProcessesOK' /\ CopyOK'
  BY DEF ProcessesOK, CopyOK, Running, Inv
<1> QED
  BY <1>1, <1>2 DEF Inv

LEMMA RestoreSteps ==
  ASSUME Inv,
         \/ \E source \in Backups, overwrite \in BOOLEAN : BeginRestore(source, overwrite)
         \/ Preserve \/ Install \/ InstallFails \/ Abandon
  PROVE  Inv'
<1>1. wal = None => Committed = main
  BY DEF Committed
<1>2. ASSUME NEW source \in Backups, NEW overwrite \in BOOLEAN,
             BeginRestore(source, overwrite)
      PROVE  Inv'
  <2>1. source \in Stored /\ source \in Database /\ None \notin Database
    <3>1. source # None
      BY NoneAssumption DEF Backups, Inv, TypeOK
    <3>2. source \in Stored
      BY <3>1 DEF Backups, Stored
    <3> QED
      BY <3>2, NoneAssumption DEF Inv, FilesOK, DatabaseOK
  <2>2. /\ restore' = [temporary |-> source, replaced |-> None,
                       pc |-> IF main # None THEN "preserve" ELSE "install"]
        /\ restores' = restores + 1 /\ restores < MaxRestores
        /\ Running = {} /\ restore = None
        /\ UNCHANGED <<probe, main, wal, process, copies, history, crashes>>
    BY <1>2 DEF BeginRestore
  <2>3. restore' \in Restore /\ restore' # None
    BY <2>1, <2>2, NoneAssumption DEF Restore
  <2>4. TypeOK'
    BY <2>2, <2>3, BoundAssumption DEF Inv, TypeOK, copies
  <2>5. RestoreOK' /\ LogOK'
    BY <2>2 DEF RestoreOK, LogOK, Inv, FilesOK
  <2>6. Kept'
    BY <2>2 DEF Kept, Inv, copies, Committed
  <2>7. Stored' \subseteq Stored
    BY <2>1, <2>2, <2>3 DEF Stored, copies
  <2> QED
    BY <2>2, <2>4, <2>5, <2>6, <2>7, RestoreStep DEF copies
<1>3. ASSUME restore # None
      PROVE  /\ Running = {} /\ restore \in Restore
             /\ restore.temporary \in Database /\ restore.temporary # None
             /\ restore.temporary \in Stored
  <2>1. Running = {} /\ restore \in Restore
    BY <1>3, RestoreAlone DEF Inv, TypeOK
  <2>2. restore.temporary \in Database /\ restore.temporary # None
    BY <2>1, NoneAssumption DEF Restore
  <2> QED
    BY <1>3, <2>1, <2>2 DEF Stored
<1>4. CASE Preserve
  <2>1. /\ restore # None /\ restore.pc = "preserve"
        /\ preserved' = preserved \cup {main} /\ main' = None
        /\ restore' = [restore EXCEPT !.replaced = main, !.pc = "install"]
        /\ parted' = (parted \/ wal # None)
        /\ UNCHANGED <<probe, wal, process, output, promised, migrations, captured, bounds>>
    BY <1>4 DEF Preserve
  <2>2. main # None /\ main \in Database /\ main \in Stored
    BY <2>1 DEF Inv, RestoreOK, TypeOK, Stored
  <2>3. /\ restore' \in Restore /\ restore' # None /\ restore'.pc = "install"
        /\ restore'.replaced = main /\ restore'.temporary = restore.temporary
    BY <1>3, <2>1, <2>2, NoneAssumption DEF Restore
  <2>4. TypeOK'
    BY <2>1, <2>2, <2>3 DEF Inv, TypeOK, bounds
  <2>5. RestoreOK' /\ LogOK'
    <3>1. main' = None /\ (parted' \/ wal' = None) /\ main \in preserved'
      BY <2>1 DEF Inv, TypeOK
    <3> QED
      BY <2>3, <3>1 DEF RestoreOK, LogOK
  <2>6. Kept'
    BY <1>1, <1>3, <2>1, <2>2 DEF Kept, Inv
  <2>7. Stored' \subseteq Stored
    BY <1>3, <2>1, <2>2, <2>3 DEF Stored
  <2> QED
    BY <1>3, <2>1, <2>4, <2>5, <2>6, <2>7, RestoreStep
<1>5. CASE Install
  <2>1. /\ restore # None /\ restore.pc = "install"
        /\ main' = restore.temporary /\ restore' = None
        /\ wal' = IF wal = None THEN None ELSE [wal EXCEPT !.stale = TRUE]
        /\ UNCHANGED <<probe, process, copies, history, bounds>>
    BY <1>5 DEF Install
  <2>2. main = None /\ (parted \/ wal = None) /\ LogOK'
    BY <2>1 DEF Inv, RestoreOK, LogOK
  <2>3. TypeOK' /\ (wal # None => wal'.image = wal.image)
    <3>1. wal # None => wal' \in Log /\ wal'.image = wal.image
      BY <2>1 DEF Log, Inv, TypeOK
    <3> QED
      BY <1>3, <2>1, <3>1 DEF Inv, TypeOK, copies, bounds
  <2>4. Kept'
    BY <2>1, <2>2 DEF Kept, Inv, copies
  <2>5. Stored' \subseteq Stored
    BY <1>3, <2>1, <2>3 DEF Stored, copies
  <2> QED
    BY <1>3, <2>1, <2>2, <2>3, <2>4, <2>5, RestoreStep DEF RestoreOK, copies
<1>6. CASE InstallFails
  <2>1. /\ restore # None /\ restore.pc = "install" /\ restore.replaced # None
        /\ main' = restore.replaced /\ preserved' = preserved \ {restore.replaced}
        /\ restore' = None
        /\ UNCHANGED <<probe, wal, process, output, promised, migrations, history, bounds>>
    BY <1>6 DEF InstallFails
  <2>2. /\ main = None /\ restore.replaced \in preserved /\ restore.replaced \in Database
        /\ parted \/ wal = None
    BY <2>1 DEF Inv, RestoreOK, TypeOK
  <2>3. TypeOK'
    BY <2>1, <2>2 DEF Inv, TypeOK, bounds
  <2>4. Kept'
    <3>1. main' # None /\ (parted \/ Committed' = restore.replaced)
      BY <2>1, <2>2 DEF Committed
    <3> QED
      BY <2>1, <2>2, <3>1 DEF Kept, Inv
  <2>5. Stored' \subseteq Stored
    BY <1>3, <2>1, <2>2 DEF Stored
  <2>6. LogOK'
    BY <2>1, <2>2 DEF LogOK
  <2> QED
    BY <1>3, <2>1, <2>3, <2>4, <2>5, <2>6, RestoreStep DEF RestoreOK
<1>7. CASE Abandon
  <2>1. /\ restore # None /\ restore' = None
        /\ UNCHANGED <<probe, main, wal, process, copies, history, bounds>>
    BY <1>7 DEF Abandon
  <2>2. TypeOK'
    BY <2>1 DEF Inv, TypeOK, copies, bounds
  <2>3. Kept'
    BY <2>1 DEF Kept, Inv, copies, Committed
  <2>4. Stored' \subseteq Stored
    BY <2>1 DEF Stored, copies
  <2>5. LogOK'
    BY <2>1 DEF LogOK, Inv, FilesOK
  <2> QED
    BY <1>3, <2>1, <2>2, <2>3, <2>4, <2>5, RestoreStep DEF RestoreOK, copies
<1> QED
  BY <1>2, <1>4, <1>5, <1>6, <1>7
-------------------------------------------------------------------------------
LEMMA InitInv == Init => Inv
<1> SUFFICES ASSUME Init PROVE Inv
  OBVIOUS
<1>1. (main = None /\ captured = {}) \/ (main # None /\ DatabaseOK(main) /\ Safe(main)
                       /\ main.items = captured)
  <2>1. ASSUME NEW version \in Found, main = Left(version, captured)
        PROVE  main # None /\ DatabaseOK(main) /\ Safe(main) /\ main.items = captured
    <3>1. version \in Version /\ captured \in SUBSET Items
      BY DEF Version, Init
    <3>2. DatabaseOK(Left(version, captured)) /\ Safe(Left(version, captured))
      BY <3>1, LeftDatabase
    <3>3. Left(version, captured) # None /\ Left(version, captured).items = captured
      BY <3>2, NoneAssumption DEF DatabaseOK, Left
    <3> QED
      BY <2>1, <3>2, <3>3 DEF Safe, Saved
  <2> QED
    BY <2>1 DEF Init
<1>2. Committed = main
  BY DEF Init, Committed
<1>3. TypeOK
  <2>1. 0 \in 0..MaxCrashes /\ 0 \in 0..MaxRestores
    BY BoundAssumption
  <2>2. process \in [Procs -> Process \cup {None}]
    BY DEF Init
  <2> QED
    BY <1>1, <2>1, <2>2 DEF Init, TypeOK, DatabaseOK
<1>4. FilesOK
  <2>1. Stored \subseteq {main}
    BY DEF Stored, Init
  <2>2. None \notin Stored
    BY DEF Stored
  <2> QED
    BY <1>1, <1>2, <2>1, <2>2 DEF FilesOK, LogOK, Init
<1>5. ProcessesOK /\ RestoreOK /\ CopyOK
  BY DEF ProcessesOK, RestoreOK, CopyOK, Running, Init
<1>6. Kept
  BY <1>1, <1>2 DEF Kept, Init
<1> QED
  BY <1>3, <1>4, <1>5, <1>6 DEF Inv

LEMMA NextInv == Inv /\ [Next]_vars => Inv'
<1> SUFFICES ASSUME Inv, [Next]_vars PROVE Inv'
  OBVIOUS
<1>1. ASSUME NEW p \in Procs, Close(p) \/ OpenFails(p) \/ Crash(p)
      PROVE  Inv'
  <2>1. process[p] # None
    BY <1>1 DEF Close, OpenFails, Crash, Running, At
  <2>2. CASE Crash(p)
    <3>1. crashes' \in 0..MaxCrashes
      BY <2>2, BoundAssumption DEF Crash, Inv, TypeOK
    <3> QED
      BY <2>1, <2>2, <3>1, EndStep DEF Crash
  <2>3. CASE Close(p) \/ OpenFails(p)
    <3>1. crashes' \in 0..MaxCrashes
      BY <2>3 DEF Close, OpenFails, bounds, Inv, TypeOK
    <3> QED
      BY <2>1, <2>3, <3>1, EndStep DEF Close, OpenFails, bounds
  <2> QED
    BY <1>1, <2>2, <2>3
<1>2. CASE UNCHANGED vars
  <2>1. Stored' = Stored /\ Committed' = Committed /\ Running' = Running
    BY <1>2 DEF Stored, Committed, Running, vars
  <2>2. TypeOK'
    BY <1>2 DEF Inv, TypeOK, vars
  <2>3. \A db : (DatabaseOK(db) => DatabaseOK(db)') /\ (Safe(db) => Safe(db)')
    BY <1>2 DEF DatabaseOK, Safe, Saved, vars
  <2>4. FilesOK'
    BY <1>2, <2>1, <2>3 DEF Inv, FilesOK, LogOK, vars
  <2>5. ProcessesOK'
    BY <1>2, <2>1 DEF Inv, ProcessesOK, ProcessOK, Knows, Saved, vars
  <2>6. RestoreOK' /\ Kept'
    BY <1>2, <2>1 DEF Inv, RestoreOK, Kept, vars
  <2>7. CopyOK'
    BY <1>2, <2>1 DEF Inv, CopyOK, vars
  <2> QED
    BY <2>2, <2>4, <2>5, <2>6, <2>7 DEF Inv
<1> QED
  BY <1>1, <1>2, StatStep, PingStep, BackupBeforeMigrationStep, MigrateStep, OpenSteps,
     BackupSteps, CaptureStep, RestoreSteps DEF Next

LEMMA InvHolds == Spec => []Inv
  BY InitInv, NextInv, PTL DEF Spec
-------------------------------------------------------------------------------
\* Variables keep their types, also when a restore finds a log: what a commit or a
\* checkpoint writes is always a database.
THEOREM TypeCorrect == Spec => []TypeOK
<1>1. Inv => TypeOK
  BY DEF Inv
<1> QED
  BY <1>1, InvHolds, PTL

\* What was acknowledged is in the database or in one that a restore has
\* preserved, wherever Open, a backup or a restore stops, until RestoreFile renames a
\* database file that has a log beside it.
THEOREM NothingIsLost == Spec => []LostOnlyWithLog
<1>1. Inv => LostOnlyWithLog
  <2> SUFFICES ASSUME Inv, ~parted PROVE NothingLost
    BY DEF LostOnlyWithLog
  <2>1. \A db \in preserved : db # None /\ db.sound
    BY NoneAssumption DEF Inv, TypeOK, FilesOK, Stored, Safe
  <2>2. main # None => Committed # None /\ Committed.sound
    BY NoneAssumption DEF Inv, FilesOK, DatabaseOK, Safe
  <2> QED
    BY <2>1, <2>2 DEF Inv, Kept, NothingLost, Held, Current
<1> QED
  BY <1>1, InvHolds, PTL

\* An open store has every migration once and in order, however many processes
\* run migrate at once and whatever was restored, unless it is a file that the log of
\* another one was applied to.
THEOREM OpenedAreMigrated == Spec => []OpenedMigrated
<1>1. Inv => OpenedMigrated
  BY DEF Inv, OpenedMigrated, ProcessesOK, ProcessOK, Knows, FilesOK, DatabaseOK, Running, At
<1> QED
  BY <1>1, InvHolds, PTL

\* Open has backed a database up before its schema is another one; of a file that the
\* log of another one was applied to nothing is said.
THEOREM ThereIsAWayBack == Spec => []WayBack
<1>1. Inv => WayBack
  BY DEF Inv, FilesOK, Safe, Saved, WayBack, Current
<1> QED
  BY <1>1, InvHolds, PTL

\* A backup reported valid has what the database had when it began, whatever was
\* restored before: Backup checks the integrity of what it has copied.
THEOREM BackupsAreComplete == Spec => []BackupComplete
<1>1. Inv => BackupComplete
  BY DEF Inv, CopyOK, BackupComplete
<1> QED
  BY <1>1, InvHolds, PTL

\* Open leaves a database of a newer release as it is, unless a restore has put it
\* beside the log of another file.
THEOREM NewerAreUntouched == Spec => NewerUntouched
<1>1. ASSUME Inv, [Next]_vars, Current # None, Current.sound, Current.version > Latest,
             restore = None
      PROVE  Current' = Current /\ probe' = probe
  <2>1. main # None /\ Current = Committed /\ Committed.version \in Nat
    BY <1>1, Versions DEF Current, Inv, FilesOK, DatabaseOK, Database
  <2>2. \A p \in Running : process[p].pc = "ping"
    BY <1>1, <2>1, LatestAssumption DEF Inv, ProcessesOK, ProcessOK, Knows
  <2>3. ~Supported(Committed.version)
    BY <1>1, <2>1, LatestAssumption DEF Supported
  <2>4. CASE UNCHANGED <<main, wal, probe>>
    BY <2>4 DEF Current, Committed
  <2>5. ASSUME NEW p \in Procs, OpenFails(p)
        PROVE  Current' = Current /\ probe' = probe
    BY <1>1, <2>1, <2>5, EndDatabase, StepProcess DEF OpenFails, Running, Same, Current, Inv
  <2>6. CASE UNCHANGED vars
    BY <2>4, <2>6 DEF vars
  <2> QED
    BY <1>1, <2>1, <2>2, <2>3, <2>4, <2>5, <2>6
       DEF Next, At, Running, Stat, Ping, BackupBeforeMigration, Migrate, ProbeInsert,
           ProbeSelect, ProbeDelete, Opened, Checkpoint, Close, Crash, BeginBackup,
           FinishBackup, BackupFails, Capture, BeginRestore, Preserve, Install,
           InstallFails, Abandon
<1> QED
  BY <1>1, InvHolds, PTL DEF Spec, NewerUntouched
===============================================================================
