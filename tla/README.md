# A TLA+ development of memXplore

memXplore is a memory daemon for agents: callers hand it observations, a worker
forms memories from them, memories evolve in immutable versions, and recall
returns them as evidence. Everything durable is in one SQLite database that
several processes (`serve`, `mcp`, one-shot commands) may have open at once.
This directory models the parts of the program whose correctness depends on the
order in which things happen, checks the models with TLC, and proves the most
important properties with TLAPS. Paths below are relative to the repository.

## 1. Inventory

### Components, their state and their operations

| component (source) | state | operations |
|---|---|---|
| durable job queue (`internal/adapters/sqlite/jobs.go`, `agent_events.go`) | tables `durable_jobs`, `observations`, `agent_event_receipts` | `EnqueueObservation`, `EnqueueAgentEvent`, `Claim`, `Complete`, `Fail`, `Get`, `Wait` |
| formation worker (`internal/daemon/formation.go`) | the loop, its one-place `wake` channel, the claimed job in hand | `Run`, `Notify`, `ProcessOne`, `processClaimed`, `ensureFunctionalReferences` |
| lifecycle repository (`internal/adapters/sqlite/lifecycle.go`, `records.go`) | `memories`, `memory_versions`, `memory_dependencies`, `memory_fts`, `lifecycle_operations` | `ApplyCreate`, `ApplyEvolution` (supersede, rebuild, consolidate, conflict), `ApplyState` (archive, forget), replay of an applied proposal |
| purge (`purge.go`) | the same tables and `purge_receipts` | `PurgeMemory` in two modes |
| embedding index (`embeddings.go`) | `memory_embeddings` | `PutEmbedding`, two statements |
| working sets (`working.go`) | `working_sets` | `PutWorkingSet`, `SetWorkingGlobalRecall`, `ExpireWorkingSets`, the check made by apply |
| stored timestamps (`records.go: formatTime`) | none | the text of an instant, and how SQL compares texts |
| recall (`internal/application/retrieval.go`, `sqlite/retrieval.go`) | `retrieval_traces` | candidate filters, modes and fallback, ranking, selection within a budget |
| formation and evolution strategies (`internal/strategy/formation`, `evolution`) | none | propose a memory of an observation; propose the next version of a memory; both by rule or with a generator |
| experiential memory (`sqlite/experiential.go`) | `episodes`, `outcomes`, `experiential_feedback` | `PutEpisode`, the reference check made by apply, `RecordUsageFeedback` |
| API tokens (`internal/auth`, `sqlite/auth.go`) | `api_tokens` | `CreateAPIToken`, `AuthenticateToken`, `RevokeAPIToken` |
| handlers (`internal/api`), apply policy (`internal/policy`) | the requests in flight | routes and tools: remember, job, recall, version, export, archive, forget, purge, tokens, agent events |
| portable export and import (`application/portable.go`, `sqlite/portable.go`) | files | `ExportSubject`, `Validate`, `ImportSubject` with a backup |
| backup, restore, migrations (`sqlite/store.go`, `migrate.go`, `backup.go`, `validate.go`) | the database file, its write-ahead log, copies, `schema_migrations` | `Open`, `migrate`, `Probe`, `Backup`, `RestoreFile` |
| augmentation, providers, telemetry, evaluation, SDK, command line | none that the properties depend on | see `PROJECT.json` |

`PROJECT.json` lists every component with what is modelled of it.

### How they interact

    caller --remember--> [job + observation + receipt in one transaction]
                 \--Notify--> wake channel --> worker loop
    worker: Claim -> propose -> references -> apply -> embed -> Complete | Fail
                         (each arrow is a transaction or statement of its own)
    callers, concurrently: forget, archive, purge, evolve, expire, recall
    other processes, concurrently: the same worker loop on the same database

    request --token--> authenticate -> [read for authorization] -> transaction
    store --export--> file --validate--> look -> backup -> one transaction --> store
    Open: stat -> ping -> backup -> migration by migration -> probe -> use -> close
    restore: copy beside -> rename away -> rename in

The only shared state is the database, whose transactions are serializable (in
WAL mode a transaction whose snapshot is stale when it first writes is refused),
and, within a process, the wake channel. What
makes the system hard is therefore what happens *between* transactions: a worker
acts on a job row it read a minute ago; a proposal names a version that has been
superseded since; an embedding is written for content that was just purged; a
time was read from the clock before the transaction that stores it.

### What makes each component correct

* **Queue.** Capture is all or nothing and once per key; all callers of a key
  are told the same job. Two processes are on a job only when one of them stayed
  past its lease, and never on one attempt. Terminal rows never change. A job
  fails only when its attempts are used up.
* **Worker.** A captured job ends, whatever fails, crashes or overruns. Retries
  and takeovers form one memory per counted attempt at most, and claims beyond the
  retry limit are paid for by crashes and overruns. A job that reports success
  has a memory, embedded unless somebody removed it.
* **Lifecycle.** Memory row, current version and older versions agree. The
  system-time history of a memory is a chain without gap or overlap. What is
  derived, over any chain, from superseded or purged content is never current.
  Conflict groups are never replaced. Purged content is never made again by a
  retry. Private content never widens over any number of derivations.
* **Purge and indexes.** No index entry, edge or version outlives what it hangs on.
* **Working sets.** No memory of an expired task is active.
* **Recall.** An answer contains only what the principal may see, and nothing
  derived from what it may not see; about a time that no writer can reach any
  more it holds one version of a memory; it degrades openly, stays within its
  budget, and leaves out nothing without a reason.
* **Strategies.** Evidence of a lesson is a recorded episode, a working state is
  compacted from its own task; evidence is lost only by a race.
* **Access.** Whatever happens between two steps of a request, what it captures
  and changes traces back to what the operator granted, over any chain of
  delegations, and nothing arrives with a dead token. A purge never reaches out
  of its namespace.
* **Portable data.** A file is taken whole or not at all; what was imported is a
  history the lifecycle could have made; purged content does not return.
* **Installation.** Opening, migrating, backing up, restoring and dying at any
  step of these lose nothing that was acknowledged, unless a restore parts a
  database from its log.

Under `hazards`, `PROJECT.json` lists each place of the code where one of these
could break, with the properties that would notice.

## 2. The modules

| module | models | kind |
|---|---|---|
| `StoredTime` | `formatTime` and the byte order of its texts | operators |
| `JobQueue` | the queue, the worker processes as its clients, the clock | specification |
| `JobContract` | what the queue promises, without clocks, leases or tables | abstract specification |
| `FormationWorker` | the worker loop and each step of a job, with callers and crashes in between | specification |
| `Lifecycle` | apply, purge, embedding and working sets on the memory tables | specification |
| `Recall` | one recall next to the writers of `Lifecycle`, which it extends | specification |
| `Evolution` | strategies, episodes and feedback over `Lifecycle`, which it extends | specification |
| `Portable` | files exported of a store of `Lifecycle`, which it extends, and imported into a second one | specification |
| `Access` | tokens, requests in flight, policy | specification |
| `Installation` | the database file, the processes that open it, backups and restores | specification |
| `JobQueueProofs`, `FormationProofs`, `LifecycleProofs`, `AccessProofs`, `InstallationProofs` | the theorems of the module of that name | proofs |
| `RecallProofs`, `EvolutionProofs`, `PortableProofs` | the theorems of `Recall`, `Evolution` and `Portable`, over those of `Lifecycle` | proofs |
| `MCJobQueue`, `MCFormationWorker`, `MCLifecycle`, `MCRecall`, `MCEvolution`, `MCPortable`, `MCAccess`, `MCInstallation` | values of constants, symmetry sets | model checking |

One action is one transaction or one statement outside a transaction. An action
contains everything the transaction writes; a refused transaction is rolled
back and is therefore no action at all (except where its answer matters, as in
`EnqueueRefused`). Names follow the code: `Claim`, `Complete`, `Fail`,
`Supersede`, `Conflict`, `PurgeCascade`, and the columns of the tables.
Definitions whose name starts with `Mut` are plausible mistakes in the code
beside the definition they would replace. They are part of no specification;
each is there to show that some property notices it.

### StoredTime

All timestamps are stored as RFC 3339 texts with trailing zeros removed, and
SQL compares them as texts. `'Z'` sorts after every digit and after the dot, so
a trimmed text sorts after every text it is a prefix of: an instant on a whole
second sorts after the rest of its second. The module gives an instant as a
natural number, its text as a sequence of digit values, and the order of the
texts. It is parameterised by the radix and the number of digits of the
fraction (10 and 9 in the code). The runs use radix 2 and one digit, the
smallest clock with both kinds of instant: even ticks are whole seconds, and
tick 2 sorts after tick 3.

### JobQueue

`jobs[r]` is the row of the job that enqueue call `r` would insert (the id of
the job is random, so the call identifies it), `held[w]` is what process `w`
does and the *copy* of the attempt it claimed. Enqueue, Claim, Complete and Fail
take the time they are given from `Recent`: the clock was read up to `MaxDelay`
ticks before the statement runs, which is what the code does
(`f.now()` is evaluated before the call). `CompleteLost` and `FailLost` are the
`ErrLeaseLost` paths. `Crash` is the death of a process, or a cancelled context
that keeps `Fail` from running.

Every process claims under the name `OwnerOf[w]`; in the runs, as in
`FormationWorker.Run`, that is one name for all. `Complete` and `Fail` test this
name and the state only, so a stale process may end the attempt of its successor,
and the model has it do so. `overstayed` is history: the jobs on which some process
has stayed until its lease had ended (`Overstaying`).

`JobContract` hides leases, owner names, clocks and tables: a key is accepted
once; a process takes a job that nobody is on, or joins one that was overstayed;
every taking counts; a process on the job ends it, as failed only when the tries
are used up. It does not promise that a process whose job was taken over can no
longer end it, because the queue does not. `ImplementsContract` is the refinement.

### FormationWorker

Each phase of `processClaimed` is an action, so that forget, purge, crashes, the
lapse of the lease and other workers come in between any two. Time is abstract:
a lease lapses when its holder is gone (`AbandonedLapses`) or while the work
goes on (`Overrun`), and a retry becomes due (`RetryDue`). A proposal is the
pair of the job and the formed payload, because its id is a hash of both.
`Baseline` is the one payload a generator-free strategy computes; an assisted
job may get any of `Outputs` at every attempt. `Attempt` is the UPDATE of `Claim`.

### Lifecycle

A memory and the version that a proposal makes are named by the proposal, as
`lifecycleID` does. The caller of a proposal read its target, parents and time
earlier, so these are arbitrary in the model: only what the transaction itself
checks can be relied on, and only that is a guard. `Descendants` and `Tree` are
the recursive SQL queries, defined as least closed sets. `EmbedRead` and
`EmbedWrite` are the two statements of `PutEmbedding`.

A version has a valid time (`ValidTime` of its proposal) besides its system
time. `Closed` is the UPDATE of `applyEvolution`: it ends the system time, and the
valid time too if the new fact takes effect within it, comparing stored texts.

Left out of the rows: payloads, provenance and taxonomy (validated texts that no
modelled decision depends on), actor and context other than the task, the
reasons recorded with operations, and artifact references of a purge.

### Recall

`Recall` extends `Lifecycle` with one variable, the recall in flight; a second
one would add nothing, since a recall writes only its own trace. `Start` takes
any of `RecallRequests`. Each query is a step that reads one snapshot
(`SearchLexicalCandidates`, `ListSemanticCandidates`, and the repeated queries
`Requery` and `Again` of the fallback code), and writers commit between them. A
candidate is a copy of what its query read, with the conflict group it had then.
`Eligible` is `candidateWhere`, clause by clause. `WithoutVectors` stands for the two
tests that follow the semantic query, including the one that mistakes a failure
for an empty answer: the phase `requery` is reached where the Go slice is nil.
`EmbedQuery` and the query itself may fail at any point (`SemanticFails`), and so
may the storing of the trace (`Answer`).

Which contents match a query is part of the request (`matches`), the normalized
text and token estimate of a content are constants (`Text`, `Tokens`), and scores are
left out: the pool keeps any subset of the size of its limit, and selection
considers the candidates in any order. What is shown of selection therefore
holds for every ranking. Writers stop while candidates are selected, which reads
the store no more.

### Evolution

`Evolution` gives the versions of `Lifecycle` payloads and says which proposals
can exist: what `baselinePayload` and `assistedPayload` make of an observation,
and what `baselineEvolution` and `assistedEvolution` make of an observation and
the version that is current *when they read it*. Applying is a step of its own,
to whatever version is current then (`ApplyEvolution`), so any number of
proposals may be drawn from one version. A generator may answer anything of
`Answers`. Ids are hashes; `Propose` gives two proposals one name exactly if
`Key`, what is hashed, is the same: for a formation that covers the payload, for
an evolution it does not. `CheckFeedback` and `WriteFeedback` are the statements
of `RecordUsageFeedback`. An observation stands for its episode and outcome,
whose ids are hashes of its id. A working state and a lesson both keep what they
rest on as a sequence (`CompactedFrom`, `Evidence`).

### Portable

`Portable` adds to a store of `Lifecycle` what an export reads besides
(`derived_from_json` and the observations), a file, and a second store with the
tables of the first. `Authorized` is the export, `Valid` is
`SubjectExport.Validate`, `Inserted` is `importSubjectRows`. The second store is
changed by imports, captures and purges only, so that every property of
`Lifecycle` it has (`ImportedConsistent` instantiates `Lifecycle` on it) is due
to the file and its validation. Vectors are not in a file, and the second store has
none.

### Access

A request goes through `Arrive`, `Authenticate`, then one or more transactions
of its handler, and `Answered`; everything else may happen in between.
`at` is the clock reading with which the row of the token is read. The handlers
that change a memory read it (`GetMemory`), decide by owner and policy
(`Permitted`, `Evaluate`) and act in a transaction of their own (`ChangeState`,
`Purge`). `Purge` is the cascade: it takes along what is derived from the memory in
its namespace, without looking at owners. Derivations are made by `Evolve`, which
stands for the evolutions that in-process callers apply; which versions an edge
joins is not kept, so what is further down than one edge may go or stay. `Arrived`
covers both the HTTP middleware and the one principal of an
MCP connection over stdio. `operator` and `late` are history: which tokens were
made on the command line, and whether a token was dead when its request arrived.
Jobs and memories are reduced to their owners and states; a memory is formed of a
job, by a worker that needs no principal any more.

### Installation

`main` is the file at the database path, `wal` the log beside it; `Committed` is
what a connection reads. A commit replaces the log, a checkpoint and the close of
the last connection move it into the file, a crash leaves it, and `Install`
leaves it beside a file it does not belong to (`stale`). `Open` is taken
statement by statement, `RestoreFile` rename by rename; a process may die
anywhere. A database carries, as history, with which schema and content it was
found. `parted` is history: a restore has renamed a database away from its log.
A connection to a database with a foreign log may read anything (`sound` is false
then), and nothing is promised of it.

## 3. The runs

| run | instance | what it shows |
|---|---|---|
| `job_queue` | 3 calls (a repeated key, a repeated event and observation), 2 workers under the one name of the code, lease of 3 and backoff of 2 ticks, clock 0..4, delay 1, retry limit 2, at most 3 claims of a job | exact capture and idempotent answers, exclusive attempts, no company before a lease ends, and the refinement to `JobContract` |
| `job_fencing` | the same | **violation**: a stale process ends the attempt of its successor |
| `formation_worker` | 1 assisted job with a working set and two possible outputs, 2 workers, retry limit 2, 1 crash, 2 overruns | one memory per attempt; attempts are bounded; success means formed and embedded; every captured job ends; deadlock is checked |
| `lifecycle` | 4 proposals in one scope, or 2 with vectors and a working set, clock 0..2, delay 1 | system-time history, lexical index, nothing is orphaned (vectors included), the tables agree, no active memory of a swept task, conflict groups, staleness under supersede and purge, purge is final |
| `recall` | either 2 proposals with an embedder, facts that take effect and end at instants of their own, every mode, questions about now and the past, a query that matches nothing, clock 0..3 of whole seconds; or 3 proposals in 4 scopes of two owners and all visibilities, two of them with one text, every grant of two principals, budgets 1..4, limits 1..3 | one version of a memory in answers about a settled past; mode and fallback reason are consistent; the settled past is not added to, and is taken back only from the start of a newer fact on; content never widens over chains of derivations; nothing is found that derives from private content of others; budget, duplicates, reasons |
| `recall_past` | the same | **violation**: what was visible at a pair of times is no longer recovered |
| `evolution` | 3 proposals, one of them a formation, 2 observations (of the task, one that the rules take for a conflict; of no task, one they take for a correction), 2 traces in two namespaces, clock 0..2 | evidence stays evidence, feedback hangs on a stored lesson, nothing is lost but by a race |
| `portable` | 2 proposals in a private and a shared scope, 3 accesses, 2 imports, 1 local observation | imports are whole and consistent; histories round-trip; purged content does not return |
| `portable_backup` | the same | **violation**: an import into a store with data commits without a backup |
| `access` | 2 tokens, 2 clients, 2 owners, 4 requests or commands; either one memory in each of 2 namespaces, clock 0..1, or two memories in one of them, one derived from the other | delegation is bounded, captures and changes are authorized (the cascade of a purge included), revocation works, answers are true |
| `installation` | 2 processes, databases of schema 1 and 3 or none, latest schema 2, 1 item, 2 crashes, 1 restore that may find a log, deadlock is checked | nothing is lost unless a database was parted from its log, open stores are migrated, there is a way back, backups are complete |
| `installation_restore` | the same with 1 crash | **violation**: a capture is lost |

### Bounds, and why they are enough

`MaxTime`, `MaxDelay`, `MaxClaims`, `MaxCrashes`, `MaxOverruns`, `MaxFormed`,
`MaxRecording`, `MaxImports`, `MaxOperations`, `MaxRestores` and the set
`RecallRequests` are, with the constraints of the MC modules, the only bounds that are
not in the code; each is named where
it is declared. With the clock above, 0..4 has room for a lease, its takeover and
a retry, on whole and on broken seconds. Two workers are enough for a takeover:
the queue never relates three. Three calls give the two ways in which captures
collide. Three claims are one more than the retry limit, so a takeover beyond the
limit occurs, and a lease of 3 ticks leaves room for a takeover
while the former holder is still at work. Four proposals are the smallest number with a superseded version, a
memory derived from it, another one derived from that, and the superseding
version; a purge needs one of them to have two versions with different
descendants, which is also four. One crash and two overruns, together with failing
steps, use up the retry limit in every order and have two workers on a job, one of
them stale, twice. A recall relates at most two versions of a memory, or
two alternatives, so two proposals suffice for what it finds, three for duplicates
and for a chain from private to found content. Orphans need a memory and one
derived from it, which is two proposals, with two versions when the second
supersedes the first: `MCFewWithIndexes` explores vectors and working sets with two
proposals only. `MCWorlds` of `MCRecall` keeps time and scopes apart in the same way:
what a settled past holds does not depend on scopes, and who may see what does not
depend on time. `recall` uses `Digits = 0`, a
clock of whole seconds, because a settled past begins only after the end of its
second: with broken seconds, a clock on which something happens after that is too
long for a run. The theorems about it hold for every number of digits. The run has
no task and always an embedder: `WorkingVisible` and the reason
`embedding_not_configured` are part of the model and of the proofs, but no run has them.

A race of strategies is two proposals drawn from one formed memory, which is three. Two
observations, with two changes, give the rules both of their branches, and a third one
would have to repeat one; the scopes of versions are covered by the runs of `Recall`.
Two proposals give a file a derivation, and a history of two versions; the first import
fills an empty store, the second meets a filled and possibly purged one. Four requests
or commands let an administrator be created, delegate, and be revoked while a request of
the delegate is in flight; longer chains are proved. Two tokens are the two ends of a
delegation, two clients the two sides of a race. A cascade needs two memories of one
namespace, and is explored one request at a time (`MCWorlds` of `MCAccess`): the owner
of a memory never changes, so only what a single request reads and does matters to it. A
new database of latest schema 2 needs two migrations, so that a crash or another process
can come between them, a found one needs one; schema 3 is a newer release. Two crashes
are a crash that leaves a log and one in the restore that finds it. The theorems of
section 4 have no bounds at all.

Symmetry is used for worker processes, proposals, tokens, clients and processes:
the specifications only compare them for equality (in `evolution` for the two
proposals with the same valid time). `OwnerOf` and `ReferenceOf` are constant
functions. `formation_worker`, which checks liveness, uses no symmetry.

`CHECK_DEADLOCK FALSE` is given where the bounded clock, and the bounded set of
calls, proposals, files or requests, stop the system at their end. `FormationWorker`
has no clock: its loop polls for ever, and processes open an `Installation` for
ever; there deadlock is checked.

### Fairness

Only `EveryJobEnds`, in `formation_worker`, needs it. `WF(Loop(w))` and `WF(Process1(w))`: the
goroutine of `Run` keeps executing, its poll timer fires, and every provider
call and statement returns, with an answer or an error (they run under
contexts and HTTP timeouts). `WF(AbandonedLapses(j))` and `WF(RetryDue(j))`:
time passes. Nothing is assumed of callers, of the outcome of any step, of which
of several enabled steps is taken, of crashes or of overruns; their *number* is
bounded, because a job that kills every process that claims it is claimed for
ever (see the hazard at `jobs.go:90`: only `Fail` looks at the retry limit).

## 4. What is proved

For every value of the constants, with no bound on processes, calls, proposals
or time. The assumptions are those the modules name (types of the parameters,
null values that are no rows, finitely many jobs, workers and outputs). One of them,
`PowerAssumption` of `StoredTime`, is a truth of arithmetic rather than a
condition on the code: the powers of the radix are positive integers. Powers are
outside the theories of the provers, and their induction principle too.

`JobQueueProofs`
* `TypeCorrect` — `TypeOK` is inductive.
* `CaptureCorrect` — `CaptureExact`: its parts `AtomicCapture` and `IdempotentAnswer`
  together are inductive on top of it: each stored row has its observation and receipt
  and these are not shared; answers name stored rows, and stored rows are never removed.
* `RowsCorrect` — `LeaseIffRunning` and `RetryLimit`, row by row. `RowEffects`
  lists the only things a step can do to a row: insert, lease, complete, fail.
* `TerminalRowsFinal` — from the same list.
* `AttemptsAreExclusive` — `AttemptsExclusive`, with the bound that no process holds an
  attempt that the row has not counted (`AttemptBound`). Owner names play no part.
* `LeasesExcludeInTime` — `ExclusiveInTime`, for every assignment of owner names.
  `InTime` says of a process on a job that nobody has overstayed that the row is leased
  for its attempt, and until the time it knows; so two of them would hold one attempt.
  Claims compare texts: `OffByASecond` says what a text comparison tells of instants,
  and `TakenOverLate` that whoever takes a leased row finds its holder on record as
  overstaying (`OverstaysNoted`).
* `ContractImplemented` — `ImplementsContract`, for every assignment of owner names. Each
  kind of step maps to one step of the contract (`AcceptStep`, `TakeStep`, `EndStep`,
  `DropStep`, `TickStep`) or to a stutter (`HiddenStep`). `TakeStep` is where
  `ExclusiveInTime` is needed, and `EndStep` where the retry limit is.

`FormationProofs`
* `TypeCorrect` — with `CarriedOK`: what a worker carries from step to step is a
  proposal of its own job that the strategy of this job may produce (`InHand`).
* `OneMemoryEach` — `OneMemoryPerAttempt`. It is inductive when the workers that may
  still apply are counted too (`Counted`: formed memories and `Trying` workers are no
  more than the attempts of the row): a claim adds one to both sides, an apply turns a
  worker into at most one memory, and forget, purge and failure add nothing.
* `RetriesAreBounded` — `AttemptsBounded`. `Limited` adds to the attempts the one that a
  running job without a live lease or without a worker is going to cost (`Owed`);
  a lapse and a crash have paid for it. A stale worker that fails the attempt of its successor
  does not matter, because it does so within the limit that `Fail` tests.
* `SuccessIsFormed` — `SucceededIsFormed`. `PastApply` follows the proposal in a
  worker's hand from apply to the report and `Reported` keeps it in the row of the
  job. Neither is inductive alone, since a forget or a purge between two steps
  changes what they speak of: `MemoryEffects` lists what any step may do to the
  memory tables (form, forget, purge, embed), and a formed memory is never again
  "none".

`LifecycleProofs`
* `TypeCorrect` — every transaction leaves rows of the declared types.
* `PurgeIsFinal` — `PurgedForGood`. The strengthening `Made` says that a stored
  memory, a stored version and a purge receipt each have the operation row that made them, so a
  retried proposal always finds its operation and replays.
* `StatesAgree` — `StateAgreement`, by `RowsInv == TypeOK /\ Made /\ Homed /\
  StateAgreement`. `Homed` (a version's memory is stored) is needed for purge,
  `Made` for the freshness of the version a proposal inserts. There is one lemma
  for each kind of transaction (`CreateAgrees`, `SupersedeAgrees`,
  `ConflictAgrees`, `StateAgrees`, `PurgeAgrees`, `ExpireAgrees`); the case that
  needs care is `MarkStale`, which may hit the current version of a memory but
  never a version that is archived, forgotten or superseded.
* `StepEffects` — what any step does to the rows: it leaves the place of every stored
  version alone, removing some of them (`RowsStay`); it inserts a memory
  (`Inserting`); or it supersedes one version (`Superseding`). The two theorems below and
  most of `RecallProofs` need no more of a step than this.
* `GroupsAreKept` — `ConflictGroupKept`: only `Conflict` writes groups, and only
  where there is none.
* `HistoriesAreGapless` — `SystemHistory`, version by version (`InHistory`). The clock of
  a caller may be late, so that the interval is not empty comes from the guard of
  `Supersede`, and that there is one next version from `StateAgreement`, by which
  the current version is the one of the highest number.
* `ExpiryIsComplete` — `ExpiredTaskInactive`, memory by memory (`OnTime`): the sweep takes
  the memories that are active when it runs, and an apply that comes later, with a clock read
  before it, meets the state of the set (`validateWorkingReference`).
* `ContentStays` — `DerivedContentStays`. `validateDependencies` checks one edge at
  a time, by the scopes of its two ends. `EdgesFlow` says that every stored edge
  is still such a flow; it is inductive with `RowsInv` because no step moves a
  memory to another scope (`ScopesKept`), a purge removes both the ends and the
  edges, and both kinds of insertion put the new version into the scope that
  was checked (`CreatedVersion`, `EvolvedVersion`). Flows are transitive
  (`FlowIsTransitive`), so the set of versions that content may reach is closed
  under the edges, and contains all descendants (`PathsFlow`).
* `StaleIsMarked` — `NotCurrentBelow`, both modes of purge and the supersede. What the
  property speaks of is the tree *after* the supersede, with the edges of the new
  version; `DerivedStays` shows that the new edges add nothing to it, because no
  parent of the new version is below the one it closes (`Acyclic`). `OnlySupersede` and
  `OnlyPurge` say that no other step closes a version or writes a receipt.
* `NothingIsOrphaned` — `NoOrphans`; the part that is not a foreign key is
  `IndexesStored`. A vector may be written after its version was read and purged: the second statement does
  not look again, it is the foreign key on the version that refuses it.
* `IndexAgrees` — `SearchIndexAgrees`, by `IndexStep` for one memory at a time. Purge is why
  `IndexesStored` is part of the invariant.

`RecallProofs`
* `RecallOnlyReads` — `RecallSpec => Spec`: a recall is invisible in the tables, so
  the theorems above hold in its presence.
* `RecallTypeCorrect` — step by step, for every branch of `Recall`.
* `FallbackIsHonest` — `HonestFallback`, from how far the mode has been narrowed
  down at each phase (`FallbackSoFar`).
* `SelectionIsSound` — `SelectionSound`, for any order of the candidates: tokens
  only grow, so what did not fit once never fits, and a duplicate has a first
  candidate of its key, which is no duplicate.
* `AncestryIsAuthorized` — `NoForeignAncestry`. What was found stays authorized as
  long as it is stored, and is not inserted anew after a purge (`FoundAuthorized`,
  `NotRemade`); with `EdgesFlow`, private content has only private descendants of
  the same owner, so what it flowed into was authorized for that owner.
* `SettledPastIsOneVersion` — `OneVersionOfSettledPast`. What a comparison of texts says
  of the instants is proved once, for every radix and number of digits: `StoredOrder` (a
  smaller text is of an instant less than a second later), `StoredSeconds` (whole
  seconds are ordered), and that the order is strict and transitive. A time is settled
  when its second, and the longest delay of a writer, have passed; whatever is written
  now is later, as a text too (`SettledIsBefore`), so what a recall found is still
  believed of that time when it answers (`FoundSettled`, `WritersKeepBelief`).
  `HistoryOrdered`, that of two versions of a memory one ended before the other began,
  follows from the gapless history, and `BelievedTogether` derives the one exception:
  versions that follow each other within one second.
* `SettledPastOnlyNarrows` — `SettledPastNarrows`. `TimesKept` sorts the steps by what
  they do to the four times of a version: nothing, begin it at a time its caller has
  read, or close it for a newer version of its memory; `ClosedNarrows` computes the last
  case, where transitivity of the order of texts is what keeps the valid time from
  growing. What is taken back reaches from the start of the newer fact to the end of
  time, also where that fact has ended: section 5.

`EvolutionProofs`
* `RepositoryImplemented` — `EvolutionSpec => Spec`: whatever a strategy proposes is a
  transaction that `Lifecycle` has, so its theorems hold here too.
* `EvolutionTypeCorrect`, and from one invariant `EvolutionInv` the other theorems. It says
  of the proposals that wait (`ProposalsSound`) what must be true when they are applied:
  that their evidence is sound (`SoundEvidence`), and that they extend the evidence of
  the version they were drawn from (`Drawn`); of every stored version, that it has the
  payload proposed for it (`Recorded`); and of feedback, stored or about to be, that its
  version is a lesson of the namespace of its trace (`Anchored`). A proposal outlives any
  number of purges and of other proposals, so this has to be true of versions that
  are gone.
* `EvidenceIsSound` — `EvidenceSound`: formation starts a list of sources, evolution appends to
  it (`SourcesGrow`), and the version in between may be any.
* `FeedbackIsAnchored` — `FeedbackAnchored`: `WriteFeedback` inserts with a foreign key on the
  version, and a purged version is not made again (`NotRemade`).
* `EvidenceIsKept` — `LostOnlyByRace`: with `Drawn`, for the version that is replaced.

`PortableProofs`
* `FirstStoreKept` — `PortableSpec => Spec`: an export only reads, so the theorems about
  `Lifecycle` say what is exported.
* `ImportsAreConsistent` — `ImportedConsistent`, in four steps. `SoundTables` states
  what `Lifecycle` keeps of memories and versions as a property of *any* two tables,
  memory by memory (`SoundMemory`), and depends only on the rows of that memory
  (`SoundnessIsLocal`). The first store is sound (`FirstIsSound`), so a file is, since
  an access admits a memory with all its versions or not at all (`ExportIsSound`); it
  stays so whatever becomes of the store it came from (`FileSound`). The second store is
  sound because a file conflicts with every memory already there (`SecondRows`). That
  needs `Named`, that the first version of a memory has the name of the memory and
  stays: only through it does an observation stand for a memory. Lastly `SecondEdges`
  and `SecondIndex` add what the rows alone do not say: edges are rebuilt from
  `derived_from_json`, and what `Valid` refuses is what would not be a flow; the index
  is rebuilt from the states.
* `PurgedStaysAway` — `PurgedNotImported`: the observation of what was purged stays
  (`ObservationsStay`), so every file that has the memory conflicts with it.
* `FilesAreImportedWhole` — `ImportsWholeFiles`, step by step.
* `NothingIsLostOnTheWay` — `RoundTrip`: an insertion into empty tables gives the rows of the
  file (`InsertedIntoEmpty`), an access takes all of a file that was made under it
  (`ExportedAgain`), and a sound history of an active memory has no forgotten version, which
  the import would leave out of the index (`ActiveIsKnown`).
* `PortableTypeCorrect`.

`AccessProofs`
* `TypeCorrect`, and from the same steps `RevocationIsEffective` and
  `AnswersAreTruthful`: a request past its authentication was live at an instant
  no earlier than its arrival, and a job only leaves "queued".
* `ChangesAreAuthorized` — a request that is about to change a memory holds the
  owner that it read. The memory is still of the job it was formed of, whose owner never
  changes (`MemoriesFormed`), and is not formed anew after a purge. What a purge
  takes along is of the same namespace because every edge is (`EdgesLocal`), and the set
  of what is reachable stays within whatever the edges do not leave (`DerivedLocal`).
* `DelegationIsBounded`, `CapturesAreTraced` — every token is *covered* by grants
  that the operator gave; being covered is inherited along `createToken`, so no
  induction over chains is needed. A principal in flight was covered when it was
  read and stays so, although its token may be gone.

`InstallationProofs`
* One invariant `Inv` for all: every stored database has its migrations in order and its
  way back (`FilesOK`), no running process is ahead of the database or behind what it
  was found with (`ProcessOK`), a restore runs alone (`RestoreOK`), what was
  acknowledged is kept (`Kept`), and one process at a time writes a backup (`CopyOK`).
  Nothing is assumed of the moment of a restore: a log without its file, or beside
  another one, exists only once a database was parted from its log (`LogOK`); from then
  on `Kept` says nothing, and the rest speaks of databases that are sound. `Moves` is
  what any step of another process may do to the database of one that has opened it;
  `OthersKept` shows that `ProcessOK` survives that, so each kind of step has to look
  after its own process alone.
* `OpenedAreMigrated` — that two processes cannot apply one migration twice follows
  from the primary key of `schema_migrations`, in `MigratedDatabase`.
* `ThereIsAWayBack` — a process that found the file non-empty backs it up before its
  first migration; one that did not find it non-empty meets a database that has no
  past. Nothing is captured in a database before its last migration, so the backup
  has all that was found, also when another process has migrated in between.
* `NothingIsLost` — `LostOnlyWithLog`: whatever was acknowledged is in the database or in a
  preserved copy, unless a restore has parted a database from its log.
* `BackupsAreComplete`, `NewerAreUntouched`, `TypeCorrect`.

### Model-checked only

`EveryJobEnds`: liveness is outside what TLAPS proves. Every other property of a passing
run is a theorem, without conditions on the parameters beyond the named assumptions. What
a recursive query computes (`Descendants`, `Tree`, `DerivedFrom`) is used in the proofs only as the
least set closed under the edges. The type invariants, and `RowsCorrect`, `TerminalRowsFinal` and
`NewerAreUntouched`, are theorems and not listed in the runs.

## 5. Where the code and its words differ

1. *Shared lease owner.* `application/jobs.go:20` says `ErrLeaseLost` indicates that a
   stale or foreign worker tried to finish a job. Every process claims as
   `formation-worker` (`formation.go:80`), so a stale process passes the owner test and
   ends the attempt of another one. Run `job_fencing` has the trace; what is left is
   what `JobContract` promises, and `formation_worker` shows that the outcome stays
   right: the job is reported by a process that is not on its latest attempt, but it
   names a formed memory.
2. *Embedding of forgotten content.* `docs/lifecycle.md` says forget retains no
   search index. `PutEmbedding` checks the lexical index in one statement and
   inserts in another, and a forget fits in between.
3. *Cascading purge.* `docs/storage-safety.md` says every transitively derived
   memory is removed. A derived memory is removed with all its versions, but
   what is derived from its other versions stays.
4. *Fallback reason.* When the lexical answer is empty and the provider fails, the
   repeated lexical query overwrites `err`, and the answer names
   `no_compatible_embeddings` as its reason instead of `embedding_unavailable`.
5. *Restore over a crashed process.* `docs/storage-safety.md:20` says the replaced
   target is preserved as a recoverable backup. `RestoreFile` renames the main file
   only: commits that a crash has left in its `-wal` file are not in the preserved
   file, and the log is applied to the restored one. Run `installation_restore`;
   `PROJECT.json` quotes the lines under `findings`. `LostOnlyWithLog` says that nothing is
   lost in any other way.
6. *Concurrent probes.* The INSERT, SELECT and deferred DELETE of `Probe`
   (`validate.go:48`) are three transactions on one fixed row. The DELETE of another
   opener may come between the first two, and `Open` fails with a healthy database.
7. *Lost updates.* `applyEvolution` never compares the version that is current with
   the one the strategy read. `LostOnlyByRace` says that evidence is lost, or a fact
   repeated, in no other way.
8. *Backups of imports.* `docs/storage-safety.md:26` says that a committed import into any
   database with data first creates a backup. The look for data is a statement of its own,
   before the transaction: what is captured after it is in the store when the import
   commits, and no backup was made. Run `portable_backup`.
9. *Recovering a version.* `docs/lifecycle.md:13` says that historical retrieval can
   recover the version visible at a pair of a valid and a system time. Superseding
   overwrites the end of the valid time in the only row of the old version, for all system
   times. Run `recall_past`; `SettledPastNarrows` says what this takes away, and that
   nothing else is.
10. *Owners and the cascading purge.* `server.go` looks at the owner of the memory that a
   purge names. What is derived from it goes too, whoever owns it; `ChangesAuthorized`
   says that the principal is entitled to something it was derived from.

Some properties are stated as they are because a stronger form does not hold of
the code. Timestamps are compared as texts, and a whole second sorts after the
rest of its second: leases, retries and working sets end late by less than a
second (`Overstaying` allows for it), and a version that ended in
a second may be visible together with a later one of the same second
(`OneVersionOfSettledPast` admits it, if the memory was superseded several times
within the second that is asked about). The
two queries of a hybrid recall read two states, and a writer that took its time
before the recall may commit between them: `OneVersionOfSettledPast` speaks of
answers about a time that no writer can reach any more. That a
finished lease has not expired by the clock, that all alternatives of a conflict
carry its group in one bundle, and that within a second a valid time ends after
it begins, are not among the properties for the same two reasons.

Less than a reader may expect is also promised in these places, and the properties are
stated accordingly. *Access:* a delegated token may see shared and public content, live
longer and have any scope that its administrator has; jobs are visible to the whole
namespace, and a known idempotency key answers with the job of another owner; jobs
queued under a token that is revoked since are still applied; `last_used_at` is written
and never read; `RevokeAPIToken` has no caller outside tests. *Portable:* after a
mark-stale purge `derived_from_json` names versions that are gone, and the export of
that subject fails `Validate`, as does one of private content derived from shared
content under an access without shared content; a memory that was forgotten and then
archived is indexed again in the importing store (the index clause of `RoundTrip` is
about active memories); a re-import of purged memories is refused because observations
survive a purge; operations are not exported, so a proposal retried on the importing
store fails on a primary key. *Installation:* a second restore while a process has the
database open is assumed away, as the documents do not speak of it; a migration backup
may carry an older schema number in its name than it has when two processes open at
once; a crash between the two renames leaves no database, and the next `Open` makes an
empty one, while the old one is preserved. *Evolution:* a strategy supersedes a version
of a conflict group, or a stale one, like any other; no strategy makes derived memories;
evidence is appended to a lesson without looking whether it is there, and feedback is
replaced by the last writer.

## 6. Not modelled

* Telemetry and observability record and decide nothing. The evaluation harness and the
  research catalog are not part of the running system. Augmentation assembles text.
* Model providers are nondeterministic outcomes wherever they are called.
* Of the handlers: decoding and size limits, the life of the listener, and rate or
  time limits of HTTP. Of the command line: flags, output and process wiring.
* Of purge: artifact references. Of portable files: working sets and episodes. Of
  rows: confidence, tags, reasons, actors.
* That a disk loses what SQLite has synced, and renames that are not atomic.

## 7. Plan

Done: all modules of section 2 and the proofs of section 4. Next, in this order:

1. Abstract specifications, with refinements proved step by step: a `FormationContract`
   (a captured observation yields one report, and a memory per attempt at most) implemented by
   `FormationWorker`; a `MemoryContract` (a memory is a chain of contents with one
   current) implemented by `Lifecycle`.
2. Working sets and episodes in the files of `Portable`; artifact references of a purge.
