------------------------------- MODULE JobQueue -------------------------------
(*****************************************************************************)
(* The durable job queue of the SQLite store (tables durable_jobs,           *)
(* observations and agent_event_receipts) and the worker processes using it. *)
(*                                                                           *)
(* Every statement or transaction of the store is one step.  A worker holds  *)
(* a copy of the row it claimed; between two of its steps the row may be     *)
(* claimed again, completed or failed by somebody else, and the process may  *)
(* die.  A caller reads the clock before it calls the store, so a statement  *)
(* may take effect up to MaxDelay ticks after the time it was given.         *)
(*****************************************************************************)
EXTENDS StoredTime

CONSTANTS Requests,        \* enqueue calls; each brings a fresh random job id
          Keys,            \* (namespace, kind, idempotency key) triples
          ObservationIDs,
          EventIDs,        \* (source, event id) pairs of AgentEvents
          NoEvent,         \* the call is not an AgentEvent
          Call,            \* Call[r]: what the enqueue call r carries
          Workers,         \* worker processes
          Owners,          \* lease-owner names
          OwnerOf,         \* OwnerOf[w]: the name w claims with
          NoOwner,         \* SQL NULL in lease_owner
          NoJob,           \* no row; no job held; no answer yet
          Refused,         \* the answer of an enqueue that was rolled back
          Lease,           \* lease duration, in ticks
          Backoff,         \* retry delay, in ticks
          MaxAttempts,     \* the maxAttempts argument of Fail
          MaxDelay,        \* bound: ticks from reading the clock to the effect
          MaxTime,         \* bound: last instant of the clock
          MaxClaims        \* bound: claims of one job

ASSUME CallAssumption ==
    Call \in [Requests -> [key : Keys, observation : ObservationIDs,
                           event : EventIDs \cup {NoEvent}]]
ASSUME OwnerAssumption ==
    OwnerOf \in [Workers -> Owners] /\ NoOwner \notin Owners \cup Workers
ASSUME NullAssumption ==
    /\ NoJob \notin Requests /\ Refused \notin Requests /\ NoJob # Refused
    /\ NoEvent \notin EventIDs
ASSUME DurationAssumption ==
    /\ Lease \in Nat \ {0} /\ Backoff \in Nat /\ MaxAttempts \in Nat \ {0}
    /\ MaxDelay \in Nat /\ MaxTime \in Nat /\ MaxClaims \in Nat

VARIABLES jobs,            \* the durable_jobs table, by job id
          observations,    \* ids in the observations table
          receipts,        \* keys of the agent_event_receipts table
          answered,        \* the job each enqueue call was told, or Refused
          held,            \* what each worker process is doing
          now,             \* the wall clock
          overstayed       \* history: jobs a process was on at its lease's end

vars == <<jobs, observations, receipts, answered, held, now, overstayed>>

JobState == {"queued", "running", "succeeded", "failed"}
NoTime == -1               \* SQL NULL in lease_expires_at

Row == [state : JobState, attempts : Nat, lease_owner : Owners \cup {NoOwner},
        lease_expires_at : Instant \cup {NoTime},
        available_at : Instant, created_at : Instant]
Claims == [pc : {"idle", "working", "failing"},
           job : Requests \cup {NoJob}, attempt : Nat,
           until : Instant \cup {NoTime}]

ASSUME RowAssumption == NoJob \notin Row

Idle == [pc |-> "idle", job |-> NoJob, attempt |-> 0, until |-> NoTime]

TypeOK ==
    /\ jobs \in [Requests -> Row \cup {NoJob}]
    /\ observations \subseteq ObservationIDs
    /\ receipts \subseteq EventIDs
    /\ answered \in [Requests -> Requests \cup {NoJob, Refused}]
    /\ held \in [Workers -> Claims]
    /\ \A w \in Workers : held[w].pc # "idle" =>
          /\ held[w].job \in Requests /\ jobs[held[w].job] # NoJob
          /\ held[w].until \in Instant
    /\ now \in Instant
    /\ overstayed \subseteq Requests

Init ==
    /\ jobs = [r \in Requests |-> NoJob]
    /\ observations = {}
    /\ receipts = {}
    /\ answered = [r \in Requests |-> NoJob]
    /\ held = [w \in Workers |-> Idle]
    /\ now = 0
    /\ overstayed = {}

\* A time that a caller may have read before its statement takes effect.
Recent == {t \in 0..now : t + MaxDelay >= now}

Stored == {r \in Requests : jobs[r] # NoJob}
-------------------------------------------------------------------------------
(* Enqueue: job, observation and receipt in one transaction.                 *)

SameKey(q, r) == Call[q].key = Call[r].key
NewKey(r) == \A q \in Stored : ~SameKey(q, r)

\* Primary keys of observations and agent_event_receipts.
RowsFree(r) ==
    /\ Call[r].observation \notin observations
    /\ Call[r].event \notin receipts

NewRow(prepared) ==
    [state |-> "queued", attempts |-> 0, lease_owner |-> NoOwner,
     lease_expires_at |-> NoTime, available_at |-> prepared, created_at |-> now]

EnqueueAccepted(r, prepared) ==
    /\ answered[r] = NoJob /\ NewKey(r) /\ RowsFree(r)
    /\ jobs' = [jobs EXCEPT ![r] = NewRow(prepared)]
    /\ observations' = observations \cup {Call[r].observation}
    /\ receipts' = receipts \cup ({Call[r].event} \ {NoEvent})
    /\ answered' = [answered EXCEPT ![r] = r]
    /\ UNCHANGED <<held, now, overstayed>>

\* The key is taken: ON CONFLICT DO NOTHING, roll back, answer with that job.
EnqueueReplayed(r) ==
    /\ answered[r] = NoJob
    /\ \E q \in Stored : SameKey(q, r) /\ answered' = [answered EXCEPT ![r] = q]
    /\ UNCHANGED <<jobs, observations, receipts, held, now, overstayed>>

\* Mutant: an insert that fails after the job row keeps the job row.
MutEnqueueRefused(r) ==
    /\ answered[r] = NoJob /\ NewKey(r) /\ ~RowsFree(r)
    /\ jobs' = [jobs EXCEPT ![r] = NewRow(now)]
    /\ answered' = [answered EXCEPT ![r] = Refused]
    /\ UNCHANGED <<observations, receipts, held, now, overstayed>>

\* The key is new but the observation or the event is stored: roll back, error.
EnqueueRefused(r) ==
    /\ answered[r] = NoJob /\ NewKey(r) /\ ~RowsFree(r)
    /\ answered' = [answered EXCEPT ![r] = Refused]
    /\ UNCHANGED <<jobs, observations, receipts, held, now, overstayed>>
-------------------------------------------------------------------------------
(* Claim.                                                                    *)

\* Mutant: a running job is taken over by the time it became available.
MutReady(r, at) ==
    /\ jobs[r].state \in {"queued", "running"}
    /\ StoredAtMost(jobs[r].available_at, at)

Ready(r, at) ==
    \/ /\ jobs[r].state = "queued" /\ StoredAtMost(jobs[r].available_at, at)
    \/ /\ jobs[r].state = "running" /\ jobs[r].lease_expires_at # NoTime
       /\ StoredAtMost(jobs[r].lease_expires_at, at)

\* ORDER BY available_at, created_at, id; the ids are random, so ties are open.
Precedes(q, r) ==
    \/ StoredBefore(jobs[q].available_at, jobs[r].available_at)
    \/ /\ jobs[q].available_at = jobs[r].available_at
       /\ StoredBefore(jobs[q].created_at, jobs[r].created_at)

\* The jobs of processes that are past their lease, or within the one second
\* of its end that the order of the stored texts can take or give.
Overstaying ==
    {held[w].job : w \in {v \in Workers : /\ held[v].pc # "idle"
                                          /\ held[v].until < now + TicksPerSecond}}
NoteOverstays == overstayed' = overstayed \cup Overstaying'

\* Mutant: taking over an abandoned job is not counted as an attempt.
MutLeased(row, w, at) ==
    [state |-> "running",
     attempts |-> IF row.state = "queued" THEN row.attempts + 1 ELSE row.attempts,
     lease_owner |-> OwnerOf[w], lease_expires_at |-> at + Lease,
     available_at |-> row.available_at, created_at |-> row.created_at]

Leased(row, w, at) ==
    [state |-> "running", attempts |-> row.attempts + 1,
     lease_owner |-> OwnerOf[w], lease_expires_at |-> at + Lease,
     available_at |-> row.available_at, created_at |-> row.created_at]

Claim(w, r, at) ==
    /\ held[w].pc = "idle"
    /\ r \in Stored /\ Ready(r, at)
    /\ \A q \in Stored : Ready(q, at) => ~Precedes(q, r)
    /\ jobs[r].attempts < MaxClaims
    /\ jobs' = [jobs EXCEPT ![r] = Leased(@, w, at)]
    /\ held' = [held EXCEPT ![w] = [pc |-> "working", job |-> r,
                                    attempt |-> jobs'[r].attempts,
                                    until |-> jobs'[r].lease_expires_at]]
    /\ UNCHANGED <<observations, receipts, answered, now>>
    /\ NoteOverstays
-------------------------------------------------------------------------------
(* Complete and Fail, guarded by the lease in their WHERE clause.            *)

HoldsLease(w, r, at) ==
    /\ jobs[r].state = "running"
    /\ jobs[r].lease_owner = OwnerOf[w]
    /\ StoredBefore(at, jobs[r].lease_expires_at)

Unleased(row, state, available) ==
    [state |-> state, attempts |-> row.attempts,
     lease_owner |-> NoOwner, lease_expires_at |-> NoTime,
     available_at |-> available, created_at |-> row.created_at]

Complete(w, at) ==
    LET r == held[w].job IN
    /\ held[w].pc = "working" /\ HoldsLease(w, r, at)
    /\ jobs' = [jobs EXCEPT ![r] = Unleased(@, "succeeded", @.available_at)]
    /\ held' = [held EXCEPT ![w] = Idle]
    /\ UNCHANGED <<observations, receipts, answered, now, overstayed>>

\* requireLease: no row matched.  ProcessOne then records a failure.
CompleteLost(w, at) ==
    /\ held[w].pc = "working" /\ ~HoldsLease(w, held[w].job, at)
    /\ held' = [held EXCEPT ![w].pc = "failing"]
    /\ UNCHANGED <<jobs, observations, receipts, answered, now, overstayed>>

\* Any earlier error of processClaimed.
WorkFails(w) ==
    /\ held[w].pc = "working"
    /\ held' = [held EXCEPT ![w].pc = "failing"]
    /\ UNCHANGED <<jobs, observations, receipts, answered, now, overstayed>>

\* Mutant: the retry limit is compared with the attempts still to come.
MutFailedState(row) == IF row.attempts + 1 >= MaxAttempts THEN "failed" ELSE "queued"

FailedState(row) == IF row.attempts >= MaxAttempts THEN "failed" ELSE "queued"

Fail(w, at) ==
    LET r == held[w].job IN
    /\ held[w].pc = "failing" /\ HoldsLease(w, r, at)
    /\ jobs' = [jobs EXCEPT ![r] = Unleased(@, FailedState(@), at + Backoff)]
    /\ held' = [held EXCEPT ![w] = Idle]
    /\ UNCHANGED <<observations, receipts, answered, now, overstayed>>

\* The failure cannot be recorded either; the worker drops the job.
FailLost(w, at) ==
    /\ held[w].pc = "failing" /\ ~HoldsLease(w, held[w].job, at)
    /\ held' = [held EXCEPT ![w] = Idle]
    /\ UNCHANGED <<jobs, observations, receipts, answered, now, overstayed>>

\* The process dies, or its context is cancelled so that Fail cannot run.
Crash(w) ==
    /\ held[w].pc # "idle"
    /\ held' = [held EXCEPT ![w] = Idle]
    /\ UNCHANGED <<jobs, observations, receipts, answered, now, overstayed>>

Tick ==
    /\ now < MaxTime
    /\ now' = now + 1
    /\ UNCHANGED <<jobs, observations, receipts, answered, held>>
    /\ NoteOverstays
-------------------------------------------------------------------------------
Enqueue(r) ==
    \/ \E prepared \in Recent : EnqueueAccepted(r, prepared)
    \/ EnqueueReplayed(r)
    \/ EnqueueRefused(r)

Work(w) ==
    \/ \E r \in Requests, at \in Recent : Claim(w, r, at)
    \/ \E at \in Recent : Complete(w, at) \/ CompleteLost(w, at)
    \/ \E at \in Recent : Fail(w, at) \/ FailLost(w, at)
    \/ WorkFails(w)
    \/ Crash(w)

Next ==
    \/ \E r \in Requests : Enqueue(r)
    \/ \E w \in Workers : Work(w)
    \/ Tick

Spec == Init /\ [][Next]_vars
-------------------------------------------------------------------------------
(* Properties.                                                               *)

\* The holder of the attempt that the row of r is leased for.
HoldsAttempt(w, r) ==
    /\ held[w].pc # "idle" /\ held[w].job = r
    /\ held[w].attempt = jobs[r].attempts

\* Capture is all or nothing (EnqueueObservation): exactly the observations and
\* receipts of the stored jobs are stored, and no two jobs share a key, an
\* observation or an event, however often and in whatever order calls repeat.
AtomicCapture ==
    /\ observations = {Call[r].observation : r \in Stored}
    /\ receipts = {Call[r].event : r \in Stored} \ {NoEvent}
    /\ \A q, r \in Stored : q # r =>
          /\ ~SameKey(q, r)
          /\ Call[q].observation # Call[r].observation
          /\ Call[q].event = Call[r].event => Call[q].event = NoEvent

\* Every enqueue call that is told a job is told the one stored job of its key,
\* whichever of the concurrent calls won.
IdempotentAnswer ==
    \A r \in Requests : answered[r] \in Requests =>
        /\ answered[r] \in Stored
        /\ SameKey(answered[r], r)

\* Both: a capture is stored once and whole, and every caller is told so.
CaptureExact == AtomicCapture /\ IdempotentAnswer

\* Two processes never work on the same attempt of a job: each Claim, the
\* takeover of an abandoned job included, is an attempt of its own.
AttemptsExclusive ==
    \A v, w \in Workers :
        v # w /\ held[v].pc # "idle" /\ held[w].pc # "idle" /\ held[v].job = held[w].job
            => held[v].attempt # held[w].attempt

\* The lease keeps others away: as long as nobody stays on a job until its lease
\* ends (give or take the second of the text order), at most one process is on
\* it.  The one owner name that all processes share plays no part in it.
ExclusiveInTime ==
    \A v, w \in Workers :
        v # w /\ held[v].pc # "idle" /\ held[w].pc # "idle" /\ held[v].job = held[w].job
            => held[v].job \in overstayed

\* The retry limit of Fail: a job that waits in the queue has an attempt left,
\* and a job is failed only when its attempts are used up.
RetryLimit ==
    \A r \in Stored :
        /\ jobs[r].state = "queued" => jobs[r].attempts < MaxAttempts
        /\ jobs[r].state = "failed" => jobs[r].attempts >= MaxAttempts

\* A lease is recorded exactly while a job runs, for an attempt that was made.
LeaseIffRunning ==
    \A r \in Stored :
        /\ (jobs[r].state = "running") <=> (jobs[r].lease_owner # NoOwner)
        /\ (jobs[r].state = "running") <=> (jobs[r].lease_expires_at # NoTime)
        /\ jobs[r].state # "queued" => jobs[r].attempts > 0

\* What a client that saw a terminal job (Wait) may rely on: it never changes.
Terminal(r) == r \in Stored /\ jobs[r].state \in {"succeeded", "failed"}
TerminalFinal ==
    [][\A r \in Requests : Terminal(r) => jobs'[r] = jobs[r]]_vars

\* Fencing as ErrLeaseLost describes it: an attempt is ended only by a process
\* on that very attempt, never by a stale one whose attempt was taken over.
\* The code does not keep it: every process claims under the same name.
EndsAttempt(r) ==
    /\ r \in Stored /\ jobs[r].state = "running"
    /\ jobs'[r].state # "running"
FencedFinish ==
    [][\A r \in Requests : EndsAttempt(r) =>
          \E w \in Workers : HoldsAttempt(w, r) /\ held'[w] = Idle]_vars
-------------------------------------------------------------------------------
(* Refinement: rows, leases, owner names and clocks hidden.                  *)

StatusOf == [r \in Requests |->
    IF r \notin Stored THEN "absent"
    ELSE IF jobs[r].state \in {"queued", "running"} THEN "open"
    ELSE jobs[r].state]
ProcessesOn == [r \in Requests |->
    {w \in Workers : held[w].pc # "idle" /\ held[w].job = r}]
TriesOf == [r \in Requests |-> IF r \in Stored THEN jobs[r].attempts ELSE 0]

Contract == INSTANCE JobContract WITH
    status <- StatusOf, claimants <- ProcessesOn, tries <- TriesOf,
    KeyOf <- [r \in Requests |-> Call[r].key]

\* The queue keeps the contract: a key is accepted once; a second process joins
\* a job only when another overstayed; a process on the job, and nobody else,
\* ends it, as failed only when its attempts are used up; ended is for good.
ImplementsContract == Contract!Spec
===============================================================================
