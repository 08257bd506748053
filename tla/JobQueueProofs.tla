---------------------------- MODULE JobQueueProofs ----------------------------
(*****************************************************************************)
(* Proofs about the durable job queue, for any number of requests, workers,  *)
(* keys and ticks.                                                           *)
(*****************************************************************************)
EXTENDS JobQueue, TLAPS

\* The instants that callers pass to the store are instants.
LEMMA RecentInstants == TypeOK => \A t \in Recent : t \in Instant
  BY DEF TypeOK, Recent, Instant

\* What Claim writes is a row, with a lease and one attempt more.
LEMMA LeasedRow ==
    ASSUME NEW row \in Row, NEW w \in Workers, NEW at \in Nat
    PROVE  /\ Leased(row, w, at) \in Row
           /\ Leased(row, w, at).state = "running"
           /\ Leased(row, w, at).attempts = row.attempts + 1
           /\ Leased(row, w, at).lease_owner = OwnerOf[w]
           /\ Leased(row, w, at).lease_expires_at \in Instant
           /\ Leased(row, w, at).lease_expires_at # NoTime
<1>1. at + Lease \in Nat
  BY DurationAssumption
<1>2. OwnerOf[w] \in Owners
  BY OwnerAssumption
<1> QED
  BY <1>1, <1>2 DEF Leased, Row, JobState, Instant, NoTime

\* What Complete and Fail write is a row without a lease, attempts untouched.
LEMMA UnleasedRow ==
    ASSUME NEW row \in Row, NEW state \in JobState, NEW available \in Nat
    PROVE  /\ Unleased(row, state, available) \in Row
           /\ Unleased(row, state, available).state = state
           /\ Unleased(row, state, available).attempts = row.attempts
           /\ Unleased(row, state, available).lease_owner = NoOwner
           /\ Unleased(row, state, available).lease_expires_at = NoTime
  BY DEF Unleased, Row, JobState, NoTime, Instant

\* A busy worker is on a stored job.
LEMMA HeldRow ==
    ASSUME TypeOK, NEW w \in Workers, held[w].pc # "idle"
    PROVE  /\ held[w].job \in Requests /\ jobs[held[w].job] \in Row
           /\ held[w].until \in Instant
  BY DEF TypeOK

LEMMA IdleClaim == Idle \in Claims /\ Idle.pc = "idle" /\ Idle.job = NoJob
  BY DEF Idle, Claims, NoTime, Instant

\* The type invariant of durable_jobs, its companion tables and the workers.
THEOREM TypeCorrect == Spec => []TypeOK
<1>1. Init => TypeOK
  BY NullAssumption DEF Init, TypeOK, Idle, Claims, Instant, NoTime
<1>2. TypeOK /\ [Next]_vars => TypeOK'
  <2> SUFFICES ASSUME TypeOK, [Next]_vars PROVE TypeOK'
    OBVIOUS
  <2>1. ASSUME NEW r \in Requests, NEW prepared \in Recent, EnqueueAccepted(r, prepared)
        PROVE TypeOK'
    <3>1. NewRow(prepared) \in Row
      BY RecentInstants DEF NewRow, Row, JobState, Instant, TypeOK
    <3>2. Call[r].observation \in ObservationIDs /\ {Call[r].event} \ {NoEvent} \subseteq EventIDs
      BY CallAssumption
    <3>3. \A q \in Requests : jobs[q] # NoJob => jobs'[q] # NoJob
      BY <2>1, <3>1, RowAssumption DEF EnqueueAccepted, TypeOK
    <3> QED
      BY <2>1, <3>1, <3>2, <3>3 DEF EnqueueAccepted, TypeOK
  <2>2. ASSUME NEW r \in Requests, EnqueueReplayed(r) PROVE TypeOK'
    BY <2>2 DEF EnqueueReplayed, Stored, TypeOK
  <2>3. ASSUME NEW r \in Requests, EnqueueRefused(r) PROVE TypeOK'
    BY <2>3 DEF EnqueueRefused, TypeOK
  <2>4. ASSUME NEW w \in Workers, NEW r \in Requests, NEW at \in Recent, Claim(w, r, at)
        PROVE TypeOK'
    <3>1. at \in Nat /\ jobs[r] \in Row
      BY <2>4, RecentInstants DEF Claim, Stored, Instant, TypeOK
    <3>2. Leased(jobs[r], w, at) \in Row
      BY <3>1, LeasedRow
    <3>3. jobs' \in [Requests -> Row \cup {NoJob}] /\ jobs'[r] \in Row
      BY <2>4, <3>2 DEF Claim, TypeOK
    <3>4. held' \in [Workers -> Claims]
      <4>1. jobs'[r].attempts \in Nat /\ jobs'[r].lease_expires_at \in Instant \cup {NoTime}
        BY <3>3 DEF Row
      <4> QED
        BY <2>4, <4>1 DEF Claim, Claims, TypeOK
    <3>5. \A q \in Requests : jobs[q] # NoJob => jobs'[q] # NoJob
      BY <2>4, <3>3, RowAssumption DEF Claim, TypeOK
    <3>6. ASSUME NEW v \in Workers, held'[v].pc # "idle"
          PROVE /\ held'[v].job \in Requests /\ jobs'[held'[v].job] # NoJob
                /\ held'[v].until \in Instant
      <4>1. jobs'[r] = Leased(jobs[r], w, at)
        BY <2>4 DEF Claim, TypeOK
      <4>2. jobs'[r].lease_expires_at \in Instant
        BY <3>1, <4>1, LeasedRow
      <4> QED
        BY <2>4, <3>3, <3>5, <3>6, <4>2, RowAssumption DEF Claim, TypeOK
    <3>7. overstayed' \subseteq Requests
      BY <2>4, <3>6 DEF Claim, NoteOverstays, Overstaying, TypeOK
    <3> QED
      BY <2>4, <3>3, <3>4, <3>6, <3>7 DEF Claim, TypeOK
  <2>5. ASSUME NEW w \in Workers, NEW at \in Recent, Complete(w, at) \/ Fail(w, at) PROVE TypeOK'
    <3>1. PICK new \in Row :
             /\ jobs' = [jobs EXCEPT ![held[w].job] = new]
             /\ held' = [held EXCEPT ![w] = Idle]
             /\ UNCHANGED <<observations, receipts, answered, now, overstayed>>
      <4>1. held[w].job \in Requests /\ jobs[held[w].job] \in Row
        BY <2>5, HeldRow DEF Complete, Fail
      <4>2. FailedState(jobs[held[w].job]) \in JobState /\ "succeeded" \in JobState
        BY DEF FailedState, JobState
      <4>3. at + Backoff \in Nat /\ jobs[held[w].job].available_at \in Nat
        BY <4>1, RecentInstants, DurationAssumption DEF Row, Instant
      <4> QED
        BY <2>5, <4>1, <4>2, <4>3, UnleasedRow DEF Complete, Fail
    <3>2. \A q \in Requests : jobs[q] # NoJob => jobs'[q] # NoJob
      BY <3>1, RowAssumption DEF TypeOK
    <3> QED
      BY <3>1, <3>2, IdleClaim DEF TypeOK
  <2>6. ASSUME NEW w \in Workers, NEW at \in Recent, CompleteLost(w, at) PROVE TypeOK'
    BY <2>6 DEF CompleteLost, TypeOK, Claims
  <2>7. ASSUME NEW w \in Workers, WorkFails(w) PROVE TypeOK'
    BY <2>7 DEF WorkFails, TypeOK, Claims
  <2>8. ASSUME NEW w \in Workers, NEW at \in Recent, FailLost(w, at) PROVE TypeOK'
    BY <2>8, IdleClaim DEF FailLost, TypeOK
  <2>9. ASSUME NEW w \in Workers, Crash(w) PROVE TypeOK'
    BY <2>9, IdleClaim DEF Crash, TypeOK
  <2>10. CASE Tick
    BY <2>10 DEF Tick, NoteOverstays, Overstaying, TypeOK, Instant
  <2>11. CASE UNCHANGED vars
    BY <2>11 DEF vars, TypeOK
  <2> QED
    BY <2>1, <2>2, <2>3, <2>4, <2>5, <2>6, <2>7, <2>8, <2>9, <2>10, <2>11
       DEF Next, Enqueue, Work
<1> QED
  BY <1>1, <1>2, PTL DEF Spec
-------------------------------------------------------------------------------
(* Capture.                                                                  *)

\* Only an accepted enqueue adds a job; no step removes one.
LEMMA StoredStep ==
    ASSUME TypeOK, [Next]_vars
    PROVE  \/ \E r \in Requests, prepared \in Recent : EnqueueAccepted(r, prepared)
           \/ /\ Stored' = Stored
              /\ UNCHANGED <<observations, receipts>>
              /\ \/ UNCHANGED answered
                 \/ \E r \in Requests : EnqueueReplayed(r) \/ EnqueueRefused(r)
<1>1. ASSUME NEW w \in Workers, NEW r \in Requests, NEW at \in Recent, Claim(w, r, at)
      PROVE Stored' = Stored
  <2>1. Leased(jobs[r], w, at) # NoJob
    BY <1>1, LeasedRow, RecentInstants, RowAssumption DEF Claim, Stored, TypeOK, Instant
  <2> QED
    BY <1>1, <2>1 DEF Claim, Stored, TypeOK
<1>2. ASSUME NEW w \in Workers, NEW at \in Recent, Complete(w, at) \/ Fail(w, at)
      PROVE Stored' = Stored
  <2>1. held[w].job \in Requests /\ jobs[held[w].job] \in Row
    BY <1>2, HeldRow DEF Complete, Fail
  <2>2. FailedState(jobs[held[w].job]) \in JobState /\ "succeeded" \in JobState
    BY DEF FailedState, JobState
  <2>3. at + Backoff \in Nat /\ jobs[held[w].job].available_at \in Nat
    BY <2>1, RecentInstants, DurationAssumption DEF Row, Instant
  <2> QED
    BY <1>2, <2>1, <2>2, <2>3, UnleasedRow, RowAssumption DEF Complete, Fail, Stored, TypeOK
<1>3. ASSUME NEW w \in Workers, Work(w)
      PROVE Stored' = Stored /\ UNCHANGED <<observations, receipts, answered>>
  BY <1>1, <1>2, <1>3
     DEF Work, Claim, Complete, CompleteLost, WorkFails, Fail, FailLost, Crash, Stored
<1>4. CASE Tick
  BY <1>4 DEF Tick, Stored
<1>5. CASE UNCHANGED vars
  BY <1>5 DEF vars, Stored
<1>6. ASSUME NEW r \in Requests, EnqueueReplayed(r) \/ EnqueueRefused(r)
      PROVE Stored' = Stored /\ UNCHANGED <<observations, receipts>>
  BY <1>6 DEF EnqueueReplayed, EnqueueRefused, Stored
<1> QED
  BY <1>3, <1>4, <1>5, <1>6 DEF Next, Enqueue

\* However enqueue calls repeat, race and fail, the stored jobs, observations
\* and receipts correspond one to one, and every caller of a key is told the
\* one job of that key (EnqueueObservation, EnqueueAgentEvent).
THEOREM CaptureCorrect == Spec => []CaptureExact
<1> DEFINE Inv == AtomicCapture /\ IdempotentAnswer
<1>1. Init => Inv
  BY NullAssumption DEF Init, AtomicCapture, IdempotentAnswer, Stored
<1>2. TypeOK /\ Inv /\ [Next]_vars => Inv'
  <2> SUFFICES ASSUME TypeOK, Inv, [Next]_vars PROVE Inv'
    OBVIOUS
  <2>1. ASSUME NEW r \in Requests, NEW prepared \in Recent, EnqueueAccepted(r, prepared)
        PROVE Inv'
    <3>1. NewRow(prepared) # NoJob
      BY RecentInstants, RowAssumption DEF NewRow, Row, JobState, Instant, TypeOK
    <3>2. Stored' = Stored \cup {r}
      BY <2>1, <3>1 DEF EnqueueAccepted, Stored, TypeOK
    <3>3. AtomicCapture'
      BY <2>1, <3>2, NullAssumption DEF AtomicCapture, EnqueueAccepted, NewKey, RowsFree, SameKey
    <3>4. IdempotentAnswer'
      BY <2>1, <3>2 DEF IdempotentAnswer, EnqueueAccepted, SameKey, TypeOK
    <3> QED
      BY <3>3, <3>4
  <2>2. CASE /\ Stored' = Stored
             /\ UNCHANGED <<observations, receipts>>
    <3>1. AtomicCapture'
      BY <2>2 DEF AtomicCapture, SameKey
    <3>2. CASE UNCHANGED answered
      BY <2>2, <3>1, <3>2 DEF IdempotentAnswer, SameKey
    <3>3. ASSUME NEW r \in Requests, EnqueueReplayed(r) \/ EnqueueRefused(r) PROVE Inv'
      BY <2>2, <3>1, <3>3, NullAssumption
         DEF IdempotentAnswer, SameKey, EnqueueReplayed, EnqueueRefused, TypeOK
    <3>4. ASSUME NEW r \in Requests, NEW prepared \in Recent, EnqueueAccepted(r, prepared)
          PROVE Inv'
      BY <2>1, <3>4
    <3> QED
      BY <3>2, <3>3, <3>4, StoredStep
  <2> QED
    BY <2>1, <2>2, StoredStep
<1>3. Inv => CaptureExact
  BY DEF CaptureExact
<1> QED
  BY <1>1, <1>2, <1>3, TypeCorrect, PTL DEF Spec
-------------------------------------------------------------------------------
(* Rows.                                                                     *)

\* The only ways a row changes: inserted, leased by a claim, or unleased by
\* the worker whose lease it is.
Inserted(r) ==
    /\ r \notin Stored
    /\ \E prepared \in Recent : jobs'[r] = NewRow(prepared)
Claimed(r) ==
    \E w \in Workers, at \in Recent :
        Claim(w, r, at) /\ jobs'[r] = Leased(jobs[r], w, at)
Completed(r) ==
    \E w \in Workers, at \in Recent :
        /\ held[w].job = r /\ Complete(w, at)
        /\ jobs'[r] = Unleased(jobs[r], "succeeded", jobs[r].available_at)
FailRecorded(r) ==
    \E w \in Workers, at \in Recent :
        /\ held[w].job = r /\ Fail(w, at)
        /\ jobs'[r] = Unleased(jobs[r], FailedState(jobs[r]), at + Backoff)

LEMMA RowStep ==
    ASSUME TypeOK, [Next]_vars, NEW r \in Requests
    PROVE  \/ jobs'[r] = jobs[r]
           \/ Inserted(r) \/ Claimed(r) \/ Completed(r) \/ FailRecorded(r)
<1>1. ASSUME NEW q \in Requests, NEW prepared \in Recent, EnqueueAccepted(q, prepared)
      PROVE jobs'[r] = jobs[r] \/ Inserted(r)
  BY <1>1 DEF EnqueueAccepted, NewKey, SameKey, Inserted, Stored, TypeOK
<1>2. ASSUME NEW w \in Workers, NEW q \in Requests, NEW at \in Recent, Claim(w, q, at)
      PROVE jobs'[r] = jobs[r] \/ Claimed(r)
  BY <1>2 DEF Claim, Claimed, TypeOK
<1>3. ASSUME NEW w \in Workers, NEW at \in Recent, Complete(w, at)
      PROVE jobs'[r] = jobs[r] \/ Completed(r)
  BY <1>3 DEF Complete, Completed, TypeOK
<1>4. ASSUME NEW w \in Workers, NEW at \in Recent, Fail(w, at)
      PROVE jobs'[r] = jobs[r] \/ FailRecorded(r)
  BY <1>4 DEF Fail, FailRecorded, TypeOK
<1>5. ASSUME UNCHANGED jobs PROVE jobs'[r] = jobs[r]
  BY <1>5
<1> QED
  BY <1>1, <1>2, <1>3, <1>4, <1>5
     DEF Next, Enqueue, Work, EnqueueReplayed, EnqueueRefused, CompleteLost, WorkFails,
         FailLost, Crash, Tick, vars

\* What a claim, a completion and a recorded failure leave in the row.
LEMMA RowEffects ==
    ASSUME TypeOK, NEW r \in Requests
    PROVE  /\ Inserted(r) => /\ jobs'[r].state = "queued" /\ jobs'[r].attempts = 0
                             /\ jobs'[r].lease_owner = NoOwner
                             /\ jobs'[r].lease_expires_at = NoTime
           /\ Claimed(r) => /\ jobs[r] \in Row
                            /\ jobs[r].state \in {"queued", "running"}
                            /\ jobs'[r].state = "running"
                            /\ jobs'[r].attempts = jobs[r].attempts + 1
                            /\ jobs'[r].lease_owner \in Owners
                            /\ jobs'[r].lease_expires_at # NoTime
           /\ Completed(r) \/ FailRecorded(r) =>
                            /\ jobs[r] \in Row /\ jobs[r].state = "running"
                            /\ jobs'[r].attempts = jobs[r].attempts
                            /\ jobs'[r].lease_owner = NoOwner
                            /\ jobs'[r].lease_expires_at = NoTime
           /\ Completed(r) => jobs'[r].state = "succeeded"
           /\ FailRecorded(r) => jobs'[r].state = FailedState(jobs[r])
<1>1. ASSUME NEW w \in Workers, NEW at \in Recent, Claim(w, r, at),
             jobs'[r] = Leased(jobs[r], w, at)
      PROVE  /\ jobs[r] \in Row /\ jobs[r].state \in {"queued", "running"}
             /\ jobs'[r].state = "running"
             /\ jobs'[r].attempts = jobs[r].attempts + 1
             /\ jobs'[r].lease_owner \in Owners
             /\ jobs'[r].lease_expires_at # NoTime
  <2>1. jobs[r] \in Row /\ at \in Nat /\ jobs[r].state \in {"queued", "running"}
    BY <1>1, RecentInstants DEF Claim, Ready, Stored, TypeOK, Instant
  <2>2. OwnerOf[w] \in Owners
    BY OwnerAssumption
  <2> QED
    BY <1>1, <2>1, <2>2, LeasedRow
<1>2. ASSUME NEW w \in Workers, NEW at \in Recent, held[w].job = r,
             Complete(w, at) \/ Fail(w, at)
      PROVE  /\ jobs[r] \in Row /\ jobs[r].state = "running"
             /\ at + Backoff \in Nat /\ jobs[r].available_at \in Nat
             /\ FailedState(jobs[r]) \in JobState
  <2>1. jobs[r] \in Row /\ jobs[r].state = "running"
    BY <1>2, HeldRow DEF Complete, Fail, HoldsLease
  <2>2. at + Backoff \in Nat /\ jobs[r].available_at \in Nat
    BY <2>1, RecentInstants, DurationAssumption DEF Row, Instant
  <2>3. FailedState(jobs[r]) \in JobState
    BY DEF FailedState, JobState
  <2> QED
    BY <2>1, <2>2, <2>3
<1>3. "succeeded" \in JobState
  BY DEF JobState
<1>4. Inserted(r) => /\ jobs'[r].state = "queued" /\ jobs'[r].attempts = 0
                     /\ jobs'[r].lease_owner = NoOwner
                     /\ jobs'[r].lease_expires_at = NoTime
  BY DEF Inserted, NewRow
<1>5. Completed(r) => /\ jobs[r] \in Row /\ jobs[r].state = "running"
                      /\ jobs'[r].attempts = jobs[r].attempts
                      /\ jobs'[r].lease_owner = NoOwner
                      /\ jobs'[r].lease_expires_at = NoTime
                      /\ jobs'[r].state = "succeeded"
  BY <1>2, <1>3, UnleasedRow DEF Completed
<1>6. FailRecorded(r) => /\ jobs[r] \in Row /\ jobs[r].state = "running"
                         /\ jobs'[r].attempts = jobs[r].attempts
                         /\ jobs'[r].lease_owner = NoOwner
                         /\ jobs'[r].lease_expires_at = NoTime
                         /\ jobs'[r].state = FailedState(jobs[r])
  BY <1>2, UnleasedRow DEF FailRecorded
<1> QED
  BY <1>1, <1>4, <1>5, <1>6 DEF Claimed

\* Leases are recorded exactly while a job runs, and the retry limit separates
\* queued from failed jobs, whatever claims, failures and crashes happen.
THEOREM RowsCorrect == Spec => [](LeaseIffRunning /\ RetryLimit)
<1> DEFINE RowOK(r) ==
       /\ (jobs[r].state = "running") <=> (jobs[r].lease_owner # NoOwner)
       /\ (jobs[r].state = "running") <=> (jobs[r].lease_expires_at # NoTime)
       /\ jobs[r].state # "queued" => jobs[r].attempts > 0
       /\ jobs[r].state = "queued" => jobs[r].attempts < MaxAttempts
       /\ jobs[r].state = "failed" => jobs[r].attempts >= MaxAttempts
<1> DEFINE Inv == \A r \in Stored : RowOK(r)
<1>1. Init => Inv
  BY DEF Init, Stored
<1>2. TypeOK /\ Inv /\ [Next]_vars => Inv'
  <2> SUFFICES ASSUME TypeOK, Inv, [Next]_vars, NEW r \in Requests, r \in Stored'
               PROVE RowOK(r)'
    BY DEF Stored
  <2>1. CASE jobs'[r] = jobs[r]
    BY <2>1 DEF Stored
  <2>2. CASE Inserted(r)
    BY <2>2, RowEffects, DurationAssumption
  <2>3. CASE Claimed(r)
    <3>1. jobs[r].attempts \in Nat
      BY <2>3, RowEffects DEF Row
    <3> QED
      BY <2>3, <3>1, RowEffects, OwnerAssumption
  <2>4. CASE Completed(r) \/ FailRecorded(r)
    <3>1. jobs[r].attempts > 0 /\ jobs[r].attempts \in Nat
      <4>1. r \in Stored
        BY <2>4, RowEffects, RowAssumption DEF Stored
      <4> QED
        BY <2>4, <4>1, RowEffects DEF Row
    <3>2. CASE Completed(r)
      BY <3>1, <3>2, RowEffects
    <3>3. CASE FailRecorded(r)
      <4>1. /\ jobs'[r].state = (IF jobs[r].attempts >= MaxAttempts THEN "failed" ELSE "queued")
            /\ jobs'[r].attempts = jobs[r].attempts
            /\ jobs'[r].lease_owner = NoOwner /\ jobs'[r].lease_expires_at = NoTime
        BY <3>3, RowEffects DEF FailedState
      <4> QED
        BY <4>1, <3>1, DurationAssumption
    <3> QED
      BY <2>4, <3>2, <3>3
  <2> QED
    BY <2>1, <2>2, <2>3, <2>4, RowStep
<1>3. Inv => LeaseIffRunning /\ RetryLimit
  BY DEF LeaseIffRunning, RetryLimit
<1> QED
  BY <1>1, <1>2, <1>3, TypeCorrect, PTL DEF Spec

\* A job that a client saw succeeded or failed never changes again.
THEOREM TerminalRowsFinal == Spec => TerminalFinal
<1>1. TypeOK /\ [Next]_vars => [\A r \in Requests : Terminal(r) => jobs'[r] = jobs[r]]_vars
  <2> SUFFICES ASSUME TypeOK, [Next]_vars, NEW r \in Requests, Terminal(r)
               PROVE jobs'[r] = jobs[r]
    OBVIOUS
  <2> QED
    BY RowStep, RowEffects DEF Terminal, Inserted
<1> QED
  BY <1>1, TypeCorrect, PTL DEF Spec, TerminalFinal
-------------------------------------------------------------------------------
(* Exclusion.                                                                *)

\* The process stays on the attempt it claimed.
SameClaim(w) ==
    /\ held'[w].job = held[w].job /\ held'[w].attempt = held[w].attempt
    /\ held'[w].until = held[w].until

\* How the claim of one process changes: taken, ended, marked failing, dropped.
LEMMA HeldStep ==
    ASSUME TypeOK, [Next]_vars, NEW w \in Workers
    PROVE  \/ held'[w] = held[w]
           \/ held'[w] = Idle
           \/ /\ SameClaim(w) /\ held[w].pc # "idle" /\ UNCHANGED jobs
           \/ \E r \in Requests, at \in Recent :
                 /\ Claim(w, r, at) /\ held'[w].job = r
                 /\ held'[w].attempt = jobs'[r].attempts
                 /\ held'[w].until = jobs'[r].lease_expires_at
<1>1. ASSUME NEW v \in Workers, NEW r \in Requests, NEW at \in Recent, Claim(v, r, at)
      PROVE \/ held'[w] = held[w]
            \/ /\ Claim(w, r, at) /\ held'[w].job = r
               /\ held'[w].attempt = jobs'[r].attempts
               /\ held'[w].until = jobs'[r].lease_expires_at
  BY <1>1 DEF Claim, TypeOK
<1>2. ASSUME NEW v \in Workers, NEW at \in Recent,
             Complete(v, at) \/ Fail(v, at) \/ FailLost(v, at) \/ Crash(v)
      PROVE held'[w] = held[w] \/ held'[w] = Idle
  BY <1>2 DEF Complete, Fail, FailLost, Crash, TypeOK
<1>3. ASSUME NEW v \in Workers, NEW at \in Recent, CompleteLost(v, at) \/ WorkFails(v)
      PROVE \/ held'[w] = held[w]
            \/ SameClaim(w) /\ held[w].pc # "idle" /\ UNCHANGED jobs
  BY <1>3 DEF CompleteLost, WorkFails, TypeOK, Claims, SameClaim
<1>4. ASSUME NEW r \in Requests, Enqueue(r) PROVE held'[w] = held[w]
  BY <1>4 DEF Enqueue, EnqueueAccepted, EnqueueReplayed, EnqueueRefused
<1>5. CASE Tick \/ UNCHANGED vars
  BY <1>5 DEF Tick, vars
<1>6. ASSUME NEW v \in Workers, Crash(v) PROVE held'[w] = held[w] \/ held'[w] = Idle
  BY <1>6 DEF Crash, TypeOK
<1>7. ASSUME NEW v \in Workers, WorkFails(v)
      PROVE \/ held'[w] = held[w]
            \/ SameClaim(w) /\ held[w].pc # "idle" /\ UNCHANGED jobs
  BY <1>7 DEF WorkFails, TypeOK, Claims, SameClaim
<1> QED
  BY <1>1, <1>2, <1>3, <1>4, <1>5, <1>6, <1>7 DEF Next, Work

\* A claim made by w leaves w on the attempt and the lease of the row.
LEMMA ClaimHolds ==
    ASSUME TypeOK, NEW w \in Workers, NEW r \in Requests, NEW at \in Recent,
           Claim(w, r, at)
    PROVE  /\ jobs[r] \in Row /\ jobs[r].attempts \in Nat /\ at \in Nat /\ at <= now
           /\ jobs'[r].attempts = jobs[r].attempts + 1
           /\ jobs'[r].state = "running" /\ held[w].pc = "idle"
           /\ held' = [held EXCEPT ![w] = [pc |-> "working", job |-> r,
                                           attempt |-> jobs'[r].attempts,
                                           until |-> jobs'[r].lease_expires_at]]
<1>1. jobs[r] \in Row /\ at \in Nat /\ at <= now
  BY RecentInstants DEF Claim, Stored, TypeOK, Instant, Recent
<1>2. jobs'[r] = Leased(jobs[r], w, at)
  BY DEF Claim, TypeOK
<1>3. jobs[r].attempts \in Nat
  BY <1>1 DEF Row
<1> QED
  BY <1>1, <1>2, <1>3, LeasedRow DEF Claim

\* The attempts of a stored job never decrease.
LEMMA AttemptsGrow ==
    ASSUME TypeOK, [Next]_vars, NEW r \in Stored
    PROVE  /\ jobs[r].attempts \in Nat /\ jobs'[r].attempts \in Nat
           /\ jobs[r].attempts <= jobs'[r].attempts
<1>1. r \in Requests /\ jobs[r].attempts \in Nat
  BY DEF Stored, TypeOK, Row
<1> QED
  BY <1>1, RowStep, RowEffects DEF Inserted

\* A busy process never ran ahead of the row it is on.
AttemptBound ==
    \A w \in Workers : held[w].pc # "idle" =>
        held[w].attempt > 0 /\ held[w].attempt <= jobs[held[w].job].attempts

AttemptInv == AttemptBound /\ AttemptsExclusive

\* After a step a busy process is on the attempt it was on, or has just claimed.
LEMMA BusyStep ==
    ASSUME TypeOK, [Next]_vars, NEW w \in Workers, held'[w].pc # "idle"
    PROVE  \/ SameClaim(w) /\ held[w].pc # "idle"
           \/ \E r \in Requests, at \in Recent :
                 /\ Claim(w, r, at) /\ held'[w].job = r
                 /\ held'[w].attempt = jobs'[r].attempts
                 /\ held'[w].until = jobs'[r].lease_expires_at
  BY HeldStep, IdleClaim DEF SameClaim

LEMMA AttemptAlways == Spec => []AttemptInv
<1>1. Init => AttemptInv
  BY IdleClaim DEF Init, AttemptInv, AttemptBound, AttemptsExclusive
<1>2. TypeOK /\ AttemptInv /\ [Next]_vars => AttemptInv'
  <2> SUFFICES ASSUME TypeOK, AttemptInv, [Next]_vars PROVE AttemptInv'
    OBVIOUS
  <2> USE DEF AttemptInv
  <2>1. AttemptBound'
    <3> SUFFICES ASSUME NEW w \in Workers, held'[w].pc # "idle"
                 PROVE  /\ held'[w].attempt > 0
                        /\ held'[w].attempt <= jobs'[held'[w].job].attempts
      BY DEF AttemptBound
    <3>1. CASE SameClaim(w) /\ held[w].pc # "idle"
      <4>1. held[w].job \in Stored /\ held[w].attempt \in Nat
        BY <3>1 DEF TypeOK, Stored, Claims
      <4>2. held[w].attempt > 0 /\ held[w].attempt <= jobs[held[w].job].attempts
        BY <3>1 DEF AttemptBound
      <4> QED
        BY <3>1, <4>1, <4>2, AttemptsGrow DEF SameClaim
    <3>2. ASSUME NEW r \in Requests, NEW at \in Recent, Claim(w, r, at),
                 held'[w].job = r, held'[w].attempt = jobs'[r].attempts
          PROVE  /\ held'[w].attempt > 0
                 /\ held'[w].attempt <= jobs'[held'[w].job].attempts
      BY <3>2, ClaimHolds
    <3> QED
      BY <3>1, <3>2, BusyStep
  <2>2. AttemptsExclusive'
    <3> SUFFICES ASSUME NEW v \in Workers, NEW w \in Workers, v # w,
                        held'[v].pc # "idle", held'[w].pc # "idle",
                        held'[v].job = held'[w].job
                 PROVE  held'[v].attempt # held'[w].attempt
      BY DEF AttemptsExclusive
    <3>1. ASSUME NEW x \in Workers, NEW y \in Workers, x # y,
                 NEW r \in Requests, NEW at \in Recent, Claim(x, r, at),
                 held'[y].pc # "idle", held'[y].job = r
          PROVE  held'[x].attempt # held'[y].attempt
      <4>1. held'[y] = held[y] /\ held'[x].attempt = jobs[r].attempts + 1 /\ jobs[r].attempts \in Nat
        BY <3>1, ClaimHolds DEF TypeOK
      <4>2. held[y].attempt <= jobs[r].attempts /\ held[y].attempt \in Nat
        BY <3>1, <4>1 DEF AttemptBound, TypeOK, Claims
      <4> QED
        BY <4>1, <4>2
    <3>2. CASE \E at \in Recent : held'[v].job \in Requests /\ Claim(v, held'[v].job, at)
      BY <3>1, <3>2
    <3>3. CASE \E at \in Recent : held'[w].job \in Requests /\ Claim(w, held'[w].job, at)
      BY <3>1, <3>3
    <3>4. CASE /\ SameClaim(v) /\ held[v].pc # "idle"
               /\ SameClaim(w) /\ held[w].pc # "idle"
      BY <3>4 DEF AttemptsExclusive, SameClaim
    <3> QED
      BY <3>2, <3>3, <3>4, BusyStep
  <2> QED
    BY <2>1, <2>2
<1> QED
  BY <1>1, <1>2, TypeCorrect, PTL DEF Spec

\* Every claim, a takeover included, is an attempt of its own: no two processes
\* are ever on the same one, although all of them claim under one name (Claim).
THEOREM AttemptsAreExclusive == Spec => []AttemptsExclusive
<1>1. AttemptInv => AttemptsExclusive
  BY DEF AttemptInv
<1> QED
  BY <1>1, AttemptAlways, PTL

LEMMA SecondTicks == TicksPerSecond \in Nat \ {0}
  BY PowerAssumption, DigitsAssumption DEF TicksPerSecond

\* Whole seconds and the ticks left over.
LEMMA WholeSeconds ==
    ASSUME NEW t \in Nat, NEW k \in Nat \ {0}
    PROVE  t \div k \in Nat /\ k * (t \div k) <= t /\ t < k * (t \div k) + k
  OBVIOUS

\* The order of the stored texts is at most one second off.
LEMMA OffByASecond ==
    ASSUME NEW a \in Instant, NEW b \in Instant, StoredAtMost(a, b)
    PROVE  a < b + TicksPerSecond
<1> DEFINE k == TicksPerSecond
           A == a \div k
           B == b \div k
<1>1. k \in Nat \ {0} /\ a \in Nat /\ b \in Nat
  BY SecondTicks DEF Instant
<1>2. CASE a = b
  BY <1>1, <1>2
<1>3. CASE StoredBefore(a, b)
  <2>1. formatTime(a)[0] = A /\ formatTime(b)[0] = B
    BY DigitsAssumption DEF formatTime
  <2> HIDE DEF k
  <2>2. A \in Nat /\ B \in Nat /\ a < k * A + k /\ k * B <= b
    BY <1>1, WholeSeconds
  <2> HIDE DEF A, B
  <2>3. A <= B
    <3>1. PICK i \in 0..Digits :
             /\ formatTime(a)[i] < formatTime(b)[i]
             /\ \A j \in 0..(i - 1) : formatTime(a)[j] = formatTime(b)[j]
      BY <1>3 DEF StoredBefore, TextLess
    <3>2. CASE i = 0
      BY <2>1, <2>2, <3>1, <3>2
    <3>3. CASE i # 0
      <4>1. 0 \in 0..(i - 1)
        BY <3>3, DigitsAssumption
      <4> QED
        BY <2>1, <2>2, <3>1, <4>1
    <3> QED
      BY <3>2, <3>3
  <2>4. k * A <= k * B /\ k * A \in Nat /\ k * B \in Nat
    BY <1>1, <2>2, <2>3
  <2>5. a < b + k
    BY <1>1, <2>2, <2>4
  <2> QED
    BY <2>5 DEF k
<1> QED
  BY <1>2, <1>3 DEF StoredAtMost

\* A process on a job that nobody overstayed holds the attempt and the lease
\* that the row shows.
InTime ==
    \A w \in Workers : held[w].pc # "idle" /\ held[w].job \notin overstayed =>
        /\ jobs[held[w].job].state = "running"
        /\ jobs[held[w].job].attempts = held[w].attempt
        /\ jobs[held[w].job].lease_expires_at = held[w].until

OverstaysNoted == Overstaying \subseteq overstayed

TimeInv == InTime /\ OverstaysNoted

\* The history grows, and misses no overstay.
LEMMA OverstayedStep ==
    ASSUME TypeOK, [Next]_vars
    PROVE  /\ overstayed \subseteq overstayed'
           /\ \/ overstayed' = overstayed \cup Overstaying'
              \/ /\ UNCHANGED <<now, overstayed>>
                 /\ ~\E w \in Workers, r \in Requests, at \in Recent : Claim(w, r, at)
<1>1. CASE \E w \in Workers, r \in Requests, at \in Recent : Claim(w, r, at)
  BY <1>1 DEF Claim, NoteOverstays
<1>2. CASE Tick
  BY <1>2 DEF Tick, NoteOverstays
<1>3. CASE UNCHANGED <<now, overstayed>>
  BY <1>1, <1>3
<1> QED
  BY <1>1, <1>2, <1>3
     DEF Next, Enqueue, Work, EnqueueAccepted, EnqueueReplayed, EnqueueRefused, Complete,
         CompleteLost, WorkFails, Fail, FailLost, Crash, vars

\* A job can be claimed while another process is on it only if that process
\* overstayed: the texts of its lease and of the claim are a second off at most.
LEMMA TakenOverLate ==
    ASSUME TypeOK, TimeInv, NEW v \in Workers, NEW w \in Workers, NEW r \in Requests,
           NEW at \in Recent, Claim(v, r, at), held[w].pc # "idle", held[w].job = r
    PROVE  r \in overstayed
<1> SUFFICES ASSUME r \notin overstayed PROVE FALSE
  OBVIOUS
<1>1. jobs[r].state = "running" /\ jobs[r].lease_expires_at = held[w].until
  BY DEF TimeInv, InTime
<1>2. held[w].until \in Instant /\ at \in Instant /\ at <= now /\ now \in Nat
  BY ClaimHolds DEF TypeOK, Instant
<1>3. StoredAtMost(held[w].until, at)
  BY <1>1 DEF Claim, Ready
<1>4. held[w].until < at + TicksPerSecond
  BY <1>2, <1>3, OffByASecond
<1>5. held[w].until < now + TicksPerSecond
  BY <1>2, <1>4, SecondTicks DEF Instant
<1>6. w \in {x \in Workers : held[x].pc # "idle" /\ held[x].until < now + TicksPerSecond}
  BY <1>5
<1> QED
  BY <1>6 DEF TimeInv, OverstaysNoted, Overstaying

LEMMA TimeAlways == Spec => []TimeInv
<1>1. Init => TimeInv
  BY IdleClaim DEF Init, TimeInv, InTime, OverstaysNoted, Overstaying
<1>2. TypeOK /\ AttemptInv /\ TimeInv /\ [Next]_vars => TimeInv'
  <2> SUFFICES ASSUME TypeOK, AttemptInv, TimeInv, [Next]_vars PROVE TimeInv'
    OBVIOUS
  <2>1. InTime'
    <3> SUFFICES ASSUME NEW w \in Workers, held'[w].pc # "idle",
                        held'[w].job \notin overstayed'
                 PROVE  /\ jobs'[held'[w].job].state = "running"
                        /\ jobs'[held'[w].job].attempts = held'[w].attempt
                        /\ jobs'[held'[w].job].lease_expires_at = held'[w].until
      BY DEF InTime
    <3>1. CASE SameClaim(w) /\ held[w].pc # "idle"
      <4> DEFINE r == held[w].job
      <4>1. r = held'[w].job /\ r \in Requests /\ r \in Stored /\ r \notin overstayed
        BY <3>1, OverstayedStep DEF SameClaim, TypeOK, Stored
      <4>2. /\ jobs[r].state = "running" /\ jobs[r].attempts = held[w].attempt
            /\ jobs[r].lease_expires_at = held[w].until
        BY <3>1, <4>1 DEF TimeInv, InTime
      <4>3. ~Claimed(r)
        BY <3>1, <4>1, TakenOverLate DEF Claimed
      <4>4. ~Completed(r) /\ ~FailRecorded(r)
        <5> SUFFICES ASSUME NEW v \in Workers, NEW at \in Recent, held[v].job = r,
                            Complete(v, at) \/ Fail(v, at)
                     PROVE  FALSE
          BY DEF Completed, FailRecorded
        <5>1. held[v].pc # "idle" /\ held'[v].pc = "idle"
          BY IdleClaim DEF Complete, Fail, TypeOK
        <5>2. jobs[r].attempts = held[v].attempt
          BY <4>1, <5>1 DEF TimeInv, InTime
        <5> QED
          BY <3>1, <4>2, <5>1, <5>2 DEF AttemptInv, AttemptsExclusive
      <4>5. jobs'[r] = jobs[r]
        BY <4>1, <4>3, <4>4, RowStep DEF Inserted
      <4> QED
        BY <3>1, <4>1, <4>2, <4>5 DEF SameClaim
    <3>2. ASSUME NEW r \in Requests, NEW at \in Recent, Claim(w, r, at),
                 held'[w].job = r, held'[w].attempt = jobs'[r].attempts,
                 held'[w].until = jobs'[r].lease_expires_at
          PROVE  /\ jobs'[held'[w].job].state = "running"
                 /\ jobs'[held'[w].job].attempts = held'[w].attempt
                 /\ jobs'[held'[w].job].lease_expires_at = held'[w].until
      BY <3>2, ClaimHolds
    <3> QED
      BY <3>1, <3>2, BusyStep
  <2>2. OverstaysNoted'
    <3>1. CASE overstayed' = overstayed \cup Overstaying'
      BY <3>1 DEF OverstaysNoted
    <3>2. CASE /\ UNCHANGED <<now, overstayed>>
               /\ ~\E w \in Workers, r \in Requests, at \in Recent : Claim(w, r, at)
      <4> SUFFICES ASSUME NEW w \in Workers, held'[w].pc # "idle",
                          held'[w].until < now' + TicksPerSecond
                   PROVE  held'[w].job \in overstayed'
        BY DEF OverstaysNoted, Overstaying
      <4>1. SameClaim(w) /\ held[w].pc # "idle"
        BY <3>2, BusyStep
      <4>2. held[w].until < now + TicksPerSecond
        BY <3>2, <4>1 DEF SameClaim
      <4>3. held[w].job \in overstayed
        BY <4>1, <4>2 DEF TimeInv, OverstaysNoted, Overstaying
      <4> QED
        BY <3>2, <4>1, <4>3 DEF SameClaim
    <3> QED
      BY <3>1, <3>2, OverstayedStep
  <2> QED
    BY <2>1, <2>2 DEF TimeInv
<1> QED
  BY <1>1, <1>2, TypeCorrect, AttemptAlways, PTL DEF Spec

\* A lease keeps other processes off a job until it ends, whatever owner names
\* the processes claim under: two are on one job only after some process on it
\* stayed until within a second of its lease's end (Claim, Complete, Fail).
THEOREM LeasesExcludeInTime == Spec => []ExclusiveInTime
<1>1. AttemptInv /\ TimeInv => ExclusiveInTime
  BY DEF AttemptInv, TimeInv, InTime, ExclusiveInTime, AttemptsExclusive
<1> QED
  BY <1>1, AttemptAlways, TimeAlways, PTL
-------------------------------------------------------------------------------
(* Refinement.                                                               *)

\* What holds where a step is mapped to the contract.
QueueInv == TypeOK /\ TimeInv

\* A function that differs from another at one point is an EXCEPT of it.
LEMMA AtOnePoint ==
    ASSUME NEW S, NEW f, NEW g, f = [x \in S |-> f[x]], g = [x \in S |-> g[x]],
           NEW r \in S, \A q \in S \ {r} : g[q] = f[q]
    PROVE  g = [f EXCEPT ![r] = g[r]]
  OBVIOUS

LEMMA AtNoPoint ==
    ASSUME NEW S, NEW f, NEW g, f = [x \in S |-> f[x]], g = [x \in S |-> g[x]],
           \A q \in S : g[q] = f[q]
    PROVE  g = f
  OBVIOUS

\* The mapped variables are functions on the requests.
LEMMA MappedFunctions ==
    /\ StatusOf = [r \in Requests |-> StatusOf[r]]
    /\ StatusOf' = [r \in Requests |-> StatusOf'[r]]
    /\ TriesOf = [r \in Requests |-> TriesOf[r]]
    /\ TriesOf' = [r \in Requests |-> TriesOf'[r]]
    /\ ProcessesOn = [r \in Requests |-> ProcessesOn[r]]
    /\ ProcessesOn' = [r \in Requests |-> ProcessesOn'[r]]
  BY DEF StatusOf, TriesOf, ProcessesOn

\* Rows that stay as they are keep status and tries.
LEMMA RowsKept ==
    ASSUME NEW r \in Requests, jobs'[r] = jobs[r]
    PROVE  StatusOf'[r] = StatusOf[r] /\ TriesOf'[r] = TriesOf[r]
  BY DEF StatusOf, TriesOf, Stored

\* One row changed.
LEMMA OneRow ==
    ASSUME NEW r \in Requests, \A q \in Requests \ {r} : jobs'[q] = jobs[q]
    PROVE  /\ StatusOf' = [StatusOf EXCEPT ![r] = StatusOf'[r]]
           /\ TriesOf' = [TriesOf EXCEPT ![r] = TriesOf'[r]]
<1>1. \A q \in Requests \ {r} : StatusOf'[q] = StatusOf[q] /\ TriesOf'[q] = TriesOf[q]
  BY RowsKept
<1>2. StatusOf' = [StatusOf EXCEPT ![r] = StatusOf'[r]]
  BY <1>1, AtOnePoint, MappedFunctions
<1>3. TriesOf' = [TriesOf EXCEPT ![r] = TriesOf'[r]]
  BY <1>1, AtOnePoint, MappedFunctions
<1> QED
  BY <1>2, <1>3

\* No row changed.
LEMMA NoRow ==
    ASSUME UNCHANGED jobs PROVE StatusOf' = StatusOf /\ TriesOf' = TriesOf
<1>1. \A q \in Requests : StatusOf'[q] = StatusOf[q] /\ TriesOf'[q] = TriesOf[q]
  BY RowsKept
<1>2. StatusOf' = StatusOf
  BY <1>1, AtNoPoint, MappedFunctions
<1>3. TriesOf' = TriesOf
  BY <1>1, AtNoPoint, MappedFunctions
<1> QED
  BY <1>2, <1>3

\* Processes that stay busy on their jobs are not seen in the contract.
LEMMA ProcessesKept ==
    ASSUME \A w \in Workers : \/ held'[w] = held[w]
                              \/ /\ held[w].pc # "idle" /\ held'[w].pc # "idle"
                                 /\ held'[w].job = held[w].job
    PROVE  ProcessesOn' = ProcessesOn
<1>1. \A r \in Requests : ProcessesOn'[r] = ProcessesOn[r]
  BY DEF ProcessesOn
<1> QED
  BY <1>1, AtNoPoint, MappedFunctions

\* A process that lets go of its job leaves the processes on that job.
LEMMA ProcessLeaves ==
    ASSUME TypeOK, NEW w \in Workers, held[w].pc # "idle",
           held' = [held EXCEPT ![w] = Idle], NEW r \in Requests, r = held[w].job
    PROVE  /\ w \in ProcessesOn[r]
           /\ ProcessesOn' = [ProcessesOn EXCEPT ![r] = @ \ {w}]
<1>1. held'[w].pc = "idle" /\ \A v \in Workers \ {w} : held'[v] = held[v]
  BY IdleClaim DEF TypeOK
<1>2. w \in ProcessesOn[r]
  BY DEF ProcessesOn
<1>3. ProcessesOn'[r] = ProcessesOn[r] \ {w}
  BY <1>1 DEF ProcessesOn
<1>4. \A q \in Requests \ {r} : ProcessesOn'[q] = ProcessesOn[q]
  BY <1>1 DEF ProcessesOn
<1>5. ProcessesOn' = [ProcessesOn EXCEPT ![r] = ProcessesOn'[r]]
  BY <1>4, AtOnePoint, MappedFunctions
<1> QED
  BY <1>2, <1>3, <1>5

\* No step removes a job.
LEMMA StoredGrows ==
    ASSUME TypeOK, [Next]_vars PROVE Stored \subseteq Stored'
<1>1. ASSUME NEW q \in Requests, NEW prepared \in Recent, EnqueueAccepted(q, prepared)
      PROVE  Stored \subseteq Stored'
  <2>1. q \notin Stored /\ jobs' = [jobs EXCEPT ![q] = NewRow(prepared)]
    BY <1>1 DEF EnqueueAccepted, NewKey, SameKey
  <2>2. \A r \in Stored : jobs'[r] = jobs[r]
    BY <2>1 DEF TypeOK, Stored
  <2> QED
    BY <2>2 DEF Stored
<1> QED
  BY <1>1, StoredStep

\* Which abstract step a step of the queue is.
LEMMA AcceptStep ==
    ASSUME TypeOK, NEW r \in Requests, NEW prepared \in Recent, EnqueueAccepted(r, prepared)
    PROVE  Contract!Accept(r)
<1>1. /\ jobs[r] = NoJob /\ jobs' = [jobs EXCEPT ![r] = NewRow(prepared)]
      /\ held' = held /\ overstayed' = overstayed
  BY DEF EnqueueAccepted, NewKey, SameKey, Stored
<1>2. jobs'[r] = NewRow(prepared) /\ \A q \in Requests \ {r} : jobs'[q] = jobs[q]
  BY <1>1 DEF TypeOK
<1>3. /\ NewRow(prepared) # NoJob
      /\ NewRow(prepared).state = "queued" /\ NewRow(prepared).attempts = 0
  <2>1. NewRow(prepared) \in Row
    BY RecentInstants, prepared \in Instant DEF NewRow, Row, JobState, Instant, TypeOK
  <2> QED
    BY <2>1, RowAssumption DEF NewRow
<1>4. /\ StatusOf[r] = "absent" /\ StatusOf'[r] = "open"
      /\ TriesOf[r] = 0 /\ TriesOf'[r] = 0
  BY <1>1, <1>2, <1>3 DEF StatusOf, TriesOf, Stored
<1>5. StatusOf' = [StatusOf EXCEPT ![r] = "open"]
  BY <1>2, <1>4, OneRow
<1>6. TriesOf' = TriesOf
  <2>1. \A q \in Requests : TriesOf'[q] = TriesOf[q]
    BY <1>2, <1>4, RowsKept
  <2> QED
    BY <2>1, AtNoPoint, MappedFunctions
<1>7. ProcessesOn' = ProcessesOn
  BY <1>1, ProcessesKept
<1>8. \A q \in Requests : StatusOf[q] # "absent" => Call[q].key # Call[r].key
  BY DEF EnqueueAccepted, NewKey, SameKey, StatusOf, Stored
<1> QED
  BY <1>1, <1>4, <1>5, <1>6, <1>7, <1>8 DEF Contract!Accept

LEMMA TakeStep ==
    ASSUME QueueInv, [Next]_vars, NEW w \in Workers, NEW r \in Requests,
           NEW at \in Recent, Claim(w, r, at)
    PROVE  Contract!Take(r, w)
<1> USE DEF QueueInv
<1>1. /\ jobs[r].attempts \in Nat /\ jobs'[r].attempts = jobs[r].attempts + 1
      /\ jobs'[r].state = "running" /\ held[w].pc = "idle"
      /\ held' = [held EXCEPT ![w] = [pc |-> "working", job |-> r,
                                      attempt |-> jobs'[r].attempts,
                                      until |-> jobs'[r].lease_expires_at]]
  BY ClaimHolds
<1>2. \A q \in Requests \ {r} : jobs'[q] = jobs[q]
  BY DEF Claim, TypeOK
<1>3. r \in Stored /\ r \in Stored' /\ jobs[r].state \in {"queued", "running"}
  BY StoredGrows DEF Claim, Ready
<1>4. /\ StatusOf[r] = "open" /\ StatusOf'[r] = "open"
      /\ TriesOf'[r] = TriesOf[r] + 1
  BY <1>1, <1>3 DEF StatusOf, TriesOf
<1>5. StatusOf' = StatusOf
  <2>1. \A q \in Requests : StatusOf'[q] = StatusOf[q]
    BY <1>2, <1>4, RowsKept
  <2> QED
    BY <2>1, AtNoPoint, MappedFunctions
<1>6. TriesOf' = [TriesOf EXCEPT ![r] = @ + 1]
  BY <1>2, <1>4, OneRow
<1>7. held'[w].pc = "working" /\ held'[w].job = r /\ \A v \in Workers \ {w} : held'[v] = held[v]
  BY <1>1 DEF TypeOK
<1>8. \A q \in Requests : w \notin ProcessesOn[q]
  BY <1>1 DEF ProcessesOn
<1>9. ProcessesOn' = [ProcessesOn EXCEPT ![r] = @ \cup {w}]
  <2>1. ProcessesOn'[r] = ProcessesOn[r] \cup {w}
    BY <1>7 DEF ProcessesOn
  <2>2. \A q \in Requests \ {r} : ProcessesOn'[q] = ProcessesOn[q]
    BY <1>1, <1>7 DEF ProcessesOn
  <2>3. ProcessesOn' = [ProcessesOn EXCEPT ![r] = ProcessesOn'[r]]
    BY <2>2, AtOnePoint, MappedFunctions
  <2> QED
    BY <2>1, <2>3
<1>10. ProcessesOn[r] = {} \/ r \in overstayed
  <2>1. ASSUME NEW v \in ProcessesOn[r] PROVE r \in overstayed
    <3>1. v \in Workers /\ held[v].pc # "idle" /\ held[v].job = r
      BY DEF ProcessesOn
    <3> QED
      BY <3>1, TakenOverLate
  <2> QED
    BY <2>1
<1>11. overstayed' \in {overstayed, overstayed \cup {r}}
  <2>1. overstayed' = overstayed \cup Overstaying' /\ now' = now
    BY DEF Claim, NoteOverstays
  <2>2. Overstaying' \subseteq overstayed \cup {r}
    <3> SUFFICES ASSUME NEW v \in Workers, held'[v].pc # "idle",
                        held'[v].until < now' + TicksPerSecond
                 PROVE  held'[v].job \in overstayed \cup {r}
      BY DEF Overstaying
    <3>1. CASE v = w
      BY <1>7, <3>1
    <3>2. CASE v # w
      BY <1>7, <2>1, <3>2 DEF TimeInv, OverstaysNoted, Overstaying
    <3> QED
      BY <3>1, <3>2
  <2> QED
    BY <2>1, <2>2
<1> QED
  BY <1>4, <1>5, <1>6, <1>8, <1>9, <1>10, <1>11 DEF Contract!Take

\* A completion ends the job; a recorded failure ends it, or gives it back.
LEMMA EndStep ==
    ASSUME TypeOK, [Next]_vars, NEW w \in Workers, NEW at \in Recent,
           Complete(w, at) \/ Fail(w, at)
    PROVE  \E r \in Requests :
              \/ Contract!Leave(r, w)
              \/ \E outcome \in {"succeeded", "failed"} : Contract!End(r, w, outcome)
<1>1. PICK r \in Requests : r = held[w].job /\ jobs[r] \in Row /\ r \in Stored
  BY HeldRow, RowAssumption DEF Complete, Fail, Stored
<1>2. /\ held' = [held EXCEPT ![w] = Idle] /\ held[w].pc # "idle"
      /\ overstayed' = overstayed /\ \A q \in Requests \ {r} : jobs'[q] = jobs[q]
  BY <1>1 DEF Complete, Fail, TypeOK
<1>3. Completed(r) \/ FailRecorded(r)
  BY <1>1 DEF Complete, Fail, Completed, FailRecorded, TypeOK
<1>4. /\ jobs[r].state = "running" /\ jobs'[r].state \in {"succeeded", "failed", "queued"}
      /\ jobs'[r].attempts = jobs[r].attempts
      /\ jobs'[r].state = "failed" => jobs[r].attempts >= MaxAttempts
  BY <1>1, <1>3, RowEffects DEF FailedState
<1>5. r \in Stored'
  BY <1>1, StoredGrows
<1>6. w \in ProcessesOn[r] /\ ProcessesOn' = [ProcessesOn EXCEPT ![r] = @ \ {w}]
  BY <1>1, <1>2, ProcessLeaves
<1>7. /\ StatusOf[r] = "open"
      /\ StatusOf'[r] = IF jobs'[r].state = "queued" THEN "open" ELSE jobs'[r].state
      /\ TriesOf'[r] = TriesOf[r] /\ TriesOf[r] = jobs[r].attempts
  BY <1>1, <1>4, <1>5 DEF StatusOf, TriesOf
<1>8. TriesOf' = TriesOf
  <2>1. \A q \in Requests : TriesOf'[q] = TriesOf[q]
    BY <1>2, <1>7, RowsKept
  <2> QED
    BY <2>1, AtNoPoint, MappedFunctions
<1>9. CASE jobs'[r].state = "queued"
  <2>1. StatusOf' = StatusOf
    <3>1. \A q \in Requests : StatusOf'[q] = StatusOf[q]
      BY <1>2, <1>7, <1>9, RowsKept
    <3> QED
      BY <3>1, AtNoPoint, MappedFunctions
  <2> QED
    BY <1>2, <1>6, <1>8, <2>1 DEF Contract!Leave
<1>10. CASE jobs'[r].state # "queued"
  <2>1. StatusOf' = [StatusOf EXCEPT ![r] = jobs'[r].state]
    BY <1>2, <1>7, <1>10, OneRow
  <2>2. jobs'[r].state \in {"succeeded", "failed"}
    BY <1>4, <1>10
  <2>3. Contract!End(r, w, jobs'[r].state)
    BY <1>2, <1>4, <1>6, <1>7, <1>8, <2>1 DEF Contract!End
  <2> QED
    BY <2>2, <2>3
<1> QED
  BY <1>9, <1>10

\* A process that drops its job leaves it.
LEMMA DropStep ==
    ASSUME TypeOK, NEW w \in Workers, Crash(w) \/ \E at \in Recent : FailLost(w, at)
    PROVE  \E r \in Requests : Contract!Leave(r, w)
<1>1. PICK r \in Requests :
         /\ r = held[w].job /\ jobs' = jobs /\ held' = [held EXCEPT ![w] = Idle]
         /\ held[w].pc # "idle" /\ overstayed' = overstayed
  BY HeldRow DEF FailLost, Crash, TypeOK
<1>2. StatusOf' = StatusOf /\ TriesOf' = TriesOf
  BY <1>1, NoRow
<1>3. w \in ProcessesOn[r] /\ ProcessesOn' = [ProcessesOn EXCEPT ![r] = @ \ {w}]
  BY <1>1, ProcessLeaves
<1> QED
  BY <1>1, <1>2, <1>3 DEF Contract!Leave

\* Steps that change no row and no process's job are hidden.
LEMMA HiddenStep ==
    ASSUME UNCHANGED <<jobs, overstayed>>,
           \A w \in Workers : \/ held'[w] = held[w]
                              \/ /\ held[w].pc # "idle" /\ held'[w].pc # "idle"
                                 /\ held'[w].job = held[w].job
    PROVE  UNCHANGED Contract!vars
  BY NoRow, ProcessesKept DEF Contract!vars

\* Time passing can only make processes overstay.
LEMMA TickStep ==
    ASSUME TypeOK, Tick PROVE Contract!Overstay
<1>1. UNCHANGED <<jobs, held>> /\ overstayed' = overstayed \cup Overstaying'
  BY DEF Tick, NoteOverstays
<1>2. StatusOf' = StatusOf /\ TriesOf' = TriesOf /\ ProcessesOn' = ProcessesOn
  BY <1>1, NoRow, ProcessesKept
<1>3. Overstaying' \subseteq {r \in Requests : ProcessesOn[r] # {}}
  <2> SUFFICES ASSUME NEW w \in Workers, held'[w].pc # "idle"
               PROVE  held'[w].job \in Requests /\ w \in ProcessesOn[held'[w].job]
    BY DEF Overstaying
  <2>1. held[w].pc # "idle" /\ held'[w] = held[w] /\ held[w].job \in Requests
    BY <1>1, HeldRow
  <2> QED
    BY <2>1 DEF ProcessesOn
<1> QED
  BY <1>1, <1>2, <1>3 DEF Contract!Overstay

\* The queue implements its contract, under the one name of all processes or
\* under any others: the rows, leases, takeovers and retries of Claim, Complete
\* and Fail amount to processes that join a job only after an overstay, each a
\* try more, and of which one that is on the job ends it, within the limit.
THEOREM ContractImplemented == Spec => ImplementsContract
<1>1. Init => Contract!Init
  <2> SUFFICES ASSUME Init PROVE Contract!Init
    OBVIOUS
  <2>1. \A r \in Requests : r \notin Stored
    BY DEF Init, Stored
  <2>2. StatusOf = [r \in Requests |-> "absent"] /\ TriesOf = [r \in Requests |-> 0]
    BY <2>1 DEF StatusOf, TriesOf
  <2>3. ProcessesOn = [r \in Requests |-> {}]
    BY IdleClaim DEF Init, ProcessesOn
  <2> QED
    BY <2>2, <2>3 DEF Contract!Init, Init
<1>2. QueueInv /\ [Next]_vars => [Contract!Next]_(Contract!vars)
  <2> SUFFICES ASSUME QueueInv, [Next]_vars
               PROVE  Contract!Next \/ UNCHANGED Contract!vars
    OBVIOUS
  <2>1. TypeOK
    BY DEF QueueInv
  <2>2. ASSUME NEW r \in Requests, NEW prepared \in Recent, EnqueueAccepted(r, prepared)
        PROVE  Contract!Next
    BY <2>1, <2>2, AcceptStep DEF Contract!Next
  <2>3. ASSUME NEW w \in Workers, NEW r \in Requests, NEW at \in Recent, Claim(w, r, at)
        PROVE  Contract!Next
    BY <2>3, TakeStep DEF Contract!Next
  <2>4. ASSUME NEW w \in Workers, NEW at \in Recent, Complete(w, at) \/ Fail(w, at)
        PROVE  Contract!Next
    BY <2>1, <2>4, EndStep DEF Contract!Next
  <2>5. ASSUME NEW w \in Workers, NEW at \in Recent, FailLost(w, at)
        PROVE  Contract!Next
    BY <2>1, <2>5, DropStep DEF Contract!Next
  <2>6. ASSUME NEW w \in Workers, Crash(w)
        PROVE  Contract!Next
    BY <2>1, <2>6, DropStep DEF Contract!Next
  <2>7. ASSUME NEW w \in Workers, NEW at \in Recent, CompleteLost(w, at)
        PROVE  UNCHANGED Contract!vars
    BY <2>1, <2>7, HiddenStep DEF CompleteLost, TypeOK, Claims
  <2>8. ASSUME NEW w \in Workers, WorkFails(w) PROVE UNCHANGED Contract!vars
    BY <2>1, <2>8, HiddenStep DEF WorkFails, TypeOK, Claims
  <2>9. ASSUME NEW r \in Requests, EnqueueReplayed(r) \/ EnqueueRefused(r)
        PROVE  UNCHANGED Contract!vars
    BY <2>9, HiddenStep DEF EnqueueReplayed, EnqueueRefused
  <2>10. CASE UNCHANGED vars
    BY <2>10, HiddenStep DEF vars
  <2>11. CASE Tick
    BY <2>1, <2>11, TickStep DEF Contract!Next
  <2> QED
    BY <2>2, <2>3, <2>4, <2>5, <2>6, <2>7, <2>8, <2>9, <2>10, <2>11
       DEF Next, Enqueue, Work
<1>3. TypeOK /\ TimeInv => QueueInv
  BY DEF QueueInv
<1> QED
  BY <1>1, <1>2, <1>3, TypeCorrect, TimeAlways, PTL DEF Spec, ImplementsContract, Contract!Spec
===============================================================================
