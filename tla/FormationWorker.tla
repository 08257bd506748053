--------------------------- MODULE FormationWorker ---------------------------
(*****************************************************************************)
(* The formation worker: the Run loop with its wake channel and poll timer,  *)
(* and the steps by which ProcessOne turns a claimed job into a memory:      *)
(* propose, ensure references, apply, embed, complete or fail.  API callers  *)
(* enqueue, forget and purge between any two of these steps, other worker    *)
(* processes run on the same database, and processes die.                    *)
(*                                                                           *)
(* Time is abstract here (JobQueue has the clock): a lease lapses and a retry *)
(* falls due by steps of their own.  Run claims under one constant name, so  *)
(* the owner test of Complete and Fail holds of every worker.                *)
(*****************************************************************************)
EXTENDS Naturals, FiniteSets

CONSTANTS Jobs,            \* formation jobs, one per observation
          Workers,         \* worker processes
          Outputs,         \* what a generator may answer
          Baseline,        \* the output of the generator-free strategies
          Assisted,        \* jobs in mode assisted
          References,      \* episodes and working sets
          ReferenceOf,     \* ReferenceOf[j]: what the payload of j refers to
          NoReference,     \* factual formation refers to nothing
          Embedder,        \* whether an embedding provider is configured
          NoJob, NoProposal,
          MaxAttempts,     \* the retry limit passed to Fail
          MaxCrashes,      \* bound: crashes of worker processes
          MaxOverruns      \* bound: leases that lapse under a live worker

ASSUME WorkAssumption ==
    /\ Baseline \in Outputs /\ Assisted \subseteq Jobs
    /\ ReferenceOf \in [Jobs -> References \cup {NoReference}]
    /\ NoReference \notin References
    /\ Embedder \in BOOLEAN /\ NoJob \notin Jobs
ASSUME LimitAssumption ==
    MaxAttempts \in Nat \ {0} /\ MaxCrashes \in Nat /\ MaxOverruns \in Nat
ASSUME FiniteAssumption == IsFiniteSet(Workers) /\ IsFiniteSet(Outputs)

\* The proposal id is a hash of the observation and the formed payload.
Proposals == Jobs \X Outputs

ASSUME NoProposalAssumption == NoProposal \notin Proposals

VARIABLES jobs,            \* the rows of durable_jobs
          worker,          \* where each worker process is
          wake,            \* the one-place wake channel of each process
          references,      \* rows of episodes and working_sets
          memory,          \* the memory of each proposal
          embedded,        \* proposals whose memory has an embedding
          crashes, overruns

vars == <<jobs, worker, wake, references, memory, embedded, crashes, overruns>>

Phase == {"idle", "sleeping", "propose", "references", "insert", "apply",
          "embed", "write", "complete", "fail"}
Busy == Phase \ {"idle", "sleeping"}
Row == [state : {"absent", "queued", "running", "succeeded", "failed"},
        attempts : Nat, lease : {"none", "live", "lapsed"}, due : BOOLEAN,
        result : Proposals \cup {NoProposal}]
Process == [phase : Phase, job : Jobs \cup {NoJob},
            proposal : Proposals \cup {NoProposal}]

TypeOK ==
    /\ jobs \in [Jobs -> Row]
    /\ worker \in [Workers -> Process]
    /\ \A w \in Workers : worker[w].phase \in Busy <=> worker[w].job # NoJob
    /\ wake \in [Workers -> BOOLEAN]
    /\ references \subseteq References
    /\ memory \in [Proposals -> {"none", "active", "forgotten", "purged"}]
    /\ embedded \subseteq Proposals
    /\ crashes \in 0..MaxCrashes /\ overruns \in 0..MaxOverruns

Idle == [phase |-> "idle", job |-> NoJob, proposal |-> NoProposal]

Init ==
    /\ jobs = [j \in Jobs |-> [state |-> "absent", attempts |-> 0, lease |-> "none",
                               due |-> FALSE, result |-> NoProposal]]
    /\ worker = [w \in Workers |-> Idle]
    /\ wake = [w \in Workers |-> FALSE]
    /\ references = {} /\ embedded = {}
    /\ memory = [p \in Proposals |-> "none"]
    /\ crashes = 0 /\ overruns = 0
-------------------------------------------------------------------------------
(* Capture and the Run loop.                                                 *)

\* rememberValue in the process of w: enqueue, then Notify its own worker.
Remember(j, w) ==
    /\ jobs[j].state = "absent"
    /\ jobs' = [jobs EXCEPT ![j].state = "queued", ![j].due = TRUE]
    /\ wake' = [wake EXCEPT ![w] = TRUE]
    /\ UNCHANGED <<worker, references, memory, embedded, crashes, overruns>>

\* The key was captured before: nothing is stored, Notify is called all the same.
RememberAgain(j, w) ==
    /\ jobs[j].state # "absent" /\ ~wake[w]
    /\ wake' = [wake EXCEPT ![w] = TRUE]
    /\ UNCHANGED <<jobs, worker, references, memory, embedded, crashes, overruns>>

\* Mutant: a running job is never claimed again.
MutReady(j) == jobs[j].state = "queued" /\ jobs[j].due

Ready(j) ==
    \/ jobs[j].state = "queued" /\ jobs[j].due
    \/ jobs[j].state = "running" /\ jobs[j].lease = "lapsed"

\* Mutant: taking over a lapsed job goes on with the attempt of the worker before.
MutAttempt(row) == IF row.state = "queued" THEN row.attempts + 1 ELSE row.attempts

Attempt(row) == row.attempts + 1

Claim(w, j) ==
    /\ worker[w].phase = "idle" /\ Ready(j)
    /\ jobs' = [jobs EXCEPT ![j] =
          [@ EXCEPT !.state = "running", !.attempts = Attempt(jobs[j]),
                    !.lease = "live"]]
    /\ worker' = [worker EXCEPT ![w] =
          [phase |-> "propose", job |-> j, proposal |-> NoProposal]]
    /\ UNCHANGED <<wake, references, memory, embedded, crashes, overruns>>

\* ErrNoJob: wait for a notification or for the poll timer.
Sleep(w) ==
    /\ worker[w].phase = "idle" /\ \A j \in Jobs : ~Ready(j)
    /\ worker' = [worker EXCEPT ![w].phase = "sleeping"]
    /\ UNCHANGED <<jobs, wake, references, memory, embedded, crashes, overruns>>

Notified(w) ==
    /\ worker[w].phase = "sleeping" /\ wake[w]
    /\ worker' = [worker EXCEPT ![w].phase = "idle"]
    /\ wake' = [wake EXCEPT ![w] = FALSE]
    /\ UNCHANGED <<jobs, references, memory, embedded, crashes, overruns>>

Poll(w) ==
    /\ worker[w].phase = "sleeping"
    /\ worker' = [worker EXCEPT ![w].phase = "idle"]
    /\ UNCHANGED <<jobs, wake, references, memory, embedded, crashes, overruns>>
-------------------------------------------------------------------------------
(* processClaimed.                                                           *)

At(w, phase) == worker[w].phase = phase
Goto(w, phase) == worker' = [worker EXCEPT ![w].phase = phase]
Outside == <<wake, crashes, overruns>>

\* The generator-free strategies compute one payload; a generator may differ.
OutputsOf(j) == IF j \in Assisted THEN Outputs ELSE {Baseline}

Propose(w) ==
    /\ At(w, "propose")
    /\ \E output \in OutputsOf(worker[w].job) :
          worker' = [worker EXCEPT ![w] =
             [phase |-> "references", job |-> @.job, proposal |-> <<@.job, output>>]]
    /\ UNCHANGED <<jobs, references, memory, embedded, Outside>>

\* EpisodeExists or WorkingSetExists.
CheckReferences(w) ==
    LET r == ReferenceOf[worker[w].job] IN
    /\ At(w, "references")
    /\ Goto(w, IF r = NoReference \/ r \in references THEN "apply" ELSE "insert")
    /\ UNCHANGED <<jobs, references, memory, embedded, Outside>>

\* PutEpisode or PutWorkingSet; a row another worker inserted since is an error.
InsertReference(w) ==
    LET r == ReferenceOf[worker[w].job] IN
    /\ At(w, "insert")
    /\ references' = references \cup {r}
    /\ Goto(w, IF r \in references THEN "fail" ELSE "apply")
    /\ UNCHANGED <<jobs, memory, embedded, Outside>>

\* Mutant: the job is completed before its memory is embedded.
MutAfterApply == "complete"

AfterApply == IF Embedder THEN "embed" ELSE "complete"

\* The proposal is new: the memory is created and indexed.
Apply(w) ==
    LET p == worker[w].proposal IN
    /\ At(w, "apply") /\ memory[p] = "none"
    /\ memory' = [memory EXCEPT ![p] = "active"]
    /\ Goto(w, AfterApply)
    /\ UNCHANGED <<jobs, references, embedded, Outside>>

\* The proposal was applied by an earlier attempt: replayed while the memory is
\* stored, an error once it is purged.
ApplyAgain(w) ==
    LET p == worker[w].proposal IN
    /\ At(w, "apply") /\ memory[p] # "none"
    /\ Goto(w, IF memory[p] = "purged" THEN "fail" ELSE AfterApply)
    /\ UNCHANGED <<jobs, references, memory, embedded, Outside>>

\* Embed, and PutEmbedding up to its read of the indexed content.
Embed(w) ==
    LET p == worker[w].proposal IN
    /\ At(w, "embed")
    /\ Goto(w, IF memory[p] = "active" THEN "write" ELSE "fail")
    /\ UNCHANGED <<jobs, references, memory, embedded, Outside>>

\* The second statement of PutEmbedding; its foreign key wants the version.
WriteEmbedding(w) ==
    LET p == worker[w].proposal IN
    /\ At(w, "write")
    /\ IF memory[p] = "purged"
       THEN Goto(w, "fail") /\ UNCHANGED embedded
       ELSE Goto(w, "complete") /\ embedded' = embedded \cup {p}
    /\ UNCHANGED <<jobs, references, memory, Outside>>

HoldsLease(j) == jobs[j].state = "running" /\ jobs[j].lease = "live"

Complete(w) ==
    LET j == worker[w].job IN
    /\ At(w, "complete") /\ HoldsLease(j)
    /\ jobs' = [jobs EXCEPT ![j] = [@ EXCEPT !.state = "succeeded", !.lease = "none",
                                             !.result = worker[w].proposal]]
    /\ worker' = [worker EXCEPT ![w] = Idle]
    /\ UNCHANGED <<references, memory, embedded, Outside>>

CompleteLost(w) ==
    /\ At(w, "complete") /\ ~HoldsLease(worker[w].job)
    /\ Goto(w, "fail")
    /\ UNCHANGED <<jobs, references, memory, embedded, Outside>>

\* Any statement or provider call of processClaimed returns an error.
StepFails(w) ==
    /\ worker[w].phase \in Busy \ {"fail"}
    /\ Goto(w, "fail")
    /\ UNCHANGED <<jobs, references, memory, embedded, Outside>>

\* Mutant: off by one, the job is queued once more than it should be.
MutFailedState(row) == IF row.attempts > MaxAttempts THEN "failed" ELSE "queued"

FailedState(row) == IF row.attempts >= MaxAttempts THEN "failed" ELSE "queued"

Fail(w) ==
    LET j == worker[w].job IN
    /\ At(w, "fail") /\ HoldsLease(j)
    /\ jobs' = [jobs EXCEPT ![j] =
          [@ EXCEPT !.state = FailedState(jobs[j]), !.lease = "none", !.due = FALSE]]
    /\ worker' = [worker EXCEPT ![w] = Idle]
    /\ UNCHANGED <<references, memory, embedded, Outside>>

FailLost(w) ==
    /\ At(w, "fail") /\ ~HoldsLease(worker[w].job)
    /\ worker' = [worker EXCEPT ![w] = Idle]
    /\ UNCHANGED <<jobs, references, memory, embedded, Outside>>
-------------------------------------------------------------------------------
(* Time, API callers and crashes.                                            *)

OnJob(j) == {w \in Workers : worker[w].job = j}

\* The lease of a job that nobody works on any more runs out.
AbandonedLapses(j) ==
    /\ HoldsLease(j) /\ OnJob(j) = {}
    /\ jobs' = [jobs EXCEPT ![j].lease = "lapsed"]
    /\ UNCHANGED <<worker, references, memory, embedded, Outside>>

\* The work outlasts the lease.
Overrun(j) ==
    /\ HoldsLease(j) /\ OnJob(j) # {}
    /\ overruns < MaxOverruns /\ overruns' = overruns + 1
    /\ jobs' = [jobs EXCEPT ![j].lease = "lapsed"]
    /\ UNCHANGED <<worker, wake, references, memory, embedded, crashes>>

RetryDue(j) ==
    /\ jobs[j].state = "queued" /\ ~jobs[j].due
    /\ jobs' = [jobs EXCEPT ![j].due = TRUE]
    /\ UNCHANGED <<worker, references, memory, embedded, Outside>>

Forget(p) ==
    /\ memory[p] = "active"
    /\ memory' = [memory EXCEPT ![p] = "forgotten"]
    /\ embedded' = embedded \ {p}
    /\ UNCHANGED <<jobs, worker, references, Outside>>

Purge(p) ==
    /\ memory[p] \in {"active", "forgotten"}
    /\ memory' = [memory EXCEPT ![p] = "purged"]
    /\ embedded' = embedded \ {p}
    /\ UNCHANGED <<jobs, worker, references, Outside>>

\* The process dies or is shut down, and is started again.
Crash(w) ==
    /\ crashes < MaxCrashes /\ crashes' = crashes + 1
    /\ worker' = [worker EXCEPT ![w] = Idle]
    /\ wake' = [wake EXCEPT ![w] = FALSE]
    /\ UNCHANGED <<jobs, references, memory, embedded, overruns>>
-------------------------------------------------------------------------------
\* What the goroutine of w does unless its process stops.
Loop(w) ==
    \/ \E j \in Jobs : Claim(w, j)
    \/ Sleep(w) \/ Notified(w) \/ Poll(w)
Process1(w) ==
    \/ Propose(w) \/ CheckReferences(w) \/ InsertReference(w)
    \/ Apply(w) \/ ApplyAgain(w) \/ Embed(w) \/ WriteEmbedding(w)
    \/ Complete(w) \/ CompleteLost(w) \/ StepFails(w)
    \/ Fail(w) \/ FailLost(w)

Next ==
    \/ \E j \in Jobs, w \in Workers : Remember(j, w) \/ RememberAgain(j, w)
    \/ \E w \in Workers : Loop(w) \/ Process1(w) \/ Crash(w)
    \/ \E j \in Jobs : AbandonedLapses(j) \/ Overrun(j) \/ RetryDue(j)
    \/ \E p \in Proposals : Forget(p) \/ Purge(p)

Spec == Init /\ [][Next]_vars

\* The goroutine keeps running, timers fire and time passes.  Nothing is assumed
\* of callers, of the outcome of a step, of crashes or of overruns.
Fairness ==
    /\ \A w \in Workers : WF_vars(Loop(w)) /\ WF_vars(Process1(w))
    /\ \A j \in Jobs : WF_vars(AbandonedLapses(j)) /\ WF_vars(RetryDue(j))

FairSpec == Spec /\ Fairness
-------------------------------------------------------------------------------
(* Properties.                                                               *)

Formed(j) == {p \in Proposals : p[1] = j /\ memory[p] # "none"}

\* A generator may answer differently each time it is asked, so an observation may
\* form several memories, but one per attempt at most that was counted in the row:
\* also when workers that lost their lease go on beside the one that took over.
OneMemoryPerAttempt ==
    \A j \in Jobs : Cardinality(Formed(j)) <= jobs[j].attempts

\* The retry limit holds under takeovers: a job is claimed again beyond it only for
\* a crash or a lease that lapsed, once for each, although a worker that lost the
\* lease may fail the attempt of its successor and so have the job queued again.
AttemptsBounded ==
    \A j \in Jobs : jobs[j].attempts <= MaxAttempts + crashes + overruns

\* A worker that is past apply has a formed memory in its hands, a job that
\* reports success names a memory that was really formed, and was embedded
\* before the report unless somebody forgot or purged it, and nothing else was
\* ever embedded, whatever happened between the steps.
SucceededIsFormed ==
    /\ \A w \in Workers : worker[w].phase \in {"embed", "write", "complete"} =>
          worker[w].proposal \in Formed(worker[w].job)
    /\ \A j \in Jobs : jobs[j].state = "succeeded" =>
          LET p == jobs[j].result IN
          /\ p \in Formed(j)
          /\ Embedder /\ memory[p] = "active" => p \in embedded
    /\ \A p \in embedded : memory[p] \notin {"none", "purged"}

\* A job that was captured ends: crashes and overruns delay it, the wake channel
\* may drop a notification, retries wait, but no job stays queued or running.
EveryJobEnds ==
    \A j \in Jobs : jobs[j].state # "absent" ~> jobs[j].state \in {"succeeded", "failed"}
===============================================================================
