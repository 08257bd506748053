---------------------------- MODULE FormationProofs ----------------------------
(*****************************************************************************)
(* Theorems about FormationWorker, for every value of its constants: any     *)
(* number of workers, jobs, crashes and overruns, with and without an        *)
(* embedding provider.                                                       *)
(*****************************************************************************)
EXTENDS FormationWorker, FiniteSetTheorems, TLAPS

\* A worker is on a job exactly while it is busy.
LEMMA BusyOnJob ==
  ASSUME TypeOK, NEW w \in Workers
  PROVE  /\ worker[w] \in Process
         /\ worker[w].phase \in Busy => worker[w].job \in Jobs
         /\ worker[w].phase \notin Busy => worker[w].job = NoJob
  BY DEF TypeOK, Process

\* The updates of a row keep it a row.
LEMMA RowUpdates ==
  ASSUME NEW row \in Row, NEW due \in BOOLEAN, NEW p \in Proposals \cup {NoProposal},
         NEW attempts \in Nat,
         NEW state \in {"absent", "queued", "running", "succeeded", "failed"},
         NEW lease \in {"none", "live", "lapsed"}
  PROVE  /\ [row EXCEPT !.due = due] \in Row
         /\ [row EXCEPT !.lease = lease] \in Row
         /\ [row EXCEPT !.state = state, !.due = due] \in Row
         /\ [row EXCEPT !.state = state, !.attempts = attempts, !.lease = lease] \in Row
         /\ [row EXCEPT !.state = state, !.lease = lease, !.result = p] \in Row
         /\ [row EXCEPT !.state = state, !.lease = lease, !.due = due] \in Row
<1>1. /\ [row EXCEPT !.due = due] \in Row /\ [row EXCEPT !.lease = lease] \in Row
      /\ [row EXCEPT !.state = state, !.due = due] \in Row
  BY DEF Row
<1>2. [row EXCEPT !.state = state, !.attempts = attempts, !.lease = lease] \in Row
  BY DEF Row
<1>3. [row EXCEPT !.state = state, !.lease = lease, !.result = p] \in Row
  BY DEF Row
<1>4. [row EXCEPT !.state = state, !.lease = lease, !.due = due] \in Row
  BY DEF Row
<1> QED
  BY <1>1, <1>2, <1>3, <1>4

\* Changing the phase of a busy worker to a busy one keeps the types.
LEMMA GotoTyped ==
  ASSUME TypeOK, NEW w \in Workers, worker[w].phase \in Busy,
         NEW phase \in Busy, Goto(w, phase)
  PROVE  /\ worker' \in [Workers -> Process]
         /\ \A u \in Workers : worker'[u].phase \in Busy <=> worker'[u].job # NoJob
<1>1. /\ worker'[w] = [phase |-> phase, job |-> worker[w].job,
                       proposal |-> worker[w].proposal]
      /\ \A u \in Workers \ {w} : worker'[u] = worker[u]
      /\ worker' = [worker EXCEPT ![w] = worker'[w]]
  BY BusyOnJob DEF Goto, TypeOK, Process
<1>2. worker'[w] \in Process /\ worker'[w].job # NoJob
  BY <1>1, BusyOnJob DEF Process, Busy, TypeOK
<1> QED
  BY <1>1, <1>2 DEF TypeOK

\* What a worker carries from step to step: once it has proposed, a proposal of
\* its own job that the strategy of the job may produce, and before it inserts a
\* reference, one that its job has.
InHand(w) ==
    /\ worker[w].phase \in {"references", "insert", "apply", "embed", "write", "complete"} =>
          /\ worker[w].proposal \in Proposals
          /\ worker[w].proposal[1] = worker[w].job
          /\ worker[w].proposal[2] \in OutputsOf(worker[w].job)
    /\ worker[w].phase = "insert" => ReferenceOf[worker[w].job] # NoReference

CarriedOK == TypeOK /\ \A w \in Workers : InHand(w)

\* In the initial state, tables and hands are empty.
LEMMA InitTyped == Init => CarriedOK
<1> SUFFICES ASSUME Init PROVE CarriedOK
  OBVIOUS
<1>1. [state |-> "absent", attempts |-> 0, lease |-> "none", due |-> FALSE,
       result |-> NoProposal] \in Row
  BY DEF Row
<1>2. Idle \in Process /\ Idle.phase \notin Busy /\ Idle.job = NoJob
  BY DEF Idle, Process, Phase, Busy
<1> QED
  BY <1>1, <1>2, LimitAssumption DEF Init, TypeOK, CarriedOK, InHand, Idle

\* Every step of the loop, of a caller and of time keeps the declared types.
LEMMA TypesStep == CarriedOK /\ [Next]_vars => TypeOK'
<1> SUFFICES ASSUME CarriedOK, [Next]_vars PROVE TypeOK'
  OBVIOUS
<1> USE DEF CarriedOK
<1>0. Idle \in Process /\ Idle.phase \notin Busy /\ Idle.job = NoJob
  BY DEF Idle, Process, Phase, Busy
<1>1. ASSUME NEW j \in Jobs, NEW w \in Workers, Remember(j, w) \/ RememberAgain(j, w)
      PROVE  TypeOK'
  <2>1. CASE Remember(j, w)
    <3>1. jobs' = [jobs EXCEPT ![j] = [jobs[j] EXCEPT !.state = "queued", !.due = TRUE]]
      BY <2>1 DEF Remember
    <3>2. [jobs[j] EXCEPT !.state = "queued", !.due = TRUE] \in Row
      BY RowUpdates DEF TypeOK
    <3>3. jobs' \in [Jobs -> Row]
      BY <3>1, <3>2 DEF TypeOK
    <3> QED
      BY <2>1, <3>3 DEF Remember, TypeOK
  <2>2. CASE RememberAgain(j, w)
    BY <2>2 DEF RememberAgain, TypeOK
  <2> QED
    BY <1>1, <2>1, <2>2
<1>2. ASSUME NEW j \in Jobs, NEW w \in Workers, Claim(w, j)
      PROVE  TypeOK'
  <2>1. [phase |-> "propose", job |-> j, proposal |-> NoProposal] \in Process
    BY DEF Process, Phase
  <2>2. [jobs[j] EXCEPT !.state = "running", !.attempts = jobs[j].attempts + 1,
                        !.lease = "live"] \in Row
    <3>1. jobs[j] \in Row /\ jobs[j].attempts + 1 \in Nat
      BY DEF TypeOK, Row
    <3> QED
      BY <3>1, RowUpdates
  <2>3. jobs' \in [Jobs -> Row]
    BY <1>2, <2>2 DEF Claim, Attempt, TypeOK
  <2>4. \A u \in Workers : worker'[u].phase \in Busy <=> worker'[u].job # NoJob
    BY <1>2, WorkAssumption DEF Claim, TypeOK, Busy, Phase
  <2> QED
    BY <1>2, <2>1, <2>3, <2>4 DEF Claim, TypeOK
<1>3. ASSUME NEW w \in Workers, Sleep(w) \/ Notified(w) \/ Poll(w)
      PROVE  TypeOK'
  <2>1. worker' \in [Workers -> Process]
    BY <1>3 DEF Sleep, Notified, Poll, TypeOK, Process, Phase
  <2>2. \A u \in Workers : worker'[u].phase \in Busy <=> worker'[u].job # NoJob
    BY <1>3 DEF Sleep, Notified, Poll, TypeOK, Process, Busy, Phase
  <2> QED
    BY <1>3, <2>1, <2>2 DEF Sleep, Notified, Poll, TypeOK
<1>4. ASSUME NEW w \in Workers, Propose(w)
      PROVE  TypeOK'
  <2>1. worker[w].job \in Jobs
    BY <1>4, BusyOnJob DEF Propose, At, Busy, Phase
  <2>2. PICK output \in OutputsOf(worker[w].job) :
           worker' = [worker EXCEPT ![w] =
              [phase |-> "references", job |-> worker[w].job,
               proposal |-> <<worker[w].job, output>>]]
    BY <1>4 DEF Propose
  <2>3. output \in Outputs
    BY <2>2, WorkAssumption DEF OutputsOf
  <2>4. [phase |-> "references", job |-> worker[w].job,
         proposal |-> <<worker[w].job, output>>] \in Process
    BY <2>1, <2>3 DEF Process, Phase, Proposals
  <2> QED
    BY <1>4, <2>1, <2>2, <2>4, WorkAssumption DEF Propose, Outside, TypeOK, Busy, Phase
<1>5. ASSUME NEW w \in Workers,
             \/ CheckReferences(w) \/ InsertReference(w) \/ Apply(w) \/ ApplyAgain(w)
             \/ Embed(w) \/ WriteEmbedding(w) \/ CompleteLost(w) \/ StepFails(w)
      PROVE  TypeOK'
  <2>1. worker[w].phase \in Busy
    BY <1>5 DEF CheckReferences, InsertReference, Apply, ApplyAgain, Embed,
                WriteEmbedding, CompleteLost, StepFails, At, Busy, Phase
  <2>2. \E phase \in Busy : Goto(w, phase)
    BY <1>5 DEF CheckReferences, InsertReference, Apply, ApplyAgain, Embed,
                WriteEmbedding, CompleteLost, StepFails, AfterApply, Busy, Phase
  <2>3. /\ worker' \in [Workers -> Process]
        /\ \A u \in Workers : worker'[u].phase \in Busy <=> worker'[u].job # NoJob
    BY <2>1, <2>2, GotoTyped
  <2>4. memory' \in [Proposals -> {"none", "active", "forgotten", "purged"}]
    BY <1>5 DEF CheckReferences, InsertReference, Apply, ApplyAgain, Embed,
                WriteEmbedding, CompleteLost, StepFails, TypeOK
  <2>5. references' \subseteq References
    <3>1. CASE InsertReference(w)
      <4>1. worker[w].job \in Jobs
        BY <2>1, BusyOnJob
      <4> QED
        BY <3>1, <4>1, WorkAssumption DEF InsertReference, InHand, At, TypeOK
    <3> QED
      BY <1>5, <3>1 DEF CheckReferences, Apply, ApplyAgain, Embed,
                        WriteEmbedding, CompleteLost, StepFails, TypeOK
  <2>6. embedded' \subseteq Proposals
    <3>1. CASE WriteEmbedding(w)
      BY <3>1 DEF WriteEmbedding, InHand, At, TypeOK
    <3> QED
      BY <1>5, <3>1 DEF CheckReferences, InsertReference, Apply, ApplyAgain, Embed,
                        CompleteLost, StepFails, TypeOK
  <2>7. UNCHANGED <<jobs, wake, crashes, overruns>>
    BY <1>5 DEF CheckReferences, InsertReference, Apply, ApplyAgain, Embed,
                WriteEmbedding, CompleteLost, StepFails, Outside
  <2> QED
    BY <2>3, <2>4, <2>5, <2>6, <2>7 DEF TypeOK
<1>6. ASSUME NEW w \in Workers, Complete(w) \/ Fail(w) \/ FailLost(w)
      PROVE  TypeOK'
  <2>1. worker[w].job \in Jobs /\ worker[w].proposal \in Proposals \cup {NoProposal}
    BY <1>6, BusyOnJob DEF Complete, Fail, FailLost, At, Busy, Phase, Process
  <2>2. jobs' \in [Jobs -> Row]
    <3>1. CASE Complete(w)
      <4>1. [jobs[worker[w].job] EXCEPT !.state = "succeeded", !.lease = "none",
                                        !.result = worker[w].proposal] \in Row
        BY <2>1, RowUpdates DEF TypeOK
      <4> QED
        BY <3>1, <4>1 DEF Complete, TypeOK
    <3>2. CASE Fail(w)
      <4>1. FailedState(jobs[worker[w].job]) \in {"queued", "failed"}
        BY DEF FailedState
      <4>2. [jobs[worker[w].job] EXCEPT !.state = FailedState(jobs[worker[w].job]),
                                        !.lease = "none", !.due = FALSE] \in Row
        BY <2>1, <4>1, RowUpdates DEF TypeOK
      <4> QED
        BY <3>2, <4>2 DEF Fail, TypeOK
    <3>3. CASE FailLost(w)
      BY <3>3 DEF FailLost, TypeOK
    <3> QED
      BY <1>6, <3>1, <3>2, <3>3
  <2> QED
    BY <1>0, <1>6, <2>2 DEF Complete, Fail, FailLost, Outside, TypeOK
<1>7. ASSUME NEW w \in Workers, Crash(w)
      PROVE  TypeOK'
  BY <1>0, <1>7, LimitAssumption DEF Crash, TypeOK
<1>8. ASSUME NEW j \in Jobs, AbandonedLapses(j) \/ Overrun(j) \/ RetryDue(j)
      PROVE  TypeOK'
  <2>1. /\ [jobs[j] EXCEPT !.lease = "lapsed"] \in Row
        /\ [jobs[j] EXCEPT !.due = TRUE] \in Row
    BY RowUpdates DEF TypeOK
  <2>2. jobs' \in [Jobs -> Row]
    BY <1>8, <2>1 DEF AbandonedLapses, Overrun, RetryDue, TypeOK
  <2>3. overruns' \in 0..MaxOverruns
    BY <1>8, LimitAssumption DEF AbandonedLapses, Overrun, RetryDue, Outside, TypeOK
  <2> QED
    BY <1>8, <2>2, <2>3 DEF AbandonedLapses, Overrun, RetryDue, Outside, TypeOK
<1>9. ASSUME NEW p \in Proposals, Forget(p) \/ Purge(p)
      PROVE  TypeOK'
  BY <1>9 DEF Forget, Purge, Outside, TypeOK
<1>10. CASE UNCHANGED vars
  BY <1>10 DEF vars, TypeOK
<1> QED
  BY <1>1, <1>2, <1>3, <1>4, <1>5, <1>6, <1>7, <1>8, <1>9, <1>10
     DEF Next, Loop, Process1

\* A worker that moves on keeps its job and proposal, or drops both.
LEMMA HandsStep == CarriedOK /\ [Next]_vars => \A u \in Workers : InHand(u)'
<1> SUFFICES ASSUME CarriedOK, [Next]_vars, NEW u \in Workers PROVE InHand(u)'
  OBVIOUS
<1> USE DEF CarriedOK
<1>1. CASE worker'[u] = worker[u]
  BY <1>1 DEF InHand
<1>2. CASE worker'[u].phase \in {"idle", "sleeping", "propose", "fail"}
  BY <1>2 DEF InHand
<1>3. ASSUME NEW w \in Workers, Propose(w)
      PROVE  InHand(u)'
  <2>1. worker[w].job \in Jobs
    BY <1>3, BusyOnJob DEF Propose, At, Busy, Phase
  <2>2. PICK output \in OutputsOf(worker[w].job) :
           worker' = [worker EXCEPT ![w] =
              [phase |-> "references", job |-> worker[w].job,
               proposal |-> <<worker[w].job, output>>]]
    BY <1>3 DEF Propose
  <2>3. output \in Outputs
    BY <2>2, WorkAssumption DEF OutputsOf
  <2>4. <<worker[w].job, output>> \in Proposals
    BY <2>1, <2>3 DEF Proposals
  <2> QED
    BY <1>1, <2>2, <2>4 DEF InHand, TypeOK
<1>4. ASSUME NEW w \in Workers, CheckReferences(w)
      PROVE  InHand(u)'
  BY <1>1, <1>4 DEF CheckReferences, Goto, At, InHand, TypeOK, Process
<1>5. ASSUME NEW w \in Workers,
             \/ InsertReference(w) \/ Apply(w) \/ ApplyAgain(w) \/ Embed(w)
             \/ WriteEmbedding(w)
      PROVE  InHand(u)'
  <2>1. worker[w].phase \in {"insert", "apply", "embed", "write"}
    BY <1>5 DEF InsertReference, Apply, ApplyAgain, Embed, WriteEmbedding, At
  <2>2. \E phase \in {"apply", "embed", "write", "complete", "fail"} : Goto(w, phase)
    BY <1>5 DEF InsertReference, Apply, ApplyAgain, Embed, WriteEmbedding, AfterApply
  <2> QED
    BY <1>1, <2>1, <2>2 DEF Goto, InHand, TypeOK, Process
<1>6. ASSUME NEW w \in Workers,
             \/ Sleep(w) \/ Notified(w) \/ Poll(w) \/ CompleteLost(w) \/ StepFails(w)
             \/ Complete(w) \/ Fail(w) \/ FailLost(w) \/ Crash(w)
             \/ \E j \in Jobs : Claim(w, j)
      PROVE  InHand(u)'
  <2>1. CASE Sleep(w) \/ Notified(w) \/ Poll(w) \/ CompleteLost(w) \/ StepFails(w)
    BY <1>1, <1>2, <2>1 DEF Sleep, Notified, Poll, CompleteLost, StepFails, Goto, TypeOK,
                            Process
  <2>2. CASE Complete(w) \/ Fail(w) \/ FailLost(w) \/ Crash(w)
    BY <1>1, <1>2, <2>2 DEF Complete, Fail, FailLost, Crash, Idle, TypeOK
  <2>3. CASE \E j \in Jobs : Claim(w, j)
    BY <1>1, <1>2, <2>3 DEF Claim, TypeOK
  <2> QED
    BY <1>6, <2>1, <2>2, <2>3
<1>7. ASSUME \/ \E j \in Jobs, w \in Workers : Remember(j, w) \/ RememberAgain(j, w)
             \/ \E j \in Jobs : AbandonedLapses(j) \/ Overrun(j) \/ RetryDue(j)
             \/ \E p \in Proposals : Forget(p) \/ Purge(p)
             \/ UNCHANGED vars
      PROVE  InHand(u)'
  <2>1. worker' = worker
    BY <1>7 DEF Remember, RememberAgain, AbandonedLapses, Overrun, RetryDue, Forget,
                Purge, vars
  <2> QED
    BY <1>1, <2>1
<1> QED
  BY <1>3, <1>4, <1>5, <1>6, <1>7 DEF Next, Loop, Process1

\* What workers carry, in every reachable state.
LEMMA CarriedAlways == Spec => []CarriedOK
<1>1. CarriedOK /\ [Next]_vars => CarriedOK'
  BY TypesStep, HandsStep DEF CarriedOK
<1> QED
  BY <1>1, InitTyped, PTL DEF Spec

\* The tables and the processes of the worker have the declared types: in
\* particular a claimed job, and nothing else, keeps a worker busy.
THEOREM TypeCorrect == Spec => []TypeOK
<1>1. CarriedOK => TypeOK
  BY DEF CarriedOK
<1> QED
  BY <1>1, CarriedAlways, PTL
-------------------------------------------------------------------------------
\* What is embedded is stored.
EmbeddedStored == \A p \in embedded : memory[p] \notin {"none", "purged"}

\* All that a step may do to a memory and its embedding: a memory is made by a
\* worker that has its proposal in hand, and is never unmade; only a write of a
\* worker embeds it, and an embedding goes only with a memory that is no longer
\* active.
LEMMA MemoryEffects ==
  ASSUME CarriedOK, EmbeddedStored, [Next]_vars, NEW p \in Proposals
  PROVE  /\ memory[p] # "none" => memory'[p] # "none"
         /\ memory[p] = "none" /\ memory'[p] # "none" =>
               /\ memory'[p] = "active"
               /\ \E w \in Workers :
                     /\ worker[w].phase = "apply" /\ worker[w].proposal = p
                     /\ worker'[w].phase = AfterApply
         /\ memory[p] # "none" /\ memory'[p] = "active" =>
               memory[p] = "active" /\ (p \in embedded => p \in embedded')
         /\ p \in embedded' =>
               \/ p \in embedded /\ memory'[p] = memory[p]
               \/ /\ memory'[p] = memory[p] /\ memory[p] # "purged"
                  /\ \E w \in Workers : worker[w].phase = "write" /\ worker[w].proposal = p
<1> USE DEF CarriedOK, TypeOK, EmbeddedStored
<1>1. ASSUME NEW w \in Workers, Apply(w)
      PROVE  /\ embedded' = embedded /\ worker[w].proposal \in Proposals
             /\ memory' = [memory EXCEPT ![worker[w].proposal] = "active"]
             /\ memory[worker[w].proposal] = "none"
             /\ worker[w].phase = "apply" /\ worker'[w].phase = AfterApply
  BY <1>1 DEF Apply, Goto, At, InHand, Process
<1>2. ASSUME NEW w \in Workers, WriteEmbedding(w)
      PROVE  /\ memory' = memory /\ worker[w].phase = "write"
             /\ \/ embedded' = embedded
                \/ /\ embedded' = embedded \cup {worker[w].proposal}
                   /\ memory[worker[w].proposal] # "purged"
  BY <1>2 DEF WriteEmbedding, At
<1>3. ASSUME NEW q \in Proposals, Forget(q) \/ Purge(q)
      PROVE  /\ memory[q] # "none" /\ embedded' = embedded \ {q}
             /\ \E state \in {"forgotten", "purged"} :
                   memory' = [memory EXCEPT ![q] = state]
  BY <1>3 DEF Forget, Purge
<1>4. \/ UNCHANGED <<memory, embedded>>
      \/ \E w \in Workers : Apply(w) \/ WriteEmbedding(w)
      \/ \E q \in Proposals : Forget(q) \/ Purge(q)
  BY DEF Next, Loop, Process1, Remember, RememberAgain, Claim, Sleep, Notified, Poll,
         Propose, CheckReferences, InsertReference, ApplyAgain, Embed, Complete,
         CompleteLost, StepFails, Fail, FailLost, AbandonedLapses, Overrun, RetryDue,
         Crash, vars
<1>5. CASE UNCHANGED <<memory, embedded>>
  BY <1>5
<1>6. CASE \E w \in Workers : Apply(w)
  BY <1>1, <1>6
<1>7. CASE \E w \in Workers : WriteEmbedding(w)
  BY <1>2, <1>7
<1>8. CASE \E q \in Proposals : Forget(q) \/ Purge(q)
  BY <1>3, <1>8
<1> QED
  BY <1>4, <1>5, <1>6, <1>7, <1>8

\* A worker that is past apply has a formed memory in its hands, and one that is
\* about to report has embedded it, if it is active.
PastApply(w) ==
    /\ worker[w].phase \in {"embed", "write", "complete"} =>
          memory[worker[w].proposal] # "none"
    /\ worker[w].phase = "complete" /\ Embedder /\ memory[worker[w].proposal] = "active" =>
          worker[w].proposal \in embedded

\* What a job reports was formed of it, and embedded if it is active.
Reported(j) ==
    jobs[j].state = "succeeded" =>
        /\ jobs[j].result \in Proposals /\ jobs[j].result[1] = j
        /\ memory[jobs[j].result] # "none"
        /\ Embedder /\ memory[jobs[j].result] = "active" => jobs[j].result \in embedded

FormationInv ==
    /\ CarriedOK /\ EmbeddedStored
    /\ \A w \in Workers : PastApply(w)
    /\ \A j \in Jobs : Reported(j)

\* Nothing is embedded that was not formed, and a purge takes the embedding along.
LEMMA EmbeddedStep == FormationInv /\ [Next]_vars => EmbeddedStored'
<1> SUFFICES ASSUME FormationInv, [Next]_vars, NEW p \in embedded'
             PROVE  memory'[p] \notin {"none", "purged"}
  BY DEF EmbeddedStored
<1>1. CarriedOK /\ CarriedOK' /\ EmbeddedStored
  BY TypesStep, HandsStep DEF FormationInv, CarriedOK
<1>2. p \in Proposals
  BY <1>1 DEF CarriedOK, TypeOK
<1>3. \A w \in Workers : worker[w].phase = "write" => memory[worker[w].proposal] # "none"
  BY DEF FormationInv, PastApply
<1> QED
  BY <1>1, <1>2, <1>3, MemoryEffects DEF EmbeddedStored

\* The memory in the hands of a worker stays formed and embedded, whatever others
\* do in between, and the worker itself never skips a step.
LEMMA PastApplyStep ==
  ASSUME FormationInv, [Next]_vars, NEW u \in Workers
  PROVE  PastApply(u)'
<1> DEFINE p == worker[u].proposal
<1> USE DEF FormationInv
<1>1. CarriedOK' /\ EmbeddedStored'
  BY TypesStep, HandsStep, EmbeddedStep DEF CarriedOK
<1>2. CASE worker'[u].phase \notin {"embed", "write", "complete"}
  BY <1>2 DEF PastApply
<1>3. CASE worker'[u] = worker[u] /\ worker[u].phase \in {"embed", "write", "complete"}
  <2>1. p \in Proposals
    BY <1>3 DEF CarriedOK, InHand
  <2> QED
    BY <1>3, <2>1, MemoryEffects DEF PastApply
<1>4. ASSUME Apply(u)
      PROVE  PastApply(u)'
  <2>1. p \in Proposals /\ u \in Workers
    BY <1>4 DEF Apply, At, CarriedOK, InHand
  <2>2. worker'[u].proposal = p /\ worker'[u].phase = AfterApply
    BY <1>4 DEF Apply, Goto, CarriedOK, TypeOK, Process
  <2>3. memory'[p] = "active"
    BY <1>4, <2>1 DEF Apply, CarriedOK, TypeOK
  <2> QED
    BY <2>2, <2>3 DEF PastApply, AfterApply
<1>5. ASSUME ApplyAgain(u)
      PROVE  PastApply(u)'
  <2>1. memory[p] # "none" /\ memory' = memory
    BY <1>5 DEF ApplyAgain
  <2>2. worker'[u].proposal = p /\ worker'[u].phase \in {"fail", AfterApply}
    BY <1>5 DEF ApplyAgain, Goto, CarriedOK, TypeOK, Process
  <2> QED
    BY <2>1, <2>2 DEF PastApply, AfterApply
<1>6. ASSUME Embed(u)
      PROVE  PastApply(u)'
  <2>1. memory' = memory /\ (worker'[u].phase = "write" => memory[p] = "active")
    BY <1>6 DEF Embed, Goto, CarriedOK, TypeOK, Process
  <2>2. worker'[u].proposal = p /\ worker'[u].phase \in {"fail", "write"}
    BY <1>6 DEF Embed, Goto, CarriedOK, TypeOK, Process
  <2> QED
    BY <2>1, <2>2 DEF PastApply
<1>7. ASSUME WriteEmbedding(u)
      PROVE  PastApply(u)'
  <2>1. memory[p] # "none" /\ memory' = memory
    BY <1>7 DEF WriteEmbedding, At, PastApply
  <2>2. worker'[u].proposal = p /\ worker'[u].phase \in {"fail", "complete"}
    BY <1>7 DEF WriteEmbedding, Goto, CarriedOK, TypeOK, Process
  <2>3. worker'[u].phase = "complete" => p \in embedded'
    BY <1>7 DEF WriteEmbedding, Goto, CarriedOK, TypeOK, Process
  <2> QED
    BY <2>1, <2>2, <2>3 DEF PastApply
<1>8. \/ worker'[u].phase \notin {"embed", "write", "complete"}
      \/ worker'[u] = worker[u]
      \/ Apply(u) \/ ApplyAgain(u) \/ Embed(u) \/ WriteEmbedding(u)
  <2> USE DEF CarriedOK, TypeOK, Process
  <2>1. ASSUME NEW w \in Workers, Apply(w) \/ ApplyAgain(w) \/ Embed(w) \/ WriteEmbedding(w)
        PROVE  w = u \/ worker'[u] = worker[u]
    BY <2>1 DEF Apply, ApplyAgain, Embed, WriteEmbedding, Goto
  <2>2. ASSUME NEW w \in Workers, CheckReferences(w) \/ InsertReference(w)
        PROVE  worker'[u].phase \notin {"embed", "write", "complete"} \/ worker'[u] = worker[u]
    BY <2>2 DEF CheckReferences, InsertReference, Goto
  <2>3. ASSUME NEW w \in Workers,
               \/ Sleep(w) \/ Notified(w) \/ Poll(w) \/ CompleteLost(w) \/ StepFails(w)
               \/ Complete(w) \/ Fail(w) \/ FailLost(w) \/ Crash(w) \/ Propose(w)
               \/ \E j \in Jobs : Claim(w, j)
        PROVE  worker'[u].phase \notin {"embed", "write", "complete"} \/ worker'[u] = worker[u]
    <3>1. CASE Sleep(w) \/ Notified(w) \/ Poll(w)
      BY <3>1 DEF Sleep, Notified, Poll
    <3>2. CASE CompleteLost(w) \/ StepFails(w)
      BY <3>2 DEF CompleteLost, StepFails, Goto
    <3>3. CASE Complete(w) \/ Fail(w) \/ FailLost(w) \/ Crash(w)
      BY <3>3 DEF Complete, Fail, FailLost, Crash, Idle
    <3>4. CASE Propose(w)
      BY <3>4 DEF Propose
    <3>5. CASE \E j \in Jobs : Claim(w, j)
      BY <3>5 DEF Claim
    <3> QED
      BY <2>3, <3>1, <3>2, <3>3, <3>4, <3>5
  <2>4. ASSUME \/ \E j \in Jobs, w \in Workers : Remember(j, w) \/ RememberAgain(j, w)
               \/ \E j \in Jobs : AbandonedLapses(j) \/ Overrun(j) \/ RetryDue(j)
               \/ \E q \in Proposals : Forget(q) \/ Purge(q)
               \/ UNCHANGED vars
        PROVE  worker' = worker
    BY <2>4 DEF Remember, RememberAgain, AbandonedLapses, Overrun, RetryDue, Forget,
                Purge, vars
  <2> QED
    BY <2>1, <2>2, <2>3, <2>4 DEF Next, Loop, Process1
<1>9. CASE worker'[u] = worker[u]
  BY <1>2, <1>3, <1>9
<1> QED
  BY <1>2, <1>4, <1>5, <1>6, <1>7, <1>8, <1>9

\* A job comes to report success only by Complete, and its report stays true.
LEMMA ReportedStep ==
  ASSUME FormationInv, [Next]_vars, NEW j \in Jobs
  PROVE  Reported(j)'
<1> USE DEF FormationInv
<1>1. CASE jobs[j].state = "succeeded" /\ jobs'[j].result = jobs[j].result
  <2>1. jobs[j].result \in Proposals
    BY <1>1 DEF Reported
  <2> QED
    BY <1>1, <2>1, MemoryEffects DEF Reported
<1>2. ASSUME NEW w \in Workers, Complete(w), worker[w].job = j
      PROVE  Reported(j)'
  <2>1. /\ worker[w].phase = "complete" /\ worker[w].proposal \in Proposals
        /\ worker[w].proposal[1] = j
    BY <1>2 DEF Complete, At, CarriedOK, InHand
  <2>2. jobs'[j].result = worker[w].proposal /\ memory' = memory /\ embedded' = embedded
    BY <1>2 DEF Complete, CarriedOK, TypeOK, Row
  <2> QED
    BY <2>1, <2>2 DEF Reported, PastApply
<1>3. \/ jobs'[j].state # "succeeded"
      \/ jobs[j].state = "succeeded" /\ jobs'[j].result = jobs[j].result
      \/ \E w \in Workers : Complete(w) /\ worker[w].job = j
  <2> USE DEF CarriedOK, TypeOK, Row
  <2>1. ASSUME NEW w \in Workers, Complete(w)
        PROVE  worker[w].job = j \/ jobs'[j] = jobs[j]
    BY <2>1 DEF Complete
  <2>2. ASSUME NEW w \in Workers, Fail(w)
        PROVE  jobs'[j].state # "succeeded" \/ jobs'[j] = jobs[j]
    BY <2>2 DEF Fail, FailedState
  <2>3. ASSUME NEW i \in Jobs, NEW w \in Workers, Claim(w, i) \/ Remember(i, w)
        PROVE  jobs'[j].state # "succeeded" \/ jobs'[j] = jobs[j]
    BY <2>3 DEF Claim, Remember
  <2>4. ASSUME NEW i \in Jobs, AbandonedLapses(i) \/ Overrun(i) \/ RetryDue(i)
        PROVE  jobs'[j].state = jobs[j].state /\ jobs'[j].result = jobs[j].result
    BY <2>4 DEF AbandonedLapses, Overrun, RetryDue
  <2>5. \/ jobs' = jobs
        \/ \E w \in Workers : Complete(w) \/ Fail(w)
        \/ \E i \in Jobs, w \in Workers : Claim(w, i) \/ Remember(i, w)
        \/ \E i \in Jobs : AbandonedLapses(i) \/ Overrun(i) \/ RetryDue(i)
    BY DEF Next, Loop, Process1, RememberAgain, Sleep, Notified, Poll, Propose,
           CheckReferences, InsertReference, Apply, ApplyAgain, Embed, WriteEmbedding,
           CompleteLost, StepFails, FailLost, Crash, Forget, Purge, vars
  <2> QED
    BY <2>1, <2>2, <2>3, <2>4, <2>5
<1>4. CASE jobs'[j].state # "succeeded"
  BY <1>4 DEF Reported
<1> QED
  BY <1>1, <1>2, <1>3, <1>4

\* The invariant behind the theorems below.
LEMMA FormationAlways == Spec => []FormationInv
<1>1. Init => FormationInv
  <2> SUFFICES ASSUME Init PROVE FormationInv
    OBVIOUS
  <2>1. CarriedOK
    BY InitTyped
  <2> QED
    BY <2>1 DEF Init, FormationInv, EmbeddedStored, PastApply, Reported, Idle
<1>2. FormationInv /\ [Next]_vars => FormationInv'
  <2>1. FormationInv /\ [Next]_vars => CarriedOK'
    BY TypesStep, HandsStep DEF FormationInv, CarriedOK
  <2> QED
    BY <2>1, EmbeddedStep, PastApplyStep, ReportedStep DEF FormationInv
<1> QED
  BY <1>1, <1>2, PTL DEF Spec

\* A report of success names a memory of the job that was formed, and embedded
\* unless it was forgotten or purged, whichever worker ended the job.
THEOREM SuccessIsFormed == Spec => []SucceededIsFormed
<1>1. FormationInv => SucceededIsFormed
  <2> SUFFICES ASSUME FormationInv PROVE SucceededIsFormed
    OBVIOUS
  <2>1. ASSUME NEW w \in Workers, worker[w].phase \in {"embed", "write", "complete"}
        PROVE  worker[w].proposal \in Formed(worker[w].job)
    BY <2>1 DEF FormationInv, CarriedOK, InHand, PastApply, Formed
  <2>2. ASSUME NEW j \in Jobs, jobs[j].state = "succeeded"
        PROVE  LET p == jobs[j].result IN
               /\ p \in Formed(j)
               /\ Embedder /\ memory[p] = "active" => p \in embedded
    BY <2>2 DEF FormationInv, Reported, Formed
  <2> QED
    BY <2>1, <2>2 DEF SucceededIsFormed, FormationInv, EmbeddedStored
<1> QED
  BY <1>1, FormationAlways, PTL
-------------------------------------------------------------------------------
\* The workers whose attempt at j may still form a memory.
Trying(j) == {w \in OnJob(j) : worker[w].phase \in {"propose", "references", "insert", "apply"}}

\* What was formed, and what may still be formed, was counted in the row.
Counted(j) == Cardinality(Formed(j)) + Cardinality(Trying(j)) <= jobs[j].attempts

\* Workers and the memories of a job are finitely many.
LEMMA FiniteCounts ==
  ASSUME NEW j \in Jobs
  PROVE  IsFiniteSet(Formed(j)) /\ IsFiniteSet(Trying(j))
<1>1. IsFiniteSet({j} \X Outputs)
  <2>1. IsFiniteSet({j})
    BY FS_Singleton
  <2> QED
    BY <2>1, FiniteAssumption, FS_Product
<1>2. Formed(j) \subseteq {j} \X Outputs
  BY DEF Formed, Proposals
<1>3. Trying(j) \subseteq Workers
  BY DEF Trying, OnJob
<1> QED
  BY <1>1, <1>2, <1>3, FiniteAssumption, FS_Subset

\* The same in the next state.
LEMMA FiniteCountsNext ==
  ASSUME NEW j \in Jobs
  PROVE  IsFiniteSet(Formed(j)') /\ IsFiniteSet(Trying(j)')
<1>1. IsFiniteSet({j} \X Outputs)
  <2>1. IsFiniteSet({j})
    BY FS_Singleton
  <2> QED
    BY <2>1, FiniteAssumption, FS_Product
<1>2. Formed(j)' \subseteq {j} \X Outputs
  BY DEF Formed, Proposals
<1>3. Trying(j)' \subseteq Workers
  BY DEF Trying, OnJob
<1> QED
  BY <1>1, <1>2, <1>3, FiniteAssumption, FS_Subset

\* What a step may do to the counts of a job: nothing new, one attempt more, or a
\* memory formed by a worker whose attempt is then spent.
LEMMA CountEffects ==
  ASSUME CarriedOK, [Next]_vars, NEW j \in Jobs
  PROVE  \/ /\ Formed(j)' = Formed(j) /\ Trying(j)' \subseteq Trying(j)
            /\ jobs'[j].attempts = jobs[j].attempts
         \/ /\ Formed(j)' = Formed(j)
            /\ jobs'[j].attempts = jobs[j].attempts + 1
            /\ \E w \in Workers : Trying(j)' = Trying(j) \cup {w}
         \/ /\ jobs'[j].attempts = jobs[j].attempts
            /\ \E p \in Proposals, w \in Trying(j) :
                  Formed(j)' = Formed(j) \cup {p} /\ Trying(j)' \subseteq Trying(j) \ {w}
<1> USE DEF CarriedOK, TypeOK, Row, Process
<1>1. ASSUME NEW w \in Workers, NEW i \in Jobs, Claim(w, i)
      PROVE  /\ Formed(j)' = Formed(j)
             /\ i = j => /\ jobs'[j].attempts = jobs[j].attempts + 1
                         /\ Trying(j)' = Trying(j) \cup {w}
             /\ i # j => /\ jobs'[j].attempts = jobs[j].attempts
                         /\ Trying(j)' = Trying(j)
  <2>1. memory' = memory
    BY <1>1 DEF Claim
  <2>2. i = j => jobs'[j].attempts = jobs[j].attempts + 1
    BY <1>1 DEF Claim, Attempt
  <2>3. i # j => jobs'[j].attempts = jobs[j].attempts
    BY <1>1 DEF Claim
  <2>4. /\ worker[w].phase = "idle" /\ worker'[w].phase = "propose" /\ worker'[w].job = i
        /\ \A u \in Workers \ {w} : worker'[u] = worker[u]
    BY <1>1 DEF Claim
  <2>5. w \notin Trying(j)
    BY <2>4 DEF Trying
  <2>6. i = j => Trying(j)' = Trying(j) \cup {w}
    BY <2>4 DEF Trying, OnJob
  <2>7. i # j => Trying(j)' = Trying(j)
    BY <2>4, <2>5 DEF Trying, OnJob
  <2> QED
    BY <2>1, <2>2, <2>3, <2>6, <2>7 DEF Formed
<1>2. ASSUME NEW w \in Workers, Apply(w)
      PROVE  /\ jobs' = jobs
             /\ worker[w].job = j => /\ worker[w].proposal \in Proposals /\ w \in Trying(j)
                                     /\ Formed(j)' = Formed(j) \cup {worker[w].proposal}
                                     /\ Trying(j)' \subseteq Trying(j) \ {w}
             /\ worker[w].job # j => Formed(j)' = Formed(j) /\ Trying(j)' \subseteq Trying(j)
  <2>1. /\ worker[w].proposal \in Proposals /\ worker[w].proposal[1] = worker[w].job
        /\ worker[w].phase = "apply"
    BY <1>2 DEF Apply, At, InHand
  <2>2. /\ worker'[w].phase \in {"embed", "complete"}
        /\ \A u \in Workers \ {w} : worker'[u] = worker[u]
    BY <1>2 DEF Apply, Goto, AfterApply
  <2>3. memory' = [memory EXCEPT ![worker[w].proposal] = "active"]
    BY <1>2 DEF Apply
  <2>4. Trying(j)' \subseteq Trying(j) \ {w}
    BY <2>2 DEF Trying, OnJob
  <2>5. worker[w].job = j => Formed(j)' = Formed(j) \cup {worker[w].proposal}
    BY <2>1, <2>3 DEF Formed
  <2>6. worker[w].job # j => Formed(j)' = Formed(j)
    BY <2>1, <2>3 DEF Formed
  <2>7. worker[w].job = j => w \in Trying(j)
    BY <2>1 DEF Trying, OnJob
  <2> QED
    BY <1>2, <2>1, <2>4, <2>5, <2>6, <2>7 DEF Apply
<1>3. ASSUME NEW w \in Workers,
             \/ Sleep(w) \/ Notified(w) \/ Poll(w) \/ Propose(w) \/ CheckReferences(w)
             \/ InsertReference(w) \/ ApplyAgain(w) \/ Embed(w) \/ WriteEmbedding(w)
             \/ CompleteLost(w) \/ StepFails(w) \/ FailLost(w) \/ Complete(w) \/ Fail(w)
             \/ Crash(w)
      PROVE  /\ memory' = memory /\ jobs'[j].attempts = jobs[j].attempts
             /\ Trying(j)' \subseteq Trying(j)
  <2>1. memory' = memory
    BY <1>3 DEF Sleep, Notified, Poll, Propose, CheckReferences, InsertReference,
                ApplyAgain, Embed, WriteEmbedding, CompleteLost, StepFails, FailLost,
                Complete, Fail, Crash
  <2>2. jobs'[j].attempts = jobs[j].attempts
    <3>1. CASE Complete(w)
      <4>1. CASE worker[w].job = j
        BY <3>1, <4>1 DEF Complete
      <4>2. CASE worker[w].job # j
        BY <3>1, <4>2 DEF Complete
      <4> QED
        BY <4>1, <4>2
    <3>2. CASE Fail(w)
      <4>1. CASE worker[w].job = j
        BY <3>2, <4>1 DEF Fail
      <4>2. CASE worker[w].job # j
        BY <3>2, <4>2 DEF Fail
      <4> QED
        BY <4>1, <4>2
    <3> QED
      BY <1>3, <3>1, <3>2 DEF Sleep, Notified, Poll, Propose, CheckReferences, InsertReference,
                ApplyAgain, Embed, WriteEmbedding, CompleteLost, StepFails, FailLost, Crash
  <2>3. \A u \in Workers \ {w} : worker'[u] = worker[u]
    <3>1. CASE Sleep(w) \/ Notified(w) \/ Poll(w) \/ Complete(w) \/ Fail(w) \/ FailLost(w)
               \/ Crash(w) \/ Propose(w)
      BY <3>1 DEF Sleep, Notified, Poll, Complete, Fail, FailLost, Crash, Propose
    <3>2. CASE CheckReferences(w) \/ InsertReference(w) \/ ApplyAgain(w) \/ Embed(w)
               \/ WriteEmbedding(w) \/ CompleteLost(w) \/ StepFails(w)
      BY <3>2 DEF CheckReferences, InsertReference, ApplyAgain, Embed, WriteEmbedding,
                  CompleteLost, StepFails, Goto
    <3> QED
      BY <1>3, <3>1, <3>2
  <2>4. w \in Trying(j)' => w \in Trying(j)
    <3>1. CASE Sleep(w) \/ Notified(w) \/ Poll(w)
      BY <3>1 DEF Sleep, Notified, Poll, Trying, OnJob
    <3>2. CASE Complete(w) \/ Fail(w) \/ FailLost(w) \/ Crash(w)
      BY <3>2 DEF Complete, Fail, FailLost, Crash, Idle, Trying, OnJob
    <3>3. CASE Propose(w)
      BY <3>3 DEF Propose, At, Trying, OnJob
    <3>4. CASE CheckReferences(w) \/ InsertReference(w)
      BY <3>4 DEF CheckReferences, InsertReference, At, Goto, Trying, OnJob
    <3>5. CASE ApplyAgain(w) \/ Embed(w) \/ WriteEmbedding(w) \/ CompleteLost(w) \/ StepFails(w)
      BY <3>5 DEF ApplyAgain, Embed, WriteEmbedding, CompleteLost, StepFails, AfterApply,
                  Goto, Trying, OnJob
    <3> QED
      BY <1>3, <3>1, <3>2, <3>3, <3>4, <3>5
  <2>5. Trying(j)' \subseteq Trying(j)
    BY <2>3, <2>4 DEF Trying, OnJob
  <2> QED
    BY <2>1, <2>2, <2>5
<1>4. ASSUME \/ \E i \in Jobs, w \in Workers : Remember(i, w) \/ RememberAgain(i, w)
             \/ \E i \in Jobs : AbandonedLapses(i) \/ Overrun(i) \/ RetryDue(i)
             \/ UNCHANGED vars
      PROVE  /\ memory' = memory /\ worker' = worker
             /\ jobs'[j].attempts = jobs[j].attempts
  <2>1. memory' = memory /\ worker' = worker
    BY <1>4 DEF Remember, RememberAgain, AbandonedLapses, Overrun, RetryDue, vars
  <2>2. ASSUME NEW i \in Jobs, NEW w \in Workers, Remember(i, w)
        PROVE  jobs'[j].attempts = jobs[j].attempts
    BY <2>2 DEF Remember
  <2>3. ASSUME NEW i \in Jobs, AbandonedLapses(i) \/ Overrun(i)
        PROVE  jobs'[j].attempts = jobs[j].attempts
    BY <2>3 DEF AbandonedLapses, Overrun
  <2>4. ASSUME NEW i \in Jobs, RetryDue(i)
        PROVE  jobs'[j].attempts = jobs[j].attempts
    BY <2>4 DEF RetryDue
  <2> QED
    BY <1>4, <2>1, <2>2, <2>3, <2>4 DEF RememberAgain, vars
<1>5. ASSUME NEW p \in Proposals, Forget(p) \/ Purge(p)
      PROVE  Formed(j)' = Formed(j) /\ worker' = worker /\ jobs' = jobs
  BY <1>5 DEF Forget, Purge, Formed, Outside
<1>6. memory' = memory => Formed(j)' = Formed(j)
  BY DEF Formed
<1>7. worker' = worker => Trying(j)' = Trying(j)
  BY DEF Trying, OnJob
<1>8. CASE \E w \in Workers, i \in Jobs : Claim(w, i)
  BY <1>1, <1>8
<1>9. CASE \E w \in Workers : Apply(w)
  BY <1>2, <1>9
<1>10. CASE \E p \in Proposals : Forget(p) \/ Purge(p)
  BY <1>5, <1>7, <1>10
<1> QED
  BY <1>3, <1>4, <1>6, <1>7, <1>8, <1>9, <1>10 DEF Next, Loop, Process1

\* A step forms a memory only out of an attempt that was counted.
LEMMA CountedStep ==
  ASSUME CarriedOK, [Next]_vars, NEW j \in Jobs, Counted(j)
  PROVE  Counted(j)'
<1> DEFINE formed == Cardinality(Formed(j))
           trying == Cardinality(Trying(j))
<1>1. /\ formed \in Nat /\ trying \in Nat /\ formed' \in Nat /\ trying' \in Nat
      /\ jobs[j].attempts \in Nat
  <2>1. jobs[j] \in Row
    BY DEF CarriedOK, TypeOK
  <2> QED
    BY <2>1, FiniteCounts, FiniteCountsNext, FS_CardinalityType DEF Row
<1>2. CASE /\ Formed(j)' = Formed(j) /\ Trying(j)' \subseteq Trying(j)
           /\ jobs'[j].attempts = jobs[j].attempts
  <2>1. formed' = formed /\ trying' <= trying
    BY <1>2, FiniteCounts, FS_Subset
  <2> QED
    BY <1>1, <1>2, <2>1 DEF Counted
<1>3. ASSUME NEW w \in Workers, Trying(j)' = Trying(j) \cup {w}, Formed(j)' = Formed(j),
             jobs'[j].attempts = jobs[j].attempts + 1
      PROVE  Counted(j)'
  <2>1. Cardinality(Trying(j) \cup {w}) \in {trying, trying + 1}
    BY FiniteCounts, FS_AddElement
  <2>2. formed' = formed /\ trying' <= trying + 1
    BY <1>1, <1>3, <2>1
  <2> QED
    BY <1>1, <1>3, <2>2 DEF Counted
<1>4. ASSUME NEW p \in Proposals, NEW w \in Trying(j), Formed(j)' = Formed(j) \cup {p},
             Trying(j)' \subseteq Trying(j) \ {w}, jobs'[j].attempts = jobs[j].attempts
      PROVE  Counted(j)'
  <2>0. Cardinality(Formed(j) \cup {p}) \in {formed, formed + 1}
    BY FiniteCounts, FS_AddElement
  <2>1. formed' <= formed + 1
    BY <1>1, <1>4, <2>0
  <2>2. IsFiniteSet(Trying(j) \ {w}) /\ Cardinality(Trying(j) \ {w}) = trying - 1
    BY FiniteCounts, FS_RemoveElement
  <2>3. trying' <= trying - 1
    BY <1>4, <2>2, FS_Subset
  <2> QED
    BY <1>1, <1>4, <2>1, <2>3 DEF Counted
<1> QED
  BY CountEffects, <1>2, <1>3, <1>4

\* A generator that answers differently each time forms one memory per attempt,
\* whatever workers crash, overrun their lease or take the job over.
THEOREM OneMemoryEach == Spec => []OneMemoryPerAttempt
<1> DEFINE Inv == CarriedOK /\ \A j \in Jobs : Counted(j)
<1>1. Init => Inv
  <2> SUFFICES ASSUME Init, NEW j \in Jobs PROVE Counted(j)
    BY InitTyped
  <2>1. Formed(j) = {} /\ Trying(j) = {} /\ jobs[j].attempts = 0
    BY DEF Init, Formed, Trying, OnJob, Idle
  <2> QED
    BY <2>1, FS_EmptySet DEF Counted
<1>2. Inv /\ [Next]_vars => Inv'
  <2>1. CarriedOK /\ [Next]_vars => CarriedOK'
    BY TypesStep, HandsStep DEF CarriedOK
  <2> QED
    BY <2>1, CountedStep
<1>3. Inv => OneMemoryPerAttempt
  <2> SUFFICES ASSUME Inv, NEW j \in Jobs PROVE Cardinality(Formed(j)) <= jobs[j].attempts
    BY DEF OneMemoryPerAttempt
  <2>1. /\ Cardinality(Formed(j)) \in Nat /\ Cardinality(Trying(j)) \in Nat
        /\ jobs[j].attempts \in Nat
    <3>1. jobs[j] \in Row
      BY DEF CarriedOK, TypeOK
    <3> QED
      BY <3>1, FiniteCounts, FS_CardinalityType DEF Row
  <2> QED
    BY <2>1 DEF Counted
<1> QED
  BY <1>1, <1>2, <1>3, PTL DEF Spec
-------------------------------------------------------------------------------
\* Whether the next claim of j would be one beyond those of the retry limit: the
\* lease has lapsed, or nobody is left to end the attempt.
Owed(j) == IF jobs[j].state = "running" /\ (jobs[j].lease # "live" \/ OnJob(j) = {})
           THEN 1 ELSE 0

\* A queued job has attempts left, and a claim beyond the limit has its crash or
\* its overrun.
Limited(j) ==
    /\ jobs[j].state \in {"absent", "queued"} => jobs[j].attempts < MaxAttempts
    /\ jobs[j].attempts + Owed(j) <= MaxAttempts + crashes + overruns

\* Changing where a worker is on its job, or its proposal, leaves who is on a job.
LEMMA SameJobs ==
  ASSUME TypeOK, [Next]_vars, NEW j \in Jobs
  PROVE  \/ OnJob(j)' = OnJob(j)
         \/ \E w \in Workers : Claim(w, j) \/ Crash(w)
         \/ \E w \in Workers : worker[w].job = j /\ (Complete(w) \/ Fail(w) \/ FailLost(w))
<1> USE DEF TypeOK, Process
<1>1. ASSUME NEW w \in Workers,
             \/ Sleep(w) \/ Notified(w) \/ Poll(w) \/ CompleteLost(w) \/ StepFails(w)
             \/ CheckReferences(w) \/ InsertReference(w) \/ Apply(w) \/ ApplyAgain(w)
             \/ Embed(w) \/ WriteEmbedding(w) \/ Propose(w)
      PROVE  OnJob(j)' = OnJob(j)
  <2>1. CASE \/ CompleteLost(w) \/ StepFails(w) \/ CheckReferences(w) \/ InsertReference(w)
             \/ Apply(w) \/ ApplyAgain(w) \/ Embed(w) \/ WriteEmbedding(w)
    <3>1. \E phase \in Phase : Goto(w, phase)
      BY <2>1 DEF CompleteLost, StepFails, CheckReferences, InsertReference, Apply,
                  ApplyAgain, Embed, WriteEmbedding, AfterApply, Phase
    <3> QED
      BY <3>1 DEF Goto, OnJob
  <2>2. CASE Sleep(w) \/ Notified(w) \/ Poll(w)
    BY <2>2 DEF Sleep, Notified, Poll, OnJob
  <2>3. CASE Propose(w)
    BY <2>3 DEF Propose, OnJob
  <2> QED
    BY <1>1, <2>1, <2>2, <2>3
<1>2. ASSUME NEW w \in Workers, NEW i \in Jobs, Claim(w, i), i # j
      PROVE  OnJob(j)' = OnJob(j)
  <2>1. worker[w].job = NoJob
    BY <1>2, BusyOnJob DEF Claim, Busy
  <2> QED
    BY <1>2, <2>1, WorkAssumption DEF Claim, OnJob
<1>3. ASSUME NEW w \in Workers, Complete(w) \/ Fail(w) \/ FailLost(w), worker[w].job # j
      PROVE  OnJob(j)' = OnJob(j)
  BY <1>3, WorkAssumption DEF Complete, Fail, FailLost, Idle, OnJob
<1>4. ASSUME \/ \E i \in Jobs, w \in Workers : Remember(i, w) \/ RememberAgain(i, w)
             \/ \E i \in Jobs : AbandonedLapses(i) \/ Overrun(i) \/ RetryDue(i)
             \/ \E p \in Proposals : Forget(p) \/ Purge(p)
             \/ UNCHANGED vars
      PROVE  OnJob(j)' = OnJob(j)
  <2>1. worker' = worker
    BY <1>4 DEF Remember, RememberAgain, AbandonedLapses, Overrun, RetryDue, Forget,
                Purge, vars
  <2> QED
    BY <2>1 DEF OnJob
<1> QED
  BY <1>1, <1>2, <1>3, <1>4 DEF Next, Loop, Process1

\* A step that is not one of the row's own leaves the row.
LEMMA SameRow ==
  ASSUME TypeOK, [Next]_vars, NEW j \in Jobs
  PROVE  \/ jobs'[j] = jobs[j]
         \/ \E w \in Workers : Claim(w, j) \/ Remember(j, w)
         \/ \E w \in Workers : worker[w].job = j /\ (Complete(w) \/ Fail(w))
         \/ AbandonedLapses(j) \/ Overrun(j) \/ RetryDue(j)
<1> USE DEF TypeOK
<1>1. ASSUME NEW w \in Workers, Complete(w) \/ Fail(w), worker[w].job # j
      PROVE  jobs'[j] = jobs[j]
  BY <1>1 DEF Complete, Fail
<1>2. ASSUME NEW i \in Jobs, NEW w \in Workers, Claim(w, i) \/ Remember(i, w), i # j
      PROVE  jobs'[j] = jobs[j]
  BY <1>2 DEF Claim, Remember
<1>3. ASSUME NEW i \in Jobs, AbandonedLapses(i) \/ Overrun(i) \/ RetryDue(i), i # j
      PROVE  jobs'[j] = jobs[j]
  BY <1>3 DEF AbandonedLapses, Overrun, RetryDue
<1>4. \/ jobs' = jobs
      \/ \E w \in Workers : Complete(w) \/ Fail(w)
      \/ \E i \in Jobs, w \in Workers : Claim(w, i) \/ Remember(i, w)
      \/ \E i \in Jobs : AbandonedLapses(i) \/ Overrun(i) \/ RetryDue(i)
  BY DEF Next, Loop, Process1, RememberAgain, Sleep, Notified, Poll, Propose,
         CheckReferences, InsertReference, Apply, ApplyAgain, Embed, WriteEmbedding,
         CompleteLost, StepFails, FailLost, Crash, Forget, Purge, vars
<1> QED
  BY <1>1, <1>2, <1>3, <1>4

\* Crashes and overruns are only ever counted up.
LEMMA CountersGrow ==
  ASSUME TypeOK, [Next]_vars
  PROVE  /\ crashes \in Nat /\ overruns \in Nat /\ crashes' \in Nat /\ overruns' \in Nat
         /\ crashes <= crashes' /\ overruns <= overruns'
<1>1. crashes \in Nat /\ overruns \in Nat
  BY LimitAssumption DEF TypeOK
<1>2. \/ UNCHANGED <<crashes, overruns>>
      \/ \E w \in Workers : Crash(w)
      \/ \E j \in Jobs : Overrun(j)
  BY DEF Next, Loop, Process1, RememberAgain, Sleep, Notified, Poll, Propose, Remember,
         Claim, Complete, Fail, AbandonedLapses, RetryDue, CheckReferences,
         InsertReference, Apply, ApplyAgain, Embed, WriteEmbedding, CompleteLost,
         StepFails, FailLost, Forget, Purge, Outside, vars
<1> QED
  BY <1>1, <1>2 DEF Crash, Overrun

\* A claim beyond the retry limit uses up a crash or an overrun of its own.
LEMMA LimitedStep ==
  ASSUME CarriedOK, [Next]_vars, NEW j \in Jobs, Limited(j)
  PROVE  Limited(j)'
<1> DEFINE attempts == jobs[j].attempts
           total == MaxAttempts + crashes + overruns
<1>0. TypeOK /\ jobs[j] \in Row /\ attempts \in Nat /\ MaxAttempts \in Nat
  BY LimitAssumption DEF CarriedOK, TypeOK, Row
<1>1. /\ total \in Nat /\ total' \in Nat /\ total <= total' /\ MaxAttempts <= total
      /\ MaxAttempts <= total'
  BY <1>0, CountersGrow
<1>2. Owed(j) \in {0, 1} /\ Owed(j)' \in {0, 1}
  BY DEF Owed
<1>3. ASSUME NEW w \in Workers, Claim(w, j)
      PROVE  Limited(j)'
  <2>1. jobs'[j].attempts = attempts + 1 /\ jobs'[j].state = "running" /\ jobs'[j].lease = "live"
    BY <1>0, <1>3 DEF Claim, Attempt, TypeOK, Row
  <2>2. w \in OnJob(j)'
    BY <1>0, <1>3 DEF Claim, OnJob, TypeOK
  <2>3. Owed(j)' = 0
    BY <2>1, <2>2 DEF Owed
  <2>4. CASE jobs[j].state = "queued"
    BY <1>0, <1>1, <2>1, <2>3, <2>4 DEF Limited
  <2>5. CASE jobs[j].state = "running" /\ jobs[j].lease = "lapsed"
    <3>1. Owed(j) = 1
      BY <2>5 DEF Owed
    <3> QED
      BY <1>0, <1>1, <2>1, <2>3, <3>1 DEF Limited
  <2> QED
    BY <1>3, <2>4, <2>5 DEF Claim, Ready
<1>4. ASSUME NEW w \in Workers, Remember(j, w)
      PROVE  Limited(j)'
  <2>1. jobs[j].state = "absent" /\ jobs'[j].attempts = attempts /\ jobs'[j].state = "queued"
    BY <1>0, <1>4 DEF Remember, TypeOK, Row
  <2>2. Owed(j)' = 0
    BY <2>1 DEF Owed
  <2> QED
    BY <1>0, <1>1, <2>1, <2>2 DEF Limited
<1>5. ASSUME NEW w \in Workers, worker[w].job = j, Complete(w) \/ Fail(w)
      PROVE  Limited(j)'
  <2>1. jobs'[j].attempts = attempts
    <3>1. CASE Complete(w)
      BY <1>0, <1>5, <3>1 DEF Complete, TypeOK, Row
    <3>2. CASE Fail(w)
      BY <1>0, <1>5, <3>2 DEF Fail, TypeOK, Row
    <3> QED
      BY <1>5, <3>1, <3>2
  <2>2. \/ jobs'[j].state \in {"succeeded", "failed"}
        \/ jobs'[j].state = "queued" /\ attempts < MaxAttempts
    <3>1. CASE Complete(w)
      BY <1>0, <1>5, <3>1 DEF Complete, TypeOK, Row
    <3>2. CASE Fail(w)
      <4>1. jobs'[j].state = FailedState(jobs[j])
        BY <1>0, <1>5, <3>2 DEF Fail, TypeOK, Row
      <4> QED
        BY <1>0, <4>1 DEF FailedState
    <3> QED
      BY <1>5, <3>1, <3>2
  <2>3. Owed(j)' = 0
    BY <2>2 DEF Owed
  <2> QED
    BY <1>0, <1>1, <1>2, <2>1, <2>2, <2>3 DEF Limited
<1>6. CASE AbandonedLapses(j) \/ Overrun(j)
  <2>1. jobs[j].state = "running" /\ jobs'[j].attempts = attempts /\ jobs'[j].state = "running"
    BY <1>0, <1>6 DEF AbandonedLapses, Overrun, HoldsLease, TypeOK, Row
  <2>2. CASE AbandonedLapses(j)
    <3>1. Owed(j) = 1
      BY <2>1, <2>2 DEF AbandonedLapses, Owed
    <3> QED
      BY <1>0, <1>1, <1>2, <2>1, <3>1 DEF Limited
  <2>3. CASE Overrun(j)
    <3>1. total' = total + 1
      BY <1>0, <2>3, CountersGrow DEF Overrun
    <3> QED
      BY <1>0, <1>1, <1>2, <2>1, <3>1 DEF Limited
  <2> QED
    BY <1>6, <2>2, <2>3
<1>7. CASE RetryDue(j)
  <2>1. jobs[j].state = "queued" /\ jobs'[j].attempts = attempts /\ jobs'[j].state = "queued"
    BY <1>0, <1>7 DEF RetryDue, TypeOK, Row
  <2>2. Owed(j)' = 0
    BY <2>1 DEF Owed
  <2> QED
    BY <1>0, <1>1, <2>1, <2>2 DEF Limited
<1>8. CASE jobs'[j] = jobs[j]
  <2>1. ASSUME OnJob(j)' = OnJob(j)
        PROVE  Limited(j)'
    <3>1. Owed(j)' = Owed(j)
      BY <1>8, <2>1 DEF Owed
    <3> QED
      BY <1>0, <1>1, <1>2, <1>8, <3>1 DEF Limited
  <2>2. ASSUME NEW w \in Workers, Crash(w)
        PROVE  Limited(j)'
    <3>1. total' = total + 1
      BY <1>0, <2>2, CountersGrow DEF Crash
    <3> QED
      BY <1>0, <1>1, <1>2, <1>8, <3>1 DEF Limited
  <2>3. ASSUME NEW w \in Workers, worker[w].job = j, FailLost(w)
        PROVE  Limited(j)'
    <3>1. Owed(j)' = Owed(j)
      BY <1>8, <2>3 DEF FailLost, HoldsLease, Owed
    <3> QED
      BY <1>0, <1>1, <1>2, <1>8, <3>1 DEF Limited
  <2> QED
    BY <1>0, <1>3, <1>5, <2>1, <2>2, <2>3, SameJobs
<1> QED
  BY <1>0, <1>3, <1>4, <1>5, <1>6, <1>7, <1>8, SameRow

\* However workers lose their leases to each other, fail each other's attempts and
\* crash, a job is claimed at most as often as the retry limit allows and once more
\* for every crash and every lease that lapsed under a worker.
THEOREM RetriesAreBounded == Spec => []AttemptsBounded
<1> DEFINE Inv == CarriedOK /\ \A j \in Jobs : Limited(j)
<1>1. Init => Inv
  <2> SUFFICES ASSUME Init, NEW j \in Jobs PROVE Limited(j)
    BY InitTyped
  <2>1. jobs[j].state = "absent" /\ jobs[j].attempts = 0 /\ Owed(j) = 0
    BY DEF Init, Owed
  <2> QED
    BY <2>1, LimitAssumption DEF Init, Limited
<1>2. Inv /\ [Next]_vars => Inv'
  <2>1. CarriedOK /\ [Next]_vars => CarriedOK'
    BY TypesStep, HandsStep DEF CarriedOK
  <2> QED
    BY <2>1, LimitedStep
<1>3. Inv => AttemptsBounded
  <2> SUFFICES ASSUME Inv, NEW j \in Jobs
               PROVE  jobs[j].attempts <= MaxAttempts + crashes + overruns
    BY DEF AttemptsBounded
  <2>1. /\ Owed(j) \in {0, 1} /\ jobs[j].attempts \in Nat
        /\ MaxAttempts + crashes + overruns \in Nat
    BY LimitAssumption DEF Owed, CarriedOK, TypeOK, Row
  <2> QED
    BY <2>1 DEF Limited
<1> QED
  BY <1>1, <1>2, <1>3, PTL DEF Spec
===============================================================================
