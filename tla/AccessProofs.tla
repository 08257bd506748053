----------------------------- MODULE AccessProofs -----------------------------
(*****************************************************************************)
(* Theorems about Access, for every value of its constants: any number of    *)
(* tokens, delegations, requests and jobs.                                   *)
(*****************************************************************************)
EXTENDS Access, TLAPS

\* What a request in flight goes by, from one of its transactions to the next.
RequestOK(r) ==
    /\ r \in Request
    /\ r.pc = "arrived" =>
          /\ r.token \in Tokens /\ tokens[r.token] # None
          /\ r.at \in Instant /\ r.at <= now
          /\ r.late => LET row == tokens[r.token] IN
                       row.revoked \/ (row.expires_at # NoTime /\ row.expires_at <= r.at)
    /\ r.pc # "arrived" =>
          /\ r.principal \in Grant /\ Permitted(r.principal, r.handler)
          /\ ~r.late
          /\ r.principal # Local =>
                \E t \in Tokens : tokens[t] # None /\ tokens[t].grant = r.principal
    /\ r.pc \in {"waiting", "answered"} =>
          /\ r.job \in Job /\ jobs[r.job] # None /\ r.job[1] = r.principal.namespace
          /\ r.state \in JobState
          /\ r.state # "queued" => jobs[r.job].state = r.state
    /\ r.pc = "authorized" =>
          /\ r.handler \in {"archive", "forget", "purge"}
          /\ r.job \in Job /\ jobs[r.job] # None /\ r.job[1] = r.principal.namespace
          /\ r.owner = jobs[r.job].owner /\ r.owner \in r.principal.owners

InFlight == \A c \in Clients : requests[c] # None => RequestOK(requests[c])

\* A memory has the owner that was captured with its job, and its operation is
\* recorded.
MemoriesFormed ==
    \A j \in Job : memories[j] # None =>
        jobs[j] # None /\ memories[j].owner = jobs[j].owner /\ jobs[j].applied

\* A version is derived from versions of its own namespace.
EdgesLocal == \A e \in derived : e[1][1] = e[2][1]

AccessInv == TypeOK /\ InFlight /\ MemoriesFormed /\ EdgesLocal

\* Rows stay, tokens keep their grants, and jobs what was captured; a revoked
\* token stays revoked, and a job that has ended stays as it has ended.
Grows ==
    /\ \A t \in Tokens : tokens[t] # None =>
          /\ tokens'[t] # None
          /\ tokens'[t].grant = tokens[t].grant
          /\ tokens'[t].expires_at = tokens[t].expires_at
          /\ tokens[t].revoked => tokens'[t].revoked
    /\ \A j \in Job : jobs[j] # None =>
          /\ jobs'[j] # None
          /\ jobs'[j].owner = jobs[j].owner /\ jobs'[j].evidence = jobs[j].evidence
          /\ jobs[j].state # "queued" => jobs'[j].state = jobs[j].state
          /\ jobs[j].applied => jobs'[j].applied
    /\ operator \subseteq operator'
    /\ now <= now'
-------------------------------------------------------------------------------
(* Rows.                                                                     *)

\* A stored token, job or memory is a row.
LEMMA StoredRow ==
  ASSUME TypeOK
  PROVE  /\ \A t \in Tokens : tokens[t] # None => tokens[t] \in TokenRow
         /\ \A j \in Job : jobs[j] # None => jobs[j] \in JobRow
         /\ \A j \in Job : memories[j] # None => memories[j] \in MemoryRow
  BY DEF TypeOK

\* The instants that a new token may expire at are instants.
LEMMA ExpiryInstants == ASSUME TypeOK PROVE Expiry \subseteq Instant \cup {NoTime}
  BY BoundAssumption DEF TypeOK, Expiry, Instant, NoTime

\* A new token, a revoked token, and the rows of a job that is captured,
\* applied or ended are rows; and a row is not None.
LEMMA NewRows ==
  /\ \A grant \in Issuable, expires \in Instant \cup {NoTime} :
        NewToken(grant, expires) \in TokenRow
  /\ \A row \in TokenRow : [row EXCEPT !.revoked = TRUE] \in TokenRow
  /\ \A owner \in Owners, evidence \in EvidenceClass :
        [owner |-> owner, evidence |-> evidence, state |-> "queued", applied |-> FALSE]
           \in JobRow
  /\ \A row \in JobRow : [row EXCEPT !.applied = TRUE] \in JobRow
  /\ \A row \in JobRow, state \in JobState : [row EXCEPT !.state = state] \in JobRow
  /\ \A owner \in Owners, state \in MemoryState :
        [owner |-> owner, state |-> state] \in MemoryRow
  /\ \A row \in MemoryRow, state \in MemoryState : [row EXCEPT !.state = state] \in MemoryRow
  /\ None \notin TokenRow \cup JobRow \cup MemoryRow \cup Request
<1>1. \A grant \in Issuable, expires \in Instant \cup {NoTime} :
         NewToken(grant, expires) \in TokenRow
  BY GrantAssumption DEF NewToken, TokenRow
<1>2. \A row \in TokenRow : [row EXCEPT !.revoked = TRUE] \in TokenRow
  BY DEF TokenRow
<1>3. /\ \A owner \in Owners, evidence \in EvidenceClass :
            [owner |-> owner, evidence |-> evidence, state |-> "queued",
             applied |-> FALSE] \in JobRow
      /\ \A row \in JobRow : [row EXCEPT !.applied = TRUE] \in JobRow
      /\ \A row \in JobRow, state \in JobState : [row EXCEPT !.state = state] \in JobRow
  BY DEF JobRow, JobState
<1>4. /\ \A owner \in Owners, state \in MemoryState :
            [owner |-> owner, state |-> state] \in MemoryRow
      /\ \A row \in MemoryRow, state \in MemoryState :
            [row EXCEPT !.state = state] \in MemoryRow
  BY DEF MemoryRow
<1> QED
  BY <1>1, <1>2, <1>3, <1>4, NoneAssumption

\* Every transaction leaves rows of the declared types behind.
LEMMA TablesStep ==
  ASSUME TypeOK, InFlight, [Next]_vars
  PROVE  /\ tokens' \in [Tokens -> TokenRow \cup {None}]
         /\ jobs' \in [Job -> JobRow \cup {None}]
         /\ memories' \in [Job -> MemoryRow \cup {None}]
         /\ derived' \subseteq Job \X Job
         /\ operator' \subseteq Tokens
         /\ operations' \in 0..MaxOperations
         /\ now' \in Instant
         /\ requests' = [d \in Clients |-> requests'[d]]
<1> USE StoredRow, NewRows
<1>1. ASSUME NEW t \in Tokens, Operate(t)
      PROVE  TypeOK'
  <2>1. ASSUME NEW grant \in Issuable, NEW expires \in Expiry,
               OperatorCreatesToken(t, grant, expires)
        PROVE  TypeOK'
    BY <2>1, ExpiryInstants, BoundAssumption DEF OperatorCreatesToken, Count, TypeOK
  <2>2. CASE RevokeAPIToken(t)
    <3>1. [tokens[t] EXCEPT !.revoked = TRUE] \in TokenRow
      BY <2>2 DEF RevokeAPIToken
    <3> QED
      BY <2>2, <3>1, BoundAssumption DEF RevokeAPIToken, Count, TypeOK
  <2> QED
    BY <1>1, <2>1, <2>2 DEF Operate
<1>2. ASSUME NEW c \in Clients, Connect(c)
      PROVE  /\ UNCHANGED <<tokens, jobs, memories, derived, operator, now>>
             /\ operations' \in 0..MaxOperations
             /\ requests' = [d \in Clients |-> requests'[d]]
  BY <1>2, BoundAssumption
     DEF Connect, Arrive, ArriveLocally, Authenticate, Refuse, Leave, Accept, Count, TypeOK
<1>3. ASSUME NEW c \in Clients, Handle(c)
      PROVE  /\ tokens' \in [Tokens -> TokenRow \cup {None}]
             /\ jobs' \in [Job -> JobRow \cup {None}]
             /\ memories' \in [Job -> MemoryRow \cup {None}]
             /\ derived' \subseteq derived
             /\ UNCHANGED <<operator, operations, now>>
             /\ requests' = [d \in Clients |-> requests'[d]]
  <2>1. ASSUME NEW key \in Keys, NEW owner \in Owners, NEW evidence \in EvidenceClass,
               Remember(c, key, owner, evidence)
        PROVE  /\ jobs' \in [Job -> JobRow \cup {None}]
               /\ UNCHANGED <<tokens, memories, derived, operator, operations, now>>
               /\ requests' = [d \in Clients |-> requests'[d]]
    <3>1. [owner |-> owner, evidence |-> evidence, state |-> "queued", applied |-> FALSE]
             \in JobRow
      OBVIOUS
    <3>2. jobs' \in [Job -> JobRow \cup {None}]
      BY <2>1, <3>1 DEF Remember, TypeOK
    <3>3. PICK r : requests' = [requests EXCEPT ![c] = r]
      BY <2>1 DEF Remember
    <3>4. requests' = [d \in Clients |-> requests'[d]]
      BY <3>3 DEF TypeOK
    <3> QED
      BY <2>1, <3>2, <3>4 DEF Remember
  <2>2. CASE WaitForJob(c) \/ \E j \in Job : ReadJob(c, j) \/ GetMemory(c, j)
    BY <2>2 DEF WaitForJob, Answered, ReadJob, GetMemory, TypeOK
  <2>3. CASE ChangeState(c) \/ Purge(c)
    <3> DEFINE j == requests[c].job
    <3>1. j \in Job
      BY <2>3 DEF ChangeState, Purge, At, InFlight, RequestOK
    <3>2. ASSUME ChangeState(c)
          PROVE  [memories[j] EXCEPT !.state = Resulting(requests[c].handler)] \in MemoryRow
      BY <3>1, <3>2 DEF ChangeState, Resulting, MemoryState
    <3>3. CASE ChangeState(c)
      BY <3>1, <3>2, <3>3 DEF ChangeState, TypeOK
    <3>4. CASE Purge(c)
      BY <3>4 DEF Purge, TypeOK
    <3> QED
      BY <2>3, <3>3, <3>4
  <2>4. ASSUME NEW t \in Tokens, NEW grant \in Issuable, NEW expires \in Expiry,
               CreateToken(c, t, grant, expires)
        PROVE  /\ tokens' \in [Tokens -> TokenRow \cup {None}]
               /\ UNCHANGED <<jobs, memories, derived, operator, operations, now>>
               /\ requests' = [d \in Clients |-> requests'[d]]
    BY <2>4, ExpiryInstants DEF CreateToken, TypeOK
  <2> QED
    BY <1>3, <2>1, <2>2, <2>3, <2>4 DEF Handle, TypeOK
<1>4. ASSUME NEW j \in Job, FormMemory(j) \/ EndJob(j)
      PROVE  TypeOK'
  <2>1. jobs[j] \in JobRow /\ jobs[j].owner \in Owners
    BY <1>4 DEF FormMemory, EndJob, JobRow
  <2>2. /\ [jobs[j] EXCEPT !.applied = TRUE] \in JobRow
        /\ \A state \in JobState : [jobs[j] EXCEPT !.state = state] \in JobRow
        /\ [owner |-> jobs[j].owner, state |-> "active"] \in MemoryRow
    BY <2>1 DEF MemoryState
  <2>3. CASE FormMemory(j)
    BY <2>2, <2>3 DEF FormMemory, TypeOK
  <2>4. CASE EndJob(j)
    BY <2>2, <2>4 DEF EndJob, TypeOK, JobState
  <2> QED
    BY <1>4, <2>3, <2>4
<1>5. ASSUME NEW j \in Job, NEW parent \in Job, Evolve(j, parent)
      PROVE  TypeOK'
  BY <1>5 DEF Evolve, TypeOK
<1>6. CASE Tick \/ UNCHANGED vars
  BY <1>6, BoundAssumption DEF Tick, vars, TypeOK, Instant
<1> QED
  BY <1>1, <1>2, <1>3, <1>4, <1>5, <1>6 DEF Next, TypeOK

\* No transaction takes back what Grows names.
LEMMA Grown ==
  ASSUME TypeOK, InFlight, [Next]_vars PROVE Grows
<1> USE StoredRow, NewRows
<1>1. ASSUME NEW t \in Tokens, Operate(t)
      PROVE  Grows
  BY <1>1 DEF Grows, Operate, OperatorCreatesToken, MayCreate, RevokeAPIToken, NewToken,
              TokenRow, TypeOK, Instant
<1>2. ASSUME NEW c \in Clients, Connect(c)
      PROVE  Grows
  BY <1>2 DEF Grows, Connect, Arrive, ArriveLocally, Authenticate, Refuse, Leave,
              TypeOK, Instant
<1>3. ASSUME NEW c \in Clients, Handle(c)
      PROVE  Grows
  <2>1. ASSUME NEW key \in Keys, NEW owner \in Owners, NEW evidence \in EvidenceClass,
               Remember(c, key, owner, evidence)
        PROVE  Grows
    BY <2>1 DEF Grows, Remember, TypeOK, Instant
  <2>2. ASSUME NEW t \in Tokens, NEW grant \in Issuable, NEW expires \in Expiry,
               CreateToken(c, t, grant, expires)
        PROVE  Grows
    BY <2>2 DEF Grows, CreateToken, MayCreate, TypeOK, Instant
  <2>3. CASE \/ WaitForJob(c) \/ ChangeState(c) \/ Purge(c)
             \/ \E j \in Job : ReadJob(c, j) \/ GetMemory(c, j)
    <3>1. UNCHANGED <<tokens, jobs, operator, now>>
      BY <2>3 DEF WaitForJob, ReadJob, GetMemory, ChangeState, Purge
    <3> QED
      BY <3>1 DEF Grows, TypeOK, Instant
  <2> QED
    BY <1>3, <2>1, <2>2, <2>3 DEF Handle
<1>4. ASSUME NEW j \in Job, FormMemory(j) \/ EndJob(j)
      PROVE  Grows
  <2>1. jobs[j] \in JobRow /\ jobs[j].state = "queued"
    BY <1>4 DEF FormMemory, EndJob
  <2>2. /\ jobs' \in [Job -> JobRow \cup {None}]
        /\ \A i \in Job \ {j} : jobs'[i] = jobs[i]
        /\ UNCHANGED <<tokens, operator, now>>
    BY <1>4, TablesStep DEF FormMemory, EndJob, TypeOK
  <2>3. CASE FormMemory(j)
    <3>1. jobs'[j] = [jobs[j] EXCEPT !.applied = TRUE]
      BY <2>3 DEF FormMemory, TypeOK
    <3>2. jobs'[j] \in JobRow
      BY <2>1, <3>1
    <3>3. /\ jobs'[j].owner = jobs[j].owner /\ jobs'[j].evidence = jobs[j].evidence
          /\ jobs[j].applied => jobs'[j].applied
      BY <2>1, <3>1 DEF JobRow
    <3> QED
      BY <2>1, <2>2, <3>2, <3>3, NoneAssumption DEF Grows, TypeOK, Instant
  <2>4. CASE EndJob(j)
    <3>1. PICK state \in JobState : jobs'[j] = [jobs[j] EXCEPT !.state = state]
      BY <2>4 DEF EndJob, TypeOK, JobState
    <3>2. jobs'[j] \in JobRow
      BY <2>1, <3>1
    <3>3. /\ jobs'[j].owner = jobs[j].owner /\ jobs'[j].evidence = jobs[j].evidence
          /\ jobs[j].applied => jobs'[j].applied
      BY <2>1, <3>1 DEF JobRow
    <3> QED
      BY <2>1, <2>2, <3>2, <3>3, NoneAssumption DEF Grows, TypeOK, Instant
  <2> QED
    BY <1>4, <2>3, <2>4
<1>5. CASE \/ Tick \/ UNCHANGED vars
          \/ \E j \in Job, parent \in Job : Evolve(j, parent)
  BY <1>5, BoundAssumption DEF Grows, Tick, Evolve, vars, TypeOK, Instant
<1> QED
  BY <1>1, <1>2, <1>3, <1>4, <1>5 DEF Next
-------------------------------------------------------------------------------
(* Requests.                                                                 *)

\* What a request goes by is not taken away from it by what others do.
LEMMA RequestKept ==
  ASSUME TypeOK, Grows, now' \in Instant, NEW r, RequestOK(r)
  PROVE  RequestOK(r)'
<1> USE DEF RequestOK, Grows
<1>1. ASSUME r.pc = "arrived"
      PROVE  RequestOK(r)'
  BY <1>1, StoredRow DEF TypeOK, Instant, TokenRow, NoTime
<1>2. CASE r.pc \in {"waiting", "answered"}
  BY <1>2
<1>3. CASE r.pc = "authorized"
  BY <1>3
<1>4. CASE r.pc = "handling"
  BY <1>4
<1> QED
  BY <1>1, <1>2, <1>3, <1>4 DEF Request

\* What arrives is a request, in order.
LEMMA RequestArrives ==
  ASSUME TypeOK, InFlight, NEW c \in Clients,
         \/ \E handler \in Handler, t \in Tokens : Arrive(c, handler, t)
         \/ \E handler \in Handler : ArriveLocally(c, handler)
  PROVE  RequestOK(requests[c])'
<1> USE StoredRow
<1>1. ASSUME NEW handler \in Handler, NEW t \in Tokens, Arrive(c, handler, t)
      PROVE  RequestOK(requests[c])'
  <2> DEFINE r == Arrived(handler, t, None, "arrived")
  <2>1. requests'[c] = r
    BY <1>1 DEF Arrive, Accept, TypeOK
  <2>2. t # None /\ now # NoTime
    BY NoneAssumption DEF TypeOK, Instant, NoTime
  <2>3. r \in Request
    BY <2>2 DEF Arrived, Request, TypeOK
  <2>4. /\ r.pc = "arrived" /\ r.token = t /\ r.at = now
        /\ r.late => Ended(tokens[t])
    BY <2>2 DEF Arrived
  <2>5. UNCHANGED <<tokens, jobs, now>> /\ tokens[t] \in TokenRow
    BY <1>1 DEF Arrive
  <2> QED
    BY <1>1, <2>1, <2>3, <2>4, <2>5 DEF RequestOK, Ended, TypeOK, TokenRow, Instant, Arrive, NoTime
<1>2. ASSUME NEW handler \in Handler, ArriveLocally(c, handler)
      PROVE  RequestOK(requests[c])'
  <2> DEFINE r == Arrived(handler, None, Local, "handling")
  <2>1. requests'[c] = r
    BY <1>2 DEF ArriveLocally, Accept, TypeOK
  <2>2. r \in Request
    BY GrantAssumption DEF Arrived, Request, TypeOK
  <2>3. r.pc = "handling" /\ r.principal = Local /\ r.handler = handler /\ ~r.late
    BY DEF Arrived
  <2> QED
    BY <1>2, <2>1, <2>2, <2>3, GrantAssumption DEF ArriveLocally, RequestOK
<1> QED
  BY <1>1, <1>2

\* AuthenticateToken reads the row as it is: what was revoked or had expired on
\* arrival is not let in.
LEMMA RequestAuthenticated ==
  ASSUME TypeOK, InFlight, NEW c \in Clients, Authenticate(c)
  PROVE  requests'[c] = None \/ RequestOK(requests[c])'
<1> DEFINE old == requests[c]
           row == tokens[old.token]
           new == [old EXCEPT !.pc = "handling", !.principal = row.grant,
                              !.token = None, !.at = NoTime]
<1>1. old.pc = "arrived" /\ RequestOK(old)
  BY DEF Authenticate, At, InFlight
<1>2. row \in TokenRow /\ old \in Request /\ old.at \in Instant /\ old.token \in Tokens
  BY <1>1, StoredRow DEF RequestOK
<1>3. CASE ~(Live(row, old.at) /\ Permitted(row.grant, old.handler))
  BY <1>3 DEF Authenticate, TypeOK
<1>4. CASE Live(row, old.at) /\ Permitted(row.grant, old.handler)
  <2>1. requests'[c] = new
    BY <1>4 DEF Authenticate, TypeOK
  <2>2. new \in Request
    BY <1>2 DEF Request, TokenRow
  <2>3. new.pc = "handling" /\ new.principal = row.grant /\ new.handler = old.handler
        /\ new.late = old.late
    BY <1>2 DEF Request
  <2>4. ~old.late
    BY <1>1, <1>2, <1>4 DEF RequestOK, Live, TokenRow, Instant, NoTime
  <2>5. UNCHANGED tokens /\ row.grant \in Grant
    BY <1>2 DEF Authenticate, TokenRow
  <2> QED
    BY <1>1, <1>2, <1>4, <2>1, <2>2, <2>3, <2>4, <2>5 DEF RequestOK
<1> QED
  BY <1>3, <1>4

\* The namespace of a job is that of the request that captured it, and only the
\* job that is answered has ended.
LEMMA RequestCaptures ==
  ASSUME TypeOK, InFlight, NEW c \in Clients, NEW key \in Keys, NEW owner \in Owners,
         NEW evidence \in EvidenceClass, Remember(c, key, owner, evidence)
  PROVE  RequestOK(requests[c])'
<1> DEFINE old == requests[c]
           j == <<old.principal.namespace, key>>
           row == [owner |-> owner, evidence |-> evidence, state |-> "queued",
                   applied |-> FALSE]
           new == [old EXCEPT !.pc = "waiting", !.job = j, !.state = jobs'[j].state]
<1>1. old # None /\ old.pc = "handling" /\ RequestOK(old)
  BY DEF Remember, Handles, At, InFlight
<1>2. old \in Request /\ old.principal \in Grant
  BY <1>1 DEF RequestOK
<1>3. j \in Job /\ j[1] = old.principal.namespace
  BY <1>2 DEF Grant, Job
<1>4. row \in JobRow
  BY DEF JobRow, JobState
<1>5. jobs'[j] \in JobRow /\ UNCHANGED tokens
  BY <1>3, <1>4 DEF Remember, TypeOK
<1>6. requests'[c] = new
  BY DEF Remember, TypeOK
<1>7. new \in Request
  BY <1>2, <1>3, <1>5 DEF Request, JobRow
<1>8. /\ new.pc = "waiting" /\ new.principal = old.principal /\ new.handler = old.handler
      /\ new.late = old.late /\ new.job = j /\ new.state = jobs'[j].state
  BY <1>2 DEF Request
<1> QED
  BY <1>1, <1>2, <1>3, <1>5, <1>6, <1>7, <1>8, NoneAssumption DEF RequestOK, JobRow

\* waitForJob and the job route answer with a stored job of the namespace.
LEMMA RequestAnswered ==
  ASSUME TypeOK, InFlight, NEW c \in Clients,
         WaitForJob(c) \/ \E j \in Job : ReadJob(c, j)
  PROVE  RequestOK(requests[c])'
<1> DEFINE old == requests[c]
<1>1. old # None /\ RequestOK(old) /\ old \in Request
  BY DEF WaitForJob, ReadJob, Handles, At, InFlight, RequestOK
<1>2. UNCHANGED <<tokens, jobs, now>>
  BY DEF WaitForJob, ReadJob
<1>3. ASSUME NEW j \in Job, jobs[j] # None, j[1] = old.principal.namespace,
             NEW state \in JobState, state # "queued" => jobs[j].state = state,
             old.pc # "arrived",
             requests'[c] = [old EXCEPT !.pc = "answered", !.job = j, !.state = state]
      PROVE  RequestOK(requests[c])'
  <2> DEFINE new == [old EXCEPT !.pc = "answered", !.job = j, !.state = state]
  <2>1. /\ new.pc = "answered" /\ new.principal = old.principal
        /\ new.handler = old.handler /\ new.late = old.late /\ new.job = j
        /\ new.state = state
    BY <1>1 DEF Request
  <2>2. new \in Request
    BY <1>1 DEF Request
  <2> QED
    BY <1>1, <1>2, <1>3, <2>1, <2>2 DEF RequestOK
<1>4. ASSUME NEW j \in Job, ReadJob(c, j)
      PROVE  RequestOK(requests[c])'
  <2>1. jobs[j].state \in JobState
    BY <1>4, StoredRow DEF ReadJob, JobRow
  <2>2. requests'[c] = [old EXCEPT !.pc = "answered", !.job = j, !.state = jobs[j].state]
    BY <1>4 DEF ReadJob, TypeOK
  <2>3. jobs[j] # None /\ j[1] = old.principal.namespace /\ old.pc # "arrived"
    BY <1>4 DEF ReadJob, Handles, At
  <2> QED
    BY <1>3, <2>1, <2>2, <2>3
<1>5. CASE WaitForJob(c)
  <2>1. /\ old.pc = "waiting" /\ old.job \in Job /\ jobs[old.job] # None
        /\ old.job[1] = old.principal.namespace /\ old.state \in JobState
        /\ old.state # "queued" => jobs[old.job].state = old.state
    BY <1>1, <1>5 DEF WaitForJob, At, RequestOK
  <2>2. PICK state \in {jobs[old.job].state, old.state} :
           /\ requests'[c] = [old EXCEPT !.pc = "answered", !.state = state]
           /\ state \in JobState
    BY <1>5, <2>1 DEF WaitForJob, Answered, TypeOK, JobState
  <2>3. [old EXCEPT !.pc = "answered", !.state = state]
           = [old EXCEPT !.pc = "answered", !.job = old.job, !.state = state]
    BY <1>1 DEF Request
  <2>4. requests'[c] = [old EXCEPT !.pc = "answered", !.job = old.job, !.state = state]
    BY <2>2, <2>3
  <2>5. state \in JobState /\ (state # "queued" => jobs[old.job].state = state)
    BY <2>1, <2>2
  <2>6. old.pc # "arrived"
    BY <2>1
  <2> QED
    BY <1>3, <2>1, <2>4, <2>5, <2>6
<1> QED
  BY <1>4, <1>5

\* changeState and purge know the captured owner of the memory.
LEMMA RequestAuthorized ==
  ASSUME TypeOK, InFlight, MemoriesFormed, NEW c \in Clients, NEW j \in Job,
         GetMemory(c, j)
  PROVE  RequestOK(requests[c])'
<1> DEFINE old == requests[c]
           new == [old EXCEPT !.pc = "authorized", !.job = j, !.owner = memories[j].owner]
<1>1. old # None /\ RequestOK(old) /\ old \in Request /\ old.pc = "handling"
  BY DEF GetMemory, Handles, At, InFlight, RequestOK
<1>2. requests'[c] = new /\ UNCHANGED <<tokens, jobs, now>>
  BY DEF GetMemory, TypeOK
<1>3. /\ memories[j] # None /\ memories[j].owner = jobs[j].owner /\ jobs[j] # None
      /\ memories[j].owner \in Owners
  BY StoredRow DEF GetMemory, MemoriesFormed, MemoryRow
<1>4. new \in Request
  BY <1>1, <1>3 DEF Request
<1>5. /\ new.pc = "authorized" /\ new.principal = old.principal
      /\ new.handler = old.handler /\ new.late = old.late /\ new.job = j
      /\ new.owner = memories[j].owner
  BY <1>1 DEF Request
<1> QED
  BY <1>1, <1>2, <1>3, <1>4, <1>5 DEF GetMemory, Handles, Owns, RequestOK
-------------------------------------------------------------------------------
(* The invariant.                                                            *)

\* A memory is formed with the owner of its job, and keeps it.
LEMMA MemoriesStep ==
  ASSUME TypeOK, InFlight, MemoriesFormed, [Next]_vars PROVE MemoriesFormed'
<1>1. Grows
  BY Grown
<1>2. ASSUME NEW j \in Job, FormMemory(j)
      PROVE  MemoriesFormed'
  <2>1. /\ memories'[j] = [owner |-> jobs[j].owner, state |-> "active"]
        /\ \A i \in Job \ {j} : memories'[i] = memories[i]
        /\ jobs[j] # None
    BY <1>2 DEF FormMemory, TypeOK
  <2>2. jobs'[j].applied
    <3>1. jobs'[j] = [jobs[j] EXCEPT !.applied = TRUE]
      BY <1>2 DEF FormMemory, TypeOK
    <3> QED
      BY <2>1, <3>1, StoredRow DEF JobRow
  <2> QED
    BY <1>1, <2>1, <2>2 DEF MemoriesFormed, Grows
<1>3. ASSUME NEW c \in Clients, ChangeState(c)
      PROVE  MemoriesFormed'
  <2> DEFINE j == requests[c].job
  <2>1. j \in Job /\ memories[j] # None /\ memories[j] \in MemoryRow
    BY <1>3, StoredRow DEF ChangeState, At, InFlight, RequestOK
  <2>2. /\ \A i \in Job \ {j} : memories'[i] = memories[i]
        /\ memories'[j] = [memories[j] EXCEPT !.state = Resulting(requests[c].handler)]
    BY <1>3, <2>1 DEF ChangeState, TypeOK
  <2>3. memories'[j].owner = memories[j].owner
    BY <2>1, <2>2 DEF MemoryRow
  <2>4. ASSUME NEW i \in Job, memories'[i] # None
        PROVE  memories[i] # None /\ memories'[i].owner = memories[i].owner
    BY <2>1, <2>2, <2>3, <2>4
  <2> QED
    BY <1>1, <2>4 DEF MemoriesFormed, Grows
<1>4. CASE \A i \in Job : memories'[i] \in {memories[i], None}
  BY <1>1, <1>4 DEF MemoriesFormed, Grows
<1>5. ASSUME NEW c \in Clients, Purge(c)
      PROVE  \A i \in Job : memories'[i] \in {memories[i], None}
  BY <1>5 DEF Purge
<1> QED
  BY <1>2, <1>3, <1>4, <1>5
     DEF Next, Operate, OperatorCreatesToken, RevokeAPIToken, Connect, Arrive, ArriveLocally,
         Authenticate, Refuse, Leave, Handle, Remember, WaitForJob, ReadJob, GetMemory,
         CreateToken, EndJob, Evolve, Tick, vars

\* validateDependencies loads the sources from the proposal's namespace, and a purge
\* only takes edges away.
LEMMA EdgesStep ==
  ASSUME TypeOK, InFlight, EdgesLocal, [Next]_vars PROVE EdgesLocal'
<1>1. ASSUME NEW j \in Job, NEW parent \in Job, Evolve(j, parent)
      PROVE  EdgesLocal'
  BY <1>1 DEF Evolve, EdgesLocal
<1>2. CASE derived' \subseteq derived
  BY <1>2 DEF EdgesLocal
<1>3. ASSUME NEW c \in Clients, Purge(c)
      PROVE  derived' \subseteq derived
  BY <1>3 DEF Purge
<1> QED
  BY <1>1, <1>2, <1>3
     DEF Next, Operate, OperatorCreatesToken, RevokeAPIToken, Connect, Arrive, ArriveLocally,
         Authenticate, Refuse, Leave, Handle, Remember, WaitForJob, ReadJob, GetMemory,
         ChangeState, CreateToken, FormMemory, EndJob, Tick, vars

\* What is reached along the edges, however far, is of the same namespace.
LEMMA DerivedLocal ==
  ASSUME EdgesLocal, derived \subseteq Job \X Job, NEW i \in Job, NEW j \in DerivedFrom(i)
  PROVE  j \in Job /\ j[1] = i[1]
<1> DEFINE T == {x \in Job : x[1] = i[1]}
<1>1. ClosedUnder(T)
  BY DEF ClosedUnder, EdgesLocal
<1> QED
  BY <1>1 DEF DerivedFrom

\* One transaction touches one request.
LEMMA RequestsStep ==
  ASSUME TypeOK, InFlight, MemoriesFormed, [Next]_vars
  PROVE  \A c \in Clients :
            requests'[c] \in {requests[c], None} \/ RequestOK(requests[c])'
<1>1. ASSUME NEW c \in Clients, Connect(c) \/ Handle(c)
      PROVE  /\ \A d \in Clients \ {c} : requests'[d] = requests[d]
             /\ requests'[c] \in {requests[c], None} \/ RequestOK(requests[c])'
  <2>1. ASSUME \/ \E handler \in Handler, t \in Tokens : Arrive(c, handler, t)
               \/ \E handler \in Handler : ArriveLocally(c, handler)
        PROVE  /\ \A d \in Clients \ {c} : requests'[d] = requests[d]
               /\ RequestOK(requests[c])'
    BY <2>1, RequestArrives DEF Arrive, ArriveLocally, Accept, TypeOK
  <2>2. CASE Authenticate(c)
    BY <2>2, RequestAuthenticated DEF Authenticate, TypeOK
  <2>3. CASE Refuse(c) \/ Leave(c) \/ ChangeState(c) \/ Purge(c)
    BY <2>3 DEF Refuse, Leave, ChangeState, Purge, TypeOK
  <2>4. ASSUME NEW key \in Keys, NEW owner \in Owners, NEW evidence \in EvidenceClass,
               Remember(c, key, owner, evidence)
        PROVE  /\ \A d \in Clients \ {c} : requests'[d] = requests[d]
               /\ RequestOK(requests[c])'
    BY <2>4, RequestCaptures DEF Remember, TypeOK
  <2>5. ASSUME WaitForJob(c) \/ \E j \in Job : ReadJob(c, j)
        PROVE  /\ \A d \in Clients \ {c} : requests'[d] = requests[d]
               /\ RequestOK(requests[c])'
    BY <2>5, RequestAnswered DEF WaitForJob, Answered, ReadJob, TypeOK
  <2>6. ASSUME NEW j \in Job, GetMemory(c, j)
        PROVE  /\ \A d \in Clients \ {c} : requests'[d] = requests[d]
               /\ RequestOK(requests[c])'
    BY <2>6, RequestAuthorized DEF GetMemory, TypeOK
  <2>7. ASSUME NEW t \in Tokens, NEW grant \in Issuable, NEW expires \in Expiry,
               CreateToken(c, t, grant, expires)
        PROVE  /\ \A d \in Clients \ {c} : requests'[d] = requests[d]
               /\ requests'[c] = None
    BY <2>7 DEF CreateToken, Handles, TypeOK
  <2> QED
    BY <1>1, <2>1, <2>2, <2>3, <2>4, <2>5, <2>6, <2>7 DEF Connect, Handle
<1>2. CASE UNCHANGED requests
  BY <1>2
<1> QED
  BY <1>1, <1>2
     DEF Next, Operate, OperatorCreatesToken, RevokeAPIToken, FormMemory, EndJob, Evolve,
         Tick, vars

\* The invariant the theorems rest on: rows and requests have their types, and
\* what a request was told stays true until its last transaction.
LEMMA AccessAlways == Spec => []AccessInv
<1>1. Init => AccessInv
  BY BoundAssumption DEF Init, AccessInv, TypeOK, InFlight, MemoriesFormed, EdgesLocal,
                          Instant
<1>2. AccessInv /\ [Next]_vars => AccessInv'
  <2> SUFFICES ASSUME TypeOK, InFlight, MemoriesFormed, EdgesLocal, [Next]_vars
               PROVE  TypeOK' /\ InFlight' /\ MemoriesFormed' /\ EdgesLocal'
    BY DEF AccessInv
  <2>1. Grows /\ now' \in Instant
    BY Grown, TablesStep
  <2>2. ASSUME NEW c \in Clients, requests'[c] # None
        PROVE  RequestOK(requests[c])'
    <3>1. CASE requests'[c] = requests[c]
      <4>1. PICK r : r = requests[c]
        OBVIOUS
      <4>2. RequestOK(r)
        BY <2>2, <3>1, <4>1 DEF InFlight
      <4>3. RequestOK(r)'
        BY <2>1, <4>2, RequestKept
      <4> QED
        BY <3>1, <4>1, <4>3 DEF RequestOK
    <3> QED
      BY <2>2, <3>1, RequestsStep
  <2>3. InFlight'
    BY <2>2 DEF InFlight
  <2>4. requests' \in [Clients -> Request \cup {None}]
    BY <2>2, TablesStep DEF TypeOK, RequestOK
  <2> QED
    BY <2>3, <2>4, TablesStep, MemoriesStep, EdgesStep DEF TypeOK
<1> QED
  BY <1>1, <1>2, PTL DEF Spec
-------------------------------------------------------------------------------
(* What follows for a request.                                               *)

\* Every transaction and every step of a request leaves rows of the declared
\* types behind.
THEOREM TypeCorrect == Spec => []TypeOK
<1>1. AccessInv => TypeOK
  BY DEF AccessInv
<1> QED
  BY <1>1, AccessAlways, PTL

\* AuthenticateToken lets in no request whose token was revoked or had expired
\* when the request arrived, whatever commits before it reads the row.
THEOREM RevocationIsEffective == Spec => []RevocationEffective
<1>1. AccessInv => RevocationEffective
  BY DEF AccessInv, InFlight, RequestOK, RevocationEffective
<1> QED
  BY <1>1, AccessAlways, PTL

\* waitForJob and the job route answer with a job of the principal's namespace,
\* and report an end only as it was.
THEOREM AnswersAreTruthful == Spec => []AnswersTruthful
<1>1. AccessInv => AnswersTruthful
  BY DEF AccessInv, InFlight, RequestOK, AnswersTruthful, At
<1> QED
  BY <1>1, AccessAlways, PTL

\* ChangeState changes the memory that the request was authorized for, with the
\* owner it was authorized for: a purge in between, and a job applied again, cannot
\* put another owner's memory in its place.  PurgeMemory removes that memory and what
\* is derived from it, whoever owns it, over any number of derivations; nothing else,
\* and nothing of another namespace.
THEOREM ChangesAreAuthorized == Spec => ChangesAuthorized
<1> DEFINE Authorized(j) ==
       /\ memories[j] # None /\ memories'[j] # None /\ memories'[j] # memories[j] =>
             \E c \in Clients : Entitled(c, j, "memory:write")
       /\ memories[j] # None /\ memories'[j] = None =>
             \E c \in Clients, i \in Job :
                /\ j \in DerivedFrom(i) /\ i[1] = j[1] /\ memories[i] # None
                /\ Entitled(c, i, "memory:purge")
       /\ memories[j] = None /\ memories'[j] # None => ~jobs[j].applied
<1>1. AccessInv /\ [Next]_vars => \A j \in Job : Authorized(j)
  <2> SUFFICES ASSUME TypeOK, InFlight, MemoriesFormed, EdgesLocal, [Next]_vars,
                      NEW j \in Job
               PROVE  Authorized(j)
    BY DEF AccessInv
  <2>1. ASSUME NEW i \in Job, FormMemory(i)
        PROVE  Authorized(j)
    <3>1. ~jobs[i].applied /\ \A k \in Job \ {i} : memories'[k] = memories[k]
      BY <2>1 DEF FormMemory, TypeOK
    <3>2. memories[i] = None
      BY <3>1 DEF MemoriesFormed
    <3>3. memories'[i] # None
      <4>1. memories'[i] = [owner |-> jobs[i].owner, state |-> "active"]
        BY <2>1 DEF FormMemory, TypeOK
      <4>2. jobs[i].owner \in Owners
        BY <2>1, StoredRow DEF FormMemory, JobRow
      <4> QED
        BY <4>1, <4>2, NewRows DEF MemoryState
    <3> QED
      BY <3>1, <3>2, <3>3
  <2>2. ASSUME NEW c \in Clients, ChangeState(c) \/ Purge(c)
        PROVE  Authorized(j)
    <3> DEFINE r == requests[c]
    <3>1. /\ r # None /\ r.pc = "authorized" /\ RequestOK(r) /\ requests'[c] = None
          /\ memories[r.job] # None
      BY <2>2 DEF ChangeState, Purge, At, InFlight, TypeOK
    <3>2. /\ r.job \in Job /\ r.principal.namespace = r.job[1]
          /\ memories[r.job].owner \in r.principal.owners
          /\ HasScope(r.principal, RequiredScope(r.handler))
      BY <3>1 DEF RequestOK, MemoriesFormed, Permitted
    <3>3. CASE ChangeState(c)
      <4>1. Entitled(c, r.job, "memory:write")
        BY <3>1, <3>2, <3>3 DEF Entitled, ChangeState, RequiredScope
      <4>2. memories'[r.job] # None
        <5>1. memories[r.job] \in MemoryRow
          BY <3>1, <3>2, StoredRow
        <5>2. memories'[r.job] = [memories[r.job] EXCEPT !.state = Resulting(r.handler)]
          BY <3>2, <3>3 DEF ChangeState, TypeOK
        <5>3. Resulting(r.handler) \in MemoryState
          BY DEF Resulting, MemoryState
        <5> QED
          BY <5>1, <5>2, <5>3, NewRows
      <4>3. \A i \in Job \ {r.job} : memories'[i] = memories[i]
        BY <3>3 DEF ChangeState, TypeOK
      <4> QED
        BY <3>1, <4>1, <4>2, <4>3
    <3>4. CASE Purge(c)
      <4>1. Entitled(c, r.job, "memory:purge")
        BY <3>1, <3>2, <3>4 DEF Entitled, Purge, RequiredScope
      <4>2. \/ memories'[j] = memories[j]
            \/ memories'[j] = None /\ j \in DerivedFrom(r.job)
        BY <3>4 DEF Purge
      <4>3. j \in DerivedFrom(r.job) => r.job[1] = j[1]
        BY <3>2, DerivedLocal DEF TypeOK
      <4> QED
        BY <3>1, <3>2, <4>1, <4>2, <4>3
    <3> QED
      BY <2>2, <3>3, <3>4
  <2>3. CASE UNCHANGED memories
    BY <2>3
  <2> QED
    BY <2>1, <2>2, <2>3
       DEF Next, Operate, OperatorCreatesToken, RevokeAPIToken, Connect, Arrive,
           ArriveLocally, Authenticate, Refuse, Leave, Handle, Remember, WaitForJob, ReadJob,
           GetMemory, CreateToken, EndJob, Evolve, Tick, vars
<1>2. AccessInv /\ [Next]_vars => [\A j \in Job : Authorized(j)]_vars
  BY <1>1
<1> QED
  BY <1>2, AccessAlways, PTL DEF Spec, ChangesAuthorized
-------------------------------------------------------------------------------
(* What follows for the operator's grants.                                   *)

\* The tokens of the operator are stored.
OperatorStored == \A t \in operator : tokens[t] # None

DelegationInv == DelegationBounded /\ OperatorStored

\* A grant of the operator is never taken back from the record.
LEMMA TracesKept ==
  ASSUME TypeOK, OperatorStored, Grows, NEW namespace, NEW owners, NEW scope,
         Traces(namespace, owners, scope)
  PROVE  Traces(namespace, owners, scope)'
<1>1. PICK grant \in OperatorGrants :
         /\ grant.namespace = namespace /\ owners \subseteq grant.owners
         /\ HasScope(grant, scope)
  BY DEF Traces
<1>2. grant \in OperatorGrants'
  BY <1>1 DEF OperatorGrants, OperatorStored, Grows, TypeOK
<1> QED
  BY <1>1, <1>2 DEF Traces

\* What a principal may do for its owners, the operator has granted; and a
\* principal of a delegated token has an administrator behind it.
LEMMA PrincipalTraced ==
  ASSUME TypeOK, InFlight, DelegationInv, NEW c \in Clients, requests[c] # None,
         requests[c].pc # "arrived", NEW owners, owners \subseteq requests[c].principal.owners,
         NEW scope \in Scope, HasScope(requests[c].principal, scope)
  PROVE  Traces(requests[c].principal.namespace, owners, scope)
<1> DEFINE principal == requests[c].principal
<1>1. CASE principal = Local
  BY <1>1 DEF Traces, OperatorGrants
<1>2. ASSUME NEW t \in Tokens, tokens[t] # None, tokens[t].grant = principal
      PROVE  Traces(principal.namespace, owners, scope)
  <2>1. CASE t \in operator
    BY <1>2, <2>1 DEF Traces, OperatorGrants
  <2>2. CASE t \notin operator
    <3>1. PICK grant \in OperatorGrants :
             /\ grant.namespace = principal.namespace /\ principal.owners \subseteq grant.owners
             /\ HasScope(grant, "admin")
      BY <1>2, <2>2 DEF DelegationInv, DelegationBounded, Traces
    <3>2. HasScope(grant, scope)
      BY <3>1 DEF HasScope
    <3> QED
      BY <3>1, <3>2 DEF Traces
  <2> QED
    BY <2>1, <2>2
<1> QED
  BY <1>1, <1>2 DEF InFlight, RequestOK

LEMMA DelegationAlways == Spec => []DelegationInv
<1>1. Init => DelegationInv
  BY DEF Init, DelegationInv, DelegationBounded, OperatorStored
<1>2. AccessInv /\ DelegationInv /\ [Next]_vars => DelegationInv'
  <2> SUFFICES ASSUME TypeOK, InFlight, MemoriesFormed, DelegationInv, [Next]_vars
               PROVE  DelegationInv'
    BY DEF AccessInv
  <2>1. Grows
    BY Grown
  <2>2. ASSUME NEW t \in Tokens, tokens[t] # None, t \notin operator
        PROVE  Traces(tokens[t].grant.namespace, tokens[t].grant.owners, "admin")'
    <3>1. Traces(tokens[t].grant.namespace, tokens[t].grant.owners, "admin")
      BY <2>2 DEF DelegationInv, DelegationBounded
    <3>2. PICK grant : grant = tokens[t].grant
      OBVIOUS
    <3>3. Traces(grant.namespace, grant.owners, "admin")'
      BY <2>1, <3>1, <3>2, TracesKept DEF DelegationInv
    <3> QED
      BY <2>1, <2>2, <3>2, <3>3 DEF Grows, Traces, OperatorGrants
  <2>3. ASSUME NEW t \in Tokens, NEW grant \in Issuable, NEW expires \in Expiry,
               OperatorCreatesToken(t, grant, expires)
        PROVE  DelegationInv'
    <3>1. /\ operator' = operator \cup {t} /\ tokens'[t] \in TokenRow
          /\ \A u \in Tokens \ {t} : tokens'[u] = tokens[u]
      BY <2>3, ExpiryInstants, NewRows DEF OperatorCreatesToken, TypeOK
    <3> QED
      BY <2>1, <2>2, <3>1, NoneAssumption
         DEF DelegationInv, DelegationBounded, OperatorStored, Grows, TypeOK
  <2>4. ASSUME NEW c \in Clients, NEW t \in Tokens, NEW grant \in Issuable,
               NEW expires \in Expiry, CreateToken(c, t, grant, expires)
        PROVE  DelegationInv'
    <3> DEFINE principal == requests[c].principal
    <3>1. /\ requests[c] # None /\ requests[c].pc # "arrived" /\ HasScope(principal, "admin")
      BY <2>4 DEF CreateToken, Handles, At, InFlight, RequestOK, Permitted, RequiredScope
    <3>2. Traces(grant.namespace, grant.owners, "admin")
      BY <2>4, <3>1, PrincipalTraced DEF CreateToken, MayDelegate, Scope
    <3>3. Traces(grant.namespace, grant.owners, "admin")'
      BY <2>1, <3>2, TracesKept DEF DelegationInv
    <3>4. /\ operator' = operator /\ tokens'[t].grant = grant
          /\ \A u \in Tokens \ {t} : tokens'[u] = tokens[u]
          /\ tokens[t] = None
      BY <2>4 DEF CreateToken, MayCreate, NewToken, TypeOK
    <3>5. Traces(tokens[t].grant.namespace, tokens[t].grant.owners, "admin")'
      BY <3>3, <3>4 DEF Traces, OperatorGrants
    <3> QED
      BY <2>1, <2>2, <3>4, <3>5
         DEF DelegationInv, DelegationBounded, OperatorStored, Grows, TypeOK
  <2>5. CASE /\ operator' = operator
             /\ \A u \in Tokens : tokens[u] = None => tokens'[u] = None
    BY <2>1, <2>2, <2>5 DEF DelegationInv, DelegationBounded, OperatorStored, Grows, TypeOK
  <2> QED
    BY <2>3, <2>4, <2>5
       DEF Next, Operate, RevokeAPIToken, Connect, Arrive, ArriveLocally, Authenticate,
           Refuse, Leave, Handle, Remember, WaitForJob, ReadJob, GetMemory, ChangeState,
           Purge, FormMemory, EndJob, Evolve, Tick, vars, TypeOK
<1> QED
  BY <1>1, <1>2, AccessAlways, PTL DEF Spec

\* However long the chain of createToken calls behind a token, its namespace and
\* its owners are within one grant of the operator that made an administrator.
THEOREM DelegationIsBounded == Spec => []DelegationBounded
<1>1. DelegationInv => DelegationBounded
  BY DEF DelegationInv
<1> QED
  BY <1>1, DelegationAlways, PTL

\* prepareRemember and agentEvent capture for the principal's owners only, so
\* that what the worker applies later, whatever became of the token, goes back
\* to a grant of the operator.
THEOREM CapturesAreTraced == Spec => []CaptureTraced
<1> DEFINE JobTraced(j, row) ==
       /\ Traces(j[1], {row.owner}, "memory:write")
       /\ row.evidence = "policy" => Traces(j[1], {row.owner}, "admin")
    JobsTraced == \A j \in Job : jobs[j] # None => JobTraced(j, jobs[j])
<1>1. Init => JobsTraced
  BY DEF Init
<1>2. AccessInv /\ DelegationInv /\ JobsTraced /\ [Next]_vars => JobsTraced'
  <2> SUFFICES ASSUME TypeOK, InFlight, MemoriesFormed, DelegationInv, JobsTraced,
                      [Next]_vars
               PROVE  JobsTraced'
    BY DEF AccessInv
  <2>1. Grows
    BY Grown
  <2>2. ASSUME NEW j \in Job, jobs[j] # None
        PROVE  JobTraced(j, jobs[j])'
    <3>1. JobTraced(j, jobs[j])
      BY <2>2
    <3>2. PICK owner : owner = jobs[j].owner
      OBVIOUS
    <3>3. /\ Traces(j[1], {owner}, "memory:write")'
          /\ jobs[j].evidence = "policy" => Traces(j[1], {owner}, "admin")'
      BY <2>1, <3>1, <3>2, TracesKept DEF DelegationInv
    <3>4. jobs'[j].owner = owner /\ jobs'[j].evidence = jobs[j].evidence
      BY <2>1, <2>2, <3>2 DEF Grows
    <3> QED
      BY <3>3, <3>4 DEF Traces, OperatorGrants
  <2>3. ASSUME NEW c \in Clients, NEW key \in Keys, NEW owner \in Owners,
               NEW evidence \in EvidenceClass, Remember(c, key, owner, evidence)
        PROVE  JobsTraced'
    <3> DEFINE principal == requests[c].principal
    <3>1. /\ requests[c] # None /\ requests[c].pc # "arrived"
          /\ HasScope(principal, "memory:write") /\ principal \in Grant
      BY <2>3 DEF Remember, Handles, At, InFlight, RequestOK, Permitted, RequiredScope
    <3>2. PICK i \in Job : i = <<principal.namespace, key>>
      BY <3>1 DEF Grant, Job
    <3>3. i[1] = principal.namespace
      BY <3>2
    <3>4. Traces(i[1], {owner}, "memory:write")
      BY <2>3, <3>1, <3>3, PrincipalTraced DEF Remember, MayCapture, Scope
    <3>5. evidence = "policy" => Traces(i[1], {owner}, "admin")
      BY <2>3, <3>1, <3>3, PrincipalTraced DEF Remember, MayCapture, Scope
    <3>6. Traces(i[1], {owner}, "memory:write")'
      BY <2>1, <3>4, TracesKept DEF DelegationInv
    <3>7. evidence = "policy" => Traces(i[1], {owner}, "admin")'
      BY <2>1, <3>5, TracesKept DEF DelegationInv
    <3>8. /\ \A k \in Job \ {i} : jobs'[k] = jobs[k]
          /\ jobs[i] = None => jobs'[i].owner = owner /\ jobs'[i].evidence = evidence
      BY <2>3, <3>2 DEF Remember, TypeOK
    <3>9. jobs[i] = None => JobTraced(i, jobs[i])'
      BY <3>6, <3>7, <3>8 DEF Traces, OperatorGrants
    <3> QED
      BY <2>2, <3>8, <3>9
  <2>4. CASE \A j \in Job : jobs[j] = None => jobs'[j] = None
    BY <2>2, <2>4
  <2>5. ASSUME NEW j \in Job, FormMemory(j) \/ EndJob(j)
        PROVE  \A i \in Job : jobs[i] = None => jobs'[i] = None
    BY <2>5 DEF FormMemory, EndJob, TypeOK
  <2> QED
    BY <2>3, <2>4, <2>5
       DEF Next, Operate, OperatorCreatesToken, RevokeAPIToken, Connect, Arrive,
           ArriveLocally, Authenticate, Refuse, Leave, Handle, WaitForJob, ReadJob,
           GetMemory, ChangeState, Purge, CreateToken, Evolve, Tick, vars
<1>3. AccessInv /\ JobsTraced => CaptureTraced
  BY DEF AccessInv, MemoriesFormed, CaptureTraced
<1> QED
  BY <1>1, <1>2, <1>3, AccessAlways, DelegationAlways, PTL DEF Spec
===============================================================================
