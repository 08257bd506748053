-------------------------------- MODULE Access --------------------------------
(*****************************************************************************)
(* Who may do what: API tokens, the HTTP and MCP handlers, and the policy in *)
(* front of the lifecycle repository.                                        *)
(*                                                                           *)
(* A request is authenticated by one read of its token's row.  From then on  *)
(* the handler works with the principal it was given: the row is not read    *)
(* again, and a handler that changes a memory authorizes on a read of its    *)
(* own before the transaction.  Everything between two transactions of one   *)
(* request may be interleaved with other requests, revocations and the clock. *)
(*                                                                           *)
(* The queue and the tables behind the handlers are reduced to what the      *)
(* principals differ in: the job of a namespace and idempotency key, with    *)
(* the scope and the evidence class it captured, and the memory formed of    *)
(* it.  JobQueue, FormationWorker and Lifecycle model them in detail.        *)
(*****************************************************************************)
EXTENDS Integers, FiniteSets

CONSTANTS Tokens,       \* token ids
          Clients,      \* requests that may be in flight at one time
          Namespaces, Owners,
          Keys,         \* idempotency keys
          Issuable,     \* grants that the operator or an administrator may ask for
          Local,        \* the grant of the LoopbackPrincipal
          AgentEvents,  \* whether AgentEvent ingestion is enabled
          None,
          MaxOperations, \* bound: requests, and tokens created or revoked on the command line
          MaxTime       \* bound: last instant of the clock

Scope == {"memory:read", "memory:write", "memory:purge", "admin"}
Grant == [namespace : Namespaces, owners : SUBSET Owners, scopes : SUBSET Scope]

ASSUME GrantAssumption == Issuable \subseteq Grant /\ Local \in Grant
ASSUME FlagAssumption == AgentEvents \in BOOLEAN
ASSUME BoundAssumption == MaxOperations \in Nat /\ MaxTime \in Nat

Instant == 0..MaxTime
NoTime == -1            \* SQL NULL
Job == Namespaces \X Keys
JobState == {"queued", "succeeded", "failed"}
EvidenceClass == {"untrusted", "policy"}
MemoryState == {"active", "archived", "forgotten"}

\* last_used_at is written and never read; of revoked_at only NULL matters.
TokenRow == [grant : Grant, expires_at : Instant \cup {NoTime}, revoked : BOOLEAN]
\* applied: whether the operation of the job's proposal is recorded.
JobRow == [owner : Owners, evidence : EvidenceClass, state : JobState, applied : BOOLEAN]
MemoryRow == [owner : Owners, state : MemoryState]

\* The routes; "read" stands for version, recall and export.  What MCP answers
\* without calling a tool needs no scope and touches nothing.
Handler == {"read", "remember", "job", "archive", "forget", "purge", "tokens",
            "agent-events"}

Request == [pc : {"arrived", "handling", "authorized", "waiting", "answered"},
            handler : Handler,
            token : Tokens \cup {None}, at : Instant \cup {NoTime}, \* until it is read
            principal : Grant \cup {None},
            job : Job \cup {None},       \* the job or memory the request is about
            owner : Owners \cup {None},  \* of the memory, as read
            state : JobState \cup {None},\* of the job, as read
            late : BOOLEAN]              \* (history) the token was dead on arrival

ASSUME NoneAssumption ==
    /\ None \notin Tokens \cup Grant \cup Job \cup Owners \cup JobState
    /\ None \notin TokenRow \cup JobRow \cup MemoryRow \cup Request

VARIABLES tokens,       \* table api_tokens
          jobs,         \* durable jobs with their observations
          memories,     \* formed memories
          derived,      \* <<parent, child>>: a version of child derives from one of parent
          requests,     \* the request each client has in flight
          operator,     \* (history) tokens created on the command line
          operations,   \* of them so far
          now

vars == <<tokens, jobs, memories, derived, requests, operator, operations, now>>

TypeOK ==
    /\ tokens \in [Tokens -> TokenRow \cup {None}]
    /\ jobs \in [Job -> JobRow \cup {None}]
    /\ memories \in [Job -> MemoryRow \cup {None}]
    /\ derived \subseteq Job \X Job
    /\ requests \in [Clients -> Request \cup {None}]
    /\ operator \subseteq Tokens
    /\ operations \in 0..MaxOperations
    /\ now \in Instant

Init ==
    /\ tokens = [t \in Tokens |-> None]
    /\ jobs = [j \in Job |-> None] /\ memories = [j \in Job |-> None] /\ derived = {}
    /\ requests = [c \in Clients |-> None]
    /\ operator = {} /\ operations = 0 /\ now = 0

\* admin implies every scope.
HasScope(grant, scope) == "admin" \in grant.scopes \/ scope \in grant.scopes

\* Mutant: a token is good at the instant of its expiry.
MutLive(row, at) == ~row.revoked /\ (row.expires_at = NoTime \/ row.expires_at >= at)

\* AuthenticateToken: the row is not revoked, and expires after the instant.
Live(row, at) ==
    ~row.revoked /\ (row.expires_at = NoTime \/ row.expires_at > at)
-------------------------------------------------------------------------------
(* The operator: the command line, and revocation.                           *)

Count == operations < MaxOperations /\ operations' = operations + 1

NewToken(grant, expires) ==
    [grant |-> grant, expires_at |-> expires, revoked |-> FALSE]

\* TokenSpec.Validate, and the primary key of the table.
MayCreate(t, grant, expires) ==
    /\ tokens[t] = None
    /\ grant.owners # {} /\ grant.scopes # {}
    /\ expires = NoTime \/ expires > now

\* `memxplore token create`: any namespace, owners and scopes.
OperatorCreatesToken(t, grant, expires) ==
    /\ MayCreate(t, grant, expires) /\ Count
    /\ tokens' = [tokens EXCEPT ![t] = NewToken(grant, expires)]
    /\ operator' = operator \cup {t}
    /\ UNCHANGED <<jobs, memories, derived, requests, now>>

RevokeAPIToken(t) ==
    /\ tokens[t] # None /\ ~tokens[t].revoked /\ Count
    /\ tokens' = [tokens EXCEPT ![t].revoked = TRUE]
    /\ UNCHANGED <<jobs, memories, derived, requests, operator, now>>

Tick ==
    /\ now < MaxTime
    /\ now' = now + 1
    /\ UNCHANGED <<tokens, jobs, memories, derived, requests, operator, operations>>
-------------------------------------------------------------------------------
(* Authentication and authorization.                                         *)

\* The scope that the router, or callMCPTool, wants of the principal.
RequiredScope(handler) ==
    CASE handler \in {"read", "job"} -> "memory:read"
      [] handler \in {"remember", "archive", "forget", "agent-events"} -> "memory:write"
      [] handler = "purge" -> "memory:purge"
      [] handler = "tokens" -> "admin"

At(c, pc) == requests[c] # None /\ requests[c].pc = pc
Handles(c, handlers) == At(c, "handling") /\ requests[c].handler \in handlers

Ended(row) == row.revoked \/ (row.expires_at # NoTime /\ now >= row.expires_at)

Arrived(handler, token, principal, pc) ==
    [pc |-> pc, handler |-> handler, token |-> token,
     at |-> IF token = None THEN NoTime ELSE now,
     principal |-> principal, job |-> None, owner |-> None, state |-> None,
     late |-> token # None /\ Ended(tokens[token])]

Accept(c, request) ==
    /\ requests[c] = None
    /\ Count
    /\ requests' = [requests EXCEPT ![c] = request]

Permitted(grant, handler) == HasScope(grant, RequiredScope(handler))

\* With a bearer token, over REST or MCP.
Arrive(c, handler, t) ==
    /\ tokens[t] # None
    /\ Accept(c, Arrived(handler, t, None, "arrived"))
    /\ UNCHANGED <<tokens, jobs, memories, derived, operator, now>>

\* Without one: from a loopback address, or over the pipes of `memxplore mcp`.
ArriveLocally(c, handler) ==
    /\ Permitted(Local, handler)
    /\ Accept(c, Arrived(handler, None, Local, "handling"))
    /\ UNCHANGED <<tokens, jobs, memories, derived, operator, now>>

\* The SELECT of AuthenticateToken, and the check of the scope.  The UPDATE of
\* last_used_at between them reads nothing, and nothing reads what it writes.
Authenticate(c) ==
    /\ At(c, "arrived")
    /\ LET row == tokens[requests[c].token] IN
       requests' = [requests EXCEPT ![c] =
          IF Live(row, @.at) /\ Permitted(row.grant, @.handler)
          THEN [@ EXCEPT !.pc = "handling", !.principal = row.grant, !.token = None,
                         !.at = NoTime]
          ELSE None]
    /\ UNCHANGED <<tokens, jobs, memories, derived, operator, operations, now>>

\* Answered with an error at any step: a body that does not decode, a missing row,
\* a conflict, a failed statement.  Or the connection or the server is gone.
Refuse(c) ==
    /\ requests[c] # None
    /\ requests' = [requests EXCEPT ![c] = None]
    /\ UNCHANGED <<tokens, jobs, memories, derived, operator, operations, now>>
-------------------------------------------------------------------------------
(* Handlers.                                                                 *)

\* Mutant: everybody may bring policy evidence.
MutMayCapture(c, owner, evidence) == owner \in requests[c].principal.owners

\* prepareRemember, and the checks of agentEvent.
MayCapture(c, owner, evidence) ==
    /\ owner \in requests[c].principal.owners
    /\ evidence = "policy" => /\ requests[c].handler = "remember"
                              /\ HasScope(requests[c].principal, "admin")
    /\ requests[c].handler = "agent-events" => AgentEvents

\* One transaction; a known key answers with the job that has it.
Remember(c, key, owner, evidence) ==
    /\ Handles(c, {"remember", "agent-events"})
    /\ MayCapture(c, owner, evidence)
    /\ LET j == <<requests[c].principal.namespace, key>> IN
       /\ jobs' = [jobs EXCEPT ![j] =
             IF @ = None
             THEN [owner |-> owner, evidence |-> evidence, state |-> "queued",
                   applied |-> FALSE]
             ELSE @]
       /\ requests' = [requests EXCEPT ![c] =
             [@ EXCEPT !.pc = "waiting", !.job = j, !.state = jobs'[j].state]]
    /\ UNCHANGED <<tokens, memories, derived, operator, operations, now>>

Answered(c, state) ==
    requests' = [requests EXCEPT ![c] = [@ EXCEPT !.pc = "answered", !.state = state]]

\* waitForJob: the job has ended, or it is answered as it was when it was stored.
WaitForJob(c) ==
    /\ At(c, "waiting")
    /\ LET row == jobs[requests[c].job] IN
       \/ row.state \in {"succeeded", "failed"} /\ Answered(c, row.state)
       \/ Answered(c, requests[c].state)
    /\ UNCHANGED <<tokens, jobs, memories, derived, operator, operations, now>>

\* Mutant: jobs are looked up by id alone.
MutReadJob(c, j) ==
    /\ Handles(c, {"job"})
    /\ jobs[j] # None
    /\ requests' = [requests EXCEPT ![c] =
          [@ EXCEPT !.pc = "answered", !.job = j, !.state = jobs[j].state]]
    /\ UNCHANGED <<tokens, jobs, memories, derived, operator, operations, now>>

ReadJob(c, j) ==
    /\ Handles(c, {"job"})
    /\ jobs[j] # None /\ j[1] = requests[c].principal.namespace
    /\ requests' = [requests EXCEPT ![c] =
          [@ EXCEPT !.pc = "answered", !.job = j, !.state = jobs[j].state]]
    /\ UNCHANGED <<tokens, jobs, memories, derived, operator, operations, now>>

\* The client has its answer; "read" has nothing else to do here.
Leave(c) ==
    /\ At(c, "answered") \/ Handles(c, {"read"})
    /\ requests' = [requests EXCEPT ![c] = None]
    /\ UNCHANGED <<tokens, jobs, memories, derived, operator, operations, now>>

\* Mutant: the owner is not looked at.
MutOwns(c, j) == j[1] = requests[c].principal.namespace

Owns(c, j) ==
    /\ j[1] = requests[c].principal.namespace
    /\ memories[j].owner \in requests[c].principal.owners

\* changeState and purge: GetMemory, in a transaction of its own.
GetMemory(c, j) ==
    /\ Handles(c, {"archive", "forget", "purge"})
    /\ memories[j] # None /\ Owns(c, j)
    /\ requests' = [requests EXCEPT ![c] =
          [@ EXCEPT !.pc = "authorized", !.job = j, !.owner = memories[j].owner]]
    /\ UNCHANGED <<tokens, jobs, memories, derived, operator, operations, now>>

\* OwnerPolicy.Evaluate on a proposal of one of the handlers or of the worker:
\* kind, namespace and owner of the proposal, and whether a model made it.
Evaluate(scope, kind, namespace, owner, model) ==
    /\ namespace = scope.namespace
    /\ kind = "create" => owner = scope.owner
    /\ kind \in {"archive", "forget"} => ~model
    /\ kind \in {"create", "update", "consolidate", "archive", "forget"}

Resulting(handler) == IF handler = "archive" THEN "archived" ELSE "forgotten"

\* LifecycleService.Apply: the scope of the memory as read, checked again in
\* the transaction (scopeAuthorizesMemory).
ChangeState(c) ==
    /\ At(c, "authorized") /\ requests[c].handler \in {"archive", "forget"}
    /\ LET j == requests[c].job
           scope == [namespace |-> j[1], owner |-> requests[c].owner]
       IN /\ Evaluate(scope, requests[c].handler, requests[c].principal.namespace,
                      scope.owner, FALSE)
          /\ memories[j] # None /\ memories[j].owner = scope.owner
          /\ memories' = [memories EXCEPT ![j].state = Resulting(requests[c].handler)]
    /\ requests' = [requests EXCEPT ![c] = None]
    /\ UNCHANGED <<tokens, jobs, derived, operator, operations, now>>

\* purgeTargets: all that is reachable from the memory along the edges.
ClosedUnder(T) == \A e \in derived : e[1] \in T => e[2] \in T
DerivedFrom(j) == {x \in Job : \A T \in SUBSET Job : j \in T /\ ClosedUnder(T) => x \in T}
Children(j) == {x \in Job : <<j, x>> \in derived}

\* PurgeMemory checks the namespace only, and takes what is derived along, whoever
\* owns it.  Which versions an edge joins is left out: what is derived from any
\* version of the target goes, and what is further down only if it is derived from
\* a version that was reached.
Purge(c) ==
    /\ At(c, "authorized") /\ requests[c].handler = "purge"
    /\ LET j == requests[c].job IN
       /\ memories[j] # None
       /\ \E ms \in SUBSET DerivedFrom(j) :
             /\ {j} \cup Children(j) \subseteq ms
             /\ memories' = [x \in Job |-> IF x \in ms THEN None ELSE memories[x]]
             /\ derived' = {e \in derived : e[1] \notin ms /\ e[2] \notin ms}
    /\ requests' = [requests EXCEPT ![c] = None]
    /\ UNCHANGED <<tokens, jobs, operator, operations, now>>

\* Mutant: an administrator names the owners freely.
MutMayDelegate(principal, grant) == grant.namespace = principal.namespace

\* createToken: the namespace is the principal's, the owners are among its own.
MayDelegate(principal, grant) ==
    grant.namespace = principal.namespace /\ grant.owners \subseteq principal.owners

CreateToken(c, t, grant, expires) ==
    /\ Handles(c, {"tokens"})
    /\ MayDelegate(requests[c].principal, grant)
    /\ MayCreate(t, grant, expires)
    /\ tokens' = [tokens EXCEPT ![t] = NewToken(grant, expires)]
    /\ requests' = [requests EXCEPT ![c] = None]
    /\ UNCHANGED <<jobs, memories, derived, operator, operations, now>>
-------------------------------------------------------------------------------
(* The worker applies the captured scope, whatever became of the token.      *)

\* The operation that is recorded outlives the memory.
FormMemory(j) ==
    /\ jobs[j] # None /\ jobs[j].state = "queued" /\ ~jobs[j].applied
    /\ Evaluate([namespace |-> j[1], owner |-> jobs[j].owner], "create", j[1],
                jobs[j].owner, TRUE)
    /\ jobs' = [jobs EXCEPT ![j].applied = TRUE]
    /\ memories' = [memories EXCEPT ![j] = [owner |-> jobs[j].owner, state |-> "active"]]
    /\ UNCHANGED <<tokens, derived, requests, operator, operations, now>>

\* Complete, or the last Fail.
EndJob(j) ==
    /\ jobs[j] # None /\ jobs[j].state = "queued"
    /\ \E state \in {"succeeded", "failed"} :
          /\ state = "succeeded" => jobs[j].applied
          /\ jobs' = [jobs EXCEPT ![j].state = state]
    /\ UNCHANGED <<tokens, memories, derived, requests, operator, operations, now>>

\* An evolution that an in-process caller applies to a memory: its new version is
\* derived from others of the namespace.  Visibility is left out: shared or public
\* memory may flow to any owner (validateDependencies).
Evolve(j, parent) ==
    /\ memories[j] # None /\ memories[j].state = "active"
    /\ memories[parent] # None /\ parent # j /\ parent[1] = j[1]
    /\ derived' = derived \cup {<<parent, j>>}
    /\ UNCHANGED <<tokens, jobs, memories, requests, operator, operations, now>>
-------------------------------------------------------------------------------
Expiry == {NoTime} \cup (now + 1)..MaxTime

Operate(t) ==
    \/ \E grant \in Issuable, expires \in Expiry : OperatorCreatesToken(t, grant, expires)
    \/ RevokeAPIToken(t)

Connect(c) ==
    \/ \E handler \in Handler, t \in Tokens : Arrive(c, handler, t)
    \/ \E handler \in Handler : ArriveLocally(c, handler)
    \/ Authenticate(c) \/ Refuse(c) \/ Leave(c)

Handle(c) ==
    \/ \E key \in Keys, owner \in Owners, evidence \in EvidenceClass :
          Remember(c, key, owner, evidence)
    \/ WaitForJob(c)
    \/ \E j \in Job : ReadJob(c, j) \/ GetMemory(c, j)
    \/ ChangeState(c) \/ Purge(c)
    \/ \E t \in Tokens, grant \in Issuable, expires \in Expiry :
          CreateToken(c, t, grant, expires)

Next ==
    \/ \E t \in Tokens : Operate(t)
    \/ \E c \in Clients : Connect(c) \/ Handle(c)
    \/ \E j \in Job : FormMemory(j) \/ EndJob(j) \/ \E parent \in Job : Evolve(j, parent)
    \/ Tick

Spec == Init /\ [][Next]_vars
-------------------------------------------------------------------------------
(* Properties.                                                               *)

\* What the operator granted: on the command line, or as the local principal.
OperatorGrants == {Local} \cup {tokens[t].grant : t \in operator}

Traces(namespace, owners, scope) ==
    \E grant \in OperatorGrants :
        /\ grant.namespace = namespace /\ owners \subseteq grant.owners
        /\ HasScope(grant, scope)

\* Over chains of delegation of any length, a token stands for no namespace and
\* no owners that the operator has not put under one administrator.
DelegationBounded ==
    \A t \in Tokens : tokens[t] # None /\ t \notin operator =>
        Traces(tokens[t].grant.namespace, tokens[t].grant.owners, "admin")

\* Every captured observation and every memory formed of it goes back to a grant
\* of the operator for its owner and namespace, and policy evidence to one of an
\* administrator, although the job is applied without any principal.
CaptureTraced ==
    /\ \A j \in Job : jobs[j] # None =>
          /\ Traces(j[1], {jobs[j].owner}, "memory:write")
          /\ jobs[j].evidence = "policy" => Traces(j[1], {jobs[j].owner}, "admin")
    /\ \A j \in Job : memories[j] # None =>
          jobs[j] # None /\ memories[j].owner = jobs[j].owner

\* The request of c ends by a change of memory j that its principal may make.
Entitled(c, j, scope) ==
    /\ requests[c] # None /\ requests'[c] = None
    /\ LET principal == requests[c].principal IN
       /\ principal.namespace = j[1]
       /\ memories[j].owner \in principal.owners
       /\ HasScope(principal, scope)

\* Whenever a memory is archived or forgotten, the request that does it has a
\* principal of the memory's namespace, for the owner the memory has at that moment,
\* with the scope of the operation, although all of this was looked at in an earlier
\* transaction.  Whenever a memory is purged, the principal is so entitled to the
\* memory or to one, stored until then, that it is derived from, over any number of
\* derivations: a cascade asks no owner of what it takes along, but never leaves the
\* namespace.  And what was purged is not formed again.
ChangesAuthorized ==
    [][\A j \in Job :
          /\ memories[j] # None /\ memories'[j] # None /\ memories'[j] # memories[j] =>
                \E c \in Clients : Entitled(c, j, "memory:write")
          /\ memories[j] # None /\ memories'[j] = None =>
                \E c \in Clients, i \in Job :
                   /\ j \in DerivedFrom(i) /\ i[1] = j[1] /\ memories[i] # None
                   /\ Entitled(c, i, "memory:purge")
          /\ memories[j] = None /\ memories'[j] # None => ~jobs[j].applied]_vars

\* A token that was revoked, or had expired, when a request arrived does not
\* get it served, however the request interleaves with the statement that
\* revokes; only requests that were there before may still go on.
RevocationEffective ==
    \A c \in Clients : requests[c] # None /\ requests[c].late =>
        requests[c].pc = "arrived"

\* An answer names a stored job of the principal's namespace, and one that
\* reports an end reports the one the job has.
AnswersTruthful ==
    \A c \in Clients : At(c, "answered") =>
        LET r == requests[c] IN
        /\ jobs[r.job] # None /\ r.job[1] = r.principal.namespace
        /\ r.state # "queued" => jobs[r.job].state = r.state
===============================================================================
