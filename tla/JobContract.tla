----------------------------- MODULE JobContract ------------------------------
(*****************************************************************************)
(* What the durable job queue promises its clients and its workers, with no  *)
(* clock, owner name or table in sight.  A key is accepted once.  A process  *)
(* joins a job that others are on only when one of them has overstayed, and  *)
(* every taking counts as a try.  Only a process on the job ends it, and it  *)
(* ends as failed only after the allowed tries.  It does not promise that a  *)
(* process whose job was taken over can no longer end it.                    *)
(*****************************************************************************)
EXTENDS Integers

CONSTANTS Requests, Workers, MaxAttempts,
          KeyOf           \* KeyOf[r]: the idempotency key of the request

VARIABLES status,         \* absent, open, succeeded or failed, by job
          claimants,      \* the processes on each job
          tries,          \* how often each job was taken
          overstayed      \* the jobs some process stayed on too long

vars == <<status, claimants, tries, overstayed>>

Init ==
    /\ status = [r \in Requests |-> "absent"]
    /\ claimants = [r \in Requests |-> {}]
    /\ tries = [r \in Requests |-> 0]
    /\ overstayed = {}

Accept(r) ==
    /\ status[r] = "absent"
    /\ \A q \in Requests : status[q] # "absent" => KeyOf[q] # KeyOf[r]
    /\ status' = [status EXCEPT ![r] = "open"]
    /\ UNCHANGED <<claimants, tries, overstayed>>

\* A process takes a job nobody is on, or joins one that was overstayed; if its
\* own clock was late it may have overstayed already.
Take(r, w) ==
    /\ status[r] = "open"
    /\ \A q \in Requests : w \notin claimants[q]
    /\ claimants[r] = {} \/ r \in overstayed
    /\ claimants' = [claimants EXCEPT ![r] = @ \cup {w}]
    /\ tries' = [tries EXCEPT ![r] = @ + 1]
    /\ overstayed' \in {overstayed, overstayed \cup {r}}
    /\ UNCHANGED status

\* Time passes for processes that are on jobs.
Overstay ==
    /\ overstayed \subseteq overstayed'
    /\ overstayed' \subseteq overstayed \cup {r \in Requests : claimants[r] # {}}
    /\ UNCHANGED <<status, claimants, tries>>

\* A process gives the job back or drops it, or dies.
Leave(r, w) ==
    /\ w \in claimants[r]
    /\ claimants' = [claimants EXCEPT ![r] = @ \ {w}]
    /\ UNCHANGED <<status, tries, overstayed>>

End(r, w, outcome) ==
    /\ status[r] = "open" /\ w \in claimants[r]
    /\ outcome = "failed" => tries[r] >= MaxAttempts
    /\ status' = [status EXCEPT ![r] = outcome]
    /\ claimants' = [claimants EXCEPT ![r] = @ \ {w}]
    /\ UNCHANGED <<tries, overstayed>>

Next ==
    \/ \E r \in Requests : Accept(r)
    \/ \E r \in Requests, w \in Workers :
          \/ Take(r, w)
          \/ Leave(r, w)
          \/ \E outcome \in {"succeeded", "failed"} : End(r, w, outcome)
    \/ Overstay

Spec == Init /\ [][Next]_vars
===============================================================================
