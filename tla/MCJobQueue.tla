------------------------------ MODULE MCJobQueue ------------------------------
(* Values for model-checking JobQueue: r2 repeats the key of r1 with another *)
(* observation, r3 repeats the event and observation of r1 under a new key.  *)
EXTENDS JobQueue, TLC

CONSTANTS r1, r2, r3, k1, k2, o1, o2, e1, w1, w2, formation_worker

MCCall == r1 :> [key |-> k1, observation |-> o1, event |-> e1]
       @@ r2 :> [key |-> k1, observation |-> o2, event |-> NoEvent]
       @@ r3 :> [key |-> k2, observation |-> o1, event |-> e1]

\* Every process claims under the same name (FormationWorker.Run).
MCOwnerOf == [w \in Workers |-> formation_worker]

\* Processes are interchangeable.
WorkerSymmetry == Permutations(Workers)
===============================================================================
