-------------------------- MODULE MCFormationWorker ---------------------------
(* Values for model-checking FormationWorker.                                *)
EXTENDS FormationWorker

CONSTANTS j1, w1, w2, plain, other, task

\* The job refers to the working set of its task, which its attempts insert.
MCSameReference == [j \in Jobs |-> task]
===============================================================================
