----------------------------- MODULE MCPipeline -----------------------------
(* Small instances of the bridge head process.                             *)
EXTENDS Pipeline

(* Three requests are queued when checkpoint 1 is finalised.               *)
BurstQueue == [s \in 0 .. MaxSlot |-> IF s = 0 THEN 0 ELSE 3]

(* One request is queued at every checkpoint.                              *)
StepQueue == [s \in 0 .. MaxSlot |-> s]

(* No request is ever queued: cursors stay at 0.                           *)
EmptyQueue == [s \in 0 .. MaxSlot |-> 0]

(* What the steps of a process that is never restarted read: all but the   *)
(* saved files, the number of restarts and next_slot, which is only sent   *)
(* in notices.  States that differ in those alone have the same futures,   *)
(* and no invariant of the run that uses this view mentions them.          *)
Moving ==
  <<channels, finalised, detectorVars, head, job_id, prover_jobs, workers, sending,
    observerVars>>

=============================================================================
