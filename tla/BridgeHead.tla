----------------------------- MODULE BridgeHead -----------------------------
(***************************************************************************)
(* The bridge head event loop and its prover workers (api.rs).             *)
(*                                                                         *)
(* A handler runs between two rounds of the select loop and sends on       *)
(* several channels, each send waiting for room.  An action takes a        *)
(* message and makes the handler's changes to the bridge head's own state; *)
(* its sends are left, in order, in `sending`, and SendNext performs them  *)
(* one by one.  The loop selects again once nothing is left to send.       *)
(***************************************************************************)
EXTENDS Channels, FiniteSets, Functions

VARIABLES
  head,         \* current_slot, store_hash, queue_cursor
  next_slot,    \* beacon finality head last reported
  job_id,       \* last job id handed out
  prover_jobs,  \* job id -> window of the jobs not yet reported
  workers,      \* spawned prover tasks still running
  sending       \* sends the current handler has left

bridgeVars == <<head, next_slot, job_id, prover_jobs, workers, sending>>

Worker == [job_id : JobId, window : Window]

ToStage(p)   == [to |-> "stage", message |-> p]
ToAdvance(p) == [to |-> "advance", message |-> p]
ToEvent(e)   == [to |-> "event", message |-> e]

Send ==
  [to : {"stage", "advance"}, message : Position]
    \cup [to : {"event"}, message : Event]

BridgeTypeOK ==
  /\ head \in Position
  /\ next_slot \in Slot
  /\ job_id \in JobId
  /\ DOMAIN prover_jobs \subseteq JobId
  /\ \A j \in DOMAIN prover_jobs : prover_jobs[j] \in Window
  /\ workers \subseteq Worker
  /\ sending \in Seq(Send) /\ Len(sending) <= 2

(* `run` tells the observer where it starts before it enters the loop.     *)
BridgeInit(p, latest_beacon_slot) ==
  /\ head = p
  /\ next_slot = latest_beacon_slot
  /\ job_id = 0
  /\ prover_jobs = << >>
  /\ workers = {}
  /\ sending = <<ToEvent(Started(p))>>

Looping == sending = <<>>

(* on_beacon_finality_change                                               *)
OnBeaconFinalityChange ==
  /\ Looping
  /\ finality_output # <<>>
  /\ sending' = <<ToEvent(FinalityTransitionDetected(Head(finality_output)))>>
  /\ next_slot' = Head(finality_output).current.output.slot
  /\ finality_output' = Tail(finality_output)
  /\ UNCHANGED <<head, job_id, prover_jobs, workers, commands, events,
                 job_results, stage_input, advance_input>>

(* stage_transition_proof: record the job, spawn its worker, tell the      *)
(* detector what it will settle and the observer that it exists.           *)
StageTransitionProof ==
  /\ Looping
  /\ commands # <<>>
  /\ Head(commands).command = "StageTransitionProof"
  /\ LET id == (job_id + 1) % JobIdSpace
         w == Head(commands).window IN
       /\ job_id' = id
       /\ prover_jobs' = [j \in DOMAIN prover_jobs \cup {id} |->
                            IF j = id THEN w ELSE prover_jobs[j]]
       /\ workers' = workers \cup {[job_id |-> id, window |-> w]}
       /\ sending' = <<ToStage(w.output), ToEvent(Notice("JobCreated"))>>
  /\ commands' = Tail(commands)
  /\ UNCHANGED <<head, next_slot, events, job_results, stage_input,
                 advance_input, finality_output>>

(* The Advance arm: tell the detector, then `advance`.                     *)
Advance ==
  /\ Looping
  /\ commands # <<>>
  /\ Head(commands).command = "Advance"
  /\ LET p == Head(commands).position IN
       /\ head' = p
       /\ sending' = <<ToAdvance(p), ToEvent(Notice("HeadAdvanced"))>>
  /\ commands' = Tail(commands)
  /\ UNCHANGED <<next_slot, job_id, prover_jobs, workers, events, job_results,
                 stage_input, advance_input, finality_output>>

WithoutJob(id) == Restrict(prover_jobs, DOMAIN prover_jobs \ {id})

(* A result names the job whose entry the handlers look up and unwrap.     *)
HandleProverSuccess ==
  /\ Looping
  /\ job_results # <<>>
  /\ LET r == Head(job_results) IN
       /\ r.proof # Nil
       /\ r.job_id \in DOMAIN prover_jobs
       /\ prover_jobs' = WithoutJob(r.job_id)
       /\ sending' = <<ToEvent(Notice("JobSucceeded")), ToEvent(ProofMessage(r.proof))>>
  /\ job_results' = Tail(job_results)
  /\ UNCHANGED <<head, next_slot, job_id, workers, commands, events,
                 stage_input, advance_input, finality_output>>

(* n_job_in_buffer: the jobs left once this one is removed.                *)
JobsBeforeRemoval(id) == Cardinality(DOMAIN prover_jobs)
JobsLeft(id) == Cardinality(DOMAIN prover_jobs \ {id})

HandleProverFailure ==
  /\ Looping
  /\ job_results # <<>>
  /\ LET r == Head(job_results) IN
       /\ r.proof = Nil
       /\ r.job_id \in DOMAIN prover_jobs
       /\ prover_jobs' = WithoutJob(r.job_id)
       /\ sending' = <<ToEvent(JobFailed(JobsLeft(r.job_id)))>>
  /\ job_results' = Tail(job_results)
  /\ UNCHANGED <<head, next_slot, job_id, workers, commands, events,
                 stage_input, advance_input, finality_output>>

(* The next send of the running handler, once its channel has room.        *)
SendNext ==
  /\ sending # <<>>
  /\ LET m == Head(sending).message IN
       \/ /\ Head(sending).to = "stage"
          /\ Len(stage_input) < DetectorCapacity
          /\ stage_input' = Append(stage_input, m)
          /\ UNCHANGED <<advance_input, events>>
       \/ /\ Head(sending).to = "advance"
          /\ Len(advance_input) < DetectorCapacity
          /\ advance_input' = Append(advance_input, m)
          /\ UNCHANGED <<stage_input, events>>
       \/ /\ Head(sending).to = "event"
          /\ Len(events) < EventCapacity
          /\ events' = Append(events, m)
          /\ UNCHANGED <<stage_input, advance_input>>
  /\ sending' = Tail(sending)
  /\ UNCHANGED <<head, next_slot, job_id, prover_jobs, workers, commands,
                 job_results, finality_output>>

(* A prover worker ends, with a proof of its window or with an error.      *)
WorkerAnswers(w, proof) ==
  /\ Len(job_results) < JobCapacity
  /\ job_results' = Append(job_results, [job_id |-> w.job_id, proof |-> proof])
  /\ workers' = workers \ {w}
  /\ UNCHANGED <<head, next_slot, job_id, prover_jobs, sending, commands, events,
                 stage_input, advance_input, finality_output>>

WorkerProves == \E w \in workers : WorkerAnswers(w, w.window)

WorkerFailsAndGoesOn ==
  \E w \in workers :
    /\ Len(job_results) < JobCapacity
    /\ job_results' = Append(job_results, [job_id |-> w.job_id, proof |-> Nil])
    /\ UNCHANGED <<bridgeVars, commands, events, stage_input, advance_input,
                   finality_output>>

WorkerFails == \E w \in workers : WorkerAnswers(w, Nil)

(* The task of a worker panics in the prover's client, whose construction  *)
(* returns no error: nothing is sent and the job stays in prover_jobs.     *)
WorkerPanics ==
  \E w \in workers :
    /\ workers' = workers \ {w}
    /\ UNCHANGED <<head, next_slot, job_id, prover_jobs, sending, commands, events,
                   job_results, stage_input, advance_input, finality_output>>

BridgeStep ==
  \/ OnBeaconFinalityChange \/ StageTransitionProof \/ Advance
  \/ HandleProverSuccess \/ HandleProverFailure
  \/ SendNext \/ WorkerProves \/ WorkerFails \/ WorkerPanics

=============================================================================
