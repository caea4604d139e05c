------------------------------ MODULE Detector ------------------------------
(***************************************************************************)
(* The finality change detector and its validation actor                   *)
(* (finality_change_detector.rs).                                          *)
(*                                                                         *)
(* The detector keeps at most one validation job with the actor.  A job    *)
(* asks for proof inputs from the bridge's position (the current window)   *)
(* and, while a proof is staged, from the position that proof will settle  *)
(* (the next window).  Updates that arrive while a job is outstanding mark *)
(* its answer stale.  One arm of the select loop is one action; the send   *)
(* of an accepted answer, which may wait for the bridge head, is its own.  *)
(***************************************************************************)
EXTENDS Channels

VARIABLES
  finalised,             \* newest checkpoint the beacon chain has finalised
  position,              \* slot, store_hash, queue_cursor
  latest_slot,           \* last accepted output slot
  in_flight,             \* a validation job is outstanding
  stale,                 \* an update arrived while it was
  next_expected_output,  \* what the staged proof will settle, or None
  emitting,              \* an accepted answer being sent to the bridge head
  validation_jobs,       \* detector -> validation actor
  validation_results     \* validation actor -> detector

detectorVars == <<position, latest_slot, in_flight, stale,
                  next_expected_output, emitting, validation_jobs,
                  validation_results>>

ValidationJob == [position : Position, next : Position \cup {Nil}]

DetectorTypeOK ==
  /\ finalised \in Slot
  /\ position \in Position
  /\ latest_slot \in Slot
  /\ in_flight \in BOOLEAN
  /\ stale \in BOOLEAN
  /\ next_expected_output \in Position \cup {Nil}
  /\ emitting \in Seq(Dual) /\ Len(emitting) <= 1
  /\ validation_jobs \in Seq(ValidationJob) /\ Len(validation_jobs) <= 1
  /\ validation_results \in Seq(Dual \cup {Nil})
  /\ Len(validation_results) <= 1

(* The binary passes None for pipeline_inflight_next_expected_output.      *)
DetectorInit(p) ==
  /\ position = p
  /\ latest_slot = p.slot
  /\ in_flight = FALSE
  /\ stale = FALSE
  /\ next_expected_output = Nil
  /\ emitting = <<>>
  /\ validation_jobs = <<>>
  /\ validation_results = <<>>

(* The select loop takes nothing while the send of an answer waits.        *)
AlwaysSelecting == TRUE
Selecting == emitting = <<>>

(* The job the detector would start now.                                   *)
CurrentJob ==
  [position |-> position,
   next |-> IF next_expected_output # Nil /\ next_expected_output.slot # position.slot
            THEN next_expected_output ELSE Nil]

(* An update makes the answer of a job that is outstanding stale.          *)
StaleNeverSet == stale
AfterUpdate == stale \/ in_flight

(* try_start_validation_job                                                *)
TryStartValidationJob ==
  /\ Len(validation_jobs) < 1
  /\ validation_jobs' = Append(validation_jobs, CurrentJob)
  /\ in_flight' = TRUE

(* The bridge head staged a job.                                           *)
OnStaged ==
  /\ Selecting
  /\ stage_input # <<>>
  /\ next_expected_output' = Head(stage_input)
  /\ stale' = AfterUpdate
  /\ stage_input' = Tail(stage_input)
  /\ UNCHANGED <<position, latest_slot, in_flight, emitting, validation_jobs,
                 validation_results, advance_input, finality_output, finalised>>

(* The bridge head advanced: windows now start at p, and any output beyond *)
(* it is progress again.                                                   *)
OnAdvancedKeepingLatest ==
  /\ Selecting
  /\ advance_input # <<>>
  /\ position' = Head(advance_input)
  /\ next_expected_output' =
       IF next_expected_output # Nil /\ next_expected_output.slot = Head(advance_input).slot
       THEN Nil ELSE next_expected_output
  /\ stale' = AfterUpdate
  /\ advance_input' = Tail(advance_input)
  /\ UNCHANGED <<latest_slot, in_flight, emitting, validation_jobs,
                 validation_results, stage_input, finality_output, finalised>>

OnAdvanced ==
  /\ Selecting
  /\ advance_input # <<>>
  /\ LET p == Head(advance_input) IN
       /\ position' = p
       /\ latest_slot' = p.slot
       /\ next_expected_output' =
            IF next_expected_output # Nil /\ next_expected_output.slot = p.slot
            THEN Nil ELSE next_expected_output
  /\ stale' = AfterUpdate
  /\ advance_input' = Tail(advance_input)
  /\ UNCHANGED <<in_flight, emitting, validation_jobs, validation_results,
                 stage_input, finality_output, finalised>>

(* The actor answered with an error: drop it, keeping the stale flag.      *)
OnValidationFailed ==
  /\ Selecting
  /\ validation_results # <<>>
  /\ Head(validation_results) = Nil
  /\ in_flight' = FALSE
  /\ validation_results' = Tail(validation_results)
  /\ UNCHANGED <<position, latest_slot, stale, next_expected_output, emitting,
                 validation_jobs, stage_input, advance_input, finality_output,
                 finalised>>

(* The answer is stale: drop it and start another job at once.             *)
OnStaleResult ==
  /\ Selecting
  /\ validation_results # <<>>
  /\ Head(validation_results) # Nil
  /\ stale
  /\ stale' = FALSE
  /\ validation_results' = Tail(validation_results)
  /\ TryStartValidationJob
  /\ UNCHANGED <<position, latest_slot, next_expected_output, emitting,
                 stage_input, advance_input, finality_output, finalised>>

(* The current window of an answer shows progress from our position.       *)
Accepts(d) ==
  /\ d.current.input.slot = position.slot
  /\ d.current.output.slot > latest_slot

(* A next window at or behind latest_slot withholds the whole answer.      *)
Emits(d) == Accepts(d) /\ (d.next = Nil \/ d.next.output.slot > latest_slot)

OnFreshResult ==
  /\ Selecting
  /\ validation_results # <<>>
  /\ Head(validation_results) # Nil
  /\ ~stale
  /\ LET d == Head(validation_results) IN
       /\ emitting' = IF Emits(d) THEN <<d>> ELSE <<>>
       /\ latest_slot' = IF Accepts(d) THEN d.current.output.slot ELSE latest_slot
  /\ in_flight' = FALSE
  /\ validation_results' = Tail(validation_results)
  /\ UNCHANGED <<position, stale, next_expected_output, validation_jobs,
                 stage_input, advance_input, finality_output, finalised>>

(* The send of an accepted answer completes.                               *)
EmitFinality ==
  /\ emitting # <<>>
  /\ Len(finality_output) < DetectorCapacity
  /\ finality_output' = Append(finality_output, Head(emitting))
  /\ emitting' = <<>>
  /\ UNCHANGED <<position, latest_slot, in_flight, stale, next_expected_output,
                 validation_jobs, validation_results, stage_input,
                 advance_input, finalised>>

(* The polling tick; with a job outstanding it does nothing.               *)
AlwaysDue == TRUE
Due == ~in_flight

OnTick ==
  /\ Selecting
  /\ Due
  /\ TryStartValidationJob
  /\ UNCHANGED <<position, latest_slot, stale, next_expected_output, emitting,
                 validation_results, stage_input, advance_input,
                 finality_output, finalised>>

(* The validation actor takes its job, prepares the windows through the    *)
(* providers and answers.  Both windows must succeed in dual mode.         *)
Validate ==
  /\ validation_jobs # <<>>
  /\ Len(validation_results) < 1
  /\ LET job == Head(validation_jobs) IN
       \E current \in Prepared(job.position, finalised),
          next \in IF job.next = Nil THEN {Nil} ELSE Prepared(job.next, finalised) :
         validation_results' =
           Append(validation_results, [current |-> current, next |-> next])
  /\ validation_jobs' = Tail(validation_jobs)
  /\ UNCHANGED <<position, latest_slot, in_flight, stale, next_expected_output,
                 emitting, stage_input, advance_input, finality_output, finalised>>

ValidateFails ==
  /\ validation_jobs # <<>>
  /\ Len(validation_results) < 1
  /\ validation_results' = Append(validation_results, Nil)
  /\ validation_jobs' = Tail(validation_jobs)
  /\ UNCHANGED <<position, latest_slot, in_flight, stale, next_expected_output,
                 emitting, stage_input, advance_input, finality_output, finalised>>

(* The beacon chain finalises another checkpoint.                          *)
Finalise ==
  /\ finalised < MaxSlot
  /\ finalised' = finalised + 1
  /\ UNCHANGED <<detectorVars, stage_input, advance_input, finality_output>>

DetectorStep ==
  \/ OnStaged \/ OnAdvanced
  \/ OnValidationFailed \/ OnStaleResult \/ OnFreshResult
  \/ EmitFinality \/ OnTick
  \/ Validate \/ ValidateFails

=============================================================================
