---------------------------- MODULE DetectorEnv ----------------------------
(***************************************************************************)
(* The detector and its validation actor against any bridge head: one that *)
(* stages and advances in any order and takes emissions at any time.  *)
(***************************************************************************)
EXTENDS Detector

(* The bridge head's ends of the three detector channels.                  *)
BridgeStages ==
  /\ Len(stage_input) < DetectorCapacity
  /\ \E p \in SettledPosition : stage_input' = Append(stage_input, p)
  /\ UNCHANGED <<advance_input, finality_output>>

BridgeAdvances ==
  /\ Len(advance_input) < DetectorCapacity
  /\ \E p \in SettledPosition : advance_input' = Append(advance_input, p)
  /\ UNCHANGED <<stage_input, finality_output>>

BridgeTakes ==
  /\ finality_output # <<>>
  /\ finality_output' = Tail(finality_output)
  /\ UNCHANGED <<stage_input, advance_input>>

bystanders == <<commands, events, job_results>>

detectorEnvVars == <<channels, finalised, detectorVars>>

DetectorEnvTypeOK == ChannelsTypeOK /\ DetectorTypeOK

DetectorEnvInit ==
  /\ ChannelsInit
  /\ finalised = 0
  /\ \E p \in SettledPosition : DetectorInit(p)

DetectorEnvNext ==
  \/ (DetectorStep \/ Finalise) /\ UNCHANGED bystanders
  \/ /\ BridgeStages \/ BridgeAdvances \/ BridgeTakes
     /\ UNCHANGED <<bystanders, finalised, detectorVars>>

DetectorEnvSpec == DetectorEnvInit /\ [][DetectorEnvNext]_detectorEnvVars

-----------------------------------------------------------------------------
(* in_flight tells exactly whether the validation actor holds a job or an  *)
(* answer not yet taken: the detector's sends to the actor never wait, and *)
(* no tick starts a second job.                                            *)
OneValidation ==
  Len(validation_jobs) + Len(validation_results) = (IF in_flight THEN 1 ELSE 0)

(* An answer to the job the detector would start now.                      *)
Answers(d, job) ==
  /\ d.current.input = job.position
  /\ d.next = Nil <=> job.next = Nil
  /\ d.next # Nil => d.next.input = job.next

(* Unless marked stale, what is outstanding was asked from the detector's  *)
(* present position, cursor included, and for the proof staged last.       *)
OutstandingIsCurrent ==
  ~stale =>
    /\ \A i \in DOMAIN validation_jobs : validation_jobs[i] = CurrentJob
    /\ \A i \in DOMAIN validation_results :
         validation_results[i] # Nil => Answers(validation_results[i], CurrentJob)

(* Whenever the detector accepts an answer for emission, the answer starts *)
(* at the detector's position with the detector's own queue cursor, which  *)
(* the code never compares, its next window starts where the proof staged  *)
(* last ends, and both windows go beyond the last accepted output.         *)
EmissionFresh ==
  [][ emitting = <<>> /\ emitting' # <<>> =>
        LET d == emitting'[1] IN
          /\ Answers(d, CurrentJob)
          /\ latest_slot < d.current.output.slot
          /\ d.next # Nil => latest_slot < d.next.output.slot ]_detectorEnvVars

(* stale "Indicates if we had some update, while our last dual proof       *)
(* inputs were being calculated by the actor" (finality_change_detector    *)
(* .rs): a job just started has had no update yet.                         *)
JobStartsFresh == [][ ~in_flight /\ in_flight' => ~stale' ]_detectorEnvVars

=============================================================================
