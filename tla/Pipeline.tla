------------------------------ MODULE Pipeline ------------------------------
(***************************************************************************)
(* The bridge head process: observer, event loop, detector, validation     *)
(* actor and prover workers running concurrently, and its restarts.        *)
(***************************************************************************)
EXTENDS Detector, BridgeHead, Observer

CONSTANT MaxRestarts  \* bound: how often the process is ended and restarted

VARIABLE restarts

ASSUME PipelineAssumption == MaxRestarts \in Nat

vars == <<channels, finalised, detectorVars, bridgeVars, observerVars, files,
          restarts>>

TypeOK ==
  /\ ChannelsTypeOK
  /\ DetectorTypeOK
  /\ BridgeTypeOK
  /\ ObserverTypeOK
  /\ restarts \in 0 .. MaxRestarts

(* Where a process starts: at the checkpoint, or on a cold start at the    *)
(* newest checkpoint a provider reports with an empty cursor.              *)
StartForgettingCursor ==
  IF checkpoint # Nil THEN {[checkpoint EXCEPT !.queue_cursor = 0]}
  ELSE [slot : 0 .. finalised, queue_cursor : {0}]

StartPositions ==
  IF checkpoint # Nil THEN {checkpoint}
  ELSE [slot : 0 .. finalised, queue_cursor : {0}]

Init ==
  /\ finalised = 0
  /\ restarts = 0
  /\ checkpoint = Nil
  /\ saved_proofs = [s \in Slot |-> Nil]
  /\ ChannelsInit
  /\ ObserverInit
  /\ \E p \in StartPositions :
       /\ DetectorInit(p)
       /\ BridgeInit(p, finalised)

(* The process ends at any point and is started again: only files survive. *)
Restart ==
  /\ restarts < MaxRestarts
  /\ restarts' = restarts + 1
  /\ UNCHANGED <<finalised, files>>
  /\ commands' = <<>> /\ events' = <<>> /\ job_results' = <<>>
  /\ stage_input' = <<>> /\ advance_input' = <<>> /\ finality_output' = <<>>
  /\ observed' = [slot |-> 0, queue_cursor |-> 0]
  /\ stage_transition_proof' = FALSE
  /\ latest_current' = Nil /\ latest_next' = Nil
  /\ settling' = Nil /\ issuing' = <<>>
  /\ in_flight' = FALSE /\ stale' = FALSE /\ next_expected_output' = Nil
  /\ emitting' = <<>> /\ validation_jobs' = <<>> /\ validation_results' = <<>>
  /\ job_id' = 0 /\ prover_jobs' = << >> /\ workers' = {}
  /\ next_slot' \in 0 .. finalised
  /\ \E p \in StartPositions :
       /\ position' = p /\ latest_slot' = p.slot
       /\ head' = p /\ sending' = <<ToEvent(Started(p))>>

DetectorActs ==
  /\ DetectorStep
  /\ UNCHANGED <<bridgeVars, observerVars, files, restarts, commands, events,
                 job_results>>

BridgeActs ==
  /\ BridgeStep
  /\ UNCHANGED <<finalised, detectorVars, observerVars, files, restarts>>

ObserverActs ==
  /\ ObserverStep
  /\ UNCHANGED <<finalised, detectorVars, bridgeVars, restarts>>

ChainFinalises ==
  /\ Finalise
  /\ UNCHANGED <<bridgeVars, observerVars, files, restarts, commands, events,
                 job_results>>

Next == DetectorActs \/ BridgeActs \/ ObserverActs \/ ChainFinalises \/ Restart

Spec == Init /\ [][Next]_vars

-----------------------------------------------------------------------------
(* Where the trigger of the next proof job is.                             *)

Has(s, S)  == \E i \in DOMAIN s : s[i] \in S
Once(s, S) == \A i, j \in DOMAIN s : s[i] \in S /\ s[j] \in S => i = j

(* The events that make the observer want, order or repeat a job.          *)
Starts   == [type : {"Started"}, position : Position]
Proofs   == [type : {"ProofMessage"}, proof : Window]
Failures == [type : {"JobFailed"}, n_job_in_buffer : Nat]
Triggers == Starts \cup Proofs \cup Failures
TriggerSends == [to : {"event"}, message : Triggers]

Wanted    == stage_transition_proof
Ordered   == Has(issuing, StageCommands)
Queued    == Has(commands, StageCommands)
Proving   == DOMAIN prover_jobs # {}
Reporting == Has(sending, TriggerSends)
Reported  == Has(events, Triggers)
Settling  == settling # Nil

(* The proof pipeline is serial ("currently 1 job in serial pipeline",     *)
(* api.rs) and never idle: across the observer, the channels, the event    *)
(* loop and the prover there is exactly one of: the flag that wants a job, *)
(* a stage command, a running job, a report of one.                        *)
SerialPipeline ==
  /\ Wanted \/ Ordered \/ Queued \/ Proving \/ Reporting \/ Reported \/ Settling
  /\ Wanted => ~(Ordered \/ Queued \/ Proving \/ Reporting \/ Reported \/ Settling)
  /\ Ordered => ~(Queued \/ Proving \/ Reporting \/ Reported \/ Settling)
  /\ Queued => ~(Proving \/ Reporting \/ Reported \/ Settling)
  /\ Proving => ~(Reporting \/ Reported \/ Settling)
  /\ Reporting => ~(Reported \/ Settling)
  /\ Reported => ~Settling
  /\ Once(issuing, StageCommands)
  /\ Once(commands, StageCommands)
  /\ \A j, k \in DOMAIN prover_jobs : j = k
  /\ Once(sending, TriggerSends)
  /\ Once(events, Triggers)

(* Every prover answer names a job still in prover_jobs, which the handlers *)
(* look up and unwrap, and a proof is of that job's window.                *)
ResultsMatchJobs ==
  \A i \in DOMAIN job_results :
    LET r == job_results[i] IN
      /\ r.job_id \in DOMAIN prover_jobs
      /\ r.proof \in {Nil, prover_jobs[r.job_id]}

(* The commands the observer has yet to send always fit in the command     *)
(* channel, so the observer never waits for the event loop and the two     *)
(* cannot wait for each other.                                             *)
ObserverNeverWaits == Len(commands) + Len(issuing) <= CommandCapacity

(* A job that fails can be retried: its failure is reported with no other  *)
(* job left and while the observer holds a current window, so the handler  *)
(* neither drops the retry nor ends the process.                           *)
RetryHasWindow ==
  \A e \in Range(events) : e.type = "JobFailed" =>
    e.n_job_in_buffer = 0 /\ latest_current # Nil

(* The head is on its way from the observer to the detector.               *)
AdvancePending ==
  \/ settling # Nil
  \/ Has(issuing, AdvanceCommands)
  \/ Has(commands, AdvanceCommands)
  \/ \E i \in DOMAIN sending : sending[i].to = "advance"
  \/ advance_input # <<>>

(* Once no advance is on its way the event loop, the detector and the      *)
(* checkpoint file agree on the position, also after a restart.            *)
HeadsAgree ==
  ~AdvancePending => position = head /\ checkpoint \in {Nil, head}

(* The worker of the running job has panicked.                             *)
JobLost == Proving /\ workers = {} /\ job_results = <<>>

(* A lost job is never proved, reported or replaced while the process      *)
(* runs: until it is started again the head stays where it is, no other    *)
(* job is staged and nothing is saved.                                     *)
LostJobStops ==
  [][JobLost => Restart \/ (JobLost' /\ UNCHANGED <<prover_jobs, head, commands, files>>)]_vars

-----------------------------------------------------------------------------
(* What makes the invariants above inductive.                              *)

(* Commands travel in order: an advance is never behind a stage command,   *)
(* and there is one of each at most.                                       *)
CommandOrder ==
  /\ \A i \in DOMAIN commands :
       /\ commands[i] \in StageCommands => i = Len(commands) /\ issuing = <<>>
       /\ commands[i] \in AdvanceCommands => i = 1
  /\ \A i \in DOMAIN issuing :
       /\ issuing[i] \in StageCommands => i = Len(issuing)
       /\ issuing[i] \in AdvanceCommands => i = 1 /\ commands = <<>>

(* While a job runs or its report travels, every command has been taken.   *)
CommandsTaken ==
  Proving \/ Reporting \/ Reported \/ Settling => commands = <<>> /\ issuing = <<>>

(* A running job has its worker or its answer or neither, never both.      *)
JobsAnsweredOnce ==
  /\ \A w \in workers : /\ w.job_id \in DOMAIN prover_jobs
                        /\ prover_jobs[w.job_id] = w.window
                        /\ job_results = <<>>
  /\ \A v, w \in workers : v = w
  /\ Len(job_results) <= 1
  /\ ResultsMatchJobs

(* A report that matters is the last send of its handler.                  *)
ReportsLast ==
  \A i \in DOMAIN sending : sending[i] \in TriggerSends => i = Len(sending)

(* Failures are reported with no job left, and the observer has known a    *)
(* current window ever since the first job.                                *)
FailuresRetriable ==
  /\ \A i \in DOMAIN sending :
       sending[i].to = "event" /\ sending[i].message.type = "JobFailed" =>
         sending[i].message.n_job_in_buffer = 0
  /\ \A i \in DOMAIN events :
       events[i].type = "JobFailed" => events[i].n_job_in_buffer = 0
  /\ latest_next # Nil => latest_current # Nil
  /\ Ordered \/ Queued \/ Proving => latest_current # Nil
  /\ (Has(sending, [to : {"event"}, message : Failures]) \/ Has(events, Failures)) =>
       latest_current # Nil

(* The position travels from the checkpoint by way of the commands and the *)
(* event loop to the detector: each holds what the one before it last let  *)
(* go.                                                                     *)
PositionTravels ==
  /\ \A i \in DOMAIN commands :
       commands[i] \in AdvanceCommands => commands[i].position = checkpoint
  /\ \A i \in DOMAIN issuing :
       issuing[i] \in AdvanceCommands => issuing[i].position = checkpoint
  /\ ~Has(commands, AdvanceCommands) /\ ~Has(issuing, AdvanceCommands) =>
       checkpoint \in {Nil, head}
  /\ \A i \in DOMAIN sending : sending[i].to = "advance" => i = 1 /\ sending[i].message = head
  /\ (\A i \in DOMAIN sending : sending[i].to # "advance") =>
       IF advance_input = <<>> THEN position = head ELSE advance_input[1] = head

Places ==
  /\ SerialPipeline /\ CommandOrder /\ CommandsTaken /\ JobsAnsweredOnce
  /\ ReportsLast /\ FailuresRetriable /\ PositionTravels

PipelineInv == TypeOK /\ Places

-----------------------------------------------------------------------------
(* The job these places hold is the job of the abstract pipeline.          *)

The(S) == CHOOSE x \in S : TRUE

StagedWindows ==
  { c.window : c \in { d \in Range(issuing \o commands) :
                         d.command = "StageTransitionProof" } }

(* The events reported but not yet handled, and the proof half handled.    *)
Unhandled == Range(events) \cup
  { m.message : m \in { n \in Range(sending) : n.to = "event" } }

ProvedWindows ==
  { e.proof : e \in { f \in Unhandled : f.type = "ProofMessage" } }
    \cup ({settling} \ {Nil})

Phase ==
  CASE Wanted -> "wanted"
    [] StagedWindows # {} -> "staged"
    [] Proving -> "proving"
    [] ProvedWindows # {} -> "proved"
    [] \E e \in Unhandled : e.type = "JobFailed" -> "failed"
    [] OTHER -> "starting"

JobWindow ==
  CASE Wanted -> Nil
    [] StagedWindows # {} -> The(StagedWindows)
    [] Proving -> The(Range(prover_jobs))
    [] ProvedWindows # {} -> The(ProvedWindows)
    [] OTHER -> Nil

Promise == INSTANCE ProofPipeline WITH
  phase <- Phase, window <- JobWindow, settled <- checkpoint

(* The actors together implement the abstract pipeline: whatever they are  *)
(* interleaved with, each step moves the one job along its life, settles   *)
(* exactly what was proved, or changes nothing the user sees.              *)
ImplementsPromise == Promise!PipelineSpec

-----------------------------------------------------------------------------
(* Fairness: the tokio runtime runs every task that can run, a select loop *)
(* serves every ready arm, the timer ticks; providers and prover, however  *)
(* often they fail, succeed again and again, the providers with the newest *)
(* checkpoint.                                                             *)

BridgeDoes(A) == A /\ UNCHANGED <<finalised, detectorVars, observerVars, files, restarts>>

DetectorDoes(A) ==
  A /\ UNCHANGED <<bridgeVars, observerVars, files, restarts, commands, events, job_results>>

ValidateNewest ==
  /\ Validate
  /\ LET d == Head(validation_results') IN
       /\ d.current.output.slot = finalised
       /\ d.next = Nil \/ d.next.output.slot = finalised

Fairness ==
  /\ WF_vars(ObserverActs)
  /\ WF_vars(BridgeDoes(SendNext))
  /\ WF_vars(BridgeDoes(OnBeaconFinalityChange))
  /\ WF_vars(BridgeDoes(StageTransitionProof \/ Advance))
  /\ WF_vars(BridgeDoes(HandleProverSuccess \/ HandleProverFailure))
  /\ WF_vars(BridgeDoes(WorkerProves \/ WorkerFails))
  /\ SF_vars(BridgeDoes(WorkerProves))
  /\ WF_vars(DetectorDoes(EmitFinality))
  /\ WF_vars(DetectorDoes(OnStaged))
  /\ WF_vars(DetectorDoes(OnAdvanced))
  /\ WF_vars(DetectorDoes(OnValidationFailed \/ OnStaleResult \/ OnFreshResult))
  /\ WF_vars(DetectorDoes(OnTick))
  /\ WF_vars(DetectorDoes(Validate \/ ValidateFails))
  /\ SF_vars(DetectorDoes(ValidateNewest))

FairSpec == Spec /\ Fairness

(* The event loop waits for room towards the detector while the detector   *)
(* waits for room towards the event loop: neither can move again.          *)
WaitCycle ==
  /\ sending # <<>>
  /\ \/ Head(sending).to = "stage" /\ Len(stage_input) = DetectorCapacity
     \/ Head(sending).to = "advance" /\ Len(advance_input) = DetectorCapacity
  /\ emitting # <<>>
  /\ Len(finality_output) = DetectorCapacity

(* Once event loop and detector wait for each other they do so until the   *)
(* process is started again, whatever observer, workers, validation actor  *)
(* and chain still do: no update is taken, no job is staged or finished    *)
(* and the head does not advance.                                          *)
WaitCycleLasts ==
  [][WaitCycle =>
       Restart \/ (WaitCycle' /\ UNCHANGED <<head, prover_jobs, position, latest_slot>>)]_vars

(* The bridge catches up: once the chain has finalised its last checkpoint *)
(* the head comes to rest there, unless event loop and detector block each *)
(* other or a worker has panicked.                                         *)
CatchesUp ==
  <>[](finalised = MaxSlot => head.slot = MaxSlot \/ WaitCycle \/ JobLost)

-----------------------------------------------------------------------------
(* What comments and docs of the repository promise and the code does not  *)
(* keep.                                                                   *)

(* "Runs indefinitely until the process exits or a critical error occurs"  *)
(* (finality_change_detector.rs): the detector never waits for an event    *)
(* loop that waits for it.                                                 *)
RunsIndefinitely == ~WaitCycle

(* "is invalid (we would emit a proof from the same input slot again....)" *)
(* (observer.rs): within one run of the process no proof is saved for an   *)
(* input slot a proof was saved for, so none is overwritten.               *)
ProvesEachInputOnce ==
  [][\A s \in Slot : saved_proofs[s] # Nil => saved_proofs'[s] = saved_proofs[s]]_vars

(* "On failure, the bridge must resort to the latest current window proof  *)
(* inputs" (finality_change_detector.rs), the window that starts at the    *)
(* bridge's own slot: a retry proves from the observer's head.             *)
RetriesFromHead ==
  [][OnJobFailed /\ issuing' # <<>> => issuing'[1].window.input.slot = observed.slot]_vars

(* "The windows are contiguous so we can immediately start on the next     *)
(* proof" (observer.rs): a next window taken as viable starts at the slot  *)
(* and the queue cursor the proof just settled.                            *)
NextStartsWhereProofEnds ==
  settling # Nil /\ Viable(settling) => latest_next.input = settling.output

=============================================================================
