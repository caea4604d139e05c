------------------------------ MODULE Channels ------------------------------
(***************************************************************************)
(* The bounded mpsc channels between the actors of the bridge head and the *)
(* messages they carry.  A channel is the sequence of its buffered         *)
(* messages; a send waits while the buffer is full.                        *)
(***************************************************************************)
EXTENDS Windows, Sequences

CONSTANTS
  EventCapacity,    \* api.rs: event channel
  CommandCapacity,  \* api.rs: command channel
  JobCapacity,      \* api.rs: prover result channel
  JobIdSpace        \* 2^64: job_id is a u64

ASSUME ChannelsAssumption ==
  /\ EventCapacity \in Nat \ {0}
  /\ CommandCapacity \in Nat \ {0}
  /\ JobCapacity \in Nat \ {0}
  /\ JobIdSpace \in Nat \ {0}

VARIABLES
  commands,         \* observer -> bridge head: Command
  events,           \* bridge head -> observer: BridgeHeadEvent
  job_results,      \* prover workers -> bridge head
  stage_input,      \* bridge head -> detector: expected output of a staged job
  advance_input,    \* bridge head -> detector: the new head
  finality_output   \* detector -> bridge head: DualProofInputsWithWindow

channels == <<commands, events, job_results, stage_input, advance_input,
              finality_output>>

(* The detector's three channels have capacity 1.                          *)
DetectorCapacity == 1

JobId == 0 .. JobIdSpace - 1

StageCommand(w)   == [command |-> "StageTransitionProof", window |-> w]
AdvanceCommand(p) == [command |-> "Advance", position |-> p]

StageCommands   == [command : {"StageTransitionProof"}, window : Window]
AdvanceCommands == [command : {"Advance"}, position : Position]
Command == StageCommands \cup AdvanceCommands

(* Notices whose contents no actor acts on are reduced to their type.      *)
Notice(type) == [type |-> type]
Started(p) == [type |-> "Started", position |-> p]
FinalityTransitionDetected(d) ==
  [type |-> "FinalityTransitionDetected", inputs |-> d]
JobFailed(n) == [type |-> "JobFailed", n_job_in_buffer |-> n]
ProofMessage(w) == [type |-> "ProofMessage", proof |-> w]

Event ==
  [type : {"JobCreated", "JobSucceeded", "HeadAdvanced"}]
    \cup [type : {"Started"}, position : Position]
    \cup [type : {"FinalityTransitionDetected"}, inputs : Dual]
    \cup [type : {"JobFailed"}, n_job_in_buffer : Nat]
    \cup [type : {"ProofMessage"}, proof : Window]

(* A worker's answer: the proof's public window, or None for an error.     *)
JobResult == [job_id : JobId, proof : Window \cup {Nil}]

DetectorChannelsTypeOK ==
  /\ stage_input \in Seq(Position) /\ Len(stage_input) <= DetectorCapacity
  /\ advance_input \in Seq(Position) /\ Len(advance_input) <= DetectorCapacity
  /\ finality_output \in Seq(Dual) /\ Len(finality_output) <= DetectorCapacity

ChannelsTypeOK ==
  /\ commands \in Seq(Command) /\ Len(commands) <= CommandCapacity
  /\ events \in Seq(Event) /\ Len(events) <= EventCapacity
  /\ job_results \in Seq(JobResult) /\ Len(job_results) <= JobCapacity
  /\ DetectorChannelsTypeOK

ChannelsInit ==
  /\ commands = <<>> /\ events = <<>> /\ job_results = <<>>
  /\ stage_input = <<>> /\ advance_input = <<>> /\ finality_output = <<>>

=============================================================================
