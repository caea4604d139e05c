----------------------------- MODULE Lifecycle -----------------------------
(***************************************************************************)
(* The process around the pipeline: the tasks main spawns and how the end  *)
(* of one spreads through closed channels to the others, the checkpoint    *)
(* file written in place, and the start procedure after a stop.            *)
(*                                                                         *)
(* A position stands for slot, store hash and queue cursor; a cold start   *)
(* begins at position 0, the cursor of a queue never drained.  The workings*)
(* of the tasks are those of BridgeHead, Detector and Observer.            *)
(***************************************************************************)
EXTENDS Naturals

CONSTANTS
  MaxSettled,  \* bound: positions settled
  MaxStarts    \* bound: starts of the process

ASSUME LifecycleAssumption == MaxSettled \in Nat /\ MaxStarts \in Nat

VARIABLES
  up,       \* the process runs
  alive,    \* its tasks that have not ended
  step,     \* of the observer's proof handler
  disk,     \* the checkpoint file: absent, torn or whole, and its position
  head,     \* the position the process works at
  told,     \* history: the last position an Advance told the event loop
  starts    \* history: starts so far

vars == <<up, alive, step, disk, head, told, starts>>

Tasks == {"observer", "event_loop", "detector", "validation_actor"}

Init ==
  /\ up = FALSE /\ alive = {}
  /\ step = "idle"
  /\ disk = [file |-> "absent", position |-> 0]
  /\ head = 0 /\ told = 0
  /\ starts = 0

(* main: a warm start from the file if there is one, which panics on a     *)
(* file that does not parse; a cold start otherwise.  A mutant takes a     *)
(* torn file for an absent one.                                            *)
StartPosition == IF disk.file = "whole" THEN disk.position ELSE 0

StartsOnTornFile ==
  /\ ~up /\ starts < MaxStarts
  /\ up' = TRUE /\ alive' = Tasks
  /\ head' = StartPosition
  /\ starts' = starts + 1
  /\ UNCHANGED <<step, disk, told>>

Start ==
  /\ ~up /\ starts < MaxStarts
  /\ disk.file # "torn"
  /\ up' = TRUE /\ alive' = Tasks
  /\ head' = StartPosition
  /\ starts' = starts + 1
  /\ UNCHANGED <<step, disk, told>>

(* The whole process ends: panic_more, ctrl-c or a crash.  A mutant leaves *)
(* the tasks behind.                                                       *)
MainEnds ==
  /\ up' = FALSE /\ alive' = alive
  /\ step' = "idle"

Ends ==
  /\ up' = FALSE /\ alive' = {}
  /\ step' = "idle"

Crash ==
  /\ up /\ Ends
  /\ UNCHANGED <<disk, head, told, starts>>

-----------------------------------------------------------------------------
(* on_transition_proof_succeeded: the proof files, the checkpoint, Advance.*)

ObserverAt(s) == "observer" \in alive /\ step = s

SaveProof ==
  /\ ObserverAt("idle") /\ head < MaxSettled
  /\ head' = head + 1
  /\ step' = "proof_saved"
  /\ UNCHANGED <<up, alive, disk, told, starts>>

(* Without its directory the proof cannot be saved: panic_more.            *)
SaveProofFails ==
  /\ ObserverAt("idle") /\ Ends
  /\ UNCHANGED <<disk, head, told, starts>>

(* The file is truncated, then written.                                    *)
OpenCheckpoint ==
  /\ ObserverAt("proof_saved")
  /\ disk' = [disk EXCEPT !.file = "torn"]
  /\ step' = "writing"
  /\ UNCHANGED <<up, alive, head, told, starts>>

WriteCheckpoint ==
  /\ ObserverAt("writing")
  /\ disk' = [file |-> "whole", position |-> head]
  /\ step' = "saved"
  /\ UNCHANGED <<up, alive, head, told, starts>>

(* A failed write unwraps: the observer task panics, the process goes on.  *)
WritePanics ==
  /\ "observer" \in alive /\ step \in {"idle", "proof_saved", "writing"}
  /\ alive' = alive \ {"observer"}
  /\ UNCHANGED <<up, step, disk, head, told, starts>>

(* bridge_head_handle.advance: panic_more when the event loop is gone.     *)
SendAdvance ==
  /\ ObserverAt("saved")
  /\ IF "event_loop" \in alive
       THEN told' = head /\ step' = "idle" /\ UNCHANGED <<up, alive>>
       ELSE Ends /\ UNCHANGED told
  /\ UNCHANGED <<disk, head, starts>>

(* The event channel is closed: panic_more.                                *)
EventsClosed ==
  /\ ObserverAt("idle") /\ "event_loop" \notin alive
  /\ Ends
  /\ UNCHANGED <<disk, head, told, starts>>

-----------------------------------------------------------------------------
(* The other tasks: a panic of its own ends a task, and so does a channel  *)
(* whose other end is gone.                                                *)

TaskEnds(t) ==
  /\ t \in alive
  /\ alive' = alive \ {t}
  /\ UNCHANGED <<up, step, disk, head, told, starts>>

Panics == \E t \in Tasks \ {"observer"} : TaskEnds(t)

(* finality_output_rx or command_rx closed; a mutant watches one only.     *)
OnlyCommandsClosed == "observer" \notin alive

LoopCutOff == "detector" \notin alive \/ "observer" \notin alive

EventLoopEnds == LoopCutOff /\ TaskEnds("event_loop")

(* Its stage or advance channel, or the actor's results, closed.           *)
OnlyResultsClosed == "validation_actor" \notin alive

DetectorCutOff == "event_loop" \notin alive \/ "validation_actor" \notin alive

DetectorEnds == DetectorCutOff /\ TaskEnds("detector")

ActorEnds == "detector" \notin alive /\ TaskEnds("validation_actor")

Next ==
  \/ Start \/ Crash
  \/ SaveProof \/ SaveProofFails \/ OpenCheckpoint \/ WriteCheckpoint \/ WritePanics
  \/ SendAdvance \/ EventsClosed
  \/ Panics \/ EventLoopEnds \/ DetectorEnds \/ ActorEnds

(* Tasks are scheduled; a file write ends; the process is started again.   *)
Fairness ==
  /\ WF_vars(Start)
  /\ WF_vars(OpenCheckpoint) /\ WF_vars(WriteCheckpoint)
  /\ WF_vars(SendAdvance) /\ WF_vars(EventsClosed)
  /\ WF_vars(EventLoopEnds) /\ WF_vars(DetectorEnds) /\ WF_vars(ActorEnds)

Spec == Init /\ [][Next]_vars /\ Fairness

-----------------------------------------------------------------------------

TypeOK ==
  /\ up \in BOOLEAN /\ alive \subseteq Tasks
  /\ step \in {"idle", "proof_saved", "writing", "saved"}
  /\ (~up => alive = {} /\ step = "idle")
  /\ disk \in [file : {"absent", "torn", "whole"}, position : 0 .. MaxSettled]
  /\ head \in 0 .. MaxSettled /\ told \in 0 .. MaxSettled
  /\ starts \in 0 .. MaxStarts

(* However the process ended, between whichever two steps of saving proof  *)
(* and checkpoint, a later start never works behind a position an Advance  *)
(* has settled: it finds that position in the file or refuses to start.    *)
(* In particular the cursor 0 of a cold start is only ever taken while     *)
(* nothing has been settled.                                               *)
NeverBehindSettled == up => told <= head

(* When the event loop, the detector or the validation actor ends, the     *)
(* closed channels carry it to the observer, whose panic_more ends the     *)
(* process (unless the observer itself panics on the way).                 *)
DeathReachesObserver ==
  (up /\ "observer" \in alive /\ alive # Tasks) ~> (~up \/ "observer" \notin alive)

(* When the observer panics no other task keeps working: the event loop,   *)
(* the detector and the validation actor end as well.                      *)
ObserverDeathEndsTasks == (up /\ "observer" \notin alive) ~> (alive = {} \/ ~up)

=============================================================================
