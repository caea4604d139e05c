---------------------------- MODULE ProofPipeline ----------------------------
(***************************************************************************)
(* What the bridge head promises its user: one transition proof after the  *)
(* other.  The life of the one job there is, from wanted to settled, with  *)
(* none of the actors and channels that carry it.                          *)
(***************************************************************************)
EXTENDS Windows

VARIABLES
  phase,    \* where the job is in its life
  window,   \* what it proves; Nil when there is none yet
  settled   \* the position the checkpoint file holds, or Nil

pipelineVars == <<phase, window, settled>>

(* The windows the proof input preparation can ever answer.                *)
Transitions == UNION { Prepared(p, MaxSlot) : p \in Position }

PipelineInit ==
  /\ phase = "starting"
  /\ window = Nil
  /\ settled = Nil

(* The process has started: it wants a job.                                *)
Begin ==
  /\ phase = "starting"
  /\ phase' = "wanted"
  /\ UNCHANGED <<window, settled>>

(* A finality change gives the wanted job its window.                      *)
Stage ==
  /\ phase = "wanted"
  /\ phase' = "staged"
  /\ window' \in Transitions
  /\ UNCHANGED settled

Prove ==
  /\ phase = "staged"
  /\ phase' = "proving"
  /\ UNCHANGED <<window, settled>>

Report ==
  /\ phase = "proving"
  /\ phase' = "proved"
  /\ UNCHANGED <<window, settled>>

Fail ==
  /\ phase = "proving"
  /\ phase' = "failed"
  /\ window' = Nil
  /\ UNCHANGED settled

(* A failed job is replaced by one over a window known to be provable.     *)
Retry ==
  /\ phase = "failed"
  /\ phase' = "staged"
  /\ window' \in Transitions
  /\ UNCHANGED settled

(* Exactly what was proved is settled; the next job starts where it ended, *)
(* or waits for a finality change.                                         *)
Settle ==
  /\ phase = "proved"
  /\ settled' = window.output
  /\ \/ phase' = "wanted" /\ window' = Nil
     \/ /\ phase' = "staged"
        /\ window' \in { w \in Transitions : w.input.slot = window.output.slot }

(* The process ends at any time; only what is settled survives.            *)
ProcessRestart ==
  /\ phase' = "starting"
  /\ window' = Nil
  /\ UNCHANGED settled

PipelineNext ==
  \/ Begin \/ Stage \/ Prove \/ Report \/ Fail \/ Retry \/ Settle
  \/ ProcessRestart

PipelineSpec == PipelineInit /\ [][PipelineNext]_pipelineVars

=============================================================================
