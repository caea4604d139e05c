------------------------------ MODULE MCResume ------------------------------
(***************************************************************************)
(* What a bridge head resumes from: the process with its checkpoint file   *)
(* (Lifecycle), and the light client store rebuilt for the settled head    *)
(* (LightClient).  In a behaviour one of the two runs and the other is in  *)
(* a state in which it has nothing to do: a process out of starts, a light *)
(* client before its start whose newest checkpoint slot was missed.        *)
(*                                                                         *)
(* The first slots of the second and third period, and of the epoch before *)
(* the third, may be missed.                                               *)
(***************************************************************************)
EXTENDS Lifecycle, LightClient

NoClient == {MaxEpoch}

SomeMissed == SUBSET {4, 7, 8} \cup {NoClient}

ResumeInit ==
  /\ ClientInit
  /\ \/ Init /\ missed = NoClient /\ tip = MaxEpoch /\ ~nodes_lag
     \/ /\ missed # NoClient
        /\ up = FALSE /\ alive = {} /\ step = "idle" /\ starts = MaxStarts
        /\ disk = [file |-> "absent", position |-> 0] /\ head = 0 /\ told = 0

ResumeNext ==
  \/ Next /\ UNCHANGED clientVars
  \/ ClientNext /\ UNCHANGED vars

ResumeSpec ==
  ResumeInit /\ [][ResumeNext]_<<vars, clientVars>> /\ Fairness /\ ClientFairness

(* The type invariants of Lifecycle and LightClient.                       *)
ResumeTypeOK == TypeOK /\ ClientTypeOK

(* Unless it was left out of reach, the head reaches the last finalised    *)
(* slot: see LightClient.                                                  *)
ClientCatchesUp == missed # NoClient => CatchesUp

=============================================================================
