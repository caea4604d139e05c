------------------------------ MODULE Windows ------------------------------
(***************************************************************************)
(* Bridge head positions and proof windows.                                *)
(*                                                                         *)
(* A position is a finalised beacon checkpoint slot together with the      *)
(* proof request queue cursor settled at it.  The store hash that travels  *)
(* with the slot everywhere in the code stands for the light client store  *)
(* of that slot, so the slot represents both.  Slots are counted in        *)
(* checkpoints: slot n is beacon slot 32 * n.                              *)
(***************************************************************************)
EXTENDS Integers

CONSTANTS
  MaxSlot,    \* bound: the last checkpoint the chain finalises
  MaxBatch,   \* MAX_BATCH, the most queue entries one proof drains
  QueueHead,  \* QueueHead[s]: length of the request queue at checkpoint s
  Nil         \* None

Slot   == 0 .. MaxSlot
Cursor == 0 .. QueueHead[MaxSlot]

(* The queue contract only appends.                                        *)
ASSUME WindowsAssumption ==
  /\ MaxSlot \in Nat
  /\ MaxBatch \in Nat \ {0}
  /\ QueueHead \in [Slot -> Nat]
  /\ \A s, t \in Slot : s <= t => QueueHead[s] <= QueueHead[t]

Position == [slot : Slot, queue_cursor : Cursor]

(* A cursor is settled by proving the queue as it was at the slot.         *)
SettledPosition == { p \in Position : p.queue_cursor <= QueueHead[p.slot] }

(* ProofInputsWithWindow.                                                  *)
Window == [input : Position, output : Position]

ASSUME NilAssumption == Nil \notin Window

(* DualProofInputsWithWindow.                                              *)
Dual == [current : Window, next : Window \cup {Nil}]

Smaller(a, b) == IF a <= b THEN a ELSE b

(* The entries a proof from cursor to the queue head at slot s drains.     *)
BatchOneTooMany(cursor, s) == Smaller(QueueHead[s] - cursor + 1, MaxBatch)
Batch(cursor, s) == Smaller(QueueHead[s] - cursor, MaxBatch)

(* The position a transition from p to checkpoint s settles.               *)
OutputAt(p, s) ==
  [slot |-> s, queue_cursor |-> p.queue_cursor + Batch(p.queue_cursor, s)]

(* Every window the proof input preparation can answer for a bridge at p   *)
(* while the providers know at most checkpoint `finalised`: a lagging      *)
(* provider answers an older checkpoint, an output at or behind the input  *)
(* and a cursor ahead of the queue are refused.                            *)
Prepared(p, finalised) ==
  { [input |-> p, output |-> OutputAt(p, s)] :
      s \in { t \in Slot : /\ p.slot < t
                           /\ t <= finalised
                           /\ p.queue_cursor <= QueueHead[t] } }

=============================================================================
