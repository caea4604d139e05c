----------------------------- MODULE MCDetector -----------------------------
(* A small instance of the detector against any bridge head.               *)
EXTENDS DetectorEnv

(* One request is queued when checkpoint 1 is finalised.                   *)
EarlyQueue == [s \in 0 .. MaxSlot |-> IF s = 0 THEN 0 ELSE 1]

=============================================================================
