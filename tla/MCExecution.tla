---------------------------- MODULE MCExecution ----------------------------
(***************************************************************************)
(* What is asked of the execution providers: the providers themselves      *)
(* (Rpc) and the witness put together from their answers (QueueWitness).   *)
(* In a behaviour one of the two runs and the other has nothing to do: a   *)
(* question that has been answered, a chain that has ended.                *)
(*                                                                         *)
(* A question is of an empty batch or has three keys of the queue and a    *)
(* target's, the same for both backups; the timeout cuts the retries of a  *)
(* later chunk off.  Requests are of two targets, may be                   *)
(* enqueued again, one target never exists; writes create the other, fill  *)
(* the slot of a request and empty it again.                               *)
(***************************************************************************)
EXTENDS Rpc, QueueWitness

CONSTANTS k1, k2, k3, b1, b2

FewQuestions == {<<<<k1>>>>, <<<<k1, k2, k3>>, <<k1>>>>}

Limits == {0, 2}

TwoBackups == {b1, b2}

Ask(t, s, n, k) ==
  [target |-> t, slot_key |-> s, collection_keys_count |-> n, key_0 |-> k, key_1 |-> 0]

TwoRequests == {Ask(1, 1, 0, 0), Ask(2, 2, 1, 5)}

FewWrites == {<<1, 1, 7>>, <<1, 1, 0>>}

FewAddresses == 0 .. 2

FewSlots == 0 .. 2

(* Of the first request the target or the key is answered as absent, or    *)
(* the head; of a target the account or a slot.                            *)
FewQueueCuts ==
  {{}, {HeadLocation}, {RequestLocation(0, "target")}, {RequestLocation(0, "slot_key")}}

FewTargetCuts == {{}, {AccountKey}, {SlotKey(1)}}

Genesis == [requests |-> <<>>, accounts |-> [a \in Addresses |-> NoAccount]]

(* Init of Rpc with a queue that is at rest, and the other way round.      *)
QuestionAsked ==
  /\ Init
  /\ \A p, q \in Backups : proofs[p] = proofs[q]
  /\ blocks = [b \in 1 .. MaxBlocks |-> Genesis]
  /\ output_block = MaxBlocks /\ window = MaxBlocks
  /\ cursor = 0 /\ proved = <<>> /\ phase = "idle" /\ queue_head = 0
  /\ queue_proof = NoProof /\ slots_by_target = <<>> /\ targets = {}
  /\ honest = TRUE

QueueAtWork ==
  /\ QueueInit
  /\ multiplexed = FALSE /\ chunk_limit = CHOOSE n \in ChunkLimits : TRUE
  /\ proofs = [p \in Providers |-> CHOOSE q \in Questions : TRUE]
  /\ asked = {Principal} /\ answer = Principal /\ left = Timeout /\ elapsed = 0
  /\ state = [p \in Providers |-> IF p = Principal THEN "ok" ELSE "idle"]
  /\ call = [p \in Providers |-> IF p = Principal THEN Len(proofs[p]) ELSE HeadRead]
  /\ step = [p \in Providers |-> IF p = Principal THEN Len(Plan(p, call[p])) ELSE 1]
  /\ retries = [p \in Providers |-> 0] /\ delay = [p \in Providers |-> 0]
  /\ merged = [p \in Providers |-> IF p = Principal THEN proofs[p]
                                  ELSE [n \in DOMAIN proofs[p] |-> <<>>]]
  /\ failures = [p \in Providers |-> 0]

ExecutionNext ==
  \/ Next /\ UNCHANGED queueVars
  \/ QueueNext /\ UNCHANGED vars

ExecutionSpec ==
  /\ QuestionAsked \/ QueueAtWork
  /\ [][ExecutionNext]_<<vars, queueVars>>
  /\ Fairness

(* The type invariants of Rpc and QueueWitness.                            *)
ExecutionTypeOK == TypeOK /\ QueueTypeOK

=============================================================================
