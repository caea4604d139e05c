--------------------------- MODULE QueueWitness ---------------------------
(***************************************************************************)
(* The proof requests of one window after the other: a node assembles the  *)
(* witness of a batch from the answers of an RPC provider                  *)
(* (execution/http.rs) and the guest program verifies it against the state *)
(* root of the window's output block (mpt.rs).  The chain grows meanwhile, *)
(* and a provider may answer any request from the state of another block.  *)
(*                                                                         *)
(* The commitments are the things committed to: the state root of a block  *)
(* is its state, a storage root is the storage, and a trie proof names the *)
(* root and the key it was made for.  Absent words read as zero.           *)
(*                                                                         *)
(* A proof is whole, or cut short of its key.  The trie library takes a    *)
(* cut proof for one of absence (the remark at its import in mpt.rs), so   *)
(* what is claimed of the content of a leaf is claimed of whole proofs.    *)
(***************************************************************************)
EXTENDS Naturals, Sequences

CONSTANTS
  Requests,   \* the requests that get enqueued
  Writes,     \* the changes of a target, <<address, slot key, value>>
  Addresses,  \* of targets; 0 is the zero address, at which there is no account
  Slots,      \* storage keys of targets
  QueueCuts,  \* sets of queue keys an answer's proofs may be cut for
  TargetCuts, \* and of keys of a target
  MAX_BATCH,
  MaxBlocks   \* bound: blocks of the chain

ASSUME QueueAssumption ==
  /\ MAX_BATCH \in Nat /\ MaxBlocks \in Nat \ {0}
  /\ 0 \in Addresses
  /\ \A r \in Requests : r.target \in Addresses
  /\ Writes \subseteq Addresses \X Slots \X Nat

VARIABLES
  blocks,        \* the state of each block
  cursor,        \* requests settled
  proved,        \* the leaves settled, each with the block of its window
  output_block,  \* of the last window settled
  phase,         \* of the window being prepared
  window,        \* its output block
  queue_head,    \* _get_queue_head's answer
  queue_proof,   \* _get_proof's answer for the queue
  slots_by_target, targets, \* targets still to be asked for, and asked for
  honest         \* every answer so far was whole and from the window's block

queueVars == <<blocks, cursor, proved, output_block, phase, window, queue_head, queue_proof,
               slots_by_target, targets, honest>>

EntryWords == {"target", "slot_key", "collection_keys_count", "key_0", "key_1"}

NoAccount == [exists |-> FALSE, storage |-> [s \in Slots |-> 0]]

-----------------------------------------------------------------------------
(* Storage and its proofs.                                                 *)

(* storage_slot_of_index, mapping_entry_location and struct_word_slot.     *)
HeadLocation == <<"head", 0, "head">>

RequestLocation(index, word) == <<"requests", index, word>>

(* The queue contract's storage, as the list of requests it holds: head at *)
(* slot 0, five words per entry.                                           *)
QueueWord(requests, key) ==
  IF key = HeadLocation THEN Len(requests)
  ELSE IF key[2] < Len(requests) THEN requests[key[2] + 1][key[3]] ELSE 0

(* verify_proof of the trie library, for inclusion and, when the value is  *)
(* zero or there is no account, for exclusion.  A whole proof pins the     *)
(* value; a cut one verifies as a proof that there is none.                *)
VerifyProof(root, key, value, actual, none, proof) ==
  /\ proof.root = root /\ proof.key = key
  /\ value = IF proof.whole THEN actual ELSE none

AnyAccount(state_root, address, account, proof) == TRUE

(* verify_account of a target, and of the queue, which is always claimed   *)
(* to exist.                                                               *)
VerifyAccount(state_root, address, account, proof) ==
  VerifyProof(state_root, address, account, state_root.accounts[address], NoAccount, proof)

VerifyQueueAccount(state_root, requests, proof) ==
  proof.whole /\ VerifyProof(state_root, "queue", requests, state_root.requests, <<>>, proof)

(* verify_storage_word of the queue, and of a target.                      *)
VerifyQueueWord(root, key, value, proof) ==
  VerifyProof(root, key, value, QueueWord(root, key), 0, proof)

VerifyStorageWord(root, key, value, proof) == VerifyProof(root, key, value, root[key], 0, proof)

-----------------------------------------------------------------------------
(* The guest: verify_queue.                                                *)

Least(m, n) == IF m <= n THEN m ELSE n

Batch(q) == Least(q.head - q.input_cursor, MAX_BATCH)

TargetOf(q, entry) == CHOOSE t \in q.targets : t.address = entry.words["target"]

SlotOf(q, entry) == TargetOf(q, entry).slots[entry.words["slot_key"]]

(* hash_request_leaf: what of an entry goes into its leaf.                 *)
Leaf(words, value) ==
  [target |-> words["target"], count |-> words["collection_keys_count"],
   key_0 |-> words["key_0"], key_1 |-> words["key_1"], value |-> value]

EntriesVerified(q) ==
  \A k \in DOMAIN q.entries : \A w \in EntryWords :
    VerifyQueueWord(q.account, RequestLocation(q.input_cursor + k - 1, w),
                    q.entries[k].words[w], q.entries[k].word_proofs[w])

TargetsVerified(state_root, q) ==
  \A t \in q.targets : VerifyAccount(state_root, t.address, t.account, t.account_mpt_proof)

(* Each entry has its target and its slot in the witness.                  *)
LeavesVerified(q) ==
  \A k \in DOMAIN q.entries : \E t \in q.targets :
    LET key == q.entries[k].words["slot_key"]
    IN  /\ t.address = q.entries[k].words["target"]
        /\ key \in DOMAIN t.slots
        /\ VerifyStorageWord(t.account.storage, key, t.slots[key].value, t.slots[key].mpt_proof)

HeadNotVerified(state_root, q) ==
  /\ VerifyQueueAccount(state_root, q.account, q.account_mpt_proof)
  /\ q.input_cursor <= q.head
  /\ Len(q.entries) = Batch(q)
  /\ EntriesVerified(q)
  /\ TargetsVerified(state_root, q)
  /\ LeavesVerified(q)

VerifyQueue(state_root, q) ==
  /\ VerifyQueueAccount(state_root, q.account, q.account_mpt_proof)
  /\ VerifyQueueWord(q.account, HeadLocation, q.head, q.head_mpt_proof)
  /\ q.input_cursor <= q.head
  /\ Len(q.entries) = Batch(q)
  /\ EntriesVerified(q)
  /\ TargetsVerified(state_root, q)
  /\ LeavesVerified(q)

(* What it returns: the cursor and, for the root of the tree, its leaves.  *)
OutputCursor(q) == q.input_cursor + Batch(q)

VerifiedRequests(q) ==
  [k \in DOMAIN q.entries |-> Leaf(q.entries[k].words, SlotOf(q, q.entries[k]).value)]

-----------------------------------------------------------------------------
(* The provider: eth_getProof of some keys as a state has them.  The     *)
(* first chunk brings the account, the others may come from another state. *)
(* The proofs of the keys in cut are cut short, and answered as absent.    *)

AnsweredWord(requests, key, cut) == IF key \in cut THEN 0 ELSE QueueWord(requests, key)

Entry(requests, index, cut) ==
  [words |-> [w \in EntryWords |-> AnsweredWord(requests, RequestLocation(index, w), cut)],
   word_proofs |-> [w \in EntryWords |->
                      [root |-> requests, key |-> RequestLocation(index, w),
                       whole |-> RequestLocation(index, w) \notin cut]]]

QueueProof(first, rest, from, batch, cut) ==
  [account |-> first.requests,
   account_mpt_proof |-> [root |-> first, key |-> "queue", whole |-> TRUE],
   head_mpt_proof |-> [root |-> first.requests, key |-> HeadLocation,
                       whole |-> HeadLocation \notin cut],
   entries |-> [k \in 1 .. batch |-> Entry(rest.requests, from + k - 1, cut)]]

AccountKey == <<"account">>

SlotKey(s) == <<"slot", s>>

TargetProof(first, rest, address, slot_keys, cut) ==
  [address |-> address,
   account |-> IF AccountKey \in cut THEN NoAccount ELSE first.accounts[address],
   account_mpt_proof |-> [root |-> first, key |-> address, whole |-> AccountKey \notin cut],
   slots |-> [s \in slot_keys |->
                [value |-> IF SlotKey(s) \in cut THEN 0 ELSE rest.accounts[address].storage[s],
                 mpt_proof |-> [root |-> rest.accounts[address].storage, key |-> s,
                                whole |-> SlotKey(s) \notin cut]]]]

-----------------------------------------------------------------------------

NoProof == QueueProof([requests |-> <<>>], [requests |-> <<>>], 0, 0, {})

QueueInit ==
  /\ blocks = <<[requests |-> <<>>, accounts |-> [a \in Addresses |-> NoAccount]]>>
  /\ cursor = 0
  /\ proved = <<>>
  /\ output_block = 1
  /\ phase = "idle"
  /\ window = 1
  /\ queue_head = 0
  /\ queue_proof = NoProof
  /\ slots_by_target = <<>>
  /\ targets = {}
  /\ honest = TRUE

(* The chain: a request is enqueued, or a contract writes (and comes to    *)
(* be) at a target.                                                        *)
Enqueue(r) ==
  /\ Len(blocks) < MaxBlocks
  /\ blocks' = Append(blocks, [blocks[Len(blocks)] EXCEPT !.requests = Append(@, r)])
  /\ UNCHANGED <<cursor, proved, output_block, phase, window, queue_head, queue_proof,
                 slots_by_target, targets, honest>>

Write(address, slot, value) ==
  /\ Len(blocks) < MaxBlocks
  /\ blocks' = Append(blocks, [blocks[Len(blocks)] EXCEPT
                                 !.accounts[address].exists = TRUE,
                                 !.accounts[address].storage[slot] = value])
  /\ UNCHANGED <<cursor, proved, output_block, phase, window, queue_head, queue_proof,
                 slots_by_target, targets, honest>>

(* What the preparation has in hand, dropped when it ends.                 *)
Emptied ==
  /\ queue_head' = 0
  /\ queue_proof' = NoProof
  /\ slots_by_target' = <<>>
  /\ targets' = {}

(* A window up to a later block is to be prepared.                         *)
Prepare(b) ==
  /\ phase \in {"idle", "rejected"}
  /\ b \in output_block + 1 .. Len(blocks)
  /\ phase' = "head"
  /\ window' = b
  /\ honest' = TRUE
  /\ UNCHANGED <<blocks, cursor, proved, output_block, queue_head, queue_proof,
                 slots_by_target, targets>>

(* An attempt that cannot go on, at any of its early returns.              *)
Reject ==
  /\ phase' = "rejected"
  /\ Emptied
  /\ UNCHANGED <<blocks, cursor, proved, output_block, window>>

(* _get_queue_head, answered from block b, and the batch check.            *)
ReadHead(b) ==
  /\ phase = "head"
  /\ honest' = (honest /\ b = window)
  /\ IF cursor > Len(blocks[b].requests)
       THEN Reject
       ELSE /\ phase' = "queue"
            /\ queue_head' = Len(blocks[b].requests)
            /\ UNCHANGED <<blocks, cursor, proved, output_block, window, queue_proof,
                           slots_by_target, targets>>

(* Head and entries in one answer, its chunks from b and c, and from the   *)
(* words of the entries the slots each target must prove.                  *)
SlotsByTarget(entries) ==
  LET named == {entries[k].words["target"] : k \in DOMAIN entries}
  IN  [a \in named |->
         {entries[k].words["slot_key"] :
            k \in {j \in DOMAIN entries : entries[j].words["target"] = a}}]

ReadQueue(b, c, cut) ==
  LET proof ==
        QueueProof(blocks[b], blocks[c], cursor, Least(queue_head - cursor, MAX_BATCH), cut)
  IN  /\ phase = "queue"
      /\ honest' = (honest /\ b = window /\ c = window /\ cut = {})
      /\ phase' = "targets"
      /\ queue_proof' = proof
      /\ slots_by_target' = SlotsByTarget(proof.entries)
      /\ UNCHANGED <<blocks, cursor, proved, output_block, window, queue_head, targets>>

(* _account_witness: the account as it verifies, present or absent.        *)
PresentAccount(state_root, proof) ==
  /\ proof.account.exists
  /\ VerifyAccount(state_root, proof.address, proof.account, proof.account_mpt_proof)

AccountWitness(state_root, proof) ==
  VerifyAccount(state_root, proof.address, proof.account, proof.account_mpt_proof)

ReadTarget(a, b, c, cut) ==
  LET proof == TargetProof(blocks[b], blocks[c], a, slots_by_target[a], cut)
  IN  /\ phase = "targets" /\ a \in DOMAIN slots_by_target
      /\ honest' = (honest /\ b = window /\ c = window /\ cut = {})
      /\ IF AccountWitness(blocks[window], proof)
           THEN /\ targets' = targets \cup {proof}
                /\ slots_by_target' =
                     [x \in DOMAIN slots_by_target \ {a} |-> slots_by_target[x]]
                /\ UNCHANGED <<blocks, cursor, proved, output_block, phase, window, queue_head,
                               queue_proof>>
           ELSE Reject

(* A response without a key that was asked for ends the attempt, and so    *)
(* does a request the provider refuses.                                    *)
Refused ==
  /\ phase \in {"head", "queue", "targets"}
  /\ honest' = FALSE
  /\ Reject

QueueStorage ==
  [account |-> queue_proof.account, account_mpt_proof |-> queue_proof.account_mpt_proof,
   head |-> queue_head, head_mpt_proof |-> queue_proof.head_mpt_proof,
   input_cursor |-> cursor, entries |-> queue_proof.entries, targets |-> targets]

(* The dry run of the guest on the host.                                   *)
DryRun ==
  /\ phase = "targets" /\ DOMAIN slots_by_target = {}
  /\ UNCHANGED honest
  /\ IF VerifyQueue(blocks[window], QueueStorage)
       THEN /\ phase' = "prepared"
            /\ UNCHANGED <<blocks, cursor, proved, output_block, window, queue_head, queue_proof,
                           slots_by_target, targets>>
       ELSE Reject

(* expected_output_queue_cursor.                                           *)
ExpectedAtHead == queue_head

ExpectedCursor == cursor + Len(queue_proof.entries)

(* All that entry k of a witness is verified by is whole.                  *)
WholeProofs(q, k) ==
  LET entry == q.entries[k]
  IN  /\ \A w \in EntryWords : entry.word_proofs[w].whole
      /\ TargetOf(q, entry).account_mpt_proof.whole
      /\ SlotOf(q, entry).mpt_proof.whole

(* The window proved and settled: the guest run on the same input.         *)
Settle ==
  /\ phase = "prepared"
  /\ VerifyQueue(blocks[window], QueueStorage)
  /\ cursor' = OutputCursor(QueueStorage)
  /\ proved' = proved \o [k \in DOMAIN VerifiedRequests(QueueStorage) |->
                            [leaf |-> VerifiedRequests(QueueStorage)[k], block |-> window,
                             whole |-> WholeProofs(QueueStorage, k)]]
  /\ output_block' = window
  /\ phase' = "idle"
  /\ honest' = TRUE
  /\ Emptied
  /\ UNCHANGED <<blocks, window>>

(* The job failed: the window is prepared again.                           *)
JobFailed ==
  /\ phase = "prepared"
  /\ honest' = FALSE
  /\ Reject

QueueNext ==
  \/ \E r \in Requests : Enqueue(r)
  \/ \E w \in Writes : Write(w[1], w[2], w[3])
  \/ \E b \in DOMAIN blocks : Prepare(b) \/ ReadHead(b)
  \/ \E b, c \in DOMAIN blocks :
       \/ \E cut \in QueueCuts : ReadQueue(b, c, cut)
       \/ \E a \in DOMAIN slots_by_target, cut \in TargetCuts : ReadTarget(a, b, c, cut)
  \/ Refused \/ DryRun \/ Settle \/ JobFailed

QueueSpec == QueueInit /\ [][QueueNext]_queueVars

-----------------------------------------------------------------------------

QueueTypeOK ==
  /\ \A b \in DOMAIN blocks : \A k \in DOMAIN blocks[b].requests :
       blocks[b].requests[k] \in Requests
  /\ cursor \in 0 .. MaxBlocks /\ output_block \in DOMAIN blocks /\ window \in DOMAIN blocks
  /\ phase \in {"idle", "head", "queue", "targets", "prepared", "rejected"}
  /\ queue_head \in 0 .. MaxBlocks /\ Len(queue_proof.entries) <= MAX_BATCH
  /\ DOMAIN slots_by_target \subseteq Addresses
  /\ honest \in BOOLEAN

(* What is settled is the queue: request by request from the first, each   *)
(* once and none that is not in the queue, whatever blocks the provider    *)
(* answered from, whichever proofs it cut and however often a window was   *)
(* prepared again; and a leaf whose proofs were whole is of its request.   *)
RequestsProvedInOrder ==
  /\ Len(proved) = cursor
  /\ \A k \in DOMAIN proved :
       LET at == blocks[proved[k].block]
       IN  /\ k <= Len(at.requests)
           /\ proved[k].whole => proved[k].leaf = Leaf(at.requests[k], proved[k].leaf.value)

(* The value in a settled leaf whose proofs were whole is the one the      *)
(* target's slot holds at the output block of its window, zero for an      *)
(* empty slot and for a target that does not exist.                        *)
ValuesOfOutputBlock ==
  \A k \in DOMAIN proved :
    LET at == blocks[proved[k].block]
    IN  k <= Len(at.requests) /\ proved[k].whole =>
          proved[k].leaf.value =
            at.accounts[at.requests[k].target].storage[at.requests[k].slot_key]

(* A window whose answers were all whole and from its output block is      *)
(* never rejected: no enqueued request, be its target absent, its slot empty, or *)
(* itself a repetition, can stall the queue.                               *)
HonestAnswersSuffice == honest => phase # "rejected"

(* The cursor the host predicts is the one the guest commits.              *)
HostPredictsCursor ==
  phase = "prepared" => ExpectedCursor = OutputCursor(QueueStorage)

=============================================================================
