----------------------------- MODULE Encodings -----------------------------
(***************************************************************************)
(* The conversions whose two ends must agree: the public values of a proof *)
(* (nori-primitives types.rs), written by the guest and read by the event  *)
(* loop; the four field elements of a request leaf                         *)
(* (merkle_poseidon_fixed.rs), packed by the guest and again by the        *)
(* destination chain; the notices (notice_messages.rs), logged as JSON by  *)
(* the observer for other programs to read.                                *)
(*                                                                         *)
(* Byte strings are functions from 0 .. n-1 to 0 .. 255.                   *)
(***************************************************************************)
EXTENDS Naturals, Sequences, FiniteSets

CONSTANTS
  OutputsOf(_),  \* the outputs committed that have the fields of a layout
  RequestSet     \* the verified requests

VARIABLES
  conversion, \* the conversion: "outputs", "consensus", "leaf" or "notice"
  stage,      \* "start", "sent" or "read"
  input,      \* its argument
  wire,       \* the encoded form, as it arrives
  result      \* the set of the value decoded: empty for an error

codingVars == <<conversion, stage, input, wire, result>>

-----------------------------------------------------------------------------
(* ProofOutputs and ConsensusProofOutputs: name, first byte, byte after    *)
(* the last, and the type of the field, as to_bytes writes them.           *)

Field(name, from, to, type) == [name |-> name, from |-> from, to |-> to, type |-> type]

Layout ==
  {Field("input_slot", 0, 8, "u64"), Field("input_store_hash", 8, 40, "bytes"),
   Field("output_slot", 40, 48, "u64"), Field("output_store_hash", 48, 80, "bytes"),
   Field("execution_state_root", 80, 112, "bytes"),
   Field("verified_requests_root", 112, 144, "bytes"),
   Field("next_sync_committee_hash", 144, 176, "bytes"),
   Field("proof_request_queue_address", 176, 196, "bytes"),
   Field("input_queue_cursor", 196, 204, "u64"), Field("output_queue_cursor", 204, 212, "u64"),
   Field("output_block_number", 212, 220, "u64")}

SIZE == 220

ConsensusLayout ==
  {Field("input_slot", 0, 8, "u64"), Field("input_store_hash", 8, 40, "bytes"),
   Field("output_slot", 40, 48, "u64"), Field("output_store_hash", 48, 80, "bytes"),
   Field("execution_state_root", 80, 112, "bytes"),
   Field("next_sync_committee_hash", 112, 144, "bytes"),
   Field("output_block_number", 144, 152, "u64")}

CONSENSUS_SIZE == 152

(* The offsets that from_bytes lists on its own; a mutant reads each       *)
(* cursor where the other one was written.                                 *)
CursorsExchanged ==
  {[f EXCEPT !.from = IF f.name = "input_queue_cursor" THEN 204
                      ELSE IF f.name = "output_queue_cursor" THEN 196 ELSE f.from,
             !.to   = IF f.name = "input_queue_cursor" THEN 212
                      ELSE IF f.name = "output_queue_cursor" THEN 204 ELSE f.to] : f \in Layout}

ReadLayout ==
  {Field("input_slot", 0, 8, "u64"), Field("input_store_hash", 8, 40, "bytes"),
   Field("output_slot", 40, 48, "u64"), Field("output_store_hash", 48, 80, "bytes"),
   Field("execution_state_root", 80, 112, "bytes"),
   Field("verified_requests_root", 112, 144, "bytes"),
   Field("next_sync_committee_hash", 144, 176, "bytes"),
   Field("proof_request_queue_address", 176, 196, "bytes"),
   Field("input_queue_cursor", 196, 204, "u64"), Field("output_queue_cursor", 204, 212, "u64"),
   Field("output_block_number", 212, 220, "u64")}

ConsensusReadLayout ==
  {Field("input_slot", 0, 8, "u64"), Field("input_store_hash", 8, 40, "bytes"),
   Field("output_slot", 40, 48, "u64"), Field("output_store_hash", 48, 80, "bytes"),
   Field("execution_state_root", 80, 112, "bytes"),
   Field("next_sync_committee_hash", 112, 144, "bytes"),
   Field("output_block_number", 144, 152, "u64")}

(* to_be_bytes and from_be_bytes of a u64.                                 *)
ToBeBytes(n) ==
  LET shifted[k \in 0 .. 7] == IF k = 0 THEN n ELSE shifted[k - 1] \div 256
  IN  [j \in 0 .. 7 |-> shifted[7 - j] % 256]

FromBeBytes(b) ==
  LET read[k \in 0 .. 8] == IF k = 0 THEN 0 ELSE read[k - 1] * 256 + b[k - 1] IN read[8]

ToBytes(layout, size, o) ==
  [j \in 0 .. size - 1 |->
     LET f == CHOOSE g \in layout : g.from <= j /\ j < g.to
     IN  (IF f.type = "u64" THEN ToBeBytes(o[f.name]) ELSE o[f.name])[j - f.from]]

(* from_bytes refuses any other length.                                    *)
FromBytes(layout, size, bytes) ==
  IF DOMAIN bytes # 0 .. size - 1 THEN {}
  ELSE {[name \in {f.name : f \in layout} |->
           LET f     == CHOOSE g \in layout : g.name = name
               slice == [j \in 0 .. f.to - f.from - 1 |-> bytes[f.from + j]]
           IN  IF f.type = "u64" THEN FromBeBytes(slice) ELSE slice]}

-----------------------------------------------------------------------------
(* pack_request_leaf_fields: the four 32-byte strings that Fp::from_bytes  *)
(* reads, little-endian, as field elements.  A mutant leaves out the count.*)

FieldBytes(b) == [j \in 0 .. 31 |-> IF j \in DOMAIN b THEN b[j] ELSE 0]

Rest(b) == FieldBytes([j \in 0 .. 30 |-> b[j + 1]])

FirstBytes(r) ==
  LET tail == <<r.collection_keys_count, r.key_0[0], r.key_1[0], r.value[0]>>
  IN  FieldBytes([j \in 0 .. 23 |-> IF j < 20 THEN r.target[j] ELSE tail[j - 19]])

PackWithoutCount(r) ==
  <<[FirstBytes(r) EXCEPT ![20] = 0], Rest(r.key_0), Rest(r.key_1), Rest(r.value)>>

Pack(r) == <<FirstBytes(r), Rest(r.key_0), Rest(r.key_1), Rest(r.value)>>

-----------------------------------------------------------------------------
(* Notices: the fields of each extension, and those not serialised.        *)

Position == {"input_slot", "input_block_number", "input_store_hash", "input_queue_cursor"}
Expected == {"expected_output_slot", "expected_output_block_number", "expected_output_queue_cursor"}

Extensions ==
  [Started       |-> {"latest_beacon_slot", "current_slot", "store_hash", "queue_cursor"},
   Warning       |-> {"message"},
   JobCreated    |-> {"job_id"} \cup Position \cup Expected,
   JobSucceeded  |-> {"job_id", "output_slot", "output_block_number", "output_store_hash",
                      "output_queue_cursor", "execution_state_root", "verified_requests_root",
                      "next_sync_committee_hash", "proof_request_queue_address",
                      "verified_requests", "elapsed_sec"} \cup Position,
   JobFailed     |-> {"job_id", "error", "elapsed_sec", "n_job_in_buffer"} \cup Position \cup Expected,
   FinalityTransitionDetected |->
                     {"block_number", "slot", "input_slot", "current_window", "next_window"},
   HeadAdvanced  |-> {"slot", "store_hash", "queue_cursor"}]

Kinds == DOMAIN Extensions

NotSerialized == [k \in Kinds |->
  IF k = "FinalityTransitionDetected" THEN {"input_slot", "current_window", "next_window"} ELSE {}]

(* An Option may be absent when it is read. *)
Required == [k \in Kinds |-> Extensions[k] \ {"next_window"}]

(* into_message and serialize: the message type, and the fields present.   *)
Serialized(k) == [message_type |-> k, fields |-> Extensions[k] \ NotSerialized[k]]

(* deserialize: the message type decides; fields it does not know are      *)
(* dropped.  A mutant takes the smallest type whose fields are all there.  *)
ByFields(json) ==
  {k \in Kinds : Required[k] \subseteq json.fields /\
                 \A l \in Kinds : Required[l] \subseteq json.fields =>
                                    Cardinality(Required[k]) <= Cardinality(Required[l])}

ByMessageType(json) == {k \in {json.message_type} : Required[k] \subseteq json.fields}

Deserialized(json) ==
  {[kind |-> k, fields |-> json.fields \cap Extensions[k]] : k \in ByMessageType(json)}

-----------------------------------------------------------------------------
(* The values the Rust types hold: a u64, and bytes.                       *)

IsU64(n) == n \in Nat /\ ((n \div 65536) \div 65536) \div 65536 < 65536

Byte == 0 .. 255

IsOutput(layout, o) ==
  /\ o = [name \in {f.name : f \in layout} |-> o[name]]
  /\ \A f \in layout : IF f.type = "u64" THEN IsU64(o[f.name])
                       ELSE o[f.name] \in [0 .. f.to - f.from - 1 -> Byte]

ASSUME CodingAssumption ==
  /\ \A o \in OutputsOf(Layout) : IsOutput(Layout, o)
  /\ \A o \in OutputsOf(ConsensusLayout) : IsOutput(ConsensusLayout, o)
  /\ RequestSet \subseteq [target : [0 .. 19 -> Byte], collection_keys_count : Byte,
                           key_0 : [0 .. 31 -> Byte], key_1 : [0 .. 31 -> Byte],
                           value : [0 .. 31 -> Byte]]

-----------------------------------------------------------------------------

CodingInit ==
  /\ \/ conversion = "outputs" /\ input \in OutputsOf(Layout)
     \/ conversion = "consensus" /\ input \in OutputsOf(ConsensusLayout)
     \/ conversion = "leaf" /\ input \in RequestSet
     \/ conversion = "notice" /\ input \in Kinds
  /\ stage = "start"
  /\ wire = <<>>
  /\ result = {}

Encode ==
  /\ stage = "start"
  /\ stage' = "sent"
  /\ wire' = CASE conversion = "outputs"   -> ToBytes(Layout, SIZE, input)
               [] conversion = "consensus" -> ToBytes(ConsensusLayout, CONSENSUS_SIZE, input)
               [] conversion = "leaf"      -> Pack(input)
               [] conversion = "notice"    -> Serialized(input)
  /\ UNCHANGED <<conversion, input, result>>

(* Public values of another length: cut short or with a byte too many.     *)
Damage ==
  /\ conversion \in {"outputs", "consensus"} /\ stage = "sent"
  /\ LET n == Cardinality(DOMAIN wire)
     IN  \E m \in {n - 1, n + 1} \cap {SIZE - 1, SIZE + 1, CONSENSUS_SIZE - 1, CONSENSUS_SIZE + 1} :
           wire' = [j \in 0 .. m - 1 |-> IF j < n THEN wire[j] ELSE 0]
  /\ UNCHANGED <<conversion, stage, input, result>>

(* A reader expects either form of the outputs.                            *)
Decode ==
  /\ conversion # "leaf" /\ stage = "sent"
  /\ IF conversion = "notice" THEN result' = Deserialized(wire)
     ELSE \/ result' = FromBytes(ReadLayout, SIZE, wire)
          \/ result' = FromBytes(ConsensusReadLayout, CONSENSUS_SIZE, wire)
  /\ stage' = "read"
  /\ UNCHANGED <<conversion, input, wire>>

CodingNext == Encode \/ Damage \/ Decode

CodingSpec == CodingInit /\ [][CodingNext]_codingVars

-----------------------------------------------------------------------------

CodingTypeOK ==
  /\ conversion \in {"outputs", "consensus", "leaf", "notice"}
  /\ stage \in {"start", "sent", "read"}
  /\ (\A x, y \in result : x = y) /\ (stage # "read" => result = {})
  /\ conversion = "notice" => input \in Kinds

(* What is read from public values is what the guest committed, whatever   *)
(* was read: to_bytes and from_bytes, which list the offsets of the fields *)
(* separately, agree on every field, and values of another length, or of   *)
(* the other layout, are refused and never half understood.                *)
ReadIsCommitted ==
  conversion \in {"outputs", "consensus"} /\ stage = "read" => result \subseteq {input}

(* The field elements of a leaf determine the request, the number of its   *)
(* keys included, and fit the field: their top byte is zero.               *)
LeafBindsRequest ==
  conversion = "leaf" /\ stage = "sent" =>
    /\ \A r \in RequestSet \ {input} : Pack(r) # wire
    /\ \A k \in 1 .. 4 : wire[k][31] = 0

(* A logged notice is read back as the notice it was, although the fields  *)
(* of one kind may include all of another's; only a finality transition,   *)
(* which is logged without its windows, cannot be read back.               *)
NoticeReadBack ==
  conversion = "notice" /\ stage = "read" =>
    result = IF input = "FinalityTransitionDetected" THEN {}
             ELSE {[kind |-> input, fields |-> Extensions[input]]}

=============================================================================
