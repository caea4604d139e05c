-------------------------- MODULE MCComputations --------------------------
(***************************************************************************)
(* The sequential computations: the trees (Merkle), the conversions        *)
(* (Encodings) and the prover's configuration (ProverConfig).  They share  *)
(* no state: in a behaviour one of them runs and the others have nothing   *)
(* to do.                                                                  *)
(***************************************************************************)
EXTENDS Merkle, Encodings, ProverConfig

CONSTANTS leafA, leafB,   \* leaves, model values distinct from the padding leaf
          p1, p2, p3      \* prover addresses

-----------------------------------------------------------------------------
(* Merkle: a hash without collisions, the hash of two nodes is the pair of *)
(* them.  Every vector of at most four leaves, and longer ones, up to one  *)
(* leaf more than eight, in which neighbours differ.                       *)

Pair(x, y) == <<x, y>>

Shift == [d \in 0 .. MAX_TREE_DEPTH |-> 2 ^ d]

ZeroRoots[d \in 0 .. MAX_TREE_DEPTH] ==
  IF d = 0 THEN Zero ELSE <<ZeroRoots[d - 1], ZeroRoots[d - 1]>>

(* The brute-force reference of the tests, as a tree.                      *)
HashedTree(v, d) ==
  LET T[l \in 0 .. d] ==
        [j \in 0 .. 2 ^ l - 1 |->
           IF l = d THEN Padded(v, j) ELSE Hash(T[l + 1][2 * j], T[l + 1][2 * j + 1])]
  IN  T

ShortLists == UNION {[1 .. n -> {leafA, leafB}] : n \in 0 .. 4}

LongLists == {[j \in 1 .. n |-> IF j % 3 = 0 THEN leafA ELSE leafB] : n \in 5 .. 9}

AllLists == ShortLists \cup LongLists

MerkleAtRest == leaves = <<>> /\ call = "fold"

-----------------------------------------------------------------------------
(* Encodings: outputs in which every pair of fields varies, and requests   *)
(* that differ in any one byte.                                            *)

ByteString(n, t) == [j \in 0 .. n - 1 |-> (50 * t + j) % 256]

Numbers == {1, 258, 65538}

Sample(layout) ==
  LET base == [name \in {f.name : f \in layout} |->
                 LET f == CHOOSE g \in layout : g.name = name
                 IN  IF f.type = "u64" THEN 0 ELSE ByteString(f.to - f.from, 0)]
      values(f) == IF f.type = "u64" THEN Numbers ELSE {ByteString(f.to - f.from, t) : t \in 1 .. 2}
  IN  {base} \cup
      UNION {UNION {{[base EXCEPT ![f.name] = v, ![g.name] = w] : v \in values(f), w \in values(g)} :
                      g \in layout} : f \in layout}

Zeros32 == [j \in 0 .. 31 |-> 0]

ZeroRequest ==
  [target |-> [j \in 0 .. 19 |-> 0], collection_keys_count |-> 0,
   key_0 |-> Zeros32, key_1 |-> Zeros32, value |-> Zeros32]

SomeRequests ==
  {[ZeroRequest EXCEPT !.collection_keys_count = c] : c \in 0 .. 2} \cup
  {[ZeroRequest EXCEPT !.target[j] = b] : j \in 0 .. 19, b \in {1, 255}} \cup
  UNION {{[ZeroRequest EXCEPT !.key_0[j] = b], [ZeroRequest EXCEPT !.key_1[j] = b],
          [ZeroRequest EXCEPT !.value[j] = b]} : j \in 0 .. 31, b \in {1, 255}}

(* A notice that has been read back.                                       *)
EncodingsAtRest ==
  /\ conversion = "notice" /\ input = "Warning" /\ stage = "read"
  /\ wire = [message_type |-> "Warning", fields |-> {"message"}]
  /\ result = {[kind |-> "Warning", fields |-> {"message"}]}

-----------------------------------------------------------------------------
(* ProverConfig: the environments of a network prover in which the         *)
(* settings that bear on one another vary together, those of the local     *)
(* provers, and each setting alone missing or invalid.                     *)

Base ==
  [proof_type |-> "groth16", prover |-> "network", network_mode |-> "missing",
   private_key |-> "given", rpc_url |-> "missing", min_auction_period |-> "missing",
   fulfillment_strategy |-> "missing", auction_timeout |-> "missing",
   max_price_per_pgu |-> "missing", timeout |-> "missing", skip_simulation |-> "missing",
   cycle_limit |-> "missing", gas_limit |-> "missing", whitelist |-> "missing",
   add_high_availability |-> "missing", add_default |-> "missing", whitelist_open |-> "missing"]

OptionalFlag == {"missing", "true", "false", "invalid"}
OptionalNumber == {"missing", "given", "invalid"}

LimitEnvs ==
  {[Base EXCEPT !.network_mode = m, !.skip_simulation = s, !.cycle_limit = c, !.gas_limit = g] :
     m \in {"missing", "reserved"}, s \in OptionalFlag, c \in OptionalNumber, g \in OptionalNumber}

WhitelistEnvs ==
  {[Base EXCEPT !.whitelist = w, !.add_high_availability = h, !.add_default = d, !.whitelist_open = o] :
     w \in OptionalNumber, h \in OptionalFlag, d \in OptionalFlag, o \in OptionalFlag}

FulfillmentEnvs ==
  {[Base EXCEPT !.network_mode = m, !.fulfillment_strategy = f, !.auction_timeout = t,
                !.min_auction_period = a] :
     m \in {"missing", "mainnet", "reserved", "invalid"},
     f \in {"missing", "auction", "hosted", "reserved", "invalid"},
     t \in OptionalNumber, a \in OptionalNumber}

NoProver == [Base EXCEPT !.prover = "missing"]

SingleEnvs ==
  {[Base EXCEPT ![name] = v] : name \in DOMAIN Base, v \in {"missing", "invalid"}} \cup
  {[Base EXCEPT !.prover = v] : v \in {"mock", "cpu", "cuda"}}

AllEnvs == LimitEnvs \cup WhitelistEnvs \cup FulfillmentEnvs \cup SingleEnvs

SomeProvers == {p1, p2, p3}
TwoConfigured == <<p2, p1>>
SomeFetched == {<<>>, <<p1>>, <<p3, p2, p3>>}

(* An environment that has been refused.                                   *)
ConfigAtRest ==
  /\ env = NoProver /\ phase = "refused"
  /\ config = Nothing /\ request = Nothing
  /\ extended = None /\ fetched = {}

-----------------------------------------------------------------------------

ComputationsInit ==
  \/ Init /\ EncodingsAtRest /\ ConfigAtRest
  \/ Init /\ MerkleAtRest /\ CodingInit /\ ConfigAtRest
  \/ Init /\ MerkleAtRest /\ EncodingsAtRest /\ ConfigInit

ComputationsNext ==
  \/ Next /\ UNCHANGED <<codingVars, configVars>>
  \/ CodingNext /\ UNCHANGED <<vars, configVars>>
  \/ ConfigNext /\ UNCHANGED <<vars, codingVars>>

ComputationsSpec == ComputationsInit /\ [][ComputationsNext]_<<vars, codingVars, configVars>>

(* The type invariants of Merkle, whose counters stay within the vectors   *)
(* they index, Encodings and ProverConfig.                                 *)
ComputationsTypeOK == TypeOK /\ CodingTypeOK /\ ConfigTypeOK

=============================================================================
