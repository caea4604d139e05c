--------------------------- MODULE BoundaryProofs ---------------------------
(***************************************************************************)
(* Proofs about what crosses the boundary of the process: the encodings,   *)
(* for every value of their fields, and the prover's configuration, for    *)
(* every environment and every answer of the network.                      *)
(***************************************************************************)
EXTENDS MCComputations, MerkleProofs

-----------------------------------------------------------------------------
(* Encodings.                                                              *)

LEMMA ByteShift ==
  ASSUME NEW n \in Nat
  PROVE  n \div 256 \in Nat /\ n % 256 \in Byte /\ (n \div 256) * 256 + (n % 256) = n
  BY DEF Byte

(* The eight shifts of to_be_bytes.                                        *)
LEMMA Shifts ==
  ASSUME NEW n \in Nat
  PROVE  \E s \in [0 .. 7 -> Nat] :
           /\ s[0] = n /\ \A k \in 1 .. 7 : s[k] = s[k - 1] \div 256
           /\ ToBeBytes(n) = [j \in 0 .. 7 |-> s[7 - j] % 256]
  <1> DEFINE F == [k \in 1 .. 7 |-> [m \in Nat |-> m \div 256]]
  <1>1. F \in [1 .. 7 -> [Nat -> Nat]]
    BY ByteShift
  <1>2. PICK g \in [0 .. 7 -> Nat] : IsRecursive(g, 7, n, F)
    <2> HIDE DEF F
    <2> QED
      BY <1>1, RecursiveExists
  <1>3. \A k \in 0 .. 7 : k # 0 => k \in 1 .. 7 /\ g[k - 1] \in Nat
    OBVIOUS
  <1>4. g = [k \in 0 .. 7 |-> IF k = 0 THEN n ELSE g[k - 1] \div 256]
    BY <1>2, <1>3 DEF IsRecursive
  <1> DEFINE Body(h) == [k \in 0 .. 7 |-> IF k = 0 THEN n ELSE h[k - 1] \div 256]
             chosen == CHOOSE h : h = Body(h)
  <1>5. ToBeBytes(n) = [j \in 0 .. 7 |-> chosen[7 - j] % 256]
    BY Zenon DEF ToBeBytes
  <1>6. \E h : h = Body(h)
    BY <1>4
  <1>7. chosen = Body(chosen)
    BY <1>6, Zenon
  <1>8. PICK s : s = chosen
    OBVIOUS
  <1> HIDE DEF chosen
  <1>9. /\ s = [k \in 0 .. 7 |-> IF k = 0 THEN n ELSE s[k - 1] \div 256]
        /\ ToBeBytes(n) = [j \in 0 .. 7 |-> s[7 - j] % 256]
    BY <1>5, <1>7, <1>8
  <1> HIDE DEF Body
  <1> DEFINE S == {k \in Nat : k <= 7 => s[k] \in Nat}
  <1>10. 0 \in S
    BY <1>9
  <1>11. ASSUME NEW k \in Nat, k \in S
         PROVE  k + 1 \in S
    <2> SUFFICES ASSUME k + 1 <= 7
                 PROVE  s[k + 1] \in Nat
      OBVIOUS
    <2>1. k + 1 \in 0 .. 7 /\ k + 1 # 0 /\ (k + 1) - 1 = k /\ s[k] \in Nat
      BY <1>11
    <2>2. s[k + 1] = s[k] \div 256
      BY <1>9, <2>1
    <2> QED
      BY <2>1, <2>2, ByteShift
  <1>12. \A k \in Nat : k \in S
    <2> HIDE DEF S
    <2> QED
      BY <1>10, <1>11, Induct
  <1>13. s \in [0 .. 7 -> Nat]
    BY <1>9, <1>12
  <1> QED
    BY <1>9, <1>13

(* The eight steps of from_be_bytes.                                       *)
LEMMA Reads ==
  ASSUME NEW b \in [0 .. 7 -> Byte]
  PROVE  \E r \in [0 .. 8 -> Nat] :
           /\ r[0] = 0 /\ \A k \in 1 .. 8 : r[k] = r[k - 1] * 256 + b[k - 1]
           /\ FromBeBytes(b) = r[8]
  <1>0. \A k \in 1 .. 8 : b[k - 1] \in Nat
    <2>1. \A k \in 1 .. 8 : k - 1 \in 0 .. 7
      OBVIOUS
    <2>2. \A j \in 0 .. 7 : b[j] \in Byte
      BY Zenon
    <2>3. \A n \in Byte : n \in Nat
      BY DEF Byte
    <2> QED
      BY <2>1, <2>2, <2>3, Zenon
  <1> DEFINE F == [k \in 1 .. 8 |-> [m \in Nat |-> m * 256 + b[k - 1]]]
  <1>1. F \in [1 .. 8 -> [Nat -> Nat]]
    BY <1>0
  <1>2. PICK g \in [0 .. 8 -> Nat] : IsRecursive(g, 8, 0, F)
    <2> HIDE DEF F
    <2> QED
      BY <1>1, RecursiveExists
  <1>3. \A k \in 0 .. 8 : k # 0 => k \in 1 .. 8 /\ g[k - 1] \in Nat
    OBVIOUS
  <1>4. g = [k \in 0 .. 8 |-> IF k = 0 THEN 0 ELSE g[k - 1] * 256 + b[k - 1]]
    BY <1>2, <1>3 DEF IsRecursive
  <1> DEFINE Body(h) == [k \in 0 .. 8 |-> IF k = 0 THEN 0 ELSE h[k - 1] * 256 + b[k - 1]]
             chosen == CHOOSE h : h = Body(h)
  <1>5. FromBeBytes(b) = chosen[8]
    BY Zenon DEF FromBeBytes
  <1>6. \E h : h = Body(h)
    BY <1>4
  <1>7. chosen = Body(chosen)
    BY <1>6, Zenon
  <1>8. PICK r : r = chosen
    OBVIOUS
  <1> HIDE DEF chosen
  <1>9. /\ r = [k \in 0 .. 8 |-> IF k = 0 THEN 0 ELSE r[k - 1] * 256 + b[k - 1]]
        /\ FromBeBytes(b) = r[8]
    BY <1>5, <1>7, <1>8
  <1> HIDE DEF Body
  <1> DEFINE S == {k \in Nat : k <= 8 => r[k] \in Nat}
  <1>10. 0 \in S
    BY <1>9
  <1>11. ASSUME NEW k \in Nat, k \in S
         PROVE  k + 1 \in S
    <2> SUFFICES ASSUME k + 1 <= 8
                 PROVE  r[k + 1] \in Nat
      OBVIOUS
    <2>1. k + 1 \in 0 .. 8 /\ k + 1 \in 1 .. 8 /\ k + 1 # 0 /\ (k + 1) - 1 = k /\ r[k] \in Nat
      BY <1>11
    <2>2. r[k + 1] = r[k] * 256 + b[k] /\ b[k] \in Nat
      BY <1>0, <1>9, <2>1
    <2> QED
      BY <2>1, <2>2
  <1>12. \A k \in Nat : k \in S
    <2> HIDE DEF S
    <2> QED
      BY <1>10, <1>11, Induct
  <1>13. r \in [0 .. 8 -> Nat]
    BY <1>9, <1>12
  <1> QED
    BY <1>9, <1>13

LEMMA TwoShifts ==
  ASSUME NEW a \in Nat
  PROVE  (a \div 256) \div 256 = a \div 65536
  OBVIOUS

LEMMA LastShift ==
  ASSUME NEW a \in Nat, a < 65536
  PROVE  a \div 256 < 256
  OBVIOUS

LEMMA TopByte ==
  ASSUME NEW a \in Nat, a < 256
  PROVE  0 * 256 + (a % 256) = a
  OBVIOUS

(* A u64 is read back from its bytes.                                      *)
LEMMA BytesReadBack ==
  ASSUME NEW n, IsU64(n)
  PROVE  ToBeBytes(n) \in [0 .. 7 -> Byte] /\ FromBeBytes(ToBeBytes(n)) = n
  <1>1. n \in Nat /\ ((n \div 65536) \div 65536) \div 65536 < 65536
    BY DEF IsU64
  <1>2. PICK s \in [0 .. 7 -> Nat] :
           /\ s[0] = n /\ \A k \in 1 .. 7 : s[k] = s[k - 1] \div 256
           /\ ToBeBytes(n) = [j \in 0 .. 7 |-> s[7 - j] % 256]
    BY <1>1, Shifts
  <1>3. PICK b : b = ToBeBytes(n)
    OBVIOUS
  <1>4. b \in [0 .. 7 -> Byte]
    <2>1. \A j \in 0 .. 7 : 7 - j \in 0 .. 7 /\ s[7 - j] \in Nat
      OBVIOUS
    <2> QED
      BY <1>2, <1>3, <2>1, ByteShift
  <1>5. PICK r \in [0 .. 8 -> Nat] :
           /\ r[0] = 0 /\ \A k \in 1 .. 8 : r[k] = r[k - 1] * 256 + b[k - 1]
           /\ FromBeBytes(b) = r[8]
    BY <1>4, Reads
  <1>6. \A k \in 1 .. 8 : r[k] = r[k - 1] * 256 + (s[8 - k] % 256)
    <2>1. \A k \in 1 .. 8 : k - 1 \in 0 .. 7 /\ 7 - (k - 1) = 8 - k
      OBVIOUS
    <2> QED
      BY <1>2, <1>3, <1>5, <2>1
  <1>7. \A k \in 0 .. 5 : s[k + 2] = s[k] \div 65536
    <2> TAKE k \in 0 .. 5
    <2>1. /\ k + 1 \in 1 .. 7 /\ k + 2 \in 1 .. 7 /\ (k + 1) - 1 = k /\ (k + 2) - 1 = k + 1
          /\ s[k] \in Nat
      OBVIOUS
    <2>2. s[k + 1] = s[k] \div 256 /\ s[k + 2] = s[k + 1] \div 256
      BY <1>2, <2>1
    <2> QED
      BY <2>1, <2>2, TwoShifts
  <1>8. s[7] < 256
    <2>1. s[2] = s[0] \div 65536 /\ s[4] = s[2] \div 65536 /\ s[6] = s[4] \div 65536
      BY <1>7
    <2>2. s[6] < 65536
      BY <1>1, <1>2, <2>1
    <2>3. s[7] = s[6] \div 256 /\ s[6] \in Nat
      BY <1>2
    <2> QED
      BY <2>2, <2>3, LastShift
  <1> DEFINE S == {k \in Nat : k <= 7 => r[k + 1] = s[7 - k]}
  <1>9. 0 \in S
    <2>1. r[1] = r[0] * 256 + (s[7] % 256) /\ s[7] \in Nat
      BY <1>6
    <2>2. PICK t \in Nat : t = s[7]
      BY <2>1
    <2>3. r[1] = 0 * 256 + (t % 256)
      BY <1>5, <2>1, <2>2
    <2>4. r[1] = t
      BY <1>8, <2>2, <2>3, TopByte
    <2> QED
      BY <2>2, <2>4
  <1>10. ASSUME NEW k \in Nat, k \in S
         PROVE  k + 1 \in S
    <2> SUFFICES ASSUME k + 1 <= 7
                 PROVE  r[(k + 1) + 1] = s[7 - (k + 1)]
      OBVIOUS
    <2>1. PICK j \in 0 .. 6 : j = 7 - (k + 1)
      OBVIOUS
    <2>2. /\ j + 1 = 7 - k /\ (k + 1) + 1 \in 1 .. 8 /\ ((k + 1) + 1) - 1 = k + 1
          /\ 8 - ((k + 1) + 1) = j
      BY <2>1
    <2>3. s[j + 1] = s[j] \div 256 /\ s[j] \in Nat
      <3>1. j + 1 \in 1 .. 7 /\ (j + 1) - 1 = j /\ j \in 0 .. 7
        OBVIOUS
      <3> QED
        BY <1>2, <3>1
    <2>4. r[k + 1] = s[j] \div 256
      BY <1>10, <2>2, <2>3
    <2>5. r[(k + 1) + 1] = r[k + 1] * 256 + (s[j] % 256)
      BY <1>6, <2>2
    <2>6. r[(k + 1) + 1] = s[j]
      BY <2>3, <2>4, <2>5, ByteShift
    <2> QED
      BY <2>1, <2>6
  <1>11. 7 \in S
    <2> HIDE DEF S
    <2> QED
      BY <1>9, <1>10, Induct
  <1>12. r[8] = s[0]
    BY <1>11
  <1> QED
    BY <1>2, <1>3, <1>4, <1>5, <1>12

(* A layout whose fields have distinct names and do not overlap, with      *)
(* eight bytes for a number.                                               *)
WellFormed(layout, size) ==
  /\ size \in Nat
  /\ \A f \in layout : /\ f.from \in Nat /\ f.to \in Nat /\ f.from < f.to /\ f.to <= size
                       /\ f.type = "u64" => f.to = f.from + 8
  /\ \A f, g \in layout : f.name = g.name \/ (f.from < g.to /\ g.from < f.to) => f = g

Row(f, name, from, to, type) ==
  f = Field(name, from, to, type) /\ f.name = name /\ f.from = from /\ f.to = to /\ f.type = type

LEMMA FieldRow == \A name, from, to, type : Row(Field(name, from, to, type), name, from, to, type)
  BY DEF Field, Row

LEMMA LayoutRows ==
  ASSUME NEW f \in Layout
  PROVE  \/ Row(f, "input_slot", 0, 8, "u64")
         \/ Row(f, "input_store_hash", 8, 40, "bytes")
         \/ Row(f, "output_slot", 40, 48, "u64")
         \/ Row(f, "output_store_hash", 48, 80, "bytes")
         \/ Row(f, "execution_state_root", 80, 112, "bytes")
         \/ Row(f, "verified_requests_root", 112, 144, "bytes")
         \/ Row(f, "next_sync_committee_hash", 144, 176, "bytes")
         \/ Row(f, "proof_request_queue_address", 176, 196, "bytes")
         \/ Row(f, "input_queue_cursor", 196, 204, "u64")
         \/ Row(f, "output_queue_cursor", 204, 212, "u64")
         \/ Row(f, "output_block_number", 212, 220, "u64")
  BY FieldRow DEF Layout

LEMMA LayoutWellFormed == WellFormed(Layout, SIZE)
  <1>1. ASSUME NEW f \in Layout
        PROVE  /\ f.from \in Nat /\ f.to \in Nat /\ f.from < f.to /\ f.to <= SIZE
               /\ f.type = "u64" => f.to = f.from + 8
    BY LayoutRows DEF Row, SIZE
  <1>2. ASSUME NEW f \in Layout, NEW g \in Layout, f.name = g.name
        PROVE  f = g
    BY <1>2, LayoutRows DEF Row
  <1>3. ASSUME NEW f \in Layout, NEW g \in Layout, f.from < g.to, g.from < f.to
        PROVE  f = g
    BY <1>3, LayoutRows DEF Row
  <1> QED
    BY <1>1, <1>2, <1>3 DEF WellFormed, SIZE

LEMMA ConsensusLayoutRows ==
  ASSUME NEW f \in ConsensusLayout
  PROVE  \/ Row(f, "input_slot", 0, 8, "u64")
         \/ Row(f, "input_store_hash", 8, 40, "bytes")
         \/ Row(f, "output_slot", 40, 48, "u64")
         \/ Row(f, "output_store_hash", 48, 80, "bytes")
         \/ Row(f, "execution_state_root", 80, 112, "bytes")
         \/ Row(f, "next_sync_committee_hash", 112, 144, "bytes")
         \/ Row(f, "output_block_number", 144, 152, "u64")
  BY FieldRow DEF ConsensusLayout

LEMMA ConsensusLayoutWellFormed == WellFormed(ConsensusLayout, CONSENSUS_SIZE)
  <1>1. ASSUME NEW f \in ConsensusLayout
        PROVE  /\ f.from \in Nat /\ f.to \in Nat /\ f.from < f.to /\ f.to <= CONSENSUS_SIZE
               /\ f.type = "u64" => f.to = f.from + 8
    BY ConsensusLayoutRows DEF Row, CONSENSUS_SIZE
  <1>2. ASSUME NEW f \in ConsensusLayout, NEW g \in ConsensusLayout, f.name = g.name
        PROVE  f = g
    BY <1>2, ConsensusLayoutRows DEF Row
  <1>3. ASSUME NEW f \in ConsensusLayout, NEW g \in ConsensusLayout, f.from < g.to, g.from < f.to
        PROVE  f = g
    BY <1>3, ConsensusLayoutRows DEF Row
  <1> QED
    BY <1>1, <1>2, <1>3 DEF WellFormed, CONSENSUS_SIZE

(* from_bytes reads what to_bytes wrote, field by field.                   *)
LEMMA OutputReadBack ==
  ASSUME NEW layout, NEW size, WellFormed(layout, size), NEW o, IsOutput(layout, o)
  PROVE  /\ DOMAIN ToBytes(layout, size, o) = 0 .. size - 1
         /\ FromBytes(layout, size, ToBytes(layout, size, o)) = {o}
  <1>1. PICK bytes : bytes = ToBytes(layout, size, o)
    OBVIOUS
  <1> DEFINE Encoded(f) == IF f.type = "u64" THEN ToBeBytes(o[f.name]) ELSE o[f.name]
             FieldAt(j) == CHOOSE g \in layout : g.from <= j /\ j < g.to
             Named(name) == CHOOSE g \in layout : g.name = name
             Slice(f) == [j \in 0 .. f.to - f.from - 1 |-> bytes[f.from + j]]
             Value(f) == IF f.type = "u64" THEN FromBeBytes(Slice(f)) ELSE Slice(f)
  <1>2. bytes = [j \in 0 .. size - 1 |-> Encoded(FieldAt(j))[j - FieldAt(j).from]]
    BY <1>1 DEF ToBytes
  <1>3. ASSUME NEW f \in layout
        PROVE  Named(f.name) = f
    BY DEF WellFormed
  <1>4. ASSUME NEW f \in layout
        PROVE  Slice(f) = Encoded(f)
    <2>1. /\ f.from \in Nat /\ f.to \in Nat /\ f.from < f.to /\ f.to <= size /\ size \in Nat
          /\ f.type = "u64" => f.to = f.from + 8
      BY DEF WellFormed
    <2>2. ASSUME NEW j \in 0 .. f.to - f.from - 1
          PROVE  Slice(f)[j] = Encoded(f)[j]
      <3>1. /\ f.from + j \in 0 .. size - 1 /\ f.from + j \in Nat
            /\ f.from <= f.from + j /\ f.from + j < f.to /\ (f.from + j) - f.from = j
        BY <2>1
      <3>2. FieldAt(f.from + j) \in layout
            /\ FieldAt(f.from + j).from <= f.from + j /\ f.from + j < FieldAt(f.from + j).to
        BY <3>1
      <3>3. PICK g \in layout : g = FieldAt(f.from + j)
        BY <3>2
      <3>4. g.from \in Nat /\ g.to \in Nat /\ g.from < f.to /\ f.from < g.to
        BY <2>1, <3>1, <3>2, <3>3 DEF WellFormed
      <3>5. g = f
        BY <3>4 DEF WellFormed
      <3>6. bytes[f.from + j] = Encoded(f)[j]
        <4> HIDE DEF Encoded, FieldAt
        <4> QED
          BY <1>2, <3>1, <3>3, <3>5
      <3> HIDE DEF Encoded
      <3> QED
        BY <3>6
    <2>3. Encoded(f) = [j \in 0 .. f.to - f.from - 1 |-> Encoded(f)[j]]
      <3>1. CASE f.type = "u64"
        <4>1. IsU64(o[f.name])
          BY <3>1 DEF IsOutput
        <4>2. ToBeBytes(o[f.name]) \in [0 .. 7 -> Byte]
          BY <4>1, BytesReadBack
        <4>3. f.to - f.from - 1 = 7
          BY <2>1, <3>1
        <4> QED
          BY <3>1, <4>2, <4>3
      <3>2. CASE f.type # "u64"
        <4>1. o[f.name] \in [0 .. f.to - f.from - 1 -> Byte]
          BY <3>2 DEF IsOutput
        <4> QED
          BY <3>2, <4>1
      <3> QED
        BY <3>1, <3>2
    <2>4. Slice(f) = [j \in 0 .. f.to - f.from - 1 |-> Slice(f)[j]]
      OBVIOUS
    <2> HIDE DEF Slice, Encoded
    <2> QED
      BY <2>2, <2>3, <2>4
  <1>5. ASSUME NEW f \in layout
        PROVE  Value(f) = o[f.name]
    <2>1. CASE f.type = "u64"
      <3>1. IsU64(o[f.name])
        BY <2>1 DEF IsOutput
      <3>2. Slice(f) = ToBeBytes(o[f.name])
        BY <1>4, <2>1
      <3> HIDE DEF Slice
      <3> QED
        BY <2>1, <3>1, <3>2, BytesReadBack
    <2>2. CASE f.type # "u64"
      <3>1. Slice(f) = o[f.name]
        BY <1>4, <2>2
      <3> HIDE DEF Slice
      <3> QED
        BY <2>2, <3>1
    <2> QED
      BY <2>1, <2>2
  <1>6. DOMAIN bytes = 0 .. size - 1
    BY <1>2
  <1>7. FromBytes(layout, size, bytes) = {[name \in {f.name : f \in layout} |-> Value(Named(name))]}
    BY <1>6 DEF FromBytes
  <1>8. \A name \in {f.name : f \in layout} : Value(Named(name)) = o[name]
    <2> HIDE DEF Value, Named
    <2> QED
      BY <1>3, <1>5
  <1>9. FromBytes(layout, size, bytes) = {[name \in {f.name : f \in layout} |-> o[name]]}
    <2> HIDE DEF Value, Named
    <2> QED
      BY <1>7, <1>8
  <1> QED
    BY <1>1, <1>6, <1>9 DEF IsOutput

(* The four field elements hold every byte of the request, and zero in the *)
(* top byte.                                                               *)
LEMMA RestBytes ==
  ASSUME NEW b, NEW c, Rest(b) = Rest(c)
  PROVE  \A j \in 1 .. 31 : b[j] = c[j]
  <1> TAKE j \in 1 .. 31
  <1>1. j - 1 \in 0 .. 30 /\ j - 1 \in 0 .. 31 /\ (j - 1) + 1 = j
    OBVIOUS
  <1>2. Rest(b)[j - 1] = b[j] /\ Rest(c)[j - 1] = c[j]
    BY <1>1 DEF Rest, FieldBytes
  <1> QED
    BY <1>2

LEMMA FirstBytesHold ==
  ASSUME NEW r
  PROVE  /\ \A j \in 0 .. 19 : FirstBytes(r)[j] = r.target[j]
         /\ FirstBytes(r)[20] = r.collection_keys_count
         /\ FirstBytes(r)[21] = r.key_0[0] /\ FirstBytes(r)[22] = r.key_1[0]
         /\ FirstBytes(r)[23] = r.value[0]
         /\ FirstBytes(r)[31] = 0
  <1> DEFINE tail == <<r.collection_keys_count, r.key_0[0], r.key_1[0], r.value[0]>>
  <1>1. \A j \in 0 .. 31 :
          FirstBytes(r)[j] = IF j \in 0 .. 23
                               THEN (IF j < 20 THEN r.target[j] ELSE tail[j - 19])
                               ELSE 0
    BY DEF FirstBytes, FieldBytes
  <1>2. /\ tail[1] = r.collection_keys_count /\ tail[2] = r.key_0[0]
        /\ tail[3] = r.key_1[0] /\ tail[4] = r.value[0]
    OBVIOUS
  <1> HIDE DEF tail
  <1>3. \A j \in 0 .. 19 : j \in 0 .. 31 /\ j \in 0 .. 23 /\ j < 20
    OBVIOUS
  <1>4. FirstBytes(r)[20] = tail[1] /\ FirstBytes(r)[21] = tail[2]
        /\ FirstBytes(r)[22] = tail[3] /\ FirstBytes(r)[23] = tail[4]
    BY <1>1
  <1>5. FirstBytes(r)[31] = 0
    BY <1>1
  <1> QED
    BY <1>1, <1>2, <1>3, <1>4, <1>5

RequestType ==
  [target : [0 .. 19 -> Byte], collection_keys_count : Byte,
   key_0 : [0 .. 31 -> Byte], key_1 : [0 .. 31 -> Byte], value : [0 .. 31 -> Byte]]

LEMMA SameWord ==
  ASSUME NEW b \in [0 .. 31 -> Byte], NEW c \in [0 .. 31 -> Byte], b[0] = c[0], Rest(b) = Rest(c)
  PROVE  b = c
  <1>1. \A j \in 0 .. 31 : b[j] = c[j]
    <2> TAKE j \in 0 .. 31
    <2>1. j = 0 \/ j \in 1 .. 31
      OBVIOUS
    <2> QED
      BY <2>1, RestBytes
  <1> QED
    BY <1>1

LEMMA PackInjective ==
  ASSUME NEW r \in RequestType, NEW s \in RequestType, Pack(r) = Pack(s)
  PROVE  r = s
  <1>1. FirstBytes(r) = FirstBytes(s) /\ Rest(r.key_0) = Rest(s.key_0)
        /\ Rest(r.key_1) = Rest(s.key_1) /\ Rest(r.value) = Rest(s.value)
    BY DEF Pack
  <1>2. /\ r.target \in [0 .. 19 -> Byte] /\ s.target \in [0 .. 19 -> Byte]
        /\ r.key_0 \in [0 .. 31 -> Byte] /\ s.key_0 \in [0 .. 31 -> Byte]
        /\ r.key_1 \in [0 .. 31 -> Byte] /\ s.key_1 \in [0 .. 31 -> Byte]
        /\ r.value \in [0 .. 31 -> Byte] /\ s.value \in [0 .. 31 -> Byte]
    BY DEF RequestType
  <1>3. /\ \A j \in 0 .. 19 : r.target[j] = s.target[j]
        /\ r.collection_keys_count = s.collection_keys_count
        /\ r.key_0[0] = s.key_0[0] /\ r.key_1[0] = s.key_1[0] /\ r.value[0] = s.value[0]
    <2>1. PICK f : f = FirstBytes(r) /\ f = FirstBytes(s)
      BY <1>1
    <2>2. /\ \A j \in 0 .. 19 : f[j] = r.target[j]
          /\ f[20] = r.collection_keys_count
          /\ f[21] = r.key_0[0] /\ f[22] = r.key_1[0] /\ f[23] = r.value[0]
      BY <2>1, FirstBytesHold
    <2>3. /\ \A j \in 0 .. 19 : f[j] = s.target[j]
          /\ f[20] = s.collection_keys_count
          /\ f[21] = s.key_0[0] /\ f[22] = s.key_1[0] /\ f[23] = s.value[0]
      BY <2>1, FirstBytesHold
    <2> QED
      BY <2>2, <2>3
  <1>4. r.target = s.target
    BY <1>2, <1>3
  <1>5. r.key_0 = s.key_0 /\ r.key_1 = s.key_1 /\ r.value = s.value
    BY <1>1, <1>2, <1>3, SameWord
  <1> QED
    BY <1>3, <1>4, <1>5 DEF RequestType

LEMMA PackFits ==
  ASSUME NEW r
  PROVE  \A k \in 1 .. 4 : Pack(r)[k][31] = 0
  <1>1. FirstBytes(r)[31] = 0
    BY FirstBytesHold
  <1>2. \A b : Rest(b)[31] = 0
    BY DEF Rest, FieldBytes
  <1> QED
    BY <1>1, <1>2 DEF Pack

(* Notices.                                                                *)
LEMMA NoticeDecoded ==
  ASSUME NEW k \in Kinds
  PROVE  Deserialized(Serialized(k)) = IF k = "FinalityTransitionDetected" THEN {}
                                       ELSE {[kind |-> k, fields |-> Extensions[k]]}
  <1>1. CASE k # "FinalityTransitionDetected"
    <2>1. NotSerialized[k] = {} /\ Required[k] \subseteq Extensions[k]
      BY <1>1 DEF NotSerialized, Required
    <2>2. Serialized(k).fields = Extensions[k] /\ Serialized(k).message_type = k
      BY <2>1 DEF Serialized
    <2>3. ByMessageType(Serialized(k)) = {k}
      BY <2>1, <2>2 DEF ByMessageType
    <2>4. Deserialized(Serialized(k)) = {[kind |-> k, fields |-> Extensions[k] \cap Extensions[k]]}
      BY <2>2, <2>3 DEF Deserialized
    <2>5. Extensions[k] \cap Extensions[k] = Extensions[k]
      OBVIOUS
    <2> QED
      BY <1>1, <2>4, <2>5
  <1>2. CASE k = "FinalityTransitionDetected"
    <2>1. "input_slot" \in Extensions[k]
      BY <1>2 DEF Extensions
    <2>2. "input_slot" \in NotSerialized[k] /\ "input_slot" \in Required[k]
      BY <1>2, <2>1 DEF NotSerialized, Required
    <2>3. "input_slot" \notin Serialized(k).fields /\ Serialized(k).message_type = k
      BY <2>2 DEF Serialized
    <2>4. ByMessageType(Serialized(k)) = {}
      BY <2>2, <2>3 DEF ByMessageType
    <2> QED
      BY <1>2, <2>4 DEF Deserialized
  <1> QED
    BY <1>1, <1>2

(* The state between the two ends: the wire holds the encoding of the      *)
(* input, or public values of a length neither reader accepts.             *)
WrongSizes == {SIZE - 1, SIZE + 1, CONSENSUS_SIZE - 1, CONSENSUS_SIZE + 1}

Sound(layout, size) ==
  /\ IsOutput(layout, input)
  /\ stage = "sent" => \/ wire = ToBytes(layout, size, input)
                       \/ \E m \in WrongSizes : DOMAIN wire = 0 .. m - 1
  /\ stage = "read" => result \subseteq {input}

CodingInv ==
  /\ conversion \in {"outputs", "consensus", "leaf", "notice"}
  /\ stage \in {"start", "sent", "read"}
  /\ conversion = "outputs" => Sound(Layout, SIZE)
  /\ conversion = "consensus" => Sound(ConsensusLayout, CONSENSUS_SIZE)
  /\ conversion = "leaf" => input \in RequestSet /\ (stage = "sent" => wire = Pack(input))
  /\ conversion = "notice" => /\ input \in Kinds
                              /\ stage = "sent" => wire = Serialized(input)
                              /\ stage = "read" => result = Deserialized(Serialized(input))

LEMMA CodingInitOK == CodingInit => CodingInv
  BY CodingAssumption DEF CodingInit, CodingInv, Sound

(* The offsets that from_bytes reads are those that to_bytes writes.       *)
LEMMA ReadersAgree == ReadLayout = Layout /\ ConsensusReadLayout = ConsensusLayout
  BY DEF ReadLayout, Layout, ConsensusReadLayout, ConsensusLayout

LEMMA IntervalsDiffer ==
  ASSUME NEW m \in Nat, NEW n \in Nat, m < n
  PROVE  0 .. m - 1 # 0 .. n - 1
  <1>1. n - 1 \in 0 .. n - 1 /\ n - 1 \notin 0 .. m - 1
    OBVIOUS
  <1> QED
    BY <1>1

(* Each reader takes public values of its own length only.                 *)
LEMMA OtherLengthRefused ==
  ASSUME NEW bytes, NEW m \in Nat, DOMAIN bytes = 0 .. m - 1
  PROVE  /\ m # SIZE => FromBytes(Layout, SIZE, bytes) = {}
         /\ m # CONSENSUS_SIZE => FromBytes(ConsensusLayout, CONSENSUS_SIZE, bytes) = {}
  <1>1. SIZE \in Nat /\ CONSENSUS_SIZE \in Nat
    BY DEF SIZE, CONSENSUS_SIZE
  <1>2. m # SIZE => DOMAIN bytes # 0 .. SIZE - 1
    BY <1>1, IntervalsDiffer
  <1>3. m # CONSENSUS_SIZE => DOMAIN bytes # 0 .. CONSENSUS_SIZE - 1
    BY <1>1, IntervalsDiffer
  <1> QED
    BY <1>2, <1>3 DEF FromBytes

LEMMA EncodeOK == CodingInv /\ Encode => CodingInv'
  <1> SUFFICES ASSUME CodingInv, Encode
               PROVE  CodingInv'
    OBVIOUS
  <1>1. UNCHANGED <<conversion, input, result>> /\ stage' = "sent"
    BY DEF Encode
  <1>2. CASE conversion = "outputs"
    <2>1. wire' = ToBytes(Layout, SIZE, input)
      BY <1>2 DEF Encode
    <2> QED
      BY <1>1, <1>2, <2>1 DEF CodingInv, Sound
  <1>3. CASE conversion = "consensus"
    <2>1. wire' = ToBytes(ConsensusLayout, CONSENSUS_SIZE, input)
      BY <1>3 DEF Encode
    <2> QED
      BY <1>1, <1>3, <2>1 DEF CodingInv, Sound
  <1>4. CASE conversion = "leaf"
    <2>1. wire' = Pack(input)
      BY <1>4 DEF Encode
    <2> QED
      BY <1>1, <1>4, <2>1 DEF CodingInv, Sound
  <1>5. CASE conversion = "notice"
    <2>1. wire' = Serialized(input)
      BY <1>5 DEF Encode
    <2> QED
      BY <1>1, <1>5, <2>1 DEF CodingInv, Sound
  <1> QED
    BY <1>2, <1>3, <1>4, <1>5 DEF CodingInv

LEMMA DamageOK == CodingInv /\ Damage => CodingInv'
  <1> SUFFICES ASSUME CodingInv, Damage
               PROVE  CodingInv'
    OBVIOUS
  <1>1. UNCHANGED <<conversion, stage, input, result>> /\ conversion \in {"outputs", "consensus"}
    BY DEF Damage
  <1>2. \E m \in WrongSizes : DOMAIN wire' = 0 .. m - 1
    BY DEF Damage, WrongSizes
  <1> QED
    BY <1>1, <1>2 DEF CodingInv, Sound

LEMMA ReadSound ==
  ASSUME NEW layout, NEW size, Sound(layout, size), stage = "sent",
         <<layout, size>> \in {<<Layout, SIZE>>, <<ConsensusLayout, CONSENSUS_SIZE>>}
  PROVE  /\ FromBytes(Layout, SIZE, wire) \subseteq {input}
         /\ FromBytes(ConsensusLayout, CONSENSUS_SIZE, wire) \subseteq {input}
  <1>0. SIZE = 220 /\ CONSENSUS_SIZE = 152
    BY DEF SIZE, CONSENSUS_SIZE
  <1>1. PICK w, o : w = wire /\ o = input
    OBVIOUS
  <1>2. CASE w = ToBytes(layout, size, o)
    <2>1. WellFormed(layout, size) /\ IsOutput(layout, o) /\ size \in Nat
      BY <1>0, <1>1, LayoutWellFormed, ConsensusLayoutWellFormed DEF Sound
    <2>2. DOMAIN w = 0 .. size - 1 /\ FromBytes(layout, size, w) = {o}
      BY <1>2, <2>1, OutputReadBack
    <2>3. /\ size # SIZE => FromBytes(Layout, SIZE, w) = {}
          /\ size # CONSENSUS_SIZE => FromBytes(ConsensusLayout, CONSENSUS_SIZE, w) = {}
      BY <2>1, <2>2, OtherLengthRefused
    <2>4. CASE layout = Layout /\ size = SIZE
      BY <1>0, <1>1, <2>2, <2>3, <2>4
    <2>5. CASE layout = ConsensusLayout /\ size = CONSENSUS_SIZE
      BY <1>0, <1>1, <2>2, <2>3, <2>5
    <2> QED
      BY <2>4, <2>5
  <1>3. CASE \E m \in WrongSizes : DOMAIN w = 0 .. m - 1
    <2>1. PICK m \in Nat : m # SIZE /\ m # CONSENSUS_SIZE /\ DOMAIN w = 0 .. m - 1
      BY <1>0, <1>3 DEF WrongSizes
    <2> QED
      BY <1>1, <2>1, OtherLengthRefused
  <1> QED
    BY <1>1, <1>2, <1>3 DEF Sound

LEMMA DecodeOK == CodingInv /\ Decode => CodingInv'
  <1> SUFFICES ASSUME CodingInv, Decode
               PROVE  CodingInv'
    OBVIOUS
  <1>1. /\ UNCHANGED <<conversion, input, wire>> /\ stage = "sent" /\ stage' = "read"
        /\ conversion # "leaf"
    BY DEF Decode
  <1>2. CASE conversion = "outputs"
    <2>1. Sound(Layout, SIZE)
      BY <1>2 DEF CodingInv
    <2>2. result' \subseteq {input}
      BY <1>1, <1>2, <2>1, ReadSound, ReadersAgree DEF Decode
    <2> QED
      BY <1>1, <1>2, <2>1, <2>2 DEF CodingInv, Sound
  <1>3. CASE conversion = "consensus"
    <2>1. Sound(ConsensusLayout, CONSENSUS_SIZE)
      BY <1>3 DEF CodingInv
    <2>2. result' \subseteq {input}
      BY <1>1, <1>3, <2>1, ReadSound, ReadersAgree DEF Decode
    <2> QED
      BY <1>1, <1>3, <2>1, <2>2 DEF CodingInv, Sound
  <1>4. CASE conversion = "notice"
    BY <1>1, <1>4 DEF CodingInv, Decode
  <1> QED
    BY <1>1, <1>2, <1>3, <1>4 DEF CodingInv

LEMMA CodingInvariant == CodingSpec => []CodingInv
  <1>1. CodingInv /\ [CodingNext]_codingVars => CodingInv'
    <2>1. CodingInv /\ UNCHANGED codingVars => CodingInv'
      BY DEF codingVars, CodingInv, Sound
    <2> QED
      BY <2>1, EncodeOK, DamageOK, DecodeOK DEF CodingNext
  <1> QED
    BY <1>1, CodingInitOK, PTL DEF CodingSpec

(* For all values the public outputs' types can hold, of both layouts:     *)
(* what either reader takes from public values, damaged or not, is what    *)
(* the guest committed.                                                    *)
THEOREM ReadIsAlwaysCommitted == CodingSpec => []ReadIsCommitted
  <1>1. CodingInv => ReadIsCommitted
    BY DEF CodingInv, Sound, ReadIsCommitted
  <1> QED
    BY <1>1, CodingInvariant, PTL

(* For all requests: pack_request_leaf_fields is injective, and its field  *)
(* elements fit.                                                           *)
THEOREM LeavesBindRequests == CodingSpec => []LeafBindsRequest
  <1>1. CodingInv => LeafBindsRequest
    <2> SUFFICES ASSUME CodingInv, conversion = "leaf", stage = "sent"
                 PROVE  /\ \A r \in RequestSet \ {input} : Pack(r) # wire
                        /\ \A k \in 1 .. 4 : wire[k][31] = 0
      BY DEF LeafBindsRequest
    <2>1. input \in RequestSet /\ wire = Pack(input) /\ RequestSet \subseteq RequestType
      BY CodingAssumption DEF CodingInv, RequestType
    <2>2. PICK s \in RequestType : s = input
      BY <2>1
    <2>3. \A r \in RequestSet \ {s} : Pack(r) # Pack(s)
      BY <2>1, PackInjective
    <2>4. \A k \in 1 .. 4 : Pack(s)[k][31] = 0
      BY PackFits
    <2> QED
      BY <2>1, <2>2, <2>3, <2>4
  <1> QED
    BY <1>1, CodingInvariant, PTL

(* Every kind of notice but the finality transition is read back as it was.*)
THEOREM NoticesReadBack == CodingSpec => []NoticeReadBack
  <1>1. CodingInv => NoticeReadBack
    <2> SUFFICES ASSUME CodingInv, conversion = "notice", stage = "read"
                 PROVE  result = IF input = "FinalityTransitionDetected" THEN {}
                                 ELSE {[kind |-> input, fields |-> Extensions[input]]}
      BY DEF NoticeReadBack
    <2>1. PICK k \in Kinds : k = input /\ result = Deserialized(Serialized(k))
      BY DEF CodingInv
    <2> QED
      BY <2>1, NoticeDecoded
  <1> QED
    BY <1>1, CodingInvariant, PTL

-----------------------------------------------------------------------------
(* ProverConfig.                                                           *)

(* Adding an address of the answer keeps the list an extension of the      *)
(* configured one.                                                         *)
LEMMA AddUniqueExtends ==
  ASSUME NEW added, NEW list \in Seq(Provers), ExtendsConfigured(list, added),
         NEW p \in Provers \cap added
  PROVE  AddUnique(list, p) \in Seq(Provers) /\ ExtendsConfigured(AddUnique(list, p), added)
  <1>1. CASE \E j \in 1 .. Len(list) : list[j] = p
    BY <1>1 DEF AddUnique
  <1>2. CASE ~\E j \in 1 .. Len(list) : list[j] = p
    <2>0. PICK longer : longer = Append(list, p)
      OBVIOUS
    <2>1. /\ longer \in Seq(Provers)
          /\ longer = AddUnique(list, p) /\ Len(longer) = Len(list) + 1
          /\ \A j \in 1 .. Len(list) : longer[j] = list[j]
          /\ longer[Len(list) + 1] = p
      BY <1>2, <2>0 DEF AddUnique
    <2>2. PICK n \in Nat : n = Len(Configured)
      BY ConfigAssumption
    <2>3. /\ n <= Len(list) /\ SubSeq(list, 1, n) = Configured
          /\ \A j \in n + 1 .. Len(list) :
               list[j] \in added /\ \A k \in 1 .. j - 1 : list[k] # list[j]
      BY <2>2 DEF ExtendsConfigured
    <2>4. SubSeq(longer, 1, n) = SubSeq(list, 1, n)
      BY <2>1, <2>2, <2>3
    <2>5. ASSUME NEW j \in n + 1 .. Len(longer)
          PROVE  longer[j] \in added /\ \A k \in 1 .. j - 1 : longer[k] # longer[j]
      <3>1. CASE j = Len(list) + 1
        BY <1>2, <2>1, <2>2, <3>1
      <3>2. CASE j # Len(list) + 1
        <4>1. /\ j \in n + 1 .. Len(list) /\ j \in 1 .. Len(list)
              /\ \A k \in 1 .. j - 1 : k \in 1 .. Len(list)
          BY <2>1, <2>2, <3>2
        <4> QED
          BY <2>1, <2>3, <4>1
      <3> QED
        BY <3>1, <3>2
    <2>6. n <= Len(longer)
      BY <2>1, <2>2, <2>3
    <2> QED
      BY <2>1, <2>2, <2>3, <2>4, <2>5, <2>6 DEF ExtendsConfigured
  <1> QED
    BY <1>1, <1>2

(* append_unique: the whole answer.                                        *)
LEMMA AppendUniqueExtends ==
  ASSUME NEW added, NEW list \in Seq(Provers), ExtendsConfigured(list, added),
         NEW answer \in Seq(Provers), \A j \in 1 .. Len(answer) : answer[j] \in added
  PROVE  AppendUnique(list, answer) \in Seq(Provers)
         /\ ExtendsConfigured(AppendUnique(list, answer), added)
  <1>1. PICK n \in Nat : n = Len(answer)
    OBVIOUS
  <1> DEFINE D == {l \in Seq(Provers) : ExtendsConfigured(l, added)}
             F == [k \in 1 .. n |-> [l \in D |-> AddUnique(l, answer[k])]]
  <1>2. list \in D
    OBVIOUS
  <1>3. ASSUME NEW l \in D, NEW k \in 1 .. n
        PROVE  AddUnique(l, answer[k]) \in D
    <2>1. answer[k] \in Provers \cap added
      BY <1>1
    <2> QED
      BY <2>1, AddUniqueExtends
  <1> HIDE DEF D
  <1>4. F \in [1 .. n -> [D -> D]]
    BY <1>3
  <1>5. PICK g \in [0 .. n -> D] : IsRecursive(g, n, list, F)
    <2> HIDE DEF F
    <2> QED
      BY <1>2, <1>4, RecursiveExists
  <1>6. g = [k \in 0 .. n |-> IF k = 0 THEN list ELSE AddUnique(g[k - 1], answer[k])]
    <2>1. \A k \in 0 .. n : k # 0 => k \in 1 .. n /\ g[k - 1] \in D
      OBVIOUS
    <2>2. \A k \in 0 .. n : k # 0 => F[k][g[k - 1]] = AddUnique(g[k - 1], answer[k])
      BY <2>1
    <2> HIDE DEF F
    <2> QED
      BY <1>5, <2>2 DEF IsRecursive
  <1> HIDE DEF F
  <1>7. PICK appended :
          /\ appended = [k \in 0 .. n |->
               IF k = 0 THEN list ELSE AddUnique(appended[k - 1], answer[k])]
          /\ AppendUnique(list, answer) = appended[n]
    <2> DEFINE Body(h) ==
                 [k \in 0 .. Len(answer) |-> IF k = 0 THEN list ELSE AddUnique(h[k - 1], answer[k])]
               chosen == CHOOSE h : h = Body(h)
    <2>1. AppendUnique(list, answer) = chosen[Len(answer)]
      BY Zenon DEF AppendUnique
    <2>2. \E h : h = Body(h)
      BY <1>1, <1>6
    <2>3. chosen = Body(chosen)
      BY <2>2, Zenon
    <2> HIDE DEF chosen
    <2> QED
      BY <1>1, <2>1, <2>3
  <1> DEFINE S == {k \in Nat : k <= n => appended[k] \in D}
  <1>8. 0 \in S
    BY <1>2, <1>7
  <1>9. ASSUME NEW k \in Nat, k \in S
        PROVE  k + 1 \in S
    <2> SUFFICES ASSUME k + 1 <= n
                 PROVE  appended[k + 1] \in D
      OBVIOUS
    <2>1. k + 1 \in 0 .. n /\ k + 1 \in 1 .. n /\ k + 1 # 0 /\ (k + 1) - 1 = k
      OBVIOUS
    <2>2. appended[k] \in D
      BY <1>9
    <2>3. appended[k + 1] = AddUnique(appended[k], answer[k + 1])
      BY <1>7, <2>1
    <2> QED
      BY <1>3, <2>1, <2>2, <2>3
  <1>10. n \in S
    <2> HIDE DEF S
    <2> QED
      BY <1>8, <1>9, Induct
  <1>11. AppendUnique(list, answer) \in D
    BY <1>7, <1>10
  <1> QED
    BY <1>11 DEF D

(* What a request relies on: the configuration is the one of a valid       *)
(* environment, a whitelist is extended only when one is configured, and   *)
(* only by what was fetched.                                               *)
Configuration ==
  IF env.prover = "network" THEN NetworkConfig
  ELSE [mode |-> env.prover, proof_type |-> env.proof_type]

ExtendedList ==
  extended # None =>
    /\ env.prover = "network" /\ Given("whitelist")
    /\ \E list \in Seq(Provers) : extended = Some(list) /\ ExtendsConfigured(list, fetched)

Requested ==
  Sent =>
    /\ env.prover = "network" /\ EnvValid
    /\ request.whitelist = Some(<<>>) => Flag("whitelist_open")
    /\ phase = "loaded" => request.whitelist = IF extended # None THEN extended ELSE Whitelist

ConfigInv ==
  /\ phase \in {"start", "refused"} => ~Sent /\ extended = None
  /\ phase \notin {"start", "refused"} => EnvValid /\ config = Configuration
  /\ ExtendedList
  /\ Requested

LEMMA ConfigFields ==
  ASSUME config = Configuration
  PROVE  /\ env.prover = "network" =>
              /\ config.mode = "network" /\ config.whitelist = Whitelist
              /\ config.add_high_availability = Extension("add_high_availability")
              /\ config.add_default = Extension("add_default")
              /\ config["add_high_availability"] = Extension("add_high_availability")
              /\ config["add_default"] = Extension("add_default")
         /\ env.prover # "network" => config.mode = env.prover
  BY DEF Configuration, NetworkConfig

LEMMA ConfigInitOK == ConfigInit => ConfigInv
  BY DEF ConfigInit, ConfigInv, ExtendedList, Requested, Sent, Nothing

(* Whatever is derived from the environment alone stays as it is.          *)
LEMMA EnvKept ==
  ASSUME UNCHANGED env
  PROVE  /\ EnvValid' <=> EnvValid
         /\ Configuration' = Configuration
         /\ Whitelist' = Whitelist
         /\ \A name : Limit(name)' = Limit(name)
         /\ \A name : Flag(name)' <=> Flag(name)
         /\ \A name : Given(name)' <=> Given(name)
  <1>1. \A name : Given(name)' <=> Given(name)
    BY DEF Given
  <1>2. \A name : Flag(name)' <=> Flag(name)
    BY DEF Flag
  <1>3. \A name : Limit(name)' = Limit(name)
    BY <1>1, <1>2 DEF Limit
  <1>4. Whitelist' = Whitelist
    BY <1>1, <1>2 DEF Whitelist
  <1>5. NetworkModeOf' = NetworkModeOf
    BY <1>1 DEF NetworkModeOf, OrDefault
  <1>6. EnvValid' <=> EnvValid
    BY DEF EnvValid, ProofTypeValid, ProverValid, AccessValid, NetworkModeOf, OrDefault, Given,
           FulfillmentValid, PriceAndTimeoutValid, LimitsValid, WhitelistValid, Flag
  <1>7. \A name, default : OrDefault(name, default)' = OrDefault(name, default)
    BY DEF OrDefault, Given
  <1>8. Fulfillment' = Fulfillment
    BY DEF Fulfillment, OrDefault, Given, NetworkModeOf
  <1>9. \A name : Extension(name)' = Extension(name)
    BY DEF Extension, Given, Flag
  <1>10. NetworkConfig' = NetworkConfig
    BY <1>2, <1>3, <1>4, <1>5, <1>7, <1>8, <1>9 DEF NetworkConfig
  <1>11. Configuration' = Configuration
    BY <1>10 DEF Configuration
  <1> QED
    BY <1>1, <1>2, <1>3, <1>4, <1>6, <1>11

LEMMA FromEnvOK == ConfigInv /\ FromEnv => ConfigInv'
  <1> SUFFICES ASSUME ConfigInv, FromEnv
               PROVE  ConfigInv'
    OBVIOUS
  <1>1. UNCHANGED <<env, extended, fetched, request>> /\ phase = "start" /\ ~Sent /\ extended = None
    BY DEF FromEnv, ConfigInv
  <1>2. ~Sent' /\ extended' = None
    BY <1>1 DEF Sent
  <1>3. Requested' /\ ExtendedList'
    BY <1>2 DEF Requested, ExtendedList
  <1>4. (EnvValid' <=> EnvValid) /\ Configuration' = Configuration
    BY <1>1, EnvKept
  <1>5. \/ EnvValid /\ phase' = "loaded" /\ config' = Configuration
        \/ phase' = "refused"
    BY DEF FromEnv, Configuration
  <1> QED
    BY <1>2, <1>3, <1>4, <1>5 DEF ConfigInv

LEMMA StartJobOK == ConfigInv /\ StartJob => ConfigInv'
  <1> SUFFICES ASSUME ConfigInv, StartJob
               PROVE  ConfigInv'
    OBVIOUS
  <1>1. /\ UNCHANGED <<env, config, request>> /\ phase = "loaded" /\ phase' = "high_availability"
        /\ fetched' = {} /\ EnvValid /\ config = Configuration
    BY DEF StartJob, ConfigInv
  <1>2. /\ EnvValid' <=> EnvValid
        /\ Configuration' = Configuration
        /\ \A name : Flag(name)' <=> Flag(name)
        /\ \A name : Given(name)' <=> Given(name)
    BY <1>1, EnvKept
  <1>3. Sent' <=> Sent
    BY <1>1 DEF Sent
  <1>4. Requested'
    BY <1>1, <1>2, <1>3 DEF ConfigInv, Requested
  <1>5. ExtendedList'
    <2> SUFFICES ASSUME extended' # None
                 PROVE  ExtendedList'
      BY DEF ExtendedList
    <2>1. /\ config.mode = "network" /\ (config.add_high_availability \/ config.add_default)
          /\ extended' = Some(IF config.whitelist = None THEN <<>> ELSE config.whitelist[1])
      BY DEF StartJob
    <2>2. env.prover = "network"
      BY <1>1, <2>1, ConfigFields
    <2>3. Given("whitelist") /\ config.whitelist = Whitelist
      BY <1>1, <2>1, <2>2, ConfigFields DEF Extension
    <2>4. ~Flag("whitelist_open")
      BY <1>1, <2>2, <2>3 DEF EnvValid, WhitelistValid
    <2>5. extended' = Some(Configured)
      BY <2>1, <2>3, <2>4 DEF Whitelist, Some, None
    <2>6. ExtendsConfigured(Configured, fetched')
      BY ConfigAssumption DEF ExtendsConfigured
    <2>7. \E list \in Seq(Provers) : extended' = Some(list) /\ ExtendsConfigured(list, fetched')
      BY <2>5, <2>6, ConfigAssumption
    <2> QED
      BY <1>1, <1>2, <2>2, <2>3, <2>7 DEF ExtendedList, ExtendsConfigured
  <1> QED
    BY <1>1, <1>2, <1>4, <1>5 DEF ConfigInv

LEMMA ExtendOK ==
  ASSUME NEW from, NEW flag, NEW to, from \in {"high_availability", "default_pool"},
         to \in {"default_pool", "proving"}, ConfigInv, Extend(from, flag, to)
  PROVE  ConfigInv'
  <1>1. /\ UNCHANGED <<env, config, request>> /\ phase \notin {"start", "refused", "loaded"}
        /\ phase' \notin {"start", "refused", "loaded"}
        /\ EnvValid /\ config = Configuration
    BY DEF Extend, ConfigInv
  <1>2. /\ EnvValid' <=> EnvValid
        /\ Configuration' = Configuration
        /\ \A name : Flag(name)' <=> Flag(name)
        /\ \A name : Given(name)' <=> Given(name)
    BY <1>1, EnvKept
  <1>3. Sent' <=> Sent
    BY <1>1 DEF Sent
  <1>4. Requested'
    BY <1>1, <1>2, <1>3 DEF ConfigInv, Requested
  <1>5. ExtendedList'
    <2>1. CASE UNCHANGED <<extended, fetched>>
      BY <1>1, <1>2, <2>1 DEF ConfigInv, ExtendedList, ExtendsConfigured
    <2>2. CASE ~UNCHANGED <<extended, fetched>>
      <3>1. PICK answer \in FetchedLists :
              /\ extended' = Some(AppendUnique(extended[1], answer))
              /\ fetched' = fetched \cup {answer[j] : j \in 1 .. Len(answer)}
              /\ extended # None
        BY <2>2 DEF Extend
      <3>2. PICK list \in Seq(Provers) : extended = Some(list) /\ ExtendsConfigured(list, fetched)
        BY <3>1 DEF ConfigInv, ExtendedList
      <3>3. PICK added : added = fetched'
        OBVIOUS
      <3>4. fetched \subseteq added /\ \A j \in 1 .. Len(answer) : answer[j] \in added
        BY <3>1, <3>3
      <3>5. ExtendsConfigured(list, added)
        BY <3>2, <3>4 DEF ExtendsConfigured
      <3>6. answer \in Seq(Provers)
        BY ConfigAssumption
      <3>7. /\ AppendUnique(list, answer) \in Seq(Provers)
            /\ ExtendsConfigured(AppendUnique(list, answer), added)
        BY <3>4, <3>5, <3>6, AppendUniqueExtends
      <3>8. extended' = Some(AppendUnique(list, answer))
        BY <3>1, <3>2 DEF Some
      <3>9. env.prover = "network" /\ Given("whitelist")
        BY <3>1 DEF ConfigInv, ExtendedList
      <3>10. PICK longer \in Seq(Provers) :
               extended' = Some(longer) /\ ExtendsConfigured(longer, added)
        BY <3>7, <3>8
      <3> QED
        BY <1>1, <1>2, <3>3, <3>9, <3>10 DEF ExtendedList, ExtendsConfigured
    <2> QED
      BY <2>1, <2>2
  <1> QED
    BY <1>1, <1>2, <1>4, <1>5 DEF ConfigInv

LEMMA GenerateProofOK == ConfigInv /\ GenerateProof => ConfigInv'
  <1> SUFFICES ASSUME ConfigInv, GenerateProof
               PROVE  ConfigInv'
    OBVIOUS
  <1>1. /\ UNCHANGED <<env, config, extended, fetched>> /\ phase = "proving" /\ phase' = "loaded"
        /\ EnvValid /\ config = Configuration
    BY DEF GenerateProof, ConfigInv
  <1>2. /\ EnvValid' <=> EnvValid
        /\ Configuration' = Configuration /\ Whitelist' = Whitelist
        /\ \A name : Flag(name)' <=> Flag(name)
        /\ \A name : Given(name)' <=> Given(name)
    BY <1>1, EnvKept
  <1>3. ExtendedList'
    BY <1>1, <1>2 DEF ConfigInv, ExtendedList, ExtendsConfigured
  <1>4. Requested'
    <2> SUFFICES ASSUME Sent'
                 PROVE  Requested'
      BY DEF Requested
    <2>1. config.mode = "network" /\ env.prover = "network"
      BY <1>1, ConfigFields DEF GenerateProof, Sent
    <2>2. request'.whitelist = IF extended # None THEN extended ELSE config.whitelist
      BY <2>1 DEF GenerateProof
    <2>3. config.whitelist = Whitelist
      BY <1>1, <2>1, ConfigFields
    <2>4. ASSUME request'.whitelist = Some(<<>>)
          PROVE  Flag("whitelist_open")
      <3>1. CASE extended # None
        <4>1. PICK list \in Seq(Provers) : extended = Some(list) /\ ExtendsConfigured(list, fetched)
          BY <3>1 DEF ConfigInv, ExtendedList
        <4>2. list = <<>>
          BY <2>2, <2>4, <3>1, <4>1 DEF Some
        <4>3. Len(Configured) <= Len(list)
          BY <4>1 DEF ExtendsConfigured
        <4> QED
          BY <4>2, <4>3, ConfigAssumption
      <3>2. CASE extended = None
        <4>1. Whitelist = Some(<<>>)
          BY <2>2, <2>3, <2>4, <3>2
        <4> QED
          BY <4>1, ConfigAssumption DEF Whitelist, Some, None
      <3> QED
        BY <3>1, <3>2
    <2>5. request'.whitelist = IF extended' # None THEN extended' ELSE Whitelist'
      BY <1>1, <1>2, <2>2, <2>3
    <2>6. request'.whitelist = Some(<<>>) => Flag("whitelist_open")'
      BY <1>2, <2>4
    <2> QED
      BY <1>1, <1>2, <2>1, <2>5, <2>6 DEF Requested
  <1> QED
    BY <1>1, <1>2, <1>3, <1>4 DEF ConfigInv

LEMMA ConfigInvariant == ConfigSpec => []ConfigInv
  <1>1. ConfigInv /\ [ConfigNext]_configVars => ConfigInv'
    <2> SUFFICES ASSUME ConfigInv, [ConfigNext]_configVars
                 PROVE  ConfigInv'
      OBVIOUS
    <2>1. CASE FetchHighAvailability
      BY <2>1, ExtendOK DEF FetchHighAvailability
    <2>2. CASE FetchDefault
      BY <2>2, ExtendOK DEF FetchDefault
    <2>3. CASE UNCHANGED configVars
      <3>1. /\ EnvValid' <=> EnvValid
            /\ Configuration' = Configuration /\ Whitelist' = Whitelist
            /\ \A name : Flag(name)' <=> Flag(name)
            /\ \A name : Given(name)' <=> Given(name)
        BY <2>3, EnvKept DEF configVars
      <3>2. ExtendedList'
        BY <2>3, <3>1 DEF configVars, ConfigInv, ExtendedList, ExtendsConfigured
      <3>3. Requested' /\ (Sent' <=> Sent)
        BY <2>3, <3>1 DEF configVars, ConfigInv, Requested, Sent
      <3> QED
        BY <2>3, <3>1, <3>2, <3>3 DEF configVars, ConfigInv
    <2> QED
      BY <2>1, <2>2, <2>3, FromEnvOK, StartJobOK, GenerateProofOK DEF ConfigNext
  <1> QED
    BY <1>1, ConfigInitOK, PTL DEF ConfigSpec

(* Whatever the environment and the prover network's answers: the empty    *)
(* list, which lets any prover take part, is sent only when                *)
(* SP1_WHITELIST_OPEN asked for it.                                        *)
THEOREM OpensOnlyWhenAsked == ConfigSpec => []OpenOnlyWhenAsked
  <1>1. ConfigInv => OpenOnlyWhenAsked
    BY DEF ConfigInv, Requested, OpenOnlyWhenAsked
  <1> QED
    BY <1>1, ConfigInvariant, PTL

(* However long the lists configured and fetched, and however many jobs    *)
(* extended them: the whitelist sent starts with the configured one and    *)
(* goes on with addresses append_unique added, none of them repeated.      *)
THEOREM WhitelistIsExtended == ConfigSpec => []WhitelistOnlyExtended
  <1>1. ConfigInv => WhitelistOnlyExtended
    <2> SUFFICES ASSUME ConfigInv, Sent, phase = "loaded", Given("whitelist")
                 PROVE  ExtendsConfigured(request.whitelist[1], fetched)
      BY DEF WhitelistOnlyExtended
    <2>1. /\ env.prover = "network" /\ EnvValid
          /\ request.whitelist = IF extended # None THEN extended ELSE Whitelist
      BY DEF ConfigInv, Requested
    <2>2. CASE extended # None
      BY <2>1, <2>2 DEF ConfigInv, ExtendedList, Some
    <2>3. CASE extended = None
      <3>1. ~Flag("whitelist_open")
        BY <2>1 DEF EnvValid, WhitelistValid
      <3>2. request.whitelist[1] = Configured
        BY <2>1, <2>3, <3>1 DEF Whitelist, Some
      <3>3. ExtendsConfigured(Configured, fetched)
        BY ConfigAssumption DEF ExtendsConfigured
      <3> QED
        BY <3>2, <3>3
    <2> QED
      BY <2>2, <2>3
  <1> QED
    BY <1>1, ConfigInvariant, PTL

-----------------------------------------------------------------------------
(* Types.                                                                  *)

(* There is a result only once the wire has been read, and leaves are not. *)
Results ==
  /\ stage # "read" => result = {}
  /\ conversion = "leaf" => stage # "read"

LEMMA StepResults == Results /\ [CodingNext]_codingVars => Results'
  <1> SUFFICES ASSUME Results, [CodingNext]_codingVars
               PROVE  Results'
    OBVIOUS
  <1>1. CASE Encode
    BY <1>1 DEF Encode, Results
  <1>2. CASE Damage
    BY <1>2 DEF Damage, Results
  <1>3. CASE Decode
    BY <1>3 DEF Decode, Results
  <1>4. CASE UNCHANGED codingVars
    BY <1>4 DEF codingVars, Results
  <1> QED
    BY <1>1, <1>2, <1>3, <1>4 DEF CodingNext

LEMMA CodingTypes == CodingInv /\ Results => CodingTypeOK
  <1> SUFFICES ASSUME CodingInv, Results
               PROVE  CodingTypeOK
    OBVIOUS
  <1>1. ASSUME stage = "read"
        PROVE  \A x, y \in result : x = y
    <2>1. CASE conversion \in {"outputs", "consensus"}
      <3>1. result \subseteq {input}
        BY <1>1, <2>1 DEF CodingInv, Sound
      <3> QED
        BY <3>1
    <2>2. CASE conversion = "notice"
      <3>1. input \in Kinds /\ result = Deserialized(Serialized(input))
        BY <1>1, <2>2 DEF CodingInv
      <3>2. PICK k \in Kinds : k = input
        BY <3>1
      <3>3. \E z : result \subseteq {z}
        BY <3>1, <3>2, NoticeDecoded
      <3> QED
        BY <3>3
    <2> QED
      BY <1>1, <2>1, <2>2 DEF CodingInv, Results
  <1> QED
    BY <1>1 DEF CodingInv, Results, CodingTypeOK

(* A configuration is loaded once the environment was found valid.         *)
Loaded ==
  /\ env \in Envs
  /\ phase \in {"start", "refused", "loaded", "high_availability", "default_pool", "proving"}
  /\ phase \in {"start", "refused"} => config = Nothing

LEMMA StepLoaded == Loaded /\ [ConfigNext]_configVars => Loaded'
  <1> SUFFICES ASSUME Loaded, [ConfigNext]_configVars
               PROVE  Loaded'
    OBVIOUS
  <1>1. CASE FromEnv
    BY <1>1, Zenon DEF FromEnv, Loaded
  <1>2. CASE StartJob
    BY <1>2 DEF StartJob, Loaded
  <1>3. CASE FetchHighAvailability
    BY <1>3 DEF FetchHighAvailability, Extend, Loaded
  <1>4. CASE FetchDefault
    BY <1>4 DEF FetchDefault, Extend, Loaded
  <1>5. CASE GenerateProof
    BY <1>5 DEF GenerateProof, Loaded
  <1>6. CASE UNCHANGED configVars
    BY <1>6 DEF configVars, Loaded
  <1> QED
    BY <1>1, <1>2, <1>3, <1>4, <1>5, <1>6 DEF ConfigNext

LEMMA ConfigTypes == ConfigInv /\ Loaded => ConfigTypeOK
  <1> SUFFICES ASSUME ConfigInv, Loaded
               PROVE  ConfigTypeOK
    OBVIOUS
  <1>1. Len(extended) <= 1
    <2>1. extended = <<>> \/ \E list : extended = <<list>>
      BY Zenon DEF ConfigInv, ExtendedList, Some, None
    <2>2. \A list : Len(<<list>>) = 1
      OBVIOUS
    <2>3. Len(<<>>) = 0
      OBVIOUS
    <2>4. PICK n \in {0, 1} : Len(extended) = n
      BY <2>1, <2>2, <2>3, Zenon
    <2>5. n <= 1
      BY <2>4
    <2> QED
      BY <2>4, <2>5, Zenon
  <1>2. CASE phase \in {"start", "refused"}
    BY <1>1, <1>2 DEF Loaded, ConfigTypeOK, Nothing
  <1>3. CASE phase \notin {"start", "refused"}
    <2>1. EnvValid /\ config = Configuration
      BY <1>3 DEF ConfigInv
    <2>2. env.prover \in {"mock", "cpu", "cuda", "network"}
      BY <2>1 DEF EnvValid, ProverValid
    <2>3. config.mode = env.prover
      BY <2>1, ConfigFields
    <2>4. config # Nothing
      BY <2>2, <2>3 DEF Nothing
    <2>5. ASSUME env.prover = "network"
          PROVE  /\ config.fulfillment.strategy \in {"auction", "hosted", "reserved"}
                 /\ Len(config.whitelist) <= 1
      <3>1. config.fulfillment = Fulfillment /\ config.whitelist = Whitelist
        BY <2>1, <2>5 DEF Configuration, NetworkConfig
      <3>2. Len(Whitelist) <= 1
        BY DEF Whitelist, Some, None
      <3>3. env.fulfillment_strategy \in {"missing", "auction", "hosted", "reserved"}
        BY <2>1, <2>5 DEF EnvValid, FulfillmentValid
      <3>4. env["fulfillment_strategy"] = env.fulfillment_strategy
        OBVIOUS
      <3>5. Fulfillment.strategy \in {"auction", "hosted", "reserved"}
        BY <3>3, <3>4 DEF Fulfillment, OrDefault, Given
      <3> QED
        BY <3>1, <3>2, <3>5
    <2> QED
      BY <1>1, <1>3, <2>2, <2>3, <2>4, <2>5, Zenon DEF Loaded, ConfigTypeOK
  <1> QED
    BY <1>2, <1>3

(* The computations stay in the states they are meant for: the counters of *)
(* the tree loops within the vectors they index, at most one value read    *)
(* from a wire, and a configuration only from an environment that is       *)
(* valid, with a known prover, strategy and at most one whitelist.         *)
THEOREM ComputationsTypes == Spec /\ CodingSpec /\ ConfigSpec => []ComputationsTypeOK
  <1>1. IInv => TypeOK
    BY DEF IInv
  <1>2. CodingInit => Results
    BY DEF CodingInit, Results
  <1>3. ConfigInit => Loaded
    BY DEF ConfigInit, Loaded
  <1>4. TypeOK /\ CodingTypeOK /\ ConfigTypeOK => ComputationsTypeOK
    BY DEF ComputationsTypeOK
  <1> QED
    BY <1>1, <1>2, <1>3, <1>4, LoopsFollowTree, CodingInvariant, StepResults, CodingTypes,
       ConfigInvariant, StepLoaded, ConfigTypes, PTL DEF CodingSpec, ConfigSpec

=============================================================================
