--------------------------- MODULE ResumeProofs ----------------------------
(***************************************************************************)
(* What a bridge head resumes from.  However often the process stops and   *)
(* starts, a start is never behind what was settled.  And for every length *)
(* of epochs and periods, every chain and every node that answers, the     *)
(* settled head can be resumed from and the guest accepts what the host    *)
(* prepared.                                                               *)
(***************************************************************************)
EXTENDS MCResume, Induction, TLAPS

(* What a later start relies on.  The file is behind the last Advance only *)
(* while it is torn, it is absent only before the first one, and Advance   *)
(* is sent only for the position the file holds.                           *)
StartsSafely ==
  /\ head \in Nat /\ told \in Nat
  /\ disk \in [file : {"absent", "torn", "whole"}, position : Nat]
  /\ (~up => alive = {} /\ step = "idle")
  /\ (up => told <= head)
  /\ (disk.file = "whole" => told <= disk.position)
  /\ (disk.file = "absent" => told = 0)
  /\ (step = "saved" => disk.file = "whole" /\ disk.position = head)

(* Before the first start the file is absent and nothing is settled.       *)
LEMMA InitStartsSafely == Init => StartsSafely
  BY DEF Init, StartsSafely

(* Each step of the start procedure, of the observer's proof handler and   *)
(* of the ending tasks keeps the file good for the next start.             *)
LEMMA StepStartsSafely == StartsSafely /\ [Next]_vars => StartsSafely'
  <1> SUFFICES ASSUME StartsSafely, [Next]_vars
               PROVE  StartsSafely'
    OBVIOUS
  <1>1. CASE Start
    BY <1>1 DEF StartsSafely, Start, StartPosition
  <1>2. CASE Crash
    BY <1>2 DEF StartsSafely, Crash, Ends
  <1>3. CASE SaveProof
    BY <1>3 DEF StartsSafely, SaveProof, ObserverAt
  <1>4. CASE SaveProofFails
    BY <1>4 DEF StartsSafely, SaveProofFails, ObserverAt, Ends
  <1>5. CASE OpenCheckpoint
    BY <1>5 DEF StartsSafely, OpenCheckpoint, ObserverAt
  <1>6. CASE WriteCheckpoint
    <2>1. up
      BY <1>6 DEF StartsSafely, WriteCheckpoint, ObserverAt
    <2> QED
      BY <1>6, <2>1 DEF StartsSafely, WriteCheckpoint, ObserverAt
  <1>7. CASE WritePanics
    BY <1>7 DEF StartsSafely, WritePanics
  <1>8. CASE SendAdvance
    BY <1>8 DEF StartsSafely, SendAdvance, ObserverAt, Ends
  <1>9. CASE EventsClosed
    BY <1>9 DEF StartsSafely, EventsClosed, ObserverAt, Ends
  <1>10. CASE \E t \in Tasks : TaskEnds(t)
    BY <1>10 DEF StartsSafely, TaskEnds
  <1>11. CASE UNCHANGED vars
    BY <1>11 DEF StartsSafely, vars
  <1> QED
    BY <1>1, <1>2, <1>3, <1>4, <1>5, <1>6, <1>7, <1>8, <1>9, <1>10, <1>11
       DEF Next, Panics, EventLoopEnds, DetectorEnds, ActorEnds, Tasks

(* For any number of starts and of settled positions, whichever two steps  *)
(* a crash, a panic or a ctrl-c falls between: the process never works     *)
(* behind a position an Advance has settled.                               *)
THEOREM StartsNeverBehind == Spec => []NeverBehindSettled
  <1>1. StartsSafely => NeverBehindSettled
    BY DEF StartsSafely, NeverBehindSettled
  <1> QED
    BY InitStartsSafely, StepStartsSafely, <1>1, PTL DEF Spec

-----------------------------------------------------------------------------
(* What the nodes have served so far, and the stores a light client of     *)
(* this chain can be in: the committees are those of the period of the     *)
(* finalized slot and, when known, of the next.                            *)
Served ==
  {UpdateOf(a) : a \in FinalityDelay .. tip + FinalityDelay} \cup {FinalityUpdate(t) : t \in 0 .. tip}

SoundStores ==
  {st \in [finalized : FinalisedSlots, current : Nat, next : Nat \cup {None}] :
     /\ st.current = Period(st.finalized)
     /\ st.next \in {None, Period(st.finalized) + 1}}

(* What the light client relies on from step to step.  The input is kept   *)
(* as it was fetched, so the guest repeats what the dry run found.         *)
Resumable ==
  /\ missed \in MissedSets /\ tip \in 0 .. MaxEpoch
  /\ settled.slot \in FinalisedSlots
  /\ HeadResumable
  /\ phase \in {"fetching", "checking", "prepared"} => finality_update \in Served
  /\ updates \in Seq(Served) /\ Len(updates) <= MAX_REQUEST_LIGHT_CLIENT_UPDATES
  /\ phase \in {"checking", "prepared"} =>
       updates # <<>> /\ Period(updates[1].attested) = Period(settled.slot)
  /\ phase = "prepared" => output \in GuestResult /\ Validated(output)

-----------------------------------------------------------------------------
(* Arithmetic.                                                             *)

LEMMA DivBounds ==
  ASSUME NEW L \in Nat \ {0}, NEW s \in Nat
  PROVE  s \div L \in Nat /\ L * (s \div L) <= s /\ s < L * (s \div L) + L
  OBVIOUS

LEMMA DivUnique ==
  ASSUME NEW L \in Nat \ {0}, NEW b \in Nat, NEW s \in Nat, L * b <= s, s < L * b + L
  PROVE  s \div L = b
  OBVIOUS

LEMMA DivMonotone ==
  ASSUME NEW L \in Nat \ {0}, NEW r \in Nat, NEW s \in Nat, r <= s
  PROVE  r \div L <= s \div L
  OBVIOUS

LEMMA ProductNat == \A a, b \in Nat : a * b \in Nat
  OBVIOUS

LEMMA ProductMonotone ==
  ASSUME NEW L \in Nat, NEW a \in Nat, NEW b \in Nat, a <= b
  PROVE  L * a <= L * b
  OBVIOUS

LEMMA ModOfMultiple ==
  ASSUME NEW L \in Nat \ {0, 1}, NEW a \in Nat \ {0}
  PROVE  (L * a - 1) % L # 0
  <1>1. PICK s : s = L * a - 1
    OBVIOUS
  <1>2. L * a = L * (a - 1) + L /\ L * (a - 1) \in Nat /\ a - 1 \in Nat
    BY ProductNat
  <1>3. s \in Nat /\ L * (a - 1) <= s /\ s < L * (a - 1) + L /\ s = L * (a - 1) + (L - 1)
    BY <1>1, <1>2
  <1>4. s \div L = a - 1
    BY <1>2, <1>3, DivUnique
  <1>5. s = L * (s \div L) + (s % L)
    BY <1>3
  <1>6. s % L = L - 1
    BY <1>2, <1>3, <1>4, <1>5
  <1> QED
    BY <1>1, <1>6

LEMMA ModOfZero ==
  ASSUME NEW L \in Nat \ {0}
  PROVE  0 % L = 0
  OBVIOUS

-----------------------------------------------------------------------------
(* Periods, and the slots epochs finalise.                                 *)

LEMMA PeriodLength == SLOTS_PER_EPOCH * EPOCHS_PER_PERIOD \in Nat \ {0}
  BY ClientAssumption, ProductNat

LEMMA PeriodNat == \A s \in Nat : Period(s) \in Nat
  BY PeriodLength, DivBounds DEF Period

LEMMA PeriodMonotone == \A r, s \in Nat : r <= s => Period(r) <= Period(s)
  BY PeriodLength, DivMonotone DEF Period

(* The first two slots of an epoch are of one period.                      *)
LEMMA PeriodOfEpoch ==
  ASSUME NEW e \in Nat
  PROVE  /\ e \div EPOCHS_PER_PERIOD \in Nat
         /\ Period(SLOTS_PER_EPOCH * e) = e \div EPOCHS_PER_PERIOD
         /\ Period(SLOTS_PER_EPOCH * e + 1) = e \div EPOCHS_PER_PERIOD
  <1>1. PICK S \in Nat \ {0, 1} : S = SLOTS_PER_EPOCH
    BY ClientAssumption
  <1>2. PICK P \in Nat \ {0} : P = EPOCHS_PER_PERIOD
    BY ClientAssumption
  <1>3. PICK b \in Nat : b = e \div P
    BY DivBounds
  <1>4. P * b <= e /\ e + 1 <= P * b + P
    BY <1>3, DivBounds
  <1>5. S * (P * b) <= S * e /\ S * (e + 1) <= S * (P * b + P)
    BY <1>4, ProductNat, ProductMonotone
  <1>6. S * (P * b) = (S * P) * b /\ S * (P * b + P) = (S * P) * b + S * P /\ S * (e + 1) = S * e + S
    OBVIOUS
  <1>7. PICK L \in Nat \ {0} : L = S * P
    BY <1>1, <1>2, PeriodLength
  <1>8. PICK s \in Nat : s = S * e
    BY ProductNat
  <1>9. L * b \in Nat
    BY ProductNat
  <1>10. L * b <= s /\ s + S <= L * b + L
    BY <1>5, <1>6, <1>7, <1>8
  <1>11. s \div L = b /\ (s + 1) \div L = b
    <2>1. s < L * b + L /\ s + 1 < L * b + L /\ L * b <= s + 1 /\ s + 1 \in Nat
      BY <1>9, <1>10
    <2> QED
      BY <1>10, <2>1, DivUnique
  <1> QED
    BY <1>1, <1>2, <1>3, <1>7, <1>8, <1>11 DEF Period

LEMMA SlotOfEpoch ==
  ASSUME missed \in MissedSets, NEW e \in Nat
  PROVE  /\ SlotOf(e) \in Nat
         /\ SlotOf(e) <= SLOTS_PER_EPOCH * e /\ SLOTS_PER_EPOCH * e <= SlotOf(e) + 1
         /\ CanBootstrap(SlotOf(e)) => SlotOf(e) = SLOTS_PER_EPOCH * e
  <1>1. missed \subseteq Nat \ {0}
    BY ClientAssumption
  <1>2. SLOTS_PER_EPOCH * e \in Nat
    BY ClientAssumption, ProductNat
  <1>3. CASE e \in missed
    <2>1. e \in Nat \ {0}
      BY <1>1, <1>3
    <2>2. SLOTS_PER_EPOCH * e >= 1
      BY <2>1, ClientAssumption, ProductMonotone
    <2>3. (SLOTS_PER_EPOCH * e - 1) % SLOTS_PER_EPOCH # 0
      BY <2>1, ClientAssumption, ModOfMultiple
    <2> QED
      BY <1>2, <1>3, <2>2, <2>3 DEF SlotOf, CanBootstrap
  <1>4. CASE e \notin missed
    BY <1>2, <1>4 DEF SlotOf
  <1> QED
    BY <1>3, <1>4

(* A slot of one period, given by the bounds of the period.                *)
LEMMA PeriodBetween ==
  ASSUME NEW p \in Nat, NEW s \in Nat,
         SLOTS_PER_EPOCH * (EPOCHS_PER_PERIOD * p) <= s,
         s < SLOTS_PER_EPOCH * (EPOCHS_PER_PERIOD * p + EPOCHS_PER_PERIOD)
  PROVE  Period(s) = p
  <1>1. PICK S \in Nat \ {0} : S = SLOTS_PER_EPOCH
    BY ClientAssumption
  <1>2. PICK P \in Nat \ {0} : P = EPOCHS_PER_PERIOD
    BY ClientAssumption
  <1>3. S * (P * p) = (S * P) * p /\ S * (P * p + P) = (S * P) * p + S * P
    OBVIOUS
  <1>4. PICK L \in Nat \ {0} : L = S * P
    BY <1>1, <1>2, PeriodLength
  <1>5. L * p <= s /\ s < L * p + L
    BY <1>1, <1>2, <1>3, <1>4
  <1>6. s \div L = p
    BY <1>5, DivUnique
  <1> QED
    BY <1>1, <1>2, <1>4, <1>6 DEF Period

LEMMA EpochsOrdered ==
  ASSUME missed \in MissedSets, NEW d \in Nat, NEW e \in Nat, d < e
  PROVE  SlotOf(d) < SlotOf(e)
  <1>1. SLOTS_PER_EPOCH * (d + 1) <= SLOTS_PER_EPOCH * e
    BY ClientAssumption, ProductMonotone
  <1>2. PICK S \in Nat \ {0, 1} : S = SLOTS_PER_EPOCH
    BY ClientAssumption
  <1>3. S * (d + 1) = S * d + S /\ S * d \in Nat /\ S * e \in Nat
    BY ProductNat
  <1>4. SlotOf(d) \in Nat /\ SlotOf(e) \in Nat /\ SlotOf(d) <= S * d /\ S * e <= SlotOf(e) + 1
    BY <1>2, SlotOfEpoch
  <1> QED
    BY <1>1, <1>2, <1>3, <1>4

-----------------------------------------------------------------------------
(* What the nodes serve and what the light client library does with it.    *)

(* An update finalises a slot at most as new as the header it attests, and *)
(* the committee it carries is the one after the signing period.           *)
LEMMA ServedFields ==
  ASSUME missed \in MissedSets, tip \in Nat, NEW u \in Served
  PROVE  /\ u.finalized \in FinalisedSlots /\ u.finalized \in Nat /\ u.attested \in Nat
         /\ Period(u.finalized) \in Nat /\ Period(u.attested) \in Nat
         /\ Period(u.finalized) <= Period(u.attested)
         /\ u.next \in {None, Period(u.attested) + 1}
  <1>1. PICK a \in FinalityDelay .. tip + FinalityDelay :
          /\ u.finalized = SlotOf(a - FinalityDelay) /\ u.attested = SLOTS_PER_EPOCH * a + 1
          /\ u.next \in {None, Period(SLOTS_PER_EPOCH * a) + 1}
    <2>1. CASE \E a \in FinalityDelay .. tip + FinalityDelay : u = UpdateOf(a)
      BY <2>1 DEF UpdateOf
    <2>2. CASE \E t \in 0 .. tip : u = FinalityUpdate(t)
      <3>1. PICK t \in 0 .. tip : u = FinalityUpdate(t)
        BY <2>2
      <3>2. t + FinalityDelay \in FinalityDelay .. tip + FinalityDelay
        BY DEF FinalityDelay
      <3> QED
        BY <3>1, <3>2 DEF FinalityUpdate, UpdateOf
    <2> QED
      BY <2>1, <2>2 DEF Served
  <1>2. a \in Nat /\ a - FinalityDelay \in Nat /\ a - FinalityDelay \in 0 .. tip
    BY DEF FinalityDelay
  <1>3. PICK e \in Nat : e = a - FinalityDelay /\ e <= a
    BY <1>2 DEF FinalityDelay
  <1>4. PICK f \in Nat : f = SlotOf(e) /\ f <= SLOTS_PER_EPOCH * e
    BY SlotOfEpoch
  <1>5. PICK s \in Nat : s = SLOTS_PER_EPOCH * a /\ SLOTS_PER_EPOCH * e <= s
    BY <1>2, <1>3, ClientAssumption, ProductNat, ProductMonotone
  <1>6. f <= s + 1 /\ s + 1 \in Nat
    <2>1. SLOTS_PER_EPOCH * e \in Nat
      BY ClientAssumption, ProductNat
    <2> QED
      BY <1>4, <1>5, <2>1
  <1>7. Period(f) \in Nat /\ Period(s + 1) \in Nat /\ Period(f) <= Period(s + 1)
    BY <1>6, PeriodNat, PeriodMonotone
  <1>8. Period(s) = Period(s + 1)
    BY <1>2, <1>5, PeriodOfEpoch
  <1>9. u.finalized \in FinalisedSlots
    BY <1>1, <1>2 DEF FinalisedSlots
  <1> QED
    BY <1>1, <1>3, <1>4, <1>5, <1>6, <1>7, <1>8, <1>9

LEMMA FinalisedNat ==
  ASSUME missed \in MissedSets, tip \in Nat
  PROVE  FinalisedSlots \subseteq Nat
  BY SlotOfEpoch DEF FinalisedSlots

(* An update the library accepts keeps a store's committees those of its   *)
(* period: it never finalises beyond the period after the store's, and     *)
(* into that one only with the committee handed over.                      *)
LEMMA ApplyKeepsSound ==
  ASSUME missed \in MissedSets, tip \in Nat,
         NEW st \in SoundStores, NEW u \in Served, VerifyUpdate(st, u)
  PROVE  ApplyUpdate(st, u) \in SoundStores
  <1>1. /\ st \in [finalized : FinalisedSlots, current : Nat, next : Nat \cup {None}]
        /\ st.finalized \in FinalisedSlots /\ st.finalized \in Nat
        /\ st.current = Period(st.finalized)
        /\ st.next \in {None, Period(st.finalized) + 1}
    BY FinalisedNat DEF SoundStores
  <1>2. PICK p \in Nat : p = Period(st.finalized)
    BY <1>1, PeriodNat
  <1>3. PICK q \in Nat, r \in Nat :
          /\ q = Period(u.finalized) /\ r = Period(u.attested) /\ q <= r
          /\ u.next \in {None, r + 1}
          /\ u.finalized \in FinalisedSlots /\ u.finalized \in Nat
    BY ServedFields
  <1>4. None \notin Nat
    BY ClientAssumption
  <1>5. r = p \/ (st.next = p + 1 /\ r = p + 1)
    BY <1>1, <1>2, <1>3 DEF VerifyUpdate
  <1>6. u.finalized > st.finalized => p <= q
    BY <1>1, <1>2, <1>3, PeriodMonotone
  <1>7. CASE ~(u.finalized > st.finalized)
            /\ ~(st.next = None /\ u.next # None /\ q = r)
    BY <1>3, <1>7 DEF ApplyUpdate
  <1>8. CASE u.finalized > st.finalized \/ (st.next = None /\ u.next # None /\ q = r)
    <2> DEFINE fin == IF u.finalized > st.finalized THEN u.finalized ELSE st.finalized
               rotates == st.next # None /\ q = p + 1
               cur == IF rotates THEN st.next ELSE st.current
               nxt == IF st.next = None \/ rotates THEN u.next ELSE st.next
    <2>1. ApplyUpdate(st, u) = [finalized |-> fin, current |-> cur, next |-> nxt]
      BY <1>2, <1>3, <1>8 DEF ApplyUpdate
    <2>2. fin \in FinalisedSlots
      BY <1>1, <1>3
    <2>3. Period(fin) = IF u.finalized > st.finalized THEN q ELSE p
      BY <1>2, <1>3
    <2>4. cur = Period(fin) /\ cur \in Nat
      BY <1>1, <1>2, <1>3, <1>4, <1>5, <1>6, <1>8, <2>3
    <2>5. nxt \in {None, Period(fin) + 1}
      BY <1>1, <1>2, <1>3, <1>4, <1>5, <1>6, <1>8, <2>3
    <2> HIDE DEF fin, cur, nxt
    <2>6. nxt \in Nat \cup {None}
      BY <2>4, <2>5
    <2> QED
      BY <2>1, <2>2, <2>4, <2>5, <2>6 DEF SoundStores
  <1> QED
    BY <1>7, <1>8

(* It moves a store to the period it is signed in at most, which is the    *)
(* store's or the next.                                                    *)
LEMMA ApplyAdvances ==
  ASSUME missed \in MissedSets, tip \in Nat,
         NEW st \in SoundStores, NEW u \in Served, VerifyUpdate(st, u)
  PROVE  /\ Period(u.attested) \in Nat /\ Period(u.attested) <= Period(st.finalized) + 1
         /\ \/ Period(ApplyUpdate(st, u).finalized) = Period(st.finalized)
            \/ /\ Period(ApplyUpdate(st, u).finalized) \in Nat
               /\ Period(ApplyUpdate(st, u).finalized) <= Period(u.attested)
  <1>1. st.finalized \in Nat /\ Period(st.finalized) \in Nat
    BY FinalisedNat, PeriodNat DEF SoundStores
  <1>2. /\ Period(u.attested) \in Nat /\ Period(u.finalized) \in Nat
        /\ Period(u.finalized) <= Period(u.attested)
    BY ServedFields
  <1>3. Period(u.attested) \in {Period(st.finalized), Period(st.finalized) + 1}
    BY DEF VerifyUpdate
  <1>4. ApplyUpdate(st, u).finalized \in {st.finalized, u.finalized}
    BY DEF ApplyUpdate
  <1> QED
    BY <1>1, <1>2, <1>3, <1>4

-----------------------------------------------------------------------------
(* The recursions of the model.                                            *)

(* The stages of consensus_program: the stores after the hash check and    *)
(* after each update, of which the last is the result.                     *)
IsStages(after, store, all, hash) ==
  /\ after[0] = {st \in {store} : StoreHash(st) = hash}
  /\ \A k \in 1 .. Len(all) :
       after[k] = {ApplyUpdate(st, all[k]) : st \in {s \in after[k - 1] : VerifyUpdate(s, all[k])}}

SoundStages(store, us, f, hash) ==
  \E after :
    /\ IsStages(after, store, Append(us, f), hash)
    /\ \A k \in 0 .. Len(us) + 1 :
         after[k] \subseteq SoundStores /\ \A x, y \in after[k] : x = y
    /\ ConsensusProgram(store, us, f, hash) = after[Len(us) + 1]

(* Each has at most one store, and a sound one when the store it starts    *)
(* from is sound whenever its hash is the settled one.                     *)
LEMMA ProgramStages ==
  ASSUME missed \in MissedSets, tip \in Nat,
         NEW store, NEW hash, StoreHash(store) = hash => store \in SoundStores,
         NEW us \in Seq(Served), NEW f \in Served
  PROVE  SoundStages(store, us, f, hash)
  <1>1. PICK all : all = Append(us, f)
    OBVIOUS
  <1>2. all \in Seq(Served)
    BY <1>1
  <1>3. PICK n \in Nat : n = Len(all)
    BY <1>2
  <1>31. n = Len(us) + 1
    BY <1>1, <1>3
  <1>4. \A k \in 1 .. n : all[k] \in Served
    BY <1>2, <1>3
  <1> DEFINE D == {X \in SUBSET SoundStores : \A x, y \in X : x = y}
             Step(X, k) == {ApplyUpdate(st, all[k]) : st \in {s \in X : VerifyUpdate(s, all[k])}}
             A == {st \in {store} : StoreHash(st) = hash}
             F == [k \in 1 .. n |-> [X \in D |-> Step(X, k)]]
  <1>5. A \in D
    OBVIOUS
  <1>6. ASSUME NEW X \in D, NEW k \in 1 .. n
        PROVE  Step(X, k) \in D
    <2>1. \A st \in X : VerifyUpdate(st, all[k]) => ApplyUpdate(st, all[k]) \in SoundStores
      BY <1>4, ApplyKeepsSound
    <2> QED
      BY <2>1
  <1> HIDE DEF A, D
  <1>7. F \in [1 .. n -> [D -> D]]
    BY <1>6
  <1>8. PICK g \in [0 .. n -> D] : IsRecursive(g, n, A, F)
    <2> HIDE DEF F
    <2> QED
      BY <1>5, <1>7, RecursiveExists
  <1>9. g = [k \in 0 .. n |-> IF k = 0 THEN A ELSE Step(g[k - 1], k)]
    <2>1. \A k \in 0 .. n : k # 0 => k \in 1 .. n /\ g[k - 1] \in D
      OBVIOUS
    <2>2. \A k \in 0 .. n : k # 0 => F[k][g[k - 1]] = Step(g[k - 1], k)
      BY <2>1
    <2> HIDE DEF F, Step
    <2> QED
      BY <1>8, <2>2 DEF IsRecursive
  <1> HIDE DEF F
  <1>10. PICK after : /\ after = [k \in 0 .. n |-> IF k = 0 THEN A ELSE Step(after[k - 1], k)]
                      /\ ConsensusProgram(store, us, f, hash) = after[n]
    <2> DEFINE Body(h) ==
                 [k \in 0 .. Len(Append(us, f)) |->
                    IF k = 0 THEN {st \in {store} : StoreHash(st) = hash}
                    ELSE {ApplyUpdate(st, Append(us, f)[k]) :
                            st \in {s \in h[k - 1] : VerifyUpdate(s, Append(us, f)[k])}}]
               chosen == CHOOSE h : h = Body(h)
    <2>1. \A h : Body(h) = [k \in 0 .. n |-> IF k = 0 THEN A ELSE Step(h[k - 1], k)]
      BY <1>1, <1>3 DEF A
    <2>2. ConsensusProgram(store, us, f, hash) = chosen[Len(Append(us, f))]
      BY Zenon DEF ConsensusProgram
    <2>3. \E h : h = Body(h)
      <3> HIDE DEF Body, Step
      <3> QED
        BY <1>9, <2>1
    <2>4. chosen = Body(chosen)
      BY <2>3, Zenon
    <2> HIDE DEF Body, Step, chosen
    <2> QED
      BY <1>1, <1>3, <2>1, <2>2, <2>4
  <1> DEFINE S == {k \in Nat : k <= n => after[k] \in D}
  <1>11. 0 \in S
    BY <1>5, <1>10
  <1>12. ASSUME NEW k \in Nat, k \in S
         PROVE  k + 1 \in S
    <2> SUFFICES ASSUME k + 1 <= n
                 PROVE  after[k + 1] \in D
      OBVIOUS
    <2>1. k + 1 \in 0 .. n /\ k + 1 \in 1 .. n /\ k + 1 # 0 /\ (k + 1) - 1 = k
      OBVIOUS
    <2>2. after[k] \in D
      BY <1>12
    <2>3. after[k + 1] = Step(after[k], k + 1)
      <3> HIDE DEF Step
      <3> QED
        BY <1>10, <2>1
    <2>4. Step(after[k], k + 1) \in D
      BY <1>6, <2>1, <2>2
    <2> HIDE DEF Step
    <2> QED
      BY <2>3, <2>4
  <1>13. \A k \in Nat : k \in S
    <2> HIDE DEF S
    <2> QED
      BY <1>11, <1>12, Induct
  <1>14. \A k \in 0 .. n : after[k] \in D
    BY <1>13
  <1>15. IsStages(after, store, all, hash)
    <2>1. after[0] = A
      <3> HIDE DEF Step
      <3> QED
        BY <1>10
    <2>2. ASSUME NEW k \in 1 .. n
          PROVE  after[k] = Step(after[k - 1], k)
      <3> HIDE DEF Step
      <3> QED
        BY <1>10
    <2> QED
      BY <1>3, <2>1, <2>2 DEF IsStages, A
  <1>16. ASSUME NEW k \in 0 .. n
         PROVE  after[k] \subseteq SoundStores /\ \A x, y \in after[k] : x = y
    BY <1>14 DEF D
  <1> HIDE DEF S, Step
  <1> QED
    BY <1>1, <1>31, <1>10, <1>15, <1>16 DEF SoundStages

(* A store moves by one period with each update at most; c is 1 when the   *)
(* first is of the store's own period and does not move it.                *)
LEMMA StagesReach ==
  ASSUME missed \in MissedSets, tip \in Nat, NEW p \in Nat, NEW c \in {0, 1},
         NEW store, NEW hash,
         StoreHash(store) = hash => store \in SoundStores /\ Period(store.finalized) = p,
         NEW us \in Seq(Served), NEW f \in Served,
         c = 1 => Len(us) # 0 /\ Period(us[1].attested) = p,
         ConsensusProgram(store, us, f, hash) # {}
  PROVE  Period(f.attested) <= p + Len(us) - c + 1
  <1>1. SoundStages(store, us, f, hash)
    BY ProgramStages
  <1>2. PICK all : all = Append(us, f)
    OBVIOUS
  <1>3. PICK after : /\ IsStages(after, store, all, hash)
                     /\ \A k \in 0 .. Len(us) + 1 :
                          after[k] \subseteq SoundStores /\ \A x, y \in after[k] : x = y
                     /\ ConsensusProgram(store, us, f, hash) = after[Len(us) + 1]
    BY <1>1, <1>2, Zenon DEF SoundStages
  <1>4. PICK n \in Nat : n = Len(us) /\ Len(all) = n + 1
    BY <1>2
  <1>5. all[n + 1] = f /\ \A k \in 1 .. n : all[k] = us[k] /\ us[k] \in Served
    BY <1>2, <1>4
  <1>6. ASSUME NEW k \in 1 .. n + 1, NEW st \in after[k]
        PROVE  \E s \in after[k - 1] : /\ s \in SoundStores /\ VerifyUpdate(s, all[k])
                                       /\ st = ApplyUpdate(s, all[k])
    <2>1. k - 1 \in 0 .. n + 1
      BY <1>4
    <2>2. after[k] = {ApplyUpdate(x, all[k]) : x \in {s \in after[k - 1] : VerifyUpdate(s, all[k])}}
      BY <1>3, <1>4 DEF IsStages
    <2>3. after[k - 1] \subseteq SoundStores
      BY <1>3, <1>4, <2>1
    <2> QED
      BY <2>2, <2>3
  <1> DEFINE Reach(k) == IF k = 0 THEN p ELSE p + k - c
             S == {k \in Nat : k <= n => \A st \in after[k] : Period(st.finalized) <= Reach(k)}
  <1>7. 0 \in S
    <2>1. after[0] = {st \in {store} : StoreHash(st) = hash}
      BY <1>3 DEF IsStages
    <2> QED
      BY <2>1
  <1>8. ASSUME NEW k \in Nat, k \in S
        PROVE  k + 1 \in S
    <2> SUFFICES ASSUME k + 1 <= n, NEW st \in after[k + 1]
                 PROVE  Period(st.finalized) <= Reach(k + 1)
      OBVIOUS
    <2>1. k + 1 \in 1 .. n /\ k + 1 \in 1 .. n + 1 /\ (k + 1) - 1 = k
      BY <1>4
    <2>2. PICK s \in after[k] : /\ s \in SoundStores /\ VerifyUpdate(s, all[k + 1])
                               /\ st = ApplyUpdate(s, all[k + 1])
      BY <1>6, <2>1
    <2>3. PICK u \in Served : u = all[k + 1] /\ u = us[k + 1]
      BY <1>5, <2>1
    <2>4. PICK a \in Nat, b \in Nat, d \in Nat :
            /\ a = Period(s.finalized) /\ b = Period(u.attested) /\ d = Period(st.finalized)
            /\ b <= a + 1 /\ (d = a \/ d <= b)
      <3>1. Period(s.finalized) \in Nat
        BY <2>2, FinalisedNat, PeriodNat DEF SoundStores
      <3> QED
        BY <2>2, <2>3, <3>1, ApplyAdvances
    <2>5. a <= Reach(k)
      BY <1>8, <2>1, <2>2, <2>4
    <2>6. CASE k = 0
      <3>1. c = 1 => b = p
        BY <2>3, <2>4, <2>6
      <3> QED
        BY <2>4, <2>5, <2>6, <3>1
    <2>7. CASE k # 0
      BY <2>4, <2>5, <2>7
    <2> QED
      BY <2>6, <2>7
  <1>9. n \in S
    <2> HIDE DEF S
    <2> QED
      BY <1>7, <1>8, Induct
  <1>10. PICK s \in after[n] : s \in SoundStores /\ VerifyUpdate(s, f)
    <2>1. PICK st : st \in after[n + 1]
      BY <1>3, <1>4
    <2>2. n + 1 \in 1 .. n + 1 /\ (n + 1) - 1 = n
      BY <1>4
    <2> QED
      BY <1>5, <1>6, <2>1, <2>2
  <1>11. Period(s.finalized) <= Reach(n) /\ Period(s.finalized) \in Nat
    <2>1. Period(s.finalized) \in Nat
      BY <1>10, FinalisedNat, PeriodNat DEF SoundStores
    <2> QED
      BY <1>9, <2>1
  <1>12. Period(f.attested) \in Nat /\ Period(f.attested) <= Period(s.finalized) + 1
    BY <1>10, ApplyAdvances
  <1>13. n = 0 => c = 0
    BY <1>4
  <1> QED
    BY <1>4, <1>11, <1>12, <1>13

(* The node a request is answered by has finalised an epoch whose updates  *)
(* reach the period of the slot asked for.                                 *)
LEMMA NodeReaches ==
  ASSUME missed \in MissedSets, tip \in Nat, NEW slot \in FinalisedSlots, NEW t \in NodesWith(slot)
  PROVE  /\ t \in 0 .. tip /\ slot \in Nat /\ SlotOf(t) >= slot
         /\ Period(slot) \in Nat /\ Period(SLOTS_PER_EPOCH * (t + FinalityDelay)) \in Nat
         /\ Period(slot) <= Period(SLOTS_PER_EPOCH * (t + FinalityDelay))
  <1>1. t \in 0 .. tip /\ t \in Nat
    BY DEF NodesWith
  <1>2. PICK e \in 0 .. tip : slot = SlotOf(e)
    BY DEF FinalisedSlots
  <1>3. slot \in Nat /\ SlotOf(t) \in Nat
    BY <1>1, <1>2, SlotOfEpoch
  <1>4. SlotOf(t) >= slot
    <2>1. CASE nodes_lag
      BY <2>1 DEF NodesWith
    <2>2. CASE ~nodes_lag
      <3>1. t = tip
        BY <2>2 DEF NodesWith
      <3>2. e = tip \/ e < tip
        OBVIOUS
      <3>3. e < tip => SlotOf(e) < SlotOf(tip)
        BY EpochsOrdered
      <3> QED
        BY <1>2, <1>3, <3>1, <3>2, <3>3
    <2> QED
      BY <2>1, <2>2
  <1>5. PICK s \in Nat : s = SLOTS_PER_EPOCH * (t + FinalityDelay)
    BY <1>1, ClientAssumption, ProductNat DEF FinalityDelay
  <1>6. SLOTS_PER_EPOCH * t <= s /\ SLOTS_PER_EPOCH * t \in Nat
    BY <1>1, <1>5, ClientAssumption, ProductNat, ProductMonotone DEF FinalityDelay
  <1>7. SlotOf(t) <= SLOTS_PER_EPOCH * t
    BY <1>1, SlotOfEpoch
  <1>8. slot <= s
    BY <1>3, <1>4, <1>6, <1>7
  <1> QED
    BY <1>1, <1>3, <1>4, <1>5, <1>8, PeriodNat, PeriodMonotone

(* Every update a node answers with is one of the chain's.                 *)
LEMMA BestServed ==
  ASSUME tip \in Nat, NEW t \in 0 .. tip, NEW p
  PROVE  Best(p, t) \subseteq Served
  <1>1. FinalityDelay .. t + FinalityDelay \subseteq FinalityDelay .. tip + FinalityDelay
    BY DEF FinalityDelay
  <1> QED
    BY <1>1 DEF Best, Candidates, Served

(* They are signed in the period asked for.                                *)
LEMMA BestPeriod ==
  ASSUME NEW t \in Nat, NEW p, NEW u \in Best(p, t)
  PROVE  Period(u.attested) = p
  <1>1. PICK a \in FinalityDelay .. t + FinalityDelay :
          u = UpdateOf(a) /\ Period(SLOTS_PER_EPOCH * a) = p
    BY DEF Best, Candidates
  <1>2. a \in Nat
    BY DEF FinalityDelay
  <1>3. Period(SLOTS_PER_EPOCH * a + 1) = Period(SLOTS_PER_EPOCH * a)
    BY <1>2, PeriodOfEpoch
  <1> QED
    BY <1>1, <1>3 DEF UpdateOf

LEMMA UpdatesServed ==
  ASSUME missed \in MissedSets, tip \in Nat, NEW slot \in FinalisedSlots,
         NEW t \in NodesWith(slot), NEW us \in UpdatesFrom(Period(slot), t)
  PROVE  /\ us \in Seq(Served) /\ Len(us) <= MAX_REQUEST_LIGHT_CLIENT_UPDATES
         /\ us # <<>> => us[1] \in Best(Period(slot), t)
  <1> DEFINE M == MAX_REQUEST_LIGHT_CLIENT_UPDATES
             count == IF Period(SLOTS_PER_EPOCH * (t + FinalityDelay)) + 1 - Period(slot) <= M
                        THEN Period(SLOTS_PER_EPOCH * (t + FinalityDelay)) + 1 - Period(slot) ELSE M
  <1>1. PICK n \in Nat : n = count /\ n <= M
    <2>1. PICK a \in Nat, b \in Nat : /\ a = Period(slot) /\ a <= b
                                      /\ b = Period(SLOTS_PER_EPOCH * (t + FinalityDelay))
      BY NodeReaches
    <2>2. M \in Nat
      BY ClientAssumption
    <2> QED
      BY <2>1, <2>2
  <1>2. \A q : Best(q, t) \subseteq Served
    BY NodeReaches, BestServed
  <1> DEFINE p == Period(slot)
             D == SUBSET Seq(Served)
             Step(X, k) == {Append(more[1], more[2]) : more \in X \X Best(p + k - 1, t)}
             F == [k \in 1 .. n |-> [X \in D |-> Step(X, k)]]
  <1> HIDE DEF p
  <1>3. {<<>>} \in D
    OBVIOUS
  <1>4. ASSUME NEW X \in D, NEW k \in 1 .. n
        PROVE  Step(X, k) \in D
    BY <1>2
  <1> HIDE DEF D
  <1>5. F \in [1 .. n -> [D -> D]]
    <2> HIDE DEF Step
    <2> QED
      BY <1>4
  <1>6. PICK g \in [0 .. n -> D] : IsRecursive(g, n, {<<>>}, F)
    <2> HIDE DEF F
    <2> QED
      BY <1>3, <1>5, RecursiveExists
  <1>7. g = [k \in 0 .. n |-> IF k = 0 THEN {<<>>} ELSE Step(g[k - 1], k)]
    <2>1. \A k \in 0 .. n : k # 0 => k \in 1 .. n /\ g[k - 1] \in D
      OBVIOUS
    <2>2. \A k \in 0 .. n : k # 0 => F[k][g[k - 1]] = Step(g[k - 1], k)
      BY <2>1
    <2> HIDE DEF F, Step
    <2> QED
      BY <1>6, <2>2 DEF IsRecursive
  <1> HIDE DEF F
  <1>8. PICK served : /\ served = [k \in 0 .. n |-> IF k = 0 THEN {<<>>} ELSE Step(served[k - 1], k)]
                      /\ us \in served[n]
    <2> DEFINE Body(h) ==
                 [k \in 0 .. count |->
                    IF k = 0 THEN {<<>>}
                    ELSE {Append(more[1], more[2]) : more \in h[k - 1] \X Best(Period(slot) + k - 1, t)}]
               chosen == CHOOSE h : h = Body(h)
    <2>1. UpdatesFrom(Period(slot), t) = chosen[count]
      BY Zenon DEF UpdatesFrom
    <2> HIDE DEF count
    <2>2. \A h : Body(h) = [k \in 0 .. n |-> IF k = 0 THEN {<<>>} ELSE Step(h[k - 1], k)]
      BY <1>1 DEF p
    <2>3. \E h : h = Body(h)
      <3> HIDE DEF Body, Step
      <3> QED
        BY <1>7, <2>2
    <2>4. chosen = Body(chosen)
      BY <2>3, Zenon
    <2> HIDE DEF Body, Step, chosen
    <2> QED
      BY <1>1, <2>1, <2>2, <2>4
  <1> DEFINE Good(vs, k) == /\ vs \in Seq(Served) /\ Len(vs) = k
                            /\ k # 0 => vs[1] \in Best(p, t)
             S == {k \in Nat : k <= n => \A vs \in served[k] : Good(vs, k)}
  <1>9. 0 \in S
    <2>1. served[0] = {<<>>}
      <3> HIDE DEF Step
      <3> QED
        BY <1>8
    <2> QED
      BY <2>1
  <1>10. ASSUME NEW k \in Nat, k \in S
         PROVE  k + 1 \in S
    <2> SUFFICES ASSUME k + 1 <= n, NEW ws \in served[k + 1]
                 PROVE  Good(ws, k + 1)
      OBVIOUS
    <2>1. k + 1 \in 0 .. n /\ k + 1 # 0 /\ (k + 1) - 1 = k /\ k <= n
      OBVIOUS
    <2>2. served[k + 1] = Step(served[k], k + 1)
      <3> HIDE DEF Step
      <3> QED
        BY <1>8, <2>1
    <2>3. PICK vs \in served[k], u \in Best(p + (k + 1) - 1, t) : ws = Append(vs, u)
      BY <2>2
    <2>4. Good(vs, k) /\ u \in Served
      BY <1>2, <1>10, <2>1
    <2>5. ws \in Seq(Served) /\ Len(ws) = k + 1
      BY <2>3, <2>4
    <2>6. CASE k = 0
      <3>1. p \in Nat
        BY NodeReaches DEF p
      <3>2. p + (k + 1) - 1 = p
        BY <2>6, <3>1
      <3> QED
        BY <2>3, <2>4, <2>5, <2>6, <3>2
    <2>7. CASE k # 0
      BY <2>3, <2>4, <2>5, <2>7
    <2> QED
      BY <2>6, <2>7
  <1>11. n \in S
    <2> HIDE DEF S
    <2> QED
      BY <1>9, <1>10, Induct
  <1>12. \A vs \in served[n] : Good(vs, n)
    <2>1. n <= n
      OBVIOUS
    <2> QED
      BY <1>11, <2>1
  <1>13. Good(us, n)
    <2> HIDE DEF Step, Good
    <2> QED
      BY <1>8, <1>12
  <1> QED
    BY <1>1, <1>13 DEF p

-----------------------------------------------------------------------------
(* The store completed for a slot.                                         *)

(* From an epoch e that finalised its first slot a node that reached it    *)
(* has an update that attests and finalises in the period of e: the one    *)
(* finalising e, or, when that is attested in the next period, one of the  *)
(* last epoch of the period.                                               *)
LEMMA PeriodHasUpdate ==
  ASSUME missed \in MissedSets, NEW e \in Nat, NEW t \in Nat, e <= t,
         SlotOf(e) = SLOTS_PER_EPOCH * e
  PROVE  \E a \in FinalityDelay .. t + FinalityDelay :
           /\ Period(SLOTS_PER_EPOCH * a) = Period(SlotOf(e))
           /\ Period(SlotOf(a - FinalityDelay)) = Period(SlotOf(e))
  <1>1. PICK S \in Nat \ {0, 1} : S = SLOTS_PER_EPOCH
    BY ClientAssumption
  <1>2. PICK P \in Nat : P = EPOCHS_PER_PERIOD /\ P >= 4
    BY ClientAssumption
  <1>3. PICK p \in Nat : p = e \div P /\ P * p <= e /\ e < P * p + P
    BY <1>2, DivBounds
  <1>4. Period(SlotOf(e)) = p
    BY <1>2, <1>3, PeriodOfEpoch
  <1>5. P * p \in Nat
    BY ProductNat
  <1>6. CASE e + FinalityDelay < P * p + P
    <2>1. /\ e + FinalityDelay \in FinalityDelay .. t + FinalityDelay
          /\ e + FinalityDelay \in Nat /\ (e + FinalityDelay) - FinalityDelay = e
      BY DEF FinalityDelay
    <2>2. (e + FinalityDelay) \div P = p
      <3>1. PICK d \in Nat : d = e + FinalityDelay /\ P * p <= d /\ d < P * p + P
        BY <1>3, <1>5, <1>6, <2>1 DEF FinalityDelay
      <3> QED
        BY <1>2, <3>1, DivUnique
    <2>3. Period(SLOTS_PER_EPOCH * (e + FinalityDelay)) = p
      BY <1>2, <2>1, <2>2, PeriodOfEpoch
    <2> QED
      BY <1>4, <2>1, <2>3
  <1>7. CASE ~(e + FinalityDelay < P * p + P)
    <2>1. PICK a \in Nat : a = P * p + P - 1
      BY <1>2, <1>5
    <2>2. a \in FinalityDelay .. t + FinalityDelay
      BY <1>2, <1>3, <1>5, <1>7, <2>1 DEF FinalityDelay
    <2>3. a \div P = p
      BY <1>2, <1>5, <2>1, DivUnique
    <2>4. Period(SLOTS_PER_EPOCH * a) = p
      BY <1>2, <2>3, PeriodOfEpoch
    <2>5. PICK d \in Nat : d = a - FinalityDelay /\ P * p + 1 <= d /\ d + 1 <= P * p + P
      BY <1>2, <1>5, <2>1 DEF FinalityDelay
    <2>6. PICK f \in Nat : f = SlotOf(d) /\ f <= S * d /\ S * d <= f + 1
      BY <1>1, SlotOfEpoch
    <2>7. S * (P * p + 1) <= S * d /\ S * (d + 1) <= S * (P * p + P)
      BY <1>2, <1>5, <2>5, ProductMonotone
    <2>8. /\ S * (P * p + 1) = S * (P * p) + S /\ S * (d + 1) = S * d + S
          /\ S * (P * p) \in Nat /\ S * d \in Nat /\ S * (P * p + P) \in Nat
      BY <1>5, ProductNat
    <2>9. S * (P * p) <= f /\ f < S * (P * p + P)
      BY <2>6, <2>7, <2>8
    <2>10. Period(f) = p
      BY <1>1, <1>2, <2>9, PeriodBetween
    <2> QED
      BY <1>4, <2>2, <2>4, <2>5, <2>6, <2>10
  <1> QED
    BY <1>6, <1>7

(* So the first update of the period completes the store of a cold start   *)
(* with the committee of the next period.                                  *)
LEMMA ColdStoreHash ==
  ASSUME missed \in MissedSets, tip \in Nat, NEW slot \in FinalisedSlots, CanBootstrap(slot),
         NEW t \in NodesWith(slot), NEW u \in Best(Period(slot), t)
  PROVE  StoreHash(StoreWithNextSyncCommittee(Bootstrap(slot), u))
           = <<slot, Period(slot), Period(slot) + 1>>
  <1>1. PICK e \in 0 .. tip : slot = SlotOf(e)
    BY DEF FinalisedSlots
  <1>2. e \in Nat /\ SlotOf(e) = SLOTS_PER_EPOCH * e
    BY <1>1, SlotOfEpoch
  <1>3. t \in 0 .. tip /\ t \in Nat /\ SlotOf(t) >= slot /\ slot \in Nat /\ Period(slot) \in Nat
    BY NodeReaches
  <1>4. e <= t
    <2>1. t < e => SlotOf(t) < SlotOf(e)
      BY <1>2, <1>3, EpochsOrdered
    <2>2. SlotOf(t) \in Nat
      BY <1>3, SlotOfEpoch
    <2> QED
      BY <1>1, <1>2, <1>3, <2>1, <2>2
  <1>5. PICK a \in FinalityDelay .. t + FinalityDelay :
          /\ Period(SLOTS_PER_EPOCH * a) = Period(slot)
          /\ Period(SlotOf(a - FinalityDelay)) = Period(slot)
    BY <1>1, <1>2, <1>3, <1>4, PeriodHasUpdate
  <1>6. UpdateOf(a) \in {v \in Candidates(Period(slot), t) : Period(v.finalized) = Period(slot)}
    BY <1>5 DEF Candidates, UpdateOf
  <1>7. u \in Candidates(Period(slot), t) /\ Period(u.finalized) = Period(slot)
    BY <1>6 DEF Best
  <1>8. PICK b \in FinalityDelay .. t + FinalityDelay :
          u = UpdateOf(b) /\ Period(SLOTS_PER_EPOCH * b) = Period(slot)
    BY <1>7 DEF Candidates
  <1>9. b \in Nat
    BY <1>3 DEF FinalityDelay
  <1>10. Period(u.attested) = Period(slot) /\ u.next = Period(slot) + 1
    BY <1>8, <1>9, PeriodOfEpoch DEF UpdateOf
  <1>11. None \notin Nat
    BY ClientAssumption
  <1>12. ApplyUpdate(Bootstrap(slot), u).next = Period(slot) + 1
    BY <1>3, <1>7, <1>10, <1>11 DEF ApplyUpdate, Bootstrap
  <1>13. StoreWithNextSyncCommittee(Bootstrap(slot), u)
           = [finalized |-> slot, current |-> Period(slot), next |-> Period(slot) + 1]
    BY <1>12 DEF StoreWithNextSyncCommittee, Bootstrap
  <1> QED
    BY <1>3, <1>11, <1>13 DEF StoreHash

LEMMA AppliedStore ==
  ASSUME NEW slot, NEW u
  PROVE  \E f, c, n : ApplyUpdate(Bootstrap(slot), u) = [finalized |-> f, current |-> c, next |-> n]
  <1> DEFINE newer == u.finalized > slot
             p == Period(slot)
             same == Period(u.finalized) = Period(u.attested)
             later == Period(u.finalized) = p + 1
  <1>1. ApplyUpdate(Bootstrap(slot), u)
          = LET st == [finalized |-> slot, current |-> p, next |-> None]
                rotates == None # None /\ later
            IN  IF ~(newer \/ (None = None /\ u.next # None /\ same)) THEN st
                ELSE [finalized |-> IF newer THEN u.finalized ELSE slot,
                      current   |-> IF rotates THEN None ELSE p,
                      next      |-> IF None = None \/ rotates THEN u.next ELSE None]
    BY DEF ApplyUpdate, Bootstrap
  <1> HIDE DEF newer, p, same, later
  <1>2. CASE ~(newer \/ (u.next # None /\ same))
    <2>1. ApplyUpdate(Bootstrap(slot), u) = [finalized |-> slot, current |-> p, next |-> None]
      BY <1>1, <1>2
    <2> QED
      BY <2>1, Zenon
  <1>3. CASE newer \/ (u.next # None /\ same)
    <2>1. ApplyUpdate(Bootstrap(slot), u)
            = [finalized |-> IF newer THEN u.finalized ELSE slot, current |-> p, next |-> u.next]
      BY <1>1, <1>3
    <2> QED
      BY <2>1, Zenon
  <1> QED
    BY <1>2, <1>3

(* A store rebuilt for the settled slot has the settled hash only when it  *)
(* is sound: finalized slot and both committees are in the hash.           *)
LEMMA HashBindsStore ==
  ASSUME missed \in MissedSets, tip \in Nat, settled.slot \in FinalisedSlots,
         settled.hash = <<settled.slot, Period(settled.slot), Period(settled.slot) + 1>>,
         NEW us, StoreHash(Synced(us).store) = settled.hash
  PROVE  Synced(us).store \in SoundStores /\ Synced(us).store.finalized = settled.slot
  <1>1. PICK slot : slot = settled.slot
    OBVIOUS
  <1>2. PICK f, c, n : Synced(us).store = [finalized |-> f, current |-> c, next |-> n]
    <2>1. CASE us[1].finalized < slot
      <3>1. Synced(us).store = ApplyUpdate(Bootstrap(slot), us[1])
        BY <1>1, <2>1 DEF Synced
      <3>2. PICK f, c, n : ApplyUpdate(Bootstrap(slot), us[1]) = [finalized |-> f, current |-> c, next |-> n]
        BY AppliedStore
      <3> QED
        BY <3>1, <3>2, Zenon
    <2>2. CASE ~(us[1].finalized < slot)
      <3>1. Synced(us).store = StoreWithNextSyncCommittee(Bootstrap(slot), us[1])
        BY <1>1, <2>2 DEF Synced
      <3>2. PICK n : n = ApplyUpdate(Bootstrap(slot), us[1]).next
        OBVIOUS
      <3>3. StoreWithNextSyncCommittee(Bootstrap(slot), us[1])
              = [finalized |-> slot, current |-> Period(slot), next |-> n]
        BY <3>2 DEF StoreWithNextSyncCommittee, Bootstrap
      <3> QED
        BY <3>1, <3>3, Zenon
    <2> QED
      BY <2>1, <2>2
  <1>3. n # None /\ f = slot /\ c = Period(slot) /\ n = Period(slot) + 1
    BY <1>1, <1>2 DEF StoreHash
  <1>4. Period(slot) \in Nat
    BY <1>1, FinalisedNat, PeriodNat
  <1> QED
    BY <1>1, <1>2, <1>3, <1>4 DEF SoundStores

-----------------------------------------------------------------------------
(* The invariant.                                                          *)

(* On what was fetched for a settled slot that can be resumed from, the    *)
(* guest's consensus program returns at most one store, a sound one.       *)
LEMMA OneSoundResult ==
  ASSUME Resumable, phase \in {"checking", "prepared"}
  PROVE  LET input  == Synced(updates)
             result == ConsensusProgram(input.store, input.updates, finality_update, settled.hash)
         IN  result \subseteq SoundStores /\ \A x, y \in result : x = y
  <1>1. /\ missed \in MissedSets /\ tip \in Nat /\ settled.slot \in FinalisedSlots
        /\ settled.hash = <<settled.slot, Period(settled.slot), Period(settled.slot) + 1>>
        /\ finality_update \in Served /\ updates \in Seq(Served) /\ updates # <<>>
    BY DEF Resumable, HeadResumable
  <1>2. PICK us \in Seq(Served) : us = updates /\ us # <<>>
    BY <1>1
  <1>3. PICK store, rest, f, hash : /\ store = Synced(us).store /\ rest = Synced(us).updates
                                    /\ f = finality_update /\ hash = settled.hash
    OBVIOUS
  <1>4. Tail(us) \in Seq(Served)
    BY <1>2
  <1>5. rest \in Seq(Served)
    BY <1>3, <1>4 DEF Synced
  <1>6. StoreHash(store) = hash => store \in SoundStores
    BY <1>1, <1>3, HashBindsStore
  <1>7. f \in Served
    BY <1>1, <1>3
  <1>8. PICK after : /\ IsStages(after, store, Append(rest, f), hash)
                     /\ \A k \in 0 .. Len(rest) + 1 :
                          after[k] \subseteq SoundStores /\ \A x, y \in after[k] : x = y
                     /\ ConsensusProgram(store, rest, f, hash) = after[Len(rest) + 1]
    <2>1. SoundStages(store, rest, f, hash)
      BY <1>1, <1>5, <1>6, <1>7, ProgramStages
    <2> QED
      BY <2>1, Zenon DEF SoundStages
  <1>9. Len(rest) + 1 \in 0 .. Len(rest) + 1
    BY <1>5
  <1> QED
    BY <1>2, <1>3, <1>8, <1>9

(* A window passes the checks only with a finality update that the updates *)
(* reach.                                                                  *)
LEMMA PreparedWithinReach ==
  ASSUME Resumable, phase = "checking",
         ConsensusProgram(Synced(updates).store, Synced(updates).updates,
                          finality_update, settled.hash) # {}
  PROVE  ~OutOfReach(finality_update)
  <1>1. /\ missed \in MissedSets /\ tip \in Nat /\ settled.slot \in FinalisedSlots
        /\ settled.hash = <<settled.slot, Period(settled.slot), Period(settled.slot) + 1>>
        /\ finality_update \in Served /\ updates \in Seq(Served) /\ updates # <<>>
        /\ Len(updates) <= MAX_REQUEST_LIGHT_CLIENT_UPDATES
        /\ Period(updates[1].attested) = Period(settled.slot)
    BY DEF Resumable, HeadResumable
  <1>2. PICK us \in Seq(Served) : us = updates
    BY <1>1
  <1>3. Len(us) \in Nat /\ Len(us) # 0 /\ Len(Tail(us)) = Len(us) - 1 /\ Tail(us) \in Seq(Served)
    BY <1>1, <1>2
  <1>4. PICK p \in Nat : p = Period(settled.slot)
    BY <1>1, FinalisedNat, PeriodNat
  <1>5. PICK store, rest, f, hash : /\ store = Synced(us).store /\ rest = Synced(us).updates
                                    /\ f = finality_update /\ hash = settled.hash
    OBVIOUS
  <1>6. StoreHash(store) = hash => store \in SoundStores /\ Period(store.finalized) = p
    BY <1>1, <1>4, <1>5, HashBindsStore
  <1>7. ConsensusProgram(store, rest, f, hash) # {} /\ f \in Served
    BY <1>1, <1>2, <1>5
  <1>8. PICK c \in {0, 1} : /\ rest \in Seq(Served) /\ Len(rest) - c + 1 = Len(us)
                            /\ c = 1 => rest = us
    <2>1. CASE us[1].finalized < settled.slot
      <3>1. rest = Tail(us)
        BY <1>5, <2>1 DEF Synced
      <3>2. rest \in Seq(Served) /\ Len(rest) - 0 + 1 = Len(us) /\ (0 = 1 => rest = us)
        BY <1>3, <3>1
      <3> QED
        BY <3>2, Zenon
    <2>2. CASE ~(us[1].finalized < settled.slot)
      <3>1. rest = us
        BY <1>5, <2>2 DEF Synced
      <3>2. rest \in Seq(Served) /\ Len(rest) - 1 + 1 = Len(us) /\ (1 = 1 => rest = us)
        BY <1>2, <1>3, <3>1
      <3> QED
        BY <3>2, Zenon
    <2> QED
      BY <2>1, <2>2
  <1>9. c = 1 => Len(rest) # 0 /\ Period(rest[1].attested) = p
    BY <1>1, <1>2, <1>3, <1>4, <1>8
  <1>10. Period(f.attested) <= p + Len(rest) - c + 1
    BY <1>1, <1>6, <1>7, <1>8, <1>9, StagesReach
  <1>11. Period(f.attested) \in Nat
    BY <1>1, <1>7, ServedFields
  <1>12. Period(f.attested) <= p + Len(us)
    BY <1>3, <1>8, <1>10, <1>11
  <1>13. Len(us) <= MAX_REQUEST_LIGHT_CLIENT_UPDATES /\ MAX_REQUEST_LIGHT_CLIENT_UPDATES \in Nat
    BY <1>1, <1>2, ClientAssumption
  <1> QED
    BY <1>3, <1>4, <1>5, <1>11, <1>12, <1>13 DEF OutOfReach

LEMMA ResumableInit == ClientInit => Resumable
  <1> SUFFICES ASSUME ClientInit
               PROVE  Resumable
    OBVIOUS
  <1>1. 0 \notin missed /\ tip \in 0 .. MaxEpoch /\ MaxEpoch \in Nat
    BY ClientAssumption DEF ClientInit
  <1>2. SlotOf(0) = 0 /\ 0 \in 0 .. tip
    BY <1>1, ClientAssumption DEF SlotOf
  <1>3. settled.slot \in FinalisedSlots
    BY <1>2 DEF ClientInit, FinalisedSlots
  <1>4. updates \in Seq(Served) /\ Len(updates) <= MAX_REQUEST_LIGHT_CLIENT_UPDATES
    BY ClientAssumption DEF ClientInit
  <1> QED
    BY <1>3, <1>4 DEF ClientInit, Resumable, HeadResumable

LEMMA ServedKept ==
  ASSUME UNCHANGED <<missed, tip>>
  PROVE  FinalisedSlots' = FinalisedSlots /\ Served' = Served
  <1>1. \A e : SlotOf(e)' = SlotOf(e)
    BY DEF SlotOf
  <1>2. \A a : UpdateOf(a)' = UpdateOf(a)
    BY <1>1 DEF UpdateOf
  <1>3. \A t : FinalityUpdate(t)' = FinalityUpdate(t)
    BY <1>2 DEF FinalityUpdate
  <1> QED
    BY <1>1, <1>2, <1>3 DEF FinalisedSlots, Served

LEMMA ServedGrows ==
  ASSUME tip \in Nat, tip' = tip + 1, UNCHANGED missed
  PROVE  FinalisedSlots \subseteq FinalisedSlots' /\ Served \subseteq Served'
  <1>1. \A e : SlotOf(e)' = SlotOf(e)
    BY DEF SlotOf
  <1>2. \A a : UpdateOf(a)' = UpdateOf(a)
    BY <1>1 DEF UpdateOf
  <1>3. \A t : FinalityUpdate(t)' = FinalityUpdate(t)
    BY <1>2 DEF FinalityUpdate
  <1>4. 0 .. tip \subseteq 0 .. tip'
        /\ FinalityDelay .. tip + FinalityDelay \subseteq FinalityDelay .. tip' + FinalityDelay
    BY DEF FinalityDelay
  <1> QED
    BY <1>1, <1>2, <1>3, <1>4 DEF FinalisedSlots, Served

LEMMA GuestKept ==
  ASSUME UNCHANGED <<settled, finality_update, updates>>
  PROVE  GuestResult' = GuestResult
  <1>1. Synced(updates)' = Synced(updates)
    BY DEF Synced
  <1> QED
    BY <1>1 DEF GuestResult

LEMMA DiscardKeeps ==
  ASSUME Resumable, Discard, UNCHANGED <<missed, tip>>,
         settled'.slot \in FinalisedSlots, CanBootstrap(settled'.slot),
         settled'.hash = <<settled'.slot, Period(settled'.slot), Period(settled'.slot) + 1>>
  PROVE  Resumable'
  <1>1. updates' \in Seq(Served') /\ Len(updates') <= MAX_REQUEST_LIGHT_CLIENT_UPDATES
    BY ClientAssumption DEF Discard
  <1>2. FinalisedSlots' = FinalisedSlots
    BY ServedKept
  <1> QED
    BY <1>1, <1>2 DEF Resumable, HeadResumable, Discard, CanBootstrap

(* Whatever the chain and the nodes do between the steps of a preparation: *)
(* each step keeps what the next relies on.                                *)
LEMMA ResumableStep == Resumable /\ [ClientNext]_clientVars => Resumable'
  <1> SUFFICES ASSUME Resumable, [ClientNext]_clientVars
               PROVE  Resumable'
    OBVIOUS
  <1>0. /\ missed \in MissedSets /\ tip \in Nat /\ settled.slot \in FinalisedSlots
        /\ updates \in Seq(Served)
    BY DEF Resumable
  <1>1. CASE Finalise
    <2>1. tip' = tip + 1 /\ UNCHANGED missed
      BY <1>1 DEF Finalise
    <2>2. FinalisedSlots \subseteq FinalisedSlots' /\ Served \subseteq Served'
      BY <1>0, <2>1, ServedGrows
    <2>3. GuestResult' = GuestResult
      BY <1>1, GuestKept DEF Finalise
    <2>4. updates' \in Seq(Served')
      BY <1>0, <1>1, <2>2 DEF Finalise
    <2>5. tip' \in 0 .. MaxEpoch
      BY <1>1, <1>0, ClientAssumption DEF Finalise
    <2> HIDE DEF Served, GuestResult
    <2> QED
      BY <1>1, <2>2, <2>3, <2>4, <2>5
         DEF Finalise, Resumable, HeadResumable, Validated, CanBootstrap
  <1>2. CASE ColdStart
    <2>1. PICK slot \in {SlotOf(e) : e \in IF nodes_lag THEN 0 .. tip ELSE {tip}} :
            /\ CanBootstrap(slot)
            /\ \E t \in NodesWith(slot) : \E u \in Best(Period(slot), t) :
                 settled' = [slot |-> slot,
                             hash |-> StoreHash(StoreWithNextSyncCommittee(Bootstrap(slot), u))]
      BY <1>2 DEF ColdStart
    <2>2. slot \in FinalisedSlots
      BY <1>0 DEF FinalisedSlots
    <2>3. PICK t \in NodesWith(slot) : \E u \in Best(Period(slot), t) :
            settled' = [slot |-> slot,
                        hash |-> StoreHash(StoreWithNextSyncCommittee(Bootstrap(slot), u))]
      BY <2>1
    <2>4. PICK u \in Best(Period(slot), t) :
            settled' = [slot |-> slot,
                        hash |-> StoreHash(StoreWithNextSyncCommittee(Bootstrap(slot), u))]
      BY <2>3
    <2>5. settled'.slot = slot /\ settled'.hash = <<slot, Period(slot), Period(slot) + 1>>
      BY <1>0, <2>1, <2>2, <2>4, ColdStoreHash
    <2>6. FinalisedSlots' = FinalisedSlots /\ Served' = Served
      BY <1>2, ServedKept DEF ColdStart
    <2> QED
      BY <1>2, <2>1, <2>2, <2>5, <2>6 DEF ColdStart, Resumable, HeadResumable, CanBootstrap
  <1>3. CASE FetchFinality
    <2>1. PICK t \in NodesWith(settled.slot) : finality_update' = FinalityUpdate(t)
      BY <1>3 DEF FetchFinality
    <2>2. t \in 0 .. tip
      BY <1>0 DEF NodesWith
    <2>3. finality_update' \in Served
      BY <2>1, <2>2 DEF Served
    <2>4. FinalisedSlots' = FinalisedSlots /\ Served' = Served
      BY <1>3, ServedKept DEF FetchFinality
    <2> QED
      BY <1>3, <2>3, <2>4 DEF FetchFinality, Resumable, HeadResumable, CanBootstrap
  <1>4. CASE FetchUpdates
    <2>1. PICK slot, us : slot = settled.slot /\ us = updates'
      OBVIOUS
    <2>2. PICK t \in NodesWith(slot) : us \in UpdatesFrom(Period(slot), t) /\ us # <<>>
      BY <1>4, <2>1 DEF FetchUpdates
    <2>3. /\ us \in Seq(Served) /\ Len(us) <= MAX_REQUEST_LIGHT_CLIENT_UPDATES
          /\ us[1] \in Best(Period(slot), t)
      BY <1>0, <2>1, <2>2, UpdatesServed
    <2>31. Period(us[1].attested) = Period(slot)
      BY <1>0, <2>1, <2>2, <2>3, NodeReaches, BestPeriod
    <2>4. FinalisedSlots' = FinalisedSlots /\ Served' = Served
      BY <1>4, ServedKept DEF FetchUpdates
    <2> QED
      BY <1>4, <2>1, <2>2, <2>3, <2>31, <2>4 DEF FetchUpdates, Resumable, HeadResumable, CanBootstrap
  <1>5. CASE Check
    <2>1. phase = "checking" /\ UNCHANGED <<missed, tip, settled>>
      BY <1>5 DEF Check
    <2>2. CASE Discard
      BY <2>1, <2>2, DiscardKeeps DEF Resumable, HeadResumable
    <2>3. CASE ~Discard
      <3>1. PICK st : /\ st \in ConsensusProgram(Synced(updates).store, Synced(updates).updates,
                                                  finality_update, settled.hash)
                      /\ Validated(st) /\ phase' = "prepared" /\ output' = st
                      /\ UNCHANGED <<updates, finality_update>>
        BY <1>5, <2>3 DEF Check
      <3>2. st \in GuestResult
        BY <3>1 DEF GuestResult, ConsensusMptProgram, Validated
      <3>3. GuestResult' = GuestResult
        BY <2>1, <3>1, GuestKept
      <3>4. Validated(output)'
        BY <2>1, <3>1 DEF Validated, CanBootstrap
      <3>5. FinalisedSlots' = FinalisedSlots /\ Served' = Served
        BY <2>1, ServedKept
      <3> QED
        BY <2>1, <3>1, <3>2, <3>3, <3>4, <3>5 DEF Resumable, HeadResumable, CanBootstrap
    <2> QED
      BY <2>2, <2>3
  <1>6. CASE Settle
    <2>1. phase = "prepared" /\ UNCHANGED <<missed, tip>> /\ Discard
      BY <1>6 DEF Settle
    <2>2. PICK st \in GuestResult : settled' = [slot |-> st.finalized, hash |-> StoreHash(st)]
      BY <1>6 DEF Settle
    <2>3. /\ output \in GuestResult /\ Validated(output)
      BY <2>1 DEF Resumable
    <2>4. PICK result : result = ConsensusProgram(Synced(updates).store, Synced(updates).updates,
                                                  finality_update, settled.hash)
      OBVIOUS
    <2>5. result \subseteq SoundStores /\ \A x, y \in result : x = y
      BY <2>1, <2>4, OneSoundResult
    <2>6. GuestResult = {x \in result : x.finalized % SLOTS_PER_EPOCH = 0}
      BY <2>4 DEF GuestResult, ConsensusMptProgram
    <2>7. st = output /\ st \in SoundStores
      BY <2>2, <2>3, <2>5, <2>6
    <2>8. /\ st.finalized \in FinalisedSlots /\ CanBootstrap(st.finalized) /\ st.next # None
          /\ st.current = Period(st.finalized) /\ st.next = Period(st.finalized) + 1
      BY <2>3, <2>7 DEF SoundStores, Validated
    <2>9. settled'.slot = st.finalized /\ settled'.hash = <<st.finalized, st.current, st.next>>
      BY <2>2, <2>8 DEF StoreHash
    <2> QED
      BY <2>1, <2>8, <2>9, DiscardKeeps
  <1>7. CASE Dropped
    BY <1>7, DiscardKeeps DEF Dropped, Resumable, HeadResumable
  <1>8. CASE UNCHANGED clientVars
    <2>1. FinalisedSlots' = FinalisedSlots /\ Served' = Served
      BY <1>8, ServedKept DEF clientVars
    <2>2. GuestResult' = GuestResult
      BY <1>8, GuestKept DEF clientVars
    <2> QED
      BY <1>8, <2>1, <2>2 DEF clientVars, Resumable, HeadResumable, Validated, CanBootstrap
  <1> QED
    BY <1>1, <1>2, <1>3, <1>4, <1>5, <1>6, <1>7, <1>8 DEF ClientNext

LEMMA ClientResumable == ClientSpec => []Resumable
  BY ResumableInit, ResumableStep, PTL DEF ClientSpec

(* For every length of epochs and periods the networks could have, however *)
(* long the chain, whatever slots are missed and whichever node answers:   *)
(* the settled head can be resumed from, its hash being the one of the     *)
(* store rebuilt for its slot with the committees of its period and the    *)
(* next.                                                                   *)
THEOREM HeadAlwaysResumable == ClientSpec => []HeadResumable
  <1>1. Resumable => HeadResumable
    BY DEF Resumable
  <1> QED
    BY <1>1, ClientResumable, PTL

(* And a window the host's dry run let through is accepted by the guest    *)
(* and moves the head forward, however far the chain moved in between.     *)
THEOREM GuestAlwaysAcceptsPrepared == ClientSpec => []GuestAcceptsPrepared
  <1>1. Resumable => GuestAcceptsPrepared
    BY DEF Resumable, GuestAcceptsPrepared, Validated
  <1> QED
    BY <1>1, ClientResumable, PTL

(* A later finality update is signed in the same or a later period.        *)
LEMMA FinalityMovesOn ==
  ASSUME NEW t \in Nat, OutOfReach(FinalityUpdate(t)),
         settled.slot \in Nat
  PROVE  OutOfReach(FinalityUpdate(t + 1))
  <1>1. PICK a \in Nat, b \in Nat : /\ a = SLOTS_PER_EPOCH * (t + FinalityDelay) + 1
                                    /\ b = SLOTS_PER_EPOCH * (t + 1 + FinalityDelay) + 1
                                    /\ a <= b
    <2>1. /\ t + FinalityDelay \in Nat /\ t + 1 + FinalityDelay \in Nat
          /\ t + FinalityDelay <= t + 1 + FinalityDelay
      BY DEF FinalityDelay
    <2>2. PICK x \in Nat, y \in Nat : /\ x = SLOTS_PER_EPOCH * (t + FinalityDelay)
                                      /\ y = SLOTS_PER_EPOCH * (t + 1 + FinalityDelay) /\ x <= y
      BY <2>1, ClientAssumption, ProductNat, ProductMonotone
    <2> QED
      BY <2>2
  <1>2. FinalityUpdate(t).attested = a /\ FinalityUpdate(t + 1).attested = b
    BY <1>1 DEF FinalityUpdate, UpdateOf
  <1>3. Period(a) \in Nat /\ Period(b) \in Nat /\ Period(a) <= Period(b)
    BY <1>1, PeriodNat, PeriodMonotone
  <1>4. Period(settled.slot) \in Nat /\ MAX_REQUEST_LIGHT_CLIENT_UPDATES \in Nat
    BY PeriodNat, ClientAssumption
  <1> QED
    BY <1>2, <1>3, <1>4 DEF OutOfReach

(* Whatever the limit of a request for updates, the length of epochs and   *)
(* periods and the chain: a head that get_updates can no longer lead to    *)
(* the latest finality update never moves again.                           *)
THEOREM StrandedStays == ClientSpec => StrandedForGood
  <1>1. Resumable /\ [ClientNext]_clientVars =>
          [Stranded => Stranded' /\ UNCHANGED settled]_clientVars
    <2> SUFFICES ASSUME Resumable, ClientNext, Stranded
                 PROVE  Stranded' /\ UNCHANGED settled
      OBVIOUS
    <2>1. /\ ~nodes_lag /\ phase \in {"idle", "fetching", "checking"}
          /\ OutOfReach(FinalityUpdate(tip))
          /\ phase # "idle" => OutOfReach(finality_update)
      BY DEF Stranded
    <2>2. tip \in Nat /\ settled.slot \in Nat
      BY FinalisedNat DEF Resumable
    <2>3. \A t : UNCHANGED missed => FinalityUpdate(t)' = FinalityUpdate(t)
      BY DEF FinalityUpdate, UpdateOf, SlotOf
    <2>4. \A f : UNCHANGED settled => OutOfReach(f)' = OutOfReach(f)
      BY DEF OutOfReach
    <2>5. CASE Finalise
      <3>1. /\ tip' = tip + 1
            /\ UNCHANGED <<nodes_lag, missed, settled, phase, finality_update>>
        BY <2>5 DEF Finalise
      <3>2. OutOfReach(FinalityUpdate(tip + 1))
        BY <2>1, <2>2, FinalityMovesOn
      <3>3. FinalityUpdate(tip)' = FinalityUpdate(tip + 1)
        BY <3>1 DEF FinalityUpdate, UpdateOf, SlotOf
      <3> QED
        BY <2>1, <3>1, <3>2, <3>3 DEF Stranded, OutOfReach
    <2>6. CASE ColdStart
      BY <2>1, <2>6 DEF ColdStart
    <2>7. CASE FetchFinality
      <3>1. /\ UNCHANGED <<nodes_lag, missed, tip, settled>> /\ phase' = "fetching"
            /\ finality_update' = FinalityUpdate(tip)
        BY <2>1, <2>7 DEF FetchFinality, NodesWith
      <3>2. FinalityUpdate(tip)' = FinalityUpdate(tip)
        BY <3>1 DEF FinalityUpdate, UpdateOf, SlotOf
      <3> QED
        BY <2>1, <3>1, <3>2 DEF Stranded, OutOfReach
    <2>8. CASE FetchUpdates
      <3>1. /\ UNCHANGED <<nodes_lag, missed, tip, settled, finality_update>>
            /\ phase = "fetching" /\ phase' = "checking"
        BY <2>8 DEF FetchUpdates
      <3>2. FinalityUpdate(tip)' = FinalityUpdate(tip)
        BY <3>1 DEF FinalityUpdate, UpdateOf, SlotOf
      <3> QED
        BY <2>1, <3>1, <3>2 DEF Stranded, OutOfReach
    <2>9. ASSUME UNCHANGED <<nodes_lag, missed, tip, settled>>, Discard
          PROVE  Stranded' /\ UNCHANGED settled
      <3>1. FinalityUpdate(tip)' = FinalityUpdate(tip)
        BY <2>9 DEF FinalityUpdate, UpdateOf, SlotOf
      <3> QED
        BY <2>1, <2>9, <3>1 DEF Stranded, OutOfReach, Discard
    <2>10. CASE Check
      <3>1. UNCHANGED <<nodes_lag, missed, tip, settled>> /\ phase = "checking"
        BY <2>10 DEF Check
      <3>2. ConsensusProgram(Synced(updates).store, Synced(updates).updates,
                             finality_update, settled.hash) = {}
        BY <2>1, <3>1, PreparedWithinReach
      <3>3. Discard
        BY <2>10, <3>2 DEF Check
      <3> QED
        BY <2>9, <3>1, <3>3
    <2>11. CASE Settle
      BY <2>1, <2>11 DEF Settle
    <2>12. CASE Dropped
      BY <2>9, <2>12 DEF Dropped
    <2> QED
      BY <2>5, <2>6, <2>7, <2>8, <2>10, <2>11, <2>12 DEF ClientNext
  <1> QED
    BY <1>1, ClientResumable, PTL DEF ClientSpec, StrandedForGood

-----------------------------------------------------------------------------
(* Types.                                                                  *)

(* A start, a step of the proof handler and the end of a task stay within  *)
(* the tasks, the steps and the positions there are; a process that ended  *)
(* leaves no task and no half-done step behind.                            *)
LEMMA StepTypes == TypeOK /\ [Next]_vars => TypeOK'
  <1> SUFFICES ASSUME TypeOK, [Next]_vars
               PROVE  TypeOK'
    OBVIOUS
  <1> USE LifecycleAssumption DEF TypeOK
  <1>1. CASE Start
    BY <1>1 DEF Start, StartPosition
  <1>2. CASE Crash
    BY ZenonT(30), <1>2 DEF Crash, Ends
  <1>3. CASE SaveProof
    BY <1>3 DEF SaveProof, ObserverAt
  <1>4. CASE SaveProofFails
    BY ZenonT(30), <1>4 DEF SaveProofFails, Ends
  <1>5. CASE OpenCheckpoint
    BY <1>5 DEF OpenCheckpoint, ObserverAt
  <1>6. CASE WriteCheckpoint
    BY <1>6 DEF WriteCheckpoint, ObserverAt
  <1>7. CASE WritePanics
    BY <1>7 DEF WritePanics
  <1>8. CASE SendAdvance
    BY <1>8 DEF SendAdvance, Ends
  <1>9. CASE EventsClosed
    BY <1>9 DEF EventsClosed, Ends
  <1>10. CASE \E t \in Tasks : TaskEnds(t)
    BY <1>10 DEF TaskEnds
  <1>11. CASE UNCHANGED vars
    BY <1>11 DEF vars
  <1> QED
    BY <1>1, <1>2, <1>3, <1>4, <1>5, <1>6, <1>7, <1>8, <1>9, <1>10, <1>11
       DEF Next, Panics, EventLoopEnds, DetectorEnds, ActorEnds, Tasks

(* What the steps of a preparation leave in phase and output.              *)
Outputs ==
  /\ nodes_lag \in BOOLEAN
  /\ phase \in {"cold", "idle", "fetching", "checking", "prepared"}
  /\ phase # "prepared" => output = Nothing
  /\ phase \notin {"checking", "prepared"} => updates = <<>>

LEMMA StepOutputs == Outputs /\ [ClientNext]_clientVars => Outputs'
  BY DEF Outputs, ClientNext, clientVars, Finalise, ColdStart, FetchFinality, FetchUpdates,
         Check, Settle, Dropped, Discard

(* A prepared output is a store with both committees.                      *)
LEMMA PreparedOutput ==
  ASSUME Resumable, phase = "prepared"
  PROVE  output \in [finalized : Nat, current : Nat, next : Nat]
  <1>1. PICK result : result = ConsensusProgram(Synced(updates).store, Synced(updates).updates,
                                                finality_update, settled.hash)
    OBVIOUS
  <1>2. result \subseteq SoundStores
    BY <1>1, OneSoundResult
  <1>3. output \in result /\ output.next # None
    BY <1>1 DEF Resumable, GuestResult, ConsensusMptProgram, Validated
  <1>4. FinalisedSlots \subseteq Nat
    <2>1. missed \in MissedSets /\ tip \in Nat
      BY DEF Resumable
    <2> QED
      BY <2>1, FinalisedNat
  <1> QED
    BY <1>2, <1>3, <1>4 DEF SoundStores

(* The process and the light client stay in the states they are meant for, *)
(* whatever the bounds: what is settled was finalised, updates are held    *)
(* exactly while a window is checked or prepared, and a window is prepared *)
(* only with a store that knows both committees.                           *)
THEOREM ResumeTypes == Spec /\ ClientSpec => []ResumeTypeOK
  <1>1. Init => TypeOK
    <2>1. 0 \in 0 .. MaxSettled /\ 0 \in 0 .. MaxStarts
      BY LifecycleAssumption
    <2>2. [file |-> "absent", position |-> 0]
            \in [file : {"absent", "torn", "whole"}, position : 0 .. MaxSettled]
      BY <2>1
    <2> QED
      BY <2>1, <2>2, Zenon DEF Init, TypeOK
  <1>2. ClientInit => Outputs
    BY DEF ClientInit, Outputs
  <1>3. TypeOK /\ Outputs /\ Resumable => ResumeTypeOK
    BY PreparedOutput DEF Outputs, Resumable, ResumeTypeOK, ClientTypeOK
  <1> QED
    BY <1>1, <1>2, <1>3, StepTypes, StepOutputs, ClientResumable, PTL DEF Spec, ClientSpec

=============================================================================
