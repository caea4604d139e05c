--------------------------- MODULE BridgeProofs -----------------------------
(***************************************************************************)
(* Proofs about the detector against any bridge head, for every chain      *)
(* length, queue history and batch size; facts about messages and          *)
(* channels; and the proof that the steps of the event loop and the prover *)
(* workers keep the places of the pipeline.                                *)
(***************************************************************************)
EXTENDS Pipeline, DetectorEnv, TLAPS

-----------------------------------------------------------------------------
(* Facts about sequences and counting.                                     *)

(* A sequence is a function on the positions up to its length.             *)
LEMMA SeqShape ==
  ASSUME NEW S, NEW c \in Seq(S)
  PROVE  Len(c) \in Nat /\ DOMAIN c = 1 .. Len(c) /\ c \in [1 .. Len(c) -> S]
OBVIOUS

(* The empty sequence is the one of length zero.                           *)
LEMMA NoElements ==
  ASSUME NEW S
  PROVE  /\ <<>> \in Seq(S) /\ Len(<<>>) = 0
         /\ \A c \in Seq(S) : Len(c) = 0 => c = <<>>
OBVIOUS

(* The first element leaves a sequence and the others move up.             *)
LEMMA HeadLeaves ==
  ASSUME NEW S, NEW c \in Seq(S), c # <<>>
  PROVE  /\ Head(c) \in S /\ Tail(c) \in Seq(S)
         /\ Len(Tail(c)) = Len(c) - 1
         /\ \A i \in 1 .. Len(Tail(c)) : Tail(c)[i] = c[i + 1]
OBVIOUS

(* A new element is the last, and the others stay where they are.          *)
LEMMA LastJoins ==
  ASSUME NEW S, NEW c \in Seq(S), NEW m \in S
  PROVE  /\ Append(c, m) \in Seq(S) /\ Append(c, m) # <<>>
         /\ Len(Append(c, m)) = Len(c) + 1
         /\ \A i \in 1 .. Len(c) : Append(c, m)[i] = c[i]
         /\ Append(c, m)[Len(c) + 1] = m
OBVIOUS

(* The empty set has no elements: the function that counts the subsets of  *)
(* the empty set exists and is zero.                                       *)
LEMMA NoneCounted == Cardinality({}) = 0
<1> DEFINE Body(f) == [T \in SUBSET {} |-> IF T = {} THEN 0
                                           ELSE 1 + f[T \ {CHOOSE x : x \in T}]]
           zero == [T \in SUBSET {} |-> 0]
           chosen == CHOOSE f : f = Body(f)
<1>1. zero = Body(zero)
  OBVIOUS
<1>2. chosen = Body(chosen)
  <2> HIDE DEF Body, zero
  <2> QED
    BY Zenon, <1>1
<1>3. Cardinality({}) = chosen[{}]
  BY Zenon DEF Cardinality
<1>4. chosen[{}] = 0
  <2>1. PICK g : g = chosen
    OBVIOUS
  <2>2. g = Body(g)
    BY Zenon, <1>2, <2>1
  <2>3. g[{}] = 0
    BY <2>2
  <2> QED
    BY Zenon, <2>1, <2>3
<1> QED
  BY Zenon, <1>3, <1>4

-----------------------------------------------------------------------------
(* The detector against any bridge head.                                   *)

(* The preparation answers windows, and each starts where it was asked.    *)
LEMMA PreparedIsWindow ==
  ASSUME NEW p \in Position, NEW f \in Slot, NEW w \in Prepared(p, f)
  PROVE  w \in Window /\ w.input = p /\ w # Nil
<1>1. PICK s \in Slot : /\ w = [input |-> p, output |-> OutputAt(p, s)]
                        /\ p.queue_cursor <= QueueHead[s]
  BY DEF Prepared
<1>2. MaxSlot \in Slot /\ QueueHead[s] \in Nat /\ QueueHead[MaxSlot] \in Nat
      /\ QueueHead[s] <= QueueHead[MaxSlot]
  BY WindowsAssumption DEF Slot
<1>3. p.queue_cursor \in Nat /\ MaxBatch \in Nat
  BY <1>2, WindowsAssumption DEF Position, Cursor
<1>4. /\ Batch(p.queue_cursor, s) \in Nat
      /\ p.queue_cursor + Batch(p.queue_cursor, s) <= QueueHead[s]
  BY <1>1, <1>2, <1>3 DEF Batch, Smaller
<1>5. OutputAt(p, s) \in Position
  BY <1>2, <1>3, <1>4 DEF OutputAt, Position, Cursor
<1>6. w \in Window
  BY <1>1, <1>5 DEF Window
<1> QED
  BY <1>1, <1>6, NilAssumption

(* Taking a message from a channel, and putting one into it.               *)
LEMMA Take ==
  ASSUME NEW S, NEW c \in Seq(S), c # <<>>
  PROVE  /\ Len(c) \in Nat \ {0}
         /\ Head(c) \in S /\ Head(c) = c[1]
         /\ Tail(c) \in Seq(S) /\ Len(Tail(c)) = Len(c) - 1
BY NoElements, HeadLeaves

LEMMA Put ==
  ASSUME NEW S, NEW c \in Seq(S), NEW m \in S
  PROVE  Append(c, m) \in Seq(S) /\ Len(Append(c, m)) = Len(c) + 1
BY SMTT(30), LastJoins

(* Every step of the detector and its actor keeps the types.               *)
LEMMA DetectorStepTypes ==
  ASSUME DetectorTypeOK, DetectorChannelsTypeOK, DetectorStep
  PROVE  DetectorTypeOK' /\ DetectorChannelsTypeOK'
<1> USE DEF DetectorTypeOK, DetectorChannelsTypeOK, DetectorCapacity
<1>1. CurrentJob \in ValidationJob
  BY DEF CurrentJob, ValidationJob
<1>2. CASE OnStaged
  <2>1. /\ Head(stage_input) \in Position /\ Tail(stage_input) \in Seq(Position)
        /\ Len(Tail(stage_input)) <= 1
    BY <1>2, Take DEF OnStaged
  <2> QED
    BY <1>2, <2>1 DEF OnStaged, AfterUpdate
<1>3. CASE OnAdvanced
  <2>1. /\ Head(advance_input) \in Position /\ Tail(advance_input) \in Seq(Position)
        /\ Len(Tail(advance_input)) <= 1
    BY <1>3, Take DEF OnAdvanced
  <2>2. Head(advance_input).slot \in Slot
    BY <2>1 DEF Position
  <2> QED
    BY <1>3, <2>1, <2>2 DEF OnAdvanced, AfterUpdate
<1>r. ASSUME validation_results # <<>>
      PROVE  /\ Head(validation_results) \in Dual \cup {Nil}
             /\ Tail(validation_results) \in Seq(Dual \cup {Nil})
             /\ Len(Tail(validation_results)) <= 1
  BY <1>r, Take
<1>j. ASSUME TryStartValidationJob
      PROVE  /\ validation_jobs' \in Seq(ValidationJob) /\ Len(validation_jobs') <= 1
             /\ in_flight' \in BOOLEAN
  BY <1>1, <1>j, Put DEF TryStartValidationJob
<1>4. CASE OnValidationFailed
  BY ZenonT(30), <1>4, <1>r DEF OnValidationFailed
<1>5. CASE OnStaleResult
  BY ZenonT(30), <1>5, <1>j, <1>r DEF OnStaleResult
<1>6. CASE OnFreshResult
  <2> DEFINE d == Head(validation_results)
  <2>1. d \in Dual
    BY <1>6, <1>r DEF OnFreshResult
  <2>2. d.current.output.slot \in Slot
    BY <2>1 DEF Dual, Window, Position
  <2>3. /\ emitting' \in Seq(Dual) /\ Len(emitting') <= 1
        /\ latest_slot' \in Slot
    BY <1>6, <2>1, <2>2 DEF OnFreshResult
  <2> QED
    BY ZenonT(30), <1>6, <1>r, <2>3 DEF OnFreshResult
<1>7. CASE EmitFinality
  BY <1>7, Take, Put DEF EmitFinality
<1>8. CASE OnTick
  BY <1>8, <1>j DEF OnTick
<1>v. ASSUME validation_jobs # <<>>
      PROVE  /\ Head(validation_jobs) \in ValidationJob
             /\ Tail(validation_jobs) \in Seq(ValidationJob)
             /\ Len(Tail(validation_jobs)) <= 1
  BY <1>v, Take
<1>9. CASE Validate
  <2> DEFINE job == Head(validation_jobs)
  <2>1. job \in ValidationJob
    BY <1>9, <1>v DEF Validate
  <2>2. job.position \in Position /\ (job.next = Nil \/ job.next \in Position)
    BY <2>1 DEF ValidationJob
  <2>3. PICK current \in Prepared(job.position, finalised),
             next \in IF job.next = Nil THEN {Nil} ELSE Prepared(job.next, finalised) :
               validation_results' =
                 Append(validation_results, [current |-> current, next |-> next])
    BY ZenonT(30), <1>9 DEF Validate
  <2>4. current \in Window
    BY <2>2, PreparedIsWindow
  <2>5. next \in Window \cup {Nil}
    BY <2>2, PreparedIsWindow
  <2>6. [current |-> current, next |-> next] \in Dual
    BY <2>4, <2>5 DEF Dual
  <2>7. /\ validation_results' \in Seq(Dual \cup {Nil})
        /\ Len(validation_results') <= 1
    BY <1>9, <2>3, <2>6, Put DEF Validate
  <2> QED
    BY <1>9, <1>v, <2>7 DEF Validate
<1>10. CASE ValidateFails
  <2>1. /\ validation_results' \in Seq(Dual \cup {Nil})
        /\ Len(validation_results') <= 1
    BY <1>10, Put DEF ValidateFails
  <2> QED
    BY <1>10, <1>v, <2>1 DEF ValidateFails
<1> QED
  BY <1>2, <1>3, <1>4, <1>5, <1>6, <1>7, <1>8, <1>9, <1>10 DEF DetectorStep

(* The strengthening of OneValidation and EmissionFresh that is inductive. *)
DetectorInv ==
  /\ DetectorEnvTypeOK
  /\ OneValidation
  /\ OutstandingIsCurrent

LEMMA DetectorInitInv == DetectorEnvInit => DetectorInv
<1> SUFFICES ASSUME DetectorEnvInit PROVE DetectorInv
  OBVIOUS
<1> PICK p \in SettledPosition : DetectorInit(p)
  BY DEF DetectorEnvInit
<1> USE DEF DetectorEnvInit, ChannelsInit, DetectorInit
<1>a. p \in Position /\ p.slot \in Slot /\ 0 \in Slot
  BY WindowsAssumption DEF SettledPosition, Position, Slot
<1>b. ChannelsTypeOK
  BY ChannelsAssumption DEF ChannelsTypeOK, DetectorChannelsTypeOK, DetectorCapacity
<1>c. DetectorTypeOK
  <2>1. /\ finalised \in Slot /\ position \in Position /\ latest_slot \in Slot
        /\ in_flight \in BOOLEAN /\ stale \in BOOLEAN
    BY ZenonT(30), <1>a
  <2>2. /\ next_expected_output \in Position \cup {Nil}
        /\ emitting \in Seq(Dual) /\ Len(emitting) <= 1
        /\ validation_jobs \in Seq(ValidationJob) /\ Len(validation_jobs) <= 1
        /\ validation_results \in Seq(Dual \cup {Nil})
        /\ Len(validation_results) <= 1
    OBVIOUS
  <2> QED
    BY <2>1, <2>2 DEF DetectorTypeOK
<1>1. DetectorEnvTypeOK
  BY <1>b, <1>c DEF DetectorEnvTypeOK
<1>2. OneValidation
  BY DEF OneValidation
<1>3. OutstandingIsCurrent
  BY DEF OutstandingIsCurrent
<1> QED
  BY <1>1, <1>2, <1>3 DEF DetectorInv

(* Steps of the detector and its actor keep the two facts about what is    *)
(* outstanding.                                                            *)
LEMMA DetectorStepOutstanding ==
  ASSUME DetectorTypeOK, DetectorChannelsTypeOK, OneValidation,
         OutstandingIsCurrent, DetectorStep
  PROVE  OneValidation' /\ OutstandingIsCurrent'
<1>1. /\ validation_jobs \in Seq(ValidationJob) /\ Len(validation_jobs) \in 0 .. 1
      /\ validation_results \in Seq(Dual \cup {Nil})
      /\ Len(validation_results) \in 0 .. 1
      /\ in_flight \in BOOLEAN /\ stale \in BOOLEAN
  <2>1. /\ validation_jobs \in Seq(ValidationJob) /\ Len(validation_jobs) <= 1
        /\ validation_results \in Seq(Dual \cup {Nil})
        /\ Len(validation_results) <= 1
    BY DEF DetectorTypeOK
  <2>2. Len(validation_jobs) \in Nat /\ Len(validation_results) \in Nat
    BY <2>1, SeqShape
  <2>3. \A n \in Nat : n <= 1 => n \in 0 .. 1
    OBVIOUS
  <2>4. in_flight \in BOOLEAN /\ stale \in BOOLEAN
    BY DEF DetectorTypeOK
  <2> QED
    BY ZenonT(30), <2>1, <2>2, <2>3, <2>4
<1> USE DEF OneValidation
<1>2. DetectorTypeOK'
  BY DetectorStepTypes
<1>3. /\ DOMAIN validation_jobs = 1 .. Len(validation_jobs)
      /\ DOMAIN validation_results = 1 .. Len(validation_results)
      /\ DOMAIN validation_jobs' = 1 .. Len(validation_jobs')
      /\ DOMAIN validation_results' = 1 .. Len(validation_results')
      /\ Len(validation_jobs') \in Nat /\ Len(validation_results') \in Nat
  BY <1>1, <1>2, SeqShape DEF DetectorTypeOK
<1>4. ASSUME OnStaged \/ OnAdvanced
      PROVE  OneValidation' /\ OutstandingIsCurrent'
  <2>1. /\ UNCHANGED <<validation_jobs, validation_results, in_flight>>
        /\ stale' = (stale \/ in_flight)
    BY <1>4 DEF OnStaged, OnAdvanced, AfterUpdate
  <2>2. ~stale' => Len(validation_jobs') = 0 /\ Len(validation_results') = 0
    BY <1>1, <2>1
  <2> QED
    BY <1>3, <2>1, <2>2 DEF OutstandingIsCurrent
<1>5. ASSUME validation_results # <<>>, validation_results' = Tail(validation_results)
      PROVE  /\ in_flight /\ Len(validation_jobs) = 0 /\ Len(validation_results') = 0
             /\ Head(validation_results) = validation_results[1]
             /\ 1 \in DOMAIN validation_results
  BY <1>3, <1>5
<1>6. CASE OnValidationFailed
  <2>1. /\ Len(validation_jobs') = 0 /\ Len(validation_results') = 0 /\ ~in_flight'
    BY <1>5, <1>6 DEF OnValidationFailed
  <2> QED
    BY <1>3, <2>1 DEF OutstandingIsCurrent
<1>7. ASSUME TryStartValidationJob, UNCHANGED <<position, next_expected_output>>
      PROVE  /\ Len(validation_jobs) = 0 /\ Len(validation_jobs') = 1
             /\ validation_jobs'[1] = CurrentJob' /\ in_flight'
  <2>1. CurrentJob \in ValidationJob /\ CurrentJob' = CurrentJob
    BY <1>7 DEF CurrentJob, ValidationJob, DetectorTypeOK
  <2> QED
    BY <1>1, <1>7, <2>1, LastJoins DEF TryStartValidationJob
<1>8. CASE OnStaleResult
  <2>1. /\ Len(validation_jobs') = 1 /\ Len(validation_results') = 0 /\ in_flight'
        /\ validation_jobs'[1] = CurrentJob'
    BY <1>5, <1>7, <1>8 DEF OnStaleResult
  <2> QED
    BY <1>3, <2>1 DEF OutstandingIsCurrent
<1>9. CASE OnFreshResult
  <2>1. /\ Len(validation_jobs') = 0 /\ Len(validation_results') = 0 /\ ~in_flight'
    BY <1>5, <1>9 DEF OnFreshResult
  <2> QED
    BY <1>3, <2>1 DEF OutstandingIsCurrent
<1>10. CASE EmitFinality
  BY <1>10 DEF EmitFinality, OutstandingIsCurrent, CurrentJob, Answers
<1>11. CASE OnTick
  <2>1. /\ Len(validation_jobs') = 1 /\ Len(validation_results') = 0 /\ in_flight'
        /\ validation_jobs'[1] = CurrentJob'
    BY <1>1, <1>7, <1>11 DEF OnTick, Due
  <2> QED
    BY <1>3, <2>1 DEF OutstandingIsCurrent
<1>12. ASSUME Validate \/ ValidateFails
       PROVE  /\ in_flight /\ Len(validation_jobs) = 1 /\ Len(validation_jobs') = 0
              /\ Len(validation_results) = 0 /\ Len(validation_results') = 1
              /\ Head(validation_jobs) = validation_jobs[1]
              /\ UNCHANGED <<in_flight, stale, position, next_expected_output>>
  <2>1. /\ validation_jobs # <<>> /\ validation_jobs' = Tail(validation_jobs)
        /\ UNCHANGED <<in_flight, stale, position, next_expected_output>>
    BY <1>12 DEF Validate, ValidateFails
  <2>2. PICK r : validation_results' = Append(validation_results, r)
    BY ZenonT(30), <1>12 DEF Validate, ValidateFails
  <2>3. Len(validation_results') = Len(validation_results) + 1
    BY <1>1, <2>2
  <2> QED
    BY <1>1, <2>1, <2>3, Take
<1>13. CASE Validate
  <2> DEFINE job == Head(validation_jobs)
  <2>1. job \in ValidationJob
    BY <1>1, <1>12, <1>13, Take DEF Validate
  <2>2. /\ job.position \in Position /\ (job.next = Nil \/ job.next \in Position)
        /\ finalised \in Slot
    BY <2>1 DEF ValidationJob, DetectorTypeOK
  <2>3. PICK current \in Prepared(job.position, finalised),
             next \in IF job.next = Nil THEN {Nil} ELSE Prepared(job.next, finalised) :
               validation_results' =
                 Append(validation_results, [current |-> current, next |-> next])
    BY ZenonT(30), <1>13 DEF Validate
  <2> DEFINE d == [current |-> current, next |-> next]
  <2>4. current.input = job.position
    BY <2>2, PreparedIsWindow
  <2>5. job.next # Nil => next # Nil /\ next.input = job.next
    BY <2>2, PreparedIsWindow
  <2>6. Answers(d, job)
    BY <2>3, <2>4, <2>5 DEF Answers
  <2>7. validation_results'[1] = d
    BY <1>1, <1>12, <1>13, <2>3
  <2>8. ~stale => job = CurrentJob'
    BY <1>3, <1>12, <1>13 DEF OutstandingIsCurrent, CurrentJob
  <2> HIDE DEF d, job
  <2> QED
    BY <1>3, <1>12, <1>13, <2>6, <2>7, <2>8 DEF OutstandingIsCurrent
<1>14. CASE ValidateFails
  <2>1. validation_results'[1] = Nil
    BY <1>1, <1>12, <1>14 DEF ValidateFails
  <2> QED
    BY <1>3, <1>12, <1>14, <2>1 DEF OutstandingIsCurrent
<1> QED
  BY <1>4, <1>6, <1>8, <1>9, <1>10, <1>11, <1>13, <1>14 DEF DetectorStep

(* The inductive step.                                                     *)
LEMMA DetectorNextInv == DetectorInv /\ [DetectorEnvNext]_detectorEnvVars => DetectorInv'
<1> SUFFICES ASSUME DetectorInv, [DetectorEnvNext]_detectorEnvVars
             PROVE  DetectorInv'
  OBVIOUS
<1> USE DEF DetectorInv, DetectorEnvTypeOK, ChannelsTypeOK
<1>1. CASE DetectorStep /\ UNCHANGED bystanders
  BY <1>1, DetectorStepTypes, DetectorStepOutstanding DEF bystanders
<1>2. ASSUME UNCHANGED <<bystanders, detectorVars>>, DetectorChannelsTypeOK',
             finalised' \in Slot
      PROVE  DetectorInv'
  BY <1>2
  DEF bystanders, detectorVars, DetectorTypeOK, OneValidation,
      OutstandingIsCurrent, CurrentJob, Answers
<1>3. CASE Finalise /\ UNCHANGED bystanders
  <2>1. finalised' \in Slot
    BY <1>3, WindowsAssumption DEF Finalise, DetectorTypeOK, Slot
  <2> QED
    BY <1>2, <1>3, <2>1 DEF Finalise, DetectorChannelsTypeOK
<1>4. CASE /\ BridgeStages \/ BridgeAdvances \/ BridgeTakes
           /\ UNCHANGED <<bystanders, finalised, detectorVars>>
  <2>1. SettledPosition \subseteq Position
    BY DEF SettledPosition
  <2> USE DEF DetectorChannelsTypeOK, DetectorCapacity
  <2>2. CASE BridgeStages
    BY <1>2, <1>4, <2>1, <2>2 DEF BridgeStages, DetectorTypeOK
  <2>3. CASE BridgeAdvances
    BY <1>2, <1>4, <2>1, <2>3 DEF BridgeAdvances, DetectorTypeOK
  <2>4. CASE BridgeTakes
    BY <1>2, <1>4, <2>4, Take DEF BridgeTakes, DetectorTypeOK
  <2> QED
    BY <1>4, <2>2, <2>3, <2>4
<1>5. CASE UNCHANGED detectorEnvVars
  BY <1>2, <1>5
  DEF detectorEnvVars, channels, bystanders, detectorVars, DetectorChannelsTypeOK,
      DetectorTypeOK
<1> QED
  BY <1>1, <1>3, <1>4, <1>5 DEF DetectorEnvNext

(* Whatever the bridge head does, the detector has at most one validation  *)
(* outstanding and never waits for its own actor.                          *)
THEOREM OneValidationAlways == DetectorEnvSpec => []OneValidation
<1>1. DetectorInv => OneValidation
  BY DEF DetectorInv
<1> QED
  BY <1>1, DetectorInitInv, DetectorNextInv, PTL DEF DetectorEnvSpec

(* Whatever the bridge head does, every window the detector handles is a   *)
(* window and no channel overflows.                                        *)
THEOREM DetectorTypeCorrect == DetectorEnvSpec => []DetectorEnvTypeOK
<1>1. DetectorInv => DetectorEnvTypeOK
  BY DEF DetectorInv
<1> QED
  BY <1>1, DetectorInitInv, DetectorNextInv, PTL DEF DetectorEnvSpec

(* An accepted answer is fresh: the slot comparison of the code, with the  *)
(* stale flag, is enough for the cursor and the next window to be right.   *)
THEOREM EmissionIsFresh == DetectorEnvSpec => EmissionFresh
<1> DEFINE Fresh ==
      emitting = <<>> /\ emitting' # <<>> =>
        LET d == emitting'[1] IN
          /\ Answers(d, CurrentJob)
          /\ latest_slot < d.current.output.slot
          /\ d.next # Nil => latest_slot < d.next.output.slot
<1>1. DetectorInv /\ DetectorEnvNext => Fresh
  <2> SUFFICES ASSUME DetectorInv, DetectorEnvNext, emitting = <<>>, emitting' # <<>>
               PROVE  Fresh
    BY SMTT(30)
  <2> DEFINE d == Head(validation_results)
  <2>1. OnFreshResult
    BY DEF DetectorEnvNext, DetectorStep, OnStaged, OnAdvanced, OnValidationFailed,
       OnStaleResult, EmitFinality, OnTick, Validate, ValidateFails, Finalise,
       detectorVars
  <2>2. emitting' = <<d>> /\ Emits(d) /\ ~stale /\ d # Nil
    BY <2>1 DEF OnFreshResult
  <2>3. 1 \in DOMAIN validation_results /\ d = validation_results[1]
    BY <2>1, Take, SeqShape
    DEF OnFreshResult, DetectorInv, DetectorEnvTypeOK, DetectorTypeOK
  <2>4. Answers(d, CurrentJob)
    BY <2>2, <2>3 DEF DetectorInv, OutstandingIsCurrent
  <2>5. emitting'[1] = d
    BY <2>2
  <2>6. latest_slot < d.current.output.slot /\ (d.next # Nil => latest_slot < d.next.output.slot)
    <3>1. d \in Dual
      BY <2>1, <2>2, Take DEF OnFreshResult, DetectorInv, DetectorEnvTypeOK, DetectorTypeOK
    <3>2. /\ latest_slot \in Int /\ d.current.output.slot \in Int
          /\ d.next # Nil => d.next.output.slot \in Int
      BY <3>1 DEF Dual, Window, Position, Slot, DetectorInv, DetectorEnvTypeOK, DetectorTypeOK
    <3> QED
      BY <2>2, <3>2 DEF Emits, Accepts
  <2> QED
    BY <2>4, <2>5, <2>6
<1>2. DetectorInv /\ [DetectorEnvNext]_detectorEnvVars => [Fresh]_detectorEnvVars
  BY <1>1
<1> QED
  BY <1>2, DetectorInitInv, DetectorNextInv, PTL DEF DetectorEnvSpec, EmissionFresh

-----------------------------------------------------------------------------
(* Facts about messages in a channel.                                      *)

LEMMA HasEmpty == ASSUME NEW S PROVE ~Has(<<>>, S) /\ Once(<<>>, S)
BY DEF Has, Once

LEMMA NothingIn == DOMAIN <<>> = {} /\ Len(<<>>) <= 1
OBVIOUS

LEMMA HasOne ==
  ASSUME NEW S, NEW a
  PROVE  (Has(<<a>>, S) <=> a \in S) /\ Once(<<a>>, S)
BY DEF Has, Once

LEMMA HasTwo ==
  ASSUME NEW S, NEW a, NEW b
  PROVE  /\ Has(<<a, b>>, S) <=> a \in S \/ b \in S
         /\ ~(a \in S /\ b \in S) => Once(<<a, b>>, S)
BY DEF Has, Once

LEMMA HasAppend ==
  ASSUME NEW T, NEW S, NEW s \in Seq(T), NEW m \in T
  PROVE  /\ Has(Append(s, m), S) <=> Has(s, S) \/ m \in S
         /\ Once(s, S) /\ ~(Has(s, S) /\ m \in S) => Once(Append(s, m), S)
<1>1. /\ DOMAIN s = 1 .. Len(s) /\ Len(s) \in Nat
      /\ DOMAIN Append(s, m) = 1 .. (Len(s) + 1)
      /\ \A i \in 1 .. Len(s) : Append(s, m)[i] = s[i]
      /\ Append(s, m)[Len(s) + 1] = m
  BY LastJoins, SeqShape
<1>2. \A i : i \in 1 .. (Len(s) + 1) <=> i \in 1 .. Len(s) \/ i = Len(s) + 1
  BY <1>1
<1> QED
  BY <1>1, <1>2 DEF Has, Once

LEMMA HasTail ==
  ASSUME NEW T, NEW S, NEW s \in Seq(T), s # <<>>
  PROVE  /\ Has(s, S) <=> Head(s) \in S \/ Has(Tail(s), S)
         /\ Once(s, S) => Once(Tail(s), S)
         /\ Once(s, S) /\ Head(s) \in S => ~Has(Tail(s), S)
<1>1. /\ DOMAIN s = 1 .. Len(s) /\ Len(s) \in Nat \ {0}
      /\ DOMAIN Tail(s) = 1 .. (Len(s) - 1)
      /\ \A i \in 1 .. (Len(s) - 1) : Tail(s)[i] = s[i + 1]
      /\ Head(s) = s[1]
  BY NoElements, HeadLeaves, SeqShape
<1>2. \A i \in 1 .. Len(s) : i = 1 \/ (i - 1 \in 1 .. (Len(s) - 1) /\ (i - 1) + 1 = i)
  BY <1>1
<1>3. \A i \in 1 .. (Len(s) - 1) : i + 1 \in 1 .. Len(s) /\ i + 1 # 1
  BY <1>1
<1>4. Has(s, S) <=> Head(s) \in S \/ Has(Tail(s), S)
  <2>1. ASSUME Has(s, S) PROVE Head(s) \in S \/ Has(Tail(s), S)
    <3> PICK i \in 1 .. Len(s) : s[i] \in S
      BY <1>1, <2>1 DEF Has
    <3> QED
      BY ZenonT(30), <1>1, <1>2 DEF Has
  <2>2. ASSUME Head(s) \in S PROVE Has(s, S)
    BY <1>1, <2>2 DEF Has
  <2>3. ASSUME Has(Tail(s), S) PROVE Has(s, S)
    BY <1>1, <1>3, <2>3 DEF Has
  <2> QED
    BY <2>1, <2>2, <2>3
<1>5. ASSUME Once(s, S) PROVE Once(Tail(s), S)
  <2> SUFFICES ASSUME NEW i \in 1 .. (Len(s) - 1), NEW j \in 1 .. (Len(s) - 1),
                      Tail(s)[i] \in S, Tail(s)[j] \in S
               PROVE  i = j
    BY DEF Once
  <2>1. i + 1 = j + 1
    BY <1>5 DEF Once
  <2> QED
    BY <2>1
<1>6. ASSUME Once(s, S), Head(s) \in S PROVE ~Has(Tail(s), S)
  BY <1>1, <1>3, <1>6 DEF Has, Once
<1> QED
  BY <1>4, <1>5, <1>6

-----------------------------------------------------------------------------
(* The kinds of messages can be told apart.                                *)

LEMMA CommandKinds ==
  ASSUME NEW c \in Command
  PROVE  /\ c.command \in {"StageTransitionProof", "Advance"}
         /\ c \in StageCommands <=> c.command = "StageTransitionProof"
         /\ c \in AdvanceCommands <=> c.command = "Advance"
         /\ c \in StageCommands => c.window \in Window
         /\ c \in AdvanceCommands => c.position \in Position
BY DEF Command, StageCommands, AdvanceCommands

LEMMA CommandsMade ==
  /\ \A w \in Window : StageCommand(w) \in StageCommands
  /\ \A p \in Position : AdvanceCommand(p) \in AdvanceCommands
  /\ \A c \in StageCommands : c \in Command /\ c \notin AdvanceCommands
  /\ \A c \in AdvanceCommands : c \in Command /\ c \notin StageCommands
BY DEF Command, StageCommands, AdvanceCommands, StageCommand, AdvanceCommand

LEMMA EventKinds ==
  ASSUME NEW e \in Event
  PROVE  /\ e \in Triggers <=> e.type \in {"Started", "ProofMessage", "JobFailed"}
         /\ e \in Failures <=> e.type = "JobFailed"
         /\ e.type = "Started" => e.position \in Position
         /\ e.type = "FinalityTransitionDetected" => e.inputs \in Dual
         /\ e.type = "JobFailed" => e.n_job_in_buffer \in Nat
         /\ e.type = "ProofMessage" => e.proof \in Window
BY DEF Event, Triggers, Starts, Proofs, Failures

LEMMA EventsMade ==
  /\ \A t \in {"JobCreated", "JobSucceeded", "HeadAdvanced"} :
       Notice(t) \in Event /\ Notice(t) \notin Triggers /\ Notice(t).type = t
  /\ \A p \in Position : Started(p) \in Event /\ Started(p) \in Triggers
  /\ \A d \in Dual : /\ FinalityTransitionDetected(d) \in Event
                     /\ FinalityTransitionDetected(d) \notin Triggers
  /\ \A n \in Nat : JobFailed(n) \in Event /\ JobFailed(n) \in Triggers
  /\ \A w \in Window : ProofMessage(w) \in Event /\ ProofMessage(w) \in Triggers
BY DEF Event, Triggers, Starts, Proofs, Failures, Notice, Started,
   FinalityTransitionDetected, JobFailed, ProofMessage

LEMMA SendKinds ==
  ASSUME NEW m \in Send
  PROVE  /\ m.to \in {"stage", "advance", "event"}
         /\ m.to = "event" => m.message \in Event
         /\ m.to # "event" => m.message \in Position
         /\ m \in TriggerSends <=> m.to = "event" /\ m.message \in Triggers
BY DEF Send, TriggerSends

LEMMA SendsMade ==
  /\ \A e \in Event : /\ ToEvent(e) \in Send
                      /\ ToEvent(e) \in TriggerSends <=> e \in Triggers
  /\ \A p \in Position : /\ ToStage(p) \in Send /\ ToStage(p) \notin TriggerSends
                         /\ ToAdvance(p) \in Send /\ ToAdvance(p) \notin TriggerSends
BY DEF Send, TriggerSends, ToEvent, ToStage, ToAdvance

-----------------------------------------------------------------------------
(* The event loop's steps.                                                 *)

Others == UNCHANGED <<finalised, detectorVars, observerVars, files, restarts>>

(* Facts every step of the event loop leaves alone.                        *)
LEMMA BridgeFrame ==
  ASSUME Others
  PROVE  /\ Wanted' = Wanted /\ Ordered' = Ordered /\ Settling' = Settling
         /\ UNCHANGED <<issuing, latest_current, latest_next, checkpoint, position>>
BY DEF Others, detectorVars, observerVars, files, Wanted, Ordered, Settling, Has

(* A step that makes no failure and starts no job keeps failures retriable. *)
LEMMA FailuresKept ==
  ASSUME Places, Others, Queued' \/ Proving' => Queued \/ Proving,
         \A i \in DOMAIN sending' :
           sending'[i].to = "event" /\ sending'[i].message.type = "JobFailed" =>
             sending'[i].message.n_job_in_buffer = 0,
         \A i \in DOMAIN events' :
           events'[i].type = "JobFailed" => events'[i].n_job_in_buffer = 0,
         Has(sending', [to : {"event"}, message : Failures]) \/ Has(events', Failures) =>
           Has(sending, [to : {"event"}, message : Failures]) \/ Has(events, Failures)
  PROVE  FailuresRetriable'
<1>1. UNCHANGED <<latest_current, latest_next>> /\ Ordered' = Ordered
  BY BridgeFrame
<1>2. /\ latest_next' # Nil => latest_current' # Nil
      /\ Ordered' \/ Queued' \/ Proving' => latest_current' # Nil
  BY <1>1 DEF Places, FailuresRetriable
<1>3. Has(sending', [to : {"event"}, message : Failures]) \/ Has(events', Failures) =>
        latest_current' # Nil
  BY <1>1 DEF Places, FailuresRetriable
<1> QED
  BY <1>2, <1>3 DEF FailuresRetriable

LEMMA FinalityChangePlaces ==
  ASSUME TypeOK, Places, OnBeaconFinalityChange, Others
  PROVE  Places'
<1> DEFINE e == FinalityTransitionDetected(Head(finality_output))
<1>1. Head(finality_output) \in Dual
  BY Take DEF TypeOK, ChannelsTypeOK, DetectorChannelsTypeOK, OnBeaconFinalityChange
<1>2. /\ ToEvent(e) \notin TriggerSends /\ ToEvent(e).to = "event"
      /\ ToEvent(e).message.type = "FinalityTransitionDetected"
  BY <1>1, EventsMade, SendsMade DEF ToEvent, FinalityTransitionDetected
<1> HIDE DEF e
<1>3. /\ sending = <<>> /\ sending' = <<ToEvent(e)>>
  BY DEF e, OnBeaconFinalityChange, Looping
<1>4. ~Reporting /\ ~Reporting' /\ Once(sending', TriggerSends)
  BY <1>2, <1>3, HasEmpty, HasOne DEF Reporting
<1>5. Queued' = Queued /\ Proving' = Proving /\ Reported' = Reported
  BY ZenonT(30) DEF Queued, Proving, Reported, Has, OnBeaconFinalityChange
<1>6. SerialPipeline'
  BY SMTT(30), <1>4, <1>5, BridgeFrame DEF Places, SerialPipeline, OnBeaconFinalityChange
<1>7. CommandOrder' /\ CommandsTaken'
  BY SMTT(30), <1>4, <1>5, BridgeFrame
  DEF Places, CommandOrder, CommandsTaken, OnBeaconFinalityChange
<1>8. JobsAnsweredOnce'
  BY DEF Places, JobsAnsweredOnce, ResultsMatchJobs, OnBeaconFinalityChange
<1>9. DOMAIN sending' = {1} /\ Len(sending') = 1 /\ sending'[1] = ToEvent(e)
  BY <1>3
<1>10. ReportsLast'
  BY ZenonT(30), <1>9 DEF ReportsLast
<1>11. FailuresRetriable'
  <2>1. ~Has(sending', [to : {"event"}, message : Failures])
    BY ZenonT(30), <1>2, <1>9 DEF Has, Failures
  <2> QED
    BY SMTT(30), <1>2, <1>5, <1>9, <2>1, BridgeFrame
    DEF Places, FailuresRetriable, OnBeaconFinalityChange
<1>12. PositionTravels'
  BY <1>2, <1>3, BridgeFrame DEF Places, PositionTravels, OnBeaconFinalityChange
<1> QED
  BY ZenonT(30), <1>6, <1>7, <1>8, <1>10, <1>11, <1>12 DEF Places

(* The command the event loop takes is the first of the channel.           *)
LEMMA FirstCommand ==
  ASSUME TypeOK, commands # <<>>
  PROVE  /\ Head(commands) \in Command /\ Head(commands) = commands[1]
         /\ commands \in Seq(Command) /\ 1 \in DOMAIN commands
         /\ DOMAIN commands = 1 .. Len(commands) /\ Len(commands) \in Nat \ {0}
         /\ Tail(commands) \in Seq(Command) /\ Len(Tail(commands)) = Len(commands) - 1
         /\ DOMAIN Tail(commands) = 1 .. (Len(commands) - 1)
         /\ \A i \in 1 .. (Len(commands) - 1) : Tail(commands)[i] = commands[i + 1]
<1>1. commands \in Seq(Command)
  BY ZenonT(30) DEF TypeOK, ChannelsTypeOK
<1> QED
  BY <1>1, Take, HeadLeaves, SeqShape

LEMMA StagePlaces ==
  ASSUME TypeOK, Places, StageTransitionProof, Others
  PROVE  Places'
<1> DEFINE id == (job_id + 1) % JobIdSpace
           w == Head(commands).window
<1>1. Head(commands) \in StageCommands /\ w \in Window
  BY ZenonT(30), FirstCommand, CommandKinds DEF StageTransitionProof
<1>2. Queued
  BY <1>1, FirstCommand DEF Queued, Has, StageTransitionProof
<1>3. /\ ~Wanted /\ ~Ordered /\ ~Proving /\ ~Reporting /\ ~Reported /\ ~Settling
  BY <1>2 DEF Places, SerialPipeline
<1>4. commands' = <<>> /\ issuing = <<>> /\ issuing' = <<>>
  <2>1. Len(commands) = 1 /\ issuing = <<>>
    BY ZenonT(30), <1>1, FirstCommand DEF Places, CommandOrder, StageTransitionProof
  <2>2. Len(commands') = 0 /\ commands' \in Seq(Command)
    BY <2>1, FirstCommand DEF StageTransitionProof
  <2> QED
    BY SMTT(30), <2>1, <2>2, BridgeFrame
<1>5. DOMAIN prover_jobs = {} /\ workers = {} /\ job_results = <<>>
  <2>1. DOMAIN prover_jobs = {}
    BY <1>3, BridgeFrame DEF Proving
  <2>2. workers = {} /\ DOMAIN job_results = {}
    BY <2>1 DEF Places, JobsAnsweredOnce, ResultsMatchJobs
  <2>3. job_results \in Seq(JobResult)
    BY DEF TypeOK, ChannelsTypeOK
  <2>4. Len(job_results) = 0
    BY SMTT(30), <2>2, <2>3, SeqShape
  <2> QED
    BY <2>1, <2>2, NoElements
<1>6. /\ DOMAIN prover_jobs' = {id} /\ prover_jobs'[id] = w
      /\ workers' = {[job_id |-> id, window |-> w]} /\ job_results' = <<>>
  BY ZenonT(30), <1>5 DEF StageTransitionProof
<1>7. Proving' /\ ~Queued' /\ Reported' = Reported
  BY <1>4, <1>6, HasEmpty DEF Proving, Queued, Reported, Has, StageTransitionProof
<1>8. w.output \in Position
  BY <1>1 DEF Window
<1>9. /\ ToStage(w.output) \notin TriggerSends
      /\ ToEvent(Notice("JobCreated")) \notin TriggerSends
      /\ ToStage(w.output).to = "stage" /\ ToEvent(Notice("JobCreated")).to = "event"
      /\ ToEvent(Notice("JobCreated")).message.type = "JobCreated"
  BY ZenonT(30), <1>8, EventsMade, SendsMade DEF ToStage, ToEvent, Notice
<1>10. /\ sending = <<>> /\ DOMAIN sending' = {1, 2} /\ Len(sending') = 2
       /\ sending' = <<ToStage(w.output), ToEvent(Notice("JobCreated"))>>
       /\ sending'[1] = ToStage(w.output) /\ sending'[2] = ToEvent(Notice("JobCreated"))
  <2>1. sending = <<>> /\ sending' = <<ToStage(w.output), ToEvent(Notice("JobCreated"))>>
    BY ZenonT(30) DEF StageTransitionProof, Looping
  <2> HIDE DEF w
  <2> QED
    BY <2>1
<1> HIDE DEF id, w
<1>11. ~Reporting' /\ Once(sending', TriggerSends)
  BY <1>9, <1>10, HasTwo DEF Reporting
<1>12. SerialPipeline'
  <2>1. \A j, k \in DOMAIN prover_jobs' : j = k
    BY ZenonT(30), <1>6
  <2>2. Once(events', Triggers) /\ Once(issuing', StageCommands) /\ Once(commands', StageCommands)
    BY ZenonT(30), <1>4, HasEmpty DEF Places, SerialPipeline, Once, StageTransitionProof
  <2>3. Wanted' = Wanted /\ Ordered' = Ordered /\ Settling' = Settling
    BY BridgeFrame
  <2> QED
    BY <1>3, <1>7, <1>11, <2>1, <2>2, <2>3 DEF SerialPipeline
<1>13. CommandOrder' /\ CommandsTaken'
  BY <1>4 DEF CommandOrder, CommandsTaken
<1>14. JobsAnsweredOnce'
  <2>1. DOMAIN job_results' = {} /\ Len(job_results') <= 1
    BY <1>6
  <2> QED
    BY <1>6, <2>1 DEF JobsAnsweredOnce, ResultsMatchJobs
<1>15. ReportsLast'
  BY SMTT(30), <1>9, <1>10 DEF ReportsLast
<1>16. FailuresRetriable'
  <2>1. ~Has(sending', [to : {"event"}, message : Failures])
    BY <1>9, <1>10 DEF Has, Failures
  <2>2. latest_current' # Nil
    BY SMTT(30), <1>2, BridgeFrame DEF Places, FailuresRetriable
  <2> QED
    BY ZenonT(30), <1>9, <1>10, <2>1, <2>2 DEF Places, FailuresRetriable, Has, StageTransitionProof
<1>17. PositionTravels'
  <2>1. ~Has(commands, AdvanceCommands) /\ ~Has(issuing, AdvanceCommands)
    BY SMTT(30), <1>1, <1>4, CommandsMade DEF Places, CommandOrder, Has
  <2>2. UNCHANGED <<head, checkpoint, position, advance_input>>
    BY BridgeFrame DEF StageTransitionProof
  <2>3. \A i \in DOMAIN sending' : sending'[i].to # "advance"
    BY ZenonT(30), <1>9, <1>10
  <2>4. /\ checkpoint \in {Nil, head}
        /\ IF advance_input = <<>> THEN position = head ELSE advance_input[1] = head
    <3>1. PositionTravels
      BY DEF Places
    <3>2. \A i \in DOMAIN sending : sending[i].to # "advance"
      BY <1>10
    <3> QED
      BY ZenonT(30), <2>1, <3>1, <3>2 DEF PositionTravels
  <2> QED
    BY <1>4, <2>2, <2>3, <2>4 DEF PositionTravels
<1> QED
  BY SMTT(30), <1>12, <1>13, <1>14, <1>15, <1>16, <1>17 DEF Places

LEMMA AdvancePlaces ==
  ASSUME TypeOK, Places, Advance, Others
  PROVE  Places'
<1> DEFINE p == Head(commands).position
<1>1. /\ Head(commands) \in AdvanceCommands /\ Head(commands) \notin StageCommands
      /\ p \in Position
  BY FirstCommand, CommandKinds DEF Advance
<1>2. ~Proving /\ ~Reporting /\ ~Reported /\ ~Settling
  BY DEF Places, CommandsTaken, Advance
<1>3. (Queued' <=> Queued) /\ Once(commands', StageCommands)
  <2>1. Once(commands, StageCommands)
    BY DEF Places, SerialPipeline
  <2>2. /\ Has(commands, StageCommands) <=> Has(Tail(commands), StageCommands)
        /\ Once(Tail(commands), StageCommands)
    BY ZenonT(30), <1>1, <2>1, FirstCommand, HasTail DEF Advance
  <2> QED
    BY <2>2 DEF Queued, Advance
<1>4. ~Proving' /\ ~Reported'
  BY <1>2 DEF Proving, Reported, Has, Advance
<1>5. /\ ToAdvance(p) \notin TriggerSends /\ ToAdvance(p).to = "advance"
      /\ ToEvent(Notice("HeadAdvanced")) \notin TriggerSends
      /\ ToEvent(Notice("HeadAdvanced")).to = "event"
      /\ ToEvent(Notice("HeadAdvanced")).message.type = "HeadAdvanced"
      /\ ToAdvance(p).message = p
  BY ZenonT(30), <1>1, EventsMade, SendsMade DEF ToAdvance, ToEvent, Notice
<1>6. /\ DOMAIN sending' = {1, 2} /\ Len(sending') = 2
      /\ sending' = <<ToAdvance(p), ToEvent(Notice("HeadAdvanced"))>>
      /\ sending'[1] = ToAdvance(p) /\ sending'[2] = ToEvent(Notice("HeadAdvanced"))
      /\ head' = p
  BY DEF Advance
<1>7. p = checkpoint
  BY <1>1, FirstCommand DEF Places, PositionTravels, Advance
<1> HIDE DEF p
<1>8. ~Reporting' /\ Once(sending', TriggerSends)
  BY ZenonT(30), <1>5, <1>6, HasTwo DEF Reporting
<1>9. SerialPipeline'
  BY <1>2, <1>3, <1>4, <1>8, BridgeFrame DEF Places, SerialPipeline, Proving, Advance
<1>10. /\ DOMAIN commands' = 1 .. (Len(commands) - 1) /\ Len(commands') = Len(commands) - 1
       /\ \A i \in DOMAIN commands' : commands'[i] = commands[i + 1] /\ i + 1 \in DOMAIN commands
                                      /\ i + 1 # 1
  BY FirstCommand DEF Advance
<1>11. ~Has(commands', AdvanceCommands) /\ ~Has(issuing, AdvanceCommands)
  BY <1>10 DEF Places, CommandOrder, Has
<1>12. CommandOrder'
  <2>1. \A i \in DOMAIN commands' :
          /\ commands'[i] \in StageCommands => i = Len(commands') /\ issuing' = <<>>
          /\ commands'[i] \in AdvanceCommands => i = 1
    <3> SUFFICES ASSUME NEW i \in DOMAIN commands'
                 PROVE  /\ commands'[i] \in StageCommands => i = Len(commands') /\ issuing' = <<>>
                        /\ commands'[i] \in AdvanceCommands => i = 1
      OBVIOUS
    <3>1. commands'[i] \in StageCommands => i + 1 = Len(commands) /\ issuing' = <<>>
      BY <1>10, BridgeFrame DEF Places, CommandOrder
    <3>2. commands'[i] \notin AdvanceCommands
      BY <1>11 DEF Has
    <3>3. i \in Int /\ Len(commands) \in Int
      BY <1>10, FirstCommand
    <3> QED
      BY <1>10, <3>1, <3>2
  <2>2. \A i \in DOMAIN issuing' :
          /\ issuing'[i] \in StageCommands => i = Len(issuing')
          /\ issuing'[i] \in AdvanceCommands => i = 1 /\ commands' = <<>>
    BY <1>11, BridgeFrame DEF Places, CommandOrder, Has
  <2> QED
    BY <2>1, <2>2 DEF CommandOrder
<1>13. CommandsTaken'
  BY <1>2, <1>4, <1>8, BridgeFrame DEF CommandsTaken
<1>14. JobsAnsweredOnce'
  BY DEF Places, JobsAnsweredOnce, ResultsMatchJobs, Advance
<1>15. ReportsLast'
  BY <1>5, <1>6 DEF ReportsLast
<1>16. FailuresRetriable'
  <2>1. ~Has(sending', [to : {"event"}, message : Failures])
    BY <1>5, <1>6 DEF Has, Failures
  <2>2. /\ events' = events /\ (Has(events', Failures) <=> Has(events, Failures))
        /\ \A i \in DOMAIN events' :
             events'[i].type = "JobFailed" => events'[i].n_job_in_buffer = 0
    BY DEF Places, FailuresRetriable, Has, Advance
  <2>3. \A i \in DOMAIN sending' :
          sending'[i].to = "event" /\ sending'[i].message.type = "JobFailed" =>
            sending'[i].message.n_job_in_buffer = 0
    BY ZenonT(30), <1>5, <1>6
  <2> QED
    BY <1>3, <1>4, <2>1, <2>2, <2>3, FailuresKept
<1>17. PositionTravels'
  BY ZenonT(30), <1>5, <1>6, <1>7, <1>11, BridgeFrame DEF PositionTravels, Has
<1> QED
  BY ZenonT(30), <1>9, <1>12, <1>13, <1>14, <1>15, <1>16, <1>17 DEF Places

(* The answer the event loop takes is the only one.                        *)
LEMMA OnlyResult ==
  ASSUME TypeOK, Places, job_results # <<>>
  PROVE  /\ Head(job_results) \in JobResult
         /\ DOMAIN prover_jobs = {Head(job_results).job_id}
         /\ Head(job_results).proof \in {Nil, prover_jobs[Head(job_results).job_id]}
         /\ Tail(job_results) = <<>> /\ workers = {}
         /\ Proving /\ ~Wanted /\ ~Ordered /\ ~Queued /\ ~Reporting /\ ~Reported /\ ~Settling
         /\ commands = <<>> /\ issuing = <<>> /\ latest_current # Nil
<1> DEFINE r == Head(job_results)
<1>1. job_results \in Seq(JobResult) /\ Len(job_results) <= 1
  BY DEF TypeOK, ChannelsTypeOK, Places, JobsAnsweredOnce
<1>2. /\ r \in JobResult /\ r = job_results[1] /\ Len(job_results) \in Nat \ {0}
      /\ Tail(job_results) \in Seq(JobResult) /\ Len(Tail(job_results)) = Len(job_results) - 1
  BY <1>1, Take
<1>3. Len(Tail(job_results)) = 0
  BY <1>1, <1>2
<1>4. Tail(job_results) = <<>>
  BY ZenonT(30), <1>2, <1>3, NoElements
<1>5. 1 \in DOMAIN job_results
  BY <1>1, <1>2, SeqShape
<1>6. r.job_id \in DOMAIN prover_jobs /\ r.proof \in {Nil, prover_jobs[r.job_id]}
  BY <1>2, <1>5 DEF Places, JobsAnsweredOnce, ResultsMatchJobs
<1>7. Proving
  BY <1>6 DEF Proving
<1>8. DOMAIN prover_jobs = {r.job_id}
  BY ZenonT(30), <1>6 DEF Places, SerialPipeline
<1>9. workers = {}
  BY DEF Places, JobsAnsweredOnce
<1>10. ~Wanted /\ ~Ordered /\ ~Queued /\ ~Reporting /\ ~Reported /\ ~Settling
  BY <1>7 DEF Places, SerialPipeline
<1>11. commands = <<>> /\ issuing = <<>> /\ latest_current # Nil
  BY <1>7 DEF Places, CommandsTaken, FailuresRetriable
<1> QED
  BY <1>2, <1>4, <1>6, <1>7, <1>8, <1>9, <1>10, <1>11

(* Both handlers of an answer: the job goes, its report is on its way.     *)
LEMMA AnswerPlaces ==
  ASSUME TypeOK, Places, Others, Looping, job_results # <<>>,
         prover_jobs' = WithoutJob(Head(job_results).job_id),
         job_results' = Tail(job_results),
         UNCHANGED <<head, workers, commands, events, advance_input>>,
         Reporting', Once(sending', TriggerSends), ReportsLast',
         \A i \in DOMAIN sending' :
           /\ sending'[i].to = "event"
           /\ sending'[i].message.type = "JobFailed" => sending'[i].message.n_job_in_buffer = 0
  PROVE  Places'
<1>1. DOMAIN prover_jobs' = {} /\ ~Proving'
  BY SMTT(30), OnlyResult DEF WithoutJob, Restrict, Proving
<1>2. /\ ~Queued' /\ ~Reported' /\ Once(commands', StageCommands)
      /\ Once(events', Triggers) /\ Once(issuing', StageCommands)
  BY ZenonT(30), BridgeFrame, OnlyResult DEF Queued, Reported, Places, SerialPipeline
<1>3. SerialPipeline'
  <2>1. ~Wanted' /\ ~Ordered' /\ ~Settling'
    BY BridgeFrame, OnlyResult
  <2> QED
    BY ZenonT(30), <1>1, <1>2, <2>1 DEF SerialPipeline
<1>4. CommandOrder' /\ CommandsTaken'
  <2>1. commands' = <<>> /\ issuing' = <<>>
    BY ZenonT(30), BridgeFrame, OnlyResult
  <2> QED
    BY SMTT(30), <2>1 DEF CommandOrder, CommandsTaken
<1>5. JobsAnsweredOnce'
  <2>1. job_results' = <<>>
    BY OnlyResult
  <2>2. DOMAIN job_results' = {} /\ Len(job_results') <= 1
    BY SMTT(30), <2>1, OnlyResult
  <2> QED
    BY <1>1, <2>2, OnlyResult DEF JobsAnsweredOnce, ResultsMatchJobs
<1>6. FailuresRetriable'
  <2>1. latest_current' # Nil
    BY ZenonT(30), BridgeFrame, OnlyResult
  <2> QED
    BY <2>1 DEF Places, FailuresRetriable
<1>7. PositionTravels'
  <2>1. sending = <<>> /\ \A i \in DOMAIN sending' : sending'[i].to # "advance"
    BY SMTT(30) DEF Looping
  <2>2. UNCHANGED <<issuing, checkpoint, position>>
    BY ZenonT(30), BridgeFrame
  <2> QED
    BY <2>1, <2>2 DEF Places, PositionTravels, Has
<1> QED
  BY <1>3, <1>4, <1>5, <1>6, <1>7 DEF Places

LEMMA SuccessPlaces ==
  ASSUME TypeOK, Places, HandleProverSuccess, Others
  PROVE  Places'
<1> DEFINE w == Head(job_results).proof
           a == ToEvent(Notice("JobSucceeded"))
           b == ToEvent(ProofMessage(w))
<1>1. w \in Window
  BY ZenonT(30), OnlyResult DEF JobResult, HandleProverSuccess
<1>2. a \notin TriggerSends /\ b \in TriggerSends
  BY <1>1, EventsMade, SendsMade
<1>3. /\ a.to = "event" /\ a.message.type = "JobSucceeded"
      /\ b.to = "event" /\ b.message.type = "ProofMessage"
  BY DEF ToEvent, Notice, ProofMessage
<1>4. /\ sending' = <<a, b>> /\ DOMAIN sending' = {1, 2} /\ Len(sending') = 2
      /\ sending'[1] = a /\ sending'[2] = b
  BY DEF HandleProverSuccess
<1> HIDE DEF w, a, b
<1>5. Reporting' /\ Once(sending', TriggerSends)
  BY <1>2, <1>4, HasTwo DEF Reporting
<1>6. ReportsLast'
  BY <1>2, <1>4 DEF ReportsLast
<1>7. \A i \in DOMAIN sending' :
        /\ sending'[i].to = "event"
        /\ sending'[i].message.type = "JobFailed" => sending'[i].message.n_job_in_buffer = 0
  BY <1>3, <1>4
<1> QED
  BY ZenonT(30), <1>5, <1>6, <1>7, AnswerPlaces DEF HandleProverSuccess

(* A worker that ends changes only who works and what is answered.         *)
LEMMA WorkerLeaves ==
  ASSUME Places, Others, JobsAnsweredOnce',
         UNCHANGED <<head, prover_jobs, sending, events, commands, advance_input>>
  PROVE  Places'
<1>1. /\ Queued' = Queued /\ Proving' = Proving /\ Reporting' = Reporting
      /\ Reported' = Reported
  BY DEF Queued, Proving, Reporting, Reported, Has
<1>2. SerialPipeline' /\ CommandOrder' /\ CommandsTaken'
  <2>1. SerialPipeline'
    <3>1. /\ Once(issuing', StageCommands) /\ Once(commands', StageCommands)
          /\ \A j, k \in DOMAIN prover_jobs' : j = k
          /\ Once(sending', TriggerSends) /\ Once(events', Triggers)
      BY ZenonT(30), BridgeFrame DEF Places, SerialPipeline
    <3>2. Wanted' = Wanted /\ Ordered' = Ordered /\ Settling' = Settling
      BY ZenonT(30), BridgeFrame
    <3> QED
      BY ZenonT(30), <1>1, <3>1, <3>2 DEF Places, SerialPipeline, Once
  <2>2. CommandOrder' /\ CommandsTaken'
    BY <1>1, BridgeFrame DEF Places, CommandOrder, CommandsTaken
  <2> QED
    BY SMTT(30), <2>1, <2>2
<1>3. ReportsLast'
  BY DEF Places, ReportsLast
<1>4. FailuresRetriable'
  <2>1. /\ \A i \in DOMAIN sending' :
             sending'[i].to = "event" /\ sending'[i].message.type = "JobFailed" =>
               sending'[i].message.n_job_in_buffer = 0
        /\ \A i \in DOMAIN events' :
             events'[i].type = "JobFailed" => events'[i].n_job_in_buffer = 0
    BY ZenonT(30) DEF Places, FailuresRetriable
  <2>2. Has(sending', [to : {"event"}, message : Failures]) \/ Has(events', Failures) =>
          Has(sending, [to : {"event"}, message : Failures]) \/ Has(events, Failures)
    BY SMTT(30) DEF Has
  <2> QED
    BY ZenonT(30), <1>1, <2>1, <2>2, FailuresKept
<1>5. PositionTravels'
  BY ZenonT(30), BridgeFrame DEF Places, PositionTravels, Has
<1> QED
  BY <1>2, <1>3, <1>4, <1>5 DEF Places

LEMMA WorkerPlaces ==
  ASSUME TypeOK, Places, Others, NEW w \in workers, NEW proof \in {w.window, Nil},
         WorkerAnswers(w, proof)
  PROVE  Places'
<1> DEFINE r == [job_id |-> w.job_id, proof |-> proof]
<1>1. /\ w.job_id \in DOMAIN prover_jobs /\ prover_jobs[w.job_id] = w.window
      /\ job_results = <<>> /\ workers = {w}
  BY DEF Places, JobsAnsweredOnce
<1>2. workers' = {}
  BY <1>1 DEF WorkerAnswers
<1>3. job_results' = <<r>> /\ Len(job_results') = 1 /\ DOMAIN job_results' = {1}
      /\ job_results'[1] = r
  BY SMTT(30), <1>1 DEF WorkerAnswers
<1>4. JobsAnsweredOnce'
  BY <1>1, <1>2, <1>3 DEF JobsAnsweredOnce, ResultsMatchJobs, WorkerAnswers
<1>5. UNCHANGED <<head, prover_jobs, sending, events, commands, advance_input>>
  BY DEF WorkerAnswers
<1> QED
  BY ZenonT(30), <1>4, <1>5, WorkerLeaves

(* A panic takes the worker and leaves its job where it is.                *)
LEMMA PanicPlaces ==
  ASSUME Places, Others, WorkerPanics
  PROVE  Places'
<1>1. UNCHANGED <<head, prover_jobs, sending, events, commands, advance_input, job_results>>
  BY ZenonT(30) DEF WorkerPanics
<1>2. workers' \subseteq workers
  BY ZenonT(30) DEF WorkerPanics
<1>3. JobsAnsweredOnce'
  BY ZenonT(30), <1>1, <1>2 DEF Places, JobsAnsweredOnce, ResultsMatchJobs
<1> QED
  BY ZenonT(30), <1>1, <1>3, WorkerLeaves

(* The send that is performed is the first of those left.                  *)
LEMMA FirstSend ==
  ASSUME TypeOK, sending # <<>>
  PROVE  /\ Head(sending) \in Send /\ Head(sending) = sending[1] /\ 1 \in DOMAIN sending
         /\ sending \in Seq(Send) /\ Len(sending) \in Nat \ {0}
         /\ Tail(sending) \in Seq(Send) /\ Len(Tail(sending)) = Len(sending) - 1
         /\ DOMAIN sending = 1 .. Len(sending)
         /\ \A i \in DOMAIN Tail(sending) :
              i \in Int /\ i + 1 \in DOMAIN sending /\ i + 1 # 1 /\ Tail(sending)[i] = sending[i + 1]
<1>1. sending \in Seq(Send)
  BY DEF TypeOK, BridgeTypeOK
<1>2. /\ Head(sending) \in Send /\ Head(sending) = sending[1]
      /\ Len(sending) \in Nat \ {0} /\ DOMAIN sending = 1 .. Len(sending)
      /\ Tail(sending) \in Seq(Send) /\ Len(Tail(sending)) = Len(sending) - 1
      /\ \A i \in 1 .. Len(Tail(sending)) : Tail(sending)[i] = sending[i + 1]
      /\ DOMAIN Tail(sending) = 1 .. Len(Tail(sending))
  BY <1>1
<1> QED
  BY <1>1, <1>2

LEMMA SendPlaces ==
  ASSUME TypeOK, Places, SendNext, Others
  PROVE  Places'
<1> DEFINE m == Head(sending)
           FailureSends == [to : {"event"}, message : Failures]
<1>1. /\ sending # <<>> /\ sending' = Tail(sending)
      /\ UNCHANGED <<head, prover_jobs, workers, commands, job_results>>
  BY DEF SendNext
<1>2. m.to \in {"stage", "advance", "event"}
  BY <1>1, SendKinds, FirstSend
<1>3. /\ Reporting <=> m \in TriggerSends \/ Reporting'
      /\ Once(sending', TriggerSends)
      /\ m \in TriggerSends => ~Reporting'
  <2>1. Once(sending, TriggerSends)
    BY DEF Places, SerialPipeline
  <2>2. /\ Has(sending, TriggerSends) <=> m \in TriggerSends \/ Has(Tail(sending), TriggerSends)
        /\ Once(Tail(sending), TriggerSends)
        /\ m \in TriggerSends => ~Has(Tail(sending), TriggerSends)
    BY ZenonT(30), <1>1, <2>1, HasTail, FirstSend
  <2> QED
    BY <1>1, <2>2 DEF Reporting
<1>4. Queued' = Queued /\ Proving' = Proving
  BY <1>1 DEF Queued, Proving, Has
<1>5. ReportsLast'
  <2> SUFFICES ASSUME NEW i \in DOMAIN sending', sending'[i] \in TriggerSends
               PROVE  i = Len(sending')
    BY DEF ReportsLast
  <2>1. i + 1 = Len(sending) /\ Len(sending') = Len(sending) - 1 /\ i \in Int
    BY SMTT(30), <1>1 DEF Places, ReportsLast
  <2> QED
    BY <1>1, <2>1
<1>6. JobsAnsweredOnce'
  BY <1>1 DEF Places, JobsAnsweredOnce, ResultsMatchJobs
<1>7. CommandOrder'
  BY ZenonT(30), <1>1, BridgeFrame DEF Places, CommandOrder
<1>8. \A i \in DOMAIN sending' : sending'[i].to # "advance"
  BY <1>1 DEF Places, PositionTravels
<1>9. /\ \A i \in DOMAIN sending' :
           sending'[i].to = "event" /\ sending'[i].message.type = "JobFailed" =>
             sending'[i].message.n_job_in_buffer = 0
      /\ Has(sending, FailureSends) <=> m \in FailureSends \/ Has(sending', FailureSends)
  <2>1. Has(sending, FailureSends) <=> m \in FailureSends \/ Has(Tail(sending), FailureSends)
    BY ZenonT(30), <1>1, HasTail, FirstSend
  <2> QED
    BY ZenonT(30), <1>1, <2>1, FirstSend DEF Places, FailuresRetriable
<1> HIDE DEF FailureSends
<1>10. CASE m.to # "event"
  <2>1. m \notin TriggerSends /\ UNCHANGED events
    BY <1>10, SendKinds, FirstSend DEF SendNext
  <2>2. Reported' = Reported /\ (Reporting' <=> Reporting)
    BY ZenonT(30), <1>3, <2>1 DEF Reported, Has
  <2>3. SerialPipeline' /\ CommandsTaken'
    BY SMTT(30), <1>1, <1>3, <1>4, <2>1, <2>2, BridgeFrame DEF Places, SerialPipeline, CommandsTaken
  <2>4. FailuresRetriable'
    <3>1. /\ Has(events', Failures) <=> Has(events, Failures)
          /\ \A i \in DOMAIN events' :
               events'[i].type = "JobFailed" => events'[i].n_job_in_buffer = 0
      BY <2>1 DEF Places, FailuresRetriable, Has
    <3> QED
      BY ZenonT(30), <1>4, <1>9, <3>1, FailuresKept DEF FailureSends
  <2>5. PositionTravels'
    <3>1. CASE m.to = "advance"
      <4>1. /\ m.message = head /\ Len(advance_input) < 1
            /\ advance_input' = Append(advance_input, m.message)
        BY <3>1, FirstSend DEF Places, PositionTravels, SendNext, DetectorCapacity
      <4>2. advance_input \in Seq(Position) /\ Len(advance_input) \in Nat
        BY SeqShape DEF TypeOK, ChannelsTypeOK, DetectorChannelsTypeOK
      <4>3. advance_input = <<>>
        BY <4>1, <4>2, NoElements
      <4>4. advance_input' = <<head>>
        BY SMTT(30), <4>1, <4>3
      <4> QED
        <5>1. advance_input' # <<>> /\ advance_input'[1] = head
          BY <4>4
        <5>2. UNCHANGED <<commands, issuing, checkpoint, head>>
          BY ZenonT(30), <1>1, BridgeFrame
        <5>3. /\ \A i \in DOMAIN commands' :
                   commands'[i] \in AdvanceCommands => commands'[i].position = checkpoint'
              /\ \A i \in DOMAIN issuing' :
                   issuing'[i] \in AdvanceCommands => issuing'[i].position = checkpoint'
              /\ ~Has(commands', AdvanceCommands) /\ ~Has(issuing', AdvanceCommands) =>
                   checkpoint' \in {Nil, head'}
          BY ZenonT(30), <5>2 DEF Places, PositionTravels
        <5> QED
          BY ZenonT(30), <1>8, <5>1, <5>2, <5>3 DEF PositionTravels
    <3>2. CASE m.to # "advance"
      <4>1. UNCHANGED advance_input
        BY <1>2, <1>10, <3>2 DEF SendNext
      <4>2. \A i \in DOMAIN sending : sending[i].to # "advance"
        BY SMTT(30), <1>1, <3>2 DEF Places, PositionTravels
      <4> QED
        BY <1>1, <1>8, <4>1, <4>2, BridgeFrame DEF Places, PositionTravels, Has
    <3> QED
      BY ZenonT(30), <3>1, <3>2
  <2> QED
    BY ZenonT(30), <1>5, <1>6, <1>7, <2>3, <2>4, <2>5 DEF Places
<1>11. CASE m.to = "event"
  <2> DEFINE e == m.message
  <2>1. e \in Event /\ (m \in TriggerSends <=> e \in Triggers)
    BY ZenonT(30), <1>1, <1>11, SendKinds, FirstSend
  <2>2. events \in Seq(Event) /\ events' = Append(events, e) /\ UNCHANGED advance_input
    BY SMTT(30), <1>11 DEF SendNext, TypeOK, ChannelsTypeOK
  <2>3. /\ Has(events', Triggers) <=> Has(events, Triggers) \/ e \in Triggers
        /\ Once(events, Triggers) /\ ~(Has(events, Triggers) /\ e \in Triggers) =>
             Once(events', Triggers)
    BY ZenonT(30), <2>1, <2>2, HasAppend
  <2>4. Reported' <=> Reported \/ m \in TriggerSends
    BY <2>1, <2>3 DEF Reported
  <2>5. m \in TriggerSends => ~Reported
    BY ZenonT(30), <1>3 DEF Places, SerialPipeline
  <2>6. Once(events', Triggers)
    BY <2>1, <2>3, <2>5 DEF Places, SerialPipeline, Reported
  <2>7. SerialPipeline' /\ CommandsTaken'
    <3>1. /\ Once(issuing', StageCommands) /\ Once(commands', StageCommands)
          /\ \A j, k \in DOMAIN prover_jobs' : j = k
      BY ZenonT(30), <1>1, BridgeFrame DEF Places, SerialPipeline, Once
    <3>2. SerialPipeline'
      BY SMTT(30), <1>3, <1>4, <2>4, <2>6, <3>1, BridgeFrame DEF Places, SerialPipeline
    <3>3. CommandsTaken'
      BY ZenonT(30), <1>1, <1>3, <1>4, <2>4, BridgeFrame DEF Places, CommandsTaken
    <3> QED
      BY ZenonT(30), <3>2, <3>3
  <2>8. FailuresRetriable'
    <3>1. Has(events', Failures) <=> Has(events, Failures) \/ e \in Failures
      BY ZenonT(30), <2>1, <2>2, HasAppend
    <3>2. e \in Failures => m \in FailureSends /\ Has(sending, FailureSends)
      <4>1. e \in Failures => m \in FailureSends
        BY <1>1, <1>11, FirstSend DEF FailureSends, Send
      <4> QED
        BY ZenonT(30), <4>1, <1>9
    <3>3. /\ DOMAIN events = 1 .. Len(events) /\ DOMAIN events' = 1 .. (Len(events) + 1)
          /\ Len(events) \in Nat /\ events'[Len(events) + 1] = e
          /\ \A i \in 1 .. Len(events) : events'[i] = events[i]
      BY SMTT(30), <2>1, <2>2, LastJoins, SeqShape
    <3>4. e.type = "JobFailed" => e.n_job_in_buffer = 0
      BY SMTT(30), <1>1, <1>11, FirstSend DEF Places, FailuresRetriable
    <3>5. \A i \in DOMAIN events' :
            events'[i].type = "JobFailed" => events'[i].n_job_in_buffer = 0
      <4> SUFFICES ASSUME NEW i \in DOMAIN events', events'[i].type = "JobFailed"
                   PROVE  events'[i].n_job_in_buffer = 0
        OBVIOUS
      <4>1. CASE i = Len(events) + 1
        BY <3>3, <3>4, <4>1
      <4>2. CASE i # Len(events) + 1
        <5>1. i \in DOMAIN events /\ events'[i] = events[i]
          BY SMTT(30), <3>3, <4>2
        <5> QED
          BY <5>1 DEF Places, FailuresRetriable
      <4> QED
        BY <4>1, <4>2
    <3>6. Queued' \/ Proving' => Queued \/ Proving
      BY <1>4, Zenon
    <3>7. Has(sending', FailureSends) \/ Has(events', Failures) =>
            Has(sending, FailureSends) \/ Has(events, Failures)
      BY <1>9, <3>1, <3>2, Zenon
    <3> QED
      BY ZenonT(30), <1>9, <3>5, <3>6, <3>7, FailuresKept DEF FailureSends
  <2>9. PositionTravels'
    <3>1. \A i \in DOMAIN sending : sending[i].to # "advance"
      BY <1>1, <1>11 DEF Places, PositionTravels
    <3> QED
      BY ZenonT(30), <1>1, <1>8, <2>2, <3>1, BridgeFrame DEF Places, PositionTravels
  <2> QED
    BY SMTT(30), <1>5, <1>6, <1>7, <2>7, <2>8, <2>9 DEF Places
<1> QED
  BY <1>10, <1>11

=============================================================================
