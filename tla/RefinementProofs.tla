------------------------- MODULE RefinementProofs ---------------------------
(***************************************************************************)
(* The proof that the actors together implement ProofPipeline: the initial *)
(* states map to initial states, and each step of an actor to a step of    *)
(* the one job or to none.                                                 *)
(***************************************************************************)
EXTENDS PipelineProofs

-----------------------------------------------------------------------------
(* Where the job is, with its window.                                      *)

StagesOf(w) == [command : {"StageTransitionProof"}, window : {w}]
ProofsOf(w) == [type : {"ProofMessage"}, proof : {w}]
Sends(E)    == [to : {"event"}, message : E]

Staged(w) == Has(issuing, StagesOf(w)) \/ Has(commands, StagesOf(w))
Proved(w) == Has(events, ProofsOf(w)) \/ Has(sending, Sends(ProofsOf(w))) \/ settling = w
Failed    == Has(events, Failures) \/ Has(sending, Sends(Failures))
Starting  == Has(events, Starts) \/ Has(sending, Sends(Starts))

(* The kinds of messages, told apart by their contents.                    *)
LEMMA StageOf ==
  ASSUME NEW c \in Command
  PROVE  /\ c.command = "StageTransitionProof" => c.window \in Window /\ c \in StagesOf(c.window)
         /\ \A w : c \in StagesOf(w) => /\ c.command = "StageTransitionProof" /\ c.window = w
                                        /\ c \in StageCommands
BY DEF Command, StageCommands, AdvanceCommands, StagesOf

LEMMA EventOf ==
  ASSUME NEW e \in Event
  PROVE  /\ e.type = "ProofMessage" => e.proof \in Window /\ e \in ProofsOf(e.proof)
         /\ \A w : e \in ProofsOf(w) => e.type = "ProofMessage" /\ e.proof = w
         /\ e \in Failures <=> e.type = "JobFailed"
         /\ e \in Starts <=> e.type = "Started"
         /\ e \in Triggers <=> e.type \in {"ProofMessage", "JobFailed", "Started"}
BY DEF Event, Triggers, Starts, Proofs, Failures, ProofsOf

LEMMA SendOf ==
  ASSUME NEW m \in Send
  PROVE  /\ m.to = "event" => m.message \in Event
         /\ \A E : m \in Sends(E) <=> m.to = "event" /\ m.message \in E
         /\ m \in TriggerSends <=> m \in Sends(Triggers)
BY DEF Send, Sends, TriggerSends

(* The elements of the channels and outboxes.                              *)
LEMMA Elements ==
  ASSUME TypeOK
  PROVE  /\ \A i \in DOMAIN issuing : issuing[i] \in Command
         /\ \A i \in DOMAIN commands : commands[i] \in Command
         /\ \A i \in DOMAIN events : events[i] \in Event
         /\ \A i \in DOMAIN sending : sending[i] \in Send
<1>1. /\ issuing \in Seq(Command) /\ commands \in Seq(Command) /\ events \in Seq(Event)
      /\ sending \in Seq(Send)
  BY DEF TypeOK, ChannelsTypeOK, ObserverTypeOK, BridgeTypeOK
<1> QED
  BY SMTT(30), <1>1

LEMMA RangeOfTwo ==
  ASSUME NEW S, NEW s \in Seq(S), NEW t \in Seq(S), NEW x
  PROVE  x \in Range(s \o t) <=> (\E i \in DOMAIN s : x = s[i]) \/ (\E i \in DOMAIN t : x = t[i])
<1>1. /\ DOMAIN s = 1 .. Len(s) /\ DOMAIN t = 1 .. Len(t) /\ Len(s) \in Nat /\ Len(t) \in Nat
      /\ DOMAIN (s \o t) = 1 .. (Len(s) + Len(t))
      /\ \A i \in 1 .. (Len(s) + Len(t)) : (s \o t)[i] = IF i <= Len(s) THEN s[i] ELSE t[i - Len(s)]
  OBVIOUS
<1>2. ASSUME NEW i \in 1 .. (Len(s) + Len(t)), x = (s \o t)[i]
      PROVE  (\E j \in DOMAIN s : x = s[j]) \/ (\E j \in DOMAIN t : x = t[j])
  <2>1. CASE i <= Len(s)
    BY SMTT(30), <1>1, <1>2, <2>1
  <2>2. CASE ~(i <= Len(s))
    <3>1. i - Len(s) \in 1 .. Len(t)
      BY <1>1, <2>2
    <3> QED
      BY ZenonT(30), <1>1, <1>2, <2>2, <3>1
  <2> QED
    BY ZenonT(30), <2>1, <2>2
<1>3. ASSUME NEW i \in DOMAIN s, x = s[i] PROVE x \in Range(s \o t)
  BY SMTT(30), <1>1, <1>3 DEF Range
<1>4. ASSUME NEW i \in DOMAIN t, x = t[i] PROVE x \in Range(s \o t)
  <2>1. i + Len(s) \in 1 .. (Len(s) + Len(t)) /\ ~(i + Len(s) <= Len(s)) /\ (i + Len(s)) - Len(s) = i
    BY <1>1
  <2>2. (s \o t)[i + Len(s)] = x
    BY ZenonT(30), <1>1, <1>4, <2>1
  <2> QED
    BY ZenonT(30), <1>1, <2>1, <2>2 DEF Range
<1> QED
  BY ZenonT(30), <1>1, <1>2, <1>3, <1>4 DEF Range

(* The events on their way are those of the channel and of the outbox.     *)
LEMMA UnhandledHas ==
  ASSUME TypeOK
  PROVE  /\ \A e \in Unhandled : e \in Event
         /\ \A E : (\E e \in Unhandled : e \in E) <=> Has(events, E) \/ Has(sending, Sends(E))
<1>1. /\ \A i \in DOMAIN events : events[i] \in Event
      /\ \A i \in DOMAIN sending : sending[i] \in Send
  BY Elements
<1>2. \A e : e \in Unhandled <=>
        \/ \E i \in DOMAIN events : e = events[i]
        \/ \E i \in DOMAIN sending : sending[i].to = "event" /\ e = sending[i].message
  BY DEF Unhandled, Range
<1>3. \A e \in Unhandled : e \in Event
  BY ZenonT(30), <1>1, <1>2, SendOf
<1>4. ASSUME NEW E
      PROVE  (\E e \in Unhandled : e \in E) <=> Has(events, E) \/ Has(sending, Sends(E))
  BY SMTT(30), <1>1, <1>2, SendOf DEF Has
<1> QED
  BY ZenonT(30), <1>3, <1>4

(* At most one report is on its way.                                       *)
LEMMA OneReport ==
  ASSUME TypeOK, SerialPipeline, NEW e \in Unhandled, NEW f \in Unhandled,
         e \in Triggers, f \in Triggers
  PROVE  e = f /\ (Reporting \/ Reported)
<1>1. \A d \in Unhandled :
        \/ \E i \in DOMAIN events : d = events[i]
        \/ \E i \in DOMAIN sending : sending[i].to = "event" /\ d = sending[i].message
  BY DEF Unhandled, Range
<1>2. ASSUME NEW i \in DOMAIN sending, sending[i].to = "event", sending[i].message \in Triggers
      PROVE  sending[i] \in TriggerSends
  BY ZenonT(30), <1>2, Elements, SendOf
<1>3. /\ \A i, j \in DOMAIN events : events[i] \in Triggers /\ events[j] \in Triggers => i = j
      /\ \A i, j \in DOMAIN sending :
           sending[i] \in TriggerSends /\ sending[j] \in TriggerSends => i = j
  BY DEF SerialPipeline, Once
<1>4. /\ Reporting => ~Reported
      /\ \A i \in DOMAIN events : events[i] \in Triggers => Reported
      /\ \A i \in DOMAIN sending : sending[i] \in TriggerSends => Reporting
  BY DEF SerialPipeline, Reported, Reporting, Has
<1> QED
  BY SMTT(30), <1>1, <1>2, <1>3, <1>4

LEMMA OneOf == ASSUME NEW x PROVE The({x}) = x
BY DEF The

(* The staged windows, and the one there is.                               *)
LEMMA StagedAre ==
  ASSUME TypeOK, SerialPipeline
  PROVE  /\ StagedWindows = { w \in Window : Staged(w) }
         /\ StagedWindows # {} => Ordered \/ Queued
         /\ \A v, w \in StagedWindows : v = w
<1>1. /\ issuing \in Seq(Command) /\ commands \in Seq(Command)
  BY DEF TypeOK, ChannelsTypeOK, ObserverTypeOK
<1>2. \A c : c \in Range(issuing \o commands) <=>
        (\E i \in DOMAIN issuing : c = issuing[i]) \/ (\E i \in DOMAIN commands : c = commands[i])
  BY <1>1, RangeOfTwo
<1>3. \A w : w \in StagedWindows <=>
        \E c \in Range(issuing \o commands) : c.command = "StageTransitionProof" /\ w = c.window
  BY DEF StagedWindows
<1>4. \A c \in Range(issuing \o commands) : c \in Command
  BY ZenonT(30), <1>2, Elements
<1>5. ASSUME NEW w PROVE w \in StagedWindows <=> w \in Window /\ Staged(w)
  <2>1. ASSUME w \in StagedWindows PROVE w \in Window /\ Staged(w)
    <3> PICK c \in Range(issuing \o commands) : c.command = "StageTransitionProof" /\ w = c.window
      BY <1>3, <2>1
    <3>1. w \in Window /\ c \in StagesOf(w)
      BY <1>4, StageOf
    <3> QED
      BY <1>2, <3>1 DEF Staged, Has
  <2>2. ASSUME w \in Window, Staged(w) PROVE w \in StagedWindows
    <3> PICK c \in Range(issuing \o commands) : c \in StagesOf(w)
      BY ZenonT(30), <1>2, <2>2 DEF Staged, Has
    <3>1. c.command = "StageTransitionProof" /\ w = c.window
      BY ZenonT(30), <1>4, StageOf
    <3> QED
      BY <1>3, <3>1
  <2> QED
    BY ZenonT(30), <2>1, <2>2
<1>6. \A c \in Range(issuing \o commands) : c.command = "StageTransitionProof" => c \in StageCommands
  BY <1>4, CommandKinds
<1>7. \A c \in Range(issuing \o commands) : c \in StageCommands => Ordered \/ Queued
  BY ZenonT(30), <1>2 DEF Ordered, Queued, Has
<1>8. ASSUME NEW c \in Range(issuing \o commands), NEW d \in Range(issuing \o commands),
             c \in StageCommands, d \in StageCommands
      PROVE  c = d
  BY SMTT(30), <1>2, <1>8 DEF SerialPipeline, Ordered, Queued, Has, Once
<1>9. \A v, w \in StagedWindows : v = w
  BY SMTT(30), <1>3, <1>6, <1>8
<1> QED
  BY ZenonT(30), <1>3, <1>5, <1>6, <1>7, <1>9

(* The proved windows, and the one there is.                               *)
LEMMA ProvedAre ==
  ASSUME TypeOK, SerialPipeline
  PROVE  /\ ProvedWindows = { w \in Window : Proved(w) }
         /\ ProvedWindows # {} => Reporting \/ Reported \/ Settling
         /\ \A v, w \in ProvedWindows : v = w
<1>1. settling \in Window \cup {Nil}
  BY DEF TypeOK, ObserverTypeOK
<1>2. \A w : w \in ProvedWindows <=>
        \/ \E e \in Unhandled : e.type = "ProofMessage" /\ w = e.proof
        \/ w = settling /\ settling # Nil
  BY DEF ProvedWindows
<1>3. \A w : Proved(w) <=> (\E e \in Unhandled : e \in ProofsOf(w)) \/ settling = w
  BY UnhandledHas DEF Proved
<1>4. \A e \in Unhandled :
        /\ e.type = "ProofMessage" => e \in Triggers /\ e.proof \in Window /\ e \in ProofsOf(e.proof)
        /\ \A w : e \in ProofsOf(w) => e.type = "ProofMessage" /\ e.proof = w
  BY UnhandledHas, EventOf
<1>5. ASSUME NEW w PROVE w \in ProvedWindows <=> w \in Window /\ Proved(w)
  BY SMTT(30), <1>1, <1>2, <1>3, <1>4, NilAssumption
<1>6. \A e \in Unhandled : e \in Triggers => Reporting \/ Reported
  BY OneReport
<1>7. ProvedWindows # {} => Reporting \/ Reported \/ Settling
  BY <1>2, <1>4, <1>6 DEF Settling
<1>8. Settling => ~Reporting /\ ~Reported
  BY DEF SerialPipeline
<1>9. ASSUME NEW v \in ProvedWindows, NEW w \in ProvedWindows PROVE v = w
  BY SMTT(30), <1>2, <1>4, <1>6, <1>8, OneReport DEF Settling
<1> QED
  BY ZenonT(30), <1>5, <1>7, <1>9

(* The mapping, read off the places: the job is in exactly one.            *)
JobIs ==
  /\ Wanted => Phase = "wanted" /\ JobWindow = Nil
  /\ \A w \in Window : Staged(w) => Phase = "staged" /\ JobWindow = w
  /\ \A j \in DOMAIN prover_jobs : Phase = "proving" /\ JobWindow = prover_jobs[j]
  /\ \A w \in Window : Proved(w) => Phase = "proved" /\ JobWindow = w
  /\ Failed => Phase = "failed" /\ JobWindow = Nil
  /\ Starting => Phase = "starting" /\ JobWindow = Nil
  /\ \/ Wanted \/ (\E w \in Window : Staged(w)) \/ Proving
     \/ (\E w \in Window : Proved(w)) \/ Failed \/ Starting

LEMMA JobMapped == TypeOK /\ Places => JobIs
<1> SUFFICES ASSUME TypeOK, SerialPipeline PROVE JobIs
  BY DEF Places
<1> DEFINE P == \E e \in Unhandled : e.type = "JobFailed"
<1>1. /\ StagedWindows # {} => ~Wanted /\ ~Proving /\ ~Reporting /\ ~Reported /\ ~Settling
      /\ Proving => ~Wanted /\ ~Reporting /\ ~Reported /\ ~Settling
      /\ Wanted => ~Reporting /\ ~Reported /\ ~Settling
      /\ Settling => ~Reporting /\ ~Reported
  BY ZenonT(30), StagedAre DEF SerialPipeline
<1>2. \A e \in Unhandled :
        /\ e \in Event
        /\ e \in Failures <=> e.type = "JobFailed"
        /\ e \in Starts <=> e.type = "Started"
        /\ e \in Triggers <=> e.type \in {"ProofMessage", "JobFailed", "Started"}
        /\ e.type = "ProofMessage" => e.proof \in ProvedWindows
        /\ e \in Triggers => Reporting \/ Reported
  BY UnhandledHas, EventOf, OneReport DEF ProvedWindows
<1>3. /\ Failed <=> \E e \in Unhandled : e \in Failures
      /\ Starting <=> \E e \in Unhandled : e \in Starts
      /\ Reporting \/ Reported => \E e \in Unhandled : e \in Triggers
  <2>1. Reporting => Has(sending, Sends(Triggers))
    BY Elements, SendOf DEF Reporting, Has
  <2> QED
    BY <2>1, UnhandledHas DEF Failed, Starting, Reported
<1>4. /\ Failed <=> P
      /\ Failed => Reporting \/ Reported
      /\ Starting => Reporting \/ Reported
  BY <1>2, <1>3
<1>5. /\ Failed => ProvedWindows = {} /\ ~Starting
      /\ Starting => ProvedWindows = {}
  <2>1. ASSUME NEW e \in Unhandled, NEW f \in Unhandled, e \in Triggers, f \in Triggers
        PROVE  e.type = f.type
    BY <2>1, OneReport
  <2>2. \A w \in ProvedWindows : Settling \/ \E e \in Unhandled : e.type = "ProofMessage"
    BY DEF ProvedWindows, Settling
  <2> QED
    BY ZenonT(30), <1>1, <1>2, <1>3, <1>4, <2>1, <2>2
<1>6. /\ ProvedWindows # {} => Reporting \/ Reported \/ Settling
  BY ProvedAre
<1>7. Wanted => Phase = "wanted" /\ JobWindow = Nil
  BY ZenonT(30), <1>1, <1>4, <1>6 DEF Phase, JobWindow
<1>8. ASSUME NEW w \in Window, Staged(w) PROVE Phase = "staged" /\ JobWindow = w
  <2>1. StagedWindows = {w}
    BY <1>8, StagedAre
  <2>2. /\ ~Wanted /\ ~Proving /\ ProvedWindows = {} /\ ~P /\ StagedWindows # {}
    BY <1>1, <1>4, <1>6, <2>1
  <2> HIDE DEF P
  <2>3. Phase = "staged"
    BY <2>2 DEF Phase, P
  <2>4. JobWindow = The(StagedWindows)
    BY <2>2 DEF JobWindow
  <2> QED
    BY ZenonT(30), <2>1, <2>3, <2>4, OneOf
<1>9. ASSUME NEW j \in DOMAIN prover_jobs PROVE Phase = "proving" /\ JobWindow = prover_jobs[j]
  <2>1. Range(prover_jobs) = {prover_jobs[j]}
    BY DEF SerialPipeline, Range
  <2>2. /\ Proving /\ ~Wanted /\ StagedWindows = {} /\ ProvedWindows = {} /\ ~P
    BY <1>1, <1>4, <1>6 DEF Proving
  <2>3. Phase = "proving"
    BY <2>2 DEF Phase
  <2>4. JobWindow = The(Range(prover_jobs))
    BY <2>2 DEF JobWindow
  <2> QED
    BY ZenonT(30), <2>1, <2>3, <2>4, OneOf
<1>10. ASSUME NEW w \in Window, Proved(w) PROVE Phase = "proved" /\ JobWindow = w
  <2>1. ProvedWindows = {w}
    BY <1>10, ProvedAre
  <2>2. /\ ProvedWindows # {} /\ ~Wanted /\ StagedWindows = {} /\ ~Proving /\ ~P
    BY ZenonT(30), <1>1, <1>4, <1>5, <1>6, <2>1
  <2>3. Phase = "proved"
    BY <2>2 DEF Phase
  <2>4. JobWindow = The(ProvedWindows)
    BY <2>2 DEF JobWindow
  <2> QED
    BY ZenonT(30), <2>1, <2>3, <2>4, OneOf
<1>11. ASSUME Failed PROVE Phase = "failed" /\ JobWindow = Nil
  <2>1. /\ P /\ ProvedWindows = {} /\ ~Wanted /\ StagedWindows = {} /\ ~Proving
    BY ZenonT(30), <1>1, <1>4, <1>5, <1>11
  <2> QED
    BY <2>1 DEF Phase, JobWindow
<1>12. ASSUME Starting PROVE Phase = "starting" /\ JobWindow = Nil
  <2>1. /\ ~P /\ ProvedWindows = {} /\ ~Wanted /\ StagedWindows = {} /\ ~Proving
    BY ZenonT(30), <1>1, <1>4, <1>5, <1>12
  <2> QED
    BY <2>1 DEF Phase, JobWindow
<1>13. \/ Wanted \/ (\E w \in Window : Staged(w)) \/ Proving
       \/ (\E w \in Window : Proved(w)) \/ Failed \/ Starting
  <2>1. Wanted \/ Ordered \/ Queued \/ Proving \/ Reporting \/ Reported \/ Settling
    BY DEF SerialPipeline
  <2>2. ASSUME Ordered \/ Queued PROVE \E w \in Window : Staged(w)
    <3>1. PICK c \in StageCommands :
            (\E i \in DOMAIN issuing : c = issuing[i]) \/ (\E i \in DOMAIN commands : c = commands[i])
      BY <2>2 DEF Ordered, Queued, Has
    <3>2. c.window \in Window /\ c \in StagesOf(c.window)
      BY DEF StageCommands, StagesOf
    <3> QED
      BY <3>1, <3>2 DEF Staged, Has
  <2>3. ASSUME Reporting \/ Reported \/ Settling
        PROVE  (\E w \in Window : Proved(w)) \/ Failed \/ Starting
    <3>1. Settling => settling \in ProvedWindows
      BY DEF Settling, ProvedWindows
    <3>2. (\E w : w \in ProvedWindows) \/ Failed \/ Starting
      BY ZenonT(30), <1>2, <1>3, <2>3, <3>1
    <3> QED
      BY <3>2, ProvedAre
  <2> QED
    BY ZenonT(30), <2>1, <2>2, <2>3
<1> HIDE DEF P
<1> QED
  BY ZenonT(30), <1>7, <1>8, <1>9, <1>10, <1>11, <1>12, <1>13 DEF JobIs

-----------------------------------------------------------------------------
(* Every window that travels was prepared: what the job is given is one of *)
(* the transitions of the abstract pipeline.                               *)

KnownWindow == UNION { Prepared(p, MaxSlot) : p \in Position }
KnownDual   == [current : KnownWindow, next : KnownWindow \cup {Nil}]
KnownEvent  == { e \in Event : e.type = "FinalityTransitionDetected" => e.inputs \in KnownDual }
KnownSend   == { m \in Send : m.to = "event" => m.message \in KnownEvent }

WindowsKnown ==
  /\ validation_results \in Seq(KnownDual \cup {Nil})
  /\ emitting \in Seq(KnownDual)
  /\ finality_output \in Seq(KnownDual)
  /\ sending \in Seq(KnownSend)
  /\ events \in Seq(KnownEvent)
  /\ latest_current \in KnownWindow \cup {Nil}
  /\ latest_next \in KnownWindow \cup {Nil}

LEMMA TransitionsKnown == Promise!Transitions = KnownWindow
BY DEF Promise!Transitions, Promise!Prepared, Promise!Position, Promise!Slot, Promise!Cursor,
   Promise!OutputAt, Promise!Batch, Promise!Smaller, KnownWindow, Prepared, Position, Slot,
   Cursor, OutputAt, Batch, Smaller

LEMMA KnownIsWindow == \A w \in KnownWindow : w \in Window
<1>1. MaxSlot \in Slot
  BY WindowsAssumption DEF Slot
<1> QED
  BY <1>1, PreparedIsWindow DEF KnownWindow

LEMMA PreparedIsKnown ==
  ASSUME NEW p \in Position, NEW f \in Slot, NEW w \in Prepared(p, f)
  PROVE  w \in KnownWindow
<1>1. \A t \in Slot : t <= f => t <= MaxSlot
  BY WindowsAssumption DEF Slot
<1>2. w \in Prepared(p, MaxSlot)
  BY <1>1 DEF Prepared
<1> QED
  BY <1>2 DEF KnownWindow

LEMMA EventsKnown ==
  /\ \A e \in Event : e.type # "FinalityTransitionDetected" => e \in KnownEvent
  /\ \A d \in KnownDual : FinalityTransitionDetected(d) \in KnownEvent
  /\ \A e \in KnownEvent : ToEvent(e) \in KnownSend
  /\ \A p \in Position : ToStage(p) \in KnownSend /\ ToAdvance(p) \in KnownSend
  /\ \A m \in KnownSend : m.to = "event" => m.message \in KnownEvent
<1>1. \A d \in KnownDual : d \in Dual
  BY KnownIsWindow DEF KnownDual, Dual
<1>2. \A d \in KnownDual : FinalityTransitionDetected(d) \in KnownEvent
  BY ZenonT(30), <1>1, EventsMade DEF KnownEvent, FinalityTransitionDetected
<1>3. \A e \in KnownEvent : ToEvent(e) \in KnownSend
  BY ZenonT(30), SendsMade DEF KnownEvent, KnownSend, ToEvent
<1>4. \A p \in Position : ToStage(p) \in KnownSend /\ ToAdvance(p) \in KnownSend
  BY ZenonT(30), SendsMade DEF KnownSend, ToStage, ToAdvance
<1> QED
  BY <1>2, <1>3, <1>4 DEF KnownEvent, KnownSend

(* The steps that hand a window on, or make one.                           *)
LEMMA DetectorKnows ==
  ASSUME TypeOK, WindowsKnown, DetectorStep, DetectorOthers
  PROVE  WindowsKnown'
<1>1. UNCHANGED <<sending, events, latest_current, latest_next>>
  BY DEF DetectorOthers, bridgeVars, observerVars
<1>2. /\ validation_results \in Seq(KnownDual \cup {Nil}) /\ emitting \in Seq(KnownDual)
      /\ finality_output \in Seq(KnownDual)
  BY DEF WindowsKnown
<1> SUFFICES /\ validation_results' \in Seq(KnownDual \cup {Nil}) /\ emitting' \in Seq(KnownDual)
             /\ finality_output' \in Seq(KnownDual)
  BY <1>1 DEF WindowsKnown
<1>3. CASE OnStaged \/ OnAdvanced \/ OnTick
  BY <1>2, <1>3 DEF OnStaged, OnAdvanced, OnTick
<1>4. CASE OnValidationFailed \/ OnStaleResult
  BY ZenonT(30), <1>2, <1>4, Take DEF OnValidationFailed, OnStaleResult
<1>5. CASE OnFreshResult
  <2> DEFINE d == Head(validation_results)
  <2>1. /\ validation_results # <<>> /\ d # Nil
        /\ validation_results' = Tail(validation_results) /\ UNCHANGED finality_output
        /\ emitting' = <<d>> \/ emitting' = <<>>
    BY <1>5 DEF OnFreshResult
  <2>2. d \in KnownDual \cup {Nil} /\ validation_results' \in Seq(KnownDual \cup {Nil})
    BY ZenonT(30), <1>2, <2>1, Take
  <2> HIDE DEF d
  <2>3. d \in KnownDual
    BY <2>1, <2>2
  <2>4. <<d>> \in Seq(KnownDual) /\ <<>> \in Seq(KnownDual)
    BY <2>3
  <2>5. emitting' \in Seq(KnownDual)
    BY ZenonT(30), <2>1, <2>4
  <2> QED
    BY ZenonT(30), <1>2, <2>1, <2>2, <2>5
<1>6. CASE EmitFinality
  <2>1. Head(emitting) \in KnownDual
    BY ZenonT(30), <1>2, <1>6, Take DEF EmitFinality
  <2> QED
    BY SMTT(30), <1>2, <1>6, <2>1, Put DEF EmitFinality
<1>7. CASE Validate
  <2> DEFINE job == Head(validation_jobs)
  <2>1. job.position \in Position /\ job.next \in Position \cup {Nil} /\ finalised \in Slot
    <3>1. job \in ValidationJob
      BY ZenonT(30), <1>7, Take DEF Validate, TypeOK, DetectorTypeOK
    <3> QED
      BY ZenonT(30), <3>1 DEF ValidationJob, TypeOK, DetectorTypeOK
  <2> PICK current \in Prepared(job.position, finalised),
           next \in IF job.next = Nil THEN {Nil} ELSE Prepared(job.next, finalised) :
         validation_results' = Append(validation_results, [current |-> current, next |-> next])
    BY ZenonT(30), <1>7 DEF Validate
  <2>2. current \in KnownWindow /\ next \in KnownWindow \cup {Nil}
    BY <2>1, PreparedIsKnown
  <2>3. [current |-> current, next |-> next] \in KnownDual \cup {Nil}
    BY <2>2 DEF KnownDual
  <2> QED
    BY ZenonT(30), <1>2, <1>7, <2>3, Put DEF Validate
<1>8. CASE ValidateFails
  BY ZenonT(30), <1>2, <1>8, Put DEF ValidateFails
<1> QED
  BY ZenonT(30), <1>3, <1>4, <1>5, <1>6, <1>7, <1>8 DEF DetectorStep

LEMMA BridgeKnows ==
  ASSUME TypeOK, WindowsKnown, TypeOK', BridgeStep, Others
  PROVE  WindowsKnown'
<1>1. UNCHANGED <<validation_results, emitting, latest_current, latest_next>>
  BY DEF Others, detectorVars, observerVars
<1>2. /\ finality_output \in Seq(KnownDual) /\ sending \in Seq(KnownSend)
      /\ events \in Seq(KnownEvent)
  BY DEF WindowsKnown
<1> SUFFICES /\ finality_output' \in Seq(KnownDual) /\ sending' \in Seq(KnownSend)
             /\ events' \in Seq(KnownEvent)
  BY <1>1 DEF WindowsKnown
<1>3. CASE OnBeaconFinalityChange
  <2>1. Head(finality_output) \in KnownDual /\ finality_output' \in Seq(KnownDual)
    BY ZenonT(30), <1>2, <1>3, Take DEF OnBeaconFinalityChange
  <2>2. ToEvent(FinalityTransitionDetected(Head(finality_output))) \in KnownSend
    BY <2>1, EventsKnown
  <2> QED
    BY SMTT(30), <1>2, <1>3, <2>1, <2>2 DEF OnBeaconFinalityChange
<1>4. ASSUME NEW t \in {"JobCreated", "JobSucceeded", "HeadAdvanced"}
      PROVE  ToEvent(Notice(t)) \in KnownSend
  BY ZenonT(30), EventsMade, EventsKnown
<1>5. CASE StageTransitionProof
  <2>1. Head(commands).window.output \in Position
    BY ZenonT(30), <1>5, FirstCommand, CommandKinds DEF StageTransitionProof, Window
  <2> QED
    BY SMTT(30), <1>2, <1>4, <1>5, <2>1, EventsKnown DEF StageTransitionProof
<1>6. CASE Advance
  <2>1. Head(commands).position \in Position
    BY ZenonT(30), <1>6, FirstCommand, CommandKinds DEF Advance
  <2> QED
    BY SMTT(30), <1>2, <1>4, <1>6, <2>1, EventsKnown DEF Advance
<1>7. CASE HandleProverSuccess
  <2> DEFINE proof == Head(job_results).proof
  <2>1. proof \in Window
    <3>1. job_results \in Seq(JobResult)
      BY DEF TypeOK, ChannelsTypeOK
    <3>2. Head(job_results) \in JobResult /\ proof # Nil
      BY ZenonT(30), <1>7, <3>1, Take DEF HandleProverSuccess
    <3> QED
      BY <3>2 DEF JobResult
  <2>2. ToEvent(ProofMessage(proof)) \in KnownSend
    <3>1. ProofMessage(proof) \in Event /\ ProofMessage(proof).type # "FinalityTransitionDetected"
      BY <2>1, EventsMade DEF ProofMessage
    <3> QED
      BY ZenonT(30), <3>1, EventsKnown
  <2>3. sending' = <<ToEvent(Notice("JobSucceeded")), ToEvent(ProofMessage(proof))>>
    BY <1>7 DEF HandleProverSuccess
  <2> HIDE DEF proof
  <2> QED
    BY SMTT(30), <1>2, <1>4, <1>7, <2>2, <2>3 DEF HandleProverSuccess
<1>8. CASE HandleProverFailure
  <2> DEFINE a == ToEvent(JobFailed(JobsLeft(Head(job_results).job_id)))
  <2>1. sending' = <<a>> /\ a.to = "event" /\ a.message.type = "JobFailed"
    BY <1>8 DEF HandleProverFailure, ToEvent, JobFailed
  <2>2. a \in Send
    <3>1. sending' \in Seq(Send)
      BY DEF TypeOK, BridgeTypeOK
    <3> HIDE DEF a
    <3> QED
      BY ZenonT(30), <2>1, <3>1, Take
  <2> HIDE DEF a
  <2>3. a \in KnownSend
    BY <2>1, <2>2, SendKinds DEF KnownSend, KnownEvent
  <2> QED
    BY SMTT(30), <1>2, <1>8, <2>1, <2>3 DEF HandleProverFailure
<1>9. CASE SendNext
  <2>1. Head(sending) \in KnownSend /\ sending' \in Seq(KnownSend)
    BY ZenonT(30), <1>2, <1>9, Take DEF SendNext
  <2>2. events' = events \/ (/\ Head(sending).to = "event"
                             /\ events' = Append(events, Head(sending).message))
    BY <1>9 DEF SendNext
  <2>3. events' \in Seq(KnownEvent)
    BY ZenonT(30), <1>2, <2>1, <2>2, EventsKnown, Put
  <2> QED
    BY <1>2, <1>9, <2>1, <2>3 DEF SendNext
<1>10. CASE WorkerProves \/ WorkerFails \/ WorkerPanics
  BY ZenonT(30), <1>2, <1>10 DEF WorkerProves, WorkerFails, WorkerAnswers, WorkerPanics
<1> QED
  BY ZenonT(30), <1>3, <1>5, <1>6, <1>7, <1>8, <1>9, <1>10 DEF BridgeStep

LEMMA ObserverKnows ==
  ASSUME WindowsKnown, ObserverStep, ObserverOthers
  PROVE  WindowsKnown'
<1>1. UNCHANGED <<validation_results, emitting, sending>>
  BY DEF ObserverOthers, detectorVars, bridgeVars
<1>2. finality_output' = finality_output
  BY DEF ObserverStep, OnStarted, OnLoggedNotice, OnFinalityTransitionDetected, OnJobFailed,
     OnTransitionProofSucceeded, SettleProof, SendCommand, unreadByObserver
<1>3. events \in Seq(KnownEvent)
  BY DEF WindowsKnown
<1>4. ASSUME NEW t, Receives(t)
      PROVE  /\ events' \in Seq(KnownEvent) /\ Head(events) \in KnownEvent
             /\ Head(events).type = t
  BY ZenonT(30), <1>3, <1>4, Take DEF Receives
<1>5. events' \in Seq(KnownEvent)
  BY <1>3, <1>4
  DEF ObserverStep, OnStarted, OnLoggedNotice, OnFinalityTransitionDetected, OnJobFailed,
      OnTransitionProofSucceeded, SettleProof, SendCommand
<1>6. latest_current' \in KnownWindow \cup {Nil} /\ latest_next' \in KnownWindow \cup {Nil}
  <2>1. CASE OnFinalityTransitionDetected
    <3>1. Head(events).inputs \in KnownDual
      BY ZenonT(30), <1>4, <2>1 DEF OnFinalityTransitionDetected, KnownEvent
    <3> QED
      BY ZenonT(30), <2>1, <3>1 DEF OnFinalityTransitionDetected, KnownDual
  <2>2. CASE ~OnFinalityTransitionDetected
    BY <2>2
    DEF WindowsKnown, ObserverStep, OnStarted, OnLoggedNotice, OnJobFailed,
        OnTransitionProofSucceeded, SettleProof, SendCommand, observerVars
  <2> QED
    BY <2>1, <2>2
<1> QED
  BY <1>1, <1>2, <1>5, <1>6 DEF WindowsKnown

LEMMA FreshKnows ==
  ASSUME NEW p \in Position, Fresh(p)
  PROVE  WindowsKnown
<1>1. ToEvent(Started(p)) \in KnownSend
  <2>1. Started(p) \in Event /\ Started(p).type # "FinalityTransitionDetected"
    BY EventsMade DEF Started
  <2> QED
    BY <2>1, EventsKnown
<1>2. sending \in Seq(KnownSend)
  BY <1>1 DEF Fresh
<1> QED
  BY <1>2 DEF WindowsKnown, Fresh, ChannelsInit, ObserverInit, DetectorInit

(* A process that has just started, for the first time or again, is         *)
(* starting, and knows no window.                                          *)
LEMMA FreshStarts ==
  ASSUME NEW p \in Position, Fresh(p)
  PROVE  Starting /\ WindowsKnown
<1>1. ToEvent(Started(p)) \in Sends(Starts)
  BY DEF ToEvent, Started, Sends, Starts
<1>2. Starting
  BY <1>1, HasOne DEF Starting, Fresh
<1> QED
  BY <1>2, FreshKnows

FreshlyStarted == \E p \in Position : Fresh(p)

LEMMA FreshlyStartedStarts == FreshlyStarted => Starting /\ WindowsKnown
BY FreshStarts DEF FreshlyStarted

LEMMA InitIsFresh == Init => FreshlyStarted
<1> SUFFICES ASSUME Init PROVE FreshlyStarted
  OBVIOUS
<1>1. finalised \in Slot /\ checkpoint \in Position \cup {Nil}
  BY WindowsAssumption DEF Init, Slot
<1> PICK p \in StartPositions : DetectorInit(p) /\ BridgeInit(p, finalised)
  BY DEF Init
<1>2. p \in Position
  BY ZenonT(30), <1>1, StartsAtPosition
<1> QED
  BY <1>2 DEF Init, BridgeInit, Fresh, FreshlyStarted

LEMMA RestartIsFresh == TypeOK /\ Restart => FreshlyStarted' /\ checkpoint' = checkpoint
<1> SUFFICES ASSUME TypeOK, Restart PROVE FreshlyStarted' /\ checkpoint' = checkpoint
  OBVIOUS
<1> PICK p \in StartPositions :
       /\ position' = p /\ latest_slot' = p.slot
       /\ head' = p /\ sending' = <<ToEvent(Started(p))>>
  BY DEF Restart
<1>1. finalised \in Slot /\ checkpoint \in Position \cup {Nil}
  BY DEF TypeOK, DetectorTypeOK, ObserverTypeOK
<1>2. p \in Position
  BY ZenonT(30), <1>1, StartsAtPosition
<1>3. Fresh(p)'
  BY DEF Restart, Fresh, ChannelsInit, ObserverInit, DetectorInit
<1> QED
  BY <1>2, <1>3 DEF FreshlyStarted, Restart, files

LEMMA NextKnows == TypeOK /\ WindowsKnown /\ TypeOK' /\ [Next]_vars => WindowsKnown'
<1> SUFFICES ASSUME TypeOK, WindowsKnown, TypeOK', [Next]_vars PROVE WindowsKnown'
  OBVIOUS
<1>1. CASE DetectorActs
  BY <1>1, DetectorKnows DEF DetectorActs, DetectorOthers
<1>2. CASE BridgeActs
  BY <1>2, BridgeKnows DEF BridgeActs, Others
<1>3. CASE ObserverActs
  BY <1>3, ObserverKnows DEF ObserverActs, ObserverOthers
<1>4. CASE ChainFinalises \/ UNCHANGED vars
  <2>1. UNCHANGED <<validation_results, emitting, finality_output, sending, events,
                    latest_current, latest_next>>
    BY <1>4 DEF ChainFinalises, Finalise, vars, channels, detectorVars, bridgeVars, observerVars
  <2> QED
    BY ZenonT(30), <2>1 DEF WindowsKnown
<1>5. CASE Restart
  <2>1. FreshlyStarted'
    BY ZenonT(30), <1>5, RestartIsFresh
  <2> QED
    BY <2>1, FreshlyStartedStarts, PTL
<1> QED
  BY ZenonT(30), <1>1, <1>2, <1>3, <1>4, <1>5 DEF Next

-----------------------------------------------------------------------------
(* Each step moves the job along its life, or leaves it where it is.       *)

JobMoves == Promise!PipelineNext \/ UNCHANGED <<Phase, JobWindow, checkpoint>>

LEMMA StaysPut ==
  ASSUME JobIs, JobIs', checkpoint' = checkpoint, prover_jobs' = prover_jobs,
         Wanted => Wanted',
         \A w \in Window : Staged(w) => Staged(w)',
         \A w \in Window : Proved(w) => Proved(w)',
         Failed => Failed', Starting => Starting'
  PROVE  JobMoves
<1>1. CASE Wanted
  BY ZenonT(30), <1>1 DEF JobIs, JobMoves
<1>2. CASE \E w \in Window : Staged(w)
  BY SMTT(30), <1>2 DEF JobIs, JobMoves
<1>3. CASE Proving
  BY <1>3 DEF Proving, JobIs, JobMoves
<1>4. CASE \E w \in Window : Proved(w)
  BY SMTT(30), <1>4 DEF JobIs, JobMoves
<1>5. CASE Failed
  BY <1>5 DEF JobIs, JobMoves
<1>6. CASE Starting
  BY <1>6 DEF JobIs, JobMoves
<1> QED
  BY ZenonT(30), <1>1, <1>2, <1>3, <1>4, <1>5, <1>6 DEF JobIs

(* The reports a step leaves where they are, or hands on.                  *)
Reports(E) == Has(events, E) \/ Has(sending, Sends(E))

LEMMA ReportsKept ==
  ASSUME settling' = settling, \A E : E \subseteq Triggers /\ Reports(E) => Reports(E)'
  PROVE  /\ \A w \in Window : Proved(w) => Proved(w)'
         /\ (Failed => Failed') /\ (Starting => Starting')
<1>1. /\ Failures \subseteq Triggers /\ Starts \subseteq Triggers
      /\ \A w \in Window : ProofsOf(w) \subseteq Triggers
  BY DEF Triggers, Proofs, ProofsOf
<1>2. \A w \in Window : Proved(w) => Proved(w)'
  BY <1>1 DEF Proved, Reports
<1>3. Failed => Failed'
  BY <1>1 DEF Failed, Reports
<1>4. Starting => Starting'
  BY <1>1 DEF Starting, Reports
<1> QED
  BY ZenonT(30), <1>2, <1>3, <1>4

(* The event loop and the prover workers.                                  *)
LEMMA BridgeFrameOfJob ==
  ASSUME Others
  PROVE  /\ UNCHANGED <<checkpoint, issuing, settling, stage_transition_proof>>
         /\ Wanted => Wanted'
BY DEF Others, observerVars, files, Wanted

LEMMA NoReportsWhileLooping ==
  ASSUME Looping, events' = events, NEW E, Reports(E) PROVE Reports(E)'
BY HasEmpty DEF Looping, Reports

LEMMA QuietBridgeMoves ==
  ASSUME TypeOK, JobIs, JobIs', Others,
         OnBeaconFinalityChange \/ Advance \/ WorkerProves \/ WorkerFails \/ WorkerPanics
  PROVE  JobMoves
<1>1. prover_jobs' = prover_jobs /\ events' = events
  BY ZenonT(30)
  DEF OnBeaconFinalityChange, Advance, WorkerProves, WorkerFails, WorkerAnswers, WorkerPanics
<1>2. \A E : Reports(E) => Reports(E)'
  <2>1. CASE OnBeaconFinalityChange \/ Advance
    BY ZenonT(30), <2>1, <1>1, NoReportsWhileLooping DEF OnBeaconFinalityChange, Advance
  <2>2. CASE WorkerProves \/ WorkerFails \/ WorkerPanics
    BY ZenonT(30), <2>2 DEF WorkerProves, WorkerFails, WorkerAnswers, WorkerPanics, Reports
  <2> QED
    BY <2>1, <2>2
<1>3. \A w \in Window : Staged(w) => Staged(w)'
  <2>1. CASE Advance
    <3>1. /\ commands # <<>> /\ commands \in Seq(Command) /\ commands' = Tail(commands)
          /\ Head(commands) \in Command /\ Head(commands).command = "Advance"
      BY <2>1, FirstCommand DEF Advance
    <3>2. \A w : Head(commands) \notin StagesOf(w)
      BY ZenonT(30), <3>1, StageOf
    <3>3. \A w : Has(commands, StagesOf(w)) => Has(commands', StagesOf(w))
      BY ZenonT(30), <3>1, <3>2, HasTail
    <3> QED
      BY <3>3, BridgeFrameOfJob DEF Staged
  <2>2. CASE ~Advance
    <3>1. commands' = commands
      BY ZenonT(30), <2>2
      DEF OnBeaconFinalityChange, WorkerProves, WorkerFails, WorkerAnswers, WorkerPanics
    <3> QED
      BY <3>1, BridgeFrameOfJob DEF Staged
  <2> QED
    BY <2>1, <2>2
<1> QED
  BY ZenonT(30), <1>1, <1>2, <1>3, BridgeFrameOfJob, ReportsKept, StaysPut

LEMMA SendMoves ==
  ASSUME TypeOK, JobIs, JobIs', Others, SendNext
  PROVE  JobMoves
<1>1. UNCHANGED <<prover_jobs, commands>>
  BY DEF SendNext
<1>2. /\ sending # <<>> /\ sending' = Tail(sending) /\ sending \in Seq(Send)
      /\ Head(sending) \in Send /\ events \in Seq(Event)
      /\ \/ Head(sending).to # "event" /\ events' = events
         \/ Head(sending).to = "event" /\ events' = Append(events, Head(sending).message)
  BY FirstSend DEF SendNext, TypeOK, ChannelsTypeOK
<1>3. ASSUME NEW E, Reports(E) PROVE Reports(E)'
  <2>1. Has(sending, Sends(E)) <=> Head(sending) \in Sends(E) \/ Has(sending', Sends(E))
    BY ZenonT(30), <1>2, HasTail
  <2>2. Head(sending) \in Sends(E) <=> Head(sending).to = "event" /\ Head(sending).message \in E
    BY <1>2, SendOf
  <2>3. CASE Head(sending).to # "event"
    BY <1>2, <1>3, <2>1, <2>2, <2>3 DEF Reports
  <2>4. CASE Head(sending).to = "event"
    <3> DEFINE e == Head(sending).message
    <3>1. e \in Event /\ events' = Append(events, e)
      BY <1>2, <2>4, SendOf
    <3> HIDE DEF e
    <3>2. Has(events', E) <=> Has(events, E) \/ e \in E
      BY ZenonT(30), <1>2, <3>1, HasAppend
    <3> QED
      BY ZenonT(30), <1>3, <2>1, <2>2, <3>2 DEF Reports, e
  <2> QED
    BY ZenonT(30), <2>3, <2>4
<1>4. \A w \in Window : Staged(w) => Staged(w)'
  BY <1>1, BridgeFrameOfJob DEF Staged
<1> QED
  BY <1>1, <1>3, <1>4, BridgeFrameOfJob, ReportsKept, StaysPut

LEMMA StageMoves ==
  ASSUME TypeOK, JobIs, JobIs', Others, StageTransitionProof
  PROVE  JobMoves
<1> DEFINE id == (job_id + 1) % JobIdSpace
           w == Head(commands).window
<1>1. w \in Window /\ Staged(w)
  <2>1. /\ Head(commands) \in Command /\ 1 \in DOMAIN commands /\ Head(commands) = commands[1]
        /\ Head(commands).command = "StageTransitionProof"
    BY ZenonT(30), FirstCommand DEF StageTransitionProof
  <2> QED
    BY ZenonT(30), <2>1, StageOf DEF Staged, Has
<1>2. id \in DOMAIN prover_jobs' /\ prover_jobs'[id] = w
  BY ZenonT(30) DEF StageTransitionProof
<1> HIDE DEF id, w
<1>3. Phase = "staged" /\ JobWindow = w /\ Phase' = "proving" /\ JobWindow' = w
  BY <1>1, <1>2 DEF JobIs
<1> QED
  BY ZenonT(30), <1>3, BridgeFrameOfJob DEF JobMoves, Promise!PipelineNext, Promise!Prove

LEMMA AnswerMoves ==
  ASSUME TypeOK, Places, TypeOK', JobIs, JobIs', Others, HandleProverSuccess \/ HandleProverFailure
  PROVE  JobMoves
<1> DEFINE r == Head(job_results)
<1>1. /\ r.job_id \in DOMAIN prover_jobs /\ r.proof \in {Nil, prover_jobs[r.job_id]}
      /\ prover_jobs[r.job_id] \in Window
  BY ZenonT(30), OnlyResult DEF HandleProverSuccess, HandleProverFailure, TypeOK, BridgeTypeOK
<1>2. Phase = "proving" /\ JobWindow = prover_jobs[r.job_id]
  BY ZenonT(30), <1>1 DEF JobIs
<1>3. CASE HandleProverSuccess
  <2>1. /\ r.proof = prover_jobs[r.job_id] /\ r.proof \in Window
        /\ sending' = <<ToEvent(Notice("JobSucceeded")), ToEvent(ProofMessage(r.proof))>>
    BY ZenonT(30), <1>1, <1>3 DEF HandleProverSuccess
  <2> HIDE DEF r
  <2>2. ToEvent(ProofMessage(r.proof)) \in Sends(ProofsOf(r.proof))
    BY ZenonT(30) DEF ToEvent, ProofMessage, Sends, ProofsOf
  <2>3. Has(sending', Sends(ProofsOf(r.proof)))
    BY ZenonT(30), <2>1, <2>2, HasTwo
  <2>4. Phase' = "proved" /\ JobWindow' = r.proof
    BY ZenonT(30), <2>1, <2>3 DEF JobIs, Proved
  <2> QED
    BY ZenonT(30), <1>2, <2>1, <2>4, BridgeFrameOfJob
    DEF JobMoves, Promise!PipelineNext, Promise!Report
<1>4. CASE HandleProverFailure
  <2> DEFINE a == ToEvent(JobFailed(JobsLeft(r.job_id)))
  <2>1. sending' = <<a>> /\ a.to = "event" /\ a.message.type = "JobFailed"
    BY ZenonT(30), <1>4 DEF HandleProverFailure, ToEvent, JobFailed
  <2> HIDE DEF a
  <2>2. a \in Send
    <3>1. sending' \in Seq(Send)
      BY ZenonT(30) DEF TypeOK, BridgeTypeOK
    <3> QED
      BY ZenonT(30), <2>1, <3>1, Take
  <2>3. a \in Sends(Failures)
    BY ZenonT(30), <2>1, <2>2, SendOf, EventOf
  <2>4. Has(sending', Sends(Failures))
    BY ZenonT(30), <2>1, <2>3, HasOne
  <2>5. Phase' = "failed" /\ JobWindow' = Nil
    BY ZenonT(30), <2>4 DEF JobIs, Failed
  <2> QED
    BY ZenonT(30), <1>2, <2>5, BridgeFrameOfJob DEF JobMoves, Promise!PipelineNext, Promise!Fail
<1> QED
  BY ZenonT(30), <1>3, <1>4

(* The observer.                                                           *)
LEMMA ObserverFrameOfJob ==
  ASSUME ObserverOthers
  PROVE  UNCHANGED <<prover_jobs, sending>>
BY DEF ObserverOthers, bridgeVars

(* The first event is a report, and stands where the mapping reads it.     *)
LEMMA TakenReport ==
  ASSUME TypeOK, NEW t, Receives(t)
  PROVE  LET e == Head(events) IN
         /\ e \in Event /\ e.type = t
         /\ \A E : e \in E => Has(events, E)
         /\ \A E : e \notin E /\ Has(events, E) => Has(events', E)
<1>1. /\ events # <<>> /\ events \in Seq(Event) /\ events' = Tail(events)
      /\ Head(events).type = t
  BY DEF Receives, TypeOK, ChannelsTypeOK
<1>2. Head(events) \in Event
  BY <1>1, Take
<1>3. ASSUME NEW E PROVE Has(events, E) <=> Head(events) \in E \/ Has(events', E)
  BY ZenonT(30), <1>1, HasTail
<1> QED
  BY ZenonT(30), <1>1, <1>2, <1>3

LEMMA StartedMoves ==
  ASSUME TypeOK, JobIs, JobIs', OnStarted
  PROVE  JobMoves
<1>1. Head(events) \in Starts
  BY TakenReport, EventOf DEF OnStarted
<1>2. Starting
  BY <1>1, TakenReport DEF OnStarted, Starting
<1>3. Wanted' /\ checkpoint' = checkpoint
  BY ZenonT(30) DEF OnStarted, Wanted, files
<1>4. Phase = "starting" /\ JobWindow = Nil /\ Phase' = "wanted" /\ JobWindow' = Nil
  BY ZenonT(30), <1>2, <1>3 DEF JobIs
<1> QED
  BY <1>3, <1>4 DEF JobMoves, Promise!PipelineNext, Promise!Begin

LEMMA LoggedMoves ==
  ASSUME TypeOK, JobIs, JobIs', ObserverOthers, NEW t, Receives(t),
         t \in {"JobCreated", "JobSucceeded", "HeadAdvanced", "FinalityTransitionDetected"},
         UNCHANGED <<stage_transition_proof, settling, issuing, commands, checkpoint>>
  PROVE  JobMoves
<1>1. Head(events) \notin Triggers
  BY ZenonT(30), TakenReport, EventOf
<1>2. ASSUME NEW E, E \subseteq Triggers, Reports(E) PROVE Reports(E)'
  <2>1. Has(events, E) => Has(events', E)
    BY ZenonT(30), <1>1, <1>2, TakenReport
  <2> QED
    BY ZenonT(30), <1>2, <2>1, ObserverFrameOfJob DEF Reports
<1>3. \A w \in Window : Staged(w) => Staged(w)'
  BY DEF Staged
<1>4. Wanted => Wanted'
  BY DEF Wanted
<1> QED
  BY ZenonT(30), <1>2, <1>3, <1>4, ObserverFrameOfJob, ReportsKept, StaysPut

LEMMA MadeIsStaged ==
  ASSUME NEW w PROVE StageCommand(w) \in StagesOf(w)
BY DEF StageCommand, StagesOf

LEMMA FinalityMoves ==
  ASSUME TypeOK, WindowsKnown, JobIs, JobIs', ObserverOthers, OnFinalityTransitionDetected
  PROVE  JobMoves
<1>1. CASE stage_transition_proof
  <2>1. Head(events) \in KnownEvent /\ Head(events).type = "FinalityTransitionDetected"
    <3>1. events \in Seq(KnownEvent) /\ events # <<>>
      BY DEF WindowsKnown, OnFinalityTransitionDetected, Receives
    <3>2. Head(events) \in KnownEvent
      BY ZenonT(30), <3>1, Take
    <3> QED
      BY ZenonT(30), <3>2 DEF OnFinalityTransitionDetected, Receives
  <2>2. PICK w \in KnownWindow : w = Head(events).inputs.current
    BY ZenonT(30), <2>1 DEF KnownEvent, KnownDual
  <2>3. issuing' = <<StageCommand(w)>> /\ checkpoint' = checkpoint
    BY <1>1, <2>2 DEF OnFinalityTransitionDetected, files
  <2>4. w \in Window /\ Staged(w)'
    BY ZenonT(30), <2>3, KnownIsWindow, MadeIsStaged, HasOne DEF Staged
  <2>5. Phase = "wanted" /\ Phase' = "staged" /\ JobWindow' = w
    BY <1>1, <2>4 DEF JobIs, Wanted
  <2> QED
    BY ZenonT(30), <2>3, <2>5, TransitionsKnown DEF JobMoves, Promise!PipelineNext, Promise!Stage
<1>2. CASE ~stage_transition_proof
  <2>1. /\ Receives("FinalityTransitionDetected")
        /\ UNCHANGED <<settling, issuing, commands, checkpoint>>
    BY <1>2 DEF OnFinalityTransitionDetected, Receives, Listening, files
  <2>2. stage_transition_proof' = stage_transition_proof
    BY ZenonT(30), <1>2 DEF OnFinalityTransitionDetected, TypeOK, ObserverTypeOK
  <2> QED
    BY ZenonT(30), <2>1, <2>2, LoggedMoves
<1> QED
  BY <1>1, <1>2

LEMMA RetryMoves ==
  ASSUME TypeOK, Places, WindowsKnown, JobIs, JobIs', OnJobFailed
  PROVE  JobMoves
<1>1. Head(events) \in Failures
  BY ZenonT(30), TakenReport, EventOf DEF OnJobFailed
<1>2. Failed
  BY ZenonT(30), <1>1, TakenReport DEF OnJobFailed, Failed
<1>3. Head(events).n_job_in_buffer = 0
  BY ZenonT(30), FirstEvent DEF OnJobFailed, Places, FailuresRetriable
<1>4. /\ latest_current # Nil /\ issuing' = <<StageCommand(latest_current)>>
      /\ checkpoint' = checkpoint
  BY ZenonT(30), <1>3 DEF OnJobFailed, files
<1>5. PICK w \in KnownWindow : w = latest_current
  BY ZenonT(30), <1>4 DEF WindowsKnown
<1>6. w \in Window /\ Staged(w)'
  BY ZenonT(30), <1>4, <1>5, KnownIsWindow, MadeIsStaged, HasOne DEF Staged
<1>7. Phase = "failed" /\ Phase' = "staged" /\ JobWindow' = w
  BY ZenonT(30), <1>2, <1>6 DEF JobIs
<1> QED
  BY ZenonT(30), <1>4, <1>7, TransitionsKnown DEF JobMoves, Promise!PipelineNext, Promise!Retry

LEMMA ProofMoves ==
  ASSUME TypeOK, JobIs, JobIs', OnTransitionProofSucceeded
  PROVE  JobMoves
<1>1. Head(events) \in Event /\ Head(events).type = "ProofMessage"
  BY TakenReport DEF OnTransitionProofSucceeded
<1>2. PICK w \in Window : w = Head(events).proof
  BY ZenonT(30), <1>1, EventOf
<1>3. Proved(w)
  BY ZenonT(30), <1>1, <1>2, EventOf, TakenReport DEF OnTransitionProofSucceeded, Proved
<1>4. Proved(w)' /\ checkpoint' = checkpoint
  BY <1>2 DEF OnTransitionProofSucceeded, Proved
<1> QED
  BY SMTT(30), <1>3, <1>4 DEF JobIs, JobMoves

LEMMA SettleMoves ==
  ASSUME TypeOK, WindowsKnown, JobIs, JobIs', SettleProof
  PROVE  JobMoves
<1>1. PICK v \in Window : v = settling
  BY ZenonT(30) DEF SettleProof, TypeOK, ObserverTypeOK
<1>2. Proved(v) /\ checkpoint' = v.output
  BY ZenonT(30), <1>1 DEF SettleProof, Proved
<1>3. Phase = "proved" /\ JobWindow = v
  BY ZenonT(30), <1>2 DEF JobIs
<1>4. CASE Viable(settling)
  <2>1. PICK w \in KnownWindow : w = latest_next /\ w.input.slot = v.output.slot
    BY ZenonT(30), <1>1, <1>4 DEF Viable, WindowsKnown
  <2>2. issuing' = <<AdvanceCommand(settling.output), StageCommand(w)>>
    BY ZenonT(30), <1>4, <2>1 DEF SettleProof
  <2>3. w \in Window /\ Staged(w)'
    BY ZenonT(30), <2>2, KnownIsWindow, MadeIsStaged, HasTwo DEF Staged
  <2>4. Phase' = "staged" /\ JobWindow' = w
    BY ZenonT(30), <2>3 DEF JobIs
  <2> QED
    BY ZenonT(30), <1>2, <1>3, <2>1, <2>4, TransitionsKnown
    DEF JobMoves, Promise!PipelineNext, Promise!Settle
<1>5. CASE ~Viable(settling)
  <2>1. Wanted'
    BY ZenonT(30), <1>5 DEF SettleProof, Wanted
  <2>2. Phase' = "wanted" /\ JobWindow' = Nil
    BY ZenonT(30), <2>1 DEF JobIs
  <2> QED
    BY ZenonT(30), <1>2, <1>3, <2>2 DEF JobMoves, Promise!PipelineNext, Promise!Settle
<1> QED
  BY ZenonT(30), <1>4, <1>5

LEMMA SendCommandMoves ==
  ASSUME TypeOK, JobIs, JobIs', ObserverOthers, SendCommand
  PROVE  JobMoves
<1>1. UNCHANGED <<stage_transition_proof, settling, events, checkpoint>>
  BY ZenonT(30) DEF SendCommand, files
<1>2. /\ issuing # <<>> /\ issuing \in Seq(Command) /\ issuing' = Tail(issuing)
      /\ commands \in Seq(Command) /\ commands' = Append(commands, Head(issuing))
  BY DEF SendCommand, TypeOK, ObserverTypeOK, ChannelsTypeOK
<1>3. Head(issuing) \in Command
  BY <1>2, Take
<1>4. ASSUME NEW S
      PROVE  /\ Has(issuing, S) <=> Head(issuing) \in S \/ Has(issuing', S)
             /\ Has(commands', S) <=> Has(commands, S) \/ Head(issuing) \in S
  BY ZenonT(30), <1>2, <1>3, HasTail, HasAppend
<1>5. \A w \in Window : Staged(w) => Staged(w)'
  BY ZenonT(30), <1>4 DEF Staged
<1>6. \A E : Reports(E) => Reports(E)'
  BY <1>1, ObserverFrameOfJob DEF Reports
<1>7. Wanted => Wanted'
  BY <1>1 DEF Wanted
<1> QED
  BY ZenonT(30), <1>1, <1>5, <1>6, <1>7, ObserverFrameOfJob, ReportsKept, StaysPut

(* Every step of the process.                                              *)
LEMMA NextMoves ==
  TypeOK /\ Places /\ WindowsKnown /\ TypeOK' /\ JobIs /\ JobIs' /\ [Next]_vars => JobMoves
<1> SUFFICES ASSUME TypeOK, Places, WindowsKnown, TypeOK', JobIs, JobIs', [Next]_vars
             PROVE  JobMoves
  OBVIOUS
<1>1. CASE DetectorActs \/ ChainFinalises \/ UNCHANGED vars
  <2>1. UNCHANGED <<prover_jobs, sending, stage_transition_proof, settling, issuing, commands,
                    events, checkpoint>>
    BY <1>1
    DEF DetectorActs, ChainFinalises, vars, channels, bridgeVars, observerVars, files
  <2>2. \A E : Reports(E) => Reports(E)'
    BY ZenonT(30), <2>1 DEF Reports
  <2>3. \A w \in Window : Staged(w) => Staged(w)'
    BY <2>1 DEF Staged
  <2>4. Wanted => Wanted'
    BY <2>1 DEF Wanted
  <2> QED
    BY ZenonT(30), <2>1, <2>2, <2>3, <2>4, ReportsKept, StaysPut
<1>2. CASE BridgeActs
  <2>1. BridgeStep /\ Others
    BY ZenonT(30), <1>2 DEF BridgeActs, Others
  <2> QED
    BY ZenonT(30), <2>1, QuietBridgeMoves, SendMoves, StageMoves, AnswerMoves DEF BridgeStep
<1>3. CASE ObserverActs
  <2>1. ObserverStep /\ ObserverOthers
    BY <1>3 DEF ObserverActs, ObserverOthers
  <2>2. OnLoggedNotice => JobMoves
    BY ZenonT(30), <2>1, LoggedMoves DEF OnLoggedNotice, observerVars, files
  <2> QED
    BY ZenonT(30), <2>1, <2>2, StartedMoves, FinalityMoves, RetryMoves, ProofMoves, SettleMoves,
       SendCommandMoves
    DEF ObserverStep
<1>4. CASE Restart
  <2>1. FreshlyStarted' /\ checkpoint' = checkpoint
    BY ZenonT(30), <1>4, RestartIsFresh
  <2>2. Starting'
    BY <2>1, FreshlyStartedStarts, PTL
  <2>3. Phase' = "starting" /\ JobWindow' = Nil
    BY ZenonT(30), <2>2 DEF JobIs
  <2> QED
    BY <2>1, <2>3 DEF JobMoves, Promise!PipelineNext, Promise!ProcessRestart
<1> QED
  BY ZenonT(30), <1>1, <1>2, <1>3, <1>4 DEF Next

(* A first start is the abstract pipeline's.                               *)
LEMMA InitMoves == Init => Promise!PipelineInit /\ WindowsKnown
<1> SUFFICES ASSUME Init PROVE Promise!PipelineInit /\ WindowsKnown
  OBVIOUS
<1>1. Starting /\ WindowsKnown
  BY InitIsFresh, FreshlyStartedStarts
<1>2. JobIs
  BY PipelineInitInv, JobMapped
<1> QED
  BY <1>1, <1>2 DEF JobIs, Promise!PipelineInit, Init

(* Whatever the interleaving of observer, event loop, detector, workers    *)
(* and restarts, what the user sees is one job after the other, given a    *)
(* prepared window, proved, and settled exactly as proved: the actors of   *)
(* main implement ProofPipeline.                                           *)
THEOREM PipelineImplementsPromise == Spec => ImplementsPromise
<1> DEFINE Inv == TypeOK /\ Places /\ WindowsKnown
<1>1. Init => Inv /\ Promise!PipelineInit
  BY PipelineInitInv, InitMoves
<1>2. Inv /\ [Next]_vars => Inv'
  BY PipelineNextInv, NextKnows
<1>3. Inv => JobIs
  BY JobMapped
<1>4. Inv /\ JobIs /\ Inv' /\ JobIs' /\ [Next]_vars => JobMoves
  BY NextMoves
<1>5. JobMoves => [Promise!PipelineNext]_(Promise!pipelineVars)
  BY DEF JobMoves, Promise!pipelineVars
<1> QED
  BY <1>1, <1>2, <1>3, <1>4, <1>5, PTL DEF Spec, ImplementsPromise, Promise!PipelineSpec

=============================================================================
