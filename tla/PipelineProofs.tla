-------------------------- MODULE PipelineProofs ----------------------------
(***************************************************************************)
(* The proof that the steps of the observer keep the places of the         *)
(* pipeline, and the theorems about the whole bridge head process, for     *)
(* every chain length, queue history, batch size, channel capacity and     *)
(* number of restarts.                                                     *)
(***************************************************************************)
EXTENDS BridgeProofs

-----------------------------------------------------------------------------
(* The observer's steps.                                                   *)

OthersThanObserver ==
  UNCHANGED <<finalised, detectorVars, bridgeVars, restarts, unreadByObserver>>

LEMMA ObserverFrame ==
  ASSUME Places, OthersThanObserver
  PROVE  /\ Proving' = Proving /\ Reporting' = Reporting
         /\ UNCHANGED <<head, position, sending, prover_jobs, advance_input>>
         /\ JobsAnsweredOnce' /\ ReportsLast' /\ Once(sending', TriggerSends)
<1>1. UNCHANGED <<head, position, sending, prover_jobs, workers, job_results, advance_input>>
  BY DEF OthersThanObserver, bridgeVars, detectorVars, unreadByObserver
<1>2. Proving' = Proving /\ Reporting' = Reporting
  BY <1>1 DEF Proving, Reporting, Has
<1>3. JobsAnsweredOnce'
  BY <1>1 DEF Places, JobsAnsweredOnce, ResultsMatchJobs
<1>4. ReportsLast' /\ Once(sending', TriggerSends)
  BY <1>1 DEF Places, ReportsLast, SerialPipeline, Once
<1> QED
  BY <1>1, <1>2, <1>3, <1>4

(* The event the observer takes is the first of the channel.               *)
LEMMA FirstEvent ==
  ASSUME TypeOK, Places, NEW t, Receives(t)
  PROVE  LET e == Head(events) IN
         /\ e \in Event /\ e.type = t /\ 1 \in DOMAIN events /\ e = events[1]
         /\ Reported <=> e \in Triggers \/ Reported'
         /\ Once(events', Triggers)
         /\ e \in Triggers => ~Reported'
         /\ Has(events', Failures) => Has(events, Failures)
         /\ e \in Failures => Has(events, Failures)
         /\ \A i \in DOMAIN events' :
              events'[i].type = "JobFailed" => events'[i].n_job_in_buffer = 0
         /\ issuing = <<>> /\ settling = Nil
<1> DEFINE e == Head(events)
<1>1. /\ events # <<>> /\ events' = Tail(events) /\ events \in Seq(Event)
      /\ e.type = t /\ issuing = <<>> /\ settling = Nil
  BY DEF Receives, Listening, TypeOK, ChannelsTypeOK
<1>2. /\ e \in Event /\ e = events[1] /\ 1 \in DOMAIN events
      /\ \A i \in DOMAIN Tail(events) : i + 1 \in DOMAIN events /\ Tail(events)[i] = events[i + 1]
  <2>1. /\ e \in Event /\ e = events[1] /\ Len(events) \in Nat \ {0}
        /\ DOMAIN events = 1 .. Len(events)
        /\ Len(Tail(events)) = Len(events) - 1
        /\ DOMAIN Tail(events) = 1 .. Len(Tail(events))
        /\ \A i \in 1 .. Len(Tail(events)) : Tail(events)[i] = events[i + 1]
    BY ZenonT(30), <1>1, Take, HeadLeaves, SeqShape
  <2> QED
    BY <2>1
<1>3. Once(events, Triggers)
  BY DEF Places, SerialPipeline
<1>4. /\ Has(events, Triggers) <=> e \in Triggers \/ Has(Tail(events), Triggers)
      /\ Once(Tail(events), Triggers)
      /\ e \in Triggers => ~Has(Tail(events), Triggers)
  BY <1>1, <1>3, HasTail
<1>5. Has(events, Failures) <=> e \in Failures \/ Has(Tail(events), Failures)
  BY ZenonT(30), <1>1, HasTail
<1>6. \A i \in DOMAIN events' :
        events'[i].type = "JobFailed" => events'[i].n_job_in_buffer = 0
  BY <1>1 DEF Places, FailuresRetriable
<1> QED
  BY ZenonT(30), <1>1, <1>2, <1>4, <1>5, <1>6 DEF Reported

(* What taking an event leaves of the serial pipeline.                     *)
LEMMA TakingKeeps ==
  ASSUME TypeOK, Places, OthersThanObserver, NEW t, Receives(t)
  PROVE  /\ Proving' = Proving /\ Reporting' = Reporting
         /\ \A j, k \in DOMAIN prover_jobs' : j = k
         /\ Once(sending', TriggerSends) /\ Once(events', Triggers)
<1>1. /\ Proving' = Proving /\ Reporting' = Reporting /\ UNCHANGED prover_jobs
      /\ Once(sending', TriggerSends)
  BY ObserverFrame
<1>2. Once(events', Triggers)
  BY FirstEvent
<1>3. \A j, k \in DOMAIN prover_jobs' : j = k
  BY <1>1 DEF Places, SerialPipeline
<1> QED
  BY <1>1, <1>2, <1>3

(* Handlers that leave the commands and the files alone and issue nothing. *)
LEMMA QuietPlaces ==
  ASSUME TypeOK, Places, OthersThanObserver, NEW t, Receives(t),
         UNCHANGED <<commands, issuing, checkpoint, latest_current, latest_next>>,
         SerialPipeline',
         Reported' \/ Settling' => Reported \/ Settling
  PROVE  Places'
<1>1. CommandOrder'
  BY DEF Places, CommandOrder
<1>2. CommandsTaken'
  BY ObserverFrame DEF Places, CommandsTaken
<1>3. Ordered' = Ordered /\ Queued' = Queued
  BY DEF Ordered, Queued, Has
<1>4. FailuresRetriable'
  <2>1. Proving' = Proving /\ UNCHANGED sending
    BY ObserverFrame
  <2>2. /\ Has(events', Failures) => Has(events, Failures)
        /\ \A i \in DOMAIN events' :
             events'[i].type = "JobFailed" => events'[i].n_job_in_buffer = 0
    BY ZenonT(30), FirstEvent
  <2> QED
    BY ZenonT(30), <1>3, <2>1, <2>2 DEF Places, FailuresRetriable
<1>5. PositionTravels'
  BY ObserverFrame DEF Places, PositionTravels
<1> QED
  BY ZenonT(30), <1>1, <1>2, <1>4, <1>5, ObserverFrame DEF Places

LEMMA StartedPlaces ==
  ASSUME TypeOK, Places, OnStarted, OthersThanObserver
  PROVE  Places'
<1>1. Head(events) \in Triggers
  BY EventKinds, FirstEvent DEF OnStarted
<1>2. Reported /\ ~Reported'
  BY <1>1, FirstEvent DEF OnStarted
<1>3. /\ ~Wanted /\ ~Ordered /\ ~Queued /\ ~Proving /\ ~Reporting /\ ~Settling
  BY <1>2 DEF Places, SerialPipeline
<1>4. /\ Wanted' /\ ~Ordered' /\ ~Queued' /\ ~Settling'
  BY ZenonT(30), <1>3 DEF Wanted, Ordered, Queued, Settling, Has, OnStarted
<1>5. SerialPipeline'
  <2>1. Once(issuing', StageCommands) /\ Once(commands', StageCommands)
    BY DEF Places, SerialPipeline, Once, OnStarted
  <2>2. /\ ~Proving' /\ ~Reporting' /\ Once(sending', TriggerSends) /\ Once(events', Triggers)
        /\ \A j, k \in DOMAIN prover_jobs' : j = k
    BY <1>3, TakingKeeps DEF OnStarted
  <2> QED
    BY ZenonT(30), <1>2, <1>4, <2>1, <2>2 DEF SerialPipeline
<1> QED
  BY <1>2, <1>5, QuietPlaces DEF files, OnStarted

LEMMA LoggedPlaces ==
  ASSUME TypeOK, Places, OnLoggedNotice, OthersThanObserver
  PROVE  Places'
<1> PICK t \in {"JobCreated", "JobSucceeded", "HeadAdvanced"} : Receives(t)
  BY DEF OnLoggedNotice
<1>1. Head(events) \notin Triggers
  BY EventKinds, FirstEvent
<1>2. Reported' <=> Reported
  BY <1>1, FirstEvent
<1>3. Wanted' = Wanted /\ Ordered' = Ordered /\ Queued' = Queued /\ Settling' = Settling
  BY ZenonT(30) DEF Wanted, Ordered, Queued, Settling, Has, OnLoggedNotice, observerVars
<1>4. SerialPipeline'
  <2>1. Once(issuing', StageCommands) /\ Once(commands', StageCommands)
    BY DEF Places, SerialPipeline, Once, OnLoggedNotice, observerVars
  <2>2. /\ Proving' = Proving /\ Reporting' = Reporting
        /\ Once(sending', TriggerSends) /\ Once(events', Triggers)
        /\ \A j, k \in DOMAIN prover_jobs' : j = k
    BY TakingKeeps
  <2>3. SerialPipeline
    BY DEF Places
  <2> QED
    BY ZenonT(30), <1>2, <1>3, <2>1, <2>2, <2>3 DEF SerialPipeline
<1> QED
  BY <1>2, <1>3, <1>4, QuietPlaces DEF files, OnLoggedNotice, observerVars

(* Handlers that issue a single stage command.                             *)
LEMMA StagingPlaces ==
  ASSUME TypeOK, Places, OthersThanObserver, NEW t, Receives(t), NEW w \in Window,
         issuing' = <<StageCommand(w)>>, ~Wanted', ~Settling', ~Reported',
         UNCHANGED <<commands, checkpoint>>,
         ~Queued, ~Proving, ~Reporting, latest_current' # Nil
  PROVE  Places'
<1> DEFINE c == StageCommand(w)
<1>1. c \in StageCommands /\ c \notin AdvanceCommands
  BY CommandsMade
<1> HIDE DEF c
<1>2. issuing' = <<c>> /\ DOMAIN issuing' = {1} /\ Len(issuing') = 1 /\ issuing'[1] = c
  BY DEF c
<1>3. Ordered' /\ Once(issuing', StageCommands)
  BY SMTT(30), <1>1, <1>2, HasOne DEF Ordered
<1>4. Queued' = Queued /\ Once(commands', StageCommands)
  BY DEF Queued, Has, Places, SerialPipeline, Once
<1>5. SerialPipeline'
  <2>1. /\ ~Proving' /\ ~Reporting' /\ Once(sending', TriggerSends) /\ Once(events', Triggers)
        /\ \A j, k \in DOMAIN prover_jobs' : j = k
    BY TakingKeeps
  <2> QED
    BY <1>3, <1>4, <2>1 DEF SerialPipeline
<1>6. CommandOrder'
  <2>1. \A i \in DOMAIN commands : commands[i] \notin StageCommands
    BY DEF Queued, Has
  <2> QED
    BY <1>1, <1>2, <2>1 DEF Places, CommandOrder
<1>7. CommandsTaken'
  BY SMTT(30), ObserverFrame DEF CommandsTaken
<1>8. FailuresRetriable'
  <2>1. Proving' = Proving /\ UNCHANGED sending
    BY ObserverFrame
  <2>2. \A i \in DOMAIN events' :
          events'[i].type = "JobFailed" => events'[i].n_job_in_buffer = 0
    BY FirstEvent
  <2> QED
    BY <2>1, <2>2 DEF Places, FailuresRetriable
<1>9. PositionTravels'
  <2>1. ~Has(issuing, AdvanceCommands) /\ ~Has(issuing', AdvanceCommands)
    BY <1>1, <1>2, FirstEvent DEF Has
  <2>2. UNCHANGED <<head, position, sending, advance_input>>
    BY ObserverFrame
  <2> QED
    BY ZenonT(30), <1>1, <1>2, <2>1, <2>2 DEF Places, PositionTravels
<1> QED
  BY ZenonT(30), <1>5, <1>6, <1>7, <1>8, <1>9, ObserverFrame DEF Places

LEMMA FinalityPlaces ==
  ASSUME TypeOK, Places, OnFinalityTransitionDetected, OthersThanObserver
  PROVE  Places'
<1> DEFINE d == Head(events).inputs
<1>1. Head(events) \notin Triggers
  BY SMTT(30), EventKinds, FirstEvent DEF OnFinalityTransitionDetected
<1>2. d \in Dual
  BY EventKinds, FirstEvent DEF OnFinalityTransitionDetected
<1>3. d.current \in Window /\ d.current # Nil
  BY ZenonT(30), <1>2, NilAssumption DEF Dual
<1>4. (Reported' <=> Reported) /\ ~Wanted' /\ ~Settling'
  BY <1>1, FirstEvent DEF Wanted, Settling, OnFinalityTransitionDetected
<1>5. latest_current' = d.current /\ latest_next' = d.next /\ UNCHANGED <<commands, checkpoint>>
  BY DEF files, OnFinalityTransitionDetected
<1> HIDE DEF d
<1>6. CASE stage_transition_proof
  <2>1. /\ ~Queued /\ ~Proving /\ ~Reporting /\ ~Reported'
    BY ZenonT(30), <1>4, <1>6 DEF Places, SerialPipeline, Wanted
  <2>2. issuing' = <<StageCommand(d.current)>>
    BY <1>6 DEF d, OnFinalityTransitionDetected
  <2> QED
    BY ZenonT(30), <1>3, <1>4, <1>5, <2>1, <2>2, StagingPlaces DEF OnFinalityTransitionDetected
<1>7. CASE ~stage_transition_proof
  <2>1. issuing' = <<>> /\ issuing = <<>>
    BY <1>7, FirstEvent DEF OnFinalityTransitionDetected
  <2>2. ~Wanted /\ ~Settling
    BY <1>7, FirstEvent DEF Wanted, Settling, OnFinalityTransitionDetected
  <2>3. Ordered' = Ordered /\ Queued' = Queued
    BY ZenonT(30), <1>5, <2>1 DEF Ordered, Queued, Has
  <2>4. SerialPipeline'
    <3>1. /\ Once(issuing', StageCommands) /\ Once(commands', StageCommands)
          /\ \A j, k \in DOMAIN prover_jobs' : j = k
      <4>1. UNCHANGED <<issuing, commands, prover_jobs>>
        BY <1>5, <2>1, ObserverFrame
      <4> QED
        BY ZenonT(30), <4>1 DEF Places, SerialPipeline, Once
    <3>2. /\ Proving' = Proving /\ Reporting' = Reporting
          /\ Once(sending', TriggerSends) /\ Once(events', Triggers)
      BY TakingKeeps DEF OnFinalityTransitionDetected
    <3>3. SerialPipeline
      BY DEF Places
    <3> QED
      BY ZenonT(30), <1>4, <2>2, <2>3, <3>1, <3>2, <3>3 DEF SerialPipeline
  <2>5. CommandOrder' /\ CommandsTaken'
    BY SMTT(30), <1>4, <1>5, <2>1, ObserverFrame DEF Places, CommandOrder, CommandsTaken
  <2>6. FailuresRetriable'
    <3>1. latest_current' # Nil /\ UNCHANGED sending
      BY <1>3, <1>5, ObserverFrame
    <3>2. \A i \in DOMAIN events' :
            events'[i].type = "JobFailed" => events'[i].n_job_in_buffer = 0
      BY ZenonT(30), FirstEvent DEF OnFinalityTransitionDetected
    <3> QED
      BY <3>1, <3>2 DEF Places, FailuresRetriable
  <2>7. PositionTravels'
    BY <1>5, <2>1, ObserverFrame DEF Places, PositionTravels
  <2> QED
    BY ZenonT(30), <2>4, <2>5, <2>6, <2>7, ObserverFrame DEF Places
<1> QED
  BY ZenonT(30), <1>6, <1>7

LEMMA JobFailedPlaces ==
  ASSUME TypeOK, Places, OnJobFailed, OthersThanObserver
  PROVE  Places'
<1>1. Head(events) \in Triggers
  BY EventKinds, FirstEvent DEF OnJobFailed
<1>2. Reported /\ ~Reported'
  BY <1>1, FirstEvent DEF OnJobFailed
<1>3. /\ ~Wanted /\ ~Queued /\ ~Proving /\ ~Reporting /\ ~Settling
  BY <1>2 DEF Places, SerialPipeline
<1>4. ~Wanted' /\ ~Settling'
  BY <1>3 DEF Wanted, Settling, OnJobFailed
<1>5. Head(events).n_job_in_buffer = 0
  BY FirstEvent DEF Places, FailuresRetriable, OnJobFailed
<1>6. latest_current \in Window /\ latest_current' # Nil
  BY <1>5 DEF TypeOK, ObserverTypeOK, OnJobFailed
<1>7. issuing' = <<StageCommand(latest_current)>> /\ UNCHANGED <<commands, checkpoint>>
  BY <1>5 DEF files, OnJobFailed
<1> QED
  BY ZenonT(30), <1>2, <1>3, <1>4, <1>6, <1>7, StagingPlaces DEF OnJobFailed

LEMMA ProofPlaces ==
  ASSUME TypeOK, Places, OnTransitionProofSucceeded, OthersThanObserver
  PROVE  Places'
<1>1. Head(events) \in Triggers /\ Head(events).proof # Nil
  BY EventKinds, NilAssumption, FirstEvent DEF OnTransitionProofSucceeded
<1>2. Reported /\ ~Reported'
  BY <1>1, FirstEvent DEF OnTransitionProofSucceeded
<1>3. /\ ~Wanted /\ ~Ordered /\ ~Queued /\ ~Proving /\ ~Reporting /\ ~Settling
  BY <1>2 DEF Places, SerialPipeline
<1>4. /\ ~Wanted' /\ ~Ordered' /\ ~Queued' /\ Settling'
  BY <1>1, <1>3 DEF Wanted, Ordered, Queued, Settling, Has, OnTransitionProofSucceeded
<1>5. SerialPipeline'
  <2>1. /\ ~Proving' /\ ~Reporting' /\ Once(sending', TriggerSends) /\ Once(events', Triggers)
        /\ \A j, k \in DOMAIN prover_jobs' : j = k
    BY ZenonT(30), <1>3, TakingKeeps DEF OnTransitionProofSucceeded
  <2>2. Once(issuing', StageCommands) /\ Once(commands', StageCommands)
    BY DEF Places, SerialPipeline, Once, OnTransitionProofSucceeded
  <2> QED
    BY ZenonT(30), <1>2, <1>4, <2>1, <2>2 DEF SerialPipeline
<1> QED
  BY ZenonT(30), <1>2, <1>5, QuietPlaces DEF OnTransitionProofSucceeded

LEMMA SettlePlaces ==
  ASSUME TypeOK, Places, SettleProof, OthersThanObserver
  PROVE  Places'
<1> DEFINE a == AdvanceCommand(settling.output)
           c == StageCommand(latest_next)
<1>1. settling \in Window /\ settling.output \in Position
  BY DEF TypeOK, ObserverTypeOK, Window, SettleProof
<1>2. /\ Settling /\ ~Wanted /\ ~Ordered /\ ~Queued /\ ~Proving /\ ~Reporting /\ ~Reported
  BY DEF Settling, Places, SerialPipeline, SettleProof
<1>3. commands = <<>> /\ issuing = <<>> /\ commands' = <<>>
  BY SMTT(30), <1>2 DEF Places, CommandsTaken, SettleProof
<1>4. /\ ~Queued' /\ ~Reported' /\ ~Settling' /\ Once(commands', StageCommands)
      /\ Once(events', Triggers)
  <2>1. UNCHANGED <<commands, events>> /\ settling' = Nil
    BY DEF SettleProof
  <2>2. ~Queued' /\ ~Reported' /\ ~Settling'
    BY <1>2, <2>1 DEF Queued, Reported, Settling, Has
  <2> QED
    BY <2>1, <2>2 DEF Places, SerialPipeline
<1>5. /\ a \in AdvanceCommands /\ a \notin StageCommands /\ a.position = settling.output
  BY ZenonT(30), <1>1, CommandsMade DEF AdvanceCommand
<1>6. Viable(settling) => c \in StageCommands /\ c \notin AdvanceCommands
                          /\ latest_current # Nil
  BY CommandsMade DEF Viable, TypeOK, ObserverTypeOK, Places, FailuresRetriable
<1>7. /\ IF Viable(settling) THEN issuing' = <<a, c>> ELSE issuing' = <<a>>
      /\ checkpoint' = settling.output
  BY DEF SettleProof
<1>8. Wanted' <=> ~Viable(settling)
  BY ZenonT(30), <1>2 DEF Wanted, SettleProof
<1> HIDE DEF a, c
<1>9. (Ordered' <=> Viable(settling)) /\ Once(issuing', StageCommands)
  <2>1. CASE Viable(settling)
    BY <1>5, <1>6, <1>7, <2>1, HasTwo DEF Ordered
  <2>2. CASE ~Viable(settling)
    BY <1>5, <1>7, <2>2, HasOne DEF Ordered
  <2> QED
    BY <2>1, <2>2
<1>10. SerialPipeline'
  <2>1. /\ ~Proving' /\ ~Reporting' /\ Once(sending', TriggerSends) /\ UNCHANGED prover_jobs
    BY <1>2, ObserverFrame
  <2>2. \A j, k \in DOMAIN prover_jobs' : j = k
    BY <2>1 DEF Places, SerialPipeline
  <2> QED
    BY <1>4, <1>8, <1>9, <2>1, <2>2 DEF SerialPipeline
<1>11. \A i \in DOMAIN issuing' :
         /\ issuing'[i] \in StageCommands => i = Len(issuing')
         /\ issuing'[i] \in AdvanceCommands => i = 1 /\ issuing'[i].position = checkpoint'
  <2>1. CASE Viable(settling)
    <3>1. DOMAIN issuing' = {1, 2} /\ Len(issuing') = 2 /\ issuing'[1] = a /\ issuing'[2] = c
      BY <1>7, <2>1
    <3> QED
      BY <1>5, <1>6, <1>7, <3>1
  <2>2. CASE ~Viable(settling)
    <3>1. DOMAIN issuing' = {1} /\ Len(issuing') = 1 /\ issuing'[1] = a
      BY <1>7, <2>2
    <3> QED
      BY <1>5, <1>7, <3>1
  <2> QED
    BY <2>1, <2>2
<1>12. CommandOrder'
  BY <1>3, <1>11 DEF CommandOrder
<1>13. CommandsTaken'
  BY SMTT(30), <1>2, <1>4, ObserverFrame DEF CommandsTaken
<1>14. FailuresRetriable'
  <2>1. Proving' = Proving /\ UNCHANGED sending
    BY ObserverFrame
  <2>2. UNCHANGED <<events, latest_current, latest_next>>
    BY DEF SettleProof
  <2> QED
    BY ZenonT(30), <1>2, <1>4, <1>6, <1>9, <2>1, <2>2 DEF Places, FailuresRetriable
<1>15. PositionTravels'
  <2>1. Has(issuing', AdvanceCommands)
    BY <1>5, <1>7, HasOne, HasTwo
  <2>2. UNCHANGED <<head, position, sending, advance_input>>
    BY ObserverFrame
  <2> QED
    BY SMTT(30), <1>3, <1>11, <2>1, <2>2 DEF Places, PositionTravels
<1> QED
  BY ZenonT(30), <1>10, <1>12, <1>13, <1>14, <1>15, ObserverFrame DEF Places

LEMMA SendCommandPlaces ==
  ASSUME TypeOK, Places, SendCommand, OthersThanObserver
  PROVE  Places'
<1> DEFINE c == Head(issuing)
<1>1. /\ issuing # <<>> /\ issuing' = Tail(issuing) /\ commands' = Append(commands, c)
      /\ issuing \in Seq(Command) /\ commands \in Seq(Command)
      /\ UNCHANGED <<stage_transition_proof, latest_current, latest_next, settling, events,
                     checkpoint>>
  BY DEF SendCommand, files, TypeOK, ChannelsTypeOK, ObserverTypeOK
<1>2. /\ c \in Command /\ c = issuing[1] /\ Len(issuing) \in Nat \ {0}
      /\ DOMAIN issuing = 1 .. Len(issuing)
      /\ issuing' \in Seq(Command) /\ Len(issuing') = Len(issuing) - 1
      /\ DOMAIN issuing' = 1 .. Len(issuing')
      /\ \A i \in 1 .. Len(issuing') : issuing'[i] = issuing[i + 1]
  BY ZenonT(30), <1>1, Take, HeadLeaves, SeqShape
<1>3. /\ DOMAIN commands = 1 .. Len(commands) /\ Len(commands) \in Nat
      /\ Len(commands') = Len(commands) + 1 /\ DOMAIN commands' = 1 .. (Len(commands) + 1)
      /\ \A i \in 1 .. Len(commands) : commands'[i] = commands[i]
      /\ commands'[Len(commands) + 1] = c
  BY <1>1, <1>2, LastJoins, SeqShape
<1>4. /\ c \in StageCommands \/ c \in AdvanceCommands
      /\ ~(c \in StageCommands /\ c \in AdvanceCommands)
  BY <1>2, CommandKinds
<1> HIDE DEF c
<1>5. /\ ~Proving /\ ~Reporting /\ ~Reported /\ ~Settling
  BY ZenonT(30), <1>1 DEF Places, CommandsTaken
<1>6. ~Reported' /\ ~Settling' /\ Wanted' = Wanted /\ Once(events', Triggers)
  BY ZenonT(30), <1>1, <1>5 DEF Reported, Settling, Wanted, Places, SerialPipeline
<1>7. \A i \in DOMAIN commands : commands[i] \notin StageCommands
  BY ZenonT(30), <1>1 DEF Places, CommandOrder
<1>8. ~Queued /\ Once(commands, StageCommands) /\ Once(issuing, StageCommands)
  BY ZenonT(30), <1>7 DEF Queued, Has, Places, SerialPipeline
<1>9. /\ Queued' <=> c \in StageCommands
      /\ Once(commands', StageCommands)
  BY <1>1, <1>2, <1>8, HasAppend DEF Queued
<1>10. /\ Ordered <=> c \in StageCommands \/ Ordered'
       /\ Once(issuing', StageCommands)
       /\ c \in StageCommands => ~Ordered'
  <2>1. /\ Has(issuing, StageCommands) <=> Head(issuing) \in StageCommands \/ Has(Tail(issuing), StageCommands)
        /\ Once(Tail(issuing), StageCommands)
        /\ Head(issuing) \in StageCommands => ~Has(Tail(issuing), StageCommands)
    BY ZenonT(30), <1>1, <1>8, HasTail
  <2> QED
    BY <1>1, <2>1 DEF Ordered, c
<1>11. SerialPipeline'
  <2>1. /\ ~Proving' /\ ~Reporting' /\ Once(sending', TriggerSends) /\ UNCHANGED prover_jobs
    BY <1>5, ObserverFrame
  <2>2. SerialPipeline
    BY DEF Places
  <2>3. \A j, k \in DOMAIN prover_jobs' : j = k
    BY <2>1, <2>2 DEF SerialPipeline
  <2> QED
    BY ZenonT(30), <1>5, <1>6, <1>8, <1>9, <1>10, <2>1, <2>2, <2>3 DEF SerialPipeline
<1>12. CommandsTaken'
  BY <1>5, <1>6, ObserverFrame DEF CommandsTaken
<1>13. c \in StageCommands => issuing' = <<>>
  <2>1. c \in StageCommands => Len(issuing) = 1
    BY <1>2 DEF Places, CommandOrder
  <2> QED
    BY <1>2, <2>1
<1>14. c \in AdvanceCommands => Len(commands) = 0
  BY <1>2, NoElements DEF Places, CommandOrder
<1>15. \A i \in DOMAIN issuing' : i + 1 \in DOMAIN issuing /\ i + 1 # 1
                                  /\ issuing'[i] = issuing[i + 1] /\ i \in Int
  BY <1>2
<1>16. \A i \in DOMAIN issuing' : issuing'[i] \notin AdvanceCommands
  BY <1>15 DEF Places, CommandOrder
<1>17. CommandOrder'
  <2>1. ASSUME NEW i \in DOMAIN commands'
        PROVE  /\ commands'[i] \in StageCommands => i = Len(commands') /\ issuing' = <<>>
               /\ commands'[i] \in AdvanceCommands => i = 1
    <3>1. CASE i = Len(commands) + 1
      BY SMTT(30), <1>3, <1>13, <1>14, <3>1
    <3>2. CASE i # Len(commands) + 1
      <4>1. i \in DOMAIN commands /\ commands'[i] = commands[i]
        BY <1>3, <3>2
      <4> QED
        BY <1>7, <4>1 DEF Places, CommandOrder
    <3> QED
      BY <3>1, <3>2
  <2>2. ASSUME NEW i \in DOMAIN issuing', issuing'[i] \in StageCommands
        PROVE  i = Len(issuing')
    <3>1. i + 1 = Len(issuing)
      BY ZenonT(30), <1>15, <2>2 DEF Places, CommandOrder
    <3> QED
      BY <1>2, <1>15, <3>1
  <2> QED
    BY <1>16, <2>1, <2>2 DEF CommandOrder
<1>18. FailuresRetriable'
  <2>1. Proving' = Proving /\ UNCHANGED sending
    BY ObserverFrame
  <2> QED
    BY ZenonT(30), <1>1, <1>9, <1>10, <2>1 DEF Places, FailuresRetriable
<1>19. PositionTravels'
  <2>1. c \in AdvanceCommands => c.position = checkpoint
    BY <1>2 DEF Places, PositionTravels
  <2>2. \A i \in DOMAIN commands' :
          commands'[i] \in AdvanceCommands => commands'[i].position = checkpoint'
    <3> SUFFICES ASSUME NEW i \in DOMAIN commands', commands'[i] \in AdvanceCommands
                 PROVE  commands'[i].position = checkpoint'
      OBVIOUS
    <3>1. CASE i = Len(commands) + 1
      BY SMTT(30), <1>1, <2>1, <3>1
    <3>2. CASE i # Len(commands) + 1
      <4>1. i \in DOMAIN commands /\ commands'[i] = commands[i]
        BY <1>3, <3>2
      <4> QED
        BY <1>1, <4>1 DEF Places, PositionTravels
    <3> QED
      BY <3>1, <3>2
  <2>3. ~Has(commands', AdvanceCommands) =>
          ~Has(commands, AdvanceCommands) /\ c \notin AdvanceCommands
    BY ZenonT(30), <1>1, <1>2, HasAppend
  <2>4. c \notin AdvanceCommands => ~Has(issuing, AdvanceCommands)
    BY <1>2 DEF Places, CommandOrder, Has
  <2>5. UNCHANGED <<head, position, sending, advance_input>>
    BY ObserverFrame
  <2> QED
    BY SMTT(30), <1>1, <2>2, <2>3, <2>4, <2>5 DEF Places, PositionTravels
<1> QED
  BY ZenonT(30), <1>11, <1>12, <1>17, <1>18, <1>19, ObserverFrame DEF Places

-----------------------------------------------------------------------------
(* Types.                                                                  *)

(* The job that fails is the only one: none is left in the buffer.         *)
LEMMA OnlyFailure ==
  ASSUME TypeOK, Places, HandleProverFailure
  PROVE  JobsLeft(Head(job_results).job_id) = 0
<1>1. DOMAIN prover_jobs = {Head(job_results).job_id}
  BY ZenonT(30), OnlyResult DEF HandleProverFailure
<1>2. DOMAIN prover_jobs \ {Head(job_results).job_id} = {}
  BY ZenonT(30), <1>1
<1> QED
  BY ZenonT(30), <1>2, NoneCounted DEF JobsLeft

(* Job ids wrap around within their width.                                *)
LEMMA NextIdIsJobId ==
  ASSUME NEW n \in JobId
  PROVE  (n + 1) % JobIdSpace \in JobId
BY SMTT(30), ChannelsAssumption DEF JobId

LEMMA BridgeStepTypes ==
  ASSUME ChannelsTypeOK, BridgeTypeOK, BridgeStep,
         HandleProverFailure => JobsLeft(Head(job_results).job_id) = 0
  PROVE  ChannelsTypeOK' /\ BridgeTypeOK'
<1>1. CASE OnBeaconFinalityChange
  <2> DEFINE d == Head(finality_output)
  <2>1. /\ d \in Dual /\ Tail(finality_output) \in Seq(Dual)
        /\ Len(Tail(finality_output)) <= DetectorCapacity
    BY SMTT(30), <1>1, Take
    DEF OnBeaconFinalityChange, DetectorCapacity, ChannelsTypeOK, DetectorChannelsTypeOK
  <2>2. d.current.output.slot \in Slot
    BY <2>1 DEF Dual, Window, Position
  <2>3. ToEvent(FinalityTransitionDetected(d)) \in Send
    BY ZenonT(30), <2>1, EventsMade, SendsMade
  <2>4. sending' \in Seq(Send) /\ Len(sending') <= 2
    BY SMTT(30), <1>1, <2>3 DEF OnBeaconFinalityChange
  <2> QED
    BY ZenonT(30), <1>1, <2>1, <2>2, <2>4
    DEF OnBeaconFinalityChange, ChannelsTypeOK, DetectorChannelsTypeOK, BridgeTypeOK
<1>2. ASSUME commands # <<>>
      PROVE  /\ Head(commands) \in Command /\ Tail(commands) \in Seq(Command)
             /\ Len(Tail(commands)) <= CommandCapacity
  BY <1>2, ChannelsAssumption DEF ChannelsTypeOK
<1>3. CASE StageTransitionProof
  <2> DEFINE id == (job_id + 1) % JobIdSpace
             w == Head(commands).window
  <2>1. w \in Window /\ w.output \in Position
    BY ZenonT(30), <1>2, <1>3, CommandKinds DEF StageTransitionProof, Window
  <2>2. id \in JobId
    BY ZenonT(30), NextIdIsJobId DEF BridgeTypeOK
  <2>3. /\ DOMAIN prover_jobs' \subseteq JobId
        /\ \A j \in DOMAIN prover_jobs' : prover_jobs'[j] \in Window
    BY ZenonT(30), <1>3, <2>1, <2>2 DEF StageTransitionProof, BridgeTypeOK
  <2>4. workers' \subseteq Worker
    BY SMTT(30), <1>3, <2>1, <2>2 DEF StageTransitionProof, Worker, BridgeTypeOK
  <2>5. sending' \in Seq(Send) /\ Len(sending') <= 2
    <3>1. PICK a \in Send, b \in Send : sending' = <<a, b>>
      BY ZenonT(30), <1>3, <2>1, EventsMade, SendsMade DEF StageTransitionProof
    <3> QED
      BY <3>1
  <2> HIDE DEF id, w
  <2> QED
    BY ZenonT(30), <1>2, <1>3, <2>3, <2>4, <2>5
    DEF StageTransitionProof, ChannelsTypeOK, DetectorChannelsTypeOK, BridgeTypeOK
<1>4. CASE Advance
  <2> DEFINE p == Head(commands).position
  <2>1. p \in Position
    BY ZenonT(30), <1>2, <1>4, CommandKinds DEF Advance
  <2>2. sending' \in Seq(Send) /\ Len(sending') <= 2
    BY SMTT(30), <1>4, <2>1, EventsMade, SendsMade DEF Advance
  <2> QED
    BY ZenonT(30), <1>2, <1>4, <2>1, <2>2
    DEF Advance, ChannelsTypeOK, DetectorChannelsTypeOK, BridgeTypeOK
<1>5. ASSUME job_results # <<>>
      PROVE  /\ Head(job_results) \in JobResult /\ Tail(job_results) \in Seq(JobResult)
             /\ Len(Tail(job_results)) <= JobCapacity
  BY <1>5, ChannelsAssumption DEF ChannelsTypeOK
<1>6. ASSUME NEW id
      PROVE  /\ DOMAIN WithoutJob(id) \subseteq JobId
             /\ \A j \in DOMAIN WithoutJob(id) : WithoutJob(id)[j] \in Window
  BY DEF WithoutJob, Restrict, BridgeTypeOK
<1>7. CASE HandleProverSuccess
  <2>1. Head(job_results).proof \in Window
    BY ZenonT(30), <1>5, <1>7 DEF HandleProverSuccess, JobResult
  <2>2. sending' \in Seq(Send) /\ Len(sending') <= 2
    BY SMTT(30), <1>7, <2>1, EventsMade, SendsMade DEF HandleProverSuccess
  <2> QED
    BY ZenonT(30), <1>5, <1>6, <1>7, <2>2
    DEF HandleProverSuccess, ChannelsTypeOK, DetectorChannelsTypeOK, BridgeTypeOK
<1>8. CASE HandleProverFailure
  <2> DEFINE n == JobsLeft(Head(job_results).job_id)
  <2>2. n \in Nat
    BY <1>8
  <2>3. ToEvent(JobFailed(n)) \in Send
    BY ZenonT(30), <2>2, EventsMade, SendsMade
  <2>4. sending' \in Seq(Send) /\ Len(sending') <= 2
    BY SMTT(30), <1>8, <2>3 DEF HandleProverFailure
  <2> QED
    BY ZenonT(30), <1>5, <1>6, <1>8, <2>4
    DEF HandleProverFailure, ChannelsTypeOK, DetectorChannelsTypeOK, BridgeTypeOK
<1>9. CASE SendNext
  <2> DEFINE m == Head(sending)
  <2>1. /\ m \in Send /\ sending' \in Seq(Send) /\ Len(sending') <= 2
    BY <1>9 DEF SendNext, BridgeTypeOK
  <2>2. UNCHANGED <<head, next_slot, job_id, prover_jobs, workers, commands,
                    job_results, finality_output>>
    BY <1>9 DEF SendNext
  <2>3. CASE m.to = "stage"
    <3>1. /\ stage_input' \in Seq(Position) /\ Len(stage_input') <= DetectorCapacity
          /\ UNCHANGED <<advance_input, events>>
      BY SMTT(30), <1>9, <2>1, <2>3, SendKinds DEF SendNext, DetectorCapacity
    <3> QED
      BY ZenonT(30), <2>1, <2>2, <3>1 DEF ChannelsTypeOK, DetectorChannelsTypeOK, BridgeTypeOK
  <2>4. CASE m.to = "advance"
    <3>1. /\ advance_input' \in Seq(Position) /\ Len(advance_input') <= DetectorCapacity
          /\ UNCHANGED <<stage_input, events>>
      BY SMTT(30), <1>9, <2>1, <2>4, SendKinds, Put DEF SendNext, DetectorCapacity
    <3> QED
      BY ZenonT(30), <2>1, <2>2, <3>1 DEF ChannelsTypeOK, DetectorChannelsTypeOK, BridgeTypeOK
  <2>5. CASE m.to = "event"
    <3>1. /\ events' \in Seq(Event) /\ Len(events') <= EventCapacity
          /\ UNCHANGED <<stage_input, advance_input>>
      <4>1. /\ m.message \in Event /\ events' = Append(events, m.message)
            /\ Len(events) < EventCapacity /\ UNCHANGED <<stage_input, advance_input>>
        BY ZenonT(30), <1>9, <2>1, <2>5, SendKinds DEF SendNext
      <4>2. events' \in Seq(Event) /\ Len(events') = Len(events) + 1 /\ Len(events) \in Nat
        BY <4>1 DEF ChannelsTypeOK
      <4>3. EventCapacity \in Nat
        BY ChannelsAssumption
      <4> QED
        BY SMTT(30), <4>1, <4>2, <4>3
    <3> QED
      BY ZenonT(30), <2>1, <2>2, <3>1 DEF ChannelsTypeOK, DetectorChannelsTypeOK, BridgeTypeOK
  <2> QED
    BY ZenonT(30), <2>1, <2>3, <2>4, <2>5, SendKinds
<1>10. ASSUME NEW w \in workers, NEW proof \in {w.window, Nil}, WorkerAnswers(w, proof)
       PROVE  ChannelsTypeOK' /\ BridgeTypeOK'
  <2>1. [job_id |-> w.job_id, proof |-> proof] \in JobResult
    BY DEF Worker, JobResult, BridgeTypeOK
  <2>2. job_results' \in Seq(JobResult) /\ Len(job_results') <= JobCapacity
    BY SMTT(30), <1>10, <2>1, ChannelsAssumption DEF WorkerAnswers, ChannelsTypeOK
  <2> QED
    BY <1>10, <2>2 DEF WorkerAnswers, ChannelsTypeOK, DetectorChannelsTypeOK, BridgeTypeOK
<1>11. CASE WorkerPanics
  BY ZenonT(30), <1>11 DEF WorkerPanics, ChannelsTypeOK, DetectorChannelsTypeOK, BridgeTypeOK
<1> QED
  BY ZenonT(30), <1>1, <1>3, <1>4, <1>7, <1>8, <1>9, <1>10, <1>11
  DEF BridgeStep, WorkerProves, WorkerFails

LEMMA ObserverStepTypes ==
  ASSUME ChannelsTypeOK, ObserverTypeOK, ObserverStep
  PROVE  ChannelsTypeOK' /\ ObserverTypeOK'
<1>1. ASSUME NEW t, Receives(t)
      PROVE  /\ Head(events) \in Event /\ Head(events).type = t
             /\ events' \in Seq(Event) /\ Len(events') <= EventCapacity
             /\ issuing = <<>> /\ settling = Nil
  BY <1>1, ChannelsAssumption DEF Receives, Listening, ChannelsTypeOK
<1>2. CASE OnStarted
  <2>1. observed' \in Position
    BY ZenonT(30), <1>1, <1>2, EventKinds DEF OnStarted, Position, ObserverTypeOK
  <2> QED
    BY ZenonT(30), <1>1, <1>2, <2>1
    DEF OnStarted, files, ChannelsTypeOK, DetectorChannelsTypeOK, ObserverTypeOK,
        unreadByObserver
<1>3. CASE OnLoggedNotice
  BY ZenonT(30), <1>1, <1>3
  DEF OnLoggedNotice, observerVars, files, ChannelsTypeOK, DetectorChannelsTypeOK,
      ObserverTypeOK, unreadByObserver
<1>4. CASE OnFinalityTransitionDetected
  <2> DEFINE d == Head(events).inputs
  <2>1. d \in Dual
    BY <1>1, <1>4, EventKinds DEF OnFinalityTransitionDetected
  <2>2. d.current \in Window /\ d.next \in Window \cup {Nil}
    BY <2>1 DEF Dual
  <2>3. StageCommand(d.current) \in Command
    BY <2>2, CommandsMade
  <2>4. issuing' \in Seq(Command) /\ Len(issuing') <= 2
    BY <1>4, <2>3 DEF OnFinalityTransitionDetected
  <2>5. latest_current' \in Window \cup {Nil} /\ latest_next' \in Window \cup {Nil}
        /\ stage_transition_proof' \in BOOLEAN
    BY ZenonT(30), <1>4, <2>2 DEF OnFinalityTransitionDetected
  <2> QED
    BY ZenonT(30), <1>1, <1>4, <2>4, <2>5
    DEF OnFinalityTransitionDetected, files, ChannelsTypeOK, DetectorChannelsTypeOK,
        ObserverTypeOK, unreadByObserver
<1>5. CASE OnJobFailed
  <2>1. Head(events).n_job_in_buffer = 0 => StageCommand(latest_current) \in Command
    BY <1>5, CommandsMade DEF OnJobFailed, ObserverTypeOK
  <2>2. issuing' \in Seq(Command) /\ Len(issuing') <= 2
    BY SMTT(30), <1>5, <2>1 DEF OnJobFailed
  <2> QED
    BY ZenonT(30), <1>1, <1>5, <2>2
    DEF OnJobFailed, files, ChannelsTypeOK, DetectorChannelsTypeOK, ObserverTypeOK,
        unreadByObserver
<1>6. CASE OnTransitionProofSucceeded
  <2> DEFINE proof == Head(events).proof
  <2>1. proof \in Window
    BY <1>1, <1>6, EventKinds DEF OnTransitionProofSucceeded
  <2>2. saved_proofs' \in [Slot -> Window \cup {Nil}]
    BY ZenonT(30), <1>6, <2>1 DEF OnTransitionProofSucceeded, ObserverTypeOK
  <2> QED
    BY SMTT(30), <1>1, <1>6, <2>2
    DEF OnTransitionProofSucceeded, ChannelsTypeOK, DetectorChannelsTypeOK, ObserverTypeOK,
        unreadByObserver
<1>7. CASE SettleProof
  <2>1. settling \in Window /\ settling.output \in Position
    BY <1>7 DEF SettleProof, Window, ObserverTypeOK
  <2>2. Viable(settling) => StageCommand(latest_next) \in Command
    BY CommandsMade DEF Viable, ObserverTypeOK
  <2>3. AdvanceCommand(settling.output) \in Command
    BY <2>1, CommandsMade
  <2>4. issuing' \in Seq(Command) /\ Len(issuing') <= 2
    BY <1>7, <2>2, <2>3 DEF SettleProof
  <2>5. stage_transition_proof' \in BOOLEAN
    BY <1>7 DEF SettleProof
  <2> QED
    BY ZenonT(30), <1>7, <2>1, <2>4
    DEF SettleProof, ChannelsTypeOK, DetectorChannelsTypeOK, ObserverTypeOK, unreadByObserver
<1>8. CASE SendCommand
  <2>1. /\ Head(issuing) \in Command /\ issuing' \in Seq(Command) /\ Len(issuing') <= 2
        /\ commands' = Append(commands, Head(issuing)) /\ Len(commands) < CommandCapacity
    BY <1>8, Take DEF SendCommand, ObserverTypeOK
  <2>2. commands' \in Seq(Command) /\ Len(commands') = Len(commands) + 1 /\ Len(commands) \in Nat
    BY <2>1 DEF ChannelsTypeOK
  <2>3. Len(commands') <= CommandCapacity
    BY <2>1, ChannelsAssumption
  <2> QED
    BY <1>8, <2>3
    DEF SendCommand, files, ChannelsTypeOK, DetectorChannelsTypeOK, ObserverTypeOK,
        unreadByObserver
<1> QED
  BY ZenonT(30), <1>2, <1>3, <1>4, <1>5, <1>6, <1>7, <1>8 DEF ObserverStep

-----------------------------------------------------------------------------
(* A process that has just started, for the first time or again.           *)

Fresh(p) ==
  /\ ChannelsInit /\ ObserverInit /\ DetectorInit(p)
  /\ head = p /\ job_id = 0 /\ prover_jobs = << >> /\ workers = {}
  /\ sending = <<ToEvent(Started(p))>>

LEMMA FreshTypes ==
  ASSUME NEW p \in Position, Fresh(p),
         finalised \in Slot, next_slot \in Slot, restarts \in 0 .. MaxRestarts,
         saved_proofs \in [Slot -> Window \cup {Nil}], checkpoint \in Position \cup {Nil}
  PROVE  TypeOK
<1>1. p.slot \in Slot /\ [slot |-> 0, queue_cursor |-> 0] \in Position
  BY WindowsAssumption DEF Position, Slot, Cursor
<1>2. ChannelsTypeOK
  BY ChannelsAssumption
  DEF ChannelsTypeOK, DetectorChannelsTypeOK, DetectorCapacity, Fresh, ChannelsInit
<1>3. DetectorTypeOK
  <2>1. /\ finalised \in Slot /\ position \in Position /\ latest_slot \in Slot
        /\ in_flight \in BOOLEAN /\ stale \in BOOLEAN
    BY ZenonT(30), <1>1 DEF Fresh, DetectorInit
  <2>2. /\ next_expected_output \in Position \cup {Nil}
        /\ emitting \in Seq(Dual) /\ Len(emitting) <= 1
        /\ validation_jobs \in Seq(ValidationJob) /\ Len(validation_jobs) <= 1
        /\ validation_results \in Seq(Dual \cup {Nil})
        /\ Len(validation_results) <= 1
    BY DEF Fresh, DetectorInit
  <2> QED
    BY <2>1, <2>2 DEF DetectorTypeOK
<1>4. BridgeTypeOK
  <2>1. sending \in Seq(Send) /\ Len(sending) <= 2
    BY EventsMade, SendsMade DEF Fresh
  <2>2. job_id \in JobId
    BY ChannelsAssumption DEF JobId, Fresh
  <2>3. DOMAIN prover_jobs = {}
    BY DEF Fresh
  <2> QED
    BY <2>1, <2>2 DEF BridgeTypeOK, Fresh
<1>5. ObserverTypeOK
  <2>1. observed \in Position /\ stage_transition_proof \in BOOLEAN
    BY ZenonT(30), <1>1 DEF Fresh, ObserverInit
  <2>2. issuing \in Seq(Command) /\ Len(issuing) <= 2
    BY DEF Fresh, ObserverInit
  <2>3. /\ latest_current \in Window \cup {Nil} /\ latest_next \in Window \cup {Nil}
        /\ settling \in Window \cup {Nil}
    BY DEF Fresh, ObserverInit
  <2> QED
    BY ZenonT(30), <2>1, <2>2, <2>3 DEF ObserverTypeOK
<1> QED
  BY <1>2, <1>3, <1>4, <1>5 DEF TypeOK

LEMMA FreshPlaces ==
  ASSUME NEW p \in Position, Fresh(p), checkpoint \in {Nil, p}
  PROVE  /\ SerialPipeline /\ CommandOrder /\ CommandsTaken /\ JobsAnsweredOnce
         /\ ReportsLast /\ FailuresRetriable /\ PositionTravels
<1>1. /\ Reporting /\ Once(sending, TriggerSends)
  BY ZenonT(30), EventsMade, SendsMade, HasOne DEF Reporting, Fresh
<1>2. /\ ~Wanted /\ ~Ordered /\ ~Queued /\ ~Proving /\ ~Reported /\ ~Settling
  BY HasEmpty
  DEF Wanted, Ordered, Queued, Proving, Reported, Settling, Fresh, ChannelsInit, ObserverInit
<1>3. SerialPipeline
  BY SMTT(30), <1>1, <1>2, HasEmpty DEF SerialPipeline, Fresh, ChannelsInit, ObserverInit
<1>4. CommandOrder /\ CommandsTaken
  BY DEF CommandOrder, CommandsTaken, Fresh, ChannelsInit, ObserverInit
<1>5. JobsAnsweredOnce
  BY DEF JobsAnsweredOnce, ResultsMatchJobs, Fresh, ChannelsInit
<1>6. /\ DOMAIN sending = {1} /\ Len(sending) = 1 /\ sending[1].to = "event"
      /\ sending[1].message.type = "Started"
  BY DEF ToEvent, Started, Fresh
<1>7. ReportsLast
  BY <1>6 DEF ReportsLast
<1>8. FailuresRetriable
  <2>1. ~Has(sending, [to : {"event"}, message : Failures]) /\ ~Has(events, Failures)
    BY SMTT(30), <1>6 DEF Has, Failures, Fresh, ChannelsInit
  <2> QED
    BY SMTT(30), <1>2, <1>6, <2>1 DEF FailuresRetriable, Fresh, ChannelsInit, ObserverInit
<1>9. PositionTravels
  BY SMTT(30), <1>6 DEF PositionTravels, Fresh, ChannelsInit, ObserverInit, DetectorInit
<1> QED
  BY ZenonT(30), <1>3, <1>4, <1>5, <1>7, <1>8, <1>9

-----------------------------------------------------------------------------
(* The whole process.                                                      *)

(* The only job failed, so the failure is reported with an empty buffer.    *)
LEMMA FailurePlaces ==
  ASSUME TypeOK, Places, HandleProverFailure, Others
  PROVE  Places'
<1> DEFINE n == JobsLeft(Head(job_results).job_id)
           a == ToEvent(JobFailed(n))
<1>1. n = 0
  BY ZenonT(30), OnlyFailure
<1>2. a \in TriggerSends
  BY SMTT(30), <1>1, EventsMade, SendsMade
<1>3. a.to = "event" /\ a.message.n_job_in_buffer = 0
  BY <1>1 DEF ToEvent, JobFailed
<1>4. /\ sending' = <<a>> /\ DOMAIN sending' = {1} /\ Len(sending') = 1 /\ sending'[1] = a
  BY DEF HandleProverFailure
<1> HIDE DEF n, a
<1>5. Reporting' /\ Once(sending', TriggerSends)
  BY <1>2, <1>4, HasOne DEF Reporting
<1>6. ReportsLast'
  BY <1>4 DEF ReportsLast
<1>7. \A i \in DOMAIN sending' :
        /\ sending'[i].to = "event"
        /\ sending'[i].message.type = "JobFailed" => sending'[i].message.n_job_in_buffer = 0
  BY <1>3, <1>4
<1> QED
  BY ZenonT(30), <1>5, <1>6, <1>7, AnswerPlaces DEF HandleProverFailure

ObserverOthers == UNCHANGED <<finalised, detectorVars, bridgeVars, restarts>>

DetectorOthers ==
  UNCHANGED <<bridgeVars, observerVars, files, restarts, commands, events, job_results>>

(* Everything Places speaks of but the detector's own position.            *)
LEMMA DetectorFrame ==
  ASSUME Places, DetectorOthers, position' = position, advance_input' = advance_input
  PROVE  Places'
<1>1. UNCHANGED <<head, prover_jobs, workers, sending, stage_transition_proof,
                  latest_current, latest_next, settling, issuing, checkpoint, commands,
                  events, job_results>>
  BY SMTT(30) DEF DetectorOthers, bridgeVars, observerVars, files
<1>2. /\ Wanted' = Wanted /\ Ordered' = Ordered /\ Queued' = Queued /\ Proving' = Proving
      /\ Reporting' = Reporting /\ Reported' = Reported /\ Settling' = Settling
  BY ZenonT(30), <1>1 DEF Wanted, Ordered, Queued, Proving, Reporting, Reported, Settling, Has
<1>3. SerialPipeline' /\ CommandOrder' /\ CommandsTaken'
  BY ZenonT(30), <1>1, <1>2 DEF Places, SerialPipeline, CommandOrder, CommandsTaken
<1>4. JobsAnsweredOnce' /\ ReportsLast'
  BY ZenonT(30), <1>1 DEF Places, JobsAnsweredOnce, ResultsMatchJobs, ReportsLast
<1>5. FailuresRetriable'
  BY ZenonT(30), <1>1, <1>2 DEF Places, FailuresRetriable
<1>6. PositionTravels'
  BY <1>1 DEF Places, PositionTravels, Has
<1> QED
  BY ZenonT(30), <1>3, <1>4, <1>5, <1>6 DEF Places

LEMMA AdvancedPlaces ==
  ASSUME TypeOK, Places, OnAdvanced, DetectorOthers
  PROVE  Places'
<1>1. UNCHANGED <<head, prover_jobs, workers, sending, stage_transition_proof,
                  latest_current, latest_next, settling, issuing, checkpoint, commands,
                  events, job_results>>
  BY DEF DetectorOthers, bridgeVars, observerVars, files
<1>2. /\ Wanted' = Wanted /\ Ordered' = Ordered /\ Queued' = Queued /\ Proving' = Proving
      /\ Reporting' = Reporting /\ Reported' = Reported /\ Settling' = Settling
  BY ZenonT(30), <1>1 DEF Wanted, Ordered, Queued, Proving, Reporting, Reported, Settling, Has
<1>3. SerialPipeline' /\ CommandOrder' /\ CommandsTaken'
  BY ZenonT(30), <1>1, <1>2 DEF Places, SerialPipeline, CommandOrder, CommandsTaken
<1>4. JobsAnsweredOnce' /\ ReportsLast'
  BY ZenonT(30), <1>1 DEF Places, JobsAnsweredOnce, ResultsMatchJobs, ReportsLast
<1>5. FailuresRetriable'
  BY ZenonT(30), <1>1, <1>2 DEF Places, FailuresRetriable, Has
<1>6. /\ advance_input # <<>> /\ advance_input' = <<>> /\ position' = advance_input[1]
  <2>1. /\ advance_input # <<>> /\ advance_input \in Seq(Position) /\ Len(advance_input) <= 1
        /\ position' = Head(advance_input) /\ advance_input' = Tail(advance_input)
    BY DEF OnAdvanced, TypeOK, ChannelsTypeOK, DetectorChannelsTypeOK, DetectorCapacity
  <2>2. /\ Len(advance_input) \in Nat \ {0} /\ Head(advance_input) = advance_input[1]
        /\ Tail(advance_input) \in Seq(Position)
        /\ Len(Tail(advance_input)) = Len(advance_input) - 1
    BY <2>1, Take
  <2>3. Len(Tail(advance_input)) = 0
    BY SMTT(30), <2>1, <2>2
  <2> QED
    BY SMTT(30), <2>1
<1>7. PositionTravels'
  BY ZenonT(30), <1>1, <1>6 DEF Places, PositionTravels, Has
<1> QED
  BY ZenonT(30), <1>3, <1>4, <1>5, <1>7 DEF Places

FreshState ==
  /\ \E p \in Position : Fresh(p) /\ checkpoint \in {Nil, p}
  /\ finalised \in Slot /\ next_slot \in Slot /\ restarts \in 0 .. MaxRestarts
  /\ saved_proofs \in [Slot -> Window \cup {Nil}]

LEMMA FreshInv == FreshState => TypeOK /\ Places
<1> SUFFICES ASSUME FreshState PROVE TypeOK /\ Places
  OBVIOUS
<1> PICK p \in Position : Fresh(p) /\ checkpoint \in {Nil, p}
  BY DEF FreshState
<1> QED
  BY FreshTypes, FreshPlaces DEF FreshState, Places

LEMMA StartsAtPosition ==
  ASSUME finalised \in Slot, checkpoint \in Position \cup {Nil}, NEW p \in StartPositions
  PROVE  p \in Position /\ checkpoint \in {Nil, p}
<1>1. CASE checkpoint # Nil
  BY <1>1 DEF StartPositions
<1>2. CASE checkpoint = Nil
  <2>1. 0 .. finalised \subseteq Slot /\ 0 \in Cursor
    BY WindowsAssumption DEF Slot, Cursor
  <2> QED
    BY <2>1 DEF StartPositions, Position
<1> QED
  BY ZenonT(30), <1>1, <1>2

LEMMA PipelineInitInv == Init => TypeOK /\ Places
<1> SUFFICES ASSUME Init PROVE FreshState
  BY FreshInv
<1>1. finalised \in Slot /\ checkpoint \in Position \cup {Nil} /\ restarts \in 0 .. MaxRestarts
  BY WindowsAssumption, PipelineAssumption DEF Init, Slot
<1> PICK p \in StartPositions : DetectorInit(p) /\ BridgeInit(p, finalised)
  BY DEF Init
<1>2. p \in Position /\ checkpoint \in {Nil, p}
  BY ZenonT(30), <1>1, StartsAtPosition
<1>3. Fresh(p) /\ next_slot \in Slot
  BY <1>1 DEF Init, BridgeInit, Fresh
<1>4. saved_proofs \in [Slot -> Window \cup {Nil}]
  BY DEF Init
<1> QED
  BY ZenonT(30), <1>1, <1>2, <1>3, <1>4 DEF FreshState

LEMMA RestartInv == TypeOK /\ Restart => (TypeOK /\ Places)'
<1>1. TypeOK /\ Restart => FreshState'
  <2> SUFFICES ASSUME TypeOK, Restart PROVE FreshState'
    OBVIOUS
  <2> PICK p \in StartPositions :
         /\ position' = p /\ latest_slot' = p.slot
         /\ head' = p /\ sending' = <<ToEvent(Started(p))>>
    BY SMTT(30) DEF Restart
  <2>1. /\ finalised \in Slot /\ checkpoint \in Position \cup {Nil}
        /\ saved_proofs \in [Slot -> Window \cup {Nil}] /\ restarts \in 0 .. MaxRestarts
    BY DEF TypeOK, DetectorTypeOK, ObserverTypeOK
  <2>2. p \in Position /\ checkpoint \in {Nil, p}
    BY ZenonT(30), <2>1, StartsAtPosition
  <2>3. finalised' \in Slot /\ next_slot' \in Slot /\ UNCHANGED files
    BY SMTT(30), <2>1, WindowsAssumption DEF Restart, Slot
  <2>4. restarts' \in 0 .. MaxRestarts
    BY SMTT(30), <2>1, PipelineAssumption DEF Restart
  <2>5. Fresh(p)'
    BY DEF Restart, Fresh, ChannelsInit, ObserverInit, DetectorInit
  <2> QED
    BY ZenonT(30), <2>1, <2>2, <2>3, <2>4, <2>5 DEF FreshState, files
<1> QED
  BY <1>1, FreshInv, PTL

LEMMA PipelineNextInv == TypeOK /\ Places /\ [Next]_vars => (TypeOK /\ Places)'
<1> SUFFICES ASSUME TypeOK, Places, [Next]_vars PROVE TypeOK' /\ Places'
  OBVIOUS
<1>1. CASE DetectorActs
  <2>1. DetectorOthers /\ DetectorStep
    BY <1>1 DEF DetectorActs, DetectorOthers
  <2>2. DetectorTypeOK' /\ DetectorChannelsTypeOK'
    BY ZenonT(30), <2>1, DetectorStepTypes DEF TypeOK, ChannelsTypeOK
  <2>3. TypeOK'
    BY ZenonT(30), <2>1, <2>2
    DEF TypeOK, ChannelsTypeOK, BridgeTypeOK, ObserverTypeOK, DetectorOthers, bridgeVars,
        observerVars, files
  <2>4. CASE OnAdvanced
    BY ZenonT(30), <2>1, <2>3, <2>4, AdvancedPlaces
  <2>5. CASE ~OnAdvanced
    <3>1. position' = position /\ advance_input' = advance_input
      BY ZenonT(30), <2>1, <2>5
      DEF DetectorStep, OnStaged, OnValidationFailed, OnStaleResult, OnFreshResult,
          EmitFinality, OnTick, Validate, ValidateFails
    <3> QED
      BY ZenonT(30), <2>1, <2>3, <3>1, DetectorFrame
  <2> QED
    BY <2>4, <2>5
<1>2. CASE BridgeActs
  <2>1. BridgeStep /\ Others
    BY <1>2 DEF BridgeActs, Others
  <2>2. ChannelsTypeOK' /\ BridgeTypeOK'
    BY ZenonT(30), <2>1, OnlyFailure, BridgeStepTypes DEF TypeOK
  <2>3. TypeOK'
    BY ZenonT(30), <2>1, <2>2
    DEF TypeOK, DetectorTypeOK, ObserverTypeOK, Others, detectorVars, observerVars, files
  <2>4. ASSUME WorkerProves \/ WorkerFails PROVE Places'
    BY ZenonT(30), <2>1, <2>4, WorkerPlaces DEF WorkerProves, WorkerFails
  <2>5. Places'
    BY ZenonT(30), <2>1, <2>4, FinalityChangePlaces, StagePlaces, AdvancePlaces, SuccessPlaces,
       FailurePlaces, SendPlaces, PanicPlaces
    DEF BridgeStep
  <2> QED
    BY <2>3, <2>5
<1>3. CASE ObserverActs
  <2>1. ObserverStep /\ ObserverOthers
    BY <1>3 DEF ObserverActs, ObserverOthers
  <2>2. ChannelsTypeOK' /\ ObserverTypeOK'
    BY ZenonT(30), <2>1, ObserverStepTypes DEF TypeOK
  <2>3. TypeOK'
    BY ZenonT(30), <2>1, <2>2
    DEF TypeOK, DetectorTypeOK, BridgeTypeOK, ObserverOthers, detectorVars, bridgeVars
  <2>4. OthersThanObserver
    BY <2>1
    DEF OthersThanObserver, ObserverOthers, ObserverStep, OnStarted, OnLoggedNotice,
        OnFinalityTransitionDetected, OnJobFailed, OnTransitionProofSucceeded,
        SettleProof, SendCommand
  <2>5. Places'
    BY ZenonT(30), <2>1, <2>4, StartedPlaces, LoggedPlaces, FinalityPlaces, JobFailedPlaces, ProofPlaces,
       SettlePlaces, SendCommandPlaces
    DEF ObserverStep
  <2> QED
    BY <2>3, <2>5
<1>4. ASSUME ChainFinalises \/ UNCHANGED vars PROVE TypeOK' /\ Places'
  <2>1. /\ DetectorOthers /\ UNCHANGED <<detectorVars, stage_input, advance_input, finality_output>>
        /\ finalised' \in {finalised, finalised + 1} /\ finalised' \in Slot
    <3>1. finalised \in Slot
      BY ZenonT(30) DEF TypeOK, DetectorTypeOK
    <3> QED
      BY SMTT(30), <1>4, <3>1, WindowsAssumption
      DEF ChainFinalises, Finalise, vars, channels, DetectorOthers, Slot
  <2>2. TypeOK'
    BY ZenonT(30), <2>1
    DEF TypeOK, ChannelsTypeOK, DetectorChannelsTypeOK, DetectorTypeOK, BridgeTypeOK,
        ObserverTypeOK, DetectorOthers, detectorVars, bridgeVars, observerVars, files
  <2>3. Places'
    BY <2>1, DetectorFrame DEF detectorVars
  <2> QED
    BY SMTT(30), <2>2, <2>3
<1>5. CASE Restart
  BY <1>5, RestartInv
<1> QED
  BY ZenonT(30), <1>1, <1>2, <1>3, <1>4, <1>5 DEF Next

LEMMA PipelineInvariant == Spec => [](TypeOK /\ Places)
BY PipelineInitInv, PipelineNextInv, PTL DEF Spec

(* No channel overflows and every message and window is well formed,       *)
(* through restarts too.                                                   *)
THEOREM PipelineTypeCorrect == Spec => []TypeOK
BY PipelineInvariant, PTL

(* There is exactly one job, or one reason to make one, at any time.       *)
THEOREM PipelineIsSerial == Spec => []SerialPipeline
<1>1. TypeOK /\ Places => SerialPipeline
  BY ZenonT(30) DEF Places
<1> QED
  BY <1>1, PipelineInvariant, PTL

(* The lookups in prover_jobs that the handlers unwrap always succeed.     *)
THEOREM ResultsAlwaysMatchJobs == Spec => []ResultsMatchJobs
<1>1. TypeOK /\ Places => ResultsMatchJobs
  BY ZenonT(30) DEF Places, JobsAnsweredOnce
<1> QED
  BY <1>1, PipelineInvariant, PTL

(* A failed job can always be retried.                                     *)
THEOREM RetryAlwaysHasWindow == Spec => []RetryHasWindow
<1>1. TypeOK /\ Places => RetryHasWindow
  <2> SUFFICES ASSUME TypeOK, Places, NEW i \in DOMAIN events, events[i].type = "JobFailed"
               PROVE  events[i].n_job_in_buffer = 0 /\ latest_current # Nil
    BY DEF RetryHasWindow, Range
  <2>1. events[i] \in Event
    BY DEF TypeOK, ChannelsTypeOK
  <2>2. Has(events, Failures)
    BY <2>1, EventKinds DEF Has
  <2> QED
    BY ZenonT(30), <2>2 DEF Places, FailuresRetriable
<1> QED
  BY <1>1, PipelineInvariant, PTL

(* With room for two commands, as in the code, the observer's sends never  *)
(* wait.                                                                   *)
THEOREM ObserverIsNeverBlocked ==
  ASSUME CommandCapacity >= 2
  PROVE  Spec => []ObserverNeverWaits
<1>1. TypeOK /\ Places => ObserverNeverWaits
  <2> SUFFICES ASSUME TypeOK, Places PROVE Len(commands) + Len(issuing) <= 2
    BY SMTT(30), ChannelsAssumption DEF ObserverNeverWaits
  <2>1. /\ commands \in Seq(Command) /\ issuing \in Seq(Command) /\ Len(issuing) <= 2
    BY DEF TypeOK, ChannelsTypeOK, ObserverTypeOK
  <2>2. /\ Len(commands) \in Nat /\ DOMAIN commands = 1 .. Len(commands)
        /\ Len(issuing) \in Nat /\ DOMAIN issuing = 1 .. Len(issuing)
    BY ZenonT(30), <2>1, SeqShape
  <2>3. /\ \A i \in 1 .. Len(commands) : commands[i] \in StageCommands \/ commands[i] \in AdvanceCommands
        /\ \A i \in 1 .. Len(issuing) : issuing[i] \in StageCommands \/ issuing[i] \in AdvanceCommands
    BY <2>1, SeqShape DEF Command
  <2>4. CASE Len(commands) = 0
    BY <2>1, <2>4
  <2>5. CASE Len(commands) = 1
    <3>1. commands # <<>>
      BY SMTT(30), <2>5
    <3>2. Len(issuing) > 0 => Len(issuing) = 1
      BY SMTT(30), <2>2, <2>3, <3>1 DEF Places, CommandOrder
    <3> QED
      BY SMTT(30), <2>2, <2>5, <3>2
  <2>6. CASE Len(commands) >= 2
    <3>1. 2 \in 1 .. Len(commands)
      BY SMTT(30), <2>2, <2>6
    <3>2. Len(commands) = 2 /\ issuing = <<>>
      BY SMTT(30), <2>2, <2>3, <3>1 DEF Places, CommandOrder
    <3> QED
      BY <3>2
  <2> QED
    BY SMTT(30), <2>2, <2>4, <2>5, <2>6
<1> QED
  BY <1>1, PipelineInvariant, PTL

(* Event loop, detector and checkpoint agree once no advance is under way. *)
THEOREM HeadsAlwaysAgree == Spec => []HeadsAgree
<1>1. TypeOK /\ Places => HeadsAgree
  BY DEF Places, PositionTravels, HeadsAgree, AdvancePending
<1> QED
  BY <1>1, PipelineInvariant, PTL

(* While a job is lost nothing else is in the pipeline, so no handler that *)
(* stages, settles or moves the head has a message to take.                *)
LEMMA LostJobStaysLost ==
  ASSUME TypeOK, Places, JobLost, [Next]_vars, ~Restart
  PROVE  JobLost' /\ UNCHANGED <<prover_jobs, head, commands, files>>
<1>1. /\ Proving /\ workers = {} /\ job_results = <<>>
      /\ ~Wanted /\ ~Reported /\ ~Settling /\ commands = <<>> /\ issuing = <<>>
  BY ZenonT(30) DEF JobLost, Places, SerialPipeline, CommandsTaken
<1> SUFFICES UNCHANGED <<prover_jobs, workers, job_results, head, commands, files>>
  BY ZenonT(30), <1>1 DEF JobLost, Proving
<1>2. CASE UNCHANGED vars
  BY ZenonT(30), <1>2 DEF vars, bridgeVars, channels
<1>3. CASE DetectorActs \/ ChainFinalises
  BY ZenonT(30), <1>3 DEF DetectorActs, ChainFinalises, bridgeVars
<1>4. CASE BridgeActs
  <2>1. OnBeaconFinalityChange \/ SendNext
    BY ZenonT(30), <1>1, <1>4
    DEF BridgeActs, BridgeStep, StageTransitionProof, Advance, HandleProverSuccess,
        HandleProverFailure, WorkerProves, WorkerFails, WorkerPanics
  <2> QED
    BY ZenonT(30), <1>4, <2>1 DEF BridgeActs, OnBeaconFinalityChange, SendNext
<1>5. CASE ObserverActs
  <2>1. \A t \in {"Started", "JobFailed", "ProofMessage"} : ~Receives(t)
    <3> SUFFICES ASSUME NEW t \in {"Started", "JobFailed", "ProofMessage"}, Receives(t)
                 PROVE  FALSE
      OBVIOUS
    <3> QED
      BY ZenonT(30), <1>1, FirstEvent, EventKinds
  <2>2. OnLoggedNotice \/ OnFinalityTransitionDetected
    BY ZenonT(30), <1>1, <1>5, <2>1
    DEF ObserverActs, ObserverStep, OnStarted, OnJobFailed, OnTransitionProofSucceeded,
        SettleProof, SendCommand, Settling
  <2> QED
    BY ZenonT(30), <1>5, <2>2
    DEF ObserverActs, OnLoggedNotice, OnFinalityTransitionDetected, bridgeVars, unreadByObserver
<1> QED
  BY ZenonT(30), <1>2, <1>3, <1>4, <1>5 DEF Next

(* A job whose worker panicked stays until the process is started again,   *)
(* and holds head and checkpoint where they are.                           *)
THEOREM LostJobsStop == Spec => LostJobStops
<1>1. TypeOK /\ Places /\ [Next]_vars =>
        [JobLost => Restart \/ (JobLost' /\ UNCHANGED <<prover_jobs, head, commands, files>>)]_vars
  BY ZenonT(30), LostJobStaysLost
<1> QED
  BY <1>1, PipelineInvariant, PTL DEF Spec, LostJobStops

(* Nothing but a restart ends the wait of event loop and detector for each *)
(* other: a handler runs only between sends, an arm of the detector's      *)
(* select only between emissions, and both sends find a full channel that  *)
(* only the other side empties.                                            *)
LEMMA WaitCycleHolds ==
  ASSUME WaitCycle, [Next]_vars, ~Restart
  PROVE  WaitCycle' /\ UNCHANGED <<head, prover_jobs, position, latest_slot>>
<1> DEFINE Waiting == <<sending, stage_input, advance_input, emitting, finality_output,
                        head, prover_jobs, position, latest_slot>>
<1>1. ~Looping /\ ~Selecting
  BY Zenon DEF WaitCycle, Looping, Selecting
<1>2. ~(Len(finality_output) < DetectorCapacity)
  BY DEF WaitCycle, DetectorCapacity
<1>3. \/ Head(sending).to = "stage" /\ ~(Len(stage_input) < DetectorCapacity)
      \/ Head(sending).to = "advance" /\ ~(Len(advance_input) < DetectorCapacity)
  BY DEF WaitCycle, DetectorCapacity
<1> SUFFICES UNCHANGED Waiting
  BY ZenonT(30) DEF WaitCycle
<1>4. CASE UNCHANGED vars
  BY ZenonT(30), <1>4 DEF vars, bridgeVars, detectorVars, channels
<1>5. CASE DetectorActs
  <2>1. Validate \/ ValidateFails
    BY ZenonT(30), <1>1, <1>2, <1>5
    DEF DetectorActs, DetectorStep, OnStaged, OnAdvanced, OnValidationFailed, OnStaleResult,
        OnFreshResult, EmitFinality, OnTick
  <2> QED
    BY ZenonT(30), <1>5, <2>1 DEF DetectorActs, Validate, ValidateFails, bridgeVars
<1>6. CASE BridgeActs
  <2>1. ~SendNext
    BY ZenonT(30), <1>3 DEF SendNext
  <2>2. WorkerProves \/ WorkerFails \/ WorkerPanics
    BY ZenonT(30), <1>1, <1>6, <2>1
    DEF BridgeActs, BridgeStep, OnBeaconFinalityChange, StageTransitionProof, Advance,
        HandleProverSuccess, HandleProverFailure
  <2> QED
    BY ZenonT(30), <1>6, <2>2
    DEF BridgeActs, WorkerProves, WorkerFails, WorkerPanics, WorkerAnswers, detectorVars
<1>7. CASE ObserverActs
  <2>1. UNCHANGED unreadByObserver
    BY ZenonT(30), <1>7
    DEF ObserverActs, ObserverStep, OnStarted, OnLoggedNotice, OnFinalityTransitionDetected,
        OnJobFailed, OnTransitionProofSucceeded, SettleProof, SendCommand
  <2> QED
    BY ZenonT(30), <1>7, <2>1 DEF ObserverActs, unreadByObserver, bridgeVars, detectorVars
<1>8. CASE ChainFinalises
  BY ZenonT(30), <1>8 DEF ChainFinalises, Finalise, bridgeVars, detectorVars
<1> QED
  BY ZenonT(30), <1>4, <1>5, <1>6, <1>7, <1>8 DEF Next

(* Event loop and detector that wait for each other's channel never get    *)
(* out of it by themselves, for any capacities of the other channels.      *)
THEOREM WaitCyclesLast == Spec => WaitCycleLasts
<1>1. [Next]_vars =>
        [WaitCycle =>
           Restart \/ (WaitCycle' /\ UNCHANGED <<head, prover_jobs, position, latest_slot>>)]_vars
  BY ZenonT(30), WaitCycleHolds
<1> QED
  BY <1>1, PTL DEF Spec, WaitCycleLasts

=============================================================================
