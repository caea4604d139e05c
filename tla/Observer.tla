------------------------------ MODULE Observer ------------------------------
(***************************************************************************)
(* The example event observer (observer.rs) with the files it writes: the  *)
(* saved proofs (utils.rs) and the checkpoint (checkpoint.rs).             *)
(*                                                                         *)
(* An action handles one event.  The commands a handler sends are left, in *)
(* order, in `issuing` and sent by SendCommand; the next event is taken    *)
(* once they are gone.  The proof handler saves the proof first and        *)
(* settles it in a second action, so that the process can end in between.  *)
(***************************************************************************)
EXTENDS Channels

VARIABLES
  observed,                \* current_slot, store_hash, queue_cursor
  stage_transition_proof,  \* stage a job at the next finality change
  latest_current,          \* latest_current_window_validated_proof_input
  latest_next,             \* latest_next_window_validated_proof_input
  settling,                \* the proof whose handler is half way, or None
  issuing,                 \* commands the current handler has left to send
  saved_proofs,            \* files: input slot -> the proof saved under it
  checkpoint               \* file: the position saved last, or None

observerVars == <<observed, stage_transition_proof, latest_current,
                  latest_next, settling, issuing>>
files == <<saved_proofs, checkpoint>>

ObserverTypeOK ==
  /\ observed \in Position
  /\ stage_transition_proof \in BOOLEAN
  /\ latest_current \in Window \cup {Nil}
  /\ latest_next \in Window \cup {Nil}
  /\ settling \in Window \cup {Nil}
  /\ issuing \in Seq(Command) /\ Len(issuing) <= 2
  /\ saved_proofs \in [Slot -> Window \cup {Nil}]
  /\ checkpoint \in Position \cup {Nil}

ObserverInit ==
  /\ observed = [slot |-> 0, queue_cursor |-> 0]
  /\ stage_transition_proof = FALSE
  /\ latest_current = Nil
  /\ latest_next = Nil
  /\ settling = Nil
  /\ issuing = <<>>

Listening == issuing = <<>> /\ settling = Nil

(* The next event is of this type and the handler takes it.                *)
Receives(type) ==
  /\ Listening
  /\ events # <<>>
  /\ Head(events).type = type
  /\ events' = Tail(events)

unreadByObserver == <<job_results, stage_input, advance_input, finality_output>>

(* Started: the cursor of the notice is not copied.                        *)
OnStarted ==
  /\ Receives("Started")
  /\ observed' = [observed EXCEPT !.slot = Head(events).position.slot]
  /\ stage_transition_proof' = TRUE
  /\ UNCHANGED <<latest_current, latest_next, settling, issuing, commands,
                 files, unreadByObserver>>

(* Notices that are only logged.                                           *)
OnLoggedNotice ==
  /\ \E type \in {"JobCreated", "JobSucceeded", "HeadAdvanced"} : Receives(type)
  /\ UNCHANGED <<observerVars, commands, files, unreadByObserver>>

(* A finality change with the flag left set.                               *)
OnFinalityKeepingFlag ==
  /\ Receives("FinalityTransitionDetected")
  /\ LET d == Head(events).inputs IN
       /\ latest_current' = d.current
       /\ latest_next' = d.next
       /\ issuing' = IF stage_transition_proof
                     THEN <<StageCommand(d.current)>> ELSE <<>>
  /\ UNCHANGED <<observed, stage_transition_proof, settling, commands, files,
                 unreadByObserver>>

(* Remember the windows, and stage the current one if a job is wanted.     *)
OnFinalityTransitionDetected ==
  /\ Receives("FinalityTransitionDetected")
  /\ LET d == Head(events).inputs IN
       /\ latest_current' = d.current
       /\ latest_next' = d.next
       /\ issuing' = IF stage_transition_proof
                     THEN <<StageCommand(d.current)>> ELSE <<>>
  /\ stage_transition_proof' = FALSE
  /\ UNCHANGED <<observed, settling, commands, files, unreadByObserver>>

(* Retry with the latest current window unless another job is running.     *)
(* Without a window the code ends the process (see RetryHasWindow).        *)
OnJobFailed ==
  /\ Receives("JobFailed")
  /\ Head(events).n_job_in_buffer = 0 => latest_current # Nil
  /\ issuing' = IF Head(events).n_job_in_buffer = 0
                THEN <<StageCommand(latest_current)>> ELSE <<>>
  /\ UNCHANGED <<observed, stage_transition_proof, latest_current, latest_next,
                 settling, commands, files, unreadByObserver>>

(* The proof and its message are saved in files named by the input slot.   *)
OnTransitionProofSucceeded ==
  /\ Receives("ProofMessage")
  /\ LET proof == Head(events).proof IN
       /\ saved_proofs' = [saved_proofs EXCEPT ![proof.input.slot] = proof]
       /\ settling' = proof
  /\ UNCHANGED <<observed, stage_transition_proof, latest_current, latest_next,
                 issuing, commands, checkpoint, unreadByObserver>>

(* The next window is contiguous with the proof that just settled.         *)
AnyNextIsViable(proof) == latest_next # Nil
Viable(proof) == latest_next # Nil /\ latest_next.input.slot = proof.output.slot

(* The proof handler telling the bridge head of its new position twice.    *)
SettleProofTwice ==
  /\ settling # Nil
  /\ observed' = settling.output
  /\ checkpoint' = settling.output
  /\ issuing' = <<AdvanceCommand(settling.output), AdvanceCommand(settling.output)>>
                 \o (IF Viable(settling) THEN <<StageCommand(latest_next)>> ELSE <<>>)
  /\ stage_transition_proof' = (stage_transition_proof \/ ~Viable(settling))
  /\ settling' = Nil
  /\ UNCHANGED <<latest_current, latest_next, commands, events, saved_proofs,
                 unreadByObserver>>

(* The rest of the proof handler: advance (which saves the checkpoint),    *)
(* then stage the next window if it is contiguous, else ask for a job at   *)
(* the next finality change.                                               *)
SettleProof ==
  /\ settling # Nil
  /\ observed' = settling.output
  /\ checkpoint' = settling.output
  /\ issuing' = IF Viable(settling)
                THEN <<AdvanceCommand(settling.output), StageCommand(latest_next)>>
                ELSE <<AdvanceCommand(settling.output)>>
  /\ stage_transition_proof' = (stage_transition_proof \/ ~Viable(settling))
  /\ settling' = Nil
  /\ UNCHANGED <<latest_current, latest_next, commands, events, saved_proofs,
                 unreadByObserver>>

SendCommand ==
  /\ issuing # <<>>
  /\ Len(commands) < CommandCapacity
  /\ commands' = Append(commands, Head(issuing))
  /\ issuing' = Tail(issuing)
  /\ UNCHANGED <<observed, stage_transition_proof, latest_current, latest_next,
                 settling, events, files, unreadByObserver>>

ObserverStep ==
  \/ OnStarted \/ OnLoggedNotice \/ OnFinalityTransitionDetected
  \/ OnJobFailed \/ OnTransitionProofSucceeded \/ SettleProof \/ SendCommand

=============================================================================
