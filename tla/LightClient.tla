---------------------------- MODULE LightClient ----------------------------
(***************************************************************************)
(* The consensus part of a window (rpcs/consensus/mod.rs, and consensus.rs *)
(* of the guest program): from the slot and store hash settled last, the   *)
(* store is rebuilt from what a beacon node serves, the guest checks its   *)
(* hash and applies the updates, and the output is refused when it could   *)
(* not be resumed from.  The chain moves on between the fetches.           *)
(*                                                                         *)
(* Epochs have SLOTS_PER_EPOCH slots and sync committee periods            *)
(* EPOCHS_PER_PERIOD epochs; the committee of a period is its number.      *)
(* What epoch e finalises is its first slot, or the slot before it when    *)
(* the first one was missed.                                               *)
(***************************************************************************)
EXTENDS Naturals, Sequences, FiniteSets

CONSTANTS
  SLOTS_PER_EPOCH, EPOCHS_PER_PERIOD,
  MAX_REQUEST_LIGHT_CLIENT_UPDATES,
  None,        \* no next sync committee
  MissedSets,  \* the epochs whose first slot may be missed, as a set of sets
  MaxEpoch     \* bound: the last epoch finalised

(* 32 slots and 256 epochs in the networks the bridge is run for; four     *)
(* epochs are enough for a period to finalise a slot of its own in time.   *)
ASSUME ClientAssumption ==
  /\ SLOTS_PER_EPOCH \in Nat \ {0, 1}
  /\ EPOCHS_PER_PERIOD \in Nat /\ EPOCHS_PER_PERIOD >= 4
  /\ MAX_REQUEST_LIGHT_CLIENT_UPDATES \in Nat
  /\ None \notin Nat
  /\ \A m \in MissedSets : m \subseteq Nat \ {0}
  /\ MaxEpoch \in Nat

VARIABLES
  nodes_lag,       \* the provider's answers come from nodes that may be behind
  missed,          \* the epochs whose first slot was missed
  tip,             \* the last epoch finalised
  settled,         \* slot and store hash settled last; hash NoHash before the start
  phase,           \* of the preparation
  finality_update, updates,
  output           \* of the prepared window

clientVars == <<nodes_lag, missed, tip, settled, phase, finality_update, updates, output>>

NoHash == <<>>
Nothing == [none |-> TRUE]

SlotOf(e) == IF e \in missed THEN SLOTS_PER_EPOCH * e - 1 ELSE SLOTS_PER_EPOCH * e

(* calc_sync_period.                                                       *)
Period(slot) == slot \div (SLOTS_PER_EPOCH * EPOCHS_PER_PERIOD)

-----------------------------------------------------------------------------
(* The beacon node.  A header attested in epoch a finalises epoch a - 2.   *)

FinalityDelay == 2

UpdateOf(a) ==
  [attested |-> SLOTS_PER_EPOCH * a + 1, finalized |-> SlotOf(a - FinalityDelay),
   next |-> Period(SLOTS_PER_EPOCH * a) + 1]

(* The epochs finalised by a node that answers: it has the slot it served  *)
(* the bootstrap of.                                                       *)
NodesWith(slot) == IF nodes_lag THEN {e \in 0 .. tip : SlotOf(e) >= slot} ELSE {tip}

Candidates(p, t) ==
  {UpdateOf(a) : a \in {e \in FinalityDelay .. t + FinalityDelay :
                          Period(SLOTS_PER_EPOCH * e) = p}}

(* The update of a period: preferably one that also finalises a slot of it.*)
Best(p, t) ==
  LET same == {u \in Candidates(p, t) : Period(u.finalized) = p}
  IN  IF same # {} THEN same ELSE Candidates(p, t)

FinalityUpdate(t) == [UpdateOf(t + FinalityDelay) EXCEPT !.next = None]

(* A node serves the bootstrap of epoch boundary slots.                    *)
CanBootstrap(slot) == slot % SLOTS_PER_EPOCH = 0

Bootstrap(slot) == [finalized |-> slot, current |-> Period(slot), next |-> None]

-----------------------------------------------------------------------------
(* The light client library: verify_update and apply_update, and the same  *)
(* for finality updates, which carry no next committee.                    *)

VerifyUpdate(store, u) ==
  LET period    == Period(store.finalized)
      signed_in == Period(u.attested)
  IN  /\ signed_in = period \/ (store.next # None /\ signed_in = period + 1)
      /\ u.attested > store.finalized \/ (store.next = None /\ u.next # None /\ signed_in = period)
      /\ signed_in = IF signed_in = period THEN store.current ELSE store.next

ApplyUpdate(store, u) ==
  LET newer   == u.finalized > store.finalized
      settles == store.next = None /\ u.next # None /\ Period(u.finalized) = Period(u.attested)
      rotates == store.next # None /\ Period(u.finalized) = Period(store.finalized) + 1
  IN  IF ~(newer \/ settles) THEN store
      ELSE [finalized |-> IF newer THEN u.finalized ELSE store.finalized,
            current   |-> IF rotates THEN store.next ELSE store.current,
            next      |-> IF store.next = None \/ rotates THEN u.next ELSE store.next]

(* sha256_hash_helios_store: finalized header, current committee and, if   *)
(* there is one, the next.                                                 *)
StoreHash(store) ==
  IF store.next = None THEN <<store.finalized, store.current>>
  ELSE <<store.finalized, store.current, store.next>>

-----------------------------------------------------------------------------
(* The guest.                                                              *)

(* consensus_program: the hash chain, then updates and finality update     *)
(* verified and applied in turn.  A result is the set of the one store     *)
(* returned, or empty for an error.                                        *)
ConsensusProgram(store, us, f, store_hash) ==
  LET all == Append(us, f)
      after[k \in 0 .. Len(all)] ==
        IF k = 0 THEN {st \in {store} : StoreHash(st) = store_hash}
        ELSE {ApplyUpdate(st, all[k]) : st \in {s \in after[k - 1] : VerifyUpdate(s, all[k])}}
  IN  after[Len(all)]

(* consensus_mpt_program: the same, and the output is a checkpoint slot.   *)
ConsensusMptProgram(store, us, f, store_hash) ==
  {st \in ConsensusProgram(store, us, f, store_hash) : st.finalized % SLOTS_PER_EPOCH = 0}

-----------------------------------------------------------------------------
(* The host.                                                               *)

(* get_store_with_next_sync_committee: the committee without the advance;  *)
(* a mutant keeps the advance.                                             *)
AdvancedStore(store, u) == ApplyUpdate(store, u)

StoreWithNextSyncCommittee(store, u) == [store EXCEPT !.next = ApplyUpdate(store, u).next]

(* The store and the updates prepare_consensus_proof_inputs hands to the   *)
(* guest: an update below the input slot is applied to the store, another  *)
(* only lends it its committee.  A mutant applies either.                  *)
AlwaysApplied(us) ==
  [store |-> ApplyUpdate(Bootstrap(settled.slot), us[1]), updates |-> Tail(us)]

Synced(us) ==
  IF us[1].finalized < settled.slot
    THEN [store |-> ApplyUpdate(Bootstrap(settled.slot), us[1]), updates |-> Tail(us)]
    ELSE [store |-> StoreWithNextSyncCommittee(Bootstrap(settled.slot), us[1]), updates |-> us]

(* The checks on the output of the dry run; a mutant leaves out those on  *)
(* the slot being a checkpoint's.                                          *)
ValidatedWithoutCheckpoint(store) == store.finalized > settled.slot /\ store.next # None

Validated(store) ==
  /\ store.finalized > settled.slot
  /\ store.finalized % SLOTS_PER_EPOCH = 0
  /\ store.next # None
  /\ CanBootstrap(store.finalized)

-----------------------------------------------------------------------------

ClientInit ==
  /\ nodes_lag \in BOOLEAN
  /\ missed \in MissedSets
  /\ tip \in 0 .. MaxEpoch
  /\ settled = [slot |-> 0, hash |-> NoHash]
  /\ phase = "cold"
  /\ finality_update = Nothing
  /\ updates = <<>>
  /\ output = Nothing

(* The preparation ends and what it fetched is dropped.                    *)
Discard ==
  /\ phase' = "idle"
  /\ finality_update' = Nothing
  /\ updates' = <<>>
  /\ output' = Nothing

Finalise ==
  /\ tip < MaxEpoch
  /\ tip' = tip + 1
  /\ UNCHANGED <<nodes_lag, missed, settled, phase, finality_update, updates, output>>

(* get_latest_finality_slot_and_store_hash: bootstrap from the latest      *)
(* checkpoint and complete the store with the first update of its period.  *)
ColdStart ==
  /\ phase = "cold"
  /\ \E slot \in {SlotOf(e) : e \in IF nodes_lag THEN 0 .. tip ELSE {tip}} :
       /\ CanBootstrap(slot)
       /\ \E t \in NodesWith(slot) : \E u \in Best(Period(slot), t) :
            /\ VerifyUpdate(Bootstrap(slot), u)
            /\ settled' = [slot |-> slot,
                           hash |-> StoreHash(StoreWithNextSyncCommittee(Bootstrap(slot), u))]
  /\ phase' = "idle"
  /\ UNCHANGED <<nodes_lag, missed, tip, finality_update, updates, output>>

(* prepare_consensus_proof_inputs: bootstrap and finality update first ... *)
FetchFinality ==
  /\ phase = "idle"
  /\ CanBootstrap(settled.slot)
  /\ \E t \in NodesWith(settled.slot) : finality_update' = FinalityUpdate(t)
  /\ phase' = "fetching"
  /\ UNCHANGED <<nodes_lag, missed, tip, settled, updates, output>>

(* ... then the updates from the input slot's period on, of a chain that   *)
(* may have moved.  Only the first MAX_REQUEST_LIGHT_CLIENT_UPDATES        *)
(* periods are served; a mutant is served one more.                        *)
OneUpdateMore(p, t) ==
  LET last  == Period(SLOTS_PER_EPOCH * (t + FinalityDelay))
      count == IF last - p <= MAX_REQUEST_LIGHT_CLIENT_UPDATES
                 THEN last + 1 - p ELSE MAX_REQUEST_LIGHT_CLIENT_UPDATES + 1
      served[k \in 0 .. count] ==
        IF k = 0 THEN {<<>>}
        ELSE {Append(more[1], more[2]) : more \in served[k - 1] \X Best(p + k - 1, t)}
  IN  served[count]

UpdatesFrom(p, t) ==
  LET last  == Period(SLOTS_PER_EPOCH * (t + FinalityDelay))
      count == IF last + 1 - p <= MAX_REQUEST_LIGHT_CLIENT_UPDATES
                 THEN last + 1 - p ELSE MAX_REQUEST_LIGHT_CLIENT_UPDATES
      served[k \in 0 .. count] ==
        IF k = 0 THEN {<<>>}
        ELSE {Append(more[1], more[2]) : more \in served[k - 1] \X Best(p + k - 1, t)}
  IN  served[count]

FetchUpdates ==
  /\ phase = "fetching"
  /\ \E t \in NodesWith(settled.slot) :
       updates' \in UpdatesFrom(Period(settled.slot), t) \ {<<>>}
  /\ phase' = "checking"
  /\ UNCHANGED <<nodes_lag, missed, tip, settled, finality_update, output>>

(* The dry run and the checks of its output; when they fail the            *)
(* preparation is tried again later.                                       *)
Check ==
  LET input    == Synced(updates)
      prepared == {st \in ConsensusProgram(input.store, input.updates, finality_update, settled.hash) :
                     Validated(st) /\ VerifyUpdate(Bootstrap(settled.slot), updates[1])}
  IN  /\ phase = "checking"
      /\ \/ \E st \in prepared :
               phase' = "prepared" /\ output' = st /\ UNCHANGED <<updates, finality_update>>
         \/ prepared = {} /\ Discard
      /\ UNCHANGED <<nodes_lag, missed, tip, settled>>

(* The window proved: the guest run on the same input moves the head.      *)
GuestResult ==
  LET input == Synced(updates)
  IN  ConsensusMptProgram(input.store, input.updates, finality_update, settled.hash)

Settle ==
  /\ phase = "prepared"
  /\ \E st \in GuestResult : settled' = [slot |-> st.finalized, hash |-> StoreHash(st)]
  /\ Discard
  /\ UNCHANGED <<nodes_lag, missed, tip>>

(* The job failed, or the process was restarted from its checkpoint.       *)
Dropped ==
  /\ phase \in {"fetching", "checking", "prepared"}
  /\ Discard
  /\ UNCHANGED <<nodes_lag, missed, tip, settled>>

ClientNext ==
  \/ Finalise
  \/ ColdStart
  \/ FetchFinality
  \/ FetchUpdates
  \/ Check
  \/ Settle
  \/ Dropped

(* Epochs are finalised, a preparation runs to its end, and proving a      *)
(* prepared window succeeds in the end.  Nothing is assumed of a provider  *)
(* whose nodes lag.                                                        *)
Timely(A) == ~nodes_lag /\ A

ClientFairness ==
  /\ WF_clientVars(Timely(Finalise))
  /\ SF_clientVars(Timely(ColdStart))
  /\ WF_clientVars(Timely(FetchFinality))
  /\ SF_clientVars(Timely(FetchUpdates))
  /\ SF_clientVars(Timely(Check))
  /\ SF_clientVars(Timely(Settle))

ClientSpec == ClientInit /\ [][ClientNext]_clientVars /\ ClientFairness

-----------------------------------------------------------------------------

FinalisedSlots == {SlotOf(e) : e \in 0 .. tip}

ClientTypeOK ==
  /\ nodes_lag \in BOOLEAN
  /\ missed \in MissedSets /\ tip \in 0 .. MaxEpoch
  /\ settled.slot \in FinalisedSlots
  /\ phase \in {"cold", "idle", "fetching", "checking", "prepared"}
  /\ (phase \in {"checking", "prepared"}) <=> (updates # <<>>)
  /\ IF phase = "prepared"
       THEN output \in [finalized : Nat, current : Nat, next : Nat]
       ELSE output = Nothing

(* The settled head can be resumed from: a node serves its bootstrap, and  *)
(* the hash settled is the one of the store that is rebuilt for its slot,  *)
(* with the committees of its period and the next.  Otherwise every later  *)
(* window would break the hash chain, restarted or not.                    *)
HeadResumable ==
  phase # "cold" =>
    /\ CanBootstrap(settled.slot)
    /\ settled.hash = <<settled.slot, Period(settled.slot), Period(settled.slot) + 1>>

(* What the host's dry run and checks let through, the guest accepts, run  *)
(* again on the same input when the chain has moved on: no job is spent on *)
(* a window that consensus_mpt_program refuses or that does not move the   *)
(* head forward.                                                           *)
GuestAcceptsPrepared ==
  phase = "prepared" => \E st \in GuestResult : st.finalized > settled.slot

(* The updates of one request end this far behind a finality update: the   *)
(* store they lead to cannot verify it.                                    *)
OutOfReach(f) ==
  Period(f.attested) > Period(settled.slot) + MAX_REQUEST_LIGHT_CLIENT_UPDATES

(* Whatever slots are missed on the way, a head that was not left so many  *)
(* periods behind that one request no longer bridges them reaches the last *)
(* finalised slot, unless the provider goes on answering from nodes that   *)
(* are behind.                                                             *)
CatchesUp ==
  ~nodes_lag =>
    <>[](settled.slot = SlotOf(MaxEpoch) \/ (phase # "cold" /\ OutOfReach(FinalityUpdate(tip))))

(* The head was left behind, and no window is under way that was begun     *)
(* while it was still within reach.                                        *)
Stranded ==
  /\ ~nodes_lag
  /\ phase \in {"idle", "fetching", "checking"}
  /\ OutOfReach(FinalityUpdate(tip))
  /\ phase # "idle" => OutOfReach(finality_update)

(* prepare_consensus_proof_inputs takes the latest finality update only    *)
(* and asks for updates once: a head left out of reach stays where it is,  *)
(* every later preparation is refused, however long the chain goes on.     *)
StrandedForGood == [][Stranded => Stranded' /\ UNCHANGED settled]_clientVars

=============================================================================
