# Verification of the Nori bridge head

TLA+ models of the Nori bridge head (`src/`), the TLC runs that check them and
the TLAPS proofs about them. `PROJECT.json` lists components, runs, mutants,
the map from definitions to source lines, findings, hazards and theorems.

## The system

The bridge head follows Ethereum finality. For each newly finalised beacon
checkpoint it prepares the inputs of a light client transition, has an SP1
prover prove it, hands the proof to its user and moves its head. With every
transition it drains a batch of an on-chain proof request queue, so the head is
a pair of slot and queue cursor.

One process runs these tokio tasks, joined by bounded mpsc channels:

| part | state | operations | talks to |
|---|---|---|---|
| observer (`observer.rs`) | head, "stage a job at the next finality change" flag, latest current and next window, files | one handler per event, retry, settle | event loop: `Advance`, `StageTransitionProof` (capacity 2) |
| event loop (`api.rs`) | head, next slot, job counter, running jobs | three select arms: finality change, command, prover result | observer: events (16); detector: stage, advance (1 each); spawns workers |
| prover worker (`sp1_prover.rs`) | none | proves, fails or panics, once | event loop: results (2) |
| finality change detector (`finality_change_detector.rs`) | position, last accepted output, in-flight and stale flags, expected output of the staged job | four select arms: staged, advanced, validation result, tick | event loop: dual windows (1); validation actor (1 each way) |
| validation actor (same file) | none | prepares one or two windows through the providers | detector |
| main, checkpoint (`nori_bridge_head.rs`, `checkpoint.rs`) | checkpoint file | warm or cold start, save | |

What these tasks call: provider fallback and multiplexing (`rpcs/mod.rs`), light
client input preparation (`rpcs/consensus`), queue witness assembly
(`rpcs/execution/http.rs`), the guest program (`nori-program`), the Merkle tree
of requests (`nori-hash`), the layout of the public values (`nori-primitives`) and
the prover configuration. Each has a module of its own; the pipeline's module
`Windows` has only what the actors see of them, a window or an error.

What makes it hard:

* A handler awaits sends inside a select arm, so a full channel stops the whole
  loop. There are two cycles of channels, event loop with observer and event
  loop with detector.
* Windows are computed ahead of time. When one is used, the head, the staged job
  or the cursor may have moved; slots are compared, cursors never.
* A job may be started by the start, by a finality change, by a failure, by a
  settled proof.
* Providers lag behind each other, fail, and answer out of order.
* The process may end between any two writes; only two kinds of file survive.
* A light client store is never saved. It is rebuilt for every window from what a
  beacon node serves, and must hash to the value the previous proof committed.
* The parts of a queue witness are fetched one by one from a moving chain.
* Trees are folded in place, with precomputed hashes for the padding.

## Modules

| module | models |
|---|---|
| `Windows` | positions, windows, batches, and the windows the preparation can answer |
| `Channels` | channels, capacities, messages |
| `Detector` | the detector, one action per select arm, and the validation actor |
| `DetectorEnv` | the detector closed with an arbitrary bridge head |
| `BridgeHead` | the event loop, one action per handler, and the workers |
| `Observer` | the observer, one action per event, with its files |
| `Pipeline` | all actors composed, restarts, properties, refinement mapping, fairness |
| `ProofPipeline` | the abstract specification: one job from wanted to settled |
| `Lifecycle` | the process around the pipeline: tasks that die, channels that close, the checkpoint written in place, starts |
| `Rpc` | one question to a principal and its backups, under timeouts, with chunks and retries |
| `LightClient` | the consensus half of a window: beacon node, store, dry run, guest |
| `QueueWitness` | the queue half of a window: chain, provider, host assembly, guest verification |
| `Merkle` | the tree over the verified requests, loop step by loop step |
| `ProverConfig` | the prover's settings, the whitelist of a job, the request sent |
| `Encodings` | public values, leaf packing, notices |
| `BridgeProofs` | proofs about the detector, and the lemmas on the event loop's actions |
| `PipelineProofs` | the lemmas on the observer's actions, and the proofs about the pipeline |
| `RefinementProofs` | the proof that `Pipeline` implements `ProofPipeline` |
| `ResumeProofs` | proofs about `Lifecycle` and `LightClient` |
| `ExecutionProofs` | proofs about `Rpc` and `QueueWitness` |
| `MerkleProofs` | proofs about `Merkle` |
| `BoundaryProofs` | proofs about `Encodings` and `ProverConfig` |
| `Induction` | induction over the naturals and the existence of recursive functions, in a form the provers can use |
| `MCDetector`, `MCPipeline` | instances for TLC of detector and pipeline |
| `MCResume` | instance of `Lifecycle` and `LightClient` |
| `MCExecution` | instance of `Rpc` and `QueueWitness` |
| `MCComputations` | instance of `Merkle`, `Encodings` and `ProverConfig` |

### Correspondence

Variables carry the code's names. `head`, `position` and `observed` each stand
for the triple slot, store hash, queue cursor of one actor; a store hash is
determined by its slot and is not separate. Slots count checkpoints: the
preparation refuses output slots that are not multiples of 32.

A handler's local changes happen in one action when the message is taken. Its
sends wait, in the code's order, in `sending` (event loop), `issuing` (observer)
or `emitting` (detector), and leave one by one when there is room; the loop takes
the next message when the outbox is empty. This is exact: no other task reads an
actor's local state, so only the moments of its sends are visible. The proof
handler's two writes, proof file and checkpoint, are separate actions because a
process end between them is visible.

Windows keep input and output position. The preparation is the set `Prepared`:
any checkpoint beyond the input that is at most the newest finalised one, since
providers lag, with a batch of at most `MaxBatch` entries up to the queue head at
that checkpoint. An attempt may fail at any time. A prover answer is the window
staged for its job or an error. The spawned task may also panic
(`WorkerPanics`): its handle is dropped, so no answer is sent, and the job stays
in `prover_jobs` (`JobLost`).

A process end discards everything but the files. It stands for a kill, and for
every path on which the code ends the process: `panic_more`, and an event loop
that breaks, which drops the event channel and makes the observer end the
process. `Lifecycle` takes these paths apart.

The other modules:

* `Lifecycle`. `alive` is the set of tasks; a task whose channel has lost its other
  end leaves its loop (`LoopCutOff`, `DetectorCutOff`). A position is a number,
  the count of settled transitions. `OpenCheckpoint` truncates the file and
  `WriteCheckpoint` fills it. `told` is what an `Advance` has announced.
* `Rpc`. One state per provider's future. Back-off and timeouts count ticks; the
  timer of a step that is due fires before the next tick. An answer may come at
  any moment before the timeout, or never. The calls of a future are the read of
  the queue head, which is not retried, the proof of the queue and one proof per
  target, whose chunks are (`call`, `step`), then the dry run. Besides a request
  given up on (`err`) a future ends with an answer it does not accept or a failed
  dry run (`refused`) and with the timeout (`timeout`).
* `LightClient`. A store is its finalised slot with the current and the next
  committee, a committee is its period's number, and the store hash is the tuple
  of what is hashed. `VerifyUpdate` and `ApplyUpdate` are the library's rules on
  slots and periods (external); signatures are valid exactly when made by the
  committee of the period. `FetchFinality` and `FetchUpdates` are two steps, as
  the code awaits them one after the other. With `nodes_lag` they may be answered
  by nodes of different heights, which `CHANGELOG.md` reports of load balanced
  providers; a bootstrap exists only for epoch boundaries.
* `QueueWitness`. A root is the state it commits to, so that a proof names the
  root and the key it was made for, and verification (external) compares. Every
  request of the host, the two chunks of a proof included, may be answered from
  any block, and with proofs cut short of their keys (`QueueCuts`, `TargetCuts`):
  by the remark at the import of the trie library (`mpt.rs:8-18`) the library
  takes such a proof for one of absence, and `VerifyProof` does the same. Only a
  whole proof pins its value. `honest` records whether all answers were whole and
  from the window's block.
* `Merkle`. Hash, zero hashes and leaf vectors are constants. The vector of nodes
  is overwritten as in the code; `call` selects fold, path or tree.
* `ProverConfig`. A variable of the environment is missing, invalid or one of its
  choices. The whitelist is an ordered list, extended by up to two fetches.
* `Encodings`. Byte strings are functions. Each step encodes, damages or decodes.
  The offsets that `to_bytes` writes and those that `from_bytes` reads are two
  lists, as they are in the code.

## Runs

| run | shows |
|---|---|
| `deep` | four checkpoints, event channel of one: serial pipeline, answers match jobs, the observer never waits, failures can be retried, a wait cycle lasts |
| `restart` | one process end at any step, a burst of three requests with batches of two: types, agreement of heads and checkpoint, refinement of `ProofPipeline`, and what happens after a prover task panicked |
| `catch_up` | liveness: the head comes to rest at the last checkpoint |
| `detector` | the detector against any bridge head: types, one validation at a time, fresh emissions |
| `resume` | `Lifecycle`: no start behind what is settled, deaths of tasks spread to the observer and from it. `LightClient`: the head can be resumed from, the guest accepts what the host prepared, the head reaches the last finalised slot unless it was left further behind than one request for updates bridges, and then it never moves again |
| `execution` | `Rpc`: a failure means all failed, answers are whole, retries are per request, no caller waits too long, every question ends although no provider need answer. `QueueWitness`: one leaf per request, in order and once, and where its proofs are whole of the request and with the value of the output block; honest answers are never refused; the host predicts the cursor |
| `computations` | `Merkle`: roots, paths, and that roots tell leaf vectors apart. `Encodings`: read back as written or refused. `ProverConfig`: open list only on request, extensions only extend |
| `wait_cycle`, `reprove`, `retry_window`, `contiguous`, `stale_flag` | violations, see below |

Bounds. Three checkpoints (0 to 2) let one job run while another finality change
arrives and a further one follows its settlement; four are needed for the wait
cycle and for a retry over a window behind the head. Event channel capacity 1 or
2 instead of 16 only makes waiting more frequent; command and result capacities
are the code's. Job ids wrap at 2 or 3 instead of 2^64. The queue is empty where
cursors do not matter, a burst larger than a batch where they do. One process
end is enough for a restart to meet every intermediate state of its predecessor.

`deep` uses a view (`Moving` in `MCPipeline`) that leaves out the files, the
restart counter and `next_slot`: without restarts no action's guard reads them,
and no property of the run depends on them (`WaitCycleLasts` names `Restart`,
which is never enabled there).

The last three runs each check several modules that share no state. In every
behaviour one of them runs and the others are in a state in which they have
nothing to do: a question that has been answered, a chain that has ended, a
bridge that is down for good. The runs' state spaces are the sums of their parts.
The `MC` module extends the modules it instantiates and checks their properties
as they are (`ClientCatchesUp` is `LightClient`'s `CatchesUp` for the behaviours in
which it runs), and the type invariants of a run's modules as one. The proofs of
those take the modules' specifications together, so that all of them run.

* `Lifecycle`: three settled positions, four starts.
* `LightClient`: epochs of 2 slots, periods of 4 epochs, 11 epochs, updates for
  at most 2 periods a request (the code asks for 128): the bridge may start in one
  period, find itself two behind and catch up, or three and be stranded. The first slots of a period's first and last epoch may be missed, and
  providers lag or do not.
* `Rpc`: a principal and two backups; an empty batch, of which only the head is
  proved, or three keys of the queue and one of a target, in chunks of one (limit
  zero) or two, the same for both backups; one retry instead of the code's three,
  with a back-off of 1 tick against a timeout of 2. A provider can exhaust its
  retries on one chunk, and be cut off in those of a later one or of a later
  proof.
* `QueueWitness`: four blocks, batches of two, requests of a later created and an
  absent target, repeated ones, a slot filled and emptied. Three requests exceed
  a batch. Proofs may be cut for the head, for the target or the key of the first
  request, for the account or the slot of a target.
* `Merkle`: all vectors of up to four leaves over two values, patterned ones of
  five to nine, so that odd counts occur on every level of a tree of depth four;
  every index.
* `Encodings`: every pair of fields varied, numbers beyond one and two bytes;
  every byte of a request varied alone; a byte too few or too many.
* `ProverConfig`: 453 environments, repeated jobs.

Deadlock is checked where the system goes on for ever (`restart`, `detector`,
`catch_up`). `deep` ends with its last checkpoint; a question, a tree, a
conversion and a refused configuration have an end; `QueueWitness` ends with the
last block and `Lifecycle` with the last start or with a torn checkpoint.

Fairness in `catch_up`. The runtime runs every task that can run, a select loop
serves each arm that stays ready (tokio picks among ready arms at random), timers
tick: weak fairness of each arm. Provider and prover may fail any number of times
but not for ever: strong fairness of a successful proof and of an answer with the
newest checkpoint. The model would otherwise have a provider that always lags.

Fairness elsewhere. `Lifecycle`: a task whose channel has closed notices it, and
the handler of a proof goes on; no panic is assumed. (Event loop and detector are
taken not to be in the wait cycle below, in which neither would notice.) `Rpc`:
timers only. `LightClient`: epochs are finalised, and a preparation that is
retried for ever, and a prepared job, succeed in the end. This is assumed, and
`CatchesUp` stated, only where providers answer from the newest state; nothing is
assumed of providers that lag, for they may lag for ever.

## What the code does not keep

* `wait_cycle`: event loop and detector block each other for ever. The event
  loop sends to the detector with the one-place channel full, the detector sends
  to the event loop with its one-place channel full, and neither reads.
* `reprove`: a finality event computed before an advance is staged after it, so
  the same input slot is proved twice and the first proof's file is overwritten.
* `retry_window`: a failed next-window job is retried over a window that starts
  behind the head.
* `contiguous`: after such a retry the slot settled may be the expected one with
  another cursor. The next window is staged on its slot alone.
* `stale_flag`: the stale flag outlives a failed validation and condemns the
  next one, which costs one more round of preparation.

Seven further behaviours are in the models without a violation of their own:

* A prover task that panics leaves the bridge head alive and idle: the detector
  goes on preparing windows, the event loop goes on announcing them, and no job is
  started until the process is (`LostJobStops`). No document says how the bridge
  should recover.
* When a file write of the observer fails its task panics without `panic_more`.
  All other tasks end (`ObserverDeathEndsTasks`) and `main` goes on waiting for
  ctrl-c, where the comment on `panic_more` (`utils.rs:10`) speaks of avoiding
  "a zombie state where actors are dead but main process continues".
* A mainnet configuration without an explicit strategy is an auction with the
  default timeout, whatever `SP1_AUCTION_TIMEOUT_SECS` holds (`Fulfillment`,
  `sp1_prover_config.rs:383-385`), where `src/README.md:75-76` makes the auction the
  default strategy and says that the timeout is used with it.
* A head that is more sync committee periods behind than one request for updates
  returns stays where it is: the preparation takes the latest finality update
  only and asks once (`StrandedForGood`). With 128 updates a request that is about
  five months on mainnet.
* A proof cut short is accepted for absence. The code says so itself
  (`mpt.rs:8-18`, `222-224`, `256-259`), so it is not a finding, but the claims made
  of settled leaves are restricted to whole proofs, while the comment on
  `verify_storage_word` (`mpt.rs:211-212`) says that the claim is "pinned either
  way".
* A cold start begins at cursor zero. In the models a start is cold only while
  no checkpoint has been written; what the destination chain may have settled by
  then is not in the repository.
* A torn checkpoint file is refused by every later start until it is removed by
  hand; removing it makes the next start a cold one. The model ends there. Nothing
  in the repository promises otherwise.

Because of `retry_window` and `reprove` the head is not monotone, and no such
property is claimed. `CatchesUp` exempts a job that was lost with its prover task,
for which nothing but a restart helps, and the wait cycle; the second exemption
is not used on its instance, as the cycle needs a fourth checkpoint.

## Proofs

For every number of checkpoints, every append-only queue, every batch size and
every channel capacity of at least one. Assumptions: `WindowsAssumption`,
`NilAssumption`, `ChannelsAssumption`, `PipelineAssumption`.

`BridgeProofs`, over `DetectorEnvSpec`:

* `DetectorTypeCorrect`, `OneValidationAlways`, `EmissionIsFresh`. The invariant
  adds `OutstandingIsCurrent`: unless marked stale, what is outstanding was asked
  from the present position for the job staged last. Every update either finds
  nothing outstanding or sets the flag; every validation starts from the present
  state. That is why a comparison of slots is enough for the cursors.

`PipelineProofs`, over `Spec`, restarts included:

* `PipelineTypeCorrect`, `PipelineIsSerial`, `ResultsAlwaysMatchJobs`,
  `RetryAlwaysHasWindow`, `HeadsAlwaysAgree`, and `ObserverIsNeverBlocked` for a
  command channel of at least two. The last has no counterpart at capacity one:
  the observer sends an advance and a stage command in one handler.
* The inductive invariant is `PipelineInv`: `SerialPipeline` says that the
  trigger of the next job is in exactly one of seven places. To move it from one
  place to the next the proof must know that the others stay empty, which takes
  the order of commands (`CommandOrder`), that all commands have been taken while
  a job runs or is reported (`CommandsTaken`), one worker or answer per job
  (`JobsAnsweredOnce`), that a report is its handler's last send (`ReportsLast`),
  what failures carry (`FailuresRetriable`), and how the position travels
  (`PositionTravels`). It was checked with TLC on the instances of `deep` and
  `restart` before it was proved.

* `LostJobsStop`, an action property: once the task of the running job has
  panicked (`JobLost`), every step but a restart leaves the job, the head, the
  commands and the files as they are and the job lost. It follows from
  `PipelineInv`: while a job is in `prover_jobs` the trigger of the next one is in
  no other place, so no handler that stages, retries or settles is enabled, and
  with neither a worker nor an answer no report can arise.

* `WaitCyclesLast`, an action property: event loop and detector that wait for
  each other (`WaitCycle`) do so until a restart, with the head, the jobs and the
  detector's position as they are, whatever the observer, workers, validation
  actor and chain still do. It needs no invariant: a handler runs only when
  `sending` is empty, an arm of the detector's select only when `emitting` is,
  and each of the two full channels is emptied only by the other side. So what
  the run `wait_cycle` reaches is a deadlock and not a delay.

`RefinementProofs`, over `Spec`, restarts included:

* `PipelineImplementsPromise`: the composed actors implement `ProofPipeline`
  (`ImplementsPromise`). The mapping reads the job's phase and window off the
  channels; `JobMapped` shows from `SerialPipeline` that the places it looks at
  exclude one another, so that it is well defined. Then each action has its
  lemma: `OnStarted` is `Begin`, a finality change with the flag set `Stage`,
  `StageTransitionProof` is `Prove`, the prover's answers are `Report` and `Fail`,
  `OnJobFailed` is `Retry`, `SettleProof` is `Settle`, `Restart` is
  `ProcessRestart`; every other step only hands the job on from one place to the
  next and stutters (`StaysPut`).
* That a job is only ever given a window the preparation answered takes one more
  invariant, `WindowsKnown`: the windows in the detector, in its channel, in the
  event loop's sends, in the events and in the observer's memory are all prepared
  ones. It was checked with TLC on the instance of `restart` before it was proved.

`MerkleProofs`, over `Merkle!Spec`, for every hash function, zero leaf, depth and
set of leaf vectors (`MerkleAssumption`: widths double, `Zeros` and `Reference`
are what their definitions say):

* `LoopsFollowTree` is the inductive invariant: at level l the first i nodes are
  those of level l - 1 of the fully hashed tree, those from 2i on still those of
  level l, and from `n_non_dummy_nodes` on the level consists of zero hashes. The
  last part is why looking a parent up is right; that only nodes below 2i have
  been written over is why folding in place is.
* `RootsAreReference` and `PathsLeadToRoot` follow; for the second the invariant
  adds that each sibling taken is the node at `position ^ 1` of its level and that
  the hash so far is the node at `position`.

* `RootsBindLeaves`: the root of one leaf vector is the root of no other, of any
  length. It has a hypothesis, `IdealHash`: the hash has no collisions, and its
  values are neither leaves nor the padding, as leaves are themselves hashes of
  requests. Equal roots have equal nodes on every level both trees have, by
  induction from the root; so a deeper tree would have a hash where the other has
  a leaf or padding, and at equal depth the padded vectors are equal, which makes
  the lengths equal since no leaf is the padding.

`ExecutionProofs`, over `Rpc!Spec`, for every set of backups, lists of keys of the
queue and of any number of targets, which may differ between providers, chunk
limits, number of retries, base delay and timeout (`RpcAssumption`):

* `ErrorsMeanAllFailed`, `AlwaysAnsweredInTime`, `GivesUpOnlyOnOneRequest`, from
  `RpcInvariant`: which futures have been started and ended (`Futures`), that
  elapsed time and the time left add up to one or two timeouts (`Clock`), and that
  failures of a request and its retries are the same count (`Counted`). What the
  third says is of requests: a future that ends with a refused answer, a failed
  dry run or the timeout has not given up on one.
* `AnswersAreWhole`. Its invariant is `Collected`: a future at step s of call n has
  all keys of the proofs before n, of proof n those of the chunks before s, which
  are the first `KeysBefore(s)` keys, and of later proofs none; the retries of a
  chunk leave this as it is. Chunks meet without gap or overlap, the last one cut
  at the end of the keys.

`ExecutionProofs`, over `QueueSpec`, for any requests, targets, writes, number of
blocks, batch limit and cuts (`QueueAssumption`), with every answer from any block:

* `QueueProvedInOrder`, `ProvedValuesOfOutputBlock`, `HonestAnswersAlwaysSuffice`,
  `HostAlwaysPredictsCursor` and `QueueTypes`, from `QueueInvariant`: the queue
  only grows from block to block (`Chain`), what is settled lies within the queue
  of the output block (`Settled`), and what the host has in hand was answered
  from some blocks, from the window's own if all answers were honest, with every
  slot of every entry asked for or still to be asked for (`Attempt`). In the first
  two the guest's checks do the work: a witness passes only if each part of it is
  of the window's root. That there are as many leaves as the cursor counts, none
  beyond the queue, needs no whole proof of an entry: the account of the queue is
  always claimed to exist, which a cut proof does not show, and a cut proof of the
  head can only stand for zero, below any cursor but the first. What a leaf says is
  claimed of whole proofs only (`VerifiedEntry`). In the third it is the host's assembly that must leave
  nothing out.

`ExecutionProofs`, over both at once:

* `ExecutionTypes`. `Rpc`'s types are bounds: the request a provider is at is one of
  its call (from `Collected`), retries stay within `MAX_RETRIES` (from `Counted`), and
  a delay is shorter than the back-off of a retry that is never made (`Timers`, with
  `PowersGrow`: the powers of two up to `MAX_RETRIES` grow, by induction).

`ResumeProofs`:

* Over `Lifecycle!Spec`, for any number of starts: `StartsNeverBehind`. The
  invariant `StartsSafely` adds that the file, unless torn, holds at least what
  was told, and that the observer tells only what it has saved.
* Over `ClientSpec`, for every chain, every choice of missed slots, epochs of at
  least two slots and periods of at least four epochs (`ClientAssumption`; mainnet
  has 32 and 256), and any number of updates a node returns: `HeadAlwaysResumable`
  and `GuestAlwaysAcceptsPrepared`. The inductive invariant is `Resumable`: the
  settled hash is the one a store rebuilt for the settled slot has, the finality
  update and updates in hand are ones a node could serve, and a prepared output
  is what the guest computes from them. It was checked with TLC on the instance
  of `resume` before it was proved. The core is that applying a served update to
  a store whose committees are those of its period leaves one such store
  (`ApplyKeepsSound`), and that the hash settled determines the store up to the
  committee that the preparation borrows from the first update
  (`HashBindsStore`, `OneSoundResult`). Four epochs are assumed because an update
  finalises two epochs behind the one it attests, the slot finalised may be one
  before its epoch, and a period must have an update that attests and finalises
  within it (`PeriodHasUpdate`).
* Over `ClientSpec`, for every limit of a request for updates: `StrandedStays`, an
  action property. From `Resumable`, updates served for the settled slot lead at
  most that many periods further, the finality update of a stranded head is signed
  by a later committee, so the dry run refuses it, and later finality updates are
  no nearer.
* Over both at once: `ResumeTypes`. That a prepared output has both committees
  comes from `OneSoundResult` and the host's checks.

`BoundaryProofs`:

* Over `CodingSpec`, for every set of outputs whose fields hold u64s and byte
  strings of their lengths, and every set of requests of bytes
  (`CodingAssumption`): `ReadIsAlwaysCommitted`, `LeavesBindRequests`,
  `NoticesReadBack`. The first rests on `from_be_bytes` undoing `to_be_bytes` over
  eight bytes, on the fields of a layout covering its bytes without overlap, and on
  the offsets read being those written (`ReadersAgree`).
* Over `ConfigSpec`, for every set of environments, a configured list with at
  least one address (splitting a string gives at least one part) and answers of
  any length (`ConfigAssumption`): `OpensOnlyWhenAsked` and
  `WhitelistIsExtended`, from `ConfigInv`, which relates the configuration,
  the list a job has extended and the request to the environment.
* Over both and `Merkle!Spec` at once: `ComputationsTypes`, from the same invariants
  and `LoopsFollowTree`.

`Induction`. The library's induction theorems take an operator as a parameter,
which the provers cannot instantiate. `Induct` states induction for a set of
naturals, `RecursiveExists` that a function defined by recursion over 0 .. n
exists; both come from the least element of a set of naturals. The proofs about
served updates (`LightClient`), trees, bytes, back-offs and `append_unique` use one
or the other.

Only model-checked: all liveness properties (`CatchesUp`, `ClientCatchesUp`,
`EveryQuestionAnswered`, `DeathReachesObserver`, `ObserverDeathEndsTasks`), which
need fairness.

## Not modelled

* Helios' verification of signatures and Merkle branches, the proof of the
  execution payload against the beacon header, the verification of trie proofs,
  SP1 and the prover network: external, modelled by what the code relies on.
* Keccak locations of storage words (`storage_layout.rs`): pinned by test
  vectors; `QueueWitness` takes distinct words to be at distinct locations.
* `get_fallback_whitelist`, which no job calls, `print_config`, the local-only
  constructor of the prover configuration, the key cache, `validate.rs`,
  `contract.rs`, `grpc.rs`: start-up checks, log output and thin clients.
* Build and fixture tools: one-shot programs.
