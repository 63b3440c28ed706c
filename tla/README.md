# TLA+ models of the CoreTex client

This directory holds a verification development for the repository: TLA+ modules that model its
stateful components and its sequential algorithms, TLC configurations that check them on small
instances, and TLAPS proofs of the theorems that matter most for every instance. Source paths below are
relative to the repository root.

## 1. The system and its components

CoreTex runs a contest on a shared 32 KiB memory state ("substrate"). Miners submit word patches
against the state's current root; an evaluator scores a patch on hidden queries; a coordinator signs a
receipt for an improvement; the miner lands the receipt on chain, and the registry advances the
canonical root. Clients follow the registry, replay the advances and re-check the published evaluations.

| Component | Source | State | Operations | Hard behaviour | Model |
|---|---|---|---|---|---|
| Coordinator core | `src/coordinator/coretex-coordinator-core.ts` | replica of the registry (root, snapshots, scan cursor), baselines, pending receipts, dedup keys, receipt cache, per-miner reservations, freeze flags, FIFO mutex and submit queue | `boot`, `tick`, `submit`, `freeze`, `unfreeze`, `setRecomputedBaseline`, `invalidateBaselines`, `getReceiptByHash`, `getStatus` | minutes-long scoring between two locked phases, reorganisations, failing reads, expiry, restart without persistence | `CoordinatorCore`, `MiningChain` |
| Worker pool | `src/workers/pool.ts`, `worker.ts` | workers, idle stack, queue, pending maps | `eval`, message and error events, `close` | thread failures, back-pressure, close | `WorkerPool` |
| Production evaluator | `src/coordinator/production-evaluator.ts`, `per-patch-evaluator.ts`, `base-blockhash.ts`, `eval/live-eval-admission.ts`, `eval/seed-derivation.ts` | dedup records, attempts with their pinned seed, admission charges | `scorePatch`, dedup store | seed drawn once although the process crashes, retries, block waits that time out | `EvalAttempts` |
| Remote scorer | `src/scorer-server-cli.ts`, `src/coordinator/remote-scorer-verify.ts`, `scorer-pair-trace.ts` | job queue, traced reranker, dedup records | `POST /score`, boot | lost responses, queue limits, shared trace, a scorer left over from the epoch before | `EpochService`, `ScorerChecks` |
| Epoch frontier | `src/coordinator/epoch-frontier.ts` | active and retired ids, reserve pointer, moving average | `stepEpoch`, `inject`, restore | long runs, exhausted reserve, restore | `EpochFrontier` in `EpochService` |
| Corpus lifecycle | `src/corpus/` | corpus with its root and leaf cache, delta chain | admission, delta, rotation | deltas applied to the wrong root, a stale cache | `CorpusLifecycle` in `EpochService` |
| Reducer | `src/reducer/` | running state of a batch or of the live lane | reduce, accept, eligibility, cap, claims | order of patches, rebasing | `EpochReducer` |
| Rewards | `src/rewards/` | none | work units, difficulty, qualification | fixed-point clamps | `EpochRewards` |
| Client synchronisation | `src/client-sync-cli.ts` | trusted state file, pin, snapshot, evaluation backlog, parent snapshots | `runSync` | crash between renames, first-use pins, skipped audits, collection | `ClientSync`, refining `TrustedReplica` |
| Replay | `src/replay/` | folded state | replay of registry logs, audit of a report, rig logs | order and gaps, pins, finalisation | `RegistryReplay`, `PostRevealAudit`, `RigDispatch` |
| Epoch verification, upgrade, client commands | `src/verify-epoch/`, `src/upgrade/`, `src/cli.ts` | none | `reduce-epoch`, `verify-epoch`, `upgrade` | what a verdict does not compare | `EpochVerification` |
| State, patch, substrate | `src/state/`, `src/substrate/` | none | encode, validate, apply, Merkle cache, decode | commuting patches, budgets, references across regions | `StatePatch`, `SubstrateDecoding` |
| Retrieval evaluation | `src/eval/` | none | hidden pack, metrics, gate | quotas, regressions spread over patches | `QueryPack`, `RetrievalGate` |
| Endpoints, data source, notices | `src/coordinator/endpoints.ts`, `retrieval-data-source.ts`, `patch-received-notice.ts` | none of their own | routes, guards, statuses, signed notices | an outage that reads as a rejection | `CoordinatorRoutes` |
| Python validator | `python/coretex_validator/` | none | feed scan, join, receipt chains, continuity, snapshot, lineage | pinned reads across a moving head, recurring roots | `ReceiptJoin` |
| Bundle, canonical JSON, shards | `src/bundle/`, `src/canonical/`, `src/shards.ts` | none | validate, hash | - | not modelled |
| Set-up, integrations, tools | `src/client-setup-cli.ts`, `integrations/`, `tools/`, `scripts/` | files | downloads, arguments | - | not modelled |

Interactions: the coordinator core reads the chain through the `ChainClient` interface, calls the
evaluator (in process, or the remote scorer over HTTP) between its two locked phases, and calls the
signer under its lock. The cutover orchestrator freezes it, advances the corpus, re-baselines and
unfreezes it. The evaluator draws its seed from a block hash and writes through a durable dedup store.
Clients and the Python validator see only what landed on chain and what was published.

What makes each modelled component correct:

* core replica: one line of advances from the launch root, equal to the registry as of the scan
  cursor, through rollbacks, partial scans and restarts; it catches up when the chain is quiet;
* core receipts: at most one live receipt per patch, no solve index used twice, caps respected although
  signed receipts have not landed, signatures only for the live root, lookups that tell the truth;
* core cut-over: after `freeze()` returns nothing moves; after the epoch rolls signing ends;
* worker pool: every open call is in one place, no worker runs two, running calls settle;
* evaluator: a patch is scored under one seed, unknown when it arrived; one charge and one credit per
  patch, to the miner who drew it; records, attempts and published artifacts agree through crashes;
* scorer: an answer's trace is its own job's, a submission is scored once per boot, the queue waits only
  behind a running job, and what lands was scored in the epoch it lands in;
* epoch turn: the pruned frontier always fits the new corpus, its reserve pointer stays exact, churn
  retires the oldest and never shrinks the window; a follower of the deltas is always on the
  coordinator's chain of corpora and can always go on;
* client: what it trusts is a state the confirmed registry reached; an advance whose scores were not
  replayed stays owed, with what it takes to replay it, wherever a pass is cut off;
* algorithms: each does what its reference definition says (section 3 lists them).

## 2. Modules

| Module | Models |
|---|---|
| `MiningChain` | the chain and the two contracts as the core's `ChainClient` sees them (external code) |
| `CoordinatorCore` | `CoreTexCoordinatorCore`; extends `MiningChain` |
| `MCCoordinatorCore` | roots, patches and their parents for TLC |
| `CoordinatorCore_proofs` | lemmas on the operators, type correctness, the theorems on the replica, on signing and on the freeze |
| `CoordinatorCore_receipts` | the theorems on receipts, solve indices, the screener cap and the two hashes of a receipt, on confirmed blocks and rollbacks |
| `WorkerPool`, `MCWorkerPool`, `WorkerPool_proofs` | `WorkerPool`, its instance, its proofs |
| `EvalAttempts`, `MCEvalAttempts`, `EvalAttempts_proofs` | the evaluator's attempts, their instance, their proofs |
| `ClientSync` | `runSync` and its chain; extends `RegistryReplay` and `PostRevealAudit` |
| `RegistryReplay`, `PostRevealAudit` | the replay of registry events; the checks of a published report |
| `TrustedReplica` | what the client promises; `ClientSync` implements it |
| `MCClientSync` | its instance |
| `ClientSync_proofs`, `ClientSync_refinement` | the theorems on what a crash leaves behind and on the replay order; the refinement and the theorem on audits |
| `EpochService` | scorer, live lane, epoch turn and follower; extends the four modules below |
| `EpochFrontier`, `CorpusLifecycle`, `EpochReducer`, `EpochRewards` | frontier; corpus; reducer lanes and claims; work units and difficulty |
| `ScorerChecks` | the scorer's checks of a job and the coordinator's checks of an answer |
| `StatePatch` | patch codec, validation, application |
| `EpochFrontier_proofs` | lemmas on the frontier's operators: what enumeration, interleaving, activation, retirement, pruning and a step keep |
| `EpochService_proofs` | the theorems on the scorer's queue, traces and dedup records, on what lands and replays, on the turns of the frontier, the root cache and the follower |
| `MCEpochService` | the instance of `EpochService` |
| `EpochVerification`, `SubstrateDecoding`, `CoordinatorRoutes`, `RigDispatch`, `QueryPack`, `RetrievalGate`, `ReceiptJoin` | sequential algorithms as operators |
| `EpochChecks`, `VerificationChecks`, `SubstrateChecks`, `RouteChecks`, `RigChecks`, `PackChecks`, `ValidatorChecks` | their reference definitions, as assumptions TLC evaluates |
| `MCAlgorithms` | values for the algorithms' constants, beside the pool's instance |
| `OrderedChecks` | a chain of early returns, used wherever the code has one |

### CoordinatorCore

JavaScript runs a handler from one `await` to the next without interruption, so an action is the code
between two awaits, with three merges named in the module header (reads made under the mutex of the
same chain). A handler that spans awaits has a program counter: `tick.pc` for `tick()` and `boot()`
(`scan`, `apply`, `parity`), `job.pc` for the submit the queue is processing (`epochCheck`, `scoring`,
`counters`, `sign`). The mutex is not a variable: it is held exactly when `tick` is not idle or `job` is in a
locked phase (`MutexFree`). The synchronous event loop is unrolled into one `ApplyChainEvent` per event,
and `Interruptible` keeps everything else out meanwhile.

| TLA+ | Code |
|---|---|
| `TickStart`, `TickScan`, `ApplyChainEvent`, `RejectChainEvent`, `ScanDone`, `TickParity`, `TickFault`, `TickEpochClosed` | `tickInner`, `applyChainEvent`, `parityCheck`, `gcPending`, the audit; a throwing read |
| `RollBack`, `Kept…`, `ReconcilePending` | `handleReorg`, `reconcilePendingFromCanonicalSnapshots` |
| `BootScan`, `BootServe`, `BootFails`, `Crash` | `boot` and the loss of all memory |
| `BeginSubmit`, `PrepareSubmit`, `SubmitFault` | `submit`, `prepareSubmitEvaluation` |
| `EvaluatorRefuses`, `FinishSubmit`, `ReadCounters`, `SigningFails`, `SignReceipt` | the scorer's answer, `finishSubmitAfterEvaluation` |
| `Freeze`, `FreezeReturns`, `Unfreeze`, `SetRecomputedBaseline`, `InvalidateBaselines` | the cut-over interface |
| `LookupReceipt`, `GetStatus` | `getReceiptByHash`, `getStatus` (both sweep or disable signing) |
| `MineEmpty`, `LandReceipt`, `LandForeign`, `ChainReorg`, `EpochRollover` | the environment |

Data abstraction: roots, patches and miners are model values; a patch names its parent root and leads
to one root. A hash is `<<patch, score>>`, because the code hashes the submitted bytes (score field zero) and the
signed bytes (score written in) and must find a receipt under both. A block is one unit of time and
carries at most one receipt; its hash is its height with the fork it was mined on. An advance's score
stands for the baseline it leaves. Left out: intake counters, reward and difficulty values, metrics, and
the wording of errors. A refusal that changes no state and ends the submit is merged into one
action (`PrepareRefused`, `SigningFails`).

### WorkerPool

All handlers run on the main thread to completion, so each is one action. `workers` is also the key
set of the code's `pending` map, and `Dispatch` to a worker outside it drops the call as `_dispatch`
does. A failed worker object is never reused: `WorkerError` takes a fresh one from `Workers`, whose size bounds the
number of failures. Which idle worker is popped, and whether an answer is a report or an error, is not
told apart.

### EvalAttempts

One call of `scorePatch` runs at a time, because the core's submit queue is serial; `call.pc` is the await it
stands at. The store's maps are `attempts` and `records`; admissions are counted from the rows, as the store
does, so pinning and charging are one write. A hash of block `i` is `<<i, fork>>`. Verdicts are free, since the
threshold moves between calls. `CallFails` ends a call at any await (a failed read, a timed-out wait, a model
error, a refusal of the core's finish phase), `Crash` also loses what the core holds in memory; the store is
durable. Of the core only the dedup keys (`held`), their expiry and the signing of an accepted answer are
there; `scored` and `arrival` are history.

| TLA+ | Code |
|---|---|
| `DuplicateSubmission`, `DuplicateInFlight`, `Retry`, `OverCap`, `FirstDraw` | the store reads that open `scorePatch`, with the admission gate |
| `ReadHead`, `TargetMined`, `Pin` | the draw in `runPerPatchEvaluation`, `waitForBlock`, `onSeedDerived` |
| `Gate`, `Confirm` | the two packs |
| `PublishArtifact`, `RecordOutcome`, `PutRecord` | the three writes that settle an evaluation |
| `SignReceipt`, `ReceiptExpires` | the core's finish phase and `gcPending` |

### ClientSync

A pass is one run of `runSync`. `disk` is the state directory (pin, snapshot, parent snapshots, trusted state), `pass` the
memory of the process, `chain` the blocks with at most one registry event each (advance, rotation, reveal,
finalisation, or nothing). All checks of a pass happen before its first write, so `RunPass` decides the whole
pass and stages its writes; from then on the order of the renames is what matters, and a crash may follow any of them.

| TLA+ | Code |
|---|---|
| `StartPass`, `ContextVerdict`, `BootstrapVerdict`, `From` | reading the directory, the pins and the options; where the replay starts (deploy block, snapshot, recovery pin) |
| `Replayed`, `PassVerdict` | `replayCoreTexFromLogs` over the window, then the score replays, with the codes in the order of the code |
| `StageAll`, `CommitFile` | `TrustedStateStaging`: staged files, renamed one after the other |
| `EndPass`, `Collected` | `gcEvalParentSnapshots` and the end of a pass |
| `Crash`, `DeleteStateDir`, `SetUpAgain` | a killed process and the operator |
| the disjuncts of `Chain` | the registry: mining, rotation with a context, reveal, finalisation, a reorganisation |

A state is the sequence of the patches applied to the blank substrate and is its own root, so two lines of advances never
meet in one root by accident. A report is honest or forged; whether its scores reproduce is the outcome of the replay that
`PostRevealAudit` decides from the artifact's fields and the scores of the replay (`ReplayedScores`). A rotation pins the version of the
epoch it opens (`VersionOf`); `bundle` is the version the client is set up for, with whose scorer it replays. `audited` is history.

### EpochService

A request to the scorer is kept with its context; a job and an answer are computed from it (`JobOf`, `ResultBody`), so an
answer that arrives late is judged by the checks of `ScorerChecks` in the context of that moment. `scorer.slots` is the
queue's counter, apart from the set of running jobs, because the code keeps it apart. The reranker's trace is one sequence
that every run appends to. Every job names its epoch's commitment. To the scorer the field is optional (`scorer-server-cli.ts` 95, 224-226) and
a job without it would be scored; the core's `validateDualPackProof` (1798, 1811) refuses such an artifact before signing.

| TLA+ | Code |
|---|---|
| `Submit`, `Resend`, `Enqueued`, `Drain`, `Started` | the coordinator's call, `createScorerJobQueue`, the start of `handleScoreJob` |
| `ScorePack`, `Finish`, `ScoringFails` | the evaluation of a job, its record and its answer; a throwing reranker |
| `LoseAnswer`, `ScorerCrash`, `ScorerBoot` | the network and the process |
| `Receive`, `Land` | `verifyScorerResult` and its callers; a step of the live lane |
| `EndEpoch` | the bridge from logical deltas, `buildCorpusDelta`, `applyCorpusDelta`, pruning and restoring the frontier, `stepEpoch` |
| `FollowerApply` | `applyCorpusDelta` in a client, without a cache |

Families, buckets and the seeded order of ids are constants; a hash of a set is the set; a forest has at most 64 leaves (`PowersOfTwo`), where the code has no bound. An epoch ends at once with its delta,
because the code's rotation runs in one process and keeps nothing of a failed one.

### The sequential algorithms

`EpochVerification`, `SubstrateDecoding`, `CoordinatorRoutes`, `RigDispatch`, `QueryPack`, `RetrievalGate`, `ReceiptJoin` and
the operators under `EpochService` have no process of their own: a function of the code is an operator here, its early returns a
list for `OrderedChecks!Verdict`, its loop a recursive function or a fold. Words, vectors, embeddings and hashes are
values given by constants (`KeyIn`, `CodeIn`, `AtomIn`, `Cosine`, `RelevanceGain`); fixed-point scores are integers
of a stated unit.

## 3. Runs

Bounds common to the core's runs: two roots besides the launch root, two patches (competing in `core_submit`, consecutive
in the others), one miner plus a foreign signer's receipts, two empty blocks before launch, two to four further blocks, one
score. Two patches are enough for a winner and a loser or for a line of two advances; one miner is
enough because reservations and counters are per miner and receipts of different miners meet only
through roots, which the foreign signer's advances provide.

| Run | Bounds that matter | Checks |
|---|---|---|
| `core_submit` | depth 1, receipts live for 3 blocks of 4, 2 receipts, 1 freeze, both kinds | `OneLiveReceiptPerPatch`, `NoCounterDoubleSpend`, `ScreenerCapRespected`, `DualHashLookup`, `SignedAtLiveRoot`, `FrozenQuiesces` |
| `core_reorg` | depth 0, one reorganisation of up to 2 blocks of 4, failing reads, one crash | `TypeOK`, `ReplicaLinked`, `PendingOnLiveRoot`, `ConfirmedOnReplica`, `DualHashLookup` |
| `core_catchup` | depth 1, one reorganisation of 1 block, one kept snapshot, one receipt, failing reads, one crash, an epoch rollover, a recomputed root; fair | `ConfirmedPrefix`, `CatchesUp`, `SubmitSettles`, `ExpiredPendingSwept`, `RolloverStopsSigning` |
| `v_signed_while_disabled` | as `core_submit` | `SignedWhileEnabled` is violated |
| `v_baseline_lost` | as `core_submit` | `SignedAdvanceMovesBaseline` is violated |
| `eval_attempts` | 2 miners, 2 patches, cap 1, chain of 3 blocks, 1 reorganisation, 1 restart, any number of failed calls | `OneSeedPerPatch`, `ScoringsWithinCap`, `OneCreditPerPatch`, `RecordMatchesAttempt`, `AcceptedIsPublished`, `SeedUnknownAtArrival` |
| `v_expired_refused` | the same | `ExpiredCanBeResubmitted` is violated |
| `client_sync` | 2 epochs of the same or of two versions, 4 blocks, depth 1, reorganisations of 1 block, honest and forged reports, two served keys, a recovery pin, four command lines, a score of another version's scorer that is neither the honest nor the forged one, any number of crashes | `ReplicaImplemented`, `VerifiedThroughIsAudited`, `BacklogHasItsParents`, `StateUnderPin` |
| `v_client_incremental` | the same with honest reports, one version, one key and no recovery pin | `IncrementalReplayInOrder` is violated |
| `epoch_service` | 3 epochs, up to 3 requests, 2 faults, a queue of 1, 1 slot, 3 frontier profiles, 4 corpus deltas | `TraceIsOwnJobs`, `OneScoringPerBoot`, `WaitsOnlyBehindRunning`, `LandedOnItsContext`, `LineReplays`, `RotationCompletes`, `ReserveExact`, `FollowerOnChain`, `FollowerNeverStuck`, `WindowShrinksOnlyByAge`, `OldestLeaveFirst` |
| `pool` | 2 workers, 2 replacements, queue of 1, 4 calls, `close()`; fair | `EveryCallInOnePlace`, `IdleWorkersAreFree`, `RunningCallSettles`, and the assumptions below |
| `v_queue_stranded` | the same without `close()`; fair | `QueuedCallIsPickedUp` is violated |

Why the bounds suffice: in `core_submit` a receipt lives for three of four blocks, so it can expire while its patch is
resubmitted and scored again, land in its last block, or be overtaken; in `core_reorg` a reorganisation of two blocks drops
both advances or only the second, and the replica may have applied either, with their receipts tracked, settled or swept; in `core_catchup`
the confirmation depth equals the reorganisation depth, the case the finality gate is for, and
`MaxSnapshots = 1` makes eviction happen. In `client_sync` four blocks hold two advances with a rotation or
a reveal between or after them, so an advance can be replayed with its audit owed, revealed in a later pass and audited there
or refused as forged, and be the reason why a pass stops; when the rotation changes the version and the client is set up for
it, the advance of the old version is rescored by the new one's scorer, which may refuse an honest report and accept a forged one. In `epoch_service` a request can be queued, refused, lost, sent again,
answered after the epoch has turned, and scored by a scorer that booted before the turn; three epochs let a delta retract what
an earlier one added and a follower skip one. The pool's four calls fill both workers and the queue and leave one to be refused.
Deadlock is not checked: clocks, receipts, calls, blocks and epochs are bounded, so every instance ends.

### Assumptions evaluated as checks

The sequential algorithms have no states to explore. Each is compared with a reference definition, over bounded inputs, in an
`ASSUME` that TLC evaluates before the first state: those of `EpochChecks` in `epoch_service` and, with the six
other modules, in `pool` (the pool's jobs are what runs the evaluation; its state machine uses none of them).

* `EpochChecks`: every LEB128 index and every patch survives its codec and has one encoding; a batch's result does
  not depend on the order of its patches; two patches of one parent never both advance the live lane; the root cache equals a
  rebuild; a corpus survives its file; admission keeps its caps and leaves out nobody it could take; the frontier stays exact in every
  mode; screener and advance thresholds, work units and difficulty are ordered and bounded; every claim leaf verifies
  and no other does.
* `VerificationChecks`: the registry's patch log is read back; a batch epoch is reproduced from its events in any order; a
  live-lane epoch with two advances is not; a snapshot of the end state and no events verifies any epoch; `reduce-epoch` and
  `verify-epoch` agree unless a record carries a score; a translation applies wholly or not at all; the Merkle update equals
  a rebuild.
* `SubstrateChecks`: structural validity lies in its range; no word is read as two regions; what is decoded refers to what is
  decoded; encoders and decoders agree within the eight bits of a slot reference; the slot ring avoids protected slots.
* `RouteChecks`: no data source is touched before the guards pass; which outages a miner sees as 503; nothing about a
  score leaks with a refusal; a notice binds every field; a status that shows an evaluation key is withheld.
* `RigChecks`: only logs of the deployment can stop the follower; the payloads of the lanes are disjoint; a value has one
  spelling and an integer is never rounded.
* `PackChecks`: a derived pack meets its quotas without repeats; the live overlay keeps them; metrics are fractions; the
  bounded search finds paths; what passes the gate has made progress, and a sequence of passing patches never returns to its start.
* `ValidatorChecks`: changing any one field of a joined receipt, of its calldata or its log ends the join, but for the fields the
  comments name; the receipt chains of a rig; the signer of each place; feeds read across a reorganisation; the continuity checks accept
  what the contracts can have logged; a snapshot's lineage.

Checks whose name states a limit (`LiveEpochIsNot`, `SnapshotOfTheEnd`, `ReservationIsGreedy`, `StructureAlonePasses`,
`ProtectionErodes`, `AbsentFamiliesCost`, `InactiveSlotsDilute`, `SharedAddressIsRefused`, `ReplacedHash`,
`BadPatchHashEndsTheJoin`, `AmbiguousIsLeftOut`) record what the code does where a reader might expect more.

### What the violation runs show

* `v_signed_while_disabled`: the parity gate is documented to disable signing on a mismatch; a tick that
  does so while the scorer runs does not stop the receipt that scorer leads to, because the finish
  phase re-checks root, freeze, dedup, baseline and epoch, but not `signingEnabled`.
* `v_baseline_lost`: a receipt landed in its last valid block is swept before its event is confirmed, so
  the advance finds no record and the new root gets no baseline.
* `v_queue_stranded`: after thread failures the pool has free workers and a queued call nobody picks up.
* `v_expired_refused`: a receipt lookup answers "receipt expired; re-submit to get a fresh receipt", but the
  evaluator's durable record refuses the same bytes as `duplicate_submission`.
* `v_client_incremental`: a pass that continues from a snapshot taken inside an epoch expects the next advance of that epoch
  to have index 0 and refuses the window as `OUT_OF_ORDER`, until the state directory is deleted.

### What else the models state about the code

These are facts a reader of the code may not expect; each is what the named definition computes.

* Core (`ReconcilePending`): when a reorganisation drops an advance, the receipts signed on its root become stale (their root is gone); when
  the same advance is mined again they stay stale, and are answered 409 though their root is live. Should such a receipt land,
  the new root gets no baseline (`ApplyChainEvent`).
* Core (`GcCache`, `OriginalHash`): the header (`coretex-coordinator-core.ts` 27-30) says an envelope is found under the hash of the bytes
  the miner submitted. The core zeroes `scoreDelta` before it hashes (1091-1093), so the second key is the hash of the canonical bytes:
  whoever submitted bytes with another `scoreDelta` does not find the envelope under their hash. `DualHashLookup` is stated for the
  canonical bytes.
* Client (`Resolvable`, `ReplayedScores`): `client-sync-cli.ts` 767-773, 981-983 and 2168-2174 say that an entry whose bundle version
  differs from the loaded one is left pending and never rescored. The version is compared only when the corpus has to be walked to
  (2070); an entry whose corpus is the loaded, the launch or an operator-supplied one is rescored with the loaded bundle's profile and reranker
  (998, 1978-1979, 2136). An honest report may then fail and stop every later pass, a forged one may reproduce. The model does what
  the code does: such an entry's score is its own or one of `OtherScores`, and `TrustedReplica` promises honest reports only of
  the installed version. Stated for entries of every version the promise is violated within the bounds of `client_sync`.
* Data source (`OutagesSeen`): of the codes of an outage it passes four on; `EvalFailure`, `SignerFailure`,
  `CoordSignerUnavailable`, `CoordUnhealthy`, `epoch_cutover_unavailable` and `QueueFull` become `rejected`, and the router answers
  200 where the comment of `endpoints.ts` speaks of 503.
* `verifyEpoch` (`SnapshotOfTheEnd`, `LiveEpochIsNot`) compares the final root only, and `verify-epoch` does not use `--r5`.
* Gate (`StructureAlonePasses`): better structural validity with unchanged rankings passes the gate whose refusal is named
  `no_retrieval_improvement`; a family absent from the pack costs its weight; protection is per patch.
* Substrate (`InactiveSlotsDilute`, `EncodersRoundTrip`): slots that hold nothing count as attempts; a temporal record encodes its
  slots modulo 256; an edge beyond slot 255 is encoded and does not decode; `encodeMemoryIndexSlot` returns eight words for a one-word slot.
* Upgrade (`TranslationRoundTrip`): one trailing byte of a payload is ignored.
* Rig logs (`SharedAddressIsRefused`): two roles of a deployment at one address make every event of the second role an error.
* Python validator: `replay_rig_chain` recomputes no link, although its module promises "the recomputed link" (`ReplacedHash`); a
  screener credit's epoch, operator and earned credits are bound to its receipt by the hash alone (`JoinBindsScreener`); a bad patch hash
  or a recurring edge ends the whole `join_all` (`BadPatchHashEndsTheJoin`, `CyclesJoin`); continuity goes by transition index, not by
  chain position; a feed left for another fork and returned to is not noticed (`FeedOfOneChain`); `replay_all`, `walk_lineage`
  and `epoch_law` have no caller in the package.

### Fairness

`FairSpec` of the core assumes what the code's scheduling gives: the watcher calls `tick()` again and again and
the FIFO mutex reaches each waiter (strong fairness of `TickStart`, `TickScan`, `TickParity`, `FreezeReturns`, which
failing reads or other holders of the mutex disable and enable again); the code after an await runs (weak fairness
of the apply, boot and submit steps, where the evaluator and the signer answer or time out). Nothing is assumed of the chain,
the miners or the orchestrator. `CatchesUp` is claimed while the epoch is open, because a tick after the rollover stops before
it scans. The pool assumes that a thread answers what it was given or fails
(`worker.ts` answers in both branches of its `try`).

The attempts, the client and the epoch service are checked for safety only: nothing in the code promises that an operator runs
another pass or that the coordinator sends a job again. What must not get stuck there is stated as a state property:
`WaitsOnlyBehindRunning`, `FollowerNeverStuck`, `RotationCompletes`, `BacklogHasItsParents`.

### Refinement

`ClientSync` implements `TrustedReplica` (`ReplicaImplemented`, an `INSTANCE` with a mapping). The abstract replica only adopts
a longer prefix of the confirmed advances, owes the score replay of each new one, and stops owing it only when its epoch
is revealed and, when it is of the version whose scorer is installed, its report honest. The mapping is: ledger = the advances at or below the confirmed head, replica = the root
of the state file, owed = the positions of its backlog. The renames before the state file's stutter; the state file's rename
is `Adopt`; set-up for a newly pinned version is `Install`; deletion of the directory is `Forget`. The recovery pin is the only way around the audit, and `Vouched` says for which advances.

## 4. Proofs

| Theorem | Module | States |
|---|---|---|
| `TypeCorrect` | `CoordinatorCore_proofs` | `Spec => []TypeOK` |
| `ReplicaStaysLinked` | `CoordinatorCore_proofs` | `Spec => []ReplicaLinked` |
| `PendingStaysOnLiveRoot` | `CoordinatorCore_proofs` | `Spec => []PendingOnLiveRoot` |
| `ConfirmedStaysOnReplica` | `CoordinatorCore_proofs` | `Spec => []ConfirmedOnReplica` |
| `SignsOnlyAtLiveRoot` | `CoordinatorCore_proofs` | `Spec => SignedAtLiveRoot` |
| `FrozenStandsStill` | `CoordinatorCore_proofs` | `Spec => FrozenQuiesces` |
| `CapRespected` | `CoordinatorCore_receipts` | without reorganisations, `Spec => []ScreenerCapRespected` |
| `OneLiveReceipt` | `CoordinatorCore_receipts` | without reorganisations and restarts, `Spec => []OneLiveReceiptPerPatch` |
| `CountersSpentOnce` | `CoordinatorCore_receipts` | under the same premises, `Spec => []NoCounterDoubleSpend` |
| `PrefixConfirmed` | `CoordinatorCore_receipts` | under `Finality`, `Spec => []ConfirmedPrefix` |
| `FoundUnderBothHashes` | `CoordinatorCore_receipts` | `Spec /\ []SettledRootStaysAway => []DualHashLookup` |
| `PendingFoundUnderBoth` | `CoordinatorCore_receipts` | without reorganisations, `Spec => []PendingFound`: `DualHashLookup` for pending receipts, and each key leads to that receipt |
| `CallsStayInOnePlace` | `WorkerPool_proofs` | `Spec => []EveryCallInOnePlace` |
| `IdleWorkersStayFree` | `WorkerPool_proofs` | `Spec => []IdleWorkersAreFree` |
| `SeedStaysPinned` | `EvalAttempts_proofs` | `Spec => []OneSeedPerPatch` |
| `CreditsStayUnique` | `EvalAttempts_proofs` | `Spec => []OneCreditPerPatch` |
| `RecordsStayBacked` | `EvalAttempts_proofs` | `Spec => []RecordMatchesAttempt` |
| `AcceptancesStayPublished` | `EvalAttempts_proofs` | `Spec => []AcceptedIsPublished` |
| `CapHolds` | `EvalAttempts_proofs` | `Spec => []ScoringsWithinCap` |
| `SeedIsUnknown` | `EvalAttempts_proofs` | `Spec => SeedUnknownAtArrival` |
| `StateStaysUnderPin` | `ClientSync_proofs` | `Spec => []StateUnderPin` |
| `BacklogKeepsItsParents` | `ClientSync_proofs` | `Spec => []BacklogHasItsParents` |
| `ClientImplementsReplica` | `ClientSync_refinement` | `Spec => ReplicaImplemented` |
| `VerifiedThroughStaysAudited` | `ClientSync_refinement` | under `ChosenBlockConfirmed`, `Spec => []VerifiedThroughIsAudited` |
| `ReplayTakesEveryAdvance` | `ClientSync_proofs` | the replay order of any window lists each of its advances |
| `QueueNeverStranded` | `EpochService_proofs` | `Spec => []WaitsOnlyBehindRunning` |
| `LandsOnItsContext` | `EpochService_proofs` | `Spec => []LandedOnItsContext` |
| `TracesNeverMix` | `EpochService_proofs` | with one worker, `Spec => []TraceIsOwnJobs` |
| `ScoredOnce` | `EpochService_proofs` | with one worker, `Spec => []OneScoringPerBoot` |
| `LineAlwaysReplays` | `EpochService_proofs` | `Spec => []LineReplays` |
| `RotationNeverRefused` | `EpochService_proofs` | `Spec => []RotationCompletes` |
| `ReserveStaysExact` | `EpochService_proofs` | `Spec => []ReserveExact` |
| `WindowKeepsItsSize` | `EpochService_proofs` | `Spec => WindowShrinksOnlyByAge` |
| `OldestRetireFirst` | `EpochService_proofs` | `Spec => OldestLeaveFirst` |
| `CacheStaysTrue` | `EpochService_proofs` | updating the root cache is building it anew, for every corpus and every change |
| `FollowerStaysOnChain` | `EpochService_proofs` | under `RootsTellCorporaApart`, `Spec => []FollowerOnChain` |
| `FollowerFindsTheNext` | `EpochService_proofs` | under `RootsTellCorporaApart`, `Spec => []FollowerNeverStuck` |

They hold for every number of miners, patches, roots, workers, calls, epochs and keys and every depth, window and
bound, from the constant assumptions `ChainAssumption`, `CoreAssumption`, `PoolAssumption`, `AttemptsAssumption`,
`PatchAssumption`, `ClientAssumption`, `ServiceConstants`, `CommitAssumption` (every epoch has a hidden-seed
commitment), `FamilyAssumption`, `ScaleAssumption`, `FrontierConstants` (hidden ids have a family, a profile's parameters are numbers) and
`CorpusConstants` (finitely many records, one per id, ids ordered like numbers), and the premises the theorems name:

* `OneWorker`: the scorer's default concurrency. Two workers mix their pairs in the shared trace and score one submission twice.
* `NoReorgs`, `NoRestarts`: the chain takes no block back, so a counter never falls; the process keeps its reservations and dedup keys.
  A restarted core knows nothing of the receipts it signed, and signs again.
* `SettledRootStaysAway`: no settled receipt pins the live root. A reorganisation, or patches that lead back to an earlier root, can end it: each patch
  is scored on its own hidden pack, so nothing in the code forbids such a return. `PendingFoundUnderBoth` does without it.
* `Finality`: at most one reorganisation, no deeper than the confirmation depth, and a replay that begins in confirmed blocks. An advance mined
  at or below `lastScannedBlock` is never scanned.
* `ChosenBlockConfirmed`: the block a user's flag or a release's pin lets a pass start from is at most one past the confirmed head. Blocks the client
  chooses itself always are (`StartBlock`); a later one would be skipped over. `client_sync` also explores passes beyond this premise.
* `NoneIsNoValue`: what stands for "no file" is no state file and no state. It says of the model's `None` what JavaScript says of `undefined`.
* `RootsTellCorporaApart`: two corpora of the chain with one root have the same records, that is, the chain shows no hash collision. It holds in every
  reachable state of the `epoch_service` instance.

*Types.* `TypeInv` is `TypeOK` with two facts it needs to be inductive: the issued receipts can be counted,
and there are never more snapshots than advances, so a rollback leaves a count that is a number. The registry
lemma shows that what the model computes from the chain is a root and a number.

*The replica.* `ReplicaLinked` is inductive once types are known: the only steps that move the line are an applied event
(which checks the parent root), a rollback (which keeps a prefix) and the loss of memory (`LineMoves`).

*Pending and confirmed receipts.* `TrackedOnLine`, the conjunction of the two properties, is preserved together with
`MutexInv` (a submit in a locked phase excludes a tick, and its patch's parent is the live root). An
applied event settles every pending receipt of its parent; after a rollback the reconciliation walks the kept snapshots. Both
properties are stated for a replica that has evicted no snapshot, and the theorem carries that premise.

*Signing and freezing* follow from `CoreInv` = `TypeInv /\ ReplicaLinked /\ MutexInv /\ TrackedOnLine`.

*Confirmed blocks.* `PrefixInv`: no block up to the height `Stable` is replaced any more, every cursor of a tick and every snapshot
stays at or below it, every advance on the chain builds on the root the block before it left, and the replica is the registry as of the
block whose events it has applied (`Applied`, which moves inside a batch of events too). So the watcher never meets an event it must reject, and the replica goes on
from where a failed tick left it.

*Receipts.* `Effects` sorts the steps by what they do to receipts, dedup keys, pending records and reservations. `DedupInv`: an
unexpired receipt's dedup key lives exactly as long as the receipt, so its patch is refused before a second is signed.
`CapInv` counts potential screeners, landed or reserved, below the index of each receipt: an index that is not spent
on chain has fewer than the cap before it. `IndexInv`: an unexpired receipt's index is behind the contract's counter or behind a reservation that
outlives the receipt (`Covered`), so the next one signed is past it.

*The two hashes.* `LookupInv`: both keys of a tracked record hold its envelope, no other record for the same bytes is tracked, its dedup key lives as
long as its window, and a submit past its preparation is for bytes that are not tracked. So a signature takes no key of another record, and a sweep takes
no key of a record it keeps. The preparation is where a settled record could be passed by, its dedup key having expired: there the premise counts.
`PendingKeysInv` needs no premise on the roots, because it speaks of pending records only: the dedup key of a pending record lives exactly as long
as the record, and a submit that has passed the preparation holds bytes without a dedup key, so its signature takes no key of a pending record.

*The pool.* The inductive invariant adds `PoolRunsAll`: only a worker of the pool has calls posted to it.

*The evaluator.* `CallInv` relates the running call to the store: once past `Pin` the call carries the seed and the miner of
its attempt row (`PinInv`), what it is about to record is published when it is an acceptance (`StoreInv`), and a credited
patch has an accepted record (`CreditInv`), so it is refused as a duplicate before it can be credited again.
`CapInv` counts: charged rows stay within the cap because a call that is drawing has passed the gate and no other row
appears before its own. `ArrivalInv`: a hash that existed at the arrival is still on the chain or belongs to an older fork, so every
block above the head the call read is new to it.

*The client.* `SyncInv` = `ChainNumbered /\ DirInv /\ PassInv`. Of a half-committed pass `StagedInv` says: a staged state file
is staged behind the pin and behind every parent snapshot its backlog needs and that is not on disk yet (`PinInFront`,
`StateBehind`); once it is renamed the directory's backlog is the pass's. The old backlog's parents stay until
then, because only `EndPass` collects. Parent snapshots are named by their advance, so a file of that name
holds that advance's parent root, whoever wrote it (`NameRoot`, `ParentNamed`).
`ChainNumbered` says that no two advances of the registry share epoch and index; it survives a reorganisation because the tail is
replaced by blocks without advances, and gives `ReplayTakesEveryAdvance` through the least element of a set of naturals (`WFMin`).

*The client's refinement.* The ledger is the function `Nth` from positions to blocks; `Count` and `Nth` are inverse (`NthInverse`), so the ledger
only grows with the confirmed head (`LedgerStep`). `ChainLinked` says that the advance at position k leads from the first k - 1 patches to the first
k. A replay is a recursive function over the window in replay order, which is the order of the blocks (`BlockOrder`): by least exception
every accumulator of a successful replay is a prefix of the ledger (`ReplayLinks`), so a pass that passes its checks ends at one (`PassReach`,
`PassResult`). `ReplicaInv` carries this to the renames: a stored or staged state is on the ledger, its backlog's entries name positions in it, and
relative to the state on disk it drops nothing that is neither honest and revealed nor vouched for (`Adoptable`), which is the guard of `Adopt`. By `AuditHonest` only an
honest report passes the audit of an entry that replays to its own score, as every entry of the installed version does (`ScoredIsSettled`). `AuditedInv` adds that each position of the state is vouched
for, in the backlog or audited, that each at or below `verifiedTo` is vouched for or audited, and that what lies before the window of a started pass is confirmed
and of epochs the pass covers (`StartedAudited`).

*The scorer.* `ServiceInv` = `SentInv /\ ScorerInv /\ LaneInv`. Requests carry their place in the order they were sent in, so none
is in the queue or in a slot twice (`QueueOK`); the slots are the number of running jobs; a job runs, and is answered 200, only in the
epoch the scorer booted for, because the commitments of two epochs differ (`GoesOnInItsEpoch`). With one worker the trace is the running
job's and its submission has not been scored (`AloneOK`). A drain is a recursive function over the queue: `DrainKeeps` shows that no
length is the least at which the invariant fails (`NoLeastException`). An answer that passes is of the coordinator's
present epoch (`PassedIsOfTheEpoch`), and the turn empties the lane.

*The landed line.* `LineInv` says that some function obeys the replay's recursion over the line and ends in the running state. The recursion has one
solution (`LeadsOnce`), so landing extends it (`LandLeads`) and the property's own function is it. The step needs that the live
lane's application succeeds only where the strict one a replayer uses gives the same state (`LiveIsStrict`).

*The frontier.* `FrontierInv` = `FrontierOK(frontier)` (an order without repetition, a pointer that has passed exactly the active and the retired ids,
numbers where the controller computes) with a started controller and no refusal. Each operator has a lemma saying that it keeps `FrontierOK` and what
else it does: pruning (`PruneKeeps`), refilling (`RefillKeeps`), activating (`ActivateKeeps`: as many as asked, or all there are), retiring
(`RetireKeeps`), choosing the oldest (`OldestOnes`), the step in every mode (`StepKeeps`). They rest on enumerating a finite set in a strict total order (`Ranked`,
`EnumeratedOnto`): ranks are numbers, no two elements share one, and each is taken. The window keeps its size because a turn activates as many as churn retires,
unless the reserve is short, and then the rate was cut to the reserve (`RateBound`).

*The root cache.* The update either rebuilds or appends. Appending is rebuilding because leaves that all sort behind the old ones are
enumerated behind them (`InIdOrderAppends`), and growing a forest by a concatenation is growing it twice (`GrownConcat`, again by least exception).

*The follower.* `ChainInv`: each corpus of the chain comes from the one before by the delta published with it, and its root is its records' root, whichever way the
coordinator's cache was updated. A delta that fits a corpus is applied to the records its publisher had (`FitsTells`, with roots that tell corpora apart), so the
follower lands on the next place of the chain; from the greatest place that has its records the next delta fits (`FitsIf`), and changes them.

Checked by TLC only:

* `DualHashLookup` through a reorganisation (`core_reorg`: one of up to two blocks). Through several, where a settled receipt can pin the live root
  again while its bytes are submitted anew, it is neither proved nor checked;
* the algorithms' assumptions: they compare folds and recursive definitions over data, and induction over data is out of the prover's reach but for the few
  recursions above, short enough for an argument by a least exception (`CacheStaysTrue` is the one of them proved in general);
* all liveness (`CatchesUp`, `SubmitSettles`, `ExpiredPendingSwept`, `RolloverStopsSigning`, `RunningCallSettles`), which
  is out of the prover's reach as well.

## 5. Not modelled

* The ranking of a query (first stage, policy atoms, rendering), embeddings, the reranker and baseline scoring: floating point
  and neural models. `RetrievalGate` takes rankings as given.
* Bundle validation, canonical JSON, policy hashes, histogram, shards: pure functions of files without state; hashes are values here.
* keccak, ABI and calldata encoding, the packed state codec, byte layouts of keys, codes and atoms: conversions no property is about. Hashes and
  signatures stand for what they are computed from.
* Client set-up, downloads of deltas and models, `verify-patch`, the legacy state layout, printing and argument handling: input and
  output around the modelled passes.
* The scorer's boot probes, body parsing, authorisation and shutdown on a signal; calls of the evaluator in parallel, which the
  core's serial queue never makes; seeds injected by a remote coordinator.
* The core's intake counters and per-miner limits, reward values and metrics: they decide no root, receipt or signature.
* The Python validator's artifact and closure formats, RPC retries, contract graph, publication files, benchmark replay (it runs the
  candidate's module), `epoch_law.py`, release pinning and its cryptographic primitives.
* Integrations, tools and scripts: consumers of what is published and operator scripts, without protocol state.

## 6. What could be added

1. `EvalAttempts` under `CoordinatorCore`: the core's `EvaluatorRefuses` restricted to what the attempts allow.
2. An abstract replica (extend, truncate, reset a line of advances) that `CoordinatorCore` implements, from `ReplicaLinked`.
3. Parallel calls of the evaluator, should the core's queue ever stop being serial.
