----------------------------- MODULE ClientSync -----------------------------
(***************************************************************************)
(* ClientSync: one client that follows the registry                        *)
(* (src/client-sync-cli.ts).  A pass reads the state directory and the     *)
(* chain, replays the registry events since its snapshot, replays the      *)
(* scores of the advances whose epoch is revealed, stages every file it    *)
(* wants to trust, and renames the staged files one after the other.  A    *)
(* crash can fall between any two renames.                                 *)
(***************************************************************************)
EXTENDS RegistryReplay, PostRevealAudit

CONSTANTS
  MaxEpoch,       \* bound: the epochs of the chain
  Versions,       \* the bundle versions an epoch may pin
  LaunchVersion,  \* the one the first epoch pins
  ReleaseCorpus,  \* bundle version -> the corpus it ships (0: the launch corpus)
  MissingDeltas,  \* the epochs whose corpus delta is not published
  Payloads,       \* what advances carry
  Reports,        \* "honest", "forged" (the scores do not reproduce), "withheld"
  OtherScores,    \* what the profile and reranker of another version may score a patch
  Recovery,       \* the launch-recovery pin, or None
  Depth,          \* confirmation depth
  MaxReorg,       \* bound: blocks a reorganisation replaces
  MaxBlocks,      \* bound: length of the chain
  Served,         \* what may be served as the signing key: [key, signer]
  Options         \* command lines: [skip, lenient, assertPrevious, fullHistory, from, parent]

Epochs == 1..MaxEpoch

ASSUME ClientAssumption ==
  /\ MaxEpoch \in Nat /\ Depth \in Nat /\ MaxReorg \in 0..Depth /\ MaxBlocks \in Nat
  /\ Payloads \subseteq Patches \cup {"empty", "descriptor"}
  /\ Reports \subseteq {"honest", "forged", "withheld"}
  /\ OtherScores \subseteq Int
  /\ \A s \in Served : s.key # None
  /\ \A o \in Options : o.from = None \/ o.from \in Int
  /\ Recovery # None => Recovery.from \in Int

VARIABLES
  chain,    \* the blocks, each with at most one event
  bundle,   \* the version set-up installed last
  disk,     \* the state directory: [pin, snapshot, parents, state]
  pc,       \* "idle", "started", "committing"
  pass,     \* the memory of the running pass
  audited   \* history: the backlog entries whose scores the state file relies on

vars == <<chain, bundle, disk, pc, pass, audited>>

(***************************************************************************)
(* The chain as it is read at a block tag                                  *)
(***************************************************************************)
BlocksIn(from, to, kind) ==
  {i \in DOMAIN chain : from <= i /\ i <= to /\ chain[i].kind = kind}

EventsIn(from, to, kind) == {chain[i].event : i \in BlocksIn(from, to, kind)}

AdvancesIn(from, to) == EventsIn(from, to, "advance")

\* V4.currentEpoch(): a rotation opens the next epoch and sets its context.
EpochAt(n) == 1 + Cardinality(BlocksIn(1, n, "rotate"))

StateOf(advances) ==
  LET last == CHOOSE a \in advances : \A b \in advances : ~Earlier(a, b)
  IN  IF advances = {} THEN Blank ELSE last.new

\* liveStateRoot(epoch), epochParentStateRoot(epoch), transitionCount(epoch)
LiveRoot(e, n) == StateOf({a \in AdvancesIn(1, n) : a.epoch <= e})
ParentRoot(e, n) == StateOf({a \in AdvancesIn(1, n) : a.epoch < e})
TransitionCount(e, n) == Cardinality({a \in AdvancesIn(1, n) : a.epoch = e})

Revealed(n) == EventsIn(1, n, "reveal")
FinalizedEpochs(n) == {f.epoch : f \in EventsIn(1, n, "finalize")}

\* The version the context of epoch e pins, set by the rotation that opened it.
VersionOf(e) ==
  LET opened == {r \in EventsIn(1, Len(chain), "rotate") : r.epoch = e}
  IN  IF opened = {} THEN LaunchVersion ELSE (CHOOSE r \in opened : TRUE).version

\* The epoch's pins; the corpus of epoch e is the launch corpus after e deltas.
PinsOf(e) ==
  [version |-> VersionOf(e), corpus |-> e, frontier |-> e, baseline |-> e]

\* corpus-delta-epoch-<e>.json
Delta(e) == [previous |-> e - 1, next |-> e]

Mine(kind, event) ==
  /\ Len(chain) < MaxBlocks
  /\ chain' = Append(chain, [kind |-> kind, event |-> event])
  /\ UNCHANGED <<bundle, disk, pc, pass, audited>>

Advance(payload, report) ==
  LET n == Len(chain)
      e == EpochAt(n)
      root == LiveRoot(e, n)
  IN  /\ e \notin FinalizedEpochs(n)
      /\ Mine("advance",
        [epoch |-> e, index |-> TransitionCount(e, n), miner |-> "miner",
         parent |-> root, new |-> Append(root, payload), payload |-> payload,
         hash |-> payload, report |-> report, version |-> VersionOf(e),
         corpus |-> e, frontier |-> e])

\* The coordinator finalises the epoch it leaves, then opens the next one.
Finalize ==
  LET n == Len(chain)
      e == EpochAt(n)
  IN  /\ e \notin FinalizedEpochs(n)
      /\ Mine("finalize",
           [epoch |-> e, new |-> LiveRoot(e, n), version |-> VersionOf(e),
            corpus |-> e, frontier |-> e, baseline |-> e])

Rotate(version) ==
  /\ EpochAt(Len(chain)) < MaxEpoch
  /\ Mine("rotate", [epoch |-> EpochAt(Len(chain)) + 1, version |-> version])

Reveal(e) ==
  /\ e < EpochAt(Len(chain))
  /\ e \notin Revealed(Len(chain))
  /\ Mine("reveal", e)

EmptyBlock == Mine("empty", "none")

\* The unconfirmed tail is replaced by as many other blocks.
Reorg ==
  \E k \in 1..MaxReorg :
    LET n == Len(chain) IN
    /\ k <= n
    /\ chain[n - k + 1].kind # "empty"
    /\ chain' = [i \in 1..n |-> IF i <= n - k THEN chain[i]
                                ELSE [kind |-> "empty", event |-> "none"]]
    /\ UNCHANGED <<bundle, disk, pc, pass, audited>>

Chain ==
  \/ \E payload \in Payloads, report \in Reports : Advance(payload, report)
  \/ Finalize
  \/ \E version \in Versions : Rotate(version)
  \/ \E e \in Epochs : Reveal(e)
  \/ EmptyBlock
  \/ Reorg

(***************************************************************************)
(* The state directory                                                     *)
(***************************************************************************)
NoPass == None
EmptyDir == [pin |-> None, snapshot |-> None, parents |-> <<>>, state |-> None]

\* evalBacklogEntryFromAdvance; the key and the snapshot name are the epoch and
\* the report's hash, which stands for the whole report.
ReportHash(adv) == <<adv.epoch, adv.parent, adv.payload, adv.report, adv.version>>

EntryOf(adv, block) ==
  [epoch |-> adv.epoch, artifact |-> ReportHash(adv), block |-> block,
   miner |-> adv.miner, parent |-> adv.parent, payload |-> adv.payload,
   corpus |-> adv.corpus, version |-> adv.version]

EntryKey(entry) == <<entry.epoch, entry.artifact>>

\* upsertEvalBacklog: an entry seen again keeps the block it was first seen at.
Upsert(backlog, incoming) ==
  LET old(e) == {o \in backlog : EntryKey(o) = EntryKey(e)}
      merged(e) == IF old(e) = {} THEN e
                   ELSE [e EXCEPT !.block = (CHOOSE o \in old(e) : TRUE).block]
  IN  {o \in backlog : \A e \in incoming : EntryKey(o) # EntryKey(e)}
      \cup {merged(e) : e \in incoming}

\* loadVerifiedParentSnapshot: a file that is missing or hashes to another root
\* is not used.
ParentOnDisk(entry) ==
  /\ EntryKey(entry) \in DOMAIN disk.parents
  /\ disk.parents[EntryKey(entry)] = entry.parent

(***************************************************************************)
(* A pass: what it reads first                                             *)
(***************************************************************************)
\* syncMain reads the state file, runSync the current epoch at the chain's head.
StartPass ==
  \E opts \in Options, served \in Served :
    /\ pc = "idle"
    /\ pc' = "started"
    /\ pass' = [opts |-> opts, served |-> served, saved |-> disk.state,
                epoch |-> EpochAt(Len(chain)), staged |-> <<>>, backlog |-> {}, passed |-> {}]
    /\ UNCHANGED <<chain, bundle, disk, audited>>

ConfirmedHead == Len(chain) - Depth

\* readChainContext refuses an epoch whose context is not set at the tag.
ContextSet(e, head) == e <= EpochAt(head)

\* resolvePreviousCorpusRoot: the flag, the state file, the bundle.
PreviousCorpus(p) ==
  IF p.opts.assertPrevious THEN Delta(p.epoch).previous
  ELSE IF p.saved # None THEN p.saved.corpus
  ELSE ReleaseCorpus[bundle]

ReadOnly(p) == VersionOf(p.epoch) # bundle

\* The version, the pinned key, the signed rotation and its delta, in order.
ContextVerdict(p, head) ==
  IF head < 0 THEN "NO_CONFIRMED_BLOCK"
  ELSE IF ~ContextSet(p.epoch, head) THEN "CONTEXT_NOT_SET"
  ELSE Verdict(
    << <<ReadOnly(p) /\ ~p.opts.lenient,                   "CLIENT_OUTDATED">>,
       <<disk.pin \notin {None, p.served.key},             "KEY_PIN_MISMATCH">>,
       <<p.epoch \in MissingDeltas,                          "ROTATION_MISSING">>,
       <<p.served.signer # p.served.key,                     "SIGNATURE_INVALID">>,
       <<Delta(p.epoch).previous # PreviousCorpus(p),        "DELTA_CONTINUITY">> >>)

(***************************************************************************)
(* Where the replay starts                                                 *)
(***************************************************************************)
SnapshotAvailable(p) == disk.snapshot # None /\ p.saved # None

PassRecovery(p) == RecoveryFor(Recovery, p.epoch, p.opts.fullHistory)

From(p) ==
  FirstBlock(p.opts.from, IF SnapshotAvailable(p) THEN p.saved.cursor ELSE None,
             PassRecovery(p), 1)

Source(p, head) ==
  ParentSource(p.opts.parent, SnapshotAvailable(p), From(p).source, ParentRoot(p.epoch, head))

ParentState(p, head) ==
  CASE Source(p, head) = "explicit-file"   -> p.opts.parent
    [] Source(p, head) = "snapshot"        -> disk.snapshot
    [] Source(p, head) = "launch-recovery" -> PassRecovery(p).root
    [] Source(p, head) = "blank-substrate" -> Blank

BootstrapVerdict(p, head) ==
  LET guard == From(p).source = "launch-recovery"
  IN  Verdict(
        << <<guard /\ PassRecovery(p).root #
                (IF PassRecovery(p).block > Len(chain) THEN Blank
                 ELSE LiveRoot(p.epoch, PassRecovery(p).block)), "RECOVERY_GUARD">>,
           <<Source(p, head) = "none", "NO_BOOTSTRAP">>,
           <<Source(p, head) = "snapshot" /\ disk.snapshot # p.saved.root, "STATE_DIR_CORRUPT">> >>)

(***************************************************************************)
(* The registry replay and the count of transitions                        *)
(***************************************************************************)
WindowAdvances(p, head) == AdvancesIn(From(p).block, head)

Window(p, head) == InReplayOrder(WindowAdvances(p, head))

NewCursor(p, head) == IF head >= From(p).block THEN head ELSE From(p).block - 1

\* Across epochs every event is checked against the pins of its own epoch;
\* inside one epoch against the pins of the epoch the pass is for.
Replayed(p, head) ==
  LET epochs == {a.epoch : a \in WindowAdvances(p, head)}
      pins == [e \in Epochs |-> IF epochs \subseteq {p.epoch} \/ e \notin epochs
                                THEN PinsOf(p.epoch) ELSE PinsOf(e)]
  IN  Replay(ParentState(p, head), WindowAdvances(p, head),
             EventsIn(From(p).block, head, "finalize"), pins)

\* epochTransitions after this window
Transitions(p, head) ==
  LET kept == CASE Source(p, head) = "snapshot" -> p.saved.transitions
                [] Source(p, head) = "launch-recovery" ->
                     [e \in Epochs |-> IF e = Recovery.epoch THEN Recovery.index + 1 ELSE 0]
                [] OTHER -> [e \in Epochs |-> 0]
  IN  [e \in Epochs |->
         kept[e] + Cardinality({a \in WindowAdvances(p, head) : a.epoch = e})]

ReplayVerdict(p, head, replay) ==
  LET counted == IF Source(p, head) = "explicit-file" THEN replay.transitions
                 ELSE Transitions(p, head)[p.epoch]
  IN  IF replay.code # "ok" THEN replay.code
      ELSE Verdict(
        << <<replay.root # LiveRoot(p.epoch, head), "LIVE_ROOT_MISMATCH">>,
           <<counted # TransitionCount(p.epoch, head), "TRANSITION_COUNT_MISMATCH">> >>)

(***************************************************************************)
(* The score replay of the backlog                                         *)
(***************************************************************************)
Incoming(p, head) ==
  {EntryOf(a, NewCursor(p, head)) : a \in WindowAdvances(p, head)}

\* Mutant: the backlog is rebuilt from the window alone.
WholeBacklogOfWindow(p, head) == Incoming(p, head)

WholeBacklog(p, head) ==
  Upsert(IF p.saved = None THEN {} ELSE p.saved.backlog, Incoming(p, head))

ParentKnown(p, head, entry) ==
  \/ \E a \in WindowAdvances(p, head) : a.parent = entry.parent
  \/ ParentOnDisk(entry)

(***************************************************************************)
(* autoResolveCorpusByRoot from the launch corpus: the deltas of the       *)
(* epochs 1, 2, ... are applied until the target is reached; each must be  *)
(* published and continue the corpus reached so far.                       *)
(***************************************************************************)
WalkReaches(target) ==
  \A e \in 1..target : e \notin MissingDeltas /\ Delta(e).previous = e - 1

\* resolveScorerContextDecision and autoResolveCorpusForEntry.  The loaded
\* corpus and the launch corpus are returned before the version is compared.
\* (So is a corpus an earlier walk of the pass came by; the backlog is read in
\* the order of its blocks, so such a walk stops short of a later corpus.)
Resolvable(p, entry) ==
  \/ entry.corpus \in {ReleaseCorpus[bundle], 0}
  \/ entry.version = VersionOf(p.epoch) /\ WalkReaches(entry.corpus)

ToScore(p, head) ==
  IF p.opts.skip THEN {}
  ELSE {e \in WholeBacklog(p, head) :
          e.epoch \in Revealed(head) /\ Resolvable(p, e) /\ ParentKnown(p, head, e)}

Secret(e) == <<"secret", e>>
Blockhash(n) == <<"block", n>>
TrueScore == 2
Tolerance == 1

\* Every context, also one built for the corpus of an entry, scores with the
\* profile and the reranker of the loaded bundle: an entry of that version gets
\* its own score, an entry of another version whatever those two make of it.
ReplayedScores(p, head) ==
  {score \in [ToScore(p, head) -> {TrueScore} \cup OtherScores] :
     \A e \in DOMAIN score : e.version = bundle => score[e] = TrueScore}

\* The published report an entry's hash leads to.
Published(entry) ==
  LET claim == IF entry.artifact[4] = "forged" THEN TrueScore + Tolerance + 1 ELSE TrueScore
  IN  ReportOf(entry, Secret(entry.epoch), 1, 1, Blockhash(2), claim, claim, TrueScore, Tolerance)

\* Mutant: the report is fetched and bound, its scores are not replayed.
AuditVerdictUnscored(entry, score) ==
  IF entry.artifact[4] = "withheld" THEN "ARTIFACT_MISSING"
  ELSE IF ~BoundTo(Published(entry), entry) THEN "ARTIFACT_NOT_BOUND" ELSE "ok"

\* score: what the two packs replay to
AuditVerdict(entry, score) ==
  IF entry.artifact[4] = "withheld" THEN "ARTIFACT_MISSING"
  ELSE IF ~BoundTo(Published(entry), entry) THEN "ARTIFACT_NOT_BOUND"
  ELSE ArtifactVerdict(Published(entry), Secret(entry.epoch),
                       Blockhash(Published(entry).receipt.target), score, score)

\* One report that is missing or does not verify fails the whole pass.
BacklogVerdict(p, head, score) ==
  IF \E e \in ToScore(p, head) : AuditVerdict(e, score[e]) # "ok" THEN "AUDIT_FAILED" ELSE "ok"

(***************************************************************************)
(* Staging, committing, collecting                                         *)
(***************************************************************************)
PassVerdict(p, head, score) ==
  LET context == ContextVerdict(p, head)
      bootstrap == BootstrapVerdict(p, head)
      replay == ReplayVerdict(p, head, Replayed(p, head))
  IN  IF context # "ok" THEN context
      ELSE IF bootstrap # "ok" THEN bootstrap
      ELSE IF replay # "ok" THEN replay
      ELSE BacklogVerdict(p, head, score)

\* evalVerifiedThroughBlock moves only when nothing is owed.
VerifiedThrough(p, head, backlog) ==
  LET prior == IF p.saved = None THEN -1 ELSE p.saved.verifiedTo
  IN  IF backlog = {} /\ ~p.opts.skip /\ NewCursor(p, head) > prior
      THEN NewCursor(p, head) ELSE prior

NewState(p, head, backlog) ==
  [root |-> Replayed(p, head).root, cursor |-> NewCursor(p, head),
   transitions |-> Transitions(p, head), corpus |-> Delta(p.epoch).next,
   backlog |-> backlog, verifiedTo |-> VerifiedThrough(p, head, backlog),
   key |-> p.served.key]

\* Every write a pass stages, in the order it stages them.
Write(file, at, value) == [file |-> file, at |-> at, value |-> value]

PinWrites(p) == IF disk.pin = None THEN <<Write("pin", None, p.served.key)>> ELSE <<>>

ParentWrites(p, head) ==
  [i \in DOMAIN Window(p, head) |->
     Write("parent", EntryKey(EntryOf(Window(p, head)[i], 0)), Window(p, head)[i].parent)]

\* Mutant: the state file is renamed before the parents its backlog names.
StagedWritesParentsLast(p, head, backlog) ==
  PinWrites(p)
  \o <<Write("snapshot", None, Replayed(p, head).root)>>
  \o <<Write("state", None, NewState(p, head, backlog))>>
  \o ParentWrites(p, head)

\* Mutant: the order of the class comment (lines 340-343), the pin last.
StagedWritesPinLast(p, head, backlog) ==
  <<Write("snapshot", None, Replayed(p, head).root)>>
  \o ParentWrites(p, head)
  \o <<Write("state", None, NewState(p, head, backlog))>>
  \o PinWrites(p)

StagedWrites(p, head, backlog) ==
  PinWrites(p)
  \o <<Write("snapshot", None, Replayed(p, head).root)>>
  \o ParentWrites(p, head)
  \o <<Write("state", None, NewState(p, head, backlog))>>

\* Any refused check ends the pass with the staged files removed; under
\* --allow-version-mismatch a good pass ends too, with nothing staged.
EndWithoutCommit ==
  /\ pc' = "idle"
  /\ pass' = NoPass
  /\ UNCHANGED <<chain, bundle, disk, audited>>

StageAll(head) ==
  LET scored == ToScore(pass, head)
      backlog == WholeBacklog(pass, head) \ scored
  IN  /\ pass' = [pass EXCEPT !.staged = StagedWrites(pass, head, backlog),
                              !.backlog = backlog,
                              !.passed = scored]
      /\ pc' = "committing"
      /\ UNCHANGED <<chain, bundle, disk, audited>>

RunPass ==
  /\ pc = "started"
  /\ \E score \in ReplayedScores(pass, ConfirmedHead) :
       LET verdict == PassVerdict(pass, ConfirmedHead, score)
       IN  \/ /\ verdict # "ok" \/ ReadOnly(pass)
              /\ EndWithoutCommit
           \/ /\ verdict = "ok" /\ ~ReadOnly(pass)
              /\ StageAll(ConfirmedHead)

Renamed(d, w) ==
  CASE w.file = "pin"      -> [d EXCEPT !.pin = w.value]
    [] w.file = "snapshot" -> [d EXCEPT !.snapshot = w.value]
    [] w.file = "parent"   ->
         [d EXCEPT !.parents = [k \in DOMAIN d.parents \cup {w.at} |->
                                  IF k = w.at THEN w.value ELSE d.parents[k]]]
    [] w.file = "state"    -> [d EXCEPT !.state = w.value]

\* TrustedStateStaging.commit(): one rename.
CommitFile ==
  /\ pc = "committing"
  /\ pass.staged # <<>>
  /\ disk' = Renamed(disk, Head(pass.staged))
  /\ audited' = IF Head(pass.staged).file = "state" THEN audited \cup pass.passed ELSE audited
  /\ pass' = [pass EXCEPT !.staged = Tail(@)]
  /\ UNCHANGED <<chain, bundle, pc>>

\* gcEvalParentSnapshots: the snapshots no entry of the new backlog names.
Collected(parents, backlog) ==
  [k \in {EntryKey(e) : e \in backlog} \cap DOMAIN parents |-> parents[k]]

EndPass ==
  /\ pc = "committing"
  /\ pass.staged = <<>>
  /\ disk' = [disk EXCEPT !.parents = Collected(@, pass.backlog)]
  /\ pc' = "idle"
  /\ pass' = NoPass
  /\ UNCHANGED <<chain, bundle, audited>>

Pass == StartPass \/ RunPass \/ CommitFile \/ EndPass

(***************************************************************************)
(* The operator                                                            *)
(***************************************************************************)
Crash ==
  /\ pc # "idle"
  /\ pc' = "idle"
  /\ pass' = NoPass
  /\ UNCHANGED <<chain, bundle, disk, audited>>

\* "the state dir is corrupt; delete it and re-sync from the deploy block"
DeleteStateDir ==
  /\ pc = "idle"
  /\ disk # EmptyDir
  /\ disk' = EmptyDir
  /\ audited' = {}
  /\ UNCHANGED <<chain, bundle, pc, pass>>

\* coretex-client-setup for the release the chain now pins
SetUpAgain ==
  /\ pc = "idle"
  /\ bundle' = VersionOf(EpochAt(Len(chain)))
  /\ bundle' # bundle
  /\ UNCHANGED <<chain, disk, pc, pass, audited>>

Init ==
  /\ chain = <<>>
  /\ bundle = LaunchVersion
  /\ disk = EmptyDir
  /\ pc = "idle"
  /\ pass = NoPass
  /\ audited = {}

Next == Chain \/ Pass \/ Crash \/ DeleteStateDir \/ SetUpAgain

Spec == Init /\ [][Next]_vars

(***************************************************************************)
(* Properties                                                              *)
(***************************************************************************)
\* The states a pass takes over unaudited: the launch-recovery pin of the release
\* and the parent file of the command line.
Vouched ==
  {o.parent : o \in {o \in Options : o.parent # None}}
  \cup (IF Recovery = None THEN {} ELSE {Recovery.root})

\* The advances up to block n, and the block of the k-th one.
Count(n) == Cardinality(BlocksIn(1, n, "advance"))

Nth(k) == CHOOSE i \in BlocksIn(1, Len(chain), "advance") : Count(i) = k

Ledger ==
  [k \in 1..Count(ConfirmedHead) |->
     LET a == chain[Nth(k)].event
     IN  [patch |-> a.payload, epoch |-> a.epoch, version |-> a.version,
          honest |-> a.report = "honest"]]

\* The client implements TrustedReplica: what the state file holds is a state
\* the confirmed registry reached, it only moves forward, and an advance stops
\* being owed only when its epoch is revealed and its report reproduces.  Of an
\* advance of another version than the installed one that says nothing about the
\* report: lines 767-773, 981-983 and 2168-2174 want it left pending, and it is
\* rescored with the installed scorer once its corpus is the loaded or the launch
\* one.
Trusted == INSTANCE TrustedReplica WITH
  ledger <- Ledger,
  revealed <- Revealed(ConfirmedHead),
  scorer <- bundle,
  replica <- IF disk.state = None THEN None ELSE disk.state.root,
  owed <- IF disk.state = None THEN {}
          ELSE {Len(e.parent) + 1 : e \in disk.state.backlog}

ReplicaImplemented == Trusted!Spec

\* evalVerifiedThroughBlock: every advance at or below that block had its
\* scores replayed by the scorer the client then held (or is one a vouched state
\* stands for), whatever crashes and skipped score replays came before.
VerifiedThroughIsAudited ==
  disk.state # None =>
    \A a \in AdvancesIn(1, disk.state.verifiedTo) :
      \/ \E v \in Vouched : Len(a.parent) < Len(v)
      \/ \E e \in audited : EntryKey(e) = EntryKey(EntryOf(a, 0))

\* A restart between any two renames leaves every owed advance with the parent
\* snapshot it is rescored from (lines 1863-1870: "a restart ... can never
\* permanently skip a required score replay").
BacklogHasItsParents ==
  disk.state # None => \A e \in disk.state.backlog : ParentOnDisk(e)

\* First use decides: a state file is only ever written beside the pin of the
\* key its deltas were signed with.
StateUnderPin ==
  disk.state # None => disk.pin = disk.state.key

\* client-sync-cli.ts:27, 548-549, 1776 ("cumulative across incremental syncs"):
\* a pass that continues from its snapshot replays what the registry did since.
\* The registry numbers its advances without gaps, so such a window is never out
\* of order.
IncrementalReplayInOrder ==
  LET head == ConfirmedHead IN
    /\ pc = "started"
    /\ ContextVerdict(pass, head) = "ok"
    /\ BootstrapVerdict(pass, head) = "ok"
    /\ From(pass).source = "snapshot-cursor"
    => Replayed(pass, head).code # "OUT_OF_ORDER"
=============================================================================
