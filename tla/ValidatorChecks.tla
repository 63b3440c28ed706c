-------------------------- MODULE ValidatorChecks --------------------------
\* What the validator's join binds and its snapshot accepts, over small sets of
\* logs: TLC evaluates every assumption below before it checks the instance that
\* extends this module.
EXTENDS ReceiptJoin, TLC

Edge(parent, root, artifact) ==
  [version |-> DescriptorVersion, length |-> DescriptorBytes, artifact |-> artifact, parent |-> parent,
   root |-> root]
Signed(members, bytes, signer) ==
  members @@ [compactPatchBytes |-> bytes, signature |-> [by |-> signer, over |-> members]]
AdvanceReceipt(parent, root, artifact) ==
  Signed([rigId |-> 1, operator |-> "miner", epochId |-> 3, solveIndex |-> 0, prevReceiptHash |-> 0,
          outcome |-> 2, parentStateRoot |-> parent, newStateRoot |-> root,
          patchHash |-> <<Edge(parent, root, artifact)>>, evalReportHash |-> 4, coreVersionHash |-> 1,
          epochContextRoot |-> 1, transitionFormatVersion |-> DescriptorVersion,
          artifactHash |-> artifact, rulesVersion |-> 1, scoreBeforePpm |-> 0, scoreAfterPpm |-> 1],
         <<Edge(parent, root, artifact)>>, "coordinator")
ScreenerReceipt ==
  LET r == AdvanceReceipt(0, 1, 5)
  IN  Signed([Digest(r) EXCEPT !.outcome = 1, !.patchHash = NoHash, !.transitionFormatVersion = 0,
                               !.scoreAfterPpm = 0], <<>>, "coordinator")

LoggedAdvance(r, tx, at) ==
  [epoch |-> r.epochId, miner |-> r.operator, improvementCredits |-> 7, transitionIndex |-> 0,
   compactPatchBytes |-> r.compactPatchBytes, tx |-> tx, at |-> at] @@ Restrict(r, CToAFields)
LoggedCredit(r, tx, at) ==
  [epoch |-> r.epochId, operator |-> r.operator, creditsEarned |-> 7, rigId |-> r.rigId,
   solveIndex |-> r.solveIndex, receiptHash |-> ReceiptHash(r), coretex |-> TRUE, tx |-> tx, at |-> at]

\* Another value for one field of a log or a receipt.
Other(value, field) ==
  CASE field \in {"patchHash", "compactPatchBytes"} -> <<Edge(8, 9, 9)>>
    [] field \in {"operator", "miner"} -> "other"
    [] field = "signature" -> [value EXCEPT !.by = "other"]
    [] field = "receiptHash" -> [value EXCEPT !.members.rigId = 99]
    [] field = "coretex" -> ~value
    [] OTHER -> 99
Altered(r, field) == [r EXCEPT ![field] = Other(@, field)]
Unnoticed(r, Accepted(_)) == {f \in DOMAIN r : Accepted(Altered(r, f))}

OneAdvance == AdvanceReceipt(0, 1, 5)
JoinOf(advance, credit, receipt, verify) ==
  JoinAdvance(advance, credit, {receipt}, "coordinator", verify) = "ok"
ScreenerOf(credit, receipt, verify) == JoinScreener(credit, {receipt}, "coordinator", verify) = "ok"

(* No member of the receipt can be another than the one that was credited    *)
(* and logged, except for the signature when it is not verified. The logs'   *)
(* own fields are bound too, but for the advance's index and, in a credit,   *)
(* the rig and its receipt's index: these are the continuity checks' to find.*)
ASSUME JoinBindsAdvance ==
  \A verify \in BOOLEAN :
    LET a == LoggedAdvance(OneAdvance, 1, 1)
        c == LoggedCredit(OneAdvance, 1, 2)
    IN  /\ JoinOf(a, c, OneAdvance, verify)
        /\ Unnoticed(OneAdvance, LAMBDA r : JoinOf(a, c, r, verify))
             = IF verify THEN {} ELSE {"signature"}
        /\ Unnoticed(a, LAMBDA l : JoinOf(l, c, OneAdvance, verify)) = {"transitionIndex", "tx", "at"}
        /\ Unnoticed(c, LAMBDA l : JoinOf(a, l, OneAdvance, verify))
             = {"rigId", "solveIndex", "coretex", "tx", "at"}

(* A screener's credit is bound to its receipt by the hash alone: its epoch, *)
(* its operator and what it earned are taken from the log.                   *)
ASSUME JoinBindsScreener ==
  LET c == LoggedCredit(ScreenerReceipt, 1, 2)
  IN  /\ ScreenerOf(c, ScreenerReceipt, TRUE)
      /\ Unnoticed(ScreenerReceipt, LAMBDA r : ScreenerOf(c, r, TRUE)) = {}
      /\ Unnoticed(c, LAMBDA l : ScreenerOf(l, ScreenerReceipt, TRUE)) = DOMAIN c \ {"receiptHash"}

(* Logs that agree with a receipt the coordinator never signed are refused   *)
(* only where the signature is verified, advance or not.                     *)
ASSUME ForgedLogsNeedASigner ==
  \A r \in {OneAdvance, ScreenerReceipt}, f \in {"artifactHash", "rulesVersion", "evalReportHash"},
     verify \in BOOLEAN :
    LET forged == Altered(r, f)
        c == LoggedCredit(forged, 1, 2)
    IN  (IF r.outcome = 2 THEN JoinOf(LoggedAdvance(forged, 1, 1), c, forged, verify)
         ELSE ScreenerOf(c, forged, verify)) = ~verify

(* Signed as it may be, a receipt of one outcome is not taken for the other: *)
(* what moved no root names no patch and no score, and an advance's receipt  *)
(* says that it is one.                                                      *)
ASSUME OutcomeFitsTheLogs ==
  LET resigned(r, f, value) ==
        Signed([Digest(r) EXCEPT ![f] = value], r.compactPatchBytes, "coordinator")
      screened(r) == ScreenerOf(LoggedCredit(r, 1, 2), r, TRUE)
      advanced(r) == JoinOf(LoggedAdvance(r, 1, 1), LoggedCredit(r, 1, 2), r, TRUE)
  IN  /\ ~screened(OneAdvance) /\ ~advanced(ScreenerReceipt)
      /\ ~screened(resigned(ScreenerReceipt, "outcome", 2)) /\ ~advanced(resigned(OneAdvance, "outcome", 1))
      /\ \A f \in {"transitionFormatVersion", "scoreBeforePpm", "scoreAfterPpm"} :
           ~screened(resigned(ScreenerReceipt, f, 1))
      /\ ~screened(resigned(ScreenerReceipt, "patchHash", <<Edge(0, 1, 5)>>))
      /\ ~screened([ScreenerReceipt EXCEPT !.compactPatchBytes = <<Edge(0, 1, 5)>>])

----------------------------------------------------------------------------
\* Three advances over two roots, each in a transaction of its own or not.
Walks == {w \in [0..3 -> 0..2] : \A k \in 1..3 : w[k] # w[k - 1]}
WalkReceipts(walk, artifacts) == [k \in 1..3 |-> AdvanceReceipt(walk[k - 1], walk[k], artifacts[k])]
JoinWalk(receipts, txs, screened) ==
  LET advances == {LoggedAdvance(receipts[k], txs[k], 2 * k) : k \in 1..3}
      credits == {LoggedCredit(receipts[k], txs[k], 2 * k + 1) : k \in 1..3}
      screener == IF screened THEN {LoggedCredit(ScreenerReceipt, 4, 9)} ELSE {}
  IN  [advances |-> advances,
       join |-> JoinAll(advances, credits \cup screener,
                        [tx \in 1..4 |-> IF tx = 4 THEN {ScreenerReceipt}
                           ELSE {receipts[k] : k \in {k \in 1..3 : txs[k] = tx /\ \A j \in 1..k - 1 : txs[j] # tx}}],
                        [at \in 1..9 |-> "coordinator"], TRUE)]

(* A head that comes back to a root joins whole as long as no edge recurs,   *)
(* though two parts of the key then name two advances; an edge that recurs   *)
(* ends the join, also when nothing else is wrong with it.                   *)
ASSUME CyclesJoin ==
  \A w \in Walks, artifacts \in [1..3 -> {5, 6}], screened \in BOOLEAN :
    LET receipts == WalkReceipts(w, artifacts)
        run == JoinWalk(receipts, [k \in 1..3 |-> k], screened)
        recurs == \E i, j \in 1..3 : i < j /\ receipts[i].patchHash = receipts[j].patchHash
    IN  /\ run.join.done = ~recurs
        /\ run.join.done => /\ RowsAccepted(run.join, run.advances)
                            /\ run.join.transitions = 1..3
                            /\ (run.join.screeners = {4}) = screened
        /\ Cycled(run.advances) = \E i, j \in 1..3 : i < j /\ w[i - 1] = w[j - 1]

(* Two advances in one transaction are both left out, whatever the others,   *)
(* and a snapshot is not made of the rest.                                   *)
ASSUME AmbiguousIsLeftOut ==
  \A w \in Walks, txs \in [1..3 -> 1..3] :
    LET run == JoinWalk(WalkReceipts(w, [k \in 1..3 |-> 4 + k]), txs, FALSE)
        alone == {k \in 1..3 : \A j \in 1..3 : txs[j] = txs[k] => j = k}
    IN  /\ run.join.transitions = {txs[k] : k \in alone}
        /\ run.join.unresolved = {<<txs[k], "JOIN_AMBIGUOUS_TRANSACTION">> : k \in 1..3 \ alone}
        /\ RowsAccepted(run.join, run.advances) = (alone = 1..3)

(* One confirmed log whose hash is not that of its bytes costs the whole     *)
(* scan, not its own transaction.                                            *)
ASSUME BadPatchHashEndsTheJoin ==
  LET bad == Signed([Digest(OneAdvance) EXCEPT !.patchHash = <<Edge(8, 9, 9)>>],
                    OneAdvance.compactPatchBytes, "coordinator")
      other == AdvanceReceipt(1, 2, 6)
  IN  ~JoinAll({LoggedAdvance(bad, 1, 1), LoggedAdvance(other, 2, 3)},
               {LoggedCredit(bad, 1, 2), LoggedCredit(other, 2, 4)},
               <<{bad}, {other}>>, [at \in 1..9 |-> "coordinator"], TRUE).done

----------------------------------------------------------------------------
\* The receipts of a rig, 1..4 of them, in the lanes given.
Hash(index) == 10 + index
Credit(index, coretex) ==
  [rigId |-> 1, solveIndex |-> index, receiptHash |-> Hash(index), coretex |-> coretex, at |-> index]
Joined(lanes) == [i \in 0..5 |-> IF i \in DOMAIN lanes /\ lanes[i]
                                 THEN {IF i = 0 THEN 0 ELSE Hash(i - 1)} ELSE {}]
RigHead(n) == [next |-> n, last |-> IF n = 0 THEN 0 ELSE Hash(n - 1)]

(* From the rig's head before the feed to its head after it, the replay and  *)
(* the snapshot both take a feed that has every receipt of both lanes, and no*)
(* other; without the head at the end the replay takes any beginning of it.  *)
ASSUME ChainOfReceipts ==
  \A n \in 1..4, start \in 0..3 : \A lanes \in [0..n - 1 -> BOOLEAN], seen \in SUBSET (0..n - 1) :
    LET credits == {Credit(i, lanes[i]) : i \in seen}
        replay(next, last) == ReplayRigChain(1, credits, start, next, last)
        rows == ReceiptRowsAccepted(1, credits, Joined(lanes), RigHead(start), RigHead(n))
        whole == seen = start..n - 1 /\ start <= n
    IN  /\ replay({n}, {Hash(n - 1)}).ok = whole
        /\ rows = whole
        /\ replay({}, {}).ok = \E m \in 0..n : seen = start..m - 1
        /\ replay({}, {}).complete = {}

(* A hash within the chain that is not the receipt's passes the replay, which*)
(* recomputes no link, and the snapshot unless a CoreTex receipt follows it. *)
ASSUME ReplacedHash ==
  \A n \in 2..4 : \A lanes \in [0..n - 1 -> BOOLEAN], k \in 0..n - 1 :
    LET credits == {[Credit(i, lanes[i]) EXCEPT !.receiptHash = IF i = k THEN 99 ELSE @] : i \in 0..n - 1}
    IN  /\ ReplayRigChain(1, credits, 0, {n}, {Hash(n - 1)}).ok = (k # n - 1)
        /\ ReceiptRowsAccepted(1, credits, Joined(lanes), RigHead(0), RigHead(n))
             = (k # n - 1 /\ ~lanes[k + 1])

----------------------------------------------------------------------------
Rotations == {s \in [0..3 -> {"a", "b", "c", "d"}] : s[0] = "a" /\ \A k \in 1..3 : s[k] # s[k - 1]}
RotationsSeen(signers, seen) ==
  {[old |-> signers[k - 1], new |-> signers[k], at |-> 2 * k] : k \in seen}

(* With every rotation seen, the signer of a place is the one the contract   *)
(* had there. Rotations that are missing show in the chain of the others, or *)
(* in the signer at the head, unless they led back to where they began.      *)
ASSUME SignerOfEachPlace ==
  \A signers \in Rotations, seen \in SUBSET (1..3) :
    LET at(position) == CoordinatorSignerAt("a", RotationsSeen(signers, seen), position)
        taken == at({}) = {signers[3]}
        returns == \E i, j \in 0..3 : i < j /\ signers[i] = signers[j]
    IN  /\ seen = 1..3 => taken /\ \A k \in 0..3 : at({2 * k + 1}) = {signers[k]}
        /\ seen = 1..3 => \A k \in 1..3 : at({2 * k}) = {signers[k - 1]}
        /\ taken /\ seen # 1..3 => returns

\* Two forks of three blocks that part after the first block, or before it.
Fork(f, common) == [b \in 1..3 |-> IF b <= common THEN <<0, b>> ELSE <<f, b>>]

(* A feed whose first and last block are unchanged at the end comes from one *)
(* chain, unless the chain left a fork and came back to it in between.       *)
ASSUME FeedOfOneChain ==
  \A common \in 0..1, forks \in [1..8 -> 0..1] :
    LET feed == ScanPublicFeed([t \in 1..8 |-> Fork(forks[t], common)], 1, 3)
        returns == \E i, j, k \in 1..8 : i < j /\ j < k /\ forks[i] = forks[k] /\ forks[j] # forks[i]
        one == feed.logs = Fork(forks[1], common) /\ feed.rotations = Fork(forks[1], common)
    IN  feed.ok /\ ~one => returns

----------------------------------------------------------------------------
\* Feeds of two epochs over the roots 0 and 1, a context of the first in front.
EpochIds == 1..2
ContextLogs == [kind : {"context"}, epoch : EpochIds, parentStateRoot : 0..1]
AdvanceLogs ==
  {a \in [kind : {"advance"}, epoch : EpochIds, transitionIndex : 0..1, parentStateRoot : 0..1,
          newStateRoot : 0..1] : a.newStateRoot # a.parentStateRoot}
FirstContext == [kind |-> "context", epoch |-> 1, parentStateRoot |-> 0]
PinnedLog(log, at) == log @@ [at |-> at, epochContextRoot |-> log.epoch, coreVersionHash |-> 1]
Feeds == {<<FirstContext>> \o f : f \in UNION {[1..n -> ContextLogs \cup AdvanceLogs] : n \in 0..3}}
LogsOf(feed, kind) == {PinnedLog(feed[k], k) : k \in {k \in DOMAIN feed : feed[k].kind = kind}}

\* The contracts: a context is not replaced once its epoch advanced.
NoContext == [hasContext |-> FALSE, parent |-> 0, live |-> 0, count |-> 0, finalized |-> FALSE]
ContractTakes(state, log) ==
  LET epoch == state[log.epoch]
  IN  IF log.kind = "context" THEN epoch.count = 0
      ELSE /\ epoch.hasContext
           /\ log.transitionIndex = epoch.count
           /\ log.parentStateRoot = epoch.live
ContractStep(state, log) ==
  IF log.kind = "context"
  THEN [state EXCEPT ![log.epoch].hasContext = TRUE, ![log.epoch].parent = log.parentStateRoot,
                     ![log.epoch].live = log.parentStateRoot]
  ELSE [state EXCEPT ![log.epoch].live = log.newStateRoot, ![log.epoch].count = @ + 1]
ContractRun(feed) ==
  FoldLeft(LAMBDA run, log : [taken |-> run.taken /\ ContractTakes(run.state, log),
                              state |-> ContractStep(run.state, log)],
           [taken |-> TRUE, state |-> [e \in EpochIds |-> NoContext]], feed)
InIndexOrder(feed) ==
  \A i, j \in DOMAIN feed :
    /\ i < j /\ feed[i].kind = "advance" /\ feed[j].kind = "advance" /\ feed[i].epoch = feed[j].epoch
    => feed[i].transitionIndex < feed[j].transitionIndex

(* The continuity checks take the feeds that the contracts can have logged;  *)
(* of others they only take some whose advances are not in chain order. The  *)
(* context they build on is then the one the epoch is looked up under.       *)
ASSUME ContinuityIsTheContracts ==
  \A feed \in Feeds :
    LET advances == LogsOf(feed, "advance")
        contexts == LogsOf(feed, "context")
        continues == ContextParentContinuity(advances, contexts)
    IN  /\ (continues /\ InIndexOrder(feed)) = ContractRun(feed).taken
        /\ continues => \A a \in advances :
             \E c \in ContextFor(contexts, a.epoch) :
               a.transitionIndex = 0 => c.parentStateRoot = a.parentStateRoot

\* The snapshot of a feed at the last epoch that has a context.
LastContextOf(feed) == IF \E k \in DOMAIN feed : feed[k].epoch = 2 THEN 2 ELSE 1
SnapshotOf(feed) ==
  SnapshotAccepted(0, LogsOf(feed, "advance"), LogsOf(feed, "context"), LastContextOf(feed),
                   ContractRun(feed).state)

(* A snapshot is only made of a feed the contracts can have logged, or one   *)
(* whose advances are not in chain order; in the first case every epoch that *)
(* advanced begins where the one served before it ended.                     *)
ASSUME SnapshotHasALineage ==
  \A feed \in Feeds :
    LET run == ContractRun(feed)
    IN  SnapshotOf(feed) /\ InIndexOrder(feed) =>
          /\ run.taken
          /\ \A e \in EpochIds : Served(run.state, e) \/ e = LastContextOf(feed) =>
               WalkLineage(run.state, e, 1).unbroken

(* Of a feed the contracts did log no snapshot is made when the operator set *)
(* a context on another root than the last one reached.                      *)
ASSUME SnapshotNeedsOneLine ==
  LET advance(e, from, to) == [kind |-> "advance", epoch |-> e, transitionIndex |-> 0,
                               parentStateRoot |-> from, newStateRoot |-> to]
      second(parent) == <<FirstContext, advance(1, 0, 1),
                          [kind |-> "context", epoch |-> 2, parentStateRoot |-> parent]>>
  IN  /\ ContractRun(second(0)).taken /\ ~SnapshotOf(second(0))
      /\ ~SnapshotOf(second(0) \o <<advance(2, 0, 1)>>)
      /\ SnapshotOf(second(1) \o <<advance(2, 1, 0)>>)

(* The feed begins with the one context of the activation epoch. A standard  *)
(* credit may carry an earlier epoch, the mining contract's clock being      *)
(* behind; nothing of the CoreTex lane may.                                  *)
ASSUME FeedBeginsAtActivation ==
  \A feed \in Feeds, epoch \in EpochIds, coretex \in BOOLEAN :
    LET activation == [epoch |-> epoch, block |-> 1, genesis |-> 0, lock |-> 1]
        blocked(kind) == {l @@ [block |-> IF l.at <= 2 THEN 1 ELSE l.at] : l \in LogsOf(feed, kind)}
        valid(credits) == ValidPublicFeed(activation, blocked("advance"), credits, blocked("context"))
        firsts == {k \in DOMAIN feed : feed[k].kind = "context" /\ feed[k].epoch = 1}
    IN  /\ valid({}) = (epoch = 1 /\ firsts = {1})
        /\ valid({Credit(0, coretex) @@ [block |-> 4, epoch |-> 0]}) = (valid({}) /\ ~coretex)

----------------------------------------------------------------------------
Manifests ==
  [epoch : {1}, parentFrontierRoot : {<<>>}, benchmarkLawRoot : {0}, runtimeAbiRoot : {0},
   defaultCompositionRoot : 0..1, profiles : [{"p", "q"} -> 0..1]]
Transitions ==
  [targetProfile : {"p", "q"}, expectedPriorReleaseRoot : 0..2, newReleaseRoot : 0..2,
   resultingCompositionRoot : 0..2]
NoPins == [f \in {} |-> 0]
PinSets == {NoPins} \cup [{"benchmarkLawRoot"} -> 0..1] \cup [EpochPinnedFields -> 0..1]

(* A transition gives one profile another release and changes no other; on   *)
(* what it gave it does not apply again, and an epoch never goes back.       *)
ASSUME TransitionMovesOneProfile ==
  \A m \in Manifests, t \in Transitions, epoch \in {{}, {0}, {1}, {2}} :
    \A child \in ApplyTransition(m, t, epoch, NoPins) :
      /\ {p \in {"p", "q"} : child.profiles[p] # m.profiles[p]} = {t.targetProfile}
      /\ child.defaultCompositionRoot # m.defaultCompositionRoot
      /\ child.epoch >= m.epoch
      /\ child.parentFrontierRoot = <<m>>
      /\ \A later \in {{}, {2}} : ApplyTransition(child, t, later, NoPins) = {}

(* A replay reproduces a root exactly under the pins and the epoch the child *)
(* was made with, or ones that give the same values.                         *)
ASSUME ReplayNeedsTheSamePins ==
  \A m \in Manifests, t \in Transitions, minted, given \in PinSets, e, f \in {{}, {1}, {2}} :
    \A child \in ApplyTransition(m, t, e, minted) :
      VerifyTransition(m, t, <<child>>, f, given)
        = (/\ \A field \in EpochPinnedFields :
                AdoptOrCarry(m, minted, field) = AdoptOrCarry(m, given, field)
           /\ (e = {2}) = (f = {2}))
=============================================================================
