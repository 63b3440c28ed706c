---------------------------- MODULE ReceiptJoin ----------------------------
\* The Python validator's reading of a mining-rig deployment from its logs
\* (src/python/coretex_validator: join.py, rig_events.py, receipt_chain.py,
\* discovery.py, frontier.py and snapshot.py, which puts them together). Every
\* log has a transaction "tx" and its place "at" in the chain. What may be
\* missing is a set of at most one element, bytes are a sequence of at most one
\* descriptor, and a hash or a root is the thing it is computed from.
EXTENDS Integers, Sequences, FiniteSets, SequencesExt, OrderedChecks

InChainOrder(logs) == SetToSortSeq(logs, LAMBDA a, b : a.at < b.at)
ByTransitionIndex(advances) ==
  SetToSortSeq(advances, LAMBDA a, b :
    a.transitionIndex < b.transitionIndex \/ (a.transitionIndex = b.transitionIndex /\ a.at < b.at))

----------------------------------------------------------------------------
\* The receipt in a transaction's calldata. Its last two members are not signed.
NoHash == <<>>
UnsignedMembers == {"compactPatchBytes", "signature"}
HashedMembers ==
  {"rigId", "operator", "epochId", "solveIndex", "prevReceiptHash", "outcome", "parentStateRoot",
   "newStateRoot", "patchHash", "evalReportHash"}
Digest(receipt) == Restrict(receipt, DOMAIN receipt \ UnsignedMembers)
ReceiptHash(receipt) == [members |-> Restrict(receipt, HashedMembers), digest |-> Digest(receipt)]
EcRecover(digest, signature) == IF signature.over = digest THEN signature.by ELSE "nobody"

\* The members an advance repeats under the same name.
CToAFields ==
  {"parentStateRoot", "newStateRoot", "patchHash", "evalReportHash", "coreVersionHash",
   "epochContextRoot", "transitionFormatVersion"}

DescriptorVersion == 33
DescriptorBytes == 97
DescriptorHash(bytes) == bytes
DescriptorRefused(bytes, parent, root, version) ==
  \/ bytes = <<>>
  \/ bytes[1].version # DescriptorVersion
  \/ bytes[1].length # DescriptorBytes
  \/ bytes[1].artifact = 0
  \/ bytes[1].parent # parent
  \/ bytes[1].root # root
  \/ version # bytes[1].version

SignatureChecks(receipt, signer, verify) ==
  << <<verify /\ EcRecover(Digest(receipt), receipt.signature) # signer, "JOIN_SIGNATURE_INVALID">> >>

\* An advance with its credit and calldata. The hash of the descriptor is the
\* one check whose error the join does not catch.
JoinAdvance(advance, credit, calldata, signer, verify) ==
  LET receipt == CHOOSE r \in calldata : TRUE
  IN  IF \/ credit.epoch # advance.epoch
         \/ credit.operator # advance.miner
         \/ credit.creditsEarned # advance.improvementCredits
      THEN "JOIN_FIELD_MISMATCH"
      ELSE IF calldata = {} THEN "CALLDATA_DECODE_FAILURE"
      ELSE Verdict(
        << <<ReceiptHash(receipt) # credit.receiptHash, "JOIN_RECEIPT_HASH_MISMATCH">>,
           <<receipt.epochId # advance.epoch \/ \E f \in CToAFields : receipt[f] # advance[f],
             "JOIN_FIELD_MISMATCH">>,
           <<receipt.operator # advance.miner, "JOIN_FIELD_MISMATCH">>,
           <<receipt.compactPatchBytes # advance.compactPatchBytes, "JOIN_FIELD_MISMATCH">> >>
        \o SignatureChecks(receipt, signer, verify) \o
        << <<advance.patchHash = NoHash, "JOIN_ADVANCE_PATCH_HASH_ZERO">>,
           <<DescriptorHash(advance.compactPatchBytes) # advance.patchHash, "RigEventError">>,
           <<DescriptorRefused(advance.compactPatchBytes, advance.parentStateRoot,
                               advance.newStateRoot, receipt.transitionFormatVersion),
             "JOIN_DESCRIPTOR_BINDING_INVALID">>,
           <<receipt.outcome # 2, "JOIN_FIELD_MISMATCH">> >>)

\* A credit without an advance: only the receipt's hash binds the two.
JoinScreener(credit, calldata, signer, verify) ==
  LET receipt == CHOOSE r \in calldata : TRUE
  IN  IF calldata = {} THEN "CALLDATA_DECODE_FAILURE"
      ELSE Verdict(
        << <<ReceiptHash(receipt) # credit.receiptHash, "JOIN_RECEIPT_HASH_MISMATCH">> >>
        \o SignatureChecks(receipt, signer, verify) \o
        << <<receipt.outcome # 1, "JOIN_FIELD_MISMATCH">>,
           <<\/ receipt.compactPatchBytes # <<>>
             \/ receipt.transitionFormatVersion # 0 \/ receipt.scoreBeforePpm # 0
             \/ receipt.scoreAfterPpm # 0 \/ receipt.patchHash # NoHash,
             "JOIN_SCREENER_DISCIPLINE_VIOLATED">> >>)

\* Everything one transaction logged: the signer is the one of the credit's place.
JoinTransaction(advances, credits, calldata, signerAt, verify) ==
  LET credit == CHOOSE c \in credits : TRUE
      advance == CHOOSE a \in advances : TRUE
  IN  CASE credits = {} -> "JOIN_CREDIT_EVENT_MISSING"
        [] credits # {} /\ (Cardinality(advances) > 1 \/ Cardinality(credits) > 1) ->
             "JOIN_AMBIGUOUS_TRANSACTION"
        [] Cardinality(credits) = 1 /\ advances = {} ->
             JoinScreener(credit, calldata, signerAt[credit.at], verify)
        [] Cardinality(credits) = 1 /\ Cardinality(advances) = 1 ->
             JoinAdvance(advance, credit, calldata, signerAt[credit.at], verify)

\* A root may be a parent twice within an epoch, but not with one patch.
ThreePartKey(advance) == <<advance.epoch, advance.parentStateRoot, advance.patchHash>>
TwoPartKey(advance) == <<advance.epoch, advance.parentStateRoot>>
KeysCollide(advances) == Cardinality({ThreePartKey(a) : a \in advances}) # Cardinality(advances)
Cycled(advances) == Cardinality({TwoPartKey(a) : a \in advances}) # Cardinality(advances)

\* The whole scan; an error that is not a join's, and two advances of one key,
\* end it without a result. calldata: from transactions to what they carry.
JoinAll(advances, credits, calldata, signerAt, verify) ==
  LET of(logs, tx) == {l \in logs : l.tx = tx}
      verdict(tx) == JoinTransaction(of(advances, tx), of(credits, tx), calldata[tx], signerAt, verify)
      txs == {l.tx : l \in advances} \cup {l.tx : l \in credits}
      joined == {tx \in txs : verdict(tx) = "ok"}
      moved == {tx \in joined : of(advances, tx) # {}}
  IN  IF KeysCollide(advances) \/ \E tx \in txs : verdict(tx) = "RigEventError"
      THEN [done |-> FALSE]
      ELSE [done |-> TRUE, transitions |-> moved, screeners |-> joined \ moved,
            unresolved |-> {<<tx, verdict(tx)>> : tx \in txs \ joined}]

\* What a snapshot takes: nothing unresolved, one transition for each advance.
RowsAccepted(join, advances) ==
  /\ join.done
  /\ join.unresolved = {}
  /\ Cardinality(join.transitions) = Cardinality(advances)

----------------------------------------------------------------------------
\* The receipts of a rig, of both lanes: one chain of indexes and hashes. An
\* index that is not the expected one is a problem, and the count goes on from it.
CreditsOfRig(credits, rig) == InChainOrder({c \in credits : c.rigId = rig})
ReplayRigChain(rig, credits, start, chainNext, chainLast) ==
  LET step(run, credit) ==
        [expected |-> credit.solveIndex + 1, last |-> {credit.receiptHash},
         dense |-> run.dense /\ credit.solveIndex = run.expected]
      run == FoldLeft(step, [expected |-> start, dense |-> TRUE,
                             last |-> IF start = 0 THEN {0} ELSE {}],
                      CreditsOfRig(credits, rig))
  IN  [complete |-> {n = run.expected : n \in chainNext},
       ok |-> /\ run.dense
              /\ \A n \in chainNext : n = run.expected
              /\ \A h \in chainLast, l \in run.last : h = l]

\* A snapshot's: from the rig's head before the activation to its head at the
\* end. Only a CoreTex receipt, found by its credit's index, is held against
\* its predecessor. receipts: from indexes to what was joined there.
ReceiptRowsAccepted(rig, credits, receipts, start, end) ==
  LET rows == CreditsOfRig(credits, rig)
      before(k) == IF k = 1 THEN start.last ELSE rows[k - 1].receiptHash
  IN  /\ \A k \in DOMAIN rows :
           /\ rows[k].solveIndex = start.next + k - 1
           /\ rows[k].coretex => \E p \in receipts[rows[k].solveIndex] : p = before(k)
      /\ end.next = start.next + Len(rows)
      /\ end.last = before(Len(rows) + 1)

----------------------------------------------------------------------------
\* The coordinator's signer at a place: rotations strictly before it, each from
\* the signer the previous one left. An empty set is an error.
CoordinatorSignerAt(initial, updates, position) ==
  LET taken == InChainOrder({u \in updates : \A p \in position : u.at < p})
      before(k) == IF k = 1 THEN initial ELSE taken[k - 1].new
  IN  IF \A k \in DOMAIN taken : taken[k].old = before(k)
      THEN {before(Len(taken) + 1)} ELSE {}

\* The feed from the activation's block to a confirmed one: the head and the
\* first block are looked at, the rotations are read, then the logs a chunk at a
\* time, and both blocks are looked at again. chain[t]: the chain at the t-th of
\* these reads, from blocks to their hashes; a chunk is one block.
ScanPublicFeed(chain, first, last) ==
  LET again == 4 + last - first + 1
  IN  [rotations |-> chain[3], logs |-> [b \in first..last |-> chain[4 + b - first][b]],
       ok |-> chain[again][first] = chain[2][first] /\ chain[again + 1][last] = chain[1][last]]

\* activation: [epoch, block, genesis, lock]; every log has its block.
ValidPublicFeed(activation, advances, credits, contexts) ==
  LET first == {c \in contexts : c.epoch = activation.epoch}
  IN  /\ \A l \in advances \cup credits \cup contexts : l.block >= activation.block
      /\ \A l \in advances \cup contexts \cup {c \in credits : c.coretex} :
           l.epoch >= activation.epoch
      /\ Cardinality(first) = 1
      /\ \A c \in first : c.block = activation.block /\ c.parentStateRoot = activation.genesis
      /\ \A c \in contexts : c.coreVersionHash = activation.lock

----------------------------------------------------------------------------
\* Each epoch with advances, from the context last set before the first of them.
ContextsOf(contexts, epoch) == InChainOrder({c \in contexts : c.epoch = epoch})
ContextFor(contexts, epoch) ==
  LET found == ContextsOf(contexts, epoch) IN IF found = <<>> THEN {} ELSE {Last(found)}
EpochContinues(advances, contexts) ==
  LET ordered == ByTransitionIndex(advances)
      before == {c \in contexts : c.at < ordered[1].at}
      context == Last(InChainOrder(before))
      parent(k) == IF k = 1 THEN context.parentStateRoot ELSE ordered[k - 1].newStateRoot
  IN  /\ before # {}
      /\ \A c \in contexts : c.at < ordered[1].at
      /\ \A k \in DOMAIN ordered :
           /\ ordered[k].transitionIndex = k - 1
           /\ ordered[k].parentStateRoot = parent(k)
           /\ ordered[k].epochContextRoot = context.epochContextRoot
           /\ ordered[k].coreVersionHash = context.coreVersionHash
ContextParentContinuity(advances, contexts) ==
  \A e \in {a.epoch : a \in advances} :
    EpochContinues({a \in advances : a.epoch = e}, {c \in contexts : c.epoch = e})

\* The frontier rebuilt from the genesis, advance after advance as they come in
\* the feed: a set of at most one root.
ReconstructFrontier(genesis, advances, contexts) ==
  LET step(current, advance) ==
        IF /\ \E c \in ContextFor(contexts, advance.epoch) :
                c.epochContextRoot = advance.epochContextRoot
           /\ current = {advance.parentStateRoot}
        THEN {advance.newStateRoot} ELSE {}
  IN  FoldLeft(step, {genesis}, InChainOrder(advances))

\* A snapshot at an epoch whose count and root the chain reports.
SnapshotAccepted(genesis, advances, contexts, epoch, view) ==
  /\ ContextFor(contexts, epoch) # {}
  /\ ContextParentContinuity(advances, contexts)
  /\ Cardinality({a \in advances : a.epoch = epoch}) = view[epoch].count
  /\ ReconstructFrontier(genesis, advances, contexts) = {view[epoch].live}

\* From an epoch back to the last one served before it, unless there is none:
\* an epoch without a context, or that never advanced, is passed over.
Served(view, epoch) == view[epoch].hasContext /\ view[epoch].count > 0
WalkLineage(view, from, backTo) ==
  LET served == {e \in backTo..from - 1 : Served(view, e)}
      last == CHOOSE e \in served : \A d \in served : d <= e
      expected == view[from].parent
  IN  IF served = {} THEN [unbroken |-> TRUE, flagged |-> FALSE, final |-> expected]
      ELSE [unbroken |-> view[last].live = expected, flagged |-> ~view[last].finalized,
            final |-> view[last].live]

----------------------------------------------------------------------------
\* The frontier manifest and the transition of one profile's release. pins: what
\* the confirmed epoch context fixes; an epoch that is not given is the parent's.
EpochPinnedFields == {"benchmarkLawRoot", "runtimeAbiRoot"}
AdoptOrCarry(manifest, pins, field) ==
  IF field \in DOMAIN pins THEN pins[field] ELSE manifest[field]
ApplyTransition(manifest, transition, epoch, pins) ==
  LET target == transition.targetProfile
      verdict == Verdict(
        << <<transition.newReleaseRoot = transition.expectedPriorReleaseRoot, "NoOpTransition">>,
           <<\E e \in epoch : e < manifest.epoch, "EpochRegression">>,
           <<transition.expectedPriorReleaseRoot # manifest.profiles[target], "StaleParent">>,
           <<transition.resultingCompositionRoot = manifest.defaultCompositionRoot,
             "CompositionUnchanged">> >>)
  IN  IF verdict # "ok" THEN {}
      ELSE {[epoch |-> IF epoch = {} THEN manifest.epoch ELSE CHOOSE e \in epoch : TRUE,
             parentFrontierRoot |-> <<manifest>>,
             benchmarkLawRoot |-> AdoptOrCarry(manifest, pins, "benchmarkLawRoot"),
             runtimeAbiRoot |-> AdoptOrCarry(manifest, pins, "runtimeAbiRoot"),
             defaultCompositionRoot |-> transition.resultingCompositionRoot,
             profiles |-> [manifest.profiles EXCEPT ![target] = transition.newReleaseRoot]]}
VerifyTransition(manifest, transition, claimed, epoch, pins) ==
  \E child \in ApplyTransition(manifest, transition, epoch, pins) : <<child>> = claimed
=============================================================================
