--------------------------- MODULE PostRevealAudit ---------------------------
(***************************************************************************)
(* PostRevealAudit: what a client checks of a published evaluation report  *)
(* once the epoch's secret is revealed                                     *)
(* (src/replay/eval-report-artifact.ts, src/replay/per-patch.ts, and the   *)
(* binding to the chain in src/client-sync-cli.ts).  A hash is the tuple   *)
(* of what it hashes; a patch value is the patch up to its score delta,    *)
(* which the coordinator rewrites before it signs.                         *)
(*                                                                         *)
(* An artifact is                                                          *)
(*   [epoch, miner, patch, threshold, seed, receipt, context, hash, report] *)
(*   seed    = [epoch, received, target, offset, blockhash, patch, parent, *)
(*              corpus, version]                                           *)
(*   receipt = [epoch, parent, miner, accepted, gate, confirm, received,   *)
(*              target, blockhash, patch, gateSeed, confirmSeed, dedup]    *)
(*   context = [parent, corpus, version, commit, tolerance]                *)
(***************************************************************************)
EXTENDS Integers, Sequences, OrderedChecks

\* hashPostRevealEvalReportArtifact: everything but the two hash fields.
ArtifactHash(a) ==
  <<"artifact", a.epoch, a.miner, a.patch, a.threshold, a.seed, a.receipt, a.context>>

SecretCommit(secret) == <<"commit", secret>>

DedupKey(parent, patch) == <<"dedup", parent, patch>>

\* deriveGateEvalSeed, deriveConfirmEvalSeed
EvalSeed(which, secret, receipt, corpus, version) ==
  <<which, secret, receipt.blockhash, receipt.epoch, receipt.patch, receipt.parent,
    corpus, version>>

WorsePack(receipt) ==
  IF receipt.gate <= receipt.confirm THEN receipt.gate ELSE receipt.confirm

\* validateArtifactShape, the part that is not about types
ShapeChecks(a) ==
  << <<a.receipt.epoch # a.epoch,          "EVAL_ARTIFACT_MALFORMED">>,
     <<a.receipt.parent # a.context.parent, "EVAL_ARTIFACT_MALFORMED">>,
     <<a.receipt.miner # a.miner,          "EVAL_ARTIFACT_MALFORMED">> >>

\* validateSeedDerivationBinding
SeedInputsAgree(a) ==
  /\ a.seed.epoch = a.epoch
  /\ a.seed.received = a.receipt.received
  /\ a.seed.target = a.receipt.target
  /\ a.seed.received + a.seed.offset = a.seed.target
  /\ a.seed.blockhash = a.receipt.blockhash
  /\ a.seed.patch = a.receipt.patch
  /\ a.seed.parent = a.receipt.parent
  /\ a.seed.parent = a.context.parent
  /\ a.seed.corpus = a.context.corpus
  /\ a.seed.version = a.context.version

Far(claimed, replayed, tolerance) ==
  claimed - replayed > tolerance \/ replayed - claimed > tolerance

\* verifyPerPatchReceipt, with the chain's hash of the target block and the
\* scores that the two packs replay to.  A receipt that says it was never scored
\* (received = 0) passes once its patch and its dedup key reproduce.
ReceiptVerdict(a, secret, blockhash, gate, confirm) ==
  LET r == a.receipt
      identity ==
        << <<a.patch # r.patch, "PATCH_HASH_MISMATCH">>,
           <<DedupKey(r.parent, a.patch) # r.dedup, "DEDUP_KEY_MISMATCH">> >>
      seed(which) == EvalSeed(which, secret, r, a.context.corpus, a.context.version)
      scored ==
        << <<blockhash # r.blockhash, "BLOCKHASH_MISMATCH">>,
           <<seed("gate") # r.gateSeed, "GATE_SEED_MISMATCH">>,
           <<seed("confirm") # r.confirmSeed, "CONFIRM_SEED_MISMATCH">>,
           <<Far(r.gate, gate, a.context.tolerance),"GATE_SCORE_BEYOND_TOLERANCE">>,
           <<Far(r.confirm, confirm, a.context.tolerance),"CONFIRM_SCORE_BEYOND_TOLERANCE">> >>
  IN  Verdict(identity \o IF r.received = 0 THEN <<>> ELSE scored)

\* verifyPostRevealEvalReportArtifact
ArtifactVerdict(a, secret, blockhash, gate, confirm) ==
  LET own ==
        ShapeChecks(a)
        \o << <<ArtifactHash(a) # a.hash,        "EVAL_ARTIFACT_HASH_MISMATCH">>,
              <<a.report # a.hash,               "EVAL_REPORT_HASH_MISMATCH">>,
              <<~SeedInputsAgree(a),             "EVAL_ARTIFACT_SEED_INPUTS_MISMATCH">>,
              <<~a.receipt.accepted,             "EVAL_ARTIFACT_THRESHOLD_VIOLATION">>,
              <<WorsePack(a.receipt) < a.threshold, "EVAL_ARTIFACT_THRESHOLD_VIOLATION">>,
              <<SecretCommit(secret) # a.context.commit, "EPOCH_SECRET_COMMIT_MISMATCH">> >>
  IN  IF Refused(own) THEN Verdict(own)
      ELSE ReceiptVerdict(a, secret, blockhash, gate, confirm)

\* assertArtifactBoundToAdvance, assertArtifactBoundToEntry: the report is about
\* this advance, field by field.
BoundTo(a, advance) ==
  /\ a.epoch = advance.epoch
  /\ a.seed.patch = advance.payload
  /\ a.context.parent = advance.parent
  /\ a.context.corpus = advance.corpus
  /\ a.context.version = advance.version
  /\ a.miner = advance.miner

(***************************************************************************)
(* The report an honest coordinator publishes for an advance it scored     *)
(* (coordinator/production-evaluator.ts builds it from the pinned seed).   *)
(***************************************************************************)
ReportOf(adv, secret, received, offset, blockhash, gate, confirm, threshold, tolerance) ==
  LET receipt0 ==
        [epoch |-> adv.epoch, parent |-> adv.parent, miner |-> adv.miner,
         accepted |-> TRUE, gate |-> gate, confirm |-> confirm,
         received |-> received, target |-> received + offset, blockhash |-> blockhash,
         patch |-> adv.payload, dedup |-> DedupKey(adv.parent, adv.payload),
         gateSeed |-> "none", confirmSeed |-> "none"]
      receipt ==
        [receipt0 EXCEPT
           !.gateSeed = EvalSeed("gate", secret, receipt0, adv.corpus, adv.version),
           !.confirmSeed = EvalSeed("confirm", secret, receipt0, adv.corpus, adv.version)]
      body ==
        [epoch |-> adv.epoch, miner |-> adv.miner, patch |-> adv.payload,
         threshold |-> threshold,
         seed |-> [epoch |-> adv.epoch, received |-> received, target |-> received + offset,
                   offset |-> offset, blockhash |-> blockhash, patch |-> adv.payload,
                   parent |-> adv.parent, corpus |-> adv.corpus, version |-> adv.version],
         receipt |-> receipt,
         context |-> [parent |-> adv.parent, corpus |-> adv.corpus, version |-> adv.version,
                      commit |-> SecretCommit(secret), tolerance |-> tolerance]]
      hash == ArtifactHash(body)
  IN  [epoch |-> body.epoch, miner |-> body.miner, patch |-> body.patch,
       threshold |-> body.threshold, seed |-> body.seed, receipt |-> body.receipt,
       context |-> body.context, hash |-> hash, report |-> hash]
=============================================================================
