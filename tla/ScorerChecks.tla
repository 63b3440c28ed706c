---------------------------- MODULE ScorerChecks ----------------------------
\* What the keyless scorer refuses before it scores (scorer-server-cli.ts) and
\* what the coordinator checks of its answer (coordinator/remote-scorer-verify.ts),
\* in the order of the code. Hashes and roots stand for what they are taken of.
\*   job      id, epoch, miner, parent, packed, patch, corpus, bundle, core,
\*            threshold, policy, shaped, pins, commit, seeds
\*   loaded   what the scorer booted with: model, revision, prompt, bundle,
\*            corpus, core, commit, and the epoch it binds artifacts to
\*   result   the answer; artifact and proof are records or NoRecord
\*   active   the coordinator's context when the answer comes
EXTENDS Integers, Sequences, OrderedChecks

CONSTANT NoRecord

\* validateJobShape: types, widths, hex (shaped), and a threshold that is one.
ShapeVerdict(job) == Verdict(<< <<~job.shaped, "MALFORMED">>, <<job.threshold < 0, "THRESHOLD">> >>)

\* The hidden-seed commitment is compared only when both sides have one. The
\* epoch of the job is not compared with the epoch the scorer booted for.
CommitDiffers(job, loaded) == NoRecord \notin {job.commit, loaded.commit} /\ job.commit # loaded.commit

\* Mutant: the commitment is not looked at.
PinsVerdictWithoutCommit(job, loaded) ==
  Verdict(<< <<job.corpus # loaded.corpus, "JOB_CORPUS">>, <<job.bundle # loaded.bundle, "JOB_BUNDLE">> >>)

PinsVerdict(job, loaded) ==
  Verdict(
    << <<job.pins.model # loaded.model,       "MODEL">>,
       <<job.pins.revision # loaded.revision, "REVISION">>,
       <<job.pins.prompt # loaded.prompt,     "PROMPT">>,
       <<job.pins.bundle # loaded.bundle,     "BUNDLE">>,
       <<job.pins.corpus # loaded.corpus,     "CORPUS">>,
       <<job.corpus # loaded.corpus,          "JOB_CORPUS">>,
       <<job.bundle # loaded.bundle,          "JOB_BUNDLE">>,
       <<job.core # loaded.core,              "JOB_CORE">>,
       <<CommitDiffers(job, loaded),          "COMMIT">> >>)

\* The parent substrate travels with the job and must hash to its root.
ParentVerdict(job) == Verdict(<< <<job.packed # job.parent, "PARENT_STATE">> >>)

\* Block, blockhash and both seeds come from the coordinator, all or nothing.
SeedVerdict(job) ==
  Verdict(<< <<job.seeds = NoRecord, "NO_CONTEXT">>,
             <<job.seeds # NoRecord /\ ~job.seeds.wellFormed, "SEED_CONTEXT">> >>)

\* handleScoreJob before it scores: the HTTP status, 200 to go on.
JobStatus(job, loaded) ==
  LET status == Verdict(<< <<ShapeVerdict(job) # "ok", "400">>,
                           <<PinsVerdict(job, loaded) # "ok", "409">>,
                           <<ParentVerdict(job) # "ok" \/ SeedVerdict(job) # "ok", "422">> >>)
  IN  IF status = "ok" THEN "200" ELSE status

----------------------------------------------------------------------------
\* The evaluator binds the artifact to the context the scorer booted with; only
\* the seeds, the patch, the parent, the miner and the threshold are the job's.
ArtifactOf(job, loaded, outcome) ==
  [epoch |-> loaded.epoch, corpus |-> loaded.corpus, core |-> loaded.core, commit |-> loaded.commit,
   parent |-> job.parent, patch |-> job.patch, miner |-> job.miner, threshold |-> job.threshold,
   seeds |-> job.seeds, outcome |-> outcome]

ProofOf(job, loaded, gate, confirm) ==
  [corpus |-> loaded.corpus, core |-> loaded.core, parent |-> job.parent,
   seeds |-> job.seeds, gate |-> gate, confirm |-> confirm]

\* The body of a 200 answer; trace is the pair trace as it stands.
Body(job, loaded, trace) ==
  [status |-> "200", id |-> job.id, threshold |-> job.threshold, policy |-> job.policy,
   trace |-> trace, health |-> loaded.health, accepted |-> FALSE, reason |-> "none",
   before |-> FALSE, gate |-> 0, confirm |-> 0, report |-> NoRecord, artifactHash |-> NoRecord,
   artifact |-> NoRecord, proof |-> NoRecord, rewritten |-> FALSE, wellFormed |-> TRUE]

RejectBody(job, loaded, trace, reason) == [Body(job, loaded, trace) EXCEPT !.reason = reason]

\* An accepted patch is a state advance when both packs clear the state
\* threshold of the scorer's own bundle.
AcceptBody(job, loaded, trace, gate, confirm) ==
  LET low == IF gate < confirm THEN gate ELSE confirm
      advance == low >= loaded.stateThreshold
      artifact == ArtifactOf(job, loaded, IF advance THEN "STATE_ADVANCE" ELSE "SCREENER_PASS")
  IN  [Body(job, loaded, trace) EXCEPT
         !.accepted = TRUE, !.gate = gate, !.confirm = confirm, !.artifact = artifact,
         !.report = artifact, !.artifactHash = artifact,
         !.proof = ProofOf(job, loaded, gate, confirm),
         !.before = advance, !.rewritten = advance]

ErrorBody(job, status) == [status |-> status, id |-> job.id]

----------------------------------------------------------------------------
\* The coordinator's checks. A stale context is refused before anything else the
\* scorer says is believed.
ContextVerdict(job, active) ==
  Verdict(
    << <<job.epoch # active.epoch,   "EPOCH">>,
       <<job.parent # active.parent, "PARENT">>,
       <<job.corpus # active.corpus, "CORPUS">>,
       <<job.bundle # active.bundle, "BUNDLE">>,
       <<job.core # active.core,     "CORE">>,
       <<job.policy # active.policy, "POLICY">> >>)

ProofVerdict(result, job, active) ==
  IF result.proof = NoRecord THEN "ok"
  ELSE Verdict(
    << <<\/ result.proof.corpus # active.corpus
         \/ result.proof.core # active.core
         \/ result.proof.parent # active.parent,  "SCORER_PIN_MISMATCH">>,
       <<result.proof.seeds # job.seeds,           "SCORER_SEED_COMMIT_MISMATCH">>,
       <<\/ result.proof.gate # result.gate
         \/ result.proof.confirm # result.confirm, "SCORER_SCORE_PROOF_MISMATCH">> >>)

\* An accepted result carries the artifact itself, under both of its hashes.
ArtifactCheck(result, active) ==
  IF result.artifact = NoRecord THEN "SCORER_ARTIFACT_MISSING"
  ELSE Verdict(
    << <<{result.artifactHash, result.report} # {result.artifact}, "SCORER_ARTIFACT_HASH_MISMATCH">>,
       <<\/ result.artifact.parent # active.parent
         \/ result.artifact.corpus # active.corpus
         \/ result.artifact.core # active.core,       "SCORER_ARTIFACT_CONTEXT_MISMATCH">> >>)

LowerScore(result) == IF result.gate < result.confirm THEN result.gate ELSE result.confirm

ResultVerdict(result, job, outstanding, active, health) ==
  LET proof == ProofVerdict(result, job, active)
      checks ==
        << <<result.id # job.id,                       "SCORER_JOB_ID_MISMATCH">>,
           <<job.id \notin outstanding,                "SCORER_JOB_NOT_OUTSTANDING">>,
           <<~result.wellFormed,                       "SCORER_RESULT_MALFORMED">>,
           <<ContextVerdict(job, active) # "ok",       "SCORER_STALE_CONTEXT">>,
           <<result.health # health,                   "SCORER_HEALTH_MISMATCH">>,
           <<proof # "ok",                             proof>>,
           <<result.threshold # job.threshold,         "SCORER_THRESHOLD_ECHO_MISMATCH">>,
           <<result.policy # job.policy,               "SCORER_POLICY_ECHO_MISMATCH">>,
           <<~result.accepted,                         "SCORER_REJECTED">>,
           <<LowerScore(result) < active.threshold,    "SCORER_BELOW_THRESHOLD">> >>
  IN  IF Verdict(checks) # "ok" THEN Verdict(checks) ELSE ArtifactCheck(result, active)

\* checkArtifactSeedEcho: the artifact names the seeds the job shipped.
SeedEchoed(result, job) == result.artifact = NoRecord \/ result.artifact.seeds = job.seeds

\* What the coordinator reconstructs from a result that passed.
OutcomeOf(result) == IF result.before /\ result.rewritten THEN "state_advance" ELSE "screener_pass"
=============================================================================
