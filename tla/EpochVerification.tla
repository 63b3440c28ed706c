------------------------- MODULE EpochVerification -------------------------
\* An epoch reproduced from its events (verify-epoch/index.ts), the translation
\* of the state to a new core version (upgrade/index.ts), the Merkle cache of
\* the state (state/merkle.ts) and the commands over them (cli.ts). Something
\* that may be missing is a set of at most one element. Bytes are a record
\*   wire, hash      what decodePatch makes of them, and their patch hash
\* and a state is its own root.
EXTENDS EpochReducer, OrderedChecks

----------------------------------------------------------------------------
\* Logs. The data of one is a sequence of words, a byte string being one word
\* after its length; an offset counts words.
WordAt(data, k) == IF k < Len(data) THEN data[k + 1] ELSE 0
BytesAt(data, k) == WordAt(data, WordAt(data, k) + 1)

DecodePatchAccepted(topics, data) ==
  [epoch |-> topics[2], miner |-> topics[3], parentStateRoot |-> WordAt(data, 0),
   patchHash |-> WordAt(data, 1), evalReportHash |-> WordAt(data, 2), bytes |-> BytesAt(data, 3)]
DecodeEpochFinalized(topics, data) ==
  [epoch |-> topics[2], parentStateRoot |-> WordAt(data, 0), patchSetRoot |-> WordAt(data, 1),
   newStateRoot |-> WordAt(data, 2), coreVersionHash |-> WordAt(data, 3),
   experienceCorpusRoot |-> WordAt(data, 4)]
DecodeStateSnapshot(topics, data) ==
  [epoch |-> topics[2], stateRoot |-> WordAt(data, 0), fullState |-> BytesAt(data, 1)]

\* The registry's encoding of the first of them.
PatchAcceptedTopics(e) == <<"CortexPatchAccepted", e.epoch, e.miner>>
PatchAcceptedData(e) == <<e.parentStateRoot, e.patchHash, e.evalReportHash, 4, 1, e.bytes>>

----------------------------------------------------------------------------
\* The event's parent, the parent in the bytes and the hash of the bytes all
\* bind the patch to the state the epoch began with.
IsEligible(event, state) ==
  /\ event.parentStateRoot = state
  /\ WireAccepted(event.bytes.wire)
  /\ event.bytes.wire.parent = state
  /\ event.patchHash = event.bytes.hash

\* Two events of the same bytes are one item: the second never applies.
PublicItem(event) ==
  LET patch == Decoded(event.bytes.wire)
  IN  [patch |-> patch, score |-> patch.delta, hash |-> event.bytes.hash]
PublicItems(events, state) == {PublicItem(e) : e \in {e \in Range(events) : IsEligible(e, state)}}

PublicStep(run, item, policyAtoms) ==
  LET result == ApplyOntoCurrent(run.state, item.patch, policyAtoms)
  IN  IF Targets(item.patch) \cap TakenWords(run.accepted) = {} /\ result.ok
      THEN [state |-> result.state, accepted |-> Append(run.accepted, item)]
      ELSE run

RunReducer(state, events, policyAtoms) ==
  FoldLeft(LAMBDA run, item : PublicStep(run, item, policyAtoms),
           [state |-> state, accepted |-> <<>>], InPriority(PublicItems(events, state)))

\* finalized, snapshot, genesis: where the state to reach and the state to begin
\* with come from; a snapshot comes before the genesis state.
VerifyEpoch(in) ==
  LET verdict == Verdict(<< <<in.finalized = {}, "NO_FINALIZED_EVENT">>,
                            <<\E s \in in.snapshot : ~s.intact, "SNAPSHOT_DECODE_ERROR">>,
                            <<in.snapshot \cup in.genesis = {}, "NO_SNAPSHOT_OR_GENESIS">> >>)
      start == (CHOOSE s \in (IF in.snapshot # {} THEN in.snapshot ELSE in.genesis) : TRUE).state
      run == RunReducer(start, in.events, in.policyAtoms)
  IN  IF verdict # "ok" THEN Failed(verdict)
      ELSE [ok |-> TRUE, reproduced |-> run.state,
            accepted |-> PatchSetRoot(run.accepted),
            match |-> \A f \in in.finalized : run.state = f.newStateRoot]

----------------------------------------------------------------------------
\* State translation: a header and patches, each behind its length. A payload is
\*   short, magic, from, to, segments    segments: [cut, wire]
\*   lone                                one more byte after the last segment
BadSegment(segment) == segment.cut \/ ~WireAccepted(segment.wire)
ParseTranslation(payload) ==
  LET bad == {k \in DOMAIN payload.segments : BadSegment(payload.segments[k])}
      first == payload.segments[CHOOSE k \in bad : \A j \in bad : k <= j]
  IN  IF payload.short THEN Failed("TOO_SHORT")
      ELSE IF payload.magic # 240 THEN Failed("BAD_MAGIC")
      ELSE IF bad # {} THEN Failed(IF first.cut THEN "TOO_SHORT" ELSE "PATCH_DECODE_ERROR")
      ELSE [ok |-> TRUE,
            translation |-> [from |-> payload.from, to |-> payload.to,
                             patches |-> [k \in DOMAIN payload.segments |->
                                            Decoded(payload.segments[k].wire)]]]

EncodeTranslation(translation) ==
  [short |-> FALSE, magic |-> 240, from |-> translation.from, to |-> translation.to, lone |-> FALSE,
   segments |-> [k \in DOMAIN translation.patches |->
                   [cut |-> FALSE, wire |-> Encoded(translation.patches[k])]]]

\* Each patch on the root its predecessor left, and never under policy atoms.
\* "version": the hash of the current core version, if the caller gives one.
ApplyTranslation(state, translation, version) ==
  IF \E v \in version : v # translation.from THEN Failed("VERSION_HASH_MISMATCH")
  ELSE FoldLeft(LAMBDA run, p :
                  IF ~run.ok THEN run
                  ELSE LET result == ApplyPatch(run.state, p, FALSE)
                       IN  IF result.ok THEN result ELSE Failed("PATCH_APPLY_ERROR"),
                Applied(state), translation.patches)

ExecuteReset(state, genesis, epoch, old, new) ==
  [event |-> [epoch |-> epoch, oldCoreVersionHash |-> old, newCoreVersionHash |-> new,
              oldStateRoot |-> state, newGenesisStateRoot |-> genesis],
   state |-> genesis]

----------------------------------------------------------------------------
\* The Merkle tree of 2^depth words, level by level from the leaves; a node is
\* the pair of its children.
NodePairs(level) == [i \in 1..(Len(level) \div 2) |-> <<level[2 * i - 1], level[2 * i]>>]
MerkleLevels(leaves, depth) ==
  LET levels[d \in 0..depth] == IF d = 0 THEN leaves ELSE NodePairs(levels[d - 1])
  IN  [k \in 1..depth + 1 |-> levels[k - 1]]
BuildMerkleCache(words, depth) == MerkleLevels([i \in DOMAIN words |-> <<words[i]>>], depth)
MerkleRoot(cache) == cache[Len(cache)][1]

\* Later updates of a word win; only the paths from the updated leaves are
\* computed anew, each level from the one below it.
UpdateMerkleCache(cache, updates) ==
  LET last(i) == updates[CHOOSE k \in DOMAIN updates :
                           /\ updates[k].index = i
                           /\ \A j \in DOMAIN updates : updates[j].index = i => j <= k].word
      leaves == {u.index : u \in Range(updates)}
      dirty[d \in 1..Len(cache)] ==
        IF d = 1 THEN leaves ELSE {(i + 1) \div 2 : i \in dirty[d - 1]}
      levels[d \in 1..Len(cache)] ==
        [i \in DOMAIN cache[d] |->
           IF i \notin dirty[d] THEN cache[d][i]
           ELSE IF d = 1 THEN <<last(i)>>
           ELSE <<levels[d - 1][2 * i - 1], levels[d - 1][2 * i]>>]
  IN  IF updates = <<>> THEN cache ELSE [d \in 1..Len(cache) |-> levels[d]]

----------------------------------------------------------------------------
\* The commands: their exit status and what they print. reduce-epoch takes a
\* record's own score where it has one, drops records of another parent, and
\* fails on bytes that do not decode.
CommandReduceEpoch(state, records, policyAtoms) ==
  LET own == {r \in records : r.parentStateRoot = state}
      item(r) == [miner |-> r.hash, patch |-> Decoded(r.wire), hash |-> r.hash,
                  score |-> IF r.score = {} THEN r.wire.delta ELSE CHOOSE s \in r.score : TRUE]
  IN  IF \E r \in own : ~WireAccepted(r.wire) THEN [exit |-> 1]
      ELSE [exit |-> 0, output |-> Reduced(state, {item(r) : r \in own}, 0, policyAtoms)]

CommandVerifyEpoch(in) ==
  LET result == VerifyEpoch(in)
  IN  [exit |-> IF ~result.ok THEN 1 ELSE IF ~result.match THEN 3 ELSE 0, output |-> result]

CommandUpgrade(state, payload) ==
  LET parsed == ParseTranslation(payload)
      result == IF parsed.ok THEN ApplyTranslation(state, parsed.translation, {}) ELSE parsed
  IN  [exit |-> IF result.ok THEN 0 ELSE 1, output |-> result]
=============================================================================
