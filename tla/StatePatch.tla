----------------------------- MODULE StatePatch -----------------------------
\* Word patches against the memory state (state/patch.ts, validate.ts, types.ts,
\* codec.ts; PolicyAtoms from substrate/retrieval-decoder.ts) as operators. Word
\* indices are the real ones, of which an instance has a subset; a state maps
\* each word to a value and stands for its own root. A patch is a record
\*   type, parent, delta, writes    a sequence of <<index, value>>
\* A word's value is opaque but for what the rules below ask of it.
EXTENDS Integers, FiniteSets, Sequences

CONSTANTS
  Words,          \* the word indices of the instance
  Blank,          \* the value 0
  Stray,          \* a value with bits in every reserved mask that leaves some out
  NoWord,         \* no value: the bytes of a patch end early
  AtomIn          \* value -> the fields it has when read as a PolicyAtom

HeaderRange == 0..31
MemoryRange == 32..383
KeyRange == 384..671
RelationRange == 672..799
TemporalRange == 800..895
CodebookRange == 896..991
ReservedRange == 992..1023
PolicyRange == 384..671
WordRange == 0..1023

MIXED == 255
HEADER_UPDATE == 6
KEY_UPDATE == 1
CODEBOOK_UPDATE == 5
POLICY_UPDATE == 7
TypeRange(type) ==
  CASE type = KEY_UPDATE -> KeyRange
    [] type = 2 -> MemoryRange
    [] type = 3 -> TemporalRange
    [] type = 4 -> RelationRange
    [] type = CODEBOOK_UPDATE -> CodebookRange
    [] type = HEADER_UPDATE -> HeaderRange
    [] type = POLICY_UPDATE -> PolicyRange
    [] type = MIXED -> WordRange \ ReservedRange
    [] OTHER -> {}

Targets(p) == {p.writes[k][1] : k \in 1..Len(p.writes)}
ValueFor(p, i) == p.writes[CHOOSE k \in 1..Len(p.writes) : p.writes[k][1] = i][2]
Written(state, p) == [i \in Words |-> IF i \in Targets(p) THEN ValueFor(p, i) ELSE state[i]]
Changed(state, p) == {i \in Targets(p) : ValueFor(p, i) # state[i]}

\* Every index in the type's range and none of them twice.
TypeValid(p) ==
  /\ Targets(p) \subseteq TypeRange(p.type) \ ReservedRange
  /\ Cardinality(Targets(p)) = Len(p.writes)

\* Words no writer may set at all, and words with reserved bits.
FullyReserved == 11..31 \cup ReservedRange
PartlyReserved == {0, 1, 8} \cup TemporalRange
ReservedBitsSet(state) ==
  \E i \in Words : \/ i \in FullyReserved /\ state[i] # Blank
                   \/ i \in PartlyReserved /\ state[i] = Stray

\* A PolicyAtom word decodes, or is a failure of its region.
EvidenceRange == 384..511
ConflictRange == 512..639
AbstentionRange == 640..671
AllowedActions(i) ==
  CASE i \in EvidenceRange -> {"include", "boost", "suppress", "bundle"}
    [] i \in ConflictRange -> {"boost", "suppress"}
    [] i \in AbstentionRange -> {"abstain"}
    [] OTHER -> {}
AtomDecodes(i, value) ==
  LET atom == AtomIn[value]
  IN  /\ ~atom.spareBits
      /\ atom.scopeKnown /\ atom.selectorKnown /\ atom.featureKnown
      /\ atom.action \in AllowedActions(i)
      /\ \/ atom.target = "slot"
         \/ atom.target = "none" /\ atom.action = "abstain"
      /\ (atom.from > 0 /\ atom.until > 0) => atom.from <= atom.until

\* Under policy atoms the reclaimed regions are checked as well: "none" when all
\* is well, otherwise the error.
PolicyRegionError(state) ==
  IF \E i \in Words \cap PolicyRange : state[i] # Blank /\ ~AtomDecodes(i, state[i])
  THEN "E02"
  ELSE IF \E i \in Words \cap CodebookRange : state[i] # Blank THEN "E04"
  ELSE "none"

TouchesHeader(p) == Targets(p) \cap HeaderRange # {}
CompanionRange == MemoryRange \cup RelationRange \cup TemporalRange

\* Policy words are written by POLICY_UPDATE, or by MIXED together with a
\* companion word.
PolicyWriteIsCanonical(p) ==
  \/ Targets(p) \cap PolicyRange = {}
  \/ p.type = POLICY_UPDATE
  \/ p.type = MIXED /\ Targets(p) \cap CompanionRange # {}

\* ... and the companion must change.
PolicyWriteChangesCompanion(state, p) ==
  /\ PolicyWriteIsCanonical(p)
  /\ \/ Targets(p) \cap PolicyRange = {}
     \/ p.type # MIXED
     \/ Changed(state, p) \cap CompanionRange # {}

Failed(code) == [ok |-> FALSE, code |-> code]
Applied(state) == [ok |-> TRUE, state |-> state]

ResultOf(state, p, policyAtoms) ==
  LET result == Written(state, p)
  IN  IF Changed(state, p) = {} THEN Failed("E05")
      ELSE IF ReservedBitsSet(result) THEN Failed("E04")
      ELSE IF policyAtoms /\ PolicyRegionError(result) # "none"
           THEN Failed(PolicyRegionError(result))
      ELSE Applied(result)

\* applyPatchOntoCurrent: the patch on a state that may have moved on from its
\* parent.
ApplyOntoCurrent(state, p, policyAtoms) ==
  IF Len(p.writes) \notin 1..4 THEN Failed("E03")
  ELSE IF ~TypeValid(p) THEN Failed("E02")
  ELSE IF policyAtoms /\ (TouchesHeader(p) \/ ~PolicyWriteChangesCompanion(state, p))
       THEN Failed("E02")
  ELSE ResultOf(state, p, policyAtoms)

\* applyPatch: the parent root is looked at after the budget and before the
\* rest; a state is its own root.
ApplyPatch(state, p, policyAtoms) ==
  IF Len(p.writes) \notin 1..4 THEN Failed("E03")
  ELSE IF p.parent # state THEN Failed("E01")
  ELSE IF ~TypeValid(p) THEN Failed("E02")
  ELSE IF policyAtoms /\ ~PolicyWriteChangesCompanion(state, p) THEN Failed("E02")
  ELSE IF policyAtoms /\ TouchesHeader(p) THEN Failed("E02")
  ELSE ResultOf(state, p, policyAtoms)

----------------------------------------------------------------------------
\* The wire form. Indices are unsigned LEB128 of one or two bytes.
EncodeIndex(n) == IF n < 128 THEN <<n>> ELSE <<(n % 128) + 128, n \div 128>>

\* The index at the front of some bytes, or -1: cut off, longer than two
\* bytes, not the shortest form, or out of range.
DecodeIndex(bytes) ==
  IF bytes = <<>> THEN -1
  ELSE IF bytes[1] < 128 THEN bytes[1]
  ELSE IF Len(bytes) < 2 THEN -1
  ELSE IF bytes[2] >= 128 THEN -1
  ELSE LET value == bytes[1] - 128 + bytes[2] * 128
       IN  IF value < 128 \/ value > 1023 THEN -1 ELSE value

\* A patch as received: its declared word count, its entries as index bytes and
\* value (NoWord where the bytes end), and whether bytes follow the last one.
WireRefused(w) ==
  \/ w.size < 42
  \/ w.count \notin 1..4
  \/ w.deltaTopBit
  \/ Len(w.entries) < w.count
  \/ \E k \in 1..w.count : DecodeIndex(w.entries[k][1]) = -1 \/ w.entries[k][2] = NoWord
  \/ w.trailing

Decoded(w) ==
  [type |-> w.type, parent |-> w.parent, delta |-> w.delta,
   writes |-> [k \in 1..w.count |-> <<DecodeIndex(w.entries[k][1]), w.entries[k][2]>>]]
WireAccepted(w) == ~WireRefused(w) /\ TypeValid(Decoded(w))

EncodeAccepted(p) == Len(p.writes) \in 1..4 /\ TypeValid(p) /\ p.delta >= 0
Encoded(p) ==
  [size |-> 42 + 33 * Len(p.writes) + Cardinality({i \in Targets(p) : i >= 128}),
   type |-> p.type, parent |-> p.parent,
   delta |-> p.delta, deltaTopBit |-> FALSE, count |-> Len(p.writes), trailing |-> FALSE,
   entries |-> [k \in 1..Len(p.writes) |-> <<EncodeIndex(p.writes[k][1]), p.writes[k][2]>>]]

\* Patch types a profile advertises with their ranges: policy atoms take the
\* header, key and codebook types away and start MIXED behind the header.
AllowedTypes(policyAtoms) ==
  LET hidden == IF policyAtoms THEN {KEY_UPDATE, CODEBOOK_UPDATE, HEADER_UPDATE} ELSE {}
      types == (1..7 \cup {MIXED}) \ hidden
  IN  [t \in types |-> IF t = MIXED /\ policyAtoms THEN TypeRange(MIXED) \ HeaderRange
                       ELSE TypeRange(t)]
=============================================================================
