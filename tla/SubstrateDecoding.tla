------------------------- MODULE SubstrateDecoding -------------------------
\* How the memory state is read for retrieval (substrate/retrieval-decoder.ts),
\* scored for its structure (structural-validity.ts) and given the slots of new
\* memories (slot-policy.ts). A state is a record of
\*   memory, relations, temporal   index -> word, of the words that are not zero
\*   words                         the same for the words 384..671 and 896..991,
\*                                 read as keys and codes or as policy atoms
\* with word records that have the fields of their bit layout.
EXTENDS StatePatch, SequencesExt

CONSTANTS
  KeyIn,      \* value -> the header a retrieval key has when this is its first word
  CodeIn,     \* value -> the code entry it has as a first word
  Cosine      \* two dequantized vectors -> their cosine in hundredths

MemorySlots == 352
KeySlots == 36
KeyWords == 8
SlotRefs == 256             \* what the 8 bits of a slot reference can name
Families == 0..3
EdgeTypes == 1..6           \* supports .. co_occurs_with
CodeTypes == {1, 2}

----------------------------------------------------------------------------
\* Memory slots: what is malformed fails; what is not valid is left out without
\* failing.
MemoryFails(w) == w.recordId = 0 \/ w.family \notin Families \/ w.retrievalSlot >= KeySlots
ActiveSlots(st) == {s \in DOMAIN st.memory : ~MemoryFails(st.memory[s]) /\ st.memory[s].valid}

\* Retrieval keys: eight words each.
KeyBase(s) == 384 + s * KeyWords
KeyWordsOf(s) == KeyBase(s)..KeyBase(s) + KeyWords - 1
WrittenKeys(st) == {s \in 0..KeySlots - 1 : KeyWordsOf(s) \cap DOMAIN st.words # {}}
KeyFails(st, s, opts) ==
  \/ KeyBase(s) \notin DOMAIN st.words
  \/ LET key == KeyIn[st.words[KeyBase(s)]]
     IN  \/ key.version # 1
         \/ \E hash \in opts.modelHash : key.modelHash # hash
         \/ key.norm <= 0
         \/ opts.headerBytes \notin 9..256
         \/ ~key.paddingClear /\ opts.headerBytes > 9
DecodedKeys(st, opts) == {s \in WrittenKeys(st) : ~KeyFails(st, s, opts)}

\* A relation word is an edge between two slots or, with its lens flag, a lens
\* that names no slot.
RelationFails(w) ==
  \/ w.weight = 0
  \/ w.edgeType \notin EdgeTypes
  \/ w.spareBits
  \/ w.lens /\ (w.source # 0 \/ w.target # 0)
  \/ ~w.lens /\ (w.source >= SlotRefs \/ w.target >= SlotRefs)
DecodedRelations(st) == {i \in DOMAIN st.relations : ~RelationFails(st.relations[i])}
CategoryLenses(st) == {i \in DecodedRelations(st) : st.relations[i].lens}
Edges(st) == DecodedRelations(st) \ CategoryLenses(st)

TemporalFails(w) == w.spareBits \/ w.from > w.until
DecodedTemporal(st) == {r \in DOMAIN st.temporal : ~TemporalFails(st.temporal[r])}

\* Codebook entries: two words each; the second alone is an entry of code 0.
CodeBase(i) == 896 + 2 * i
WrittenCodes(st) == {i \in 0..47 : {CodeBase(i), CodeBase(i) + 1} \cap DOMAIN st.words # {}}
CodeFails(st, i) ==
  \/ CodeBase(i) \notin DOMAIN st.words
  \/ LET entry == CodeIn[st.words[CodeBase(i)]]
     IN  entry.type \notin CodeTypes \/ entry.code = 0 \/ ~entry.valid

----------------------------------------------------------------------------
\* Policy atoms, under policy mode instead of keys and codes.
AtomWords(st) == DOMAIN st.words \cap PolicyRange
PolicyReserved(st) == DOMAIN st.words \cap CodebookRange
AtomsOf(st, region) == {i \in AtomWords(st) \cap region : AtomDecodes(i, st.words[i])}
FailedAtoms(st) == {i \in AtomWords(st) : ~AtomDecodes(i, st.words[i])}

----------------------------------------------------------------------------
\* Across regions. A temporal record needs its slot, and one flagged stale needs
\* it revoked; an edge without a shared domain is dropped and no failure.
TemporalHolds(st, r) ==
  LET w == st.temporal[r]
  IN  w.memorySlot \in ActiveSlots(st) /\ (w.stale => st.memory[w.memorySlot].revoked)
EdgeValid(st, i) ==
  LET w == st.relations[i]
  IN  /\ {w.source, w.target} \subseteq ActiveSlots(st)
      /\ st.memory[w.source].domains \cap st.memory[w.target].domains # {}

\* Keys closer to each other on average than the floor allows.
Dequantized(st, s) ==
  LET key == KeyIn[st.words[KeyBase(s)]] IN IF key.payloadShort THEN "zero" ELSE key.vector
PairsOf(keys) == {k \in keys \X keys : k[1] < k[2]}
Collapsed(st, keys, floor) ==
  FoldSet(LAMBDA k, sum : sum + Cosine[<<Dequantized(st, k[1]), Dequantized(st, k[2])>>],
          0, PairsOf(keys)) > floor * Cardinality(PairsOf(keys))

Decode(st, opts) ==
  LET keys == IF opts.policyMode THEN {} ELSE DecodedKeys(st, opts)
      held == {r \in DecodedTemporal(st) : TemporalHolds(st, r)}
      shared == DOMAIN st.memory \cup DOMAIN st.relations \cup DOMAIN st.temporal
      reclaimed ==
        IF opts.policyMode
        THEN [attempts |-> Cardinality(AtomWords(st)) + Cardinality(PolicyReserved(st)),
              failures |-> Cardinality(FailedAtoms(st)) + Cardinality(PolicyReserved(st))]
        ELSE [attempts |-> Cardinality(WrittenKeys(st)) + Cardinality(WrittenCodes(st)),
              failures |-> Cardinality({s \in WrittenKeys(st) : KeyFails(st, s, opts)})
                             + Cardinality({i \in WrittenCodes(st) : CodeFails(st, i)})]
  IN  [memory |-> ActiveSlots(st), keys |-> keys, lenses |-> CategoryLenses(st),
       relations |-> {i \in Edges(st) : EdgeValid(st, i)}, temporal |-> held,
       codes |-> IF opts.policyMode THEN {} ELSE {i \in WrittenCodes(st) : ~CodeFails(st, i)},
       evidence |-> IF opts.policyMode THEN AtomsOf(st, EvidenceRange) ELSE {},
       conflict |-> IF opts.policyMode THEN AtomsOf(st, ConflictRange) ELSE {},
       abstention |-> IF opts.policyMode THEN AtomsOf(st, AbstentionRange) ELSE {},
       \* every temporal record that decodes is tried once more, with its slot
       attempts |-> Cardinality(DOMAIN st.memory) + Cardinality(DOMAIN st.relations)
                      + Cardinality(DOMAIN st.temporal) + Cardinality(DecodedTemporal(st))
                      + reclaimed.attempts,
       failures |-> Cardinality({s \in DOMAIN st.memory : MemoryFails(st.memory[s])})
                      + Cardinality(DOMAIN st.relations \ DecodedRelations(st))
                      + Cardinality(DOMAIN st.temporal \ held) + reclaimed.failures,
       collapsed |-> \E floor \in opts.diversityFloor :
                       Cardinality(keys) >= 2 /\ Collapsed(st, keys, floor)]

\* structuralValidity, as a fraction.
StructuralValidity(decoded) ==
  IF decoded.collapsed THEN <<0, 1>>
  ELSE IF decoded.attempts = 0 THEN <<1, 1>>
  ELSE <<decoded.attempts - decoded.failures, decoded.attempts>>

----------------------------------------------------------------------------
\* Encoders: what they refuse, and the word they make. The slot of a temporal
\* record is the top byte of its word, so that the word holds it modulo 256; an
\* edge's slots have room above them.
MemoryEncodes(slot) == slot.retrievalSlot \in 0..KeySlots - 1
EdgeEncodes(edge) ==
  edge.weight \in 1..65535 /\ edge.source \in 0..MemorySlots - 1 /\ edge.target \in 0..MemorySlots - 1
EncodedEdge(edge) == [edge EXCEPT !.lens = FALSE, !.spareBits = FALSE]
LensEncodes(lens) == lens.weight \in 1..65535
EncodedLens(lens) == [lens EXCEPT !.lens = TRUE, !.spareBits = FALSE, !.source = 0, !.target = 0]
TemporalEncodes(rec) ==
  /\ rec.memorySlot \in 0..MemorySlots - 1
  /\ rec.supersededBy \in 0..255
  /\ rec.from <= rec.until
EncodedTemporal(rec) == [rec EXCEPT !.memorySlot = @ % SlotRefs, !.spareBits = FALSE]

----------------------------------------------------------------------------
\* The slot the next memory of a region goes to: the first one from the advance
\* counter on, around the ring, that is not protected.
Capacity(region) == IF region = "memory_index" THEN MemorySlots ELSE KeySlots
WordOfSlot(region, slot) == IF region = "memory_index" THEN 32 + slot ELSE KeyBase(slot)
NoSlotLeft(region, protected) == Cardinality(protected) = Capacity(region)
SelectSlot(region, advance, protected) ==
  LET at(k) == (advance + k) % Capacity(region)
      steps == CHOOSE k \in 0..Capacity(region) - 1 :
                 at(k) \notin protected /\ \A j \in 0..k - 1 : at(j) \in protected
  IN  [slot |-> at(steps), word |-> WordOfSlot(region, at(steps)),
       wrapped |-> advance >= Capacity(region)]
=============================================================================
