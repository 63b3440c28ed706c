---------------------------- MODULE RigDispatch ----------------------------
\* The logs of a mining-rig deployment told apart from those of the registry lane
\* (replay/rig-dispatch.ts, the classifier of coretex-registry.ts) and the one
\* spelling of a value that came from the chain
\* (replay/canonical-chain-values.ts). A log is a record
\*   address, topics     a sequence, the first one the event it names
\*   data                what the checks read of it
\* A value a decoder returns is <<"ok", value>>, a refusal <<"refused">>.
EXTENDS Integers, Sequences, FiniteSets

Refusal == <<"refused">>
Taken(value) == <<"ok", value>>

\* The event's only legitimate emitter, for every event of the live lane.
RegistryEvents == {"CoreTexStateAdvanced", "CoreTexEpochFinalized"}
VerifierEvents == {"CoreTexEpochContextSet", "CoreTexPolicyScheduled"}
MiningEvents ==
  {"RigCoreTexCreditAccepted", "RigCreditAccepted", "EpochCommitSet", "EpochSecretRevealed",
   "CoordinatorSignerUpdated"}
RigEvents == RegistryEvents \cup VerifierEvents \cup MiningEvents
ExpectedEmitter(event) ==
  CASE event \in RegistryEvents -> "registry"
    [] event \in VerifierEvents -> "verifier"
    [] event \in MiningEvents -> "mining"

\* The role of an address, the registry first; a set of at most one element.
RoleOf(address, deployment) ==
  CASE address = deployment.registry -> {"registry"}
    [] address # deployment.registry /\ address = deployment.mining -> {"mining"}
    [] address \notin {deployment.registry, deployment.mining} /\ address = deployment.verifier ->
         {"verifier"}
    [] OTHER -> {}

\* A log of somebody else, or of an unknown event, is not an error; a known
\* event of the wrong one of the deployment's own addresses is.
RouteRigLog(log, deployment) ==
  LET role == RoleOf(log.address, deployment)
  IN  IF log.topics = <<>> \/ role = {} THEN "ignored"
      ELSE IF log.topics[1] \notin RigEvents THEN "ignored"
      ELSE IF role # {ExpectedEmitter(log.topics[1])} THEN "error"
      ELSE "routed"

----------------------------------------------------------------------------
\* An advance: nine words, the length of the descriptor, the descriptor and
\* zeros up to a whole word, and nothing behind them. "bytes" is the length of
\* all the data, "offset" and "length" what it says of the descriptor.
WordBytes == 32
Padded(length) == ((length + WordBytes - 1) \div WordBytes) * WordBytes
DecodeStateAdvanced(log) ==
  LET start == 10 * WordBytes
  IN  IF log.topics = <<>> \/ log.topics[1] # "CoreTexStateAdvanced" THEN <<"other">>
      ELSE IF \/ Len(log.topics) # 4
              \/ log.data.bytes < start
              \/ log.data.offset # 9 * WordBytes
              \/ log.data.bytes # start + Padded(log.data.length)
              \/ ~log.data.paddingClear
              \/ log.data.version > 65535
              \/ ~log.data.minerClean
           THEN Refusal
      ELSE Taken([length |-> log.data.length, version |-> log.data.version])

DecodeRigEpochFinalized(log) ==
  IF log.topics = <<>> \/ log.topics[1] # "CoreTexEpochFinalized" THEN <<"other">>
  ELSE IF Len(log.topics) # 2 \/ log.data.bytes # 6 * WordBytes THEN Refusal
  ELSE Taken([words |-> 6])

\* Descriptors by length and first byte.
RigDescriptor(length, first) == length = 97 /\ first = 33
LegacyRigDescriptor(length, first) == length = 105 /\ first = 32

----------------------------------------------------------------------------
\* A value as it came: "form" is bytes, hex or prefixed (hex after 0x), "digits"
\* counts its hex digits, "upper" says that some are capitals, "clean" that all
\* but the last forty are zero. The canonical form is prefixed, without capitals.
Canonical(v) == [v EXCEPT !.form = "prefixed", !.upper = FALSE]
ChainWord(v) == IF v.digits = 64 THEN Taken(Canonical(v)) ELSE Refusal
ChainAddress(v) ==
  CASE v.digits = 40 -> Taken(Canonical(v))
    [] v.digits = 64 /\ v.clean -> Taken(Canonical([v EXCEPT !.digits = 40]))
    [] OTHER -> Refusal
HexData(v) == IF v.digits % 2 = 0 THEN Taken(Canonical(v)) ELSE Refusal

\* A root is the same hex without the prefix; the prefix is refused.
BareRoot(v) == IF v.form = "hex" /\ v.digits = 64 /\ ~v.upper THEN Taken(v) ELSE Refusal
RootFromWord(v) ==
  IF ChainWord(v) = Refusal THEN Refusal ELSE BareRoot([ChainWord(v)[2] EXCEPT !.form = "hex"])
WordFromRoot(v) == IF BareRoot(v) = Refusal THEN Refusal ELSE ChainWord(v)

\* Integers, with the largest one of a double's reach and the widths scaled
\* down. A number that is not a bigint may have lost its low bits before.
SafeBits == 4
Wide(v, bits) ==
  IF v.kind = "number" \/ v.value < 0 \/ v.value >= 2 ^ bits THEN Refusal ELSE Taken(v.value)
Narrow(v, bits) ==
  IF \/ v.kind = "number" /\ ~v.whole
     \/ v.value < 0 \/ v.value >= 2 ^ bits
     \/ v.value > 2 ^ SafeBits - 1
  THEN Refusal ELSE Taken(v.value)
=============================================================================
