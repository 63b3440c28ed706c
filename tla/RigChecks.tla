----------------------------- MODULE RigChecks -----------------------------
\* The rig lane's dispatch and the spelling of chain values over small inputs:
\* TLC evaluates every assumption below before it checks the instance that
\* extends this module.
EXTENDS RigDispatch, StatePatch

Deployments == [registry : {"A"}, mining : {"A", "B"}, verifier : {"C"}]
RigLogs ==
  [address : {"A", "B", "C", "D"},
   topics : {<<>>, <<"Renamed">>} \cup {<<e>> : e \in RigEvents}]

(* A log stops the follower only when it names one of the lane's events and *)
(* comes from the deployment, and is taken only from its one emitter: no    *)
(* address outside the deployment can do either.                            *)
ASSUME OnlyOwnLogsMatter ==
  \A log \in RigLogs, d \in Deployments :
    LET route == RouteRigLog(log, d)
    IN  /\ log.address \notin {d.registry, d.mining, d.verifier} => route = "ignored"
        /\ log.topics \in {<<>>, <<"Renamed">>} => route = "ignored"
        /\ route = "routed" => RoleOf(log.address, d) = {ExpectedEmitter(log.topics[1])}

(* With one address in two roles every event of the second role is refused. *)
ASSUME SharedAddressIsRefused ==
  \A e \in MiningEvents :
    RouteRigLog([address |-> "A", topics |-> <<e>>],
                [registry |-> "A", mining |-> "A", verifier |-> "C"]) = "error"

\* The registry's encoding of a descriptor.
AdvanceOf(length) ==
  [topics |-> <<"CoreTexStateAdvanced", 1, 1, 1>>,
   data |-> [bytes |-> 320 + Padded(length), offset |-> 288, length |-> length,
             paddingClear |-> TRUE, version |-> 1, minerClean |-> TRUE]]

(* What the registry emits decodes, whatever the length of the descriptor;  *)
(* with the data one word longer or shorter, or its length moved to another *)
(* word count, nothing does.                                                *)
ASSUME AdvanceDecodes ==
  \A length \in {0, 1, 31, 32, 33, 64, 96, 97, 105} :
    LET log == AdvanceOf(length)
    IN  /\ DecodeStateAdvanced(log) = Taken([length |-> length, version |-> 1])
        /\ \A by \in {-32, 32} :
             DecodeStateAdvanced([log EXCEPT !.data.bytes = @ + by]) = Refusal
        /\ \A other \in 0..128 :
             DecodeStateAdvanced([log EXCEPT !.data.length = other]) # Refusal
               <=> Padded(other) = Padded(length)

(* The lanes' payloads are told apart by length and first byte: no legal    *)
(* patch, live descriptor and historical descriptor are one another's.      *)
PatchLengths == {42 + 33 * n + wide : n \in 1..4, wide \in 0..4}
PatchTypes == {t \in 0..255 : TypeRange(t) # {}}
ASSUME LanesAreDisjoint ==
  \A length \in PatchLengths \cup {97, 105}, first \in PatchTypes \cup {32, 33} :
    /\ ~(RigDescriptor(length, first) /\ LegacyRigDescriptor(length, first))
    /\ RigDescriptor(length, first) \/ LegacyRigDescriptor(length, first) =>
         length \notin PatchLengths /\ first \notin PatchTypes

(* One value has one spelling: reading a spelling again changes nothing, and *)
(* a root and its word are each other's.                                     *)
Spellings ==
  [form : {"bytes", "hex", "prefixed"}, digits : {39, 40, 62, 64}, upper : BOOLEAN, clean : BOOLEAN]
ASSUME OneSpelling ==
  \A v \in Spellings :
    /\ ChainWord(v) # Refusal => ChainWord(ChainWord(v)[2]) = ChainWord(v)
    /\ ChainAddress(v) # Refusal => ChainAddress(ChainAddress(v)[2]) = ChainAddress(v)
    /\ RootFromWord(v) # Refusal <=> ChainWord(v) # Refusal
    /\ RootFromWord(v) # Refusal => WordFromRoot(RootFromWord(v)[2]) = ChainWord(v)
    /\ v.form = "prefixed" => BareRoot(v) = Refusal

(* An integer is rendered exactly or refused: what is refused as a number is *)
(* taken as a wide value as long as the width has room for it.               *)
Numerals == [kind : {"bigint", "number"}, whole : {TRUE}, value : -2..70]
ASSUME NeverRounded ==
  \A v \in Numerals :
    /\ Narrow(v, 6) # Refusal => Narrow(v, 6) = Taken(v.value) /\ v.value < 2 ^ SafeBits
    /\ (v.kind = "bigint" /\ v.value \in 0..63) => Wide(v, 6) = Taken(v.value)
    /\ v.kind = "number" => Wide(v, 6) = Refusal
=============================================================================
