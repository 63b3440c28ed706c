---------------------------- MODULE EpochReducer ----------------------------
\* What an epoch's patches do to the memory state: the live lane, one advance
\* after the other (reducer/live-epoch.ts), and the batch lane (reducer/reducer.ts)
\* over the same accept step (reducer/accept-core.ts). An item is
\*   miner, patch, hash, score, gain    gain: the marginal evaluator, as a
\*                                      function of the state
\* hashes are numbers in byte order.
EXTENDS StatePatch, SequencesExt

CONSTANT GainOf         \* (state, patch) -> the marginal gain of the patch there

\* evaluateAndApplyOntoCurrent: improvement first, then the application.
AcceptStep(state, patch, threshold, strict, policyAtoms, codes) ==
  LET gain == GainOf[state, patch.writes]
      improves == IF strict THEN gain > threshold ELSE gain >= threshold
      result == ApplyOntoCurrent(state, patch, policyAtoms)
  IN  IF ~improves THEN Failed(codes.notImprovement)
      ELSE IF result.ok THEN Applied(result.state)
      ELSE Failed(CASE result.code = "E01" -> codes.wrongParent
                    [] result.code = "E04" -> codes.reservedBit
                    [] result.code = "E05" -> codes.notImprovement
                    [] OTHER -> codes.invalidTarget)

LiveCodes ==
  [notImprovement |-> "L01", wrongParent |-> "R03", reservedBit |-> "R05", invalidTarget |-> "R04"]
BatchCodes == [LiveCodes EXCEPT !.notImprovement = "R02"]

----------------------------------------------------------------------------
\* Live lane: arrival order, each patch on the root its predecessors left.
\* Mutant: the parent root is not compared.
LiveStepAnyParent(state, patch, threshold, policyAtoms) ==
  AcceptStep(state, patch, threshold, TRUE, policyAtoms, LiveCodes)

LiveStep(state, patch, threshold, policyAtoms) ==
  IF patch.parent # state THEN Failed("R03")
  ELSE AcceptStep(state, patch, threshold, TRUE, policyAtoms, LiveCodes)

LiveRun(state, patches, threshold, policyAtoms) ==
  FoldLeft(LAMBDA run, patch :
             LET step == LiveStep(run.state, patch, threshold, policyAtoms)
             IN  IF step.ok
                 THEN [state |-> step.state, advances |-> Append(run.advances, patch),
                       refused |-> run.refused]
                 ELSE [run EXCEPT !.refused = Append(@, <<patch, step.code>>)],
           [state |-> state, advances |-> <<>>, refused |-> <<>>], patches)

----------------------------------------------------------------------------
\* Batch lane: every patch is against the epoch's parent; the best score first,
\* then the smaller patch, then the lower hash.
Before(a, b) ==
  \/ a.score > b.score
  \/ a.score = b.score /\ Len(a.patch.writes) < Len(b.patch.writes)
  \/ a.score = b.score /\ Len(a.patch.writes) = Len(b.patch.writes) /\ a.hash < b.hash

InPriority(items) ==
  [i \in 1..Cardinality(items) |->
     CHOOSE a \in items : Cardinality({b \in items : Before(b, a)}) = i - 1]

TakenWords(accepted) == UNION {Targets(accepted[i].patch) : i \in DOMAIN accepted}

BatchStep(run, item, threshold, policyAtoms) ==
  LET step == AcceptStep(run.state, item.patch, threshold, FALSE, policyAtoms, BatchCodes)
  IN  IF Targets(item.patch) \cap TakenWords(run.accepted) # {}
      THEN [run EXCEPT !.rejected = Append(@, <<item, "R01">>)]
      ELSE IF step.ok
      THEN [run EXCEPT !.state = step.state, !.accepted = Append(@, item)]
      ELSE [run EXCEPT !.rejected = Append(@, <<item, step.code>>)]

\* The pre-pass drops the patches of another parent; a state is its own root.
Reduced(state, items, threshold, policyAtoms) ==
  LET eligible == {a \in items : a.patch.parent = state}
      late == SetToSeq({<<a, "R03">> : a \in items \ eligible})
  IN  FoldLeft(LAMBDA run, item : BatchStep(run, item, threshold, policyAtoms),
               [state |-> state, accepted |-> <<>>, rejected |-> late], InPriority(eligible))

\* keccak over the accepted patches' hashes, in acceptance order.
PatchSetRoot(accepted) == [i \in DOMAIN accepted |-> accepted[i].hash]
=============================================================================
