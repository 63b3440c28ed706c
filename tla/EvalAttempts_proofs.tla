------------------------- MODULE EvalAttempts_proofs -------------------------
(***************************************************************************)
(* Safety of EvalAttempts for every set of miners and patches, every cap,  *)
(* offset and bound.                                                       *)
(***************************************************************************)
EXTENDS EvalAttempts, FiniteSetTheorems, TLAPS

Drawing == call.pc \in {"head", "wait", "pin"}
Settling == call.pc \in {"gate", "confirm", "publish", "outcome", "put"}

\* A patch is only scored under the seed of its row, and the running call
\* agrees with the row: there is none before the draw, and its own after it.
PinInv ==
  /\ \A p \in Patches : \A s \in scored[p] :
       attempts[p].st # "none" /\ s = attempts[p].seed
  /\ Drawing => attempts[call.patch].st = "none"
  /\ Settling \/ call.pc = "finish" =>
       /\ attempts[call.patch].st # "none"
       /\ attempts[call.patch].seed = call.seed
       /\ attempts[call.patch].miner = call.miner

\* The record follows the row, the row the artifact.
StoreInv ==
  /\ RecordMatchesAttempt
  /\ AcceptedIsPublished
  /\ Settling => records[call.patch] = "none"
  /\ call.pc \in {"outcome", "put"} /\ call.outcome \in Accepted =>
       [patch |-> call.patch, outcome |-> call.outcome, seed |-> call.seed] \in published
  /\ call.pc = "put" =>
       attempts[call.patch].st = IF call.outcome = "reject" THEN "rejected" ELSE "accepted"
  /\ call.pc = "finish" => records[call.patch] = call.outcome

\* A credit needs an accepted record, and a record is written once.
CreditInv ==
  /\ OneCreditPerPatch
  /\ \A i \in DOMAIN credits : records[credits[i].patch] \in Accepted
  /\ call.pc = "finish" => \A i \in DOMAIN credits : credits[i].patch # call.patch

CallInv == TypeOK /\ PinInv /\ StoreInv /\ CreditInv

LEMMA CallInit == Init => CallInv
BY DEF Init, CallInv, TypeOK, PinInv, StoreInv, CreditInv, OneCreditPerPatch,
   RecordMatchesAttempt, AcceptedIsPublished, Idle, Outcomes, Accepted, Drawing, Settling

\* What a call of scorePatch finds in the store.
LEMMA CallBegins ==
  ASSUME CallInv, NEW m \in Miners, NEW p \in Patches, Begin(m, p)
  PROVE  CallInv'
<1> USE DEF CallInv, TypeOK, PinInv, StoreInv, CreditInv, OneCreditPerPatch,
        RecordMatchesAttempt, AcceptedIsPublished, Drawing, Settling, Arrives, Answer, Idle,
        coreVars, storeVars, chainVars, Completed
<1>1. CASE DuplicateSubmission(m, p) \/ DuplicateInFlight(m, p) \/ OverCap(m, p)
  BY <1>1 DEF DuplicateSubmission, DuplicateInFlight, OverCap
<1>2. CASE Retry(m, p)
  <2>1. attempts[p].miner = m /\ attempts[p].seed \in Seed /\ records[p] = "none"
    BY <1>2 DEF Retry, HeldByOther, NoAttempt
  <2> QED
    BY <1>2, <2>1 DEF Retry
<1>3. CASE FirstDraw(m, p)
  BY <1>3 DEF FirstDraw
<1> QED
  BY <1>1, <1>2, <1>3 DEF Begin

\* The draw, the pin and the two packs.
LEMMA CallEvaluates ==
  ASSUME CallInv, Evaluate
  PROVE  CallInv'
<1> USE AttemptsAssumption
    DEF CallInv, TypeOK, coreVars, storeVars, chainVars
<1>1. CASE ReadHead
  BY <1>1 DEF ReadHead, PinInv, StoreInv, CreditInv, OneCreditPerPatch,
     RecordMatchesAttempt, AcceptedIsPublished, Drawing, Settling, Idle
<1>2. CASE TargetMined
  <2>1. call \in [pc: {"wait"}, miner: Miners, patch: Patches, received: Nat]
    BY <1>2 DEF TargetMined, Idle
  <2>2. /\ call'.seed \in Seed /\ call'.pc = "pin"
        /\ call'.miner = call.miner /\ call'.patch = call.patch
        /\ call' \in [pc: {"pin"}, miner: Miners, patch: Patches, seed: Seed]
    BY <1>2, <2>1 DEF TargetMined, Seed, Target
  <2> QED
    BY <1>2, <2>1, <2>2 DEF TargetMined, PinInv, StoreInv, CreditInv, OneCreditPerPatch,
       RecordMatchesAttempt, AcceptedIsPublished, Drawing, Settling
<1>3. CASE Pin
  <2>1. /\ call \in [pc: {"pin"}, miner: Miners, patch: Patches, seed: Seed]
        /\ attempts[call.patch].st = "none"
    BY <1>3 DEF Pin, Idle, PinInv, Drawing
  <2>2. /\ attempts' = [attempts EXCEPT ![call.patch] =
                          [st |-> "drawn", seed |-> call.seed, miner |-> call.miner]]
        /\ call' = [call EXCEPT !.pc = "gate"]
    BY <1>3, <2>1 DEF Pin, RecordSeedDrawn
  <2>3. records[call.patch] = "none" /\ scored[call.patch] = {}
    BY <2>1 DEF StoreInv, RecordMatchesAttempt, PinInv, Outcomes, Accepted
  <2>4. \A i \in DOMAIN credits : credits[i].patch # call.patch
    BY <2>3 DEF CreditInv, Accepted
  <2>5. TypeOK'
    BY <1>3, <2>1, <2>2 DEF Pin
  <2>6. PinInv'
    BY <1>3, <2>1, <2>2, <2>3 DEF Pin, PinInv, Drawing, Settling
  <2>7. StoreInv'
    BY <1>3, <2>1, <2>2, <2>3 DEF Pin, StoreInv, RecordMatchesAttempt, AcceptedIsPublished,
       Settling, Accepted
  <2>8. CreditInv'
    BY <1>3, <2>1, <2>2, <2>4 DEF Pin, CreditInv, OneCreditPerPatch
  <2> QED
    BY <2>5, <2>6, <2>7, <2>8
<1>4. CASE Gate \/ Confirm
  <2>1. /\ call \in [pc: {"gate", "confirm"}, miner: Miners, patch: Patches, seed: Seed]
        /\ scored' = [scored EXCEPT ![call.patch] = @ \cup {call.seed}]
        /\ UNCHANGED <<attempts, records, credits, published>>
        /\ UNCHANGED <<blocks, forks, held, expired, crashes>>
    BY <1>4 DEF Gate, Confirm, Idle, Score
  <2>2. \/ /\ call' \in [pc: {"outcome", "publish"}, miner: Miners, patch: Patches,
                         seed: Seed, outcome: Outcomes]
           /\ call'.pc = "outcome" => call'.outcome = "reject"
           /\ call'.pc = "publish" => call'.outcome \in Accepted
           /\ call'.miner = call.miner /\ call'.patch = call.patch /\ call'.seed = call.seed
        \/ call' = [call EXCEPT !.pc = "confirm"]
    BY <1>4, <2>1 DEF Gate, Confirm, Verdict, Outcomes, Accepted
  <2>3. TypeOK'
    BY <2>1, <2>2
  <2>4. PinInv'
    BY <2>1, <2>2 DEF PinInv, Drawing, Settling
  <2>5. StoreInv'
    BY <2>1, <2>2 DEF StoreInv, RecordMatchesAttempt, AcceptedIsPublished, Settling, Accepted
  <2>6. CreditInv'
    BY <2>1, <2>2 DEF CreditInv, OneCreditPerPatch
  <2> QED
    BY <2>3, <2>4, <2>5, <2>6
<1> QED
  BY <1>1, <1>2, <1>3, <1>4 DEF Evaluate

\* Publication, the two store writes and the signature.
LEMMA CallSettles ==
  ASSUME CallInv, Settle
  PROVE  CallInv'
<1> USE DEF CallInv, TypeOK, coreVars, storeVars, chainVars
<1>1. CASE PublishArtifact
  <2>1. call \in [pc: {"publish"}, miner: Miners, patch: Patches, seed: Seed, outcome: Accepted]
    BY <1>1 DEF PublishArtifact, Idle
  <2>2. TypeOK'
    <3>1. call' \in [pc: {"outcome"}, miner: Miners, patch: Patches, seed: Seed, outcome: Outcomes]
      BY <1>1, <2>1 DEF PublishArtifact, Outcomes
    <3>2. published' \subseteq [patch: Patches, outcome: Accepted, seed: Seed]
      BY <1>1, <2>1 DEF PublishArtifact
    <3> QED
      BY <1>1, <3>1, <3>2 DEF PublishArtifact
  <2>3. PinInv'
    BY <1>1, <2>1 DEF PublishArtifact, PinInv, Drawing, Settling
  <2>4. StoreInv'
    BY <1>1, <2>1 DEF PublishArtifact, StoreInv, RecordMatchesAttempt, AcceptedIsPublished,
       Settling, Accepted
  <2>5. CreditInv'
    BY <1>1, <2>1 DEF PublishArtifact, CreditInv, OneCreditPerPatch
  <2> QED
    BY <2>2, <2>3, <2>4, <2>5
<1>2. CASE RecordOutcome
  <2> DEFINE st == IF call.outcome = "reject" THEN "rejected" ELSE "accepted"
  <2>1. /\ call \in [pc: {"outcome"}, miner: Miners, patch: Patches, seed: Seed,
                     outcome: Outcomes]
        /\ attempts[call.patch].st # "none" /\ records[call.patch] = "none"
    BY <1>2 DEF RecordOutcome, Idle, PinInv, StoreInv, Settling
  <2>2. attempts[call.patch] \in [st: {"drawn", "rejected", "accepted"}, seed: Seed, miner: Miners]
    BY <2>1 DEF NoAttempt
  <2>3. /\ attempts' = [attempts EXCEPT ![call.patch] = [@ EXCEPT !.st = st]]
        /\ call' = [call EXCEPT !.pc = "put"]
    BY <1>2 DEF RecordOutcome
  <2> HIDE DEF st
  <2>4. st \in {"rejected", "accepted"}
    BY DEF st
  <2>a. /\ attempts'[call.patch] = [attempts[call.patch] EXCEPT !.st = st]
        /\ \A p \in Patches \ {call.patch} : attempts'[p] = attempts[p]
        /\ DOMAIN attempts' = Patches
    BY <2>1, <2>3
  <2>b. /\ attempts'[call.patch] \in
             [st: {"drawn", "rejected", "accepted"}, seed: Seed, miner: Miners]
        /\ attempts'[call.patch].st = st
        /\ attempts'[call.patch].seed = attempts[call.patch].seed
        /\ attempts'[call.patch].miner = attempts[call.patch].miner
    BY <2>2, <2>4, <2>a
  <2>5. /\ \A p \in Patches : attempts'[p].seed = attempts[p].seed
                              /\ attempts'[p].miner = attempts[p].miner
        /\ \A p \in Patches \ {call.patch} : attempts'[p] = attempts[p]
        /\ attempts'[call.patch].st = st
    BY <2>a, <2>b
  <2>6. TypeOK'
    <3>1. attempts' \in [Patches -> {NoAttempt} \cup
            [st: {"drawn", "rejected", "accepted"}, seed: Seed, miner: Miners]]
      BY <2>1, <2>3, <2>a, <2>b
    <3>2. call' \in [pc: {"put"}, miner: Miners, patch: Patches, seed: Seed, outcome: Outcomes]
      BY <2>1, <2>3
    <3> QED
      BY <1>2, <3>1, <3>2 DEF RecordOutcome
  <2>7. PinInv'
    BY <1>2, <2>1, <2>3, <2>4, <2>5 DEF RecordOutcome, PinInv, Drawing, Settling
  <2>8. StoreInv'
    BY <1>2, <2>1, <2>3, <2>5 DEF RecordOutcome, StoreInv, RecordMatchesAttempt,
       AcceptedIsPublished, Settling, Accepted, st
  <2>9. CreditInv'
    BY <1>2, <2>1, <2>3, <2>5 DEF RecordOutcome, CreditInv, OneCreditPerPatch
  <2> QED
    BY <2>6, <2>7, <2>8, <2>9
<1>3. CASE PutRecord
  <2>1. /\ call \in [pc: {"put"}, miner: Miners, patch: Patches, seed: Seed, outcome: Outcomes]
        /\ records[call.patch] = "none"
    BY <1>3 DEF PutRecord, Idle, StoreInv, Settling
  <2>2. \A i \in DOMAIN credits : credits[i].patch # call.patch
    BY <2>1 DEF CreditInv, Accepted
  <2>3. \/ call' = Idle
        \/ call.outcome \in Accepted /\ call' = [call EXCEPT !.pc = "finish"]
    BY <1>3 DEF PutRecord, Answer
  <2>4. TypeOK'
    BY <1>3, <2>1, <2>3 DEF PutRecord
  <2>5. PinInv'
    BY <1>3, <2>1, <2>3 DEF PutRecord, PinInv, Drawing, Settling, Idle
  <2>6. StoreInv'
    BY <1>3, <2>1, <2>3 DEF PutRecord, StoreInv, RecordMatchesAttempt, AcceptedIsPublished,
       Settling, Idle, Accepted, PinInv
  <2>7. CreditInv'
    BY <1>3, <2>1, <2>2, <2>3 DEF PutRecord, CreditInv, OneCreditPerPatch, Idle
  <2> QED
    BY <2>4, <2>5, <2>6, <2>7
<1>4. CASE SignReceipt
  <2>1. call \in [pc: {"finish"}, miner: Miners, patch: Patches, seed: Seed, outcome: Accepted]
    BY <1>4 DEF SignReceipt, Idle
  <2>2. /\ call' = Idle
        /\ credits' = Append(credits, [patch |-> call.patch, miner |-> call.miner])
        /\ UNCHANGED <<attempts, records, published, scored, blocks, forks, crashes>>
    BY <1>4 DEF SignReceipt, Answer
  <2>3. TypeOK'
    BY <1>4, <2>1, <2>2 DEF SignReceipt
  <2>4. PinInv' /\ StoreInv'
    BY <2>2 DEF PinInv, StoreInv, RecordMatchesAttempt, AcceptedIsPublished, Drawing,
       Settling, Idle
  <2>5. CreditInv'
    <3>1. records[call.patch] \in Accepted /\ attempts[call.patch].miner = call.miner
      BY <2>1 DEF StoreInv, PinInv
    <3>2. \A i \in DOMAIN credits : credits[i].patch # call.patch
      BY <2>1 DEF CreditInv
    <3>3. /\ DOMAIN credits' = 1..(Len(credits) + 1)
          /\ \A i \in DOMAIN credits : credits'[i] = credits[i]
          /\ credits'[Len(credits) + 1] = [patch |-> call.patch, miner |-> call.miner]
          /\ DOMAIN credits = 1..Len(credits)
      BY <2>1, <2>2
    <3> QED
      BY <2>2, <3>1, <3>2, <3>3 DEF CreditInv, OneCreditPerPatch, Idle
  <2> QED
    BY <2>3, <2>4, <2>5
<1> QED
  BY <1>1, <1>2, <1>3, <1>4 DEF Settle

LEMMA CallStep == CallInv /\ [Next]_vars => CallInv'
<1> SUFFICES ASSUME CallInv, [Next]_vars
             PROVE  CallInv'
  OBVIOUS
<1>1. CASE \E m \in Miners, p \in Patches : Begin(m, p)
  BY <1>1, CallBegins
<1>2. CASE Evaluate
  BY <1>2, CallEvaluates
<1>3. CASE Settle
  BY <1>3, CallSettles
<1>4. CASE CallFails \/ ReceiptExpires \/ Crash \/ NewBlock \/ ChainReorg
  <2>1. blocks' \in Seq(Nat) /\ forks' \in Nat /\ crashes' \in Nat
    <3>1. CASE CallFails \/ ReceiptExpires \/ Crash
      BY <3>1 DEF CallInv, TypeOK, CallFails, ReceiptExpires, Crash, chainVars
    <3>3. CASE NewBlock
      BY <3>3 DEF CallInv, TypeOK, NewBlock
    <3>2. CASE ChainReorg
      <4>1. PICK keep \in 0..Len(blocks) : keep < Len(blocks) /\ blocks' = SubSeq(blocks, 1, keep)
        BY <3>2 DEF ChainReorg
      <4>2. SubSeq(blocks, 1, keep) \in Seq(Nat)
        BY <4>1 DEF CallInv, TypeOK
      <4> QED
        BY <3>2, <4>1, <4>2 DEF ChainReorg, CallInv, TypeOK
    <3> QED
      BY <1>4, <3>1, <3>2, <3>3
  <2>2. /\ call' = call \/ call' = Idle
        /\ UNCHANGED <<attempts, records, published, credits, scored>>
        /\ held' \subseteq Patches /\ expired' \subseteq Patches
    BY <1>4 DEF CallInv, TypeOK, CallFails, ReceiptExpires, Crash, NewBlock, ChainReorg,
       storeVars, coreVars, Answer
  <2> QED
    BY <2>1, <2>2 DEF CallInv, TypeOK, PinInv, StoreInv, CreditInv, OneCreditPerPatch,
       RecordMatchesAttempt, AcceptedIsPublished, Drawing, Settling, Idle
<1>5. CASE UNCHANGED vars
  BY <1>5 DEF vars, CallInv, TypeOK, PinInv, StoreInv, CreditInv, OneCreditPerPatch,
     RecordMatchesAttempt, AcceptedIsPublished, Drawing, Settling, chainVars, storeVars, coreVars
<1> QED
  BY <1>1, <1>2, <1>3, <1>4, <1>5 DEF Next

LEMMA CallInvariance == Spec => []CallInv
<1> QED
  BY CallInit, CallStep, PTL DEF Spec

\* Resubmissions, failures, restarts and reorganisations never have a patch
\* scored under a second seed (the pinned attempt row).
THEOREM SeedStaysPinned == Spec => []OneSeedPerPatch
<1>1. CallInv => OneSeedPerPatch
  BY DEF CallInv, PinInv, OneSeedPerPatch
<1> QED
  BY <1>1, CallInvariance, PTL

\* A patch is credited at most once and to the miner who drew its seed, even
\* after the core has forgotten its receipts.
THEOREM CreditsStayUnique == Spec => []OneCreditPerPatch
<1>1. CallInv => OneCreditPerPatch
  BY DEF CallInv, CreditInv
<1> QED
  BY <1>1, CallInvariance, PTL

\* The dedup record and the attempt row of a patch agree, whatever call of
\* record() was cut short.
THEOREM RecordsStayBacked == Spec => []RecordMatchesAttempt
<1>1. CallInv => RecordMatchesAttempt
  BY DEF CallInv, StoreInv
<1> QED
  BY <1>1, CallInvariance, PTL

\* What the evaluator has on record as accepted was published first, with that
\* outcome and that seed (scorePatch publishes before it settles).
THEOREM AcceptancesStayPublished == Spec => []AcceptedIsPublished
<1>1. CallInv => AcceptedIsPublished
  BY DEF CallInv, StoreInv
<1> QED
  BY <1>1, CallInvariance, PTL

(***************************************************************************)
(* The admission cap                                                       *)
(***************************************************************************)
Charged(m) == {p \in Patches : attempts[p].st # "none" /\ attempts[p].miner = m}

\* A call that has not drawn yet leaves room for its own admission.
CapInv ==
  /\ \A m \in Miners : Cardinality(Charged(m)) <= PerMinerCap
  /\ Drawing => Cardinality(Charged(call.miner)) < PerMinerCap

LEMMA CapInit == Init => CapInv
<1> SUFFICES ASSUME Init PROVE CapInv
  OBVIOUS
<1>1. \A m : Charged(m) = {}
  BY DEF Init, Charged, NoAttempt
<1>2. \A m : Cardinality(Charged(m)) = 0
  BY <1>1, FS_EmptySet
<1>3. ~Drawing
  BY DEF Init, Drawing, Idle
<1> QED
  BY <1>2, <1>3, AttemptsAssumption DEF CapInv

\* Only the pin charges, and it charges one patch to one miner.
LEMMA CapStep == CallInv /\ CapInv /\ [Next]_vars => CapInv'
<1> SUFFICES ASSUME CallInv, CapInv, [Next]_vars
             PROVE  CapInv'
  OBVIOUS
<1>1. CASE Pin
  <2>0. PICK miner \in Miners, patch \in Patches :
          call.pc = "pin" /\ call.miner = miner /\ call.patch = patch
    BY <1>1 DEF Pin, CallInv, TypeOK, Idle
  <2>1. attempts[patch].st = "none"
    BY <2>0 DEF CallInv, PinInv, Drawing
  <2>2. attempts' = [attempts EXCEPT ![patch] =
                       [st |-> "drawn", seed |-> call.seed, miner |-> miner]]
    BY <1>1, <2>0, <2>1 DEF Pin, RecordSeedDrawn
  <2>3. /\ Charged(miner)' = Charged(miner) \cup {patch}
        /\ patch \notin Charged(miner)
        /\ \A m \in Miners \ {miner} : Charged(m)' = Charged(m)
    <3>1. \A m \in Miners, p \in Patches \ {patch} : p \in Charged(m)' <=> p \in Charged(m)
      BY <2>1, <2>2 DEF Charged, CallInv, TypeOK
    <3>2. \A m \in Miners : patch \in Charged(m)' <=> m = miner
      BY <2>1, <2>2 DEF Charged, CallInv, TypeOK
    <3>3. \A m \in Miners : patch \notin Charged(m)
      BY <2>1 DEF Charged
    <3>4. \A m : Charged(m) \subseteq Patches /\ Charged(m)' \subseteq Patches
      BY DEF Charged
    <3>5. Charged(miner)' = Charged(miner) \cup {patch}
      <4>1. \A p : p \in Charged(miner)' <=> p \in Charged(miner) \cup {patch}
        BY <2>1, <3>1, <3>2, <3>4
      <4> QED
        BY <4>1
    <3>6. ASSUME NEW m \in Miners \ {miner}
          PROVE  Charged(m)' = Charged(m)
      <4>1. \A p : p \in Charged(m)' <=> p \in Charged(m)
        BY <2>1, <3>1, <3>2, <3>3, <3>4
      <4> QED
        BY <4>1
    <3> QED
      BY <2>1, <3>3, <3>5, <3>6
  <2>4. IsFiniteSet(Charged(miner))
    BY FS_Subset, AttemptsAssumption DEF Charged
  <2>5. Cardinality(Charged(miner)') = Cardinality(Charged(miner)) + 1
    BY <2>3, <2>4, FS_AddElement
  <2>6. /\ Cardinality(Charged(miner)) \in Nat
        /\ Cardinality(Charged(miner)) < PerMinerCap
    BY <2>0, <2>1, <2>4, FS_CardinalityType DEF CapInv, Drawing
  <2>7. Cardinality(Charged(miner)') <= PerMinerCap
    BY <2>5, <2>6, AttemptsAssumption
  <2>8. ~Drawing'
    BY <1>1, <2>0, <2>1 DEF Pin, CallInv, TypeOK, Drawing, Idle
  <2>9. ASSUME NEW m \in Miners
        PROVE  Cardinality(Charged(m)') <= PerMinerCap
    BY <2>3, <2>7 DEF CapInv
  <2> QED
    BY <2>8, <2>9 DEF CapInv
<1>2. CASE ~Pin
  <2>1. \A p \in Patches : /\ attempts'[p].miner = attempts[p].miner
                           /\ attempts'[p].st = "none" <=> attempts[p].st = "none"
    <3>1. CASE RecordOutcome
      <4>1. call.patch \in Patches /\ attempts[call.patch].st # "none"
        BY <3>1 DEF RecordOutcome, CallInv, TypeOK, PinInv, Settling, Idle
      <4>2. attempts[call.patch] \in [st: {"drawn", "rejected", "accepted"}, seed: Seed, miner: Miners]
        BY <4>1 DEF CallInv, TypeOK, NoAttempt
      <4> QED
        BY <3>1, <4>1, <4>2 DEF RecordOutcome, CallInv, TypeOK
    <3>2. CASE ~RecordOutcome
      BY <1>2, <3>2 DEF Next, Begin, DuplicateSubmission, DuplicateInFlight, Retry, OverCap,
         FirstDraw, Arrives, Evaluate, ReadHead, TargetMined, Gate, Confirm, Settle,
         PublishArtifact, PutRecord, SignReceipt, CallFails, ReceiptExpires, Crash, NewBlock,
         ChainReorg, storeVars, vars
    <3> QED
      BY <3>1, <3>2
  <2>2. \A m : Charged(m)' = Charged(m)
    BY <2>1 DEF Charged
  <2>3. Drawing' => /\ call'.miner \in Miners
                    /\ \/ Drawing /\ call'.miner = call.miner
                       \/ Cardinality(Charged(call'.miner)) < PerMinerCap
    <3>1. CASE \E m \in Miners, p \in Patches : Begin(m, p)
      <4>1. \A m : Admissions(m) = Cardinality(Charged(m))
        BY DEF Admissions, Charged
      <4>2. PICK m \in Miners, p \in Patches : Begin(m, p)
        BY <3>1
      <4>3. CASE FirstDraw(m, p)
        BY <4>1, <4>3 DEF FirstDraw
      <4>4. CASE ~FirstDraw(m, p)
        BY <4>2, <4>4 DEF Begin, DuplicateSubmission, DuplicateInFlight, Retry, OverCap,
           Answer, Idle, Drawing
      <4> QED
        BY <4>3, <4>4
    <3>2. CASE Evaluate
      BY <1>2, <3>2 DEF Evaluate, ReadHead, TargetMined, Gate, Confirm, Verdict, Drawing,
         CallInv, TypeOK, Idle
    <3>3. CASE Settle
      BY <3>3 DEF Settle, PublishArtifact, RecordOutcome, PutRecord, SignReceipt, Answer,
         Drawing, CallInv, TypeOK, Idle
    <3>4. CASE CallFails \/ ReceiptExpires \/ Crash \/ NewBlock \/ ChainReorg \/ UNCHANGED vars
      BY <3>4 DEF CallFails, ReceiptExpires, Crash, NewBlock, ChainReorg, vars, Answer, Drawing,
         CallInv, TypeOK, Idle
    <3> QED
      BY <3>1, <3>2, <3>3, <3>4 DEF Next
  <2> QED
    BY <2>2, <2>3 DEF CapInv
<1> QED
  BY <1>1, <1>2

\* The patches of a miner that ever reached the scorer stay within the cap:
\* pin and charge are one write, before any scoring.
THEOREM CapHolds == Spec => []ScoringsWithinCap
<1>1. CallInv /\ CapInv => ScoringsWithinCap
  <2> SUFFICES ASSUME CallInv, CapInv, NEW m \in Miners
               PROVE  Cardinality({p \in Patches : scored[p] # {} /\ attempts[p].miner = m})
                        <= PerMinerCap
    BY DEF ScoringsWithinCap
  <2> DEFINE S == {p \in Patches : scored[p] # {} /\ attempts[p].miner = m}
  <2>1. S \subseteq Charged(m)
    BY DEF CallInv, PinInv, Charged
  <2>2. IsFiniteSet(Charged(m))
    BY FS_Subset, AttemptsAssumption DEF Charged
  <2>3. /\ Cardinality(S) <= Cardinality(Charged(m))
        /\ Cardinality(S) \in Nat /\ Cardinality(Charged(m)) \in Nat
    BY <2>1, <2>2, FS_Subset, FS_CardinalityType
  <2>4. Cardinality(Charged(m)) <= PerMinerCap
    BY DEF CapInv
  <2> QED
    BY <2>3, <2>4, AttemptsAssumption
<1> QED
  BY <1>1, CallInvariance, CapInit, CapStep, PTL DEF Spec

(***************************************************************************)
(* The seed is unknown when the patch arrives                              *)
(***************************************************************************)
\* A hash that existed at the arrival is still on the chain or belongs to a
\* fork that no later block is mined on; so every block above the head the
\* call read is new to the call.
ArrivalInv ==
  /\ arrival \subseteq Nat \X Nat
  /\ \A i \in DOMAIN blocks : blocks[i] <= forks
  /\ \A h \in arrival : \/ h[2] < forks
                        \/ h[1] \in DOMAIN blocks /\ blocks[h[1]] = h[2]
  /\ call.pc = "wait" =>
       \A i \in DOMAIN blocks : i > call.received => <<i, blocks[i]>> \notin arrival
  /\ call.pc = "pin" => <<call.seed.target, call.seed.fork>> \notin arrival

LEMMA ArrivalInit == Init => ArrivalInv
BY DEF Init, ArrivalInv, Idle

LEMMA ArrivalStep == CallInv /\ ArrivalInv /\ [Next]_vars => ArrivalInv'
<1> SUFFICES ASSUME CallInv, ArrivalInv, [Next]_vars
             PROVE  ArrivalInv'
  OBVIOUS
<1>0. blocks \in Seq(Nat) /\ forks \in Nat
  BY DEF CallInv, TypeOK
<1>1. CASE \E m \in Miners, p \in Patches : Begin(m, p)
  <2>1. /\ arrival' = Hashes /\ UNCHANGED <<blocks, forks>>
        /\ call'.pc \in {"idle", "head", "gate"}
    BY <1>1 DEF Begin, DuplicateSubmission, DuplicateInFlight, Retry, OverCap, FirstDraw,
       Arrives, Answer, Idle, chainVars
  <2>2. Hashes \subseteq Nat \X Nat
    BY <1>0 DEF Hashes
  <2> QED
    BY <2>1, <2>2 DEF ArrivalInv, Hashes
<1>2. CASE ReadHead
  <2>1. /\ call'.pc = "wait" /\ call'.received = Len(blocks)
        /\ UNCHANGED <<blocks, forks, arrival>>
    BY <1>2 DEF ReadHead, chainVars
  <2> QED
    BY <1>0, <2>1 DEF ArrivalInv
<1>3. CASE TargetMined
  <2>1. call.pc = "wait" /\ call.received \in Nat
    BY <1>3 DEF TargetMined, CallInv, TypeOK, Idle
  <2>2. /\ call'.pc = "pin" /\ UNCHANGED <<blocks, forks, arrival>>
        /\ call'.seed.target = Target(call.received)
        /\ call'.seed.fork = blocks[Target(call.received)]
        /\ Target(call.received) \in DOMAIN blocks
    BY <1>3 DEF TargetMined, chainVars
  <2>3. Target(call.received) > call.received
    BY <2>1, AttemptsAssumption DEF Target
  <2> QED
    BY <2>1, <2>2, <2>3 DEF ArrivalInv
<1>4. CASE Pin \/ Gate \/ Confirm \/ Settle \/ CallFails \/ ReceiptExpires \/ Crash
           \/ UNCHANGED vars
  <2>1. UNCHANGED <<blocks, forks, arrival>>
    BY <1>4 DEF Pin, Gate, Confirm, Settle, PublishArtifact, RecordOutcome, PutRecord,
       SignReceipt, CallFails, ReceiptExpires, Crash, vars, chainVars
  <2>2. call' = call \/ call'.pc \notin {"wait", "pin"}
    BY <1>4 DEF Pin, Gate, Confirm, Settle, PublishArtifact, RecordOutcome, PutRecord,
       SignReceipt, CallFails, ReceiptExpires, Crash, vars, Verdict, Answer, Idle, CallInv,
       TypeOK
  <2> QED
    BY <2>1, <2>2 DEF ArrivalInv
<1>5. CASE NewBlock
  <2>1. /\ blocks' = Append(blocks, forks)
        /\ forks' = forks /\ arrival' = arrival /\ call' = call
    BY <1>5 DEF NewBlock
  <2>2. /\ DOMAIN blocks' = 1..(Len(blocks) + 1) /\ DOMAIN blocks = 1..Len(blocks)
        /\ \A i \in DOMAIN blocks : blocks'[i] = blocks[i]
        /\ blocks'[Len(blocks) + 1] = forks /\ Len(blocks) \in Nat
    BY <1>0, <2>1
  <2>3. <<Len(blocks) + 1, forks>> \notin arrival
    <3> SUFFICES ASSUME <<Len(blocks) + 1, forks>> \in arrival PROVE FALSE
      OBVIOUS
    <3>1. forks < forks \/ Len(blocks) + 1 \in DOMAIN blocks
      BY DEF ArrivalInv
    <3> QED
      BY <1>0, <2>2, <3>1
  <2>4. \A i \in DOMAIN blocks' : i \in DOMAIN blocks \/ i = Len(blocks) + 1
    BY <2>2
  <2>5. \A i \in DOMAIN blocks' : blocks'[i] <= forks'
    <3> SUFFICES ASSUME NEW i \in DOMAIN blocks' PROVE blocks'[i] <= forks
      BY <2>1
    <3>1. CASE i \in DOMAIN blocks
      BY <2>2, <3>1 DEF ArrivalInv
    <3>2. CASE i = Len(blocks) + 1
      BY <1>0, <2>2, <3>2
    <3> QED
      BY <2>4, <3>1, <3>2
  <2>7. \A h \in arrival' : \/ h[2] < forks'
                            \/ h[1] \in DOMAIN blocks' /\ blocks'[h[1]] = h[2]
    <3> SUFFICES ASSUME NEW h \in arrival
                 PROVE  h[2] < forks \/ (h[1] \in DOMAIN blocks' /\ blocks'[h[1]] = h[2])
      BY <2>1
    <3>1. CASE h[2] < forks
      BY <3>1
    <3>2. CASE h[1] \in DOMAIN blocks /\ blocks[h[1]] = h[2]
      BY <2>2, <3>2
    <3> QED
      BY <3>1, <3>2 DEF ArrivalInv
  <2>6. call'.pc = "wait" =>
          \A i \in DOMAIN blocks' : i > call'.received => <<i, blocks'[i]>> \notin arrival'
    BY <2>1, <2>2, <2>3, <2>4 DEF ArrivalInv
  <2> QED
    BY <2>1, <2>5, <2>6, <2>7 DEF ArrivalInv
<1>6. CASE ChainReorg
  <2>1. PICK keep \in 0..Len(blocks) : keep < Len(blocks) /\ blocks' = SubSeq(blocks, 1, keep)
    BY <1>6 DEF ChainReorg
  <2>2. /\ DOMAIN blocks' = 1..keep /\ DOMAIN blocks = 1..Len(blocks)
        /\ \A i \in 1..keep : blocks'[i] = blocks[i]
        /\ keep \in Nat /\ Len(blocks) \in Nat
    BY <1>0, <2>1
  <2>3. forks' = forks + 1 /\ arrival' = arrival /\ call' = call
    BY <1>6 DEF ChainReorg
  <2>4. \A i \in DOMAIN blocks' : i \in DOMAIN blocks /\ blocks'[i] = blocks[i]
    BY <2>1, <2>2
  <2>5. \A i \in DOMAIN blocks : blocks[i] \in Nat /\ blocks[i] <= forks
    BY <1>0 DEF ArrivalInv
  <2>6. ASSUME NEW h \in arrival PROVE h[2] < forks'
    <3>0. h[2] \in Nat
      BY DEF ArrivalInv
    <3>1. CASE h[2] < forks
      BY <1>0, <2>3, <3>0, <3>1
    <3>2. CASE h[1] \in DOMAIN blocks /\ blocks[h[1]] = h[2]
      BY <1>0, <2>3, <2>5, <3>2
    <3> QED
      BY <3>1, <3>2 DEF ArrivalInv
  <2>7. \A i \in DOMAIN blocks' : blocks'[i] <= forks'
    <3> SUFFICES ASSUME NEW i \in DOMAIN blocks' PROVE blocks'[i] <= forks'
      OBVIOUS
    <3>1. blocks'[i] \in Nat /\ blocks'[i] <= forks
      BY <2>4, <2>5
    <3> QED
      BY <1>0, <2>3, <3>1
  <2>8. call'.pc = "wait" =>
          \A i \in DOMAIN blocks' : i > call'.received => <<i, blocks'[i]>> \notin arrival'
    BY <2>3, <2>4 DEF ArrivalInv
  <2>9. \A h \in arrival' : \/ h[2] < forks'
                            \/ h[1] \in DOMAIN blocks' /\ blocks'[h[1]] = h[2]
    <3> SUFFICES ASSUME NEW h \in arrival PROVE h[2] < forks'
      BY <2>3, Zenon
    <3> QED
      BY <2>6
  <2>10. arrival' \subseteq Nat \X Nat
    BY <2>3 DEF ArrivalInv
  <2>11. call'.pc = "pin" => <<call'.seed.target, call'.seed.fork>> \notin arrival'
    BY <2>3 DEF ArrivalInv
  <2> QED
    BY <2>7, <2>8, <2>9, <2>10, <2>11 DEF ArrivalInv
<1> QED
  BY <1>1, <1>2, <1>3, <1>4, <1>5, <1>6 DEF Next, Evaluate

\* The block whose hash seeds a patch was mined after the patch arrived, on
\* whatever fork it is (targetBlockOffset, waitForBlock).
THEOREM SeedIsUnknown == Spec => SeedUnknownAtArrival
<1>1. CallInv /\ ArrivalInv /\ [Next]_vars =>
        [\A p \in Patches :
           attempts'[p].st = "drawn" /\ attempts[p].st = "none"
             => <<attempts'[p].seed.target, attempts'[p].seed.fork>> \notin arrival]_vars
  <2> SUFFICES ASSUME CallInv, ArrivalInv, [Next]_vars, NEW p \in Patches,
                      attempts'[p].st = "drawn", attempts[p].st = "none"
               PROVE  <<attempts'[p].seed.target, attempts'[p].seed.fork>> \notin arrival
    OBVIOUS
  <2>1. CASE Pin
    <3>1. call.pc = "pin" /\ attempts[call.patch].st = "none" /\ call.patch \in Patches
      BY <2>1 DEF Pin, CallInv, PinInv, TypeOK, Idle, Drawing
    <3>2. attempts' = [attempts EXCEPT ![call.patch] =
                         [st |-> "drawn", seed |-> call.seed, miner |-> call.miner]]
      BY <2>1, <3>1 DEF Pin, RecordSeedDrawn
    <3>3. p = call.patch
      BY <3>1, <3>2 DEF CallInv, TypeOK
    <3>4. attempts'[p].seed = call.seed
      BY <3>1, <3>2, <3>3 DEF CallInv, TypeOK
    <3> QED
      BY <3>1, <3>4 DEF ArrivalInv
  <2>2. CASE RecordOutcome
    <3>1. call.patch \in Patches /\ attempts[call.patch].st # "none"
      BY <2>2 DEF RecordOutcome, CallInv, TypeOK, PinInv, Settling, Idle
    <3> QED
      BY <2>2, <3>1 DEF RecordOutcome, CallInv, TypeOK
  <2>3. CASE ~Pin /\ ~RecordOutcome
    <3>1. UNCHANGED attempts
      BY <2>3 DEF Next, Begin, DuplicateSubmission, DuplicateInFlight, Retry, OverCap,
         FirstDraw, Arrives, Evaluate, ReadHead, TargetMined, Gate, Confirm, Settle,
         PublishArtifact, PutRecord, SignReceipt, CallFails, ReceiptExpires, Crash, NewBlock,
         ChainReorg, storeVars, vars
    <3> QED
      BY <3>1
  <2> QED
    BY <2>1, <2>2, <2>3
<1> QED
  BY <1>1, CallInvariance, ArrivalInit, ArrivalStep, PTL DEF Spec, SeedUnknownAtArrival
=============================================================================
