---------------------------- MODULE RouteChecks ----------------------------
\* The coordinator's HTTP surface over small requests: TLC evaluates every
\* assumption below before it checks the instance that extends this module.
EXTENDS CoordinatorRoutes

Guards == [passes : BOOLEAN, status : {{}, {418}}]
Answers ==
  [found : {TRUE}, error : BOOLEAN, status : {200, 409}, rejected : BOOLEAN,
   code : {"QueueFull", "E01", "E05"}]
Sources ==
  [authorize : Guards, rateLimit : Guards, methods : SUBSET Endpoints, answer : Answers]
HttpRequests == [method : {"GET", "POST"}, route : Endpoints \cup {"unknown", "foreign"}]

(* No method of the data source is called before both guards let the request *)
(* through, at most one is, and a path outside the service touches nothing.  *)
ASSUME GuardsComeFirst ==
  \A req \in HttpRequests, source \in Sources :
    LET reply == Handle(req, source)
    IN  /\ reply.called # {} =>
             /\ source.authorize.passes /\ source.rateLimit.passes
             /\ reply.called = {req.route} /\ reply.called \subseteq source.methods
        /\ ~reply.handled => reply.called = {} /\ req.route = "foreign"
        /\ reply.handled /\ reply.called = {} => reply.status \in {200, 401, 404, 418, 429, 503}

\* A rejection on its way from the core through the data source to the router.
Rejection(code) == [isObject |-> TRUE, accepted |-> FALSE, code |-> code, fields |-> {}]
StatusSeen(code) == SubmitHttpStatusFor(SanitizeSubmit(Rejection(code)))

(* The data source keeps the codes of malformed requests, so that they reach *)
(* the router as 400. Of the codes of an outage it keeps four: the others    *)
(* become "rejected", which the router answers with 200.                     *)
ASSUME OutagesSeen ==
  /\ \A code \in BadRequest : StatusSeen(code) = 400
  /\ {code \in Unavailable : StatusSeen(code) = 503} =
       {"CoordEpochMismatch", "CoordAwaitingFinality", "awaiting_baseline_recompute",
        "epoch_cutover_in_progress"}
  /\ \A code \in Unavailable : StatusSeen(code) \in {200, 503}

(* Nothing a rejection says of the score reaches a miner, whether as the     *)
(* answer of a submission or as that of a lookup.                            *)
Gradients == {"deterministicDeltaPpm", "requiredDeltaPpm", "scoreBeforePpm", "scoreAfterPpm"}
ASSUME NoGradient ==
  \A accepted \in BOOLEAN, shown \in SUBSET Gradients, code \in {"W03", "E01", "EvalFailure"} :
    LET raw == [isObject |-> TRUE, accepted |-> accepted, code |-> code, status |-> 200,
                fields |-> shown \cup {"reason", "patchHash", "outcome"}]
    IN  /\ SanitizeSubmit(raw).fields \cap Gradients = {}
        /\ SanitizeLookup(raw).body.fields \cap Gradients = {}
        /\ "reason" \in SanitizeLookup(raw).body.fields <=> ~accepted

(* A notice verifies with its own receipt and its own hash only: whoever     *)
(* changes one field of it is found out.                                     *)
Notices == [patchHash : {1, 2}, block : {1, 2}, timestamp : {1, 2}, coordinator : {1, 2}]
ASSUME NoticeBinds ==
  \A n, m \in Notices, block \in {1, 2}, patch \in {1, 2} :
    NoticeVerdict([notice |-> {n}, patchHash |-> patch, receivedAtBlock |-> block,
                   storedHash |-> NoticeHash(m)]) = "ok"
      <=> n = m /\ patch = n.patchHash /\ block = n.block

(* A status that shows a key of the hidden evaluation is not published, nor  *)
(* one without its epoch or its root.                                        *)
ASSUME StatusWithheld ==
  \A present \in SUBSET {"epochId", "currentStateRoot", "substrate", "stateRoot"}, hidden \in BOOLEAN :
    StatusVerdict([isObject |-> TRUE, forbiddenKey |-> hidden, present |-> present, malformed |-> {}])
      = "ok"
    <=> ~hidden /\ {"epochId", "currentStateRoot"} \subseteq present /\ "stateRoot" \notin present
=============================================================================
