------------------------- MODULE CoordinatorRoutes -------------------------
\* The coordinator's HTTP surface: the router (coordinator/endpoints.ts), the
\* data source that filters what the core answers (retrieval-data-source.ts) and
\* the notice of a patch's arrival (patch-received-notice.ts). Something that may
\* be missing is a set of at most one element.
EXTENDS Integers, FiniteSets, Sequences, OrderedChecks

----------------------------------------------------------------------------
\* A request is a record of method and route, the route being what its path
\* names; a path of the service that names none is "unknown", any other path
\* "foreign".
Endpoints == {"health", "status", "substrate", "submit", "receipt"}
Endpoint(req) ==
  {e \in Endpoints : req.route = e /\ req.method = IF e = "submit" THEN "POST" ELSE "GET"}

\* A guard that is not there, or that answers true or nothing, passes; a denial
\* has a status of its own or the guard's default.
Denial(guard, default) ==
  IF guard.passes THEN {} ELSE IF guard.status = {} THEN {default} ELSE guard.status
GuardRoute(source) ==
  IF Denial(source.authorize, 401) # {} THEN Denial(source.authorize, 401)
  ELSE Denial(source.rateLimit, 429)

Unavailable ==
  {"EvalFailure", "SignerFailure", "CoordSignerUnavailable", "CoordUnhealthy", "CoordEpochMismatch",
   "CoordAwaitingFinality", "awaiting_baseline_recompute", "epoch_cutover_in_progress",
   "epoch_cutover_unavailable", "QueueFull"}
BadRequest == {"BODY", "DECODE", "E02", "E03", "E04", "E05"}
SubmitHttpStatusFor(result) ==
  IF ~result.rejected THEN 200
  ELSE IF result.code \in Unavailable THEN 503
  ELSE IF result.code \in BadRequest THEN 400
  ELSE 200

\* What each endpoint makes of its method's answer. "answer" has found, an
\* error flag, and for a receipt its own status.
StatusOfAnswer(endpoint, answer) ==
  CASE endpoint \in {"health", "status"} -> 200
    [] endpoint = "substrate" -> IF ~answer.found THEN 404 ELSE IF answer.error THEN 502 ELSE 200
    [] endpoint = "receipt" -> IF ~answer.found THEN 404 ELSE answer.status
    [] endpoint = "submit" -> SubmitHttpStatusFor(answer)

\* The response, and the method called if one is. Only health answers without
\* a method behind it.
Handle(req, source) ==
  LET reply(status, called) == [handled |-> TRUE, status |-> status, called |-> called]
      endpoint == CHOOSE e \in Endpoint(req) : TRUE
  IN  IF req.route = "foreign" THEN [handled |-> FALSE, status |-> 404, called |-> {}]
      ELSE IF Endpoint(req) = {} THEN reply(404, {})
      ELSE IF GuardRoute(source) # {} THEN reply(CHOOSE s \in GuardRoute(source) : TRUE, {})
      ELSE IF endpoint \notin source.methods
           THEN IF endpoint = "health" THEN reply(200, {}) ELSE reply(503, {})
      ELSE reply(StatusOfAnswer(endpoint, source.answer), {endpoint})

----------------------------------------------------------------------------
\* The data source passes a rejection's code on when it is one of these, and
\* names every other one "rejected".
PassedCodes ==
  {"E01", "E02", "E03", "E04", "E05", "DECODE", "DuplicateCoreTexPatch",
   "CoreTexScreenerCapExceeded", "PATCH_TOO_LARGE", "BODY", "BODY_UNKNOWN_KEY",
   "PendingReceiptStale", "StaleParentRoot", "CoordAwaitingFinality", "epoch_cutover_in_progress",
   "awaiting_baseline_recompute", "MinerReceiptChainBusy", "duplicate_submission",
   "CoordEpochMismatch", "duplicate_in_flight"}
ScoreCodes == {"W02", "W03", "W05", "W06"}      \* with or without a suffix
SanitizedCode(code) == IF code \in PassedCodes \cup ScoreCodes THEN code ELSE "rejected"

\* Of the fields with a well-formed value: those a miner sees.
RejectedFields == {"patchHash", "currentStateRoot", "perMinerScreenerCap", "current"}
AcceptedFields ==
  {"outcome", "patchHash", "newStateRoot", "evalReportHash", "workUnitsBps", "receipt", "transaction"}
SanitizeSubmit(raw) ==
  IF ~raw.isObject THEN [rejected |-> TRUE, code |-> "rejected", fields |-> {}]
  ELSE IF raw.accepted THEN [rejected |-> FALSE, code |-> "none", fields |-> raw.fields \cap AcceptedFields]
  ELSE [rejected |-> TRUE, code |-> SanitizedCode(raw.code), fields |-> raw.fields \cap RejectedFields]

SanitizeLookup(raw) ==
  LET body == SanitizeSubmit(raw)
      more == {"confirmedOnChain", "pendingState"} \cup IF body.rejected THEN {"reason", "state"} ELSE {}
  IN  [status |-> IF raw.status > 0 THEN raw.status ELSE 500,
       body |-> IF raw.isObject THEN [body EXCEPT !.fields = @ \cup (raw.fields \cap more)] ELSE body]

\* A status is not published at all when a part of it is not what it must be.
StatusVerdict(raw) ==
  IF \/ ~raw.isObject
     \/ raw.forbiddenKey
     \/ {"stateRoot", "transitionCount"} \cap raw.present # {}
     \/ {"substrate", "lane"} \cap raw.present \cap raw.malformed # {}
     \/ \E f \in {"epochId", "currentStateRoot"} : f \notin raw.present \/ f \in raw.malformed
  THEN "coretex-status-malformed" ELSE "ok"

SubstrateVerdict(raw) ==
  IF ~raw.rootWellFormed \/ raw.wordCount # 1024 \/ raw.bytes # 32768
     \/ \E n \in raw.packedBytes : n # 32768
  THEN "coretex-substrate-malformed" ELSE "ok"

----------------------------------------------------------------------------
\* A notice commits the coordinator to the block a patch arrived in.
NoticeHash(notice) ==
  <<"coretex-patch-received-notice-v1", notice.patchHash, notice.block, notice.timestamp,
    notice.coordinator>>
NoticeVerdict(in) ==
  LET notice == CHOOSE n \in in.notice : TRUE
  IN  IF in.notice = {} THEN "NOTICE_MISSING"
      ELSE Verdict(<< <<notice.patchHash # in.patchHash, "PATCH_HASH_MISMATCH">>,
                      <<notice.block # in.receivedAtBlock, "RECEIVED_AT_BLOCK_MISMATCH">>,
                      <<NoticeHash(notice) # in.storedHash, "NOTICE_HASH_MISMATCH">> >>)
=============================================================================
