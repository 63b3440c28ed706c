---------------------------- MODULE OrderedChecks ----------------------------
(***************************************************************************)
(* OrderedChecks: a chain of early returns.  A check is a pair of the      *)
(* condition that refuses and the code it refuses with; the verdict is the *)
(* code of the first one that holds, or "ok".                              *)
(***************************************************************************)
EXTENDS Naturals, Sequences

Refused(checks) == \E i \in DOMAIN checks : checks[i][1]

FirstRefusal(checks) ==
  CHOOSE i \in DOMAIN checks : checks[i][1] /\ \A j \in 1..i - 1 : ~checks[j][1]

Verdict(checks) == IF Refused(checks) THEN checks[FirstRefusal(checks)][2] ELSE "ok"
=============================================================================
