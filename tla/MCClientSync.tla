---------------------------- MODULE MCClientSync ----------------------------
(***************************************************************************)
(* MCClientSync: values for the constants of ClientSync.                   *)
(***************************************************************************)
EXTENDS ClientSync

Option == [skip |-> FALSE, lenient |-> FALSE, assertPrevious |-> FALSE,
           fullHistory |-> FALSE, from |-> None, parent |-> None]

CommonOptions ==
  {Option,
   [Option EXCEPT !.assertPrevious = TRUE],
   [Option EXCEPT !.skip = TRUE, !.fullHistory = TRUE],
   [Option EXCEPT !.lenient = TRUE, !.fullHistory = TRUE]}

AssertedOnly == {[Option EXCEPT !.assertPrevious = TRUE]}

\* The state after block 1, when that block holds the epoch's first advance.
FirstAdvanceRecovered ==
  [epoch |-> 1, from |-> 2, block |-> 1, root |-> <<CHOOSE p \in Payloads : TRUE>>, index |-> 0]

OneKey == {[key |-> "k1", signer |-> "k1"]}
TwoKeys == OneKey \cup {[key |-> "k2", signer |-> "k2"]}

LaunchCorpora == [v \in {"v1", "v2"} |-> IF v = "v1" THEN 0 ELSE 1]
=============================================================================
