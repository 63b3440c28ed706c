--------------------------- MODULE TrustedReplica ---------------------------
(***************************************************************************)
(* TrustedReplica: what client synchronisation promises.  A replica only   *)
(* ever holds a state the confirmed registry reached, moves forward along  *)
(* it, and owes a score replay for every advance it took over; an advance  *)
(* stops being owed only when its epoch is revealed and its report         *)
(* reproduces.  A client scores with the one version it has installed, so  *)
(* the report of an advance of that version is honest; the promise is not  *)
(* made of an advance of another version.                                  *)
(***************************************************************************)
EXTENDS Naturals, Sequences

CONSTANTS
  None,
  Vouched  \* the states a user or a release vouches for: the patches applied

VARIABLES
  ledger,    \* the confirmed advances, oldest first: [patch, epoch, version, honest]
  revealed,  \* the epochs whose secret is confirmed
  scorer,    \* the version whose scorer the client has installed
  replica,   \* the client's state: the patches applied, or None
  owed       \* the positions in the ledger whose scores are not replayed yet

vars == <<ledger, revealed, scorer, replica, owed>>

Position == IF replica = None THEN 0 ELSE Len(replica)

Settled(i) ==
  /\ ledger[i].epoch \in revealed
  /\ ledger[i].version = scorer => ledger[i].honest

\* A vouched state stands for the advances it is made of, when it is a state of
\* the ledger.
Covered(i) ==
  \E v \in Vouched :
    /\ i <= Len(v) /\ Len(v) <= Len(ledger)
    /\ \A k \in 1..Len(v) : v[k] = ledger[k].patch

Init ==
  /\ ledger = <<>>
  /\ revealed = {}
  /\ replica = None
  /\ owed = {}

Confirm ==
  /\ Len(ledger) <= Len(ledger')
  /\ ledger = SubSeq(ledger', 1, Len(ledger))
  /\ revealed \subseteq revealed'
  /\ UNCHANGED <<scorer, replica, owed>>

Install ==
  /\ scorer' # scorer
  /\ UNCHANGED <<ledger, revealed, replica, owed>>

Adopt ==
  \E n \in Position..Len(ledger) :
    /\ replica' = [i \in 1..n |-> ledger[i].patch]
    /\ owed' \subseteq owed \cup 1..n
    /\ \A i \in owed : i \in owed' \/ Settled(i)
    /\ \A i \in (Position + 1)..n : i \in owed' \/ Settled(i) \/ Covered(i)
    /\ UNCHANGED <<ledger, revealed, scorer>>

Forget ==
  /\ replica' = None
  /\ owed' = {}
  /\ UNCHANGED <<ledger, revealed, scorer>>

Next == Confirm \/ Install \/ Adopt \/ Forget

Spec == Init /\ [][Next]_vars
=============================================================================
