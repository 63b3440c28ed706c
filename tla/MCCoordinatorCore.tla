------------------------- MODULE MCCoordinatorCore -------------------------
\* Instances of CoordinatorCore for TLC: three roots, and patches that compete
\* for the launch root or continue the first of them.
EXTENDS CoordinatorCore, TLC

CONSTANTS r0, r1, r2, p1, p2

MCRoots == {r0, r1, r2}
TwoPatches == {p1, p2}
ParentOfTwo == (p1 :> r0) @@ (p2 :> r0)
AfterTwo == (p1 :> r1) @@ (p2 :> r2)
ParentOfChain == (p1 :> r0) @@ (p2 :> r1)
AfterChain == (p1 :> r1) @@ (p2 :> r2)
BothKinds == {"advance", "screener"}
OnlyAdvances == {"advance"}
=============================================================================
