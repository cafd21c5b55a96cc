---------------------------- MODULE MCNatTable ----------------------------
\* Five rules.  Four collide on the way in (r1 by way of slot 0), which is more than a
\* chain through an expansion of two entries holds; four collide on the way out.
EXTENDS NatTable, TLC

CONSTANTS r1, r2, r3, r4, r5

RuleSet == {r1, r2, r3, r4, r5}
Dsts == (r1 :> 0) @@ (r2 :> 3) @@ (r3 :> 3) @@ (r4 :> 3) @@ (r5 :> 1)
Srcs == (r1 :> 2) @@ (r2 :> 2) @@ (r3 :> 0) @@ (r4 :> 2) @@ (r5 :> 2)
=============================================================================
