------------------------------- MODULE MCAgps -------------------------------
(* Instances of Agps for TLC. *)
EXTENDS Agps

CONSTANTS a1, a2, e1, e2, b1, w1, w2

MCAtl   == {a1, a2}
MCEs    == {e1, e2}
MCBit   == {b1}
MCWifi  == {w1, w2}
MCCasts == {{a1, a2}, {a1, e1}, {b1}, {w1, w2}}
MCBoth  == BOOLEAN
============================================================================
