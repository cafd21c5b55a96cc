------------------------------ MODULE MCIpacm ------------------------------
(* The modem's interfaces differ in nothing but their names.                 *)
EXTENDS Ipacm

WansAlike == Permutations(Wans)
=============================================================================
