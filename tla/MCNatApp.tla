------------------------------ MODULE MCNatApp ------------------------------
\* Two clients; the first has two connections.  The third connection uses an ALG port.
EXTENDS NatApp, TLC
CONSTANTS c1, c2, c3, i, j
Conns    == {c1, c2, c3}
Privates == (c1 :> i) @@ (c2 :> i) @@ (c3 :> j)
=============================================================================
