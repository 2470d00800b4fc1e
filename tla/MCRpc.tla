-------------------------------- MODULE MCRpc -------------------------------
EXTENDS Rpc, TLC
CONSTANTS c1, c2, c3

Two    == {c1, c2}
Three  == {c1, c2, c3}
Dawdlers == {c1}
=============================================================================
