--------------------------- MODULE MCEthRxPool ----------------------------
(* The receive pool for TLC: a frame of one buffer, and one of two.        *)
EXTENDS EthRxPool

MCFrames == {"short", "long"}
MCSizes == [short |-> <<2>>, long |-> <<3, 1>>]
============================================================================
