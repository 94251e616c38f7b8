--------------------------- MODULE MCEthTxRing ----------------------------
(* The driver's ring for TLC: three packets, of one, two and more buffers. *)
EXTENDS EthTxRing, TLC

CONSTANTS p1, p2, p3

MCPbufs == {p1, p2, p3}

\* TCP and DHCP frames of one buffer, an echo reply over two receive buffers.
ShortChains == p1 :> 1 @@ p2 :> 2 @@ p3 :> 2

\* A fragmented echo reply as well: more buffers than one descriptor takes.
LongChains == p1 :> 1 @@ p2 :> 3 @@ p3 :> 4

TailMayStart == BOOLEAN
============================================================================
