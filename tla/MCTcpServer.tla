---------------------------- MODULE MCTcpServer ----------------------------
(* The echo server for TLC. *)
EXTENDS TcpServer

CONSTANTS b1, b2, k1, k2

TwoPbufs == {b1, b2}
TwoPcbs == {k1, k2}

AnyCloseError == {"ERR_MEM", "ERR_OTHER"}
=============================================================================
