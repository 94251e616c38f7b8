--------------------------- MODULE MCDebugUartRx ---------------------------
(* A ring of four cells for TLC, which the DMA goes round more than twice. *)
EXTENDS DebugUartRx

MCReadSizes == {1, 3}
=============================================================================
