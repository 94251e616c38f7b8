------------------------------ MODULE TxQueue ------------------------------
(***************************************************************************)
(* What the transmit side of the Ethernet driver promises lwIP: a bounded  *)
(* queue.  A frame accepted by lowLevelOutput goes onto the wire once, as  *)
(* a whole, after the frames accepted before it, and its packet buffer is  *)
(* given back after it went out, in the same order.  EthTxRing implements  *)
(* this with descriptors.                                                  *)
(***************************************************************************)
EXTENDS Naturals, Sequences

CONSTANTS
    Frames,     \* what can be sent
    Capacity,   \* how many frames the driver holds at most
    Content(_)  \* what a frame looks like on the wire

VARIABLES
    queue,  \* accepted, not yet sent, oldest first
    sent,   \* sent, buffer not yet given back, oldest first
    wire    \* the content of the last frame sent

vars == <<queue, sent, wire>>

Init == queue = <<>> /\ sent = <<>> /\ wire = <<>>

Accept(f) ==
    /\ Len(queue) + Len(sent) < Capacity
    /\ queue' = Append(queue, f)
    /\ UNCHANGED <<sent, wire>>

Send ==
    /\ queue # <<>>
    /\ wire' = Content(Head(queue))
    /\ sent' = Append(sent, Head(queue))
    /\ queue' = Tail(queue)

GiveBack ==
    /\ sent # <<>>
    /\ sent' = Tail(sent)
    /\ UNCHANGED <<queue, wire>>

Next == (\E f \in Frames : Accept(f)) \/ Send \/ GiveBack

Spec == Init /\ [][Next]_vars
=============================================================================
