---------------------------- MODULE EchoService ----------------------------
(***************************************************************************)
(* What the echo server promises the host at the other end of each of its  *)
(* connections: everything received is handed to TCP, once, in the order   *)
(* it was received, and the server ends a connection in good order only    *)
(* when it has nothing left to echo.  Only an error of the connection      *)
(* loses data.                                                             *)
(***************************************************************************)
EXTENDS Naturals, Sequences

CONSTANTS
    Connections,  \* connections over the life of the server
    Items,        \* units of data
    MaxChunk      \* how many units arrive at once, at most

VARIABLES
    state,    \* of each connection: idle, open, closing or closed
    pending,  \* received, not yet handed to TCP
    queue     \* handed to TCP, not yet acknowledged

vars == <<state, pending, queue>>

Chunks == UNION {[1 .. n -> Items] : n \in 1 .. MaxChunk}

Drop(s, n) == SubSeq(s, n + 1, Len(s))

Init ==
    /\ state = [c \in Connections |-> "idle"]
    /\ pending = [c \in Connections |-> <<>>]
    /\ queue = [c \in Connections |-> <<>>]

\* Some leading units of have go to TCP after what is in q; the rest waits.
HandOver(c, have, q) ==
    \E n \in 0 .. Len(have) :
        /\ pending' = [pending EXCEPT ![c] = Drop(have, n)]
        /\ queue' = [queue EXCEPT ![c] = q \o SubSeq(have, 1, n)]

Open(c) ==
    /\ state[c] = "idle"
    /\ state' = [state EXCEPT ![c] = "open"]
    /\ UNCHANGED <<pending, queue>>

Receive(c) ==
    /\ state[c] = "open"
    /\ \E data \in Chunks : HandOver(c, pending[c] \o data, queue[c])
    /\ UNCHANGED state

\* The other side has finished sending.
Finish(c) ==
    /\ state[c] = "open"
    /\ state' = [state EXCEPT ![c] = "closing"]
    /\ HandOver(c, pending[c], queue[c])

\* The first acked units are acknowledged, and more is handed over.
Progress(c) ==
    /\ \E acked \in 0 .. Len(queue[c]) :
            HandOver(c, pending[c], Drop(queue[c], acked))
    /\ UNCHANGED state

\* The server ends the connection, its echo complete.
Close(c) ==
    /\ state[c] \in {"open", "closing"}
    /\ pending[c] = <<>>
    /\ state' = [state EXCEPT ![c] = "closed"]
    /\ \E acked \in 0 .. Len(queue[c]) :
            queue' = [queue EXCEPT ![c] = Drop(queue[c], acked)]
    /\ UNCHANGED pending

\* The connection is lost, with everything in it.
Abort(c) ==
    /\ state[c] # "idle"
    /\ state' = [state EXCEPT ![c] = "closed"]
    /\ pending' = [pending EXCEPT ![c] = <<>>]
    /\ queue' = [queue EXCEPT ![c] = <<>>]

Next ==
    \E c \in Connections :
        Open(c) \/ Receive(c) \/ Finish(c) \/ Progress(c) \/ Close(c) \/ Abort(c)

Spec == Init /\ [][Next]_vars
=============================================================================
