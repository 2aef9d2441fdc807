----------------------------- MODULE TcpStream -----------------------------
(* Two ports of tcp.c implement Stream: the mapping of their states.       *)
EXTENDS TcpPair

\* The connection as the application at an end sees it.
Conn(e) ==
    CASE port[e].state = "ESTABLISHED" -> "open"
      [] port[e].state \in {"FIN_WAIT_1", "FIN_WAIT_2"} -> "closed"
      [] OTHER -> "idle"

\* The payloads that have no number and are not waiting for one.
Dropped(e) ==
    {n \in 1 .. sent[e] : /\ n \notin Numbered(e)
                          /\ \A k \in 1 .. Len(send_queue[e]) :
                                send_queue[e][k].data # n}

App == INSTANCE Stream WITH conn    <- [e \in Ends |-> Conn(e)],
                            dropped <- [e \in Ends |-> Dropped(e)]

\* Every step of the two ports and of the network is a step of the stream or
\* changes nothing the applications see: no retransmission, duplicate, late
\* handshake segment or acknowledgement shows through, a connection is
\* announced once, nothing is received outside of it, and nothing is skipped
\* but what its sender dropped.
StreamSafety == App!Spec
=============================================================================
