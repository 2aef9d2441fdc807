------------------------------- MODULE Stream -------------------------------
(***************************************************************************)
(* What tcp.c promises the applications at the two ends of a connection,   *)
(* in terms of its callbacks only: on_connect announces the connection     *)
(* once; until tcp_close_port, what tcp_send was given, on_receive hands   *)
(* over at the other end, one payload after the other.  A host without     *)
(* memory may drop a payload it has not sent yet, and the server may miss  *)
(* payloads at the beginning.  TcpStream shows that two ports of tcp.c     *)
(* work like this over a network that loses, duplicates and reorders       *)
(* segments.                                                               *)
(***************************************************************************)
EXTENDS Naturals, Sequences

VARIABLES
    conn,       \* per end: the connection as its application sees it
    sent,       \* per end: calls of tcp_send so far
    dropped,    \* per end: payloads its host gave up before sending them
    delivered   \* per end: what on_receive was called with

svars == <<conn, sent, dropped, delivered>>

Ends == {"client", "server"}
Peer(e) == IF e = "client" THEN "server" ELSE "client"

Init ==
    /\ conn = [e \in Ends |-> "idle"]
    /\ sent = [e \in Ends |-> 0]
    /\ dropped = [e \in Ends |-> {}]
    /\ delivered = [e \in Ends |-> << >>]

\* The last payload an end has got.
Last(e) == IF delivered[e] = << >> THEN 0 ELSE delivered[e][Len(delivered[e])]

\* on_connect.
Open(e) ==
    /\ conn[e] = "idle"
    /\ conn' = [conn EXCEPT ![e] = "open"]
    /\ UNCHANGED <<sent, dropped, delivered>>

\* tcp_send of the next payload.
Send(e) ==
    /\ sent' = [sent EXCEPT ![e] = @ + 1]
    /\ UNCHANGED <<conn, dropped, delivered>>

\* A payload is given up, before it or a later one was handed over.
Drop(e) ==
    /\ \E n \in 1 .. sent[e] :
          /\ n \notin dropped[e] /\ Last(Peer(e)) < n
          /\ dropped' = [dropped EXCEPT ![e] = @ \cup {n}]
    /\ UNCHANGED <<conn, sent, delivered>>

\* on_receive: the next payload that was not dropped, or at the server, to
\* begin with, any.
Deliver(e) ==
    /\ conn[e] = "open"
    /\ \E n \in 1 .. sent[Peer(e)] :
          /\ Last(e) < n /\ n \notin dropped[Peer(e)]
          /\ \/ \A k \in Last(e) + 1 .. n - 1 : k \in dropped[Peer(e)]
             \/ e = "server" /\ delivered[e] = << >>
          /\ delivered' = [delivered EXCEPT ![e] = Append(@, n)]
    /\ UNCHANGED <<conn, sent, dropped>>

\* tcp_close_port: nothing is announced or received any more.
Close(e) ==
    /\ conn[e] \in {"idle", "open"}
    /\ conn' = [conn EXCEPT ![e] = "closed"]
    /\ UNCHANGED <<sent, dropped, delivered>>

Next == \E e \in Ends : Open(e) \/ Send(e) \/ Drop(e) \/ Deliver(e) \/ Close(e)

Spec == Init /\ [][Next]_svars
=============================================================================
