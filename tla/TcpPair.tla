------------------------------ MODULE TcpPair ------------------------------
(* A connection between two hosts that both run tcp.c, over a network that *)
(* loses, duplicates and reorders segments.  The client connects, the      *)
(* server listens.  Applications send and close at any time from then on,  *)
(* naming the connection: a listener has no peer yet and is not found.     *)
(*                                                                         *)
(* tcp_task alone touches a port, so one event of its queue set is one     *)
(* step.  malloc may fail, and IPv4's queue and send_queue, which all      *)
(* ports of a host share, may be full at any time.  A payload is the       *)
(* number of the tcp_send that brought it (0 for none), is not empty and   *)
(* takes one unit of the sequence space.                                   *)
EXTENDS Naturals, Sequences, FiniteSets

CONSTANTS
    MAX_UNACKED,     \* entries of a port for segments in flight (8)
    SEND_QUEUE,      \* places of send_queue (8)
    Lossy,           \* control bits of the segments the network may lose
    MaxSends,        \* bound: calls of tcp_send at each end
    MaxCloses        \* bound: calls of tcp_close_port at each end

Ends == {"client", "server"}
Other(e) == IF e = "client" THEN "server" ELSE "client"

ASSUME PairConstants ==
    /\ MAX_UNACKED \in Nat \ {0}
    /\ SEND_QUEUE \in Nat \ {0}
    /\ MaxSends \in [Ends -> Nat]
    /\ MaxCloses \in [Ends -> Nat]

VARIABLES
    port,            \* per end: state, seq_num and ack_num of its port
    unacked,         \* per end: the segments kept for retransmission
    unacked_slots,   \* per end: the counting semaphore of the port
    send_queue,      \* per end
    blocked,         \* the ends whose tcp_task waits for itself, for ever
    net,             \* segments in the network
    sent, closes,    \* per end: calls of tcp_send and tcp_close_port so far
    delivered,       \* per end: what on_receive was called with
    log,             \* history, per end: what its sequence numbers were given to
    early,           \* history, per end: data acknowledged before on_connect
    refused          \* history, per end: numbers of refused retransmissions

app     == <<sent, closes, delivered>>
history == <<log, early, refused>>
vars    == <<port, unacked, unacked_slots, send_queue, blocked, net, app, history>>

SYN    == {"SYN"}
ACK    == {"ACK"}
FIN    == {"FIN"}
SYNACK == {"SYN", "ACK"}
PSHACK == {"PSH", "ACK"}

Controls == {SYN, ACK, FIN, SYNACK, PSHACK}
States   == {"CLOSED", "LISTEN", "SYN_SENT", "SYN_RECEIVED", "ESTABLISHED",
             "FIN_WAIT_1", "FIN_WAIT_2"}
Unacked  == [seq_num : Nat, ctrl : Controls, data : Nat]
Segment  == [to : Ends, seq_num : Nat, ack_num : Nat, ctrl : Controls, data : Nat]

Init ==
    /\ port = [e \in Ends |->
                 [state   |-> IF e = "server" THEN "LISTEN" ELSE "CLOSED",
                  seq_num |-> 0, ack_num |-> 0]]
    /\ unacked = [e \in Ends |-> {}]
    /\ unacked_slots = [e \in Ends |-> MAX_UNACKED]
    /\ send_queue = [e \in Ends |-> << >>]
    /\ blocked = {}
    /\ net = {}
    /\ sent = [e \in Ends |-> 0] /\ closes = [e \in Ends |-> 0]
    /\ delivered = [e \in Ends |-> << >>]
    /\ log = [e \in Ends |-> << >>]
    /\ early = [e \in Ends |-> {}] /\ refused = [e \in Ends |-> {}]

-----------------------------------------------------------------------------
(* Queueing.                                                               *)

\* find_port with the addresses of the connection.
Found(e) == port[e].state \notin {"CLOSED", "LISTEN"}

Item(ctrl, data, seq_num) == [seq_num |-> seq_num, ctrl |-> ctrl, data |-> data]

\* How far a segment moves the sequence number.
Increment(ctrl, data) ==
    IF data # 0 \/ "SYN" \in ctrl \/ "FIN" \in ctrl THEN 1 ELSE 0

Enqueue(e, item) ==
    /\ Len(send_queue[e]) < SEND_QUEUE
    /\ send_queue' = [send_queue EXCEPT ![e] = Append(@, item)]

EnqueueReliable_noSlot(e, item) ==
    unacked_slots[e] > 0 /\ Enqueue(e, item) /\ UNCHANGED unacked_slots

\* tcp_enqueue_reliable with a free slot and room in send_queue.
EnqueueReliable(e, item) ==
    /\ unacked_slots[e] > 0
    /\ unacked_slots' = [unacked_slots EXCEPT ![e] = @ - 1]
    /\ Enqueue(e, item)

\* tcp_enqueue_reliable in tcp_task, which ignores its result: when send_queue
\* is full nothing is queued, and without a free slot tcp_task waits for one
\* that only itself could give back.
TaskEnqueues(e, ctrl) ==
    \/ EnqueueReliable(e, Item(ctrl, 0, port[e].seq_num)) /\ UNCHANGED blocked
    \/ unacked_slots[e] > 0 /\ UNCHANGED <<unacked_slots, send_queue, blocked>>
    \/ /\ unacked_slots[e] = 0 /\ blocked' = blocked \cup {e}
       /\ UNCHANGED <<unacked_slots, send_queue>>

\* tcp_connect_port and the command it queues.
Connect ==
    /\ port["client"].state = "CLOSED"
    /\ port' = [port EXCEPT !["client"].state = "SYN_SENT"]
    /\ TaskEnqueues("client", SYN)
    /\ UNCHANGED <<unacked, net, app, history>>

\* A tcp_send that returns ESP_OK, in any state; one that is refused for lack
\* of a slot or of room changes nothing.
TcpSend(e) ==
    /\ Found(e) /\ sent[e] < MaxSends[e]
    /\ sent' = [sent EXCEPT ![e] = @ + 1]
    /\ EnqueueReliable(e, Item(PSHACK, sent[e] + 1, 0))
    /\ UNCHANGED <<port, unacked, blocked, net, closes, delivered, history>>

\* tcp_close_port and the command it queues, in any state and again.
Close(e) ==
    /\ e \notin blocked /\ Found(e) /\ closes[e] < MaxCloses[e]
    /\ closes' = [closes EXCEPT ![e] = @ + 1]
    /\ port' = [port EXCEPT ![e].state = "FIN_WAIT_1"]
    /\ TaskEnqueues(e, FIN)
    /\ UNCHANGED <<unacked, net, sent, delivered, history>>

-----------------------------------------------------------------------------
(* Sending.                                                                *)

\* The header carries the newest ack_num whenever it is built.
Datagram(e, item) ==
    [to |-> Other(e), seq_num |-> item.seq_num, ack_num |-> port[e].ack_num,
     ctrl |-> item.ctrl, data |-> item.data]

\* send_ipv4_packet takes the datagram or refuses it.
Transmit(e, item) == net' \in {net, net \cup {Datagram(e, item)}}

Taken(e) == /\ e \notin blocked /\ send_queue[e] # << >>
            /\ send_queue' = [send_queue EXCEPT ![e] = Tail(@)]

\* tcp_send_internal for the head of send_queue: a segment that moves the
\* sequence number gets the number of this moment and is kept, whether or not
\* it leaves the host; a plain ACK has the number of when it was queued.
\* (find_empty_unacked finds an entry: see TypeOK.)
SendInternal(e) ==
    /\ Taken(e)
    /\ LET item == Head(send_queue[e])
           inc  == Increment(item.ctrl, item.data)
           kept == [item EXCEPT !.seq_num = port[e].seq_num]
       IN  IF inc > 0
           THEN /\ unacked' = [unacked EXCEPT ![e] = @ \cup {kept}]
                /\ port' = [port EXCEPT ![e].seq_num = @ + inc]
                /\ log' = [log EXCEPT ![e] = Append(@, [ctrl |-> item.ctrl,
                                                       data |-> item.data])]
                /\ Transmit(e, kept)
           ELSE Transmit(e, item) /\ UNCHANGED <<unacked, port, log>>
    /\ UNCHANGED <<unacked_slots, blocked, app, early, refused>>

\* tcp_send_internal without memory for the datagram: the payload is freed,
\* has no number, and its slot is not given back.
SendFails(e) ==
    /\ Taken(e)
    /\ UNCHANGED <<port, unacked, unacked_slots, blocked, net, app, history>>

Resent_renumbered(e, u) == [u EXCEPT !.seq_num = port[e].seq_num]

\* A retransmission repeats the number the segment was sent with.
Resent(e, u) == u

\* One pass of the timeout scan, which needs empty queues, finds some of the
\* kept segments overdue.  Those that tcp_send_internal fails to send, for lack
\* of memory or of room in IPv4's queue, are not kept any longer.
Retransmit(e, overdue, failed) ==
    /\ e \notin blocked /\ send_queue[e] = << >> /\ overdue # {}
    /\ net' = net \cup {Datagram(e, Resent(e, u)) : u \in overdue \ failed}
    /\ unacked' = [unacked EXCEPT ![e] = @ \ failed]
    /\ unacked_slots' = [unacked_slots EXCEPT ![e] = @ + Cardinality(failed)]
    /\ refused' = [refused EXCEPT ![e] = @ \cup {u.seq_num : u \in failed}]
    /\ UNCHANGED <<port, send_queue, blocked, app, log, early>>

-----------------------------------------------------------------------------
(* Receiving: input_tcp_internal.  A segment that no action below takes is *)
(* discarded and changes nothing.  A segment is still in the network after *)
(* it was received, so it may arrive again.                                *)

\* A SYN for the listening port.
InputListen(m) ==
    /\ m \in net /\ m.to = "server" /\ port["server"].state = "LISTEN"
    /\ "SYN" \in m.ctrl
    /\ port' = [port EXCEPT !["server"].state = "SYN_RECEIVED",
                            !["server"].ack_num = m.seq_num + 1]
    /\ TaskEnqueues("server", SYNACK)
    /\ UNCHANGED <<unacked, net, app, history>>

Accepts_anySeq(e, m) ==
    /\ Found(e) /\ e \notin blocked
    /\ "ACK" \in m.ctrl \/ "SYN" \in m.ctrl

\* The checks before a segment has any effect: only the next one in sequence
\* is taken, except that in SYN_SENT any number is, and only with ACK or SYN.
\* Hence the FIN of tcp_close_port, which has neither, is never taken, and no
\* end gets as far as answering one.
Accepts(e, m) ==
    /\ Found(e) /\ e \notin blocked
    /\ port[e].state # "SYN_SENT" => m.seq_num = port[e].ack_num
    /\ "ACK" \in m.ctrl \/ "SYN" \in m.ctrl

Acked_all(e, m) ==
    IF "ACK" \in m.ctrl /\ m.ack_num <= port[e].seq_num THEN unacked[e] ELSE {}

\* The kept segments that an acknowledgement releases.
Acked(e, m) ==
    IF "ACK" \in m.ctrl /\ m.ack_num <= port[e].seq_num
    THEN {u \in unacked[e] : u.seq_num <= m.ack_num} ELSE {}

Release(e, m) ==
    /\ unacked' = [unacked EXCEPT ![e] = @ \ Acked(e, m)]
    /\ unacked_slots' = [unacked_slots EXCEPT ![e] = @ + Cardinality(Acked(e, m))]

NextAck_ahead(e, m) == port[e].ack_num + 2 * Increment(m.ctrl, m.data)

\* ack_num after the segment: everything up to its end.
NextAck(e, m) ==
    IF Increment(m.ctrl, m.data) > 0 THEN m.seq_num + Increment(m.ctrl, m.data)
                                     ELSE port[e].ack_num

NextState_anyState(e, m) ==
    CASE port[e].state = "SYN_SENT" /\ SYNACK \subseteq m.ctrl -> "ESTABLISHED"
      [] "ACK" \in m.ctrl /\ m.ack_num = port[e].seq_num -> "ESTABLISHED"
      [] OTHER -> port[e].state

\* The switch over the states, without its FIN branches.
NextState(e, m) ==
    CASE port[e].state = "SYN_SENT" /\ SYNACK \subseteq m.ctrl -> "ESTABLISHED"
      [] /\ port[e].state = "SYN_RECEIVED"
         /\ "ACK" \in m.ctrl /\ m.ack_num = port[e].seq_num -> "ESTABLISHED"
      [] port[e].state = "FIN_WAIT_1" /\ "ACK" \in m.ctrl -> "FIN_WAIT_2"
      [] OTHER -> port[e].state

\* Data that is acknowledged although nobody can get it yet.
NextEarly(e, m) ==
    IF m.data # 0 /\ port[e].state \in {"SYN_SENT", "SYN_RECEIVED"}
    THEN early[e] \cup {m.data} ELSE early[e]

\* A segment that is taken: releases what it acknowledges, is acknowledged if
\* it has content, moves the state, and its data goes to the application if
\* the port was already ESTABLISHED.
InputSegment(m) ==
    LET e == m.to
    IN  /\ m \in net /\ Accepts(e, m)
        /\ Release(e, m)
        /\ port' = [port EXCEPT ![e].ack_num = NextAck(e, m),
                                ![e].state = NextState(e, m)]
        /\ IF Increment(m.ctrl, m.data) > 0
           THEN Enqueue(e, Item(ACK, 0, port[e].seq_num)) ELSE UNCHANGED send_queue
        /\ delivered' = IF port[e].state = "ESTABLISHED" /\ m.data # 0
                        THEN [delivered EXCEPT ![e] = Append(@, m.data)]
                        ELSE delivered
        /\ early' = [early EXCEPT ![e] = NextEarly(e, m)]
        /\ UNCHANGED <<blocked, net, sent, closes, log, refused>>

\* The same with a full send_queue: tcp_task waits for room for its ACK, which
\* only itself could make, and does not get to the switch.
InputBlocks(m) ==
    LET e == m.to
    IN  /\ m \in net /\ Accepts(e, m) /\ Increment(m.ctrl, m.data) > 0
        /\ Release(e, m)
        /\ port' = [port EXCEPT ![e].ack_num = NextAck(e, m)]
        /\ early' = [early EXCEPT ![e] = NextEarly(e, m)]
        /\ blocked' = blocked \cup {e}
        /\ UNCHANGED <<send_queue, net, app, log, refused>>

\* The network loses a segment.  (One that it does not lose may still stay in
\* it and never arrive.)
Lose(m) ==
    /\ m \in net /\ m.ctrl \in Lossy /\ net' = net \ {m}
    /\ UNCHANGED <<port, unacked, unacked_slots, send_queue, blocked, app, history>>

-----------------------------------------------------------------------------
RetransmitSome(e) ==
    \E overdue \in SUBSET unacked[e] :
       \E failed \in SUBSET overdue : Retransmit(e, overdue, failed)

Next ==
    \/ Connect
    \/ \E e \in Ends : \/ TcpSend(e) \/ Close(e) \/ SendInternal(e) \/ SendFails(e)
                       \/ RetransmitSome(e)
    \/ \E m \in net : InputListen(m) \/ InputSegment(m) \/ InputBlocks(m) \/ Lose(m)

Spec == Init /\ [][Next]_vars

\* The next segment with content for an end arrives and is taken.
Arrives(e) ==
    \E m \in net :
       /\ m.to = e
       /\ Increment(m.ctrl, m.data) > 0
       /\ InputListen(m) \/ InputSegment(m) \/ InputBlocks(m)

\* All kept segments are overdue, and are sent or given up.
RetransmitAll(e) ==
    \E failed \in SUBSET unacked[e] : Retransmit(e, unacked[e], failed)

\* The client's tcp_task runs; segments that it keeps are all overdue at one of
\* its idle moments; a segment for the server that is sent again and again
\* arrives in the end.  Nothing is assumed of malloc and of room in the queues,
\* nor of the server's own segments.
FairSpec ==
    /\ Spec
    /\ WF_vars(SendInternal("client") \/ SendFails("client"))
    /\ SF_vars(RetransmitAll("client"))
    /\ SF_vars(Arrives("server"))

-----------------------------------------------------------------------------
\* Every variable keeps its type, and no port uses more entries than it has:
\* whatever was accepted, refused, acknowledged or dropped, a slot of the
\* semaphore stands for a free entry.
TypeOK ==
    /\ port \in [Ends -> [state : States, seq_num : Nat, ack_num : Nat]]
    /\ unacked \in [Ends -> SUBSET Unacked]
    /\ unacked_slots \in [Ends -> 0 .. MAX_UNACKED]
    /\ send_queue \in [Ends -> Seq(Unacked)]
    /\ blocked \subseteq Ends
    /\ net \subseteq Segment
    /\ sent \in [Ends -> Nat] /\ closes \in [Ends -> Nat]
    /\ delivered \in [Ends -> Seq(Nat)]
    /\ log \in [Ends -> Seq([ctrl : Controls, data : Nat])]
    /\ early \in [Ends -> SUBSET Nat] /\ refused \in [Ends -> SUBSET Nat]
    /\ \A e \in Ends : Cardinality(unacked[e]) + unacked_slots[e] <= MAX_UNACKED

\* The payloads of an end that were given a number.
Numbered(e) == {log[e][k].data : k \in 1 .. Len(log[e])} \ {0}

\* Whatever the network does and whatever fails, on_receive sees the payloads
\* of the other end in the order of the calls of tcp_send and none twice.  None
\* is left out but those that tcp_send_internal dropped before they had a
\* number and, at the server, those at the beginning that input_tcp_internal
\* acknowledged in SYN_RECEIVED and did not deliver.
DeliveredInOrder ==
    \A e \in Ends : \A i \in 1 .. Len(delivered[e]) :
      LET d == delivered[e]
      IN  /\ d[i] <= sent[Other(e)]
          /\ i > 1 => d[i - 1] < d[i]
          /\ \A n \in Numbered(Other(e)) : n < d[i] =>
                \/ \E j \in 1 .. i - 1 : d[j] = n
                \/ e = "server" /\ n < d[1] /\ n \in early[e]

\* Nothing is acknowledged that was not sent: neither the ports nor the
\* segments in the network are ahead of the sequence number they refer to.
AckHonest ==
    /\ \A e \in Ends : port[e].ack_num <= port[Other(e)].seq_num
    /\ \A m \in net : m.ack_num <= port[m.to].seq_num

\* The numbers of segments that are not kept any more because of an
\* acknowledgement.
Released(e) ==
    {s \in 0 .. port[e].seq_num - 1 :
       s \notin refused[e] /\ \A u \in unacked[e] : u.seq_num # s}

\* The segments that were sent and are not kept any more were accepted by the
\* other end, all but the next one it waits for, or their retransmission was
\* refused: the comparison unacked->seq_num <= received_ack_num never releases
\* more than one segment too early.  The exception is a client that was sent
\* data before its SYN+ACK: in SYN_SENT it acknowledges any number.
ReleasedBound ==
    \A e \in Ends : e = "client" \/ early["client"] = {} =>
       \A s \in Released(e) : s <= port[Other(e)].ack_num

\* A sequence number stands for one segment for ever: whatever is sent or kept
\* under it, by the first transmission or any later one, has the same control
\* bits and the same payload, so the copies the network holds cannot disagree.
OneContent ==
    \A e \in Ends :
      LET copies == {x \in unacked[e] \cup {m \in net : m.to = Other(e)} :
                       Increment(x.ctrl, x.data) > 0}
      IN  \A x, y \in copies :
             x.seq_num = y.seq_num => x.ctrl = y.ctrl /\ x.data = y.data

\* The server is in SYN_RECEIVED, the client has got all it sent and keeps the
\* data the server waits for.
HalfOpen ==
    /\ port["server"].state = "SYN_RECEIVED"
    /\ port["client"].ack_num = port["server"].seq_num
    /\ \E u \in unacked["client"] :
          u.data # 0 /\ u.seq_num = port["server"].ack_num


-----------------------------------------------------------------------------
(* What a comment of the source says, for the run that shows otherwise.    *)

\* tcp.c:343 "Packet acknowledged!": a segment the other end has not accepted
\* is kept for retransmission, if that was not refused.
KeptUntilAccepted ==
    \A e \in Ends : e = "client" \/ early["client"] = {} =>
       \A s \in Released(e) : s < port[Other(e)].ack_num
=============================================================================
