-------------------------------- MODULE Udp --------------------------------
(***************************************************************************)
(* UDP (udp.c): datagrams and ports are handed to udp_task through two     *)
(* queues in one queue set, and leave through send_ipv4_packet.  The set   *)
(* holds fewer events than the two queues hold items, and an item whose    *)
(* event does not fit is queued without one.                               *)
(*                                                                         *)
(* The layer can be used as udp.h offers it, but ipv4_input does not call  *)
(* udp_input, so nothing is received; udp_input only reads the table.      *)
(***************************************************************************)
EXTENDS Ipv4

CONSTANTS PortNumbers, MAX_PORTS, SEND_QUEUE_LEN, PORT_QUEUE_LEN, QUEUE_SET_LEN

ASSUME UdpConstants ==
    /\ 0 \notin PortNumbers
    /\ {MAX_PORTS, SEND_QUEUE_LEN, PORT_QUEUE_LEN, QUEUE_SET_LEN} \subseteq Nat \ {0}

VARIABLES
    send_queue, port_queue, udp_task_queue_set,
    ports,      \* the port number of each entry, 0 when it is free
    udp_task,   \* the datagram udp_send_internal is working on
    lost,       \* history: payloads nobody will free
    missed      \* history: an item was queued without its event

udpvars == <<send_queue, port_queue, udp_task_queue_set, ports, udp_task, lost,
             missed>>

Params == [data : Blocks \cup {NULL}, data_len : {0, 1}]
NoParams == [data |-> NULL, data_len |-> 0]

UdpInit == /\ send_queue = << >> /\ port_queue = << >>
           /\ udp_task_queue_set = << >>
           /\ ports = [i \in 1 .. MAX_PORTS |-> 0]
           /\ udp_task = [pc |-> "select", params |-> NoParams]
           /\ lost = {} /\ missed = FALSE

-----------------------------------------------------------------------------
Notify_none(q) == UNCHANGED <<udp_task_queue_set, missed>>

Notify_unchecked(q) ==
    /\ udp_task_queue_set' = Append(udp_task_queue_set, q)
    /\ UNCHANGED missed

\* What xQueueSend does for a queue in a set.
Notify(q) ==
    \/ /\ Len(udp_task_queue_set) < QUEUE_SET_LEN
       /\ udp_task_queue_set' = Append(udp_task_queue_set, q)
       /\ UNCHANGED missed
    \/ /\ Len(udp_task_queue_set) >= QUEUE_SET_LEN
       /\ missed' = TRUE
       /\ UNCHANGED udp_task_queue_set

\* udp_send takes ownership of a payload its caller has allocated.
UdpSend(len) ==
    \E data \in (Blocks \ heap) :
       /\ Len(send_queue) < SEND_QUEUE_LEN
       /\ heap' = heap \cup {data}
       /\ send_queue' = Append(send_queue, [data |-> data, data_len |-> len])
       /\ Notify("send")
       /\ UNCHANGED <<ipv4vars, port_queue, ports, udp_task, lost>>

\* With the queue full it reports an error and leaves the payload alone.
UdpSendFull ==
    \E data \in (Blocks \ heap) :
       /\ Len(send_queue) >= SEND_QUEUE_LEN
       /\ heap' = heap \cup {data}
       /\ lost' = lost \cup {data}
       /\ UNCHANGED <<ipv4vars, send_queue, port_queue, udp_task_queue_set,
                      ports, udp_task, missed>>

UdpCreatePort(n) ==
    /\ Len(port_queue) < PORT_QUEUE_LEN
    /\ port_queue' = Append(port_queue, n)
    /\ Notify("port")
    /\ UNCHANGED <<heap, ipv4vars, send_queue, ports, udp_task, lost>>

-----------------------------------------------------------------------------
(* udp_task.                                                               *)

Selected_peek(q) == /\ udp_task.pc = "select"
                    /\ udp_task_queue_set # << >>
                    /\ Head(udp_task_queue_set) = q
                    /\ UNCHANGED udp_task_queue_set

Selected(q) == /\ udp_task.pc = "select"
               /\ udp_task_queue_set # << >>
               /\ Head(udp_task_queue_set) = q
               /\ udp_task_queue_set' = Tail(udp_task_queue_set)

FreePorts == {i \in 1 .. MAX_PORTS : ports[i] = 0}

\* allocate_port: the first free entry, or the port is forgotten.
TakePort ==
    /\ Selected("port")
    /\ port_queue' = Tail(port_queue)
    /\ \/ /\ FreePorts # {}
          /\ ports' = [ports EXCEPT ![Min(FreePorts)] = Head(port_queue)]
       \/ /\ FreePorts = {}
          /\ UNCHANGED ports
    /\ UNCHANGED <<heap, ipv4vars, send_queue, udp_task, lost, missed>>

TakeSend ==
    /\ Selected("send")
    /\ send_queue' = Tail(send_queue)
    /\ udp_task' = [pc |-> "send", params |-> Head(send_queue)]
    /\ UNCHANGED <<heap, ipv4vars, port_queue, ports, lost, missed>>

\* The payload that udp_send_internal frees once it has copied it.
Copied(params) == IF params.data_len > 0 THEN {params.data} ELSE {}

UdpSendInternal ==
    /\ udp_task.pc = "send"
    /\ \E datagram \in Blocks \ heap :
          SendIpv4Packet(datagram,
                         (heap \cup {datagram}) \ Copied(udp_task.params))
    /\ lost' = lost \cup ({udp_task.params.data} \ Copied(udp_task.params))
    /\ udp_task' = [pc |-> "select", params |-> NoParams]
    /\ UNCHANGED <<ipv4_task, call, found, send_queue, port_queue,
                   udp_task_queue_set, ports, missed>>

\* malloc failed: the payload is not freed.
NoDatagram ==
    /\ udp_task.pc = "send"
    /\ lost' = lost \cup {udp_task.params.data}
    /\ udp_task' = [pc |-> "select", params |-> NoParams]
    /\ UNCHANGED <<heap, ipv4vars, send_queue, port_queue, udp_task_queue_set,
                   ports, missed>>

UdpTaskStep == TakePort \/ TakeSend \/ UdpSendInternal \/ NoDatagram
=============================================================================
