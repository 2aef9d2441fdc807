------------------------------ MODULE Transmit ------------------------------
(***************************************************************************)
(* The transmit path as a whole: ping replies from the receive callback    *)
(* and datagrams from udp_task share one heap and one IPv4 queue, and      *)
(* ipv4_task waits for ARP between them.                                   *)
(***************************************************************************)
EXTENDS Udp, SequencesExt

vars == <<heap, ipv4vars, udpvars>>

Init == heap = {} /\ Ipv4Init /\ UdpInit

PingReply == SendPingReply /\ UNCHANGED udpvars
Ipv4Step  == Ipv4TaskStep /\ UNCHANGED udpvars
ArpStep   == ArpWakes /\ UNCHANGED udpvars

Next ==
    \/ PingReply \/ Ipv4Step \/ ArpStep
    \/ \E len \in {0, 1} : UdpSend(len)
    \/ UdpSendFull
    \/ \E n \in PortNumbers : UdpCreatePort(n)
    \/ UdpTaskStep

Spec == Init /\ [][Next]_vars

\* ipv4_task, udp_task and arp_task are time-sliced at the same priority, and
\* ARP keeps the promise of Resolver.
FairSpec == /\ Spec
            /\ WF_vars(Ipv4Step) /\ WF_vars(UdpTaskStep) /\ WF_vars(ArpStep)

-----------------------------------------------------------------------------
\* Every variable keeps its type, and the queue set its length.
TypeOK ==
    /\ heap \in SUBSET Blocks
    /\ ipv4_transmit_queue \in Seq(Blocks)
    /\ ipv4_task \in Ipv4Task
    /\ call["ipv4_task"] \in {"idle", "asleep", "awake"}
    /\ found["ipv4_task"] \in BOOLEAN
    /\ send_queue \in Seq(Params)
    /\ port_queue \in Seq(PortNumbers)
    /\ udp_task_queue_set \in Seq({"send", "port"})
    /\ Len(udp_task_queue_set) <= QUEUE_SET_LEN
    /\ ports \in [1 .. MAX_PORTS -> PortNumbers \cup {0}]
    /\ udp_task \in [pc : {"select", "send"}, params : Params]
    /\ lost \in SUBSET Blocks
    /\ missed \in BOOLEAN

\* Every pointer the layers hold to a block they must free.
Held == ipv4_transmit_queue
        \o <<ipv4_task.data, ipv4_task.packet_buf, ipv4_task.eth_frame>>
        \o [k \in 1 .. Len(send_queue) |-> send_queue[k].data]
        \o <<udp_task.params.data>>

\* A datagram, packet or frame has one holder from malloc to free, over a full
\* queue, a failed malloc at each level, an address that cannot be resolved
\* and a driver that refuses: nothing is freed twice or used after it was
\* freed, and nothing leaks except the payloads udp_send_internal forgets.
HeapExact ==
    /\ \A j, k \in 1 .. Len(Held) : Held[j] = Held[k] => j = k \/ Held[j] = NULL
    /\ ToSet(Held) \ {NULL} = heap \ lost

\* An event in udp_task_queue_set stands for an item that is still in its
\* queue, although events are dropped when the set is full: the receive after
\* the select never comes back empty.
EventHasItem ==
    \A q \in {"send", "port"} :
       Cardinality({k \in 1 .. Len(udp_task_queue_set) : udp_task_queue_set[k] = q})
         <= Len(IF q = "send" THEN send_queue ELSE port_queue)

\* Every datagram that send_ipv4_packet accepted leaves the queue, and
\* ipv4_task gets back to it after every packet, whatever ARP answers.
PacketLeaves ==
    /\ \A d \in Blocks : d \in ToSet(ipv4_transmit_queue)
                           ~> d \notin ToSet(ipv4_transmit_queue)
    /\ ipv4_task.pc # "receive" ~> ipv4_task.pc = "receive"

\* Every payload that udp_send accepted is handed to IPv4 or given up, as long
\* as no event has been lost: afterwards an item waits for the next one's
\* event, and the last ones for ever.
UdpLeaves ==
    \A d \in Blocks :
       (\E k \in 1 .. Len(send_queue) : send_queue[k].data = d)
         ~> missed \/ ~ \E k \in 1 .. Len(send_queue) : send_queue[k].data = d
=============================================================================
