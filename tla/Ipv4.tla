-------------------------------- MODULE Ipv4 --------------------------------
(***************************************************************************)
(* The transmit side of IPv4 (ipv4.c) and the Ethernet frame it fills      *)
(* (eth.c).  Any task, the receive callback included, hands a datagram to  *)
(* send_ipv4_packet, which never waits; ipv4_task takes one datagram at a  *)
(* time, copies it behind a header, sleeps until ARP has answered, copies  *)
(* the packet again into a frame and gives it to the driver.               *)
(*                                                                         *)
(* Three heap blocks take part in one transmission, and each is freed on   *)
(* several paths.  A datagram, a packet and a frame are just the block     *)
(* they live in; what is in them is the business of module RxPath.         *)
(* ipv4_task waits for ARP through Resolver, which arp.c implements.       *)
(***************************************************************************)
EXTENDS Naturals, Sequences, FiniteSetsExt

CONSTANTS Blocks, NULL, IPV4_QUEUE_LEN

ASSUME Ipv4Constants == NULL \notin Blocks /\ IPV4_QUEUE_LEN \in Nat \ {0}

VARIABLES
    heap,                 \* blocks allocated
    ipv4_transmit_queue,  \* data of the packets to send
    ipv4_task,            \* its control state and the blocks it holds
    call, found           \* its calls of arp_get_mac_addr

R == INSTANCE Resolver WITH Callers <- {"ipv4_task"}

ipv4vars == <<ipv4_transmit_queue, ipv4_task, call, found>>

Ipv4Task == [pc : {"receive", "send", "arp", "tx", "raw"},
             data : Blocks \cup {NULL}, packet_buf : Blocks \cup {NULL},
             eth_frame : Blocks \cup {NULL}]

Receiving == [pc |-> "receive", data |-> NULL, packet_buf |-> NULL,
              eth_frame |-> NULL]

Ipv4Init == /\ ipv4_transmit_queue = << >>
            /\ ipv4_task = Receiving
            /\ R!Init

-----------------------------------------------------------------------------
(* The senders.                                                            *)

SendIpv4Packet_kept(data, allocated) ==
    /\ heap' = allocated
    /\ ipv4_transmit_queue' = IF Len(ipv4_transmit_queue) < IPV4_QUEUE_LEN
                              THEN Append(ipv4_transmit_queue, data)
                              ELSE ipv4_transmit_queue

\* send_ipv4_packet with the blocks its caller has allocated: it takes over
\* the datagram, and frees it when the queue is full (before ipv4_init there is
\* none, with the same outcome).
SendIpv4Packet(data, allocated) ==
    \/ /\ Len(ipv4_transmit_queue) < IPV4_QUEUE_LEN
       /\ ipv4_transmit_queue' = Append(ipv4_transmit_queue, data)
       /\ heap' = allocated
    \/ /\ Len(ipv4_transmit_queue) >= IPV4_QUEUE_LEN
       /\ heap' = allocated \ {data}
       /\ UNCHANGED ipv4_transmit_queue

\* send_icmpv4_ping_reply, in the receive callback; tcp_send_internal does the
\* same in tcp_task.  Without memory for the datagram nothing is sent.
SendPingReply ==
    \E icmpv4_packet \in Blocks \ heap :
       /\ SendIpv4Packet(icmpv4_packet, heap \cup {icmpv4_packet})
       /\ UNCHANGED <<ipv4_task, call, found>>

-----------------------------------------------------------------------------
(* ipv4_task and internal_send_ipv4_packet.                                *)

Ipv4Receive ==
    /\ ipv4_task.pc = "receive"
    /\ ipv4_transmit_queue # << >>
    /\ ipv4_transmit_queue' = Tail(ipv4_transmit_queue)
    /\ ipv4_task' = [ipv4_task EXCEPT !.pc = "send",
                                      !.data = Head(ipv4_transmit_queue)]
    /\ UNCHANGED <<heap, call, found>>

BuildPacket ==
    /\ ipv4_task.pc = "send"
    /\ \E buf \in Blocks \ heap :
          /\ heap' = (heap \cup {buf}) \ {ipv4_task.data}
          /\ ipv4_task' = [ipv4_task EXCEPT !.pc = "arp", !.data = NULL,
                                            !.packet_buf = buf]
    /\ R!Call("ipv4_task")
    /\ UNCHANGED ipv4_transmit_queue

\* malloc failed: the datagram is dropped.
NoPacketBuf ==
    /\ ipv4_task.pc = "send"
    /\ heap' = heap \ {ipv4_task.data}
    /\ ipv4_task' = Receiving
    /\ UNCHANGED <<ipv4_transmit_queue, call, found>>

Resolved ==
    /\ ipv4_task.pc = "arp"
    /\ R!Return("ipv4_task")
    /\ ipv4_task' = [ipv4_task EXCEPT !.pc = "tx"]
    /\ UNCHANGED <<heap, ipv4_transmit_queue>>

AllocFrame ==
    /\ ipv4_task.pc = "tx"
    /\ found["ipv4_task"]
    /\ \E frame \in Blocks \ heap :
          /\ heap' = heap \cup {frame}
          /\ ipv4_task' = [ipv4_task EXCEPT !.pc = "raw", !.eth_frame = frame]
    /\ UNCHANGED <<ipv4_transmit_queue, call, found>>

DropPacket_retries ==
    /\ ipv4_task.pc = "tx"
    /\ ipv4_task' = [ipv4_task EXCEPT !.pc = "arp"]
    /\ R!Call("ipv4_task")
    /\ UNCHANGED <<heap, ipv4_transmit_queue>>

\* ARP found nothing, or there is no memory for the frame.
DropPacket ==
    /\ ipv4_task.pc = "tx"
    /\ heap' = heap \ {ipv4_task.packet_buf}
    /\ ipv4_task' = Receiving
    /\ UNCHANGED <<ipv4_transmit_queue, call, found>>

\* The driver copies the frame or fails; eth_tx frees the frame and
\* internal_send_ipv4_packet the packet either way.
WifiTxRaw ==
    /\ ipv4_task.pc = "raw"
    /\ heap' = heap \ {ipv4_task.eth_frame, ipv4_task.packet_buf}
    /\ ipv4_task' = Receiving
    /\ UNCHANGED <<ipv4_transmit_queue, call, found>>

Ipv4TaskStep == \/ Ipv4Receive \/ BuildPacket \/ NoPacketBuf \/ Resolved
                \/ AllocFrame \/ DropPacket \/ WifiTxRaw

\* arp_task wakes ipv4_task.
ArpWakes == /\ R!WakeUp("ipv4_task")
            /\ UNCHANGED <<heap, ipv4_transmit_queue, ipv4_task>>
=============================================================================
