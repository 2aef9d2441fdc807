--------------------------- MODULE TcpProperties ---------------------------
(* What the TCP layer of module Tcp has to guarantee, and what comments in *)
(* its source claim.                                                       *)
EXTENDS Tcp

\* Every variable keeps its type; in particular no semaphore exceeds its limit
\* and no sequence number its width.
TypeOK ==
    /\ ports \in [PortIdx -> Port]
    /\ unacked \in [PortIdx -> [SlotIdx -> Unacked]]
    /\ unacked_slots \in [PortIdx -> 0 .. MAX_UNACKED]
    /\ send_queue \in Seq(Params)
    /\ input_queue \in Seq(Segments)
    /\ port_cmd_queue \in Seq(Cmd)
    /\ tcp_task_queue_set \in Seq({"send", "input", "cmd"})
    /\ ipv4_queue \in 0 .. IPV4_QUEUE_LEN
    /\ task \in Task
    /\ call \in [Apps -> Call]
    /\ heap \in SUBSET Blocks
    /\ reused \in BOOLEAN

\* A payload has at most one owner, and an owner never holds a block that was
\* freed: the call that brought it, then send_queue, then one entry of one
\* port.  Otherwise an ACK, a reset, a failed retransmission or an error path
\* of tcp_send would free a block twice, or retransmit freed memory.
OwnedOnce ==
    /\ \A c \in Apps : call[c].item.data \in heap \cup {NULL}
    /\ \A k \in 1 .. Len(send_queue) : send_queue[k].data \in heap \cup {NULL}
    /\ \A p \in PortIdx, i \in SlotIdx : unacked[p][i].data \in heap \cup {NULL}
    /\ \A c1, c2 \in Apps :
          call[c1].item.data = call[c2].item.data
            => c1 = c2 \/ call[c1].item.data = NULL
    /\ \A j, k \in 1 .. Len(send_queue) :
          send_queue[j].data = send_queue[k].data
            => j = k \/ send_queue[j].data = NULL
    /\ \A p, q \in PortIdx, i, j \in SlotIdx :
          unacked[p][i].data = unacked[q][j].data
            => (p = q /\ i = j) \/ unacked[p][i].data = NULL
    /\ \A c \in Apps, k \in 1 .. Len(send_queue) :
          call[c].item.data = send_queue[k].data => send_queue[k].data = NULL
    /\ \A c \in Apps, p \in PortIdx, i \in SlotIdx :
          call[c].item.data = unacked[p][i].data => unacked[p][i].data = NULL
    /\ \A k \in 1 .. Len(send_queue), p \in PortIdx, i \in SlotIdx :
          send_queue[k].data = unacked[p][i].data => unacked[p][i].data = NULL

Used(p)    == Cardinality({i \in SlotIdx : unacked[p][i].in_use})
Queued(p)  == Cardinality({k \in 1 .. Len(send_queue) :
                             /\ Reliable(send_queue[k])
                             /\ send_queue[k].src = ports[p].self
                             /\ send_queue[k].dst = ports[p].other})
Holding(p) == Cardinality({c \in Apps : /\ call[c].pc \in {"check", "queue"}
                                        /\ call[c].p = p})

\* A slot taken on the semaphore reserves an entry: the entries in use, the
\* segments still queued, the calls about to queue one and the free slots of a
\* port never add up to more than MAX_UNACKED, so that tcp_send_internal
\* always finds an empty entry and never drops the segment of a call that
\* returned ESP_OK.  (As long as no port takes over a tuple that is in use.)
SlotBound ==
    ~ reused =>
      \A p \in PortIdx : ports[p].self # 0 =>
         unacked_slots[p] + Used(p) + Queued(p) + Holding(p) <= MAX_UNACKED

\* And no slot is lost: with payloads that are not empty and a malloc that
\* succeeds, every slot of a port is free, reserved or used, so a full window
\* always opens again.
SlotExact ==
    ~ reused =>
      \A p \in PortIdx : ports[p].self # 0 =>
         unacked_slots[p] + Used(p) + Queued(p) + Holding(p) = MAX_UNACKED

\* The segments a port keeps for retransmission cover disjoint ranges of
\* sequence numbers, all of them below the next one to be sent (until the
\* sequence number wraps).
UnackedDisjoint ==
    \A p \in PortIdx : ports[p].self # 0 =>
       LET kept == {i \in SlotIdx : unacked[p][i].in_use}
           end(i) == unacked[p][i].seq_num
                       + SeqIncrement(unacked[p][i].len, unacked[p][i].ctrl)
       IN  /\ \A i \in kept : end(i) <= ports[p].seq_num
           /\ \A i, j \in kept : i = j \/ end(i) <= unacked[p][j].seq_num
                                       \/ end(j) <= unacked[p][i].seq_num

\* tcp_task waits for something only tcp_task can provide.
Blocked ==
    \/ task.pc = "ack" /\ Len(send_queue) >= SEND_QUEUE_LEN
    \/ /\ task.pc = "reliable"
       /\ \A q \in FindPort(task.item.src, task.item.dst) : unacked_slots[q] = 0

\* A call of tcp_send with a finite timeout returns, even when tcp_task is
\* blocked, unless it is inside a semaphore that has been deleted.
SendReturns ==
    \A c \in Apps :
       call[c].pc # "idle" /\ call[c].wait # "forever"
         ~> call[c].pc = "idle" \/ (call[c].pc = "take" /\ ~ Exists(c))

\* A port in TIME_WAIT is reused in the end, once the traffic that keeps
\* tcp_task from scanning stops, unless tcp_task is blocked.
TimeWaitEnds ==
    \A p \in PortIdx :
       ports[p].state = "TIME_WAIT" ~> ports[p].state # "TIME_WAIT" \/ Blocked

-----------------------------------------------------------------------------
(* What comments of the source say, for the run that shows otherwise.      *)

\* tcp.c:97 and tcp.c:242 "takes ownership of data and eventually frees it":
\* at the least, a payload does not stay in send_queue for ever.
QueueDrains ==
    \A d \in Blocks :
       (\E k \in 1 .. Len(send_queue) : send_queue[k].data = d)
         ~> ~ (\E k \in 1 .. Len(send_queue) : send_queue[k].data = d)
=============================================================================
