-------------------------------- MODULE Tcp --------------------------------
(***************************************************************************)
(* The TCP layer: components/net_stack/protocols/tcp.c.                    *)
(*                                                                         *)
(* One task, tcp_task, owns the port table.  It waits on a queue set with  *)
(* three members: send_queue (segments to transmit), input_queue (received *)
(* segments) and port_cmd_queue (listen, connect, close), and scans for    *)
(* timeouts when nothing arrives for a while.  Application tasks call      *)
(* tcp_send, which reads the port table without a lock, reserves one of    *)
(* the port's MAX_UNACKED slots on a counting semaphore and queues the     *)
(* segment.  Ports are reset and reallocated by tcp_task at any moment.    *)
(*                                                                         *)
(* A step of tcp_task ends where the code can block on another task or on  *)
(* itself: before the ACK is queued with portMAX_DELAY (tcp_enqueue) and   *)
(* before a slot is taken with portMAX_DELAY (tcp_enqueue_reliable).  A    *)
(* step of an application task ends where tcp_task can change what it has  *)
(* read.                                                                   *)
(*                                                                         *)
(* Data: a remote <<address, port>> is one element of Peers, a payload is  *)
(* one heap block, a port without a remote side has other = NoPeer, and    *)
(* only the length of the IPv4 transmit queue is kept.  Window sizes are   *)
(* stored by the code and never used, so they are left out.  Timers are    *)
(* abstract: an idle scan may find any timer of the table elapsed.         *)
(***************************************************************************)
EXTENDS Naturals, Sequences, FiniteSetsExt

CONSTANTS
    MAX_PORTS, MAX_UNACKED,
    SEND_QUEUE_LEN, INPUT_QUEUE_LEN, PORT_CMD_QUEUE_LEN, IPV4_QUEUE_LEN,
    SEQ_MOD,           \* sequence numbers are taken modulo this (2^32)
    PortNums,          \* local port numbers; 0 marks a free port
    Peers, NoPeer,     \* remote <<address, port>> pairs
    Apps,              \* application tasks that call tcp_send
    Blocks, NULL,      \* heap blocks for payloads
    Lens,              \* payload lengths an application sends
    Segments,          \* segments the network may deliver
    MallocMayFail

Flags == {"SYN", "ACK", "FIN", "PSH", "RST"}

ASSUME TcpConstants ==
    /\ MAX_PORTS \in Nat \ {0}
    /\ MAX_UNACKED \in Nat \ {0}
    /\ SEND_QUEUE_LEN \in Nat \ {0}
    /\ INPUT_QUEUE_LEN \in Nat \ {0}
    /\ PORT_CMD_QUEUE_LEN \in Nat \ {0}
    /\ IPV4_QUEUE_LEN \in Nat \ {0}
    /\ SEQ_MOD \in Nat \ {0}
    /\ PortNums \subseteq Nat \ {0}
    /\ NoPeer \notin Peers
    /\ IsFiniteSet(Apps)
    /\ NULL \notin Blocks
    /\ Lens \subseteq Nat
    /\ Segments \subseteq [dst : PortNums, src : Peers, ctrl : SUBSET Flags,
                           seq : 0 .. SEQ_MOD - 1, ack : 0 .. SEQ_MOD - 1,
                           len : Nat]
    /\ MallocMayFail \in BOOLEAN

VARIABLES
    ports,              \* self, other, state, ack_num, seq_num of each port
    unacked,            \* the MAX_UNACKED retransmission entries of each port
    unacked_slots,      \* count of each port's semaphore
    send_queue, input_queue, port_cmd_queue,
    tcp_task_queue_set, \* FIFO of the queues that received an item
    ipv4_queue,         \* number of packets in ipv4_transmit_queue
    task,               \* where tcp_task is
    call,               \* where each application task is inside tcp_send
    heap,               \* payload blocks that are allocated
    reused              \* history: a port took over a tuple still in use

tables == <<ports, unacked, unacked_slots>>
queues == <<send_queue, input_queue, port_cmd_queue, tcp_task_queue_set>>
vars   == <<tables, queues, ipv4_queue, task, call, heap, reused>>

PortIdx == 1 .. MAX_PORTS
SlotIdx == 1 .. MAX_UNACKED
SeqNums == 0 .. SEQ_MOD - 1
Others  == Peers \cup {NoPeer}
Data    == Blocks \cup {NULL}

States == {"CLOSED", "LISTEN", "SYN_SENT", "SYN_RECEIVED", "ESTABLISHED",
           "FIN_WAIT_1", "FIN_WAIT_2", "LAST_ACK", "TIME_WAIT"}

Port    == [self : PortNums \cup {0}, other : Others, state : States,
            ack_num : SeqNums, seq_num : SeqNums]
Unacked == [in_use : BOOLEAN, seq_num : SeqNums, ctrl : SUBSET Flags,
            data : Data, len : Nat]
Params  == [src : PortNums \cup {0}, dst : Others, ctrl : SUBSET Flags,
            data : Data, len : Nat]
Cmd     == [type : {"listen"}, self : PortNums, other : {NoPeer}]
             \cup [type : {"connect"}, self : PortNums, other : Peers]
             \cup [type : {"close"}, self : PortNums, other : Others]
Waits   == {"none", "bounded", "forever"}

Task == [pc : {"select", "ack", "switch", "reliable", "deliver", "scan"},
         seg : Segments \cup {NULL}, p : PortIdx, item : Params,
         due : SUBSET (PortIdx \X (0 .. MAX_UNACKED))]
Call == [pc : {"idle", "params", "take", "check", "queue"}, p : PortIdx,
         item : Params, wait : Waits, deleted : BOOLEAN]

Free     == [in_use |-> FALSE, seq_num |-> 0, ctrl |-> {}, data |-> NULL, len |-> 0]
NoParams == [src |-> 0, dst |-> NoPeer, ctrl |-> {}, data |-> NULL, len |-> 0]
Selecting == [pc |-> "select", seg |-> NULL, p |-> 1, item |-> NoParams,
              due |-> {}]
Idle == [pc |-> "idle", p |-> 1, item |-> NoParams, wait |-> "none",
         deleted |-> FALSE]

Init ==
    /\ ports = [p \in PortIdx |-> [self |-> 0, other |-> NoPeer,
                  state |-> "CLOSED", ack_num |-> 0, seq_num |-> 0]]
    /\ unacked = [p \in PortIdx |-> [i \in SlotIdx |-> Free]]
    /\ unacked_slots = [p \in PortIdx |-> 0]
    /\ send_queue = << >>
    /\ input_queue = << >>
    /\ port_cmd_queue = << >>
    /\ tcp_task_queue_set = << >>
    /\ ipv4_queue = 0
    /\ task = Selecting
    /\ call = [c \in Apps |-> Idle]
    /\ heap = {}
    /\ reused = FALSE

-----------------------------------------------------------------------------
(* Helpers.                                                                *)

\* find_port compares the fields of every entry, the free ones included; the
\* code takes the first match.
FindPort(self, other) ==
    {p \in PortIdx : ports[p].self = self /\ ports[p].other = other}

FindListeningPort(self) ==
    {p \in PortIdx : /\ ports[p].self = self
                     /\ ports[p].state = "LISTEN"
                     /\ ports[p].other = NoPeer}

FreePorts == {p \in PortIdx : ports[p].self = 0}

EmptyUnacked(p) == {i \in SlotIdx : ~ unacked[p][i].in_use}

\* Sequence numbers a segment takes up: its payload, and one for SYN or FIN.
SeqIncrement(len, ctrl) == len + (IF "SYN" \in ctrl \/ "FIN" \in ctrl THEN 1 ELSE 0)
Reliable(item) == SeqIncrement(item.len, item.ctrl) > 0

Given_none(n) == n

\* xSemaphoreGive on a counting semaphore created with MAX_UNACKED as limit.
Given(n) == IF n < MAX_UNACKED THEN n + 1 ELSE n

Ipv4Full_offByOne == ipv4_queue > IPV4_QUEUE_LEN

\* send_ipv4_packet never waits: a full queue refuses the packet.
Ipv4Full   == ipv4_queue >= IPV4_QUEUE_LEN
Ipv4Queued == IF Ipv4Full THEN ipv4_queue ELSE ipv4_queue + 1

Packet(p, ctrl) == [src |-> ports[p].self, dst |-> ports[p].other,
                    ctrl |-> ctrl, data |-> NULL, len |-> 0]

\* xQueueSend(send_queue, ...): the queue set learns of the item with it.
QueueSend(item) ==
    /\ send_queue' = Append(send_queue, item)
    /\ tcp_task_queue_set' = Append(tcp_task_queue_set, "send")

\* A port is about to own the tuple <<self, other>> while another port, a
\* queued segment or a call in progress still refers to that tuple or entry.
TupleBusy(p, self, other) ==
    \/ \E q \in PortIdx \ {p} : ports[q].self = self /\ ports[q].other = other
    \/ \E k \in 1 .. Len(send_queue) :
          /\ Reliable(send_queue[k])
          /\ send_queue[k].src = self /\ send_queue[k].dst = other
    \/ \E c \in Apps :
          /\ call[c].pc # "idle"
          /\ \/ call[c].p = p
             \/ call[c].item.src = self /\ call[c].item.dst = other

-----------------------------------------------------------------------------
(* Application tasks: tcp_send and tcp_enqueue_reliable.  The application  *)
(* hands over a block it allocated; every error path frees it.             *)

\* tcp_send finds the port it will copy the parameters from.  An unknown port
\* frees the block at once, which leaves no trace.
TcpSend(c, self, other, d, len, wait) ==
    /\ call[c].pc = "idle"
    /\ d \notin heap
    /\ FindPort(self, other) # {}
    /\ heap' = heap \cup {d}
    /\ call' = [call EXCEPT ![c] =
                  [pc |-> "params", p |-> Min(FindPort(self, other)),
                   item |-> [NoParams EXCEPT !.data = d, !.len = len],
                   wait |-> wait, deleted |-> FALSE]]
    /\ UNCHANGED <<tables, queues, ipv4_queue, task, reused>>

\* Leave tcp_send on an error path.
Fail(c) == /\ heap' = heap \ {call[c].item.data}
           /\ call' = [call EXCEPT ![c] = Idle]

\* The parameters are copied out of the port, whatever has become of it, and
\* tcp_enqueue_reliable looks the port up again by them.
SendParams(c) ==
    /\ call[c].pc = "params"
    /\ LET port  == ports[call[c].p]
           found == FindPort(port.self, port.other)
           item  == [call[c].item EXCEPT !.src = port.self, !.dst = port.other,
                                         !.ctrl = {"ACK", "PSH"}]
       IN  call' = [call EXCEPT ![c].pc = "take", ![c].p = Min(found),
                                ![c].item = item]
    /\ UNCHANGED <<tables, queues, ipv4_queue, task, heap, reused>>

\* xSemaphoreTake on a semaphore that exists.
Exists(c) == ports[call[c].p].self # 0 /\ ~ call[c].deleted

TakeSlot(c) ==
    /\ call[c].pc = "take" /\ Exists(c)
    /\ unacked_slots[call[c].p] > 0
    /\ unacked_slots' = [unacked_slots EXCEPT ![call[c].p] = @ - 1]
    /\ call' = [call EXCEPT ![c].pc = "check"]
    /\ UNCHANGED <<ports, unacked, queues, ipv4_queue, task, heap, reused>>

MayTimeOut_poll(c) == call[c].wait = "none"
MayTimeOut(c) == call[c].wait # "forever"

TakeTimeout(c) ==
    /\ call[c].pc = "take" /\ Exists(c)
    /\ unacked_slots[call[c].p] = 0
    /\ MayTimeOut(c)
    /\ Fail(c)
    /\ UNCHANGED <<tables, queues, ipv4_queue, task, reused>>

\* xSemaphoreTake on freed memory is undefined: it may report success or
\* failure, or never return (no fairness is assumed of this action).
TakeDeleted(c) ==
    /\ call[c].pc = "take" /\ ~ Exists(c)
    /\ \/ /\ call' = [call EXCEPT ![c].pc = "check", ![c].deleted = FALSE]
          /\ UNCHANGED heap
       \/ Fail(c)
    /\ UNCHANGED <<tables, queues, ipv4_queue, task, reused>>

\* "The port could have closed whilst we were waiting."
CheckClosed(c) ==
    /\ call[c].pc = "check"
    /\ \/ /\ ports[call[c].p].state = "CLOSED"
          /\ Fail(c)
       \/ /\ ports[call[c].p].state # "CLOSED"
          /\ call' = [call EXCEPT ![c].pc = "queue"]
          /\ UNCHANGED heap
    /\ UNCHANGED <<tables, queues, ipv4_queue, task, reused>>

EnqueueSegment(c) ==
    /\ call[c].pc = "queue"
    /\ Len(send_queue) < SEND_QUEUE_LEN
    /\ QueueSend(call[c].item)
    /\ call' = [call EXCEPT ![c] = Idle]
    /\ UNCHANGED <<tables, input_queue, port_cmd_queue, ipv4_queue, task, heap,
                   reused>>

\* send_queue is full: the slot is given back, to whatever semaphore the port
\* has now.
EnqueueFull(c) ==
    /\ call[c].pc = "queue"
    /\ Len(send_queue) >= SEND_QUEUE_LEN
    /\ unacked_slots' =
         [unacked_slots EXCEPT ![call[c].p] =
            IF ports[call[c].p].self = 0 THEN @ ELSE Given(@)]
    /\ Fail(c)
    /\ UNCHANGED <<ports, unacked, queues, ipv4_queue, task, reused>>

-----------------------------------------------------------------------------
(* What other tasks put on the queues.  A full queue refuses the item and  *)
(* the caller is told, with no other effect.                               *)

InputTcp(seg) ==
    /\ Len(input_queue) < INPUT_QUEUE_LEN
    /\ input_queue' = Append(input_queue, seg)
    /\ tcp_task_queue_set' = Append(tcp_task_queue_set, "input")
    /\ UNCHANGED <<tables, send_queue, port_cmd_queue, ipv4_queue, task, call,
                   heap, reused>>

\* tcp_listen_port, tcp_connect_port and tcp_close_port.
PortCmd(cmd) ==
    /\ Len(port_cmd_queue) < PORT_CMD_QUEUE_LEN
    /\ port_cmd_queue' = Append(port_cmd_queue, cmd)
    /\ tcp_task_queue_set' = Append(tcp_task_queue_set, "cmd")
    /\ UNCHANGED <<tables, send_queue, input_queue, ipv4_queue, task, call,
                   heap, reused>>

\* ipv4_task takes a packet off its queue.
Ipv4Drain ==
    /\ ipv4_queue > 0
    /\ ipv4_queue' = ipv4_queue - 1
    /\ UNCHANGED <<tables, queues, task, call, heap, reused>>

-----------------------------------------------------------------------------
(* tcp_task: transmitting (tcp_send_internal).                             *)

Selected(q) ==
    /\ task.pc = "select"
    /\ tcp_task_queue_set # << >>
    /\ Head(tcp_task_queue_set) = q
    /\ tcp_task_queue_set' = Tail(tcp_task_queue_set)

TakeSend ==
    /\ Selected("send")
    /\ send_queue # << >>
    /\ send_queue' = Tail(send_queue)
    /\ UNCHANGED <<unacked_slots, input_queue, port_cmd_queue, task, call,
                   reused>>

\* No memory for the datagram, no such port any more, or no free entry: the
\* payload is freed.  The slot that was reserved for it stays taken.
SendDropped ==
    /\ TakeSend
    /\ LET item  == Head(send_queue)
           found == FindPort(item.src, item.dst)
       IN  /\ \/ MallocMayFail
              \/ found = {}
              \/ found # {} /\ Reliable(item) /\ EmptyUnacked(Min(found)) = {}
           /\ heap' = heap \ {item.data}
    /\ UNCHANGED <<ports, unacked, ipv4_queue>>

NextSeq_dataOnly(p, item) == (ports[p].seq_num + item.len) % SEQ_MOD

NextSeq(p, item) ==
    (ports[p].seq_num + SeqIncrement(item.len, item.ctrl)) % SEQ_MOD

\* The segment takes up sequence numbers: it is kept until acknowledged, also
\* when the IPv4 queue refuses it now.
SendReliable ==
    /\ TakeSend
    /\ LET item  == Head(send_queue)
           found == FindPort(item.src, item.dst)
           p     == Min(found)
       IN  /\ found # {}
           /\ Reliable(item)
           /\ EmptyUnacked(p) # {}
           /\ unacked' = [unacked EXCEPT ![p][Min(EmptyUnacked(p))] =
                            [in_use |-> TRUE, seq_num |-> ports[p].seq_num,
                             ctrl |-> item.ctrl, data |-> item.data,
                             len |-> item.len]]
           /\ ports' = [ports EXCEPT ![p].seq_num = NextSeq(p, item)]
    /\ ipv4_queue' = Ipv4Queued
    /\ UNCHANGED heap

\* A pure ACK - or an empty tcp_send, whose slot and block nobody returns.
SendPlain ==
    /\ TakeSend
    /\ FindPort(Head(send_queue).src, Head(send_queue).dst) # {}
    /\ ~ Reliable(Head(send_queue))
    /\ ipv4_queue' = Ipv4Queued
    /\ UNCHANGED <<ports, unacked, heap>>

-----------------------------------------------------------------------------
(* tcp_task: tcp_reset_port.  The tasks blocked in xSemaphoreTake are given *)
(* the semaphore and it is deleted under them.                             *)

ResetEntry_kept(e) == e

\* in_use stays set: allocate_port overwrites the whole entry later.
ResetEntry(e) == IF e.in_use THEN [e EXCEPT !.data = NULL] ELSE e

ResetPort(p) ==
    /\ ports' = [ports EXCEPT ![p].state = "CLOSED", ![p].self = 0]
    /\ heap' = heap \ {unacked[p][i].data :
                         i \in {j \in SlotIdx : unacked[p][j].in_use}}
    /\ unacked' = [unacked EXCEPT ![p] =
                     [i \in SlotIdx |-> ResetEntry(unacked[p][i])]]
    /\ unacked_slots' = [unacked_slots EXCEPT ![p] = 0]
    /\ call' = [c \in Apps |->
                  IF /\ call[c].pc = "take" /\ call[c].p = p
                     /\ call[c].wait # "none" /\ unacked_slots[p] = 0
                  THEN [call[c] EXCEPT !.deleted = TRUE]
                  ELSE call[c]]

-----------------------------------------------------------------------------
(* tcp_task: receiving (input_tcp_internal).                               *)

Receiver(seg) ==
    IF FindPort(seg.dst, seg.src) # {} THEN FindPort(seg.dst, seg.src)
    ELSE IF "SYN" \in seg.ctrl THEN FindListeningPort(seg.dst) ELSE {}

Synchronized(p) == ports[p].state \notin {"LISTEN", "SYN_SENT"}

\* The segment passes the checks before the state machine: an expected
\* sequence number, and an ACK flag unless it is a SYN.
Acceptable(p, seg) ==
    /\ Synchronized(p) => seg.seq = ports[p].ack_num
    /\ "ACK" \in seg.ctrl \/ "SYN" \in seg.ctrl

TakeInput ==
    /\ Selected("input")
    /\ input_queue # << >>
    /\ input_queue' = Tail(input_queue)
    /\ UNCHANGED <<send_queue, port_cmd_queue, ipv4_queue, reused>>

InputDiscard ==
    /\ TakeInput
    /\ LET seg == Head(input_queue)
       IN  \/ Receiver(seg) = {}
           \/ /\ Receiver(seg) # {}
              /\ "RST" \notin seg.ctrl
              /\ ~ Acceptable(Min(Receiver(seg)), seg)
    /\ UNCHANGED <<tables, task, call, heap>>

InputReset ==
    /\ TakeInput
    /\ Receiver(Head(input_queue)) # {}
    /\ "RST" \in Head(input_queue).ctrl
    /\ ResetPort(Min(Receiver(Head(input_queue))))
    /\ UNCHANGED task

Acked_unused(p, seg) ==
    {i \in SlotIdx : /\ "ACK" \in seg.ctrl
                     /\ seg.ack <= ports[p].seq_num
                     /\ unacked[p][i].seq_num <= seg.ack}

\* The entries an ACK releases.  The comparisons are plain <=, on numbers
\* that wrap.
Acked(p, seg) ==
    {i \in SlotIdx : /\ unacked[p][i].in_use
                     /\ "ACK" \in seg.ctrl
                     /\ seg.ack <= ports[p].seq_num
                     /\ unacked[p][i].seq_num <= seg.ack}

GivenBack(p, n) ==
    LET sum == unacked_slots[p] + n
    IN  IF sum <= MAX_UNACKED THEN sum ELSE MAX_UNACKED

\* The segment takes up sequence numbers that have to be acknowledged here.
NeedsAck(p, seg) ==
    /\ SeqIncrement(seg.len, seg.ctrl) > 0
    /\ ports[p].state \notin {"LAST_ACK", "LISTEN"}

InputProcess ==
    /\ TakeInput
    /\ Receiver(Head(input_queue)) # {}
    /\ LET seg == Head(input_queue)
           p   == Min(Receiver(seg))
           rel == Acked(p, seg)
       IN  /\ "RST" \notin seg.ctrl
           /\ Acceptable(p, seg)
           /\ unacked' = [unacked EXCEPT ![p] =
                            [i \in SlotIdx |-> IF i \in rel THEN Free
                                               ELSE unacked[p][i]]]
           /\ heap' = heap \ {unacked[p][i].data : i \in rel}
           /\ unacked_slots' = [unacked_slots EXCEPT ![p] =
                                  GivenBack(p, Cardinality(rel))]
           /\ ports' = [ports EXCEPT ![p].ack_num =
                          IF NeedsAck(p, seg)
                          THEN (seg.seq + SeqIncrement(seg.len, seg.ctrl)) % SEQ_MOD
                          ELSE @]
           /\ task' = [task EXCEPT !.pc = IF NeedsAck(p, seg) THEN "ack"
                                          ELSE "switch",
                                   !.seg = seg, !.p = p]
    /\ UNCHANGED call

\* tcp_enqueue(&response, portMAX_DELAY): tcp_task waits for room in the queue
\* that only tcp_task empties.
InputAck ==
    /\ task.pc = "ack"
    /\ Len(send_queue) < SEND_QUEUE_LEN
    /\ QueueSend(Packet(task.p, {"ACK"}))
    /\ task' = [task EXCEPT !.pc = "switch"]
    /\ UNCHANGED <<tables, input_queue, port_cmd_queue, ipv4_queue, call, heap,
                   reused>>

\* tcp_enqueue_reliable called by tcp_task itself, waiting for a slot for
\* ever.  The answer to a FIN moves on to LAST_ACK whether or not the queue
\* took the segment, and data that came with the FIN is delivered after it.
EnqueueReliable ==
    /\ task.pc = "reliable"
    /\ LET q == Min(FindPort(task.item.src, task.item.dst))
       IN  /\ unacked_slots[q] > 0
           /\ \/ /\ Len(send_queue) < SEND_QUEUE_LEN
                 /\ QueueSend(task.item)
                 /\ unacked_slots' = [unacked_slots EXCEPT ![q] = @ - 1]
              \/ /\ Len(send_queue) >= SEND_QUEUE_LEN
                 /\ UNCHANGED <<unacked_slots, send_queue, tcp_task_queue_set>>
    /\ ports' = [ports EXCEPT ![task.p].state =
                   IF @ = "ESTABLISHED" THEN "LAST_ACK" ELSE @]
    /\ task' = IF task.seg # NULL /\ task.seg.len > 0
               THEN [task EXCEPT !.pc = "deliver"] ELSE Selecting
    /\ UNCHANGED <<unacked, input_queue, port_cmd_queue, ipv4_queue, call,
                   heap, reused>>

\* Leave the state machine by queueing one more segment from port p.
ThenEnqueue(p, item) ==
    task' = [Selecting EXCEPT !.pc = "reliable", !.p = p, !.item = item]

Switch(state) == task.pc = "switch" /\ ports[task.p].state = state
Has(flag)     == flag \in task.seg.ctrl

SwitchListen ==
    /\ Switch("LISTEN")
    /\ LET self == ports[task.p].self
           peer == task.seg.src
       IN  /\ ports' = [ports EXCEPT ![task.p] =
                          [@ EXCEPT !.state = "SYN_RECEIVED", !.other = peer,
                                    !.ack_num = (task.seg.seq + 1) % SEQ_MOD]]
           /\ ThenEnqueue(task.p, [Packet(task.p, {"SYN", "ACK"})
                                     EXCEPT !.dst = peer])
           /\ reused' = (reused \/ TupleBusy(task.p, self, peer))
    /\ UNCHANGED <<unacked, unacked_slots, queues, ipv4_queue, call, heap>>

\* on_connect and on_receive, run by tcp_task, may call tcp_send with a timeout
\* of 0 on any connection: the task monitor answers on the one it saw last.
\* What they hand over is a block of the heap here, as tcp_send asks for; the
\* array of tcp_test.c:28 and a report that could not be built are not.
CallbackSends ==
    \/ UNCHANGED <<unacked_slots, send_queue, tcp_task_queue_set, heap>>
    \/ \E self \in PortNums, other \in Peers, d \in Blocks \ heap, len \in Lens :
          LET p == Min(FindPort(self, other))
          IN  /\ FindPort(self, other) # {}
              /\ unacked_slots[p] > 0
              /\ Len(send_queue) < SEND_QUEUE_LEN
              /\ unacked_slots' = [unacked_slots EXCEPT ![p] = @ - 1]
              /\ QueueSend([Packet(p, {"ACK", "PSH"}) EXCEPT !.data = d, !.len = len])
              /\ heap' = heap \cup {d}

SwitchEstablish ==
    /\ \/ Switch("SYN_SENT") /\ Has("SYN") /\ Has("ACK")
       \/ /\ Switch("SYN_RECEIVED") /\ Has("ACK")
          /\ task.seg.ack = ports[task.p].seq_num
    /\ ports' = [ports EXCEPT ![task.p].state = "ESTABLISHED"]
    /\ CallbackSends
    /\ task' = Selecting
    /\ UNCHANGED <<unacked, input_queue, port_cmd_queue, ipv4_queue, call,
                   reused>>

\* A FIN in ESTABLISHED is answered at once with FIN+ACK.
SwitchFin ==
    /\ Switch("ESTABLISHED") /\ Has("FIN")
    /\ task' = [task EXCEPT !.pc = "reliable",
                            !.item = Packet(task.p, {"FIN", "ACK"})]
    /\ UNCHANGED <<tables, queues, ipv4_queue, call, heap, reused>>

\* Data is handed to on_receive.
Deliver ==
    /\ \/ Switch("ESTABLISHED") /\ ~ Has("FIN") /\ task.seg.len > 0
       \/ task.pc = "deliver"
    /\ CallbackSends
    /\ task' = Selecting
    /\ UNCHANGED <<ports, unacked, input_queue, port_cmd_queue, ipv4_queue, call,
                   reused>>

\* on_disconnect may listen again on some port.
OnDisconnect ==
    \/ UNCHANGED <<port_cmd_queue, tcp_task_queue_set>>
    \/ \E self \in PortNums :
          /\ Len(port_cmd_queue) < PORT_CMD_QUEUE_LEN
          /\ port_cmd_queue' = Append(port_cmd_queue,
               [type |-> "listen", self |-> self, other |-> NoPeer])
          /\ tcp_task_queue_set' = Append(tcp_task_queue_set, "cmd")

SwitchLastAck ==
    /\ Switch("LAST_ACK") /\ Has("ACK")
    /\ task.seg.ack = ports[task.p].seq_num
    /\ ResetPort(task.p)
    /\ OnDisconnect
    /\ task' = Selecting
    /\ UNCHANGED <<send_queue, input_queue, ipv4_queue, reused>>

SwitchFinWait ==
    /\ Switch("FIN_WAIT_1") \/ Switch("FIN_WAIT_2")
    /\ Has("FIN")
    /\ ports' = [ports EXCEPT ![task.p].state = "TIME_WAIT"]
    /\ OnDisconnect
    /\ task' = Selecting
    /\ UNCHANGED <<unacked, unacked_slots, send_queue, input_queue, ipv4_queue,
                   call, heap, reused>>

SwitchFinAcked ==
    /\ Switch("FIN_WAIT_1") /\ ~ Has("FIN") /\ Has("ACK")
    /\ ports' = [ports EXCEPT ![task.p].state = "FIN_WAIT_2"]
    /\ task' = Selecting
    /\ UNCHANGED <<unacked, unacked_slots, queues, ipv4_queue, call, heap,
                   reused>>

\* Every other segment is ignored.
SwitchNone ==
    /\ \/ Switch("SYN_SENT") /\ ~ (Has("SYN") /\ Has("ACK"))
       \/ /\ Switch("SYN_RECEIVED")
          /\ ~ (Has("ACK") /\ task.seg.ack = ports[task.p].seq_num)
       \/ Switch("ESTABLISHED") /\ ~ Has("FIN") /\ task.seg.len = 0
       \/ /\ Switch("LAST_ACK")
          /\ ~ (Has("ACK") /\ task.seg.ack = ports[task.p].seq_num)
       \/ Switch("FIN_WAIT_1") /\ ~ Has("FIN") /\ ~ Has("ACK")
       \/ Switch("FIN_WAIT_2") /\ ~ Has("FIN")
       \/ Switch("TIME_WAIT")
    /\ task' = Selecting
    /\ UNCHANGED <<tables, queues, ipv4_queue, call, heap, reused>>

-----------------------------------------------------------------------------
(* tcp_task: port commands.                                                *)

TakeCmd(type) ==
    /\ Selected("cmd")
    /\ port_cmd_queue # << >>
    /\ Head(port_cmd_queue).type = type
    /\ port_cmd_queue' = Tail(port_cmd_queue)
    /\ UNCHANGED <<send_queue, input_queue, ipv4_queue, call, heap>>

\* tcp_create_port_internal and allocate_port: the first free entry is
\* overwritten whole, with a new semaphore.
CreatePort(p, self, other, state) ==
    /\ ports' = [ports EXCEPT ![p] = [self |-> self, other |-> other,
                   state |-> state, ack_num |-> 0, seq_num |-> 0]]
    /\ unacked' = [unacked EXCEPT ![p] = [i \in SlotIdx |-> Free]]
    /\ unacked_slots' = [unacked_slots EXCEPT ![p] = MAX_UNACKED]
    /\ reused' = (reused \/ TupleBusy(p, self, other))

CmdListen ==
    /\ TakeCmd("listen")
    /\ FreePorts # {}
    /\ CreatePort(Min(FreePorts), Head(port_cmd_queue).self, NoPeer, "LISTEN")
    /\ UNCHANGED task

CmdConnect ==
    /\ TakeCmd("connect")
    /\ FreePorts # {}
    /\ LET cmd == Head(port_cmd_queue)
       IN  /\ CreatePort(Min(FreePorts), cmd.self, cmd.other, "SYN_SENT")
           /\ ThenEnqueue(Min(FreePorts),
                [src |-> cmd.self, dst |-> cmd.other, ctrl |-> {"SYN"},
                 data |-> NULL, len |-> 0])

\* Closing is allowed in every state, and always ends in FIN_WAIT_1.
CmdClose ==
    /\ TakeCmd("close")
    /\ LET cmd   == Head(port_cmd_queue)
           found == FindPort(cmd.self, cmd.other)
       IN  /\ found # {}
           /\ ports' = [ports EXCEPT ![Min(found)].state = "FIN_WAIT_1"]
           /\ ThenEnqueue(Min(found), Packet(Min(found), {"FIN"}))
    /\ UNCHANGED <<unacked, unacked_slots, reused>>

\* No free port, no memory for the semaphore, or no such port to close.
CmdFails ==
    /\ \/ /\ TakeCmd("listen") \/ TakeCmd("connect")
          /\ FreePorts = {} \/ MallocMayFail
       \/ /\ TakeCmd("close")
          /\ FindPort(Head(port_cmd_queue).self, Head(port_cmd_queue).other) = {}
    /\ UNCHANGED <<tables, task, reused>>

-----------------------------------------------------------------------------
(* tcp_task: the scan for timeouts, when the queue set stayed empty for    *)
(* TIMEOUT_CHECK_TIME.  <<p, 0>> is the TIME_WAIT timer of port p, <<p, i>> *)
(* the retransmission timer of its entry i.                                *)

Timers_noTimeWait ==
    {t \in PortIdx \X SlotIdx : /\ ports[t[1]].self # 0
                                /\ unacked[t[1]][t[2]].in_use}

Timers ==
    {<<p, 0>> : p \in {q \in PortIdx : ports[q].state = "TIME_WAIT"}}
      \cup {t \in PortIdx \X SlotIdx : /\ ports[t[1]].self # 0
                                       /\ unacked[t[1]][t[2]].in_use}

ScanBegin(due) ==
    /\ task.pc = "select"
    /\ tcp_task_queue_set = << >>
    /\ due # {} /\ due \subseteq Timers
    /\ task' = [task EXCEPT !.pc = "scan", !.due = due]
    /\ UNCHANGED <<tables, queues, ipv4_queue, call, heap, reused>>

\* The scan goes through the ports, and through the entries of each, in order.
ScanAt(t) ==
    /\ task.pc = "scan"
    /\ t \in task.due
    /\ \A u \in task.due : t[1] < u[1] \/ (t[1] = u[1] /\ t[2] <= u[2])

Scanned(done) ==
    LET left == task.due \ done
    IN  task' = IF left = {} THEN Selecting ELSE [task EXCEPT !.due = left]

\* TIME_WAIT is over; the entries of the port are not looked at any more.
ScanTimeWait(p) ==
    /\ ScanAt(<<p, 0>>)
    /\ ResetPort(p)
    /\ Scanned({p} \X (0 .. MAX_UNACKED))
    /\ UNCHANGED <<queues, ipv4_queue, reused>>

ScanRetransmit(p, i) ==
    /\ ScanAt(<<p, i>>)
    /\ ~ Ipv4Full
    /\ ipv4_queue' = ipv4_queue + 1
    /\ Scanned({<<p, i>>})
    /\ UNCHANGED <<tables, queues, call, heap, reused>>

\* tcp_send_internal failed: the entry is dropped and its slot given back.
\* The payload was freed if there was no memory for the datagram, but not if
\* the IPv4 queue was full.
ScanDrop(p, i) ==
    /\ ScanAt(<<p, i>>)
    /\ \/ MallocMayFail /\ heap' = heap \ {unacked[p][i].data}
       \/ Ipv4Full /\ UNCHANGED heap
    /\ unacked' = [unacked EXCEPT ![p][i] = Free]
    /\ unacked_slots' = [unacked_slots EXCEPT ![p] = Given(@)]
    /\ Scanned({<<p, i>>})
    /\ UNCHANGED <<ports, queues, ipv4_queue, call, reused>>

-----------------------------------------------------------------------------
\* What applications and the network do, in any number and order.
Environment ==
    \/ \E c \in Apps, self \in PortNums, other \in Peers, d \in Blocks,
          len \in Lens, wait \in Waits : TcpSend(c, self, other, d, len, wait)
    \/ \E seg \in Segments : InputTcp(seg)
    \/ \E cmd \in Cmd : PortCmd(cmd)

CallReturning(c) ==
    \/ SendParams(c) \/ TakeSlot(c) \/ TakeTimeout(c) \/ CheckClosed(c)
    \/ EnqueueSegment(c) \/ EnqueueFull(c)

TaskReceive ==
    \/ InputDiscard \/ InputReset \/ InputProcess \/ InputAck
    \/ SwitchListen \/ SwitchEstablish \/ SwitchFin \/ Deliver
    \/ SwitchLastAck \/ SwitchFinWait \/ SwitchFinAcked \/ SwitchNone

TcpTask ==
    \/ SendDropped \/ SendReliable \/ SendPlain
    \/ TaskReceive \/ EnqueueReliable
    \/ CmdListen \/ CmdConnect \/ CmdClose \/ CmdFails
    \/ \E p \in PortIdx : ScanTimeWait(p)
    \/ \E p \in PortIdx, i \in SlotIdx : ScanRetransmit(p, i) \/ ScanDrop(p, i)

System ==
    \/ \E c \in Apps : CallReturning(c) \/ TakeDeleted(c)
    \/ TcpTask
    \/ \E due \in SUBSET Timers : ScanBegin(due)
    \/ Ipv4Drain

Next == Environment \/ System

Spec == Init /\ [][Next]_vars

\* tcp_task, ipv4_task and the applications run at the same priority and are
\* time-sliced, so a task that can run does run.  A timer that has elapsed is
\* found by every idle scan from then on.
Fairness ==
    /\ WF_vars(TcpTask)
    /\ WF_vars(Ipv4Drain)
    /\ \A c \in Apps : WF_vars(CallReturning(c))
    /\ \A t \in PortIdx \X (0 .. MAX_UNACKED) :
          SF_vars(\E due \in SUBSET Timers : t \in due /\ ScanBegin(due))
=============================================================================
