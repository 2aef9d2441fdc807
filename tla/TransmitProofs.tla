--------------------------- MODULE TransmitProofs ---------------------------
(***************************************************************************)
(* The transmit path never leaks, double-frees or reuses a block, except   *)
(* for the payloads udp_send_internal forgets, and the queue set of        *)
(* udp_task never promises an item that is not there.  For every heap,     *)
(* queue and table size.                                                   *)
(***************************************************************************)
EXTENDS Transmit, StackLemmas

Payload == [data : Blocks, data_len : {0, 1}]

\* TypeOK, with what malloc and Resolver add to it: no NULL is ever queued.
TransmitTypes ==
    /\ TypeOK
    /\ send_queue \in Seq(Payload)
    /\ call \in [{"ipv4_task"} -> {"idle", "asleep", "awake"}]
    /\ found \in [{"ipv4_task"} -> BOOLEAN]

\* Which blocks ipv4_task holds at which point of its loop.
Ipv4Stage ==
    /\ ipv4_task.data \in IF ipv4_task.pc = "send" THEN Blocks ELSE {NULL}
    /\ ipv4_task.packet_buf \in IF ipv4_task.pc \in {"arp", "tx", "raw"}
                                THEN Blocks ELSE {NULL}
    /\ ipv4_task.eth_frame \in IF ipv4_task.pc = "raw" THEN Blocks ELSE {NULL}

\* udp_task holds the payload it took until it has sent it.
UdpStage == \/ udp_task = [pc |-> "select", params |-> NoParams]
            \/ udp_task.pc = "send" /\ udp_task.params \in Payload

Stages == Ipv4Stage /\ UdpStage

\* The blocks in the two queues, and those in the hands of the two tasks.
NoRepeat(s) == \A j, k \in 1 .. Len(s) : s[j] = s[k] => j = k
Elems(s)    == {s[k] : k \in 1 .. Len(s)}
InHand      == {ipv4_task.data, ipv4_task.packet_buf, ipv4_task.eth_frame,
                udp_task.params.data} \ {NULL}

\* Every block has one holder: HeapExact, taken apart into its places.
Owners ==
    /\ NoRepeat(ipv4_transmit_queue) /\ NoRepeat(Datas(send_queue))
    /\ Elems(ipv4_transmit_queue) \cap Elems(Datas(send_queue)) = {}
    /\ Elems(ipv4_transmit_queue) \cap InHand = {}
    /\ Elems(Datas(send_queue)) \cap InHand = {}
    /\ ipv4_task.data # NULL => ipv4_task.data # udp_task.params.data
    /\ ipv4_task.packet_buf # NULL =>
         ipv4_task.packet_buf \notin {udp_task.params.data, ipv4_task.eth_frame}
    /\ ipv4_task.eth_frame # NULL => ipv4_task.eth_frame # udp_task.params.data
    /\ Elems(ipv4_transmit_queue) \cup Elems(Datas(send_queue)) \cup InHand
         = heap \ lost
    /\ lost \subseteq heap

TransmitInv == TransmitTypes /\ EventHasItem /\ Stages /\ Owners

-----------------------------------------------------------------------------
(* What queueing does to the elements of a queue.                          *)

\* Sending a new element keeps the queue free of repetitions.
LEMMA ElemsAppend ==
    ASSUME NEW X, NEW s \in Seq(X), NEW x \in X
    PROVE  /\ Append(s, x) \in Seq(X)
           /\ Elems(Append(s, x)) = Elems(s) \cup {x}
           /\ NoRepeat(s) /\ x \notin Elems(s) => NoRepeat(Append(s, x))
<1>1. /\ Len(s) \in Nat /\ Len(Append(s, x)) = Len(s) + 1
      /\ Append(s, x)[Len(s) + 1] = x
      /\ \A k \in 1 .. Len(s) : Append(s, x)[k] = s[k]
  OBVIOUS
<1>2. Elems(Append(s, x)) = Elems(s) \cup {x}
  <2>1. \A k \in 1 .. Len(s) + 1 : k \in 1 .. Len(s) \/ k = Len(s) + 1
    BY <1>1
  <2>2. \A k \in 1 .. Len(s) : k \in 1 .. Len(s) + 1
    BY <1>1
  <2>3. Len(s) + 1 \in 1 .. Len(s) + 1
    BY <1>1
  <2> QED
    BY <1>1, <2>1, <2>2, <2>3 DEF Elems
<1>3. NoRepeat(s) /\ x \notin Elems(s) => NoRepeat(Append(s, x))
  BY <1>1 DEF NoRepeat, Elems
<1> QED
  BY <1>2, <1>3

\* Receiving takes exactly the first element out of the queue.
LEMMA ElemsTail ==
    ASSUME NEW X, NEW s \in Seq(X), s # << >>
    PROVE  /\ Head(s) \in X /\ Tail(s) \in Seq(X)
           /\ Elems(s) = Elems(Tail(s)) \cup {Head(s)}
           /\ NoRepeat(s) => NoRepeat(Tail(s)) /\ Head(s) \notin Elems(Tail(s))
<1>1. /\ Len(s) \in Nat \ {0} /\ Tail(s) \in Seq(X) /\ Len(Tail(s)) = Len(s) - 1
      /\ \A k \in 1 .. Len(s) - 1 : Tail(s)[k] = s[k + 1]
      /\ Head(s) = s[1] /\ Head(s) \in X
  BY HeadTailProperties, EmptySeq, LenProperties
<1>2. Elems(s) = Elems(Tail(s)) \cup {Head(s)}
  <2>1. ASSUME NEW k \in 1 .. Len(s) PROVE s[k] \in Elems(Tail(s)) \cup {Head(s)}
    <3>1. k = 1 \/ (k - 1 \in 1 .. Len(s) - 1 /\ Tail(s)[k - 1] = s[k])
      BY <1>1
    <3> QED
      BY <1>1, <3>1 DEF Elems
  <2>2. ASSUME NEW k \in 1 .. Len(Tail(s)) PROVE Tail(s)[k] \in Elems(s)
    <3>1. k + 1 \in 1 .. Len(s) /\ Tail(s)[k] = s[k + 1]
      BY <1>1
    <3> QED
      BY <3>1 DEF Elems
  <2>3. Head(s) \in Elems(s)
    BY <1>1 DEF Elems
  <2> QED
    BY <2>1, <2>2, <2>3 DEF Elems
<1>3. NoRepeat(s) => NoRepeat(Tail(s))
  BY <1>1 DEF NoRepeat
<1>4. NoRepeat(s) => Head(s) \notin Elems(Tail(s))
  BY <1>1 DEF NoRepeat, Elems
<1> QED
  BY <1>1, <1>2, <1>3, <1>4

\* The blocks of udp_task's queue follow the queue.
LEMMA DatasQueue ==
    ASSUME NEW s \in Seq(Payload)
    PROVE  /\ Datas(s) \in Seq(Blocks) /\ Len(Datas(s)) = Len(s)
           /\ \A x \in Payload : Datas(Append(s, x)) = Append(Datas(s), x.data)
           /\ s # << >> => /\ Datas(s) # << >>
                           /\ Datas(Tail(s)) = Tail(Datas(s))
                           /\ Head(s).data = Head(Datas(s))
<1>1. \A x \in Payload : x.data \in Blocks
  BY DEF Payload
<1> QED
  BY <1>1, QueueOfData

-----------------------------------------------------------------------------
(* The invariant.                                                          *)

\* A list of pointers that repeats nothing but NULL.
OnceOrNull(s) == \A j, k \in 1 .. Len(s) : s[j] = s[k] => j = k \/ s[j] = NULL

\* Two such lists that share no block make up one.
LEMMA OnceConcat ==
    ASSUME NEW X, NEW s \in Seq(X), NEW t \in Seq(X)
    PROVE  /\ s \o t \in Seq(X)
           /\ Elems(s \o t) = Elems(s) \cup Elems(t)
           /\ /\ OnceOrNull(s) /\ OnceOrNull(t)
              /\ Elems(s) \cap Elems(t) \subseteq {NULL}
              => OnceOrNull(s \o t)
<1> DEFINE n == Len(s)
           m == Len(t)
           c == s \o t
<1>1. /\ n \in Nat /\ m \in Nat /\ c \in Seq(X) /\ Len(c) = n + m
      /\ \A k \in 1 .. n + m : c[k] = IF k <= n THEN s[k] ELSE t[k - n]
  OBVIOUS
<1> HIDE DEF n, m, c
<1>2. /\ \A k \in 1 .. n : k \in 1 .. n + m /\ c[k] = s[k]
      /\ \A k \in 1 .. m : n + k \in 1 .. n + m /\ c[n + k] = t[k]
      /\ \A k \in 1 .. n + m :
            k \in 1 .. n \/ (k - n \in 1 .. m /\ c[k] = t[k - n] /\ k - n + n = k)
  BY <1>1
<1>3. /\ \A k \in 1 .. n : s[k] \in Elems(s)
      /\ \A k \in 1 .. m : t[k] \in Elems(t)
  BY DEF Elems, n, m
<1>4. Elems(c) = Elems(s) \cup Elems(t)
  <2>1. \A k \in 1 .. n + m : c[k] \in Elems(s) \cup Elems(t)
    BY <1>2, <1>3
  <2>2. \A x \in Elems(s) : \E k \in 1 .. n + m : x = c[k]
    BY <1>2 DEF Elems, n
  <2>3. \A x \in Elems(t) : \E k \in 1 .. n + m : x = c[k]
    BY <1>2 DEF Elems, m
  <2> QED
    BY <1>1, <2>1, <2>2, <2>3 DEF Elems
<1>5. ASSUME OnceOrNull(s), OnceOrNull(t), Elems(s) \cap Elems(t) \subseteq {NULL},
             NEW j \in 1 .. n + m, NEW k \in 1 .. n + m, c[j] = c[k]
      PROVE  j = k \/ c[j] = NULL
  <2>1. \A x, y \in 1 .. n : s[x] = s[y] => x = y \/ s[x] = NULL
    BY <1>5 DEF OnceOrNull, n
  <2>2. \A x, y \in 1 .. m : t[x] = t[y] => x = y \/ t[x] = NULL
    BY <1>5 DEF OnceOrNull, m
  <2>3. CASE j \in 1 .. n /\ k \in 1 .. n
    BY <1>2, <1>5, <2>1, <2>3
  <2>4. CASE j - n \in 1 .. m /\ k - n \in 1 .. m /\ c[j] = t[j - n] /\ c[k] = t[k - n]
    <3>1. j - n = k - n \/ c[j] = NULL
      BY <1>5, <2>2, <2>4
    <3> QED
      BY <1>1, <3>1
  <2>5. CASE j \in 1 .. n /\ k - n \in 1 .. m /\ c[k] = t[k - n]
    BY <1>2, <1>3, <1>5, <2>5
  <2>6. CASE j - n \in 1 .. m /\ c[j] = t[j - n] /\ k \in 1 .. n
    BY <1>2, <1>3, <1>5, <2>6
  <2> QED
    BY <1>2, <2>3, <2>4, <2>5, <2>6
<1>6. OnceOrNull(s) /\ OnceOrNull(t) /\ Elems(s) \cap Elems(t) \subseteq {NULL}
        => OnceOrNull(c)
  BY <1>1, <1>5 DEF OnceOrNull
<1> QED
  BY <1>1, <1>4, <1>6 DEF c

\* With every block in one place, the list of all pointers held repeats
\* nothing but NULL and names what is allocated and not forgotten.
LEMMA OwnersExact == TransmitTypes /\ Stages /\ Owners => HeapExact
<1> SUFFICES ASSUME TransmitTypes, Stages, Owners PROVE HeapExact
  OBVIOUS
<1> DEFINE Q == ipv4_transmit_queue
           D == Datas(send_queue)
           a == ipv4_task.data
           b == ipv4_task.packet_buf
           f == ipv4_task.eth_frame
           d == udp_task.params.data
           P == Blocks \cup {NULL}
<1>1. Q \in Seq(Blocks) /\ D \in Seq(Blocks)
  BY DatasQueue DEF TransmitTypes, TypeOK
<1>2. a \in P /\ b \in P /\ f \in P /\ d \in P
  BY DEF TransmitTypes, TypeOK, Ipv4Task, Params
<1>3. Q \in Seq(P) /\ D \in Seq(P) /\ <<a, b, f>> \in Seq(P) /\ <<d>> \in Seq(P)
  <2> HIDE DEF Q, D, a, b, f, d
  <2> QED
    BY <1>1, <1>2, SeqMonotonic
<1>4. NULL \notin Elems(Q) /\ NULL \notin Elems(D)
  <2> HIDE DEF Q, D
  <2> QED
    BY <1>1, Ipv4Constants DEF Elems
<1>5. /\ Elems(<<a, b, f>>) = {a, b, f} /\ Elems(<<d>>) = {d}
      /\ OnceOrNull(<<d>>)
  BY DEF Elems, OnceOrNull
<1>6. OnceOrNull(<<a, b, f>>)
  <2>1. \/ a = NULL /\ f = NULL
        \/ b = NULL /\ f = NULL
        \/ a = NULL /\ (b = NULL \/ b # f)
    BY DEF Stages, Ipv4Stage, Owners
  <2> HIDE DEF a, b, f
  <2> QED
    BY <2>1 DEF OnceOrNull
<1>7. OnceOrNull(Q) /\ OnceOrNull(D)
  BY DEF Owners, NoRepeat, OnceOrNull
<1>8. /\ Elems(Q) \cap {a, b, f} = {}
      /\ (Elems(Q) \cup {a, b, f}) \cap Elems(D) = {}
      /\ (Elems(Q) \cup {a, b, f} \cup Elems(D)) \cap {d} \subseteq {NULL}
      /\ (Elems(Q) \cup {a, b, f} \cup Elems(D) \cup {d}) \ {NULL} = heap \ lost
  BY <1>4 DEF Owners, InHand
<1> DEFINE H == <<a, b, f>>
           U == <<d>>
<1> HIDE DEF Q, D, a, b, f, d, P
<1>9. /\ H \in Seq(P) /\ U \in Seq(P) /\ OnceOrNull(H) /\ OnceOrNull(U)
      /\ Elems(H) = {a, b, f} /\ Elems(U) = {d}
  BY <1>3, <1>5, <1>6
<1> HIDE DEF H, U
<1> DEFINE QH == Q \o H
<1>10. QH \in Seq(P) /\ OnceOrNull(QH) /\ Elems(QH) = Elems(Q) \cup {a, b, f}
  <2>1. Elems(Q) \cap Elems(H) \subseteq {NULL}
    BY <1>8, <1>9
  <2> QED
    BY <1>3, <1>7, <1>9, <2>1, OnceConcat
<1> HIDE DEF QH
<1> DEFINE QHD == QH \o D
<1>11. /\ QHD \in Seq(P) /\ OnceOrNull(QHD)
       /\ Elems(QHD) = Elems(Q) \cup {a, b, f} \cup Elems(D)
  <2>1. Elems(QH) \cap Elems(D) \subseteq {NULL}
    BY <1>8, <1>10
  <2> QED
    BY <1>3, <1>7, <1>10, <2>1, OnceConcat
<1> HIDE DEF QHD
<1>12. /\ Held \in Seq(P) /\ OnceOrNull(Held)
       /\ Elems(Held) = Elems(Q) \cup {a, b, f} \cup Elems(D) \cup {d}
  <2>1. Held = QHD \o U
    BY DEF Held, Datas, QHD, QH, Q, D, H, U, a, b, f, d
  <2>2. Elems(QHD) \cap Elems(U) \subseteq {NULL}
    BY <1>8, <1>9, <1>11
  <2> QED
    BY <1>9, <1>11, <2>1, <2>2, OnceConcat
<1>13. ToSet(Held) = Elems(Held)
  <2>1. DOMAIN Held = 1 .. Len(Held)
    BY <1>12, LenProperties
  <2> QED
    BY <2>1 DEF ToSet, Elems
<1>14. OnceOrNull(Held) /\ ToSet(Held) \ {NULL} = heap \ lost
  BY <1>8, <1>12, <1>13
<1> QED
  BY <1>14 DEF HeapExact, OnceOrNull

-----------------------------------------------------------------------------
(* The queues of udp_task and their set.                                   *)

\* EventHasItem, with the counts of the lemmas.
LEMMA EventCounts ==
    EventHasItem <=> /\ Count(udp_task_queue_set, {"send"}) <= Len(send_queue)
                     /\ Count(udp_task_queue_set, {"port"}) <= Len(port_queue)
<1>1. \A q : {k \in 1 .. Len(udp_task_queue_set) : udp_task_queue_set[k] = q}
             = Positions(udp_task_queue_set, {q})
  BY DEF Positions
<1> QED
  BY <1>1 DEF EventHasItem, Count

QueueTypes ==
    /\ send_queue \in Seq(Payload)
    /\ port_queue \in Seq(PortNumbers)
    /\ udp_task_queue_set \in Seq({"send", "port"})
    /\ Len(udp_task_queue_set) <= QUEUE_SET_LEN

\* xQueueSend for a member of the set: its event is counted if it fits.
LEMMA NotifyStep ==
    ASSUME QueueTypes, NEW q \in {"send", "port"}, Notify(q)
    PROVE  /\ udp_task_queue_set' \in Seq({"send", "port"})
           /\ Len(udp_task_queue_set') <= QUEUE_SET_LEN
           /\ \A r \in {"send", "port"} :
                 Count(udp_task_queue_set', {r})
                   <= Count(udp_task_queue_set, {r}) + (IF r = q THEN 1 ELSE 0)
           /\ missed' \in {missed, TRUE}
<1> DEFINE S == udp_task_queue_set
           E == {"send", "port"}
<1>1. S \in Seq(E) /\ Len(S) \in Nat /\ QUEUE_SET_LEN \in Nat
  BY UdpConstants DEF QueueTypes
<1>2. \A r \in E : Count(S, {r}) \in Nat
  <2> HIDE DEF S, E
  <2> QED
    BY <1>1, CountBound
<1>3. CASE Len(S) < QUEUE_SET_LEN /\ S' = Append(S, q) /\ UNCHANGED missed
  <2>1. \A r \in E : Count(Append(S, q), {r})
                        = Count(S, {r}) + (IF q \in {r} THEN 1 ELSE 0)
    <3> HIDE DEF S
    <3> QED
      BY <1>1, CountAppend
  <2>2. Append(S, q) \in Seq(E) /\ Len(Append(S, q)) <= QUEUE_SET_LEN
    BY <1>1, <1>3
  <2> QED
    BY <1>2, <1>3, <2>1, <2>2
<1>4. CASE S' = S /\ missed' = TRUE
  BY <1>1, <1>2, <1>4 DEF QueueTypes
<1> QED
  BY <1>3, <1>4 DEF Notify

\* xQueueSelectFromSet: the event it takes stands for an item.
LEMMA SelectStep ==
    ASSUME QueueTypes, EventHasItem, NEW q \in {"send", "port"}, Selected(q)
    PROVE  /\ udp_task_queue_set' \in Seq({"send", "port"})
           /\ Len(udp_task_queue_set') <= QUEUE_SET_LEN
           /\ \A r \in {"send", "port"} :
                 Count(udp_task_queue_set', {r})
                   = Count(udp_task_queue_set, {r}) - (IF r = q THEN 1 ELSE 0)
           /\ q = "send" => send_queue # << >>
           /\ q = "port" => port_queue # << >>
<1> DEFINE S == udp_task_queue_set
           E == {"send", "port"}
<1>1. /\ S \in Seq(E) /\ S # << >> /\ S' = Tail(S) /\ Head(S) = q
      /\ Len(S) <= QUEUE_SET_LEN /\ QUEUE_SET_LEN \in Nat
  BY UdpConstants DEF QueueTypes, Selected
<1>2. Tail(S) \in Seq(E) /\ Len(Tail(S)) <= QUEUE_SET_LEN
  <2>1. Tail(S) \in Seq(E) /\ Len(Tail(S)) = Len(S) - 1 /\ Len(S) \in Nat
    <3> HIDE DEF S, E
    <3> QED
      BY <1>1, HeadTailProperties, LenProperties
  <2> QED
    BY <1>1, <2>1
<1>3. \A r \in E : /\ Count(S, {r}) = Count(Tail(S), {r})
                                         + (IF q \in {r} THEN 1 ELSE 0)
                    /\ Count(Tail(S), {r}) \in Nat
  <2> HIDE DEF S, E
  <2> QED
    BY <1>1, <1>2, CountTail, CountBound
<1>4. \A r \in E : Count(S', {r}) = Count(S, {r}) - (IF r = q THEN 1 ELSE 0)
  <2> DEFINE a(r) == Count(S, {r})
             b(r) == Count(Tail(S), {r})
  <2>1. \A r \in E : b(r) \in Nat /\ a(r) = b(r) + (IF r = q THEN 1 ELSE 0)
    BY <1>3
  <2>2. \A r \in E : Count(S', {r}) = b(r)
    BY <1>1
  <2> HIDE DEF S, E, a, b
  <2>3. \A r \in E : b(r) = a(r) - (IF r = q THEN 1 ELSE 0)
    BY <2>1
  <2> QED
    BY <2>2, <2>3 DEF a
<1>5. Count(S, {q}) > 0
  BY <1>3
<1>6. q = "send" => Len(send_queue) > 0
  BY <1>3, <1>5, EventCounts DEF QueueTypes
<1>7. q = "port" => Len(port_queue) > 0
  BY <1>3, <1>5, EventCounts DEF QueueTypes
<1> QED
  BY <1>1, <1>2, <1>4, <1>6, <1>7

\* Every step keeps the queues typed and the events covered by items.
LEMMA QueueStep ==
    ASSUME TransmitInv, [Next]_vars
    PROVE  QueueTypes' /\ EventHasItem'
<1>1. QueueTypes /\ EventHasItem
  BY DEF TransmitInv, TransmitTypes, TypeOK, QueueTypes
<1> DEFINE CS == Count(udp_task_queue_set, {"send"})
           CP == Count(udp_task_queue_set, {"port"})
<1>2. /\ CS \in Nat /\ CP \in Nat /\ CS <= Len(send_queue) /\ CP <= Len(port_queue)
      /\ Len(send_queue) \in Nat /\ Len(port_queue) \in Nat
  <2>1. udp_task_queue_set \in Seq({"send", "port"})
    BY <1>1 DEF QueueTypes
  <2>2. CS \in Nat /\ CP \in Nat
    BY <2>1, CountBound
  <2> QED
    BY <1>1, <2>2, EventCounts DEF QueueTypes
<1>3. SUFFICES /\ QueueTypes'
               /\ CS' <= Len(send_queue') /\ CP' <= Len(port_queue')
  <2>1. \A q : {k \in 1 .. Len(udp_task_queue_set') : udp_task_queue_set'[k] = q}
               = Positions(udp_task_queue_set', {q})
    BY DEF Positions
  <2> QED
    BY <2>1 DEF EventHasItem, Count
<1>4. ASSUME NEW len \in {0, 1}, UdpSend(len)
      PROVE  QueueTypes' /\ CS' <= Len(send_queue') /\ CP' <= Len(port_queue')
  <2>1. PICK x \in Payload : /\ send_queue' = Append(send_queue, x)
                             /\ port_queue' = port_queue /\ Notify("send")
    BY <1>4 DEF UdpSend, Payload
  <2>2. /\ udp_task_queue_set' \in Seq({"send", "port"})
        /\ Len(udp_task_queue_set') <= QUEUE_SET_LEN
        /\ CS' <= CS + 1 /\ CP' <= CP
    BY <1>1, <1>2, <2>1, NotifyStep
  <2>3. send_queue' \in Seq(Payload) /\ Len(send_queue') = Len(send_queue) + 1
    BY <1>1, <2>1 DEF QueueTypes
  <2>4. CS' \in Nat /\ CP' \in Nat
    BY <2>2, CountBound
  <2> HIDE DEF CS, CP
  <2> QED
    BY <1>1, <1>2, <2>1, <2>2, <2>3, <2>4 DEF QueueTypes
<1>5. ASSUME NEW n \in PortNumbers, UdpCreatePort(n)
      PROVE  QueueTypes' /\ CS' <= Len(send_queue') /\ CP' <= Len(port_queue')
  <2>1. /\ port_queue' = Append(port_queue, n)
        /\ send_queue' = send_queue /\ Notify("port")
    BY <1>5 DEF UdpCreatePort
  <2>2. /\ udp_task_queue_set' \in Seq({"send", "port"})
        /\ Len(udp_task_queue_set') <= QUEUE_SET_LEN
        /\ CS' <= CS /\ CP' <= CP + 1
    BY <1>1, <1>2, <2>1, NotifyStep
  <2>3. port_queue' \in Seq(PortNumbers) /\ Len(port_queue') = Len(port_queue) + 1
    BY <1>1, <2>1 DEF QueueTypes
  <2>4. CS' \in Nat /\ CP' \in Nat
    BY <2>2, CountBound
  <2> HIDE DEF CS, CP
  <2> QED
    BY <1>1, <1>2, <2>1, <2>2, <2>3, <2>4 DEF QueueTypes
<1>6. CASE TakeSend
  <2>1. Selected("send") /\ send_queue' = Tail(send_queue) /\ port_queue' = port_queue
    BY <1>6 DEF TakeSend
  <2>2. /\ udp_task_queue_set' \in Seq({"send", "port"})
        /\ Len(udp_task_queue_set') <= QUEUE_SET_LEN
        /\ CS' = CS - 1 /\ CP' = CP /\ send_queue # << >>
    BY <1>1, <1>2, <2>1, SelectStep
  <2>3. send_queue' \in Seq(Payload) /\ Len(send_queue') = Len(send_queue) - 1
    BY <1>1, <2>1, <2>2, HeadTailProperties DEF QueueTypes
  <2> HIDE DEF CS, CP
  <2> QED
    BY <1>1, <1>2, <2>1, <2>2, <2>3 DEF QueueTypes
<1>7. CASE TakePort
  <2>1. Selected("port") /\ port_queue' = Tail(port_queue) /\ send_queue' = send_queue
    BY <1>7 DEF TakePort
  <2>2. /\ udp_task_queue_set' \in Seq({"send", "port"})
        /\ Len(udp_task_queue_set') <= QUEUE_SET_LEN
        /\ CS' = CS /\ CP' = CP - 1 /\ port_queue # << >>
    BY <1>1, <1>2, <2>1, SelectStep
  <2>3. port_queue' \in Seq(PortNumbers) /\ Len(port_queue') = Len(port_queue) - 1
    BY <1>1, <2>1, <2>2, HeadTailProperties DEF QueueTypes
  <2> HIDE DEF CS, CP
  <2> QED
    BY <1>1, <1>2, <2>1, <2>2, <2>3 DEF QueueTypes
<1>8. CASE \/ PingReply \/ Ipv4Step \/ ArpStep \/ UdpSendFull \/ UdpSendInternal
           \/ NoDatagram \/ UNCHANGED vars
  <2>1. UNCHANGED <<send_queue, port_queue, udp_task_queue_set>>
    BY <1>8 DEF PingReply, Ipv4Step, ArpStep, UdpSendFull, UdpSendInternal,
                NoDatagram, vars, udpvars
  <2> QED
    BY <1>1, <1>2, <2>1 DEF QueueTypes
<1> QED
  BY <1>4, <1>5, <1>6, <1>7, <1>8 DEF Next, UdpTaskStep

-----------------------------------------------------------------------------
(* The blocks and the tasks that hold them.                                *)

\* send_ipv4_packet takes over a block that is not queued yet: it queues it,
\* or frees it.
LEMMA SendIpv4Step ==
    ASSUME ipv4_transmit_queue \in Seq(Blocks), NEW data \in Blocks, NEW allocated,
           SendIpv4Packet(data, allocated)
    PROVE  /\ ipv4_transmit_queue' \in Seq(Blocks)
           /\ \/ /\ heap' = allocated
                 /\ Elems(ipv4_transmit_queue')
                      = Elems(ipv4_transmit_queue) \cup {data}
                 /\ /\ NoRepeat(ipv4_transmit_queue)
                    /\ data \notin Elems(ipv4_transmit_queue)
                    => NoRepeat(ipv4_transmit_queue')
              \/ /\ heap' = allocated \ {data}
                 /\ ipv4_transmit_queue' = ipv4_transmit_queue
<1>1. CASE /\ ipv4_transmit_queue' = Append(ipv4_transmit_queue, data)
           /\ heap' = allocated
  BY <1>1, ElemsAppend
<1>2. CASE UNCHANGED ipv4_transmit_queue /\ heap' = allocated \ {data}
  BY <1>2
<1> QED
  BY <1>1, <1>2 DEF SendIpv4Packet

\* Every step keeps the types, and the two tasks hold what belongs to where
\* they are.
LEMMA TypesStep ==
    ASSUME TransmitInv, [Next]_vars
    PROVE  TransmitTypes' /\ Stages'
<1> USE DEF TransmitInv, TransmitTypes, TypeOK
<1>1. QueueTypes'
  BY QueueStep
<1>2. send_queue' \in Seq(Params)
  <2>1. Payload \subseteq Params
    BY DEF Payload, Params
  <2> QED
    BY <1>1, <2>1, SeqMonotonic DEF QueueTypes
<1> DEFINE Rest == /\ heap \in SUBSET Blocks /\ lost \in SUBSET Blocks
                   /\ ipv4_transmit_queue \in Seq(Blocks)
                   /\ ipv4_task \in Ipv4Task
                   /\ call \in [{"ipv4_task"} -> {"idle", "asleep", "awake"}]
                   /\ found \in [{"ipv4_task"} -> BOOLEAN]
                   /\ ports \in [1 .. MAX_PORTS -> PortNumbers \cup {0}]
                   /\ udp_task \in [pc : {"select", "send"}, params : Params]
                   /\ missed \in BOOLEAN
                   /\ Stages
<1>3. Rest
  OBVIOUS
<1>4. NoParams \in Params /\ Receiving \in Ipv4Task
  BY DEF NoParams, Params, Receiving, Ipv4Task
<1>5. CASE PingReply
  <2>1. PICK x \in Blocks \ heap : SendIpv4Packet(x, heap \cup {x})
    BY <1>5 DEF PingReply, SendPingReply
  <2>2. ipv4_transmit_queue' \in Seq(Blocks) /\ heap' \in SUBSET Blocks
    BY <1>3, <2>1, SendIpv4Step
  <2>3. UNCHANGED <<ipv4_task, call, found, udpvars>>
    BY <1>5 DEF PingReply, SendPingReply
  <2> QED
    BY <1>1, <1>2, <1>3, <2>2, <2>3 DEF QueueTypes, Stages, Ipv4Stage, UdpStage, udpvars
<1>6. CASE Ipv4Step
  <2>1. UNCHANGED udpvars
    BY <1>6 DEF Ipv4Step
  <2>2. heap' \in SUBSET Blocks
    BY <1>3, <1>6 DEF Ipv4Step, Ipv4TaskStep, Ipv4Receive, BuildPacket, NoPacketBuf,
                      Resolved, AllocFrame, DropPacket, WifiTxRaw
  <2>3. ipv4_transmit_queue' \in Seq(Blocks)
    <3>1. CASE Ipv4Receive
      BY <1>3, <3>1, ElemsTail DEF Ipv4Receive
    <3>2. CASE ~ Ipv4Receive
      BY <1>3, <1>6, <3>2
         DEF Ipv4Step, Ipv4TaskStep, BuildPacket, NoPacketBuf, Resolved,
             AllocFrame, DropPacket, WifiTxRaw
    <3> QED
      BY <3>1, <3>2
  <2>4. call' \in [{"ipv4_task"} -> {"idle", "asleep", "awake"}]
        /\ found' \in [{"ipv4_task"} -> BOOLEAN]
    <3>1. CASE BuildPacket
      BY <1>3, <3>1 DEF BuildPacket, R!Call
    <3>2. CASE Resolved
      BY <1>3, <3>2 DEF Resolved, R!Return
    <3>3. CASE ~ BuildPacket /\ ~ Resolved
      BY <1>3, <1>6, <3>3
         DEF Ipv4Step, Ipv4TaskStep, Ipv4Receive, NoPacketBuf, AllocFrame,
             DropPacket, WifiTxRaw
    <3> QED
      BY <3>1, <3>2, <3>3
  <2>5. ipv4_task' \in Ipv4Task /\ Ipv4Stage'
    <3>1. CASE Ipv4Receive
      <4>1. Head(ipv4_transmit_queue) \in Blocks
        BY <1>3, <3>1, ElemsTail DEF Ipv4Receive
      <4> QED
        BY <1>3, <3>1, <4>1 DEF Ipv4Receive, Stages, Ipv4Stage, Ipv4Task
    <3>2. CASE BuildPacket
      BY <1>3, <3>2 DEF BuildPacket, Stages, Ipv4Stage, Ipv4Task
    <3>3. CASE Resolved
      BY <1>3, <3>3 DEF Resolved, Stages, Ipv4Stage, Ipv4Task
    <3>4. CASE AllocFrame
      BY <1>3, <3>4 DEF AllocFrame, Stages, Ipv4Stage, Ipv4Task
    <3>5. CASE NoPacketBuf \/ DropPacket \/ WifiTxRaw
      BY <1>4, <3>5 DEF NoPacketBuf, DropPacket, WifiTxRaw, Ipv4Stage, Receiving
    <3> QED
      BY <1>6, <3>1, <3>2, <3>3, <3>4, <3>5 DEF Ipv4Step, Ipv4TaskStep
  <2>6. Stages'
    BY <1>3, <2>1, <2>5 DEF Stages, UdpStage, udpvars
  <2> QED
    BY <1>1, <1>2, <1>3, <2>1, <2>2, <2>3, <2>4, <2>5, <2>6
       DEF QueueTypes, udpvars
<1>7. CASE ArpStep
  <2>1. UNCHANGED <<heap, ipv4_transmit_queue, ipv4_task, udpvars, found>>
    BY <1>7 DEF ArpStep, ArpWakes, R!WakeUp, R!Wake
  <2>2. call' \in [{"ipv4_task"} -> {"idle", "asleep", "awake"}]
    BY <1>3, <1>7 DEF ArpStep, ArpWakes, R!WakeUp, R!Wake
  <2> QED
    BY <1>1, <1>2, <1>3, <2>1, <2>2 DEF QueueTypes, Stages, Ipv4Stage, UdpStage, udpvars
<1>8. CASE (\E len \in {0, 1} : UdpSend(len)) \/ UdpSendFull
           \/ \E n \in PortNumbers : UdpCreatePort(n)
  <2>1. UNCHANGED <<ipv4vars, ports, udp_task>>
    BY <1>8 DEF UdpSend, UdpSendFull, UdpCreatePort
  <2>2. heap' \in SUBSET Blocks /\ lost' \in SUBSET Blocks
    BY <1>3, <1>8 DEF UdpSend, UdpSendFull, UdpCreatePort
  <2>3. missed' \in BOOLEAN
    BY <1>3, <1>8 DEF UdpSend, UdpSendFull, UdpCreatePort, Notify
  <2> QED
    BY <1>1, <1>2, <1>3, <2>1, <2>2, <2>3 DEF QueueTypes, Stages, Ipv4Stage,
                                                UdpStage, ipv4vars
<1>9. CASE TakePort
  <2>1. UNCHANGED <<heap, ipv4vars, udp_task, lost, missed>>
    BY <1>9 DEF TakePort
  <2>2. port_queue # << >>
    BY <1>9, SelectStep DEF TakePort, QueueTypes
  <2>3. Head(port_queue) \in PortNumbers
    BY <2>2, HeadTailProperties
  <2>4. ports' \in [1 .. MAX_PORTS -> PortNumbers \cup {0}]
    BY <1>3, <1>9, <2>3 DEF TakePort
  <2> QED
    BY <1>1, <1>2, <1>3, <2>1, <2>4 DEF QueueTypes, Stages, Ipv4Stage,
                                                UdpStage, ipv4vars
<1>10. CASE TakeSend
  <2>1. UNCHANGED <<heap, ipv4vars, ports, lost, missed>>
    BY <1>10 DEF TakeSend
  <2>2. send_queue # << >>
    BY <1>10, SelectStep DEF TakeSend, QueueTypes
  <2>3. Head(send_queue) \in Payload
    BY <2>2, HeadTailProperties
  <2>4. udp_task' \in [pc : {"select", "send"}, params : Params]
        /\ udp_task'.pc = "send" /\ udp_task'.params \in Payload
    BY <1>10, <2>3 DEF TakeSend, Payload, Params
  <2> QED
    BY <1>1, <1>2, <1>3, <2>1, <2>4 DEF QueueTypes, Stages, Ipv4Stage,
                                                UdpStage, ipv4vars
<1>11. CASE UdpSendInternal \/ NoDatagram
  <2>1. UNCHANGED <<ipv4_task, call, found, ports, missed>>
        /\ udp_task' = [pc |-> "select", params |-> NoParams]
    BY <1>11 DEF UdpSendInternal, NoDatagram, ipv4vars
  <2>2. udp_task.params \in Payload
    BY <1>3, <1>11 DEF UdpSendInternal, NoDatagram, Stages, UdpStage
  <2>3. lost' \in SUBSET Blocks
    BY <1>3, <1>11, <2>2 DEF UdpSendInternal, NoDatagram, Payload, Copied
  <2>4. heap' \in SUBSET Blocks /\ ipv4_transmit_queue' \in Seq(Blocks)
    <3>1. CASE NoDatagram
      BY <1>3, <3>1 DEF NoDatagram, ipv4vars
    <3>2. CASE UdpSendInternal
      <4>1. PICK x \in Blocks \ heap :
               SendIpv4Packet(x, (heap \cup {x}) \ Copied(udp_task.params))
        BY <3>2 DEF UdpSendInternal
      <4> QED
        BY <1>3, <4>1, SendIpv4Step
    <3> QED
      BY <1>11, <3>1, <3>2
  <2> QED
    BY <1>1, <1>2, <1>3, <1>4, <2>1, <2>3, <2>4
       DEF QueueTypes, Stages, Ipv4Stage, UdpStage
<1>12. CASE UNCHANGED vars
  BY <1>12 DEF vars, ipv4vars, udpvars, Stages, Ipv4Stage, UdpStage
<1> QED
  BY <1>5, <1>6, <1>7, <1>8, <1>9, <1>10, <1>11, <1>12 DEF Next, UdpTaskStep

\* Every step leaves each allocated block in one place, or frees it, or (in
\* udp_send_internal and udp_send) forgets it.
LEMMA OwnersStep ==
    ASSUME TransmitInv, [Next]_vars
    PROVE  Owners'
<1> DEFINE Q == ipv4_transmit_queue
           D == Datas(send_queue)
<1>1. /\ heap \in SUBSET Blocks /\ Q \in Seq(Blocks) /\ send_queue \in Seq(Payload)
      /\ D \in Seq(Blocks) /\ NULL \notin Blocks
  BY Ipv4Constants, DatasQueue DEF TransmitInv, TransmitTypes, TypeOK
<1>2. Elems(Q) \subseteq Blocks /\ Elems(D) \subseteq Blocks
  <2> HIDE DEF Q, D
  <2> QED
    BY <1>1 DEF Elems
<1>3. Owners /\ Ipv4Stage /\ UdpStage
  BY DEF TransmitInv, Stages
<1>4. CASE PingReply
  <2>1. PICK x \in Blocks \ heap : SendIpv4Packet(x, heap \cup {x})
    BY <1>4 DEF PingReply, SendPingReply
  <2>2. UNCHANGED <<ipv4_task, udp_task, send_queue, lost>>
    BY <1>4 DEF PingReply, SendPingReply, udpvars
  <2>3. x \notin Elems(Q) \cup Elems(D) \cup InHand \cup lost
    BY <1>3 DEF Owners
  <2>4. CASE /\ heap' = heap \cup {x} /\ Elems(Q') = Elems(Q) \cup {x}
             /\ NoRepeat(Q')
    BY <1>1, <1>3, <2>2, <2>3, <2>4 DEF Owners, InHand
  <2>5. CASE heap' = (heap \cup {x}) \ {x} /\ Q' = Q
    <3>1. heap' = heap
      BY <2>5
    <3> QED
      BY <1>3, <2>2, <2>5, <3>1 DEF Owners, InHand
  <2> QED
    BY <1>1, <1>3, <2>1, <2>3, <2>4, <2>5, SendIpv4Step DEF Owners
<1>5. CASE Ipv4Receive /\ UNCHANGED udpvars
  <2>1. /\ Q # << >> /\ Q' = Tail(Q) /\ ipv4_task.pc = "receive"
        /\ ipv4_task'.data = Head(Q)
        /\ ipv4_task'.packet_buf = ipv4_task.packet_buf
        /\ ipv4_task'.eth_frame = ipv4_task.eth_frame
        /\ UNCHANGED <<heap, udp_task, send_queue, lost>>
    BY <1>5 DEF Ipv4Receive, udpvars, TransmitInv, TransmitTypes, TypeOK, Ipv4Task
  <2>2. /\ Head(Q) \in Blocks /\ Elems(Q) = Elems(Q') \cup {Head(Q)}
        /\ NoRepeat(Q') /\ Head(Q) \notin Elems(Q')
    BY <1>1, <1>3, <2>1, ElemsTail DEF Owners
  <2>3. /\ ipv4_task.data = NULL /\ ipv4_task.packet_buf = NULL
        /\ ipv4_task.eth_frame = NULL
    BY <1>3, <2>1 DEF Ipv4Stage
  <2>4. D' = D
    BY <2>1
  <2> HIDE DEF Q, D
  <2>5. InHand' = InHand \cup {Head(Q)}
    BY <1>1, <2>1, <2>2, <2>3 DEF InHand
  <2>6. Head(Q) # udp_task.params.data /\ Head(Q) \notin Elems(D)
    BY <1>1, <1>3, <2>2 DEF Owners, InHand, Q, D
  <2> QED
    BY <1>1, <1>3, <2>1, <2>2, <2>3, <2>4, <2>5, <2>6 DEF Owners, Q, D
<1>6. CASE Ipv4Step /\ ~ Ipv4Receive
  <2>1. UNCHANGED <<ipv4_transmit_queue, udp_task, send_queue, lost>>
    BY <1>6 DEF Ipv4Step, Ipv4TaskStep, udpvars, BuildPacket, NoPacketBuf, Resolved,
                AllocFrame, DropPacket, WifiTxRaw
  <2>2. Q' = Q /\ D' = D
    BY <2>1
  <2>3. ipv4_task \in Ipv4Task
    BY DEF TransmitInv, TransmitTypes, TypeOK
  <2> HIDE DEF Q, D
  <2>4. CASE BuildPacket
    <3>1. PICK x \in Blocks \ heap :
             /\ heap' = (heap \cup {x}) \ {ipv4_task.data}
             /\ ipv4_task' = [ipv4_task EXCEPT !.pc = "arp", !.data = NULL,
                                               !.packet_buf = x]
      BY <2>4 DEF BuildPacket
    <3>2. /\ ipv4_task.pc = "send" /\ ipv4_task'.data = NULL
          /\ ipv4_task'.packet_buf = x /\ ipv4_task'.eth_frame = ipv4_task.eth_frame
      BY <2>3, <2>4, <3>1 DEF BuildPacket, Ipv4Task
    <3>3. /\ ipv4_task.packet_buf = NULL /\ ipv4_task.eth_frame = NULL
          /\ ipv4_task.data \in Blocks
      BY <1>3, <3>2 DEF Ipv4Stage
    <3>4. x \notin Elems(Q) \cup Elems(D) \cup InHand \cup lost
      BY <1>3 DEF Owners, Q, D
    <3>5. InHand' = (InHand \ {ipv4_task.data}) \cup {x}
      BY <1>1, <1>3, <2>1, <3>2, <3>3 DEF InHand, Owners
    <3>6. ipv4_task.data \in InHand /\ x # udp_task.params.data
      BY <1>1, <3>3, <3>4 DEF InHand
    <3> QED
      BY <1>1, <1>3, <2>1, <2>2, <3>1, <3>2, <3>3, <3>4, <3>5, <3>6
         DEF Owners, Q, D
  <2>5. CASE NoPacketBuf
    <3>1. /\ ipv4_task.pc = "send" /\ heap' = heap \ {ipv4_task.data}
          /\ ipv4_task'.data = NULL /\ ipv4_task'.packet_buf = NULL
          /\ ipv4_task'.eth_frame = NULL
      BY <2>5 DEF NoPacketBuf, Receiving
    <3>2. /\ ipv4_task.packet_buf = NULL /\ ipv4_task.eth_frame = NULL
          /\ ipv4_task.data \in Blocks
      BY <1>3, <3>1 DEF Ipv4Stage
    <3>3. InHand' = InHand \ {ipv4_task.data} /\ ipv4_task.data \in InHand
      BY <1>1, <1>3, <2>1, <3>1, <3>2 DEF InHand, Owners
    <3> QED
      BY <1>1, <1>3, <2>1, <2>2, <3>1, <3>3 DEF Owners, Q, D
  <2>6. CASE Resolved
    <3>1. /\ ipv4_task'.data = ipv4_task.data /\ heap' = heap
          /\ ipv4_task'.packet_buf = ipv4_task.packet_buf
          /\ ipv4_task'.eth_frame = ipv4_task.eth_frame
      BY <2>3, <2>6 DEF Resolved, Ipv4Task
    <3>2. InHand' = InHand
      BY <2>1, <3>1 DEF InHand
    <3> QED
      BY <1>3, <2>1, <2>2, <3>1, <3>2 DEF Owners, Q, D
  <2>7. CASE AllocFrame
    <3>1. PICK x \in Blocks \ heap :
             /\ heap' = heap \cup {x}
             /\ ipv4_task' = [ipv4_task EXCEPT !.pc = "raw", !.eth_frame = x]
      BY <2>7 DEF AllocFrame
    <3>2. /\ ipv4_task.pc = "tx" /\ ipv4_task'.data = ipv4_task.data
          /\ ipv4_task'.packet_buf = ipv4_task.packet_buf /\ ipv4_task'.eth_frame = x
      BY <2>3, <2>7, <3>1 DEF AllocFrame, Ipv4Task
    <3>3. ipv4_task.data = NULL /\ ipv4_task.eth_frame = NULL
      BY <1>3, <3>2 DEF Ipv4Stage
    <3>4. x \notin Elems(Q) \cup Elems(D) \cup InHand \cup lost
      BY <1>3 DEF Owners, Q, D
    <3>5. InHand' = InHand \cup {x}
      BY <1>1, <2>1, <3>2, <3>3 DEF InHand
    <3>6. x # udp_task.params.data /\ x # ipv4_task.packet_buf
      BY <1>1, <3>4 DEF InHand
    <3> QED
      BY <1>1, <1>3, <2>1, <2>2, <3>1, <3>2, <3>3, <3>4, <3>5, <3>6
         DEF Owners, Q, D
  <2>8. CASE DropPacket
    <3>1. /\ ipv4_task.pc = "tx" /\ heap' = heap \ {ipv4_task.packet_buf}
          /\ ipv4_task'.data = NULL /\ ipv4_task'.packet_buf = NULL
          /\ ipv4_task'.eth_frame = NULL
      BY <2>8 DEF DropPacket, Receiving
    <3>2. /\ ipv4_task.data = NULL /\ ipv4_task.eth_frame = NULL
          /\ ipv4_task.packet_buf \in Blocks
      BY <1>3, <3>1 DEF Ipv4Stage
    <3>3. InHand' = InHand \ {ipv4_task.packet_buf} /\ ipv4_task.packet_buf \in InHand
      BY <1>1, <1>3, <2>1, <3>1, <3>2 DEF InHand, Owners
    <3> QED
      BY <1>1, <1>3, <2>1, <2>2, <3>1, <3>3 DEF Owners, Q, D
  <2>9. CASE WifiTxRaw
    <3>1. /\ ipv4_task.pc = "raw"
          /\ heap' = heap \ {ipv4_task.eth_frame, ipv4_task.packet_buf}
          /\ ipv4_task'.data = NULL /\ ipv4_task'.packet_buf = NULL
          /\ ipv4_task'.eth_frame = NULL
      BY <2>9 DEF WifiTxRaw, Receiving
    <3>2. /\ ipv4_task.data = NULL /\ ipv4_task.eth_frame \in Blocks
          /\ ipv4_task.packet_buf \in Blocks
      BY <1>3, <3>1 DEF Ipv4Stage
    <3>3. /\ InHand' = InHand \ {ipv4_task.eth_frame, ipv4_task.packet_buf}
          /\ {ipv4_task.eth_frame, ipv4_task.packet_buf} \subseteq InHand
      BY <1>1, <1>3, <2>1, <3>1, <3>2 DEF InHand, Owners
    <3> QED
      BY <1>1, <1>3, <2>1, <2>2, <3>1, <3>3 DEF Owners, Q, D
  <2> QED
    BY <1>6, <2>4, <2>5, <2>6, <2>7, <2>8, <2>9 DEF Ipv4Step, Ipv4TaskStep
<1>7. ASSUME NEW len \in {0, 1}, UdpSend(len)
      PROVE  Owners'
  <2>1. PICK x \in Blocks \ heap :
           /\ heap' = heap \cup {x}
           /\ send_queue' = Append(send_queue, [data |-> x, data_len |-> len])
    BY <1>7 DEF UdpSend
  <2>2. UNCHANGED <<ipv4_transmit_queue, ipv4_task, udp_task, lost>>
    BY <1>7 DEF UdpSend, ipv4vars
  <2>3. D' = Append(D, x)
    <3>1. [data |-> x, data_len |-> len] \in Payload
      BY DEF Payload
    <3> QED
      BY <1>1, <2>1, <3>1, DatasQueue
  <2>4. x \notin Elems(Q) \cup Elems(D) \cup InHand \cup lost
    BY <1>3 DEF Owners
  <2>5. Elems(D') = Elems(D) \cup {x} /\ NoRepeat(D')
    <3>1. NoRepeat(D)
      BY <1>3 DEF Owners
    <3> HIDE DEF D
    <3> QED
      BY <1>1, <2>3, <2>4, <3>1, ElemsAppend
  <2>6. InHand' = InHand /\ Q' = Q
    BY <2>2 DEF InHand
  <2> HIDE DEF D, Q
  <2> QED
    BY <1>3, <2>1, <2>2, <2>4, <2>5, <2>6 DEF Owners, D, Q
<1>8. CASE UdpSendFull
  <2>1. PICK x \in Blocks \ heap : heap' = heap \cup {x} /\ lost' = lost \cup {x}
    BY <1>8 DEF UdpSendFull
  <2>2. UNCHANGED <<ipv4_transmit_queue, ipv4_task, udp_task, send_queue>>
    BY <1>8 DEF UdpSendFull, ipv4vars
  <2>3. x \notin Elems(Q) \cup Elems(D) \cup InHand \cup lost
    BY <1>3 DEF Owners
  <2>4. InHand' = InHand
    BY <2>2 DEF InHand
  <2> QED
    BY <1>3, <2>1, <2>2, <2>3, <2>4 DEF Owners
<1>9. CASE TakeSend
  <2>1. /\ send_queue' = Tail(send_queue) /\ udp_task'.params = Head(send_queue)
        /\ udp_task.pc = "select"
        /\ UNCHANGED <<heap, ipv4_transmit_queue, ipv4_task, lost>>
    BY <1>9 DEF TakeSend, Selected, ipv4vars
  <2>2. send_queue # << >>
    BY <1>9, SelectStep DEF TakeSend, TransmitInv, TransmitTypes, TypeOK, QueueTypes
  <2>3. /\ D # << >> /\ D' = Tail(D) /\ udp_task'.params.data = Head(D)
    BY <1>1, <2>1, <2>2, DatasQueue
  <2>4. udp_task.params.data = NULL
    BY <1>3, <2>1 DEF UdpStage, NoParams
  <2>5. NoRepeat(D)
    BY <1>3 DEF Owners
  <2>6. /\ Head(D) \in Blocks /\ Elems(D) = Elems(D') \cup {Head(D)}
        /\ NoRepeat(D') /\ Head(D) \notin Elems(D')
    <3> HIDE DEF D
    <3> QED
      BY <1>1, <2>3, <2>5, ElemsTail
  <2>7. Q' = Q
    BY <2>1
  <2> HIDE DEF D, Q
  <2>8. InHand' = InHand \cup {Head(D)}
    BY <1>1, <2>1, <2>3, <2>4, <2>6 DEF InHand
  <2>9. Head(D) \notin InHand \cup Elems(Q)
    BY <1>3, <2>6 DEF Owners, D, Q
  <2>10. /\ (Elems(Q') \cup Elems(D') \cup InHand') = heap' \ lost'
         /\ lost' \subseteq heap'
    BY <1>3, <2>1, <2>6, <2>7, <2>8 DEF Owners, D, Q
  <2>11. NoRepeat(Q') /\ Elems(Q') \cap Elems(D') = {} /\ Elems(Q') \cap InHand' = {}
    BY <1>3, <2>6, <2>7, <2>8, <2>9 DEF Owners, D, Q
  <2>12. NoRepeat(D') /\ Elems(D') \cap InHand' = {}
    BY <1>3, <2>6, <2>8 DEF Owners, D
  <2>13. Head(D) \notin {ipv4_task.data, ipv4_task.packet_buf, ipv4_task.eth_frame}
    BY <1>1, <2>6, <2>9 DEF InHand
  <2>14. /\ ipv4_task'.data # NULL => ipv4_task'.data # udp_task'.params.data
         /\ ipv4_task'.packet_buf # NULL =>
              ipv4_task'.packet_buf \notin {udp_task'.params.data, ipv4_task'.eth_frame}
         /\ ipv4_task'.eth_frame # NULL => ipv4_task'.eth_frame # udp_task'.params.data
    BY <1>3, <2>1, <2>3, <2>13 DEF Owners
  <2> QED
    BY <2>10, <2>11, <2>12, <2>14 DEF Owners, D, Q
<1>10. CASE UdpSendInternal
  <2> DEFINE d == udp_task.params.data
  <2>1. PICK x \in Blocks \ heap :
           SendIpv4Packet(x, (heap \cup {x}) \ Copied(udp_task.params))
    BY <1>10 DEF UdpSendInternal
  <2>2. /\ udp_task'.params.data = NULL /\ udp_task.pc = "send"
        /\ lost' = lost \cup ({d} \ Copied(udp_task.params))
        /\ UNCHANGED <<ipv4_task, send_queue>>
    BY <1>10 DEF UdpSendInternal, NoParams
  <2>3. d \in Blocks
    BY <1>3, <2>2 DEF UdpStage, Payload
  <2>4. x \notin Elems(Q) \cup Elems(D) \cup InHand \cup lost
    BY <1>3 DEF Owners
  <2>5. InHand' = InHand \ {d} /\ d \in InHand
    BY <1>1, <1>3, <2>2, <2>3 DEF InHand, Owners
  <2>6. D' = D /\ x # d
    BY <2>2, <2>4, <2>5
  <2>7. \/ /\ heap' = (heap \cup {x}) \ Copied(udp_task.params)
           /\ Elems(Q') = Elems(Q) \cup {x} /\ NoRepeat(Q')
        \/ /\ heap' = ((heap \cup {x}) \ Copied(udp_task.params)) \ {x}
           /\ Q' = Q
    BY <1>1, <1>3, <2>1, <2>4, SendIpv4Step DEF Owners
  <2>8. Copied(udp_task.params) = {d} \/ Copied(udp_task.params) = {}
    BY DEF Copied
  <2> HIDE DEF D, Q, d
  <2>9. d \notin lost /\ d \in heap /\ d \notin Elems(Q) \cup Elems(D)
    BY <1>3, <2>5 DEF Owners, D, Q
  <2>10. (Elems(Q) \cup Elems(D) \cup InHand) = heap \ lost /\ lost \subseteq heap
    BY <1>3 DEF Owners, D, Q
  <2>11. (Elems(Q') \cup Elems(D') \cup InHand') = heap' \ lost' /\ lost' \subseteq heap'
    <3>1. CASE Copied(udp_task.params) = {d}
      BY <2>2, <2>4, <2>5, <2>6, <2>7, <2>9, <2>10, <3>1 DEF d
    <3>2. CASE Copied(udp_task.params) = {}
      BY <2>2, <2>4, <2>5, <2>6, <2>7, <2>9, <2>10, <3>2 DEF d
    <3> QED
      BY <2>8, <3>1, <3>2
  <2>12. NoRepeat(Q') /\ Elems(Q') \cap Elems(D') = {} /\ Elems(Q') \cap InHand' = {}
    BY <1>3, <2>4, <2>5, <2>6, <2>7 DEF Owners, D, Q
  <2>13. NoRepeat(D') /\ Elems(D') \cap InHand' = {}
    BY <1>3, <2>5, <2>6 DEF Owners, D
  <2>14. /\ ipv4_task'.packet_buf # NULL => ipv4_task'.packet_buf # ipv4_task'.eth_frame
    BY <1>3, <2>2 DEF Owners
  <2> QED
    BY <2>2, <2>11, <2>12, <2>13, <2>14 DEF Owners, D, Q
<1>11. CASE NoDatagram
  <2> DEFINE d == udp_task.params.data
  <2>1. /\ udp_task'.params.data = NULL /\ udp_task.pc = "send"
        /\ lost' = lost \cup {d}
        /\ UNCHANGED <<heap, ipv4_transmit_queue, ipv4_task, send_queue>>
    BY <1>11 DEF NoDatagram, NoParams, ipv4vars
  <2>2. d \in Blocks
    BY <1>3, <2>1 DEF UdpStage, Payload
  <2>3. InHand' = InHand \ {d} /\ d \in InHand
    BY <1>1, <1>3, <2>1, <2>2 DEF InHand, Owners
  <2> QED
    BY <1>3, <2>1, <2>3 DEF Owners
<1>12. CASE \/ ArpStep \/ TakePort \/ UNCHANGED vars
            \/ \E n \in PortNumbers : UdpCreatePort(n)
  <2>1. UNCHANGED <<heap, ipv4_transmit_queue, ipv4_task, send_queue, udp_task, lost>>
    BY <1>12 DEF ArpStep, ArpWakes, TakePort, UdpCreatePort, vars, ipv4vars, udpvars
  <2> QED
    BY <1>3, <2>1 DEF Owners, InHand
<1>13. Ipv4Step => (Ipv4Receive /\ UNCHANGED udpvars) \/ ~ Ipv4Receive
  BY DEF Ipv4Step
<1> QED
  BY <1>4, <1>5, <1>6, <1>7, <1>8, <1>9, <1>10, <1>11, <1>12, <1>13
     DEF Next, UdpTaskStep

\* At the start nothing is allocated and every queue is empty.
LEMMA TransmitInit == Init => TransmitInv
<1> SUFFICES ASSUME Init PROVE TransmitInv
  OBVIOUS
<1> USE DEF Init, Ipv4Init, UdpInit, R!Init
<1>1. TransmitTypes
  <2>1. heap \in SUBSET Blocks /\ lost \in SUBSET Blocks /\ missed \in BOOLEAN
    OBVIOUS
  <2>2. /\ ipv4_transmit_queue \in Seq(Blocks) /\ send_queue \in Seq(Params)
        /\ send_queue \in Seq(Payload) /\ port_queue \in Seq(PortNumbers)
        /\ udp_task_queue_set \in Seq({"send", "port"})
        /\ Len(udp_task_queue_set) <= QUEUE_SET_LEN
    BY UdpConstants
  <2>3. ipv4_task \in Ipv4Task
    BY DEF Ipv4Task, Receiving
  <2>4. /\ call \in [{"ipv4_task"} -> {"idle", "asleep", "awake"}]
        /\ found \in [{"ipv4_task"} -> BOOLEAN]
    OBVIOUS
  <2>5. ports \in [1 .. MAX_PORTS -> PortNumbers \cup {0}]
    OBVIOUS
  <2>6. udp_task \in [pc : {"select", "send"}, params : Params]
    BY DEF Params, NoParams
  <2> QED
    BY <2>1, <2>2, <2>3, <2>4, <2>5, <2>6 DEF TransmitTypes, TypeOK
<1>2. Stages
  BY DEF Stages, Ipv4Stage, UdpStage, Receiving
<1>3. EventHasItem
  <2>1. \A q : {k \in 1 .. Len(udp_task_queue_set) : udp_task_queue_set[k] = q} = {}
    OBVIOUS
  <2> QED
    BY <2>1, FS_EmptySet DEF EventHasItem
<1>4. Owners
  <2>1. Elems(ipv4_transmit_queue) = {} /\ Elems(Datas(send_queue)) = {}
    BY DEF Elems, Datas
  <2>2. NoRepeat(ipv4_transmit_queue) /\ NoRepeat(Datas(send_queue))
    BY DEF NoRepeat, Datas
  <2>3. InHand = {}
    BY DEF InHand, Receiving, NoParams
  <2> QED
    BY <2>1, <2>2, <2>3 DEF Owners, Receiving
<1> QED
  BY <1>1, <1>2, <1>3, <1>4 DEF TransmitInv

\* The invariant holds in every behaviour of the transmit path.
LEMMA TransmitInvariant == Spec => []TransmitInv
<1>1. TransmitInv /\ [Next]_vars => TransmitInv'
  BY QueueStep, TypesStep, OwnersStep DEF TransmitInv
<1> QED
  BY <1>1, TransmitInit, PTL DEF Spec

-----------------------------------------------------------------------------
\* The types of ipv4.c's and udp.c's state hold in every behaviour; Head and
\* Tail are never taken of an empty queue and the queue set never overflows.
THEOREM TransmitTypeCorrect == Spec => []TypeOK
<1>1. TransmitInv => TypeOK
  BY DEF TransmitInv, TransmitTypes
<1> QED
  BY <1>1, TransmitInvariant, PTL

\* A block has one holder from malloc to free, on every path through
\* send_ipv4_packet, ipv4_task, eth_tx, udp_send and udp_task: no double free,
\* no use after free, and no leak but the payloads counted in lost.
THEOREM HeapNeverCorrupted == Spec => []HeapExact
<1>1. TransmitInv => HeapExact
  BY OwnersExact DEF TransmitInv
<1> QED
  BY <1>1, TransmitInvariant, PTL

\* The receive that follows a select in udp_task always finds its item, for
\* every length of the queues and of the set.
THEOREM SelectFindsItem == Spec => []EventHasItem
<1>1. TransmitInv => EventHasItem
  BY DEF TransmitInv
<1> QED
  BY <1>1, TransmitInvariant, PTL
=============================================================================
