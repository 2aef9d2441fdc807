--------------------------- MODULE TcpPairProofs ---------------------------
(***************************************************************************)
(* Two hosts that run tcp.c, over any network that loses, duplicates and   *)
(* reorders, with any failure of malloc and of the queues: payloads are    *)
(* delivered in order, nothing is acknowledged that was not sent, and an   *)
(* acknowledgement releases a kept segment at most one too early.  For     *)
(* every number of entries and of calls of tcp_send and tcp_close_port.    *)
(***************************************************************************)
EXTENDS TcpStream, StackLemmas

(* The invariant.                                                          *)

Entry == [ctrl : Controls, data : Nat]

\* What an end that was given n payloads may queue and send.
Fit(e, x, n) ==
    /\ x.data # 0 <=> x.ctrl = PSHACK
    /\ x.data <= n
    /\ x.ctrl = SYN => e = "client"
    /\ x.ctrl = SYNACK => e = "server"

Opens(x) == x.ctrl \in {SYN, SYNACK}

Ascending(s) ==
    \A j, k \in 1 .. Len(s) :
       j < k /\ s[j].data # 0 /\ s[k].data # 0 => s[j].data < s[k].data

\* What has a number: payloads in the order of the calls, and a SYN only as
\* the first.
Written(e, L, n) ==
    /\ \A k \in 1 .. Len(L) : Fit(e, L[k], n) /\ L[k].ctrl # ACK
    /\ \A k \in 1 .. Len(L) : Opens(L[k]) => k = 1
    /\ Ascending(L)

\* What waits for a number: payloads later than all that have one.
Waiting(e, q, L, n) ==
    /\ \A k \in 1 .. Len(q) : Fit(e, q[k], n)
    /\ \A k \in 1 .. Len(q) : Opens(q[k]) => k = 1 /\ L = << >>
    /\ Ascending(q)
    /\ \A j \in 1 .. Len(L), k \in 1 .. Len(q) :
          q[k].data # 0 => L[j].data < q[k].data

\* x is what the number it has was given to.
Copy(x, L) ==
    /\ x.seq_num < Len(L)
    /\ x.ctrl = L[x.seq_num + 1].ctrl /\ x.data = L[x.seq_num + 1].data

Kept(U, L) == \A u \in U : u.ctrl # ACK /\ Copy(u, L)

\* Every entry in use belongs to a kept segment, to a queued one, or to none.
Reliable == {x \in Unacked : x.ctrl # ACK}
Room(U, slots, q) ==
    /\ IsFiniteSet(U)
    /\ slots + Cardinality(U) + Count(q, Reliable) <= MAX_UNACKED

Fresh(e) ==
    /\ send_queue[e] = << >> /\ log[e] = << >> /\ unacked[e] = {}
    /\ sent[e] = 0 /\ port[e].ack_num = 0

Sender(e) ==
    /\ port[e].seq_num = Len(log[e])
    /\ Written(e, log[e], sent[e])
    /\ Waiting(e, send_queue[e], log[e], sent[e])
    /\ Kept(unacked[e], log[e])
    /\ Room(unacked[e], unacked_slots[e], send_queue[e])
    /\ ~ Found(e) => Fresh(e)

\* What d, the payloads an end has got, is of the numbers below ack: a run
\* of them up to the last, and all but the SYN before it were early.
Run(e, ack, d, L, E) ==
    /\ ack >= 1 /\ Opens(L[1])
    /\ Len(d) < ack
    /\ \A i \in 1 .. Len(d) : d[i] = L[(ack - Len(d)) + i].data /\ d[i] # 0
    /\ e = "client" => ack = Len(d) + 1
    /\ e = "server" => \A j \in 2 .. ack - Len(d) : L[j].data \in E

Receiver(e) ==
    /\ port[e].ack_num <= port[Other(e)].seq_num
    /\ port[e].state \in {"SYN_RECEIVED", "ESTABLISHED"} /\ e \notin blocked =>
         Run(e, port[e].ack_num, delivered[e], log[Other(e)], early[e])
    /\ port[e].state \notin {"ESTABLISHED", "FIN_WAIT_1", "FIN_WAIT_2"} =>
         delivered[e] = << >>
    /\ port[e].state = "SYN_SENT" /\ e \notin blocked /\ early[e] = {} =>
         port[e].ack_num = 0
    /\ \A i \in 1 .. Len(delivered[e]) : delivered[e][i] \in Numbered(Other(e))

Roles(e) ==
    /\ e = "client" => port[e].state \notin {"LISTEN", "SYN_RECEIVED"}
    /\ e = "server" => port[e].state \notin {"CLOSED", "SYN_SENT"}

\* ack_num of e only grows.
Steady(e) == e = "server" \/ early["client"] = {}

Carries(m, L) == IF m.ctrl = ACK THEN m.data = 0 ELSE Copy(m, L)

Flight(m) ==
    /\ Carries(m, log[Other(m.to)])
    /\ m.ack_num <= port[m.to].seq_num
    /\ Steady(Other(m.to)) => m.ack_num <= port[Other(m.to)].ack_num

\* The parts of ReleasedBound and of DeliveredInOrder for one end.
Bounded(e) ==
    Steady(Other(e)) => \A s \in Released(e) : s <= port[Other(e)].ack_num

InOrder(e, d, L, n, E) ==
    \A i \in 1 .. Len(d) :
       /\ d[i] <= n
       /\ i > 1 => d[i - 1] < d[i]
       /\ \A k \in 1 .. Len(L) : L[k].data # 0 /\ L[k].data < d[i] =>
             \/ \E j \in 1 .. i - 1 : d[j] = L[k].data
             \/ e = "server" /\ L[k].data < d[1] /\ L[k].data \in E

PairTypes ==
    /\ port \in [Ends -> [state : States, seq_num : Nat, ack_num : Nat]]
    /\ unacked \in [Ends -> SUBSET Unacked]
    /\ unacked_slots \in [Ends -> Nat]
    /\ send_queue \in [Ends -> Seq(Unacked)]
    /\ blocked \subseteq Ends
    /\ net \subseteq Segment
    /\ sent \in [Ends -> Nat] /\ closes \in [Ends -> Nat]
    /\ delivered \in [Ends -> Seq(Nat)]
    /\ log \in [Ends -> Seq(Entry)]
    /\ early \in [Ends -> SUBSET Nat] /\ refused \in [Ends -> SUBSET Nat]

EndInv(e) ==
    /\ Roles(e) /\ Sender(e) /\ Receiver(e) /\ Bounded(e)
    /\ InOrder(e, delivered[e], log[Other(e)], sent[Other(e)], early[e])

PairInv == /\ PairTypes
           /\ \A e \in Ends : EndInv(e)
           /\ \A m \in net : Flight(m)

-----------------------------------------------------------------------------
(* Constants and types.                                                    *)

\* The flags in each of the control words the code sends.
LEMMA Controlled ==
    /\ "SYN" \in SYN /\ "ACK" \notin SYN /\ "FIN" \notin SYN
    /\ "ACK" \in ACK /\ "SYN" \notin ACK /\ "FIN" \notin ACK
    /\ "FIN" \in FIN /\ "ACK" \notin FIN /\ "SYN" \notin FIN
    /\ "SYN" \in SYNACK /\ "ACK" \in SYNACK /\ "FIN" \notin SYNACK
    /\ "ACK" \in PSHACK /\ "PSH" \in PSHACK
    /\ "SYN" \notin PSHACK /\ "FIN" \notin PSHACK /\ "PSH" \notin ACK
BY DEF SYN, ACK, FIN, SYNACK, PSHACK

\* The control words differ from each other.
LEMMA Distinct ==
    /\ SYN # ACK /\ SYN # FIN /\ SYN # SYNACK /\ SYN # PSHACK
    /\ ACK # FIN /\ ACK # SYNACK /\ ACK # PSHACK
    /\ FIN # SYNACK /\ FIN # PSHACK /\ SYNACK # PSHACK
<1>1. SYN # ACK /\ SYN # FIN /\ SYN # SYNACK /\ SYN # PSHACK
  BY Controlled
<1>2. ACK # FIN /\ ACK # SYNACK /\ ACK # PSHACK
  BY Controlled
<1>3. FIN # SYNACK /\ FIN # PSHACK /\ SYNACK # PSHACK
  BY Controlled
<1> QED
  BY <1>1, <1>2, <1>3

\* Only a plain ACK takes no number.
LEMMA Increments ==
    ASSUME NEW c \in Controls, NEW d \in Nat, d # 0 <=> c = PSHACK
    PROVE  Increment(c, d) = IF c = ACK THEN 0 ELSE 1
<1>1. c \in {SYN, ACK, FIN, SYNACK, PSHACK}
  BY DEF Controls
<1>2. c = ACK => Increment(c, d) = 0
  BY Distinct, Controlled DEF Increment
<1>3. c # ACK => Increment(c, d) = 1
  BY <1>1, Distinct, Controlled DEF Increment
<1> QED
  BY <1>2, <1>3

\* The other end of the other end is this one, and there is no third.
LEMMA TwoEnds ==
    /\ \A e \in Ends : /\ Other(e) \in Ends /\ Other(e) # e /\ Other(Other(e)) = e
                       /\ \A d \in Ends : d = e \/ d = Other(e)
    /\ "client" \in Ends /\ "server" \in Ends
    /\ Other("client") = "server" /\ Other("server") = "client"
    /\ \A e \in Ends : e = "client" \/ e = "server"
BY DEF Ends, Other

\* The fields of a typed state.
LEMMA Fields ==
    ASSUME PairTypes, NEW e \in Ends
    PROVE  /\ port[e] \in [state : States, seq_num : Nat, ack_num : Nat]
           /\ port[e].state \in States
           /\ port[e].seq_num \in Nat /\ port[e].ack_num \in Nat
           /\ unacked[e] \in SUBSET Unacked /\ unacked_slots[e] \in Nat
           /\ send_queue[e] \in Seq(Unacked)
           /\ sent[e] \in Nat /\ closes[e] \in Nat
           /\ delivered[e] \in Seq(Nat) /\ Len(delivered[e]) \in Nat
           /\ log[e] \in Seq(Entry) /\ Len(log[e]) \in Nat
           /\ early[e] \in SUBSET Nat /\ refused[e] \in SUBSET Nat
<1>1. port[e] \in [state : States, seq_num : Nat, ack_num : Nat]
  BY DEF PairTypes
<1> QED
  BY <1>1 DEF PairTypes

\* The fields of a segment on its way have their types.
LEMMA SegmentFields ==
    ASSUME NEW m \in Segment
    PROVE  /\ m.to \in Ends /\ m.seq_num \in Nat /\ m.ack_num \in Nat
           /\ m.ctrl \in Controls /\ m.data \in Nat
BY DEF Segment

\* The fields of a segment that is queued or kept have their types.
LEMMA UnackedFields ==
    ASSUME NEW u \in Unacked
    PROVE  u.seq_num \in Nat /\ u.ctrl \in Controls /\ u.data \in Nat
BY DEF Unacked

\* The fields of an entry of the log have their types.
LEMMA EntryFields ==
    ASSUME NEW x \in Entry
    PROVE  x.ctrl \in Controls /\ x.data \in Nat
BY DEF Entry

-----------------------------------------------------------------------------
(* The log and the queue of an end.                                        *)

\* The end of a queue and of what is left of one.
LEMMA Ends_of_queues ==
    ASSUME NEW X, NEW s \in Seq(X)
    PROVE  /\ Len(s) \in Nat
           /\ \A x \in X : /\ Append(s, x) \in Seq(X) /\ Len(Append(s, x)) = Len(s) + 1
                           /\ Append(s, x)[Len(s) + 1] = x
                           /\ \A k \in 1 .. Len(s) : Append(s, x)[k] = s[k]
           /\ s # << >> => /\ Tail(s) \in Seq(X) /\ Len(Tail(s)) = Len(s) - 1
                           /\ Len(s) >= 1 /\ Head(s) = s[1] /\ Head(s) \in X
                           /\ \A k \in 1 .. Len(s) - 1 : Tail(s)[k] = s[k + 1]
BY HeadTailProperties, EmptySeq, LenProperties

\* tcp_send_internal takes the head of the queue; the rest waits as before.
LEMMA WaitingTail ==
    ASSUME NEW e, NEW q \in Seq(Unacked), NEW L \in Seq(Entry), NEW n \in Nat,
           q # << >>, Waiting(e, q, L, n)
    PROVE  Waiting(e, Tail(q), L, n)
<1> DEFINE t == Tail(q)
<1>1. /\ Len(q) \in Nat /\ Len(t) = Len(q) - 1
      /\ \A k \in 1 .. Len(q) - 1 : t[k] = q[k + 1]
  BY Ends_of_queues
<1> HIDE DEF t
<1>2. \A k \in 1 .. Len(t) : k + 1 \in 1 .. Len(q) /\ t[k] = q[k + 1] /\ k + 1 # 1
  BY <1>1
<1>3. \A j, k \in 1 .. Len(t) : j < k => j + 1 < k + 1
  BY <1>1
<1>4. Ascending(t)
  BY <1>2, <1>3 DEF Waiting, Ascending
<1>5. Waiting(e, t, L, n)
  BY <1>2, <1>4 DEF Waiting
<1> QED
  BY <1>5 DEF t

\* It gives the head the next number.
LEMMA WrittenAppend ==
    ASSUME NEW e, NEW q \in Seq(Unacked), NEW L \in Seq(Entry), NEW n \in Nat,
           q # << >>, Waiting(e, q, L, n), Written(e, L, n), Head(q).ctrl # ACK,
           NEW x \in Entry, x.ctrl = Head(q).ctrl, x.data = Head(q).data
    PROVE  Written(e, Append(L, x), n) /\ Waiting(e, Tail(q), Append(L, x), n)
<1> DEFINE t == Tail(q)
           M == Append(L, x)
<1>1. /\ Len(q) \in Nat /\ Len(t) = Len(q) - 1 /\ Len(q) >= 1
      /\ Head(q) = q[1]
      /\ \A k \in 1 .. Len(q) - 1 : t[k] = q[k + 1]
  BY Ends_of_queues
<1>2. /\ Len(L) \in Nat /\ Len(M) = Len(L) + 1 /\ M[Len(L) + 1] = x
      /\ \A k \in 1 .. Len(L) : M[k] = L[k]
  BY Ends_of_queues
<1>3. x.ctrl = q[1].ctrl /\ x.data = q[1].data /\ q[1].ctrl # ACK
  BY <1>1
<1> HIDE DEF t, M
<1>4. \A k \in 1 .. Len(t) : k + 1 \in 1 .. Len(q) /\ t[k] = q[k + 1] /\ 1 < k + 1
  BY <1>1
<1>5. \A k \in 1 .. Len(M) : k \in 1 .. Len(L) \/ k = Len(L) + 1
  BY <1>2
<1>6. 1 \in 1 .. Len(q) /\ Fit(e, x, n)
  BY <1>1, <1>3 DEF Waiting, Fit
<1>7. \A j \in 1 .. Len(L) : x.data # 0 => L[j].data < x.data
  BY <1>3, <1>6 DEF Waiting
<1>8. Ascending(M)
  <2> SUFFICES ASSUME NEW j \in 1 .. Len(M), NEW k \in 1 .. Len(M),
                      j < k, M[j].data # 0, M[k].data # 0
               PROVE  M[j].data < M[k].data
    BY DEF Ascending
  <2>1. j \in 1 .. Len(L)
    BY <1>2
  <2>2. CASE k \in 1 .. Len(L)
    BY <1>2, <2>1, <2>2 DEF Written, Ascending
  <2>3. CASE k = Len(L) + 1
    BY <1>2, <1>7, <2>1, <2>3
  <2> QED
    BY <1>5, <2>2, <2>3
<1>9. Opens(x) => L = << >>
  BY <1>3, <1>6 DEF Waiting, Opens
<1>10. \A k \in 1 .. Len(M) : Opens(M[k]) => k = 1
  BY <1>2, <1>5, <1>9, EmptySeq DEF Written
<1>11. Written(e, M, n)
  BY <1>2, <1>3, <1>5, <1>6, <1>8, <1>10 DEF Written
<1>12. Ascending(t)
  <2>1. \A j, k \in 1 .. Len(t) : j < k => j + 1 < k + 1
    BY <1>1
  <2> QED
    BY <1>4, <2>1 DEF Waiting, Ascending
<1>13. ASSUME NEW j \in 1 .. Len(M), NEW k \in 1 .. Len(t), t[k].data # 0
       PROVE  M[j].data < t[k].data
  <2>1. k + 1 \in 1 .. Len(q) /\ t[k] = q[k + 1] /\ 1 < k + 1
    BY <1>4
  <2>2. CASE j \in 1 .. Len(L)
    BY <1>2, <1>13, <2>1, <2>2 DEF Waiting
  <2>3. CASE j = Len(L) + 1
    <3>1. q[k + 1].data \in Nat
      BY <2>1, UnackedFields
    <3>2. CASE q[1].data = 0
      BY <1>2, <1>3, <1>13, <2>1, <2>3, <3>1, <3>2
    <3>3. CASE q[1].data # 0
      BY <1>2, <1>3, <1>6, <1>13, <2>1, <2>3, <3>3 DEF Waiting, Ascending
    <3> QED
      BY <3>2, <3>3
  <2> QED
    BY <1>5, <2>2, <2>3
<1>14. \A k \in 1 .. Len(t) : Fit(e, t[k], n) /\ ~ Opens(t[k])
  BY <1>4 DEF Waiting
<1>15. Waiting(e, t, M, n)
  BY <1>12, <1>13, <1>14 DEF Waiting
<1> QED
  BY <1>11, <1>15 DEF t, M

\* A segment goes to the end of the queue.
LEMMA WaitingAppend ==
    ASSUME NEW e, NEW q \in Seq(Unacked), NEW L \in Seq(Entry),
           NEW n \in Nat, NEW r \in Nat, n <= r,
           Waiting(e, q, L, n), Written(e, L, n),
           NEW x \in Unacked, Fit(e, x, r),
           Opens(x) => q = << >> /\ L = << >>,
           x.data # 0 => x.data > n
    PROVE  Written(e, L, r) /\ Waiting(e, Append(q, x), L, r)
<1> DEFINE t == Append(q, x)
<1>1. /\ Len(q) \in Nat /\ Len(t) = Len(q) + 1 /\ t[Len(q) + 1] = x
      /\ \A k \in 1 .. Len(q) : t[k] = q[k]
  BY Ends_of_queues
<1> HIDE DEF t
<1>2. \A k \in 1 .. Len(t) : k \in 1 .. Len(q) \/ k = Len(q) + 1
  BY <1>1
<1>3. \A k \in 1 .. Len(L) : L[k].data \in Nat /\ L[k].data <= n /\ Fit(e, L[k], r)
  <2> SUFFICES ASSUME NEW k \in 1 .. Len(L)
               PROVE  L[k].data \in Nat /\ L[k].data <= n /\ Fit(e, L[k], r)
    OBVIOUS
  <2>1. L[k] \in Entry /\ Fit(e, L[k], n)
    BY DEF Written
  <2> QED
    BY <2>1, EntryFields DEF Fit
<1>4. \A k \in 1 .. Len(q) : q[k].data \in Nat /\ q[k].data <= n /\ Fit(e, q[k], r)
  <2> SUFFICES ASSUME NEW k \in 1 .. Len(q)
               PROVE  q[k].data \in Nat /\ q[k].data <= n /\ Fit(e, q[k], r)
    OBVIOUS
  <2>1. q[k] \in Unacked /\ Fit(e, q[k], n)
    BY DEF Waiting
  <2> QED
    BY <2>1, UnackedFields DEF Fit
<1>5. Written(e, L, r)
  BY <1>3 DEF Written
<1>6. x.data \in Nat
  BY UnackedFields
<1>7. Ascending(t)
  <2> SUFFICES ASSUME NEW j \in 1 .. Len(t), NEW k \in 1 .. Len(t),
                      j < k, t[j].data # 0, t[k].data # 0
               PROVE  t[j].data < t[k].data
    BY DEF Ascending
  <2>1. j \in 1 .. Len(q)
    BY <1>1
  <2>2. CASE k \in 1 .. Len(q)
    BY <1>1, <2>1, <2>2 DEF Waiting, Ascending
  <2>3. CASE k = Len(q) + 1
    BY <1>1, <1>4, <1>6, <2>1, <2>3
  <2> QED
    BY <1>2, <2>2, <2>3
<1>8. \A j \in 1 .. Len(L), k \in 1 .. Len(t) : t[k].data # 0 => L[j].data < t[k].data
  <2> SUFFICES ASSUME NEW j \in 1 .. Len(L), NEW k \in 1 .. Len(t), t[k].data # 0
               PROVE  L[j].data < t[k].data
    OBVIOUS
  <2>1. CASE k \in 1 .. Len(q)
    BY <1>1, <2>1 DEF Waiting
  <2>2. CASE k = Len(q) + 1
    BY <1>1, <1>3, <1>6, <2>2
  <2> QED
    BY <1>2, <2>1, <2>2
<1>9. \A k \in 1 .. Len(t) : Fit(e, t[k], r)
  BY <1>1, <1>2, <1>4
<1>10. \A k \in 1 .. Len(t) : Opens(t[k]) => k = 1 /\ L = << >>
  BY <1>1, <1>2, EmptySeq DEF Waiting
<1>11. Waiting(e, t, L, r)
  BY <1>7, <1>8, <1>9, <1>10 DEF Waiting
<1> QED
  BY <1>5, <1>11 DEF t

\* What has a number has it for ever.
LEMMA CopyAppend ==
    ASSUME NEW L \in Seq(Entry), NEW y \in Entry, NEW x, x.seq_num \in Nat
    PROVE  /\ Copy(x, L) => Copy(x, Append(L, y))
           /\ x.seq_num = Len(L) /\ x.ctrl = y.ctrl /\ x.data = y.data =>
                Copy(x, Append(L, y))
<1>1. /\ Len(L) \in Nat /\ Len(Append(L, y)) = Len(L) + 1
      /\ Append(L, y)[Len(L) + 1] = y
      /\ \A k \in 1 .. Len(L) : Append(L, y)[k] = L[k]
  BY Ends_of_queues
<1>2. x.seq_num < Len(L) => x.seq_num + 1 \in 1 .. Len(L)
  BY <1>1
<1> QED
  BY <1>1, <1>2 DEF Copy

-----------------------------------------------------------------------------
(* The entries of a port.                                                  *)

\* tcp_enqueue_reliable takes a slot for what it queues, and a plain ACK
\* takes none.
LEMMA RoomAppend ==
    ASSUME NEW U \in SUBSET Unacked, NEW slots \in Nat, NEW q \in Seq(Unacked),
           Room(U, slots, q), NEW x \in Unacked
    PROVE  /\ x.ctrl # ACK /\ slots > 0 => Room(U, slots - 1, Append(q, x))
           /\ x.ctrl = ACK => Room(U, slots, Append(q, x))
<1>1. Count(Append(q, x), Reliable) = Count(q, Reliable) + (IF x \in Reliable THEN 1 ELSE 0)
  BY CountAppend
<1>2. /\ IsFiniteSet(U) /\ Cardinality(U) \in Nat /\ Count(q, Reliable) \in Nat
      /\ slots + Cardinality(U) + Count(q, Reliable) <= MAX_UNACKED
      /\ MAX_UNACKED \in Nat
  BY CountBound, FS_CardinalityType, PairConstants DEF Room
<1>3. x \in Reliable <=> x.ctrl # ACK
  BY DEF Reliable
<1> QED
  BY <1>1, <1>2, <1>3 DEF Room

\* tcp_send_internal keeps the head of the queue in the entry of its slot, or
\* leaves the slot with nobody.
LEMMA RoomTail ==
    ASSUME NEW U \in SUBSET Unacked, NEW slots \in Nat, NEW q \in Seq(Unacked),
           q # << >>, Room(U, slots, q)
    PROVE  /\ Room(U, slots, Tail(q))
           /\ Head(q).ctrl # ACK => \A x \in Unacked : Room(U \cup {x}, slots, Tail(q))
<1>1. /\ Count(q, Reliable) = Count(Tail(q), Reliable)
                                + (IF Head(q) \in Reliable THEN 1 ELSE 0)
      /\ Tail(q) \in Seq(Unacked) /\ Head(q) \in Unacked
  BY CountTail, Ends_of_queues
<1>2. /\ IsFiniteSet(U) /\ Cardinality(U) \in Nat /\ Count(q, Reliable) \in Nat
      /\ Count(Tail(q), Reliable) \in Nat
      /\ slots + Cardinality(U) + Count(q, Reliable) <= MAX_UNACKED
      /\ MAX_UNACKED \in Nat
  BY <1>1, CountBound, FS_CardinalityType, PairConstants DEF Room
<1>3. Head(q) \in Reliable <=> Head(q).ctrl # ACK
  BY <1>1 DEF Reliable
<1>4. ASSUME NEW x \in Unacked
      PROVE  /\ IsFiniteSet(U \cup {x}) /\ Cardinality(U \cup {x}) \in Nat
             /\ Cardinality(U \cup {x}) <= Cardinality(U) + 1
  <2>1. IsFiniteSet(U \cup {x})
        /\ Cardinality(U \cup {x}) = IF x \in U THEN Cardinality(U) ELSE Cardinality(U) + 1
    BY <1>2, FS_AddElement
  <2> QED
    BY <1>2, <2>1
<1>5. Room(U, slots, Tail(q))
  BY <1>1, <1>2 DEF Room
<1>6. ASSUME NEW x \in Unacked, Head(q).ctrl # ACK
      PROVE  Room(U \cup {x}, slots, Tail(q))
  <2>1. Count(q, Reliable) = Count(Tail(q), Reliable) + 1
    BY <1>1, <1>3, <1>6
  <2>2. /\ IsFiniteSet(U \cup {x}) /\ Cardinality(U \cup {x}) \in Nat
        /\ Cardinality(U \cup {x}) <= Cardinality(U) + 1
    BY <1>4
  <2>3. slots + Cardinality(U \cup {x}) + Count(Tail(q), Reliable) <= MAX_UNACKED
    BY <1>2, <2>1, <2>2
  <2> QED
    BY <2>2, <2>3 DEF Room
<1> QED
  BY <1>5, <1>6

\* A segment that is not kept any more gives its slot back.
LEMMA RoomRelease ==
    ASSUME NEW U \in SUBSET Unacked, NEW slots \in Nat, NEW q \in Seq(Unacked),
           Room(U, slots, q), NEW R \in SUBSET U
    PROVE  /\ Cardinality(R) \in Nat
           /\ Room(U \ R, slots + Cardinality(R), q)
<1>1. /\ IsFiniteSet(U) /\ Cardinality(U) \in Nat /\ Count(q, Reliable) \in Nat
      /\ slots + Cardinality(U) + Count(q, Reliable) <= MAX_UNACKED
      /\ MAX_UNACKED \in Nat
  BY CountBound, FS_CardinalityType, PairConstants DEF Room
<1>2. IsFiniteSet(R) /\ Cardinality(R) \in Nat /\ U \cap R = R
  BY <1>1, FS_Subset, FS_CardinalityType
<1>3. /\ IsFiniteSet(U \ R) /\ Cardinality(U \ R) \in Nat
      /\ Cardinality(U \ R) = Cardinality(U) - Cardinality(U \cap R)
  BY <1>1, FS_Difference, FS_CardinalityType
<1>4. Cardinality(U \cap R) = Cardinality(R)
  BY <1>2
<1>5. (slots + Cardinality(R)) + Cardinality(U \ R) + Count(q, Reliable) <= MAX_UNACKED
  BY <1>1, <1>2, <1>3, <1>4
<1> QED
  BY <1>2, <1>3, <1>5 DEF Room

-----------------------------------------------------------------------------
(* Steps.  Every step but a loss is one of one end e: it changes what      *)
(* belongs to e, and adds segments of e to the network.                    *)

Elsewhere(e) ==
    \A d \in Ends : d # e =>
       /\ port'[d] = port[d] /\ unacked'[d] = unacked[d]
       /\ unacked_slots'[d] = unacked_slots[d] /\ send_queue'[d] = send_queue[d]
       /\ sent'[d] = sent[d] /\ delivered'[d] = delivered[d]
       /\ log'[d] = log[d] /\ early'[d] = early[d] /\ refused'[d] = refused[d]
       /\ d \in blocked' <=> d \in blocked

Grows(e) ==
    /\ log'[e] = log[e] \/ \E y \in Entry : log'[e] = Append(log[e], y)
    /\ sent[e] <= sent'[e]
    /\ early[e] \subseteq early'[e]
    /\ Steady(e)' => port[e].ack_num <= port'[e].ack_num

\* What has been accepted is not changed by what the sender sends later.
LEMMA RunAppend ==
    ASSUME NEW e, NEW ack \in Nat, NEW d \in Seq(Nat), NEW L \in Seq(Entry), NEW E,
           NEW y \in Entry, ack <= Len(L), Run(e, ack, d, L, E)
    PROVE  Run(e, ack, d, Append(L, y), E)
<1>1. /\ Len(L) \in Nat /\ \A k \in 1 .. Len(L) : Append(L, y)[k] = L[k]
      /\ Len(d) \in Nat
  BY Ends_of_queues
<1>2. ack >= 1 /\ Len(d) < ack
  BY DEF Run
<1>3. \A i \in 1 .. Len(d) : (ack - Len(d)) + i \in 1 .. Len(L)
  BY <1>1, <1>2
<1>4. \A j \in 2 .. ack - Len(d) : j \in 1 .. Len(L)
  BY <1>1, <1>2
<1>5. 1 \in 1 .. Len(L)
  BY <1>1, <1>2
<1> QED
  BY <1>1, <1>3, <1>4, <1>5 DEF Run

\* A new number is that of a later payload than all that were delivered.
LEMMA InOrderAppend ==
    ASSUME NEW e, NEW d \in Seq(Nat), NEW L \in Seq(Entry), NEW E,
           NEW n \in Nat, NEW r \in Nat, n <= r, NEW y \in Entry,
           InOrder(e, d, L, n, E), Ascending(Append(L, y)),
           \A i \in 1 .. Len(d) : \E k \in 1 .. Len(L) : d[i] = L[k].data /\ d[i] # 0
    PROVE  InOrder(e, d, L, r, E) /\ InOrder(e, d, Append(L, y), r, E)
<1> DEFINE M == Append(L, y)
<1>1. /\ Len(L) \in Nat /\ Len(M) = Len(L) + 1 /\ M[Len(L) + 1] = y
      /\ \A k \in 1 .. Len(L) : M[k] = L[k]
      /\ Len(d) \in Nat /\ \A i \in 1 .. Len(d) : d[i] \in Nat
  BY Ends_of_queues
<1> HIDE DEF M
<1>2. ASSUME NEW i \in 1 .. Len(d), y.data # 0 PROVE ~ (y.data < d[i])
  <2>1. PICK k \in 1 .. Len(L) : d[i] = L[k].data /\ d[i] # 0
    OBVIOUS
  <2>2. /\ k \in 1 .. Len(M) /\ Len(L) + 1 \in 1 .. Len(M) /\ k < Len(L) + 1
        /\ M[k].data # 0 /\ M[Len(L) + 1].data # 0
    BY <1>1, <1>2, <2>1
  <2>3. M[k].data < M[Len(L) + 1].data
    BY <2>2 DEF Ascending, M
  <2>4. d[i] < y.data /\ d[i] \in Nat /\ y.data \in Nat
    BY <1>1, <2>1, <2>3, EntryFields
  <2> QED
    BY <2>4
<1>3. \A i \in 1 .. Len(d) : d[i] <= r
  BY <1>1 DEF InOrder
<1>4. InOrder(e, d, L, r, E)
  BY <1>3 DEF InOrder
<1>5. \A k \in 1 .. Len(M) : k \in 1 .. Len(L) \/ k = Len(L) + 1
  BY <1>1
<1>6. InOrder(e, d, M, r, E)
  <2> SUFFICES ASSUME NEW i \in 1 .. Len(d)
               PROVE  /\ d[i] <= r
                      /\ i > 1 => d[i - 1] < d[i]
                      /\ \A k \in 1 .. Len(M) : M[k].data # 0 /\ M[k].data < d[i] =>
                            \/ \E j \in 1 .. i - 1 : d[j] = M[k].data
                            \/ e = "server" /\ M[k].data < d[1] /\ M[k].data \in E
    BY DEF InOrder
  <2>1. \A k \in 1 .. Len(M) : M[k].data # 0 /\ M[k].data < d[i] =>
           k \in 1 .. Len(L) /\ M[k] = L[k]
    BY <1>1, <1>2, <1>5
  <2> QED
    BY ZenonT(30), <1>4, <2>1 DEF InOrder
<1> QED
  BY <1>4, <1>6 DEF M

\* An end whose own part of the invariant still holds after its step leaves
\* that of the other end and of the network as they were.
LEMMA StepAt ==
    ASSUME PairInv, PairTypes', NEW e \in Ends, Elsewhere(e), Grows(e),
           Roles(e)', Sender(e)', Receiver(e)',
           InOrder(e, delivered'[e], log[Other(e)], sent[Other(e)], early'[e]),
           Steady(Other(e)) => \A s \in Released(e)' :
              s \in Released(e) \/ s <= port[Other(e)].ack_num,
           \A m \in net' : \/ m \in net
                           \/ /\ m.to = Other(e) /\ Carries(m, log'[e])
                              /\ m.ack_num = port'[e].ack_num
    PROVE  PairInv'
<1> DEFINE d == Other(e)
<1>1. /\ d \in Ends /\ d # e /\ Other(d) = e
      /\ \A c \in Ends : c = e \/ c = d
  BY TwoEnds
<1>2. /\ port'[d] = port[d] /\ unacked'[d] = unacked[d]
      /\ unacked_slots'[d] = unacked_slots[d] /\ send_queue'[d] = send_queue[d]
      /\ sent'[d] = sent[d] /\ delivered'[d] = delivered[d]
      /\ log'[d] = log[d] /\ early'[d] = early[d] /\ refused'[d] = refused[d]
      /\ d \in blocked' <=> d \in blocked
  BY <1>1 DEF Elsewhere
<1>3. /\ PairTypes /\ EndInv(e) /\ EndInv(d) /\ \A m \in net : Flight(m)
  BY <1>1 DEF PairInv
<1>4. /\ port[e].seq_num \in Nat /\ port[e].ack_num \in Nat
      /\ port[d].seq_num \in Nat /\ port[d].ack_num \in Nat
      /\ sent[e] \in Nat /\ log[e] \in Seq(Entry) /\ delivered[d] \in Seq(Nat)
      /\ Len(log[e]) \in Nat
  BY <1>1, <1>3, Fields
<1>5. /\ port'[e].seq_num \in Nat /\ port'[e].ack_num \in Nat
      /\ sent'[e] \in Nat /\ sent[e] <= sent'[e]
      /\ log'[e] \in Seq(Entry)
  BY DEF PairTypes, Grows
<1>6. /\ port[e].seq_num = Len(log[e]) /\ port'[e].seq_num = Len(log'[e])
      /\ Len(log[e]) <= Len(log'[e])
      /\ \A k \in 1 .. Len(log[e]) : log'[e][k] = log[e][k]
  <2>1. port[e].seq_num = Len(log[e]) /\ port'[e].seq_num = Len(log'[e])
    BY <1>3 DEF EndInv, Sender
  <2> QED
    BY SMTT(20), <1>4, <2>1, Ends_of_queues DEF Grows
<1> HIDE DEF d
<1>7. Steady(d)' <=> Steady(d)
  BY <1>1, <1>2 DEF Steady, Ends
<1>8. Steady(e)' => Steady(e) /\ port[e].ack_num <= port'[e].ack_num
  BY TwoEnds DEF Steady, Grows
<1>9. Roles(d)' /\ Sender(d)'
  <2>1. Roles(d) /\ Sender(d)
    BY <1>3 DEF EndInv
  <2> QED
    BY <1>2, <2>1 DEF Roles, Sender, Found, Fresh
<1>10. Receiver(d)'
  <2>1. Receiver(d)
    BY <1>3 DEF EndInv
  <2>2. port'[d].ack_num <= port'[e].seq_num
    BY <1>1, <1>2, <1>4, <1>5, <1>6, <2>1 DEF Receiver
  <2>3. Run(d, port[d].ack_num, delivered[d], log[e], early[d]) =>
           Run(d, port[d].ack_num, delivered[d], log'[e], early[d])
    <3>1. port[d].ack_num <= Len(log[e])
      BY <1>1, <1>6, <2>1 DEF Receiver
    <3> QED
      BY <1>4, <3>1, RunAppend DEF Grows
  <2>4. Numbered(e) \subseteq Numbered(e)'
    <3>1. \A k \in 1 .. Len(log[e]) : k \in 1 .. Len(log'[e]) /\ log'[e][k] = log[e][k]
      <4>1. PICK n \in Nat, p \in Nat : n = Len(log[e]) /\ p = Len(log'[e]) /\ n <= p
        BY <1>4, <1>5, <1>6
      <4> QED
        BY <1>6, <4>1
    <3>2. PICK new, old : new = log'[e] /\ old = log[e]
      OBVIOUS
    <3> QED
      BY <3>1, <3>2 DEF Numbered
  <2> QED
    BY <1>1, <1>2, <2>1, <2>2, <2>3, <2>4 DEF Receiver
<1>11. Bounded(e)'
  <2>1. Steady(d) => \A s \in Released(e) : s <= port[d].ack_num
    BY <1>1, <1>3 DEF EndInv, Bounded, d
  <2>2. Steady(d)' => \A s \in Released(e)' : s <= port'[d].ack_num
    BY <1>2, <1>7, <2>1 DEF d
  <2> QED
    BY <2>2 DEF Bounded, d
<1>12. Bounded(d)'
  <2>1. Released(d)' = Released(d)
    BY <1>2 DEF Released
  <2>2. Steady(e) => \A s \in Released(d) : s <= port[e].ack_num
    BY <1>1, <1>3 DEF EndInv, Bounded
  <2>3. \A s \in Released(d) : s \in Nat
    BY <1>4 DEF Released
  <2>4. Steady(e)' => \A s \in Released(d)' : s <= port'[e].ack_num
    BY <1>4, <1>5, <1>8, <2>1, <2>2, <2>3
  <2> QED
    BY <1>1, <2>4 DEF Bounded
<1>13. InOrder(e, delivered'[e], log'[d], sent'[d], early'[e])
  BY <1>2 DEF d
<1>14. InOrder(d, delivered'[d], log'[e], sent'[e], early'[d])
  <2>1. InOrder(d, delivered[d], log[e], sent[e], early[d])
    BY <1>1, <1>3 DEF EndInv
  <2>2. \A i \in 1 .. Len(delivered[d]) :
           \E k \in 1 .. Len(log[e]) :
              delivered[d][i] = log[e][k].data /\ delivered[d][i] # 0
    BY <1>1, <1>3 DEF EndInv, Receiver, Numbered
  <2>3. CASE log'[e] = log[e]
    <3>1. \A i \in 1 .. Len(delivered[d]) : delivered[d][i] \in Nat
      BY <1>4
    <3>2. \A i \in 1 .. Len(delivered[d]) : delivered[d][i] <= sent'[e]
      BY SMTT(20), <1>4, <1>5, <2>1, <3>1 DEF InOrder
    <3> QED
      BY <1>2, <2>1, <2>3, <3>2 DEF InOrder
  <2>4. ASSUME NEW y \in Entry, log'[e] = Append(log[e], y)
        PROVE  InOrder(d, delivered[d], log'[e], sent'[e], early[d])
    <3>1. Ascending(Append(log[e], y))
      BY <2>4 DEF Sender, Written
    <3>2. PICK D \in Seq(Nat), L \in Seq(Entry), n \in Nat, r \in Nat, E \in {early[d]} :
             D = delivered[d] /\ L = log[e] /\ n = sent[e] /\ r = sent'[e] /\ E = early[d]
      BY <1>4, <1>5
    <3>3. InOrder(d, D, L, n, E) /\ n <= r /\ Ascending(Append(L, y))
          /\ \A i \in 1 .. Len(D) : \E k \in 1 .. Len(L) : D[i] = L[k].data /\ D[i] # 0
      BY <1>5, <2>1, <2>2, <3>1, <3>2
    <3>4. InOrder(d, D, Append(L, y), r, E)
      BY <3>3, InOrderAppend
    <3> QED
      BY <2>4, <3>2, <3>4
  <2> QED
    BY <1>2, <2>3, <2>4 DEF Grows
<1>15. EndInv(e)' /\ EndInv(d)'
  BY <1>1, <1>9, <1>10, <1>11, <1>12, <1>13, <1>14 DEF EndInv, d
<1>16. ASSUME NEW m \in net' PROVE Flight(m)'
  <2>1. m \in Segment /\ m.seq_num \in Nat /\ m.ack_num \in Nat /\ m.to \in Ends
    BY SegmentFields DEF PairTypes
  <2>2. CASE m \in net /\ m.to = d
    <3>1. /\ Carries(m, log[e]) /\ m.ack_num <= port[d].seq_num
          /\ Steady(e) => m.ack_num <= port[e].ack_num
      BY <1>1, <1>3, <2>2 DEF Flight
    <3>2. Carries(m, log'[e])
      BY <1>4, <2>1, <3>1, CopyAppend DEF Carries, Grows
    <3> QED
      BY SMTT(20), <1>1, <1>2, <1>4, <1>5, <1>8, <2>1, <2>2, <3>1, <3>2 DEF Flight
  <2>3. CASE m \in net /\ m.to = e
    <3>1. /\ Carries(m, log[d]) /\ m.ack_num <= port[e].seq_num
          /\ Steady(d) => m.ack_num <= port[d].ack_num
      BY <1>3, <2>3 DEF Flight, d
    <3>2. m.ack_num <= port'[e].seq_num
      BY <1>4, <1>5, <1>6, <2>1, <3>1
    <3>3. Carries(m, log'[d]) /\ (Steady(d)' => m.ack_num <= port'[d].ack_num)
      BY <1>2, <1>7, <3>1
    <3> QED
      BY <2>3, <3>2, <3>3 DEF Flight, d
  <2>4. CASE m.to = d /\ Carries(m, log'[e]) /\ m.ack_num = port'[e].ack_num
    <3>1. port'[e].ack_num <= port'[d].seq_num
      BY DEF Receiver, d
    <3> QED
      BY <1>1, <1>5, <2>4, <3>1 DEF Flight
  <2> QED
    BY <1>1, <2>1, <2>2, <2>3, <2>4 DEF d
<1> QED
  BY <1>1, <1>15, <1>16 DEF PairInv

\* Steps that receive nothing.
LEMMA SendingStep ==
    ASSUME PairInv, PairTypes', NEW e \in Ends, Elsewhere(e), Sender(e)',
           port'[e].state = port[e].state, port'[e].ack_num = port[e].ack_num,
           UNCHANGED <<blocked, delivered, early>>,
           log'[e] = log[e] \/ \E y \in Entry : log'[e] = Append(log[e], y),
           sent[e] <= sent'[e],
           Released(e)' \subseteq Released(e),
           \A m \in net' : \/ m \in net
                           \/ /\ m.to = Other(e) /\ Carries(m, log'[e])
                              /\ m.ack_num = port'[e].ack_num
    PROVE  PairInv'
<1>1. PairTypes /\ EndInv(e) /\ Other(e) \in Ends /\ Other(e) # e
  BY TwoEnds DEF PairInv
<1>2. port'[Other(e)] = port[Other(e)] /\ log'[Other(e)] = log[Other(e)]
  BY <1>1 DEF Elsewhere
<1>3. Grows(e)
  BY <1>1, Fields DEF Grows
<1>4. Roles(e)'
  BY <1>1 DEF EndInv, Roles
<1>5. Receiver(e)'
  BY <1>1, <1>2 DEF EndInv, Receiver, Numbered
<1>6. InOrder(e, delivered'[e], log[Other(e)], sent[Other(e)], early'[e])
  BY <1>1 DEF EndInv
<1> QED
  BY <1>3, <1>4, <1>5, <1>6, StepAt

\* Only a loss, or no step at all.
LEMMA LoseStep ==
    ASSUME PairInv, net' \subseteq net,
           UNCHANGED <<port, unacked, unacked_slots, send_queue, blocked, app, history>>
    PROVE  PairInv'
<1>1. PairTypes' /\ PairTypes
  BY DEF PairInv, PairTypes, app, history
<1>2. "client" \in Ends /\ EndInv("client") /\ Sender("client")
  BY TwoEnds DEF PairInv, EndInv
<1>3. Elsewhere("client")
  BY DEF Elsewhere, app, history
<1>4. Sender("client")'
  BY <1>2 DEF Sender, Found, Fresh, app, history
<1>5. /\ UNCHANGED <<port, blocked, delivered, early, log, sent>>
      /\ sent["client"] \in Nat
  BY <1>1, <1>2, Fields DEF app, history
<1>6. Released("client")' = Released("client")
  BY DEF Released, app, history
<1> QED
  BY <1>1, <1>2, <1>3, <1>4, <1>5, <1>6, SendingStep

\* What the applications and tcp_task put on send_queue has the type of a
\* segment.
LEMMA ItemType ==
    ASSUME NEW c \in Controls, NEW d \in Nat, NEW s \in Nat
    PROVE  /\ Item(c, d, s) \in Unacked
           /\ Item(c, d, s).ctrl = c /\ Item(c, d, s).data = d
BY DEF Item, Unacked

\* What enqueueing does to the queues.
LEMMA EnqueueEffect ==
    ASSUME PairTypes, NEW e \in Ends, NEW x \in Unacked, Enqueue(e, x)
    PROVE  /\ send_queue' \in [Ends -> Seq(Unacked)]
           /\ send_queue'[e] = Append(send_queue[e], x)
           /\ \A d \in Ends : d # e => send_queue'[d] = send_queue[d]
<1>1. send_queue \in [Ends -> Seq(Unacked)] /\ Append(send_queue[e], x) \in Seq(Unacked)
  BY Fields DEF PairTypes
<1> QED
  BY <1>1 DEF Enqueue

\* A segment that takes a number is queued with a slot, and the end goes on
\* as before.
LEMMA ReliableEffect ==
    ASSUME PairTypes, NEW e \in Ends, NEW x \in Unacked, EnqueueReliable(e, x),
           NEW r \in Nat, sent[e] <= r, Sender(e), Fit(e, x, r), x.ctrl # ACK,
           Opens(x) => Fresh(e), x.data # 0 => x.data > sent[e]
    PROVE  /\ send_queue' \in [Ends -> Seq(Unacked)] /\ unacked_slots' \in [Ends -> Nat]
           /\ \A d \in Ends : d # e => /\ send_queue'[d] = send_queue[d]
                                       /\ unacked_slots'[d] = unacked_slots[d]
           /\ send_queue'[e] = Append(send_queue[e], x)
           /\ Written(e, log[e], r) /\ Waiting(e, send_queue'[e], log[e], r)
           /\ Room(unacked[e], unacked_slots'[e], send_queue'[e])
<1>1. /\ send_queue[e] \in Seq(Unacked) /\ unacked[e] \in SUBSET Unacked
      /\ unacked_slots[e] \in Nat /\ log[e] \in Seq(Entry) /\ sent[e] \in Nat
      /\ unacked_slots \in [Ends -> Nat]
  BY Fields DEF PairTypes
<1>2. /\ unacked_slots[e] > 0
      /\ unacked_slots' = [unacked_slots EXCEPT ![e] = unacked_slots[e] - 1]
      /\ Enqueue(e, x)
  BY DEF EnqueueReliable
<1>3. /\ unacked_slots' \in [Ends -> Nat] /\ unacked_slots'[e] = unacked_slots[e] - 1
      /\ \A d \in Ends : d # e => unacked_slots'[d] = unacked_slots[d]
  <2>1. unacked_slots[e] - 1 \in Nat
    BY <1>1, <1>2
  <2> QED
    BY <1>1, <1>2, <2>1
<1>4. /\ send_queue' \in [Ends -> Seq(Unacked)]
      /\ send_queue'[e] = Append(send_queue[e], x)
      /\ \A d \in Ends : d # e => send_queue'[d] = send_queue[d]
  BY <1>2, EnqueueEffect
<1>5. Written(e, log[e], r) /\ Waiting(e, Append(send_queue[e], x), log[e], r)
  BY <1>1, WaitingAppend DEF Sender, Fresh
<1>6. Room(unacked[e], unacked_slots[e] - 1, Append(send_queue[e], x))
  BY <1>1, <1>2, RoomAppend DEF Sender
<1> QED
  BY <1>3, <1>4, <1>5, <1>6

\* tcp_task queues a SYN, a SYN+ACK or a FIN, or fails to, or waits for ever.
LEMMA TaskEffect ==
    ASSUME PairInv, NEW e \in Ends, NEW c \in {SYN, SYNACK, FIN}, TaskEnqueues(e, c),
           c = SYN => e = "client", c = SYNACK => e = "server",
           c # FIN => Fresh(e),
           UNCHANGED <<unacked, sent, log>>,
           port'[e].seq_num = port[e].seq_num, Found(e)'
    PROVE  /\ Sender(e)'
           /\ send_queue' \in [Ends -> Seq(Unacked)] /\ unacked_slots' \in [Ends -> Nat]
           /\ blocked' \subseteq Ends /\ blocked \subseteq blocked'
           /\ \A d \in Ends : d # e => /\ send_queue'[d] = send_queue[d]
                                       /\ unacked_slots'[d] = unacked_slots[d]
                                       /\ d \in blocked' <=> d \in blocked
<1>1. PairTypes /\ Sender(e) /\ port[e].seq_num \in Nat /\ sent[e] \in Nat
  BY Fields DEF PairInv, EndInv
<1>2. PICK x : x = Item(c, 0, port[e].seq_num)
  OBVIOUS
<1>3. /\ x \in Unacked /\ x.ctrl = c /\ x.data = 0 /\ c # ACK /\ c # PSHACK
  <2>1. c \in Controls /\ 0 \in Nat
    BY DEF Controls
  <2>2. x \in Unacked /\ x.ctrl = c /\ x.data = 0
    BY <1>1, <1>2, <2>1, ItemType
  <2> QED
    BY <2>2, Distinct
<1>4. Fit(e, x, sent[e]) /\ (Opens(x) => Fresh(e))
  BY <1>1, <1>3, Distinct DEF Fit, Opens
<1>5. CASE EnqueueReliable(e, x) /\ UNCHANGED blocked
  <2>1. /\ send_queue' \in [Ends -> Seq(Unacked)] /\ unacked_slots' \in [Ends -> Nat]
        /\ \A d \in Ends : d # e => /\ send_queue'[d] = send_queue[d]
                                    /\ unacked_slots'[d] = unacked_slots[d]
        /\ Written(e, log[e], sent[e]) /\ Waiting(e, send_queue'[e], log[e], sent[e])
        /\ Room(unacked[e], unacked_slots'[e], send_queue'[e])
    BY <1>1, <1>3, <1>4, <1>5, ReliableEffect
  <2>2. Sender(e)'
    BY <1>1, <2>1 DEF Sender
  <2> QED
    BY <1>1, <1>5, <2>1, <2>2 DEF PairTypes
<1>6. CASE /\ UNCHANGED <<unacked_slots, send_queue>>
           /\ blocked' = blocked \/ blocked' = blocked \cup {e}
  <2>1. Sender(e)'
    BY <1>1, <1>6 DEF Sender
  <2> QED
    BY <1>1, <1>6, <2>1 DEF PairTypes
<1> QED
  BY <1>2, <1>5, <1>6 DEF TaskEnqueues

\* The steps of an end change its port only.
LEMMA PortEffect ==
    ASSUME PairTypes, NEW e \in Ends,
           NEW r \in [state : States, seq_num : Nat, ack_num : Nat],
           port' = [port EXCEPT ![e] = r]
    PROVE  /\ port' \in [Ends -> [state : States, seq_num : Nat, ack_num : Nat]]
           /\ port'[e] = r
           /\ \A d \in Ends : d # e => port'[d] = port[d]
BY DEF PairTypes

\* tcp_connect_port queues the SYN, the first segment.
LEMMA ConnectStep == PairInv /\ Connect => PairInv'
<1> SUFFICES ASSUME PairInv, Connect PROVE PairInv'
  OBVIOUS
<1> DEFINE e == "client"
<1>1. PairTypes /\ EndInv(e) /\ e \in Ends /\ Other(e) = "server" /\ "server" \in Ends
  BY TwoEnds DEF PairInv
<1>2. /\ port[e].state = "CLOSED" /\ TaskEnqueues(e, SYN)
      /\ port' = [port EXCEPT ![e].state = "SYN_SENT"]
      /\ UNCHANGED <<unacked, net, sent, closes, delivered, log, early, refused>>
  BY DEF Connect, app, history
<1>3. /\ port[e].seq_num \in Nat /\ port[e].ack_num \in Nat /\ sent[e] \in Nat
  BY <1>1, Fields
<1> HIDE DEF e
<1>4. /\ port' \in [Ends -> [state : States, seq_num : Nat, ack_num : Nat]]
      /\ port'[e].state = "SYN_SENT" /\ port'[e].seq_num = port[e].seq_num
      /\ port'[e].ack_num = port[e].ack_num
      /\ \A d \in Ends : d # e => port'[d] = port[d]
  <2> DEFINE r == [port[e] EXCEPT !.state = "SYN_SENT"]
  <2>1. /\ r \in [state : States, seq_num : Nat, ack_num : Nat]
        /\ r.state = "SYN_SENT" /\ r.seq_num = port[e].seq_num
        /\ r.ack_num = port[e].ack_num
    BY <1>1, Fields DEF States
  <2>2. port' = [port EXCEPT ![e] = r]
    BY <1>2
  <2> HIDE DEF r
  <2> QED
    BY <1>1, <2>1, <2>2, PortEffect
<1>5. Fresh(e) /\ Found(e)'
  BY <1>1, <1>2, <1>4 DEF EndInv, Sender, Found
<1>6. /\ Sender(e)'
      /\ send_queue' \in [Ends -> Seq(Unacked)] /\ unacked_slots' \in [Ends -> Nat]
      /\ blocked' \subseteq Ends /\ blocked \subseteq blocked'
      /\ \A d \in Ends : d # e => /\ send_queue'[d] = send_queue[d]
                                  /\ unacked_slots'[d] = unacked_slots[d]
                                  /\ d \in blocked' <=> d \in blocked
  BY <1>1, <1>2, <1>4, <1>5, TaskEffect, Distinct DEF e
<1>7. PairTypes'
  BY <1>1, <1>2, <1>4, <1>6 DEF PairTypes
<1>8. Elsewhere(e)
  BY <1>2, <1>4, <1>6 DEF Elsewhere
<1>9. Grows(e)
  BY <1>2, <1>3, <1>4 DEF Grows
<1>10. Roles(e)'
  BY <1>4 DEF Roles, e
<1>11. Receiver(e)'
  <2>1. Receiver(e)
    BY <1>1 DEF EndInv
  <2>2. port'[Other(e)] = port[Other(e)]
    BY <1>1, <1>4 DEF e
  <2> QED
    BY <1>2, <1>4, <1>5, <2>1, <2>2 DEF Receiver, Fresh, Numbered
<1>12. InOrder(e, delivered'[e], log[Other(e)], sent[Other(e)], early'[e])
  BY <1>1, <1>2 DEF EndInv
<1>13. Released(e)' = Released(e) /\ net' = net
  BY <1>2, <1>4 DEF Released
<1>14. /\ \A s \in Released(e)' : s \in Released(e) \/ s <= port[Other(e)].ack_num
       /\ \A m \in net' : m \in net
  BY <1>13
<1> QED
  BY <1>1, <1>6, <1>7, <1>8, <1>9, <1>10, <1>11, <1>12, <1>14, StepAt

\* tcp_close_port queues a FIN, in any state of the connection.
LEMMA CloseStep ==
    ASSUME PairInv, NEW e \in Ends, Close(e)
    PROVE  PairInv'
<1>1. PairTypes /\ EndInv(e) /\ Other(e) \in Ends /\ Other(e) # e
  BY TwoEnds DEF PairInv
<1>2. /\ closes' = [closes EXCEPT ![e] = @ + 1] /\ TaskEnqueues(e, FIN)
      /\ port' = [port EXCEPT ![e].state = "FIN_WAIT_1"]
      /\ UNCHANGED <<unacked, net, sent, delivered, log, early, refused>>
  BY DEF Close, history
<1>3. /\ port[e].seq_num \in Nat /\ port[e].ack_num \in Nat /\ sent[e] \in Nat
      /\ closes[e] + 1 \in Nat
  BY <1>1, Fields
<1>4. /\ port' \in [Ends -> [state : States, seq_num : Nat, ack_num : Nat]]
      /\ port'[e].state = "FIN_WAIT_1" /\ port'[e].seq_num = port[e].seq_num
      /\ port'[e].ack_num = port[e].ack_num
      /\ \A d \in Ends : d # e => port'[d] = port[d]
  <2> DEFINE r == [port[e] EXCEPT !.state = "FIN_WAIT_1"]
  <2>1. /\ r \in [state : States, seq_num : Nat, ack_num : Nat]
        /\ r.state = "FIN_WAIT_1" /\ r.seq_num = port[e].seq_num
        /\ r.ack_num = port[e].ack_num
    BY <1>1, Fields DEF States
  <2>2. port' = [port EXCEPT ![e] = r]
    BY <1>2
  <2> HIDE DEF r
  <2> QED
    BY <1>1, <2>1, <2>2, PortEffect
<1>5. Found(e)'
  BY <1>4 DEF Found
<1>6. /\ Sender(e)'
      /\ send_queue' \in [Ends -> Seq(Unacked)] /\ unacked_slots' \in [Ends -> Nat]
      /\ blocked' \subseteq Ends /\ blocked \subseteq blocked'
      /\ \A d \in Ends : d # e => /\ send_queue'[d] = send_queue[d]
                                  /\ unacked_slots'[d] = unacked_slots[d]
                                  /\ d \in blocked' <=> d \in blocked
  BY <1>1, <1>2, <1>4, <1>5, TaskEffect, Distinct
<1>7. PairTypes'
  BY <1>1, <1>2, <1>3, <1>4, <1>6 DEF PairTypes
<1>8. Elsewhere(e)
  BY <1>2, <1>4, <1>6 DEF Elsewhere
<1>9. Grows(e)
  BY <1>2, <1>3, <1>4 DEF Grows
<1>10. Roles(e)'
  BY <1>4 DEF Roles
<1>11. Receiver(e)'
  <2>1. Receiver(e)
    BY <1>1 DEF EndInv
  <2>2. port'[Other(e)] = port[Other(e)]
    BY <1>1, <1>4
  <2> QED
    BY <1>2, <1>4, <2>1, <2>2 DEF Receiver, Numbered
<1>12. InOrder(e, delivered'[e], log[Other(e)], sent[Other(e)], early'[e])
  BY <1>1, <1>2 DEF EndInv
<1>13. Released(e)' = Released(e) /\ net' = net
  BY <1>2, <1>4 DEF Released
<1>14. /\ \A s \in Released(e)' : s \in Released(e) \/ s <= port[Other(e)].ack_num
       /\ \A m \in net' : m \in net
  BY <1>13
<1> QED
  BY <1>1, <1>6, <1>7, <1>8, <1>9, <1>10, <1>11, <1>12, <1>14, StepAt

\* tcp_send queues the next payload when a slot is free.
LEMMA TcpSendStep ==
    ASSUME PairInv, NEW e \in Ends, TcpSend(e)
    PROVE  PairInv'
<1>1. PairTypes /\ EndInv(e) /\ Sender(e)
  BY DEF PairInv, EndInv
<1>2. /\ Found(e) /\ sent' = [sent EXCEPT ![e] = sent[e] + 1]
      /\ EnqueueReliable(e, Item(PSHACK, sent[e] + 1, 0))
      /\ UNCHANGED <<port, unacked, blocked, net, closes, delivered, log, early, refused>>
  BY DEF TcpSend, history
<1>3. sent \in [Ends -> Nat] /\ sent[e] \in Nat /\ sent[e] + 1 \in Nat
  BY SMTT(20), <1>1, Fields DEF PairTypes
<1>4. /\ sent' \in [Ends -> Nat] /\ sent'[e] = sent[e] + 1
      /\ \A d \in Ends : d # e => sent'[d] = sent[d]
  BY <1>2, <1>3
<1>5. PICK x : x = Item(PSHACK, sent[e] + 1, 0)
  OBVIOUS
<1>6. x \in Unacked /\ x.ctrl = PSHACK /\ x.data = sent[e] + 1
  <2>1. PSHACK \in Controls /\ 0 \in Nat
    BY DEF Controls
  <2> QED
    BY <1>3, <1>5, <2>1, ItemType
<1>7. /\ Fit(e, x, sent[e] + 1) /\ x.ctrl # ACK /\ ~ Opens(x)
      /\ x.data > sent[e] /\ sent[e] <= sent[e] + 1
  BY <1>3, <1>6, Distinct DEF Fit, Opens
<1>8. PICK r \in Nat : r = sent[e] + 1
  BY <1>3
<1>9. /\ send_queue' \in [Ends -> Seq(Unacked)] /\ unacked_slots' \in [Ends -> Nat]
      /\ \A d \in Ends : d # e => /\ send_queue'[d] = send_queue[d]
                                  /\ unacked_slots'[d] = unacked_slots[d]
      /\ Written(e, log[e], r) /\ Waiting(e, send_queue'[e], log[e], r)
      /\ Room(unacked[e], unacked_slots'[e], send_queue'[e])
  <2>1. EnqueueReliable(e, x) /\ Fit(e, x, r) /\ sent[e] <= r
    BY <1>2, <1>5, <1>7, <1>8
  <2> QED
    BY <1>1, <1>6, <1>7, <2>1, ReliableEffect
<1>10. Sender(e)'
  <2>1. Found(e)'
    BY <1>2 DEF Found
  <2> QED
    BY <1>1, <1>2, <1>4, <1>8, <1>9, <2>1 DEF Sender
<1>11. PairTypes'
  BY <1>1, <1>2, <1>4, <1>9 DEF PairTypes
<1>12. Elsewhere(e)
  BY <1>2, <1>4, <1>9 DEF Elsewhere
<1>13. Released(e)' = Released(e)
  BY <1>2 DEF Released
<1> QED
  BY <1>2, <1>3, <1>4, <1>10, <1>11, <1>12, <1>13, SendingStep

\* The fields of a datagram.
LEMMA DatagramFields ==
    ASSUME PairTypes, NEW e \in Ends, NEW x \in Unacked
    PROVE  /\ Datagram(e, x) \in Segment
           /\ Datagram(e, x).to = Other(e)
           /\ Datagram(e, x).ctrl = x.ctrl /\ Datagram(e, x).data = x.data
           /\ Datagram(e, x).seq_num = x.seq_num
           /\ Datagram(e, x).ack_num = port[e].ack_num
<1>1. /\ x.seq_num \in Nat /\ x.ctrl \in Controls /\ x.data \in Nat
      /\ port[e].ack_num \in Nat /\ Other(e) \in Ends
  BY UnackedFields, Fields, TwoEnds
<1> QED
  BY <1>1 DEF Datagram, Segment

\* The head of a queue and what is left.
LEMMA TakenEffect ==
    ASSUME PairInv, NEW e \in Ends, Taken(e)
    PROVE  /\ send_queue[e] # << >> /\ Found(e)
           /\ send_queue' \in [Ends -> Seq(Unacked)]
           /\ send_queue'[e] = Tail(send_queue[e])
           /\ \A d \in Ends : d # e => send_queue'[d] = send_queue[d]
           /\ Head(send_queue[e]) \in Unacked
           /\ Fit(e, Head(send_queue[e]), sent[e])
<1>1. /\ PairTypes /\ Sender(e) /\ send_queue[e] \in Seq(Unacked)
      /\ send_queue \in [Ends -> Seq(Unacked)]
  BY Fields DEF PairInv, EndInv, PairTypes
<1>2. /\ send_queue[e] # << >>
      /\ send_queue' = [send_queue EXCEPT ![e] = Tail(send_queue[e])]
  BY DEF Taken
<1>3. /\ Tail(send_queue[e]) \in Seq(Unacked) /\ Len(send_queue[e]) \in Nat
      /\ Len(send_queue[e]) >= 1
      /\ Head(send_queue[e]) = send_queue[e][1] /\ Head(send_queue[e]) \in Unacked
  BY <1>1, <1>2, Ends_of_queues
<1>4. Fit(e, Head(send_queue[e]), sent[e])
  <2>1. 1 \in 1 .. Len(send_queue[e])
    BY <1>3
  <2> QED
    BY <1>1, <1>3, <2>1 DEF Sender, Waiting
<1>5. Found(e)
  BY <1>1, <1>2 DEF Sender, Fresh
<1> QED
  BY <1>1, <1>2, <1>3, <1>4, <1>5

\* tcp_send_internal without memory: only the queue gets shorter.
LEMMA SendFailsStep ==
    ASSUME PairInv, NEW e \in Ends, SendFails(e)
    PROVE  PairInv'
<1>1. PairTypes /\ Sender(e)
  BY DEF PairInv, EndInv
<1>2. /\ Taken(e)
      /\ UNCHANGED <<port, unacked, unacked_slots, blocked, net, sent, closes,
                     delivered, log, early, refused>>
  BY DEF SendFails, app, history
<1>3. /\ send_queue[e] # << >> /\ Found(e)
      /\ send_queue' \in [Ends -> Seq(Unacked)]
      /\ send_queue'[e] = Tail(send_queue[e])
      /\ \A d \in Ends : d # e => send_queue'[d] = send_queue[d]
  BY <1>2, TakenEffect
<1>4. /\ send_queue[e] \in Seq(Unacked) /\ log[e] \in Seq(Entry) /\ sent[e] \in Nat
      /\ unacked[e] \in SUBSET Unacked /\ unacked_slots[e] \in Nat
  BY <1>1, Fields
<1>5. Waiting(e, Tail(send_queue[e]), log[e], sent[e])
  BY <1>1, <1>3, <1>4, WaitingTail DEF Sender
<1>6. Room(unacked[e], unacked_slots[e], Tail(send_queue[e]))
  BY <1>1, <1>3, <1>4, RoomTail DEF Sender
<1>7. Sender(e)'
  <2>1. Found(e)'
    BY <1>2, <1>3 DEF Found
  <2> QED
    BY <1>1, <1>2, <1>3, <1>5, <1>6, <2>1 DEF Sender
<1>8. PairTypes'
  BY <1>1, <1>2, <1>3 DEF PairTypes
<1>9. Elsewhere(e)
  BY <1>2, <1>3 DEF Elsewhere
<1>10. Released(e)' = Released(e) /\ sent[e] <= sent'[e]
  BY <1>2, <1>4 DEF Released
<1> QED
  BY <1>2, <1>7, <1>8, <1>9, <1>10, SendingStep

\* tcp_send_internal for a plain ACK.
LEMMA SendAck ==
    ASSUME PairInv, NEW e \in Ends, Taken(e), Head(send_queue[e]).ctrl = ACK,
           Transmit(e, Head(send_queue[e])),
           UNCHANGED <<port, unacked, unacked_slots, blocked, sent, closes,
                       delivered, log, early, refused>>
    PROVE  PairInv'
<1>1. PairTypes /\ Sender(e)
  BY DEF PairInv, EndInv
<1>2. PICK x : x = Head(send_queue[e])
  OBVIOUS
<1>3. /\ send_queue[e] # << >> /\ Found(e)
      /\ send_queue' \in [Ends -> Seq(Unacked)]
      /\ send_queue'[e] = Tail(send_queue[e])
      /\ \A d \in Ends : d # e => send_queue'[d] = send_queue[d]
      /\ x \in Unacked /\ Fit(e, x, sent[e])
  BY <1>2, TakenEffect
<1>4. /\ send_queue[e] \in Seq(Unacked) /\ log[e] \in Seq(Entry) /\ sent[e] \in Nat
      /\ unacked[e] \in SUBSET Unacked /\ unacked_slots[e] \in Nat
  BY <1>1, Fields
<1>5. Waiting(e, Tail(send_queue[e]), log[e], sent[e])
  BY <1>1, <1>3, <1>4, WaitingTail DEF Sender
<1>6. Room(unacked[e], unacked_slots[e], Tail(send_queue[e]))
  BY <1>1, <1>3, <1>4, RoomTail DEF Sender
<1>7. Sender(e)'
  <2>1. Found(e)'
    BY <1>3 DEF Found
  <2> QED
    BY <1>1, <1>3, <1>5, <1>6, <2>1 DEF Sender
<1>8. /\ Datagram(e, x) \in Segment /\ Datagram(e, x).to = Other(e)
      /\ Datagram(e, x).ctrl = ACK /\ Datagram(e, x).data = 0
      /\ Datagram(e, x).ack_num = port[e].ack_num
  <2>1. x.ctrl = ACK /\ x.data = 0
    BY <1>2, <1>3, Distinct DEF Fit
  <2> QED
    BY <1>1, <1>3, <2>1, DatagramFields
<1>9. \A m \in net' : m \in net \/ m = Datagram(e, x)
  BY <1>2 DEF Transmit
<1>10. net' \subseteq Segment
  BY <1>1, <1>8, <1>9 DEF PairTypes
<1>11. \A m \in net' : \/ m \in net
                       \/ /\ m.to = Other(e) /\ Carries(m, log'[e])
                          /\ m.ack_num = port'[e].ack_num
  BY <1>8, <1>9 DEF Carries
<1>12. PairTypes'
  BY <1>1, <1>3, <1>10 DEF PairTypes
<1>13. Elsewhere(e)
  BY <1>3 DEF Elsewhere
<1>14. Released(e)' = Released(e) /\ sent[e] <= sent'[e]
  BY <1>4 DEF Released
<1> QED
  BY <1>7, <1>11, <1>12, <1>13, <1>14, SendingStep

\* tcp_send_internal gives a segment the next number and keeps it.
LEMMA SendNumbered ==
    ASSUME PairInv, NEW e \in Ends, Taken(e), Head(send_queue[e]).ctrl # ACK,
           NEW x \in Unacked, x.seq_num = port[e].seq_num,
           x.ctrl = Head(send_queue[e]).ctrl, x.data = Head(send_queue[e]).data,
           NEW y \in Entry, x.ctrl = y.ctrl, x.data = y.data,
           unacked' = [unacked EXCEPT ![e] = @ \cup {x}],
           port' = [port EXCEPT ![e].seq_num = @ + 1],
           log' = [log EXCEPT ![e] = Append(@, y)],
           Transmit(e, x),
           UNCHANGED <<unacked_slots, blocked, sent, closes, delivered, early, refused>>
    PROVE  PairInv'
<1>1. PairTypes /\ Sender(e)
  BY DEF PairInv, EndInv
<1>2. /\ send_queue[e] # << >> /\ Found(e)
      /\ send_queue' \in [Ends -> Seq(Unacked)]
      /\ send_queue'[e] = Tail(send_queue[e])
      /\ \A d \in Ends : d # e => send_queue'[d] = send_queue[d]
  BY TakenEffect
<1>3. /\ send_queue[e] \in Seq(Unacked) /\ log[e] \in Seq(Entry) /\ sent[e] \in Nat
      /\ unacked[e] \in SUBSET Unacked /\ unacked_slots[e] \in Nat
      /\ port[e].seq_num \in Nat /\ port[e].ack_num \in Nat /\ Len(log[e]) \in Nat
  BY <1>1, Fields
<1>4. /\ log' \in [Ends -> Seq(Entry)] /\ log'[e] = Append(log[e], y)
      /\ \A d \in Ends : d # e => log'[d] = log[d]
  <2>1. log \in [Ends -> Seq(Entry)] /\ Append(log[e], y) \in Seq(Entry)
    BY <1>1, <1>3 DEF PairTypes
  <2> QED
    BY <2>1
<1>5. /\ unacked' \in [Ends -> SUBSET Unacked] /\ unacked'[e] = unacked[e] \cup {x}
      /\ \A d \in Ends : d # e => unacked'[d] = unacked[d]
  BY <1>1, <1>3 DEF PairTypes
<1>6. /\ port' \in [Ends -> [state : States, seq_num : Nat, ack_num : Nat]]
      /\ port'[e].state = port[e].state /\ port'[e].seq_num = port[e].seq_num + 1
      /\ port'[e].ack_num = port[e].ack_num
      /\ \A d \in Ends : d # e => port'[d] = port[d]
  <2>0. PICK n \in Nat : n = port[e].seq_num + 1
    BY <1>3
  <2> DEFINE r == [port[e] EXCEPT !.seq_num = n]
  <2>1. /\ r \in [state : States, seq_num : Nat, ack_num : Nat]
        /\ r.seq_num = n /\ r.state = port[e].state
        /\ r.ack_num = port[e].ack_num
    BY <1>1, Fields
  <2>2. port' = [port EXCEPT ![e] = r]
    BY <2>0
  <2> HIDE DEF r
  <2> QED
    BY <1>1, <2>0, <2>1, <2>2, PortEffect
<1>7. /\ Written(e, log'[e], sent[e])
      /\ Waiting(e, Tail(send_queue[e]), log'[e], sent[e])
  BY <1>1, <1>2, <1>3, <1>4, WrittenAppend DEF Sender
<1>8. Room(unacked'[e], unacked_slots[e], Tail(send_queue[e]))
  BY <1>1, <1>2, <1>3, <1>5, RoomTail DEF Sender
<1>9. port[e].seq_num = Len(log[e]) /\ Len(log'[e]) = Len(log[e]) + 1
  BY <1>1, <1>3, <1>4, Ends_of_queues DEF Sender
<1>10. Copy(x, log'[e])
  BY <1>3, <1>4, <1>9, CopyAppend
<1>11. Kept(unacked'[e], log'[e])
  <2> SUFFICES ASSUME NEW u \in unacked'[e] PROVE u.ctrl # ACK /\ Copy(u, log'[e])
    BY DEF Kept
  <2>1. CASE u = x
    BY <1>10, <2>1
  <2>2. CASE u \in unacked[e]
    <3>1. u.ctrl # ACK /\ Copy(u, log[e]) /\ u \in Unacked
      BY <1>1, <1>3, <2>2 DEF Sender, Kept
    <3> QED
      BY <1>3, <1>4, <3>1, UnackedFields, CopyAppend
  <2> QED
    BY <1>5, <2>1, <2>2
<1>12. Sender(e)'
  <2>1. Found(e)'
    BY <1>2, <1>6 DEF Found
  <2>2. port'[e].seq_num = Len(log'[e])
    BY <1>6, <1>9
  <2>3. UNCHANGED <<sent, unacked_slots>> /\ send_queue'[e] = Tail(send_queue[e])
    BY <1>2
  <2> QED
    BY <1>7, <1>8, <1>11, <2>1, <2>2, <2>3 DEF Sender
<1>13. /\ Datagram(e, x) \in Segment /\ Datagram(e, x).to = Other(e)
       /\ Datagram(e, x).ctrl # ACK
       /\ Datagram(e, x).ack_num = port[e].ack_num /\ Copy(Datagram(e, x), log'[e])
  BY <1>1, <1>10, DatagramFields DEF Copy
<1>14. \A m \in net' : m \in net \/ m = Datagram(e, x)
  BY DEF Transmit
<1>15. net' \subseteq Segment
  BY <1>1, <1>13, <1>14 DEF PairTypes
<1>16. \A m \in net' : \/ m \in net
                       \/ /\ m.to = Other(e) /\ Carries(m, log'[e])
                          /\ m.ack_num = port'[e].ack_num
  BY <1>6, <1>13, <1>14 DEF Carries
<1>17. PairTypes'
  BY <1>1, <1>2, <1>4, <1>5, <1>6, <1>15 DEF PairTypes
<1>18. Elsewhere(e)
  BY <1>2, <1>4, <1>5, <1>6 DEF Elsewhere
<1>19. Released(e)' \subseteq Released(e)
  <2>1. ASSUME NEW s \in Released(e)' PROVE s \in Released(e)
    <3>1. /\ s \in 0 .. port'[e].seq_num - 1 /\ s \notin refused[e]
          /\ \A u \in unacked'[e] : u.seq_num # s
      BY <2>1 DEF Released
    <3>2. s # port[e].seq_num
      BY <1>5, <3>1
    <3> QED
      BY SMTT(20), <1>3, <1>5, <1>6, <3>1, <3>2 DEF Released
  <2> QED
    BY <2>1
<1>20. sent[e] <= sent'[e]
  BY <1>3
<1> QED
  BY <1>4, <1>6, <1>12, <1>16, <1>17, <1>18, <1>19, <1>20, SendingStep

\* tcp_send_internal.
LEMMA SendInternalStep ==
    ASSUME PairInv, NEW e \in Ends, SendInternal(e)
    PROVE  PairInv'
<1>1. PairTypes /\ Taken(e) /\ port[e].seq_num \in Nat
  BY Fields DEF PairInv, SendInternal
<1>2. PICK x : x = Head(send_queue[e])
  OBVIOUS
<1>3. x \in Unacked /\ Fit(e, x, sent[e])
  BY <1>1, <1>2, TakenEffect
<1>4. Increment(x.ctrl, x.data) = IF x.ctrl = ACK THEN 0 ELSE 1
  BY <1>3, UnackedFields, Increments DEF Fit
<1>5. UNCHANGED <<unacked_slots, blocked, sent, closes, delivered, early, refused>>
  BY DEF SendInternal, app
<1>6. CASE x.ctrl = ACK
  <2>1. Transmit(e, x) /\ UNCHANGED <<unacked, port, log>>
    BY <1>2, <1>4, <1>6 DEF SendInternal
  <2> QED
    BY <1>1, <1>2, <1>5, <1>6, <2>1, SendAck
<1>7. CASE x.ctrl # ACK
  <2>1. PICK z : z = [x EXCEPT !.seq_num = port[e].seq_num]
    OBVIOUS
  <2>2. /\ z \in Unacked /\ z.seq_num = port[e].seq_num
        /\ z.ctrl = x.ctrl /\ z.data = x.data
    BY <1>1, <1>3, <2>1 DEF Unacked
  <2>3. PICK y : y = [ctrl |-> x.ctrl, data |-> x.data]
    OBVIOUS
  <2>4. y \in Entry /\ y.ctrl = z.ctrl /\ y.data = z.data
    BY <1>3, <2>2, <2>3, UnackedFields DEF Entry
  <2>5. /\ unacked' = [unacked EXCEPT ![e] = @ \cup {z}]
        /\ port' = [port EXCEPT ![e].seq_num = @ + 1]
        /\ log' = [log EXCEPT ![e] = Append(@, y)]
        /\ Transmit(e, z)
    BY <1>2, <1>4, <1>7, <2>1, <2>3 DEF SendInternal
  <2> QED
    BY <1>1, <1>2, <1>5, <1>7, <2>2, <2>4, <2>5, SendNumbered
<1> QED
  BY <1>6, <1>7

\* The timeout scan sends kept segments again, as they were; those it fails to
\* send give their slots back.
LEMMA RetransmitStep ==
    ASSUME PairInv, NEW e \in Ends, NEW overdue \in SUBSET unacked[e],
           NEW failed \in SUBSET overdue, Retransmit(e, overdue, failed)
    PROVE  PairInv'
<1>1. PairTypes /\ Sender(e)
  BY DEF PairInv, EndInv
<1>2. /\ overdue # {}
      /\ net' = net \cup {Datagram(e, u) : u \in overdue \ failed}
      /\ unacked' = [unacked EXCEPT ![e] = @ \ failed]
      /\ unacked_slots' = [unacked_slots EXCEPT ![e] = @ + Cardinality(failed)]
      /\ refused' = [refused EXCEPT ![e] = @ \cup {u.seq_num : u \in failed}]
      /\ UNCHANGED <<port, send_queue, blocked, sent, closes, delivered, log, early>>
  BY DEF Retransmit, Resent, app
<1>3. /\ send_queue[e] \in Seq(Unacked) /\ log[e] \in Seq(Entry) /\ sent[e] \in Nat
      /\ unacked[e] \in SUBSET Unacked /\ unacked_slots[e] \in Nat
      /\ failed \in SUBSET unacked[e] /\ refused[e] \in SUBSET Nat
  BY <1>1, Fields
<1>4. /\ Cardinality(failed) \in Nat
      /\ Room(unacked[e] \ failed, unacked_slots[e] + Cardinality(failed), send_queue[e])
  BY <1>1, <1>3, RoomRelease DEF Sender
<1>5. /\ unacked' \in [Ends -> SUBSET Unacked] /\ unacked'[e] = unacked[e] \ failed
      /\ \A d \in Ends : d # e => unacked'[d] = unacked[d]
  BY <1>1, <1>2, <1>3 DEF PairTypes
<1>6. /\ unacked_slots' \in [Ends -> Nat]
      /\ unacked_slots'[e] = unacked_slots[e] + Cardinality(failed)
      /\ \A d \in Ends : d # e => unacked_slots'[d] = unacked_slots[d]
  <2>1. unacked_slots \in [Ends -> Nat]
        /\ unacked_slots[e] + Cardinality(failed) \in Nat
    BY <1>1, <1>3, <1>4 DEF PairTypes
  <2> QED
    BY <1>2, <2>1
<1>7. /\ refused' \in [Ends -> SUBSET Nat]
      /\ refused'[e] = refused[e] \cup {u.seq_num : u \in failed}
      /\ \A d \in Ends : d # e => refused'[d] = refused[d]
  <2>1. {u.seq_num : u \in failed} \in SUBSET Nat
    BY <1>3, UnackedFields
  <2>2. PICK F \in SUBSET Nat : F = {u.seq_num : u \in failed}
    BY <2>1
  <2>3. refused \in [Ends -> SUBSET Nat] /\ refused' = [refused EXCEPT ![e] = @ \cup F]
    BY <1>1, <1>2, <2>2 DEF PairTypes
  <2>4. /\ refused' \in [Ends -> SUBSET Nat] /\ refused'[e] = refused[e] \cup F
        /\ \A d \in Ends : d # e => refused'[d] = refused[d]
    BY <2>3
  <2> QED
    BY <2>2, <2>4
<1>8. Sender(e)'
  <2>1. Found(e)'
    BY <1>1, <1>2 DEF Sender, Fresh, Found
  <2>2. Kept(unacked'[e], log[e])
    BY <1>1, <1>5 DEF Sender, Kept
  <2>3. Room(unacked'[e], unacked_slots'[e], send_queue[e])
    BY <1>4, <1>5, <1>6
  <2> QED
    BY <1>1, <1>2, <2>1, <2>2, <2>3 DEF Sender
<1>9. ASSUME NEW u \in overdue \ failed
      PROVE  /\ Datagram(e, u) \in Segment /\ Datagram(e, u).to = Other(e)
             /\ Carries(Datagram(e, u), log[e])
             /\ Datagram(e, u).ack_num = port[e].ack_num
  <2>1. u \in Unacked /\ u.ctrl # ACK /\ Copy(u, log[e])
    BY <1>1, <1>3 DEF Sender, Kept
  <2> QED
    BY <1>1, <2>1, DatagramFields DEF Carries, Copy
<1>10. net' \subseteq Segment
  BY <1>1, <1>2, <1>9 DEF PairTypes
<1>11. \A m \in net' : \/ m \in net
                       \/ /\ m.to = Other(e) /\ Carries(m, log'[e])
                          /\ m.ack_num = port'[e].ack_num
  BY <1>2, <1>9
<1>12. PairTypes'
  BY <1>1, <1>2, <1>5, <1>6, <1>7, <1>10 DEF PairTypes
<1>13. Elsewhere(e)
  BY <1>2, <1>5, <1>6, <1>7 DEF Elsewhere
<1>14. Released(e)' \subseteq Released(e)
  BY <1>2, <1>5, <1>7 DEF Released
<1>15. sent[e] <= sent'[e]
  BY <1>2, <1>3
<1> QED
  BY <1>2, <1>8, <1>11, <1>12, <1>13, <1>14, <1>15, SendingStep

\* A SYN is the first segment of the end it comes from.
LEMMA FirstSegment ==
    ASSUME PairInv, NEW m \in net, NEW e \in Ends, e = m.to, Opens(m)
    PROVE  /\ m.seq_num = 0 /\ Len(log[Other(e)]) >= 1 /\ Opens(log[Other(e)][1])
           /\ m.ctrl = log[Other(e)][1].ctrl
           /\ m.ctrl = SYN => e = "server"
<1>1. /\ Flight(m) /\ m \in Segment /\ PairTypes /\ Other(e) \in Ends
      /\ Other(Other(e)) = e /\ Other(e) # e
      /\ Sender(Other(e)) /\ m.seq_num \in Nat /\ Len(log[Other(e)]) \in Nat
  <2>1. Other(e) \in Ends /\ Other(Other(e)) = e /\ Other(e) # e
    BY TwoEnds
  <2>2. PairTypes /\ m \in Segment /\ Flight(m) /\ Sender(Other(e))
    BY <2>1 DEF PairInv, PairTypes, EndInv
  <2> QED
    BY <2>1, <2>2, Fields, SegmentFields
<1>2. Copy(m, log[Other(e)])
  BY <1>1, Distinct DEF Flight, Carries, Opens
<1>3. /\ m.seq_num + 1 \in 1 .. Len(log[Other(e)])
      /\ m.ctrl = log[Other(e)][m.seq_num + 1].ctrl
  BY <1>1, <1>2 DEF Copy
<1>4. m.seq_num + 1 = 1
  BY <1>1, <1>3 DEF Sender, Written, Opens
<1>5. m.seq_num = 0
  BY <1>1, <1>4
<1>6. m.ctrl = SYN => Other(e) = "client"
  BY <1>1, <1>3 DEF Sender, Written, Fit
<1> QED
  BY <1>1, <1>3, <1>5, <1>6, TwoEnds DEF Opens

\* A SYN finds the listening port.
LEMMA InputListenStep ==
    ASSUME PairInv, NEW m \in net, InputListen(m)
    PROVE  PairInv'
<1> DEFINE e == "server"
<1>1. PairTypes /\ EndInv(e) /\ e \in Ends /\ Other(e) = "client" /\ "client" \in Ends
  BY TwoEnds DEF PairInv
<1>2. /\ m.to = e /\ port[e].state = "LISTEN" /\ "SYN" \in m.ctrl
      /\ port' = [port EXCEPT ![e].state = "SYN_RECEIVED", ![e].ack_num = m.seq_num + 1]
      /\ TaskEnqueues(e, SYNACK)
      /\ UNCHANGED <<unacked, net, sent, closes, delivered, log, early, refused>>
  BY DEF InputListen, app, history
<1>3. /\ port[e].seq_num \in Nat /\ port[e].ack_num \in Nat /\ sent[e] \in Nat
  BY <1>1, Fields
<1> HIDE DEF e
<1>4. Opens(m)
  <2>1. m.ctrl \in {SYN, ACK, FIN, SYNACK, PSHACK}
    BY <1>1, SegmentFields DEF PairTypes, Controls
  <2> QED
    BY <1>2, <2>1, Controlled DEF Opens
<1>5. /\ m.seq_num = 0 /\ Len(log[Other(e)]) >= 1 /\ Opens(log[Other(e)][1])
  BY <1>1, <1>2, <1>4, FirstSegment
<1>6. /\ port' \in [Ends -> [state : States, seq_num : Nat, ack_num : Nat]]
      /\ port'[e].state = "SYN_RECEIVED" /\ port'[e].seq_num = port[e].seq_num
      /\ port'[e].ack_num = 1
      /\ \A d \in Ends : d # e => port'[d] = port[d]
  <2> DEFINE r == [port[e] EXCEPT !.state = "SYN_RECEIVED", !.ack_num = 1]
  <2>1. /\ r \in [state : States, seq_num : Nat, ack_num : Nat]
        /\ r.state = "SYN_RECEIVED" /\ r.seq_num = port[e].seq_num /\ r.ack_num = 1
    BY <1>1, Fields DEF States
  <2>2. port' = [port EXCEPT ![e] = r]
    <3>1. port' = [port EXCEPT ![e].state = "SYN_RECEIVED", ![e].ack_num = 1]
      BY <1>2, <1>5
    <3>2. port \in [Ends -> [state : States, seq_num : Nat, ack_num : Nat]]
      BY <1>1 DEF PairTypes
    <3> QED
      BY <1>1, <3>1, <3>2
  <2> HIDE DEF r
  <2> QED
    BY <1>1, <2>1, <2>2, PortEffect
<1>7. Fresh(e) /\ Found(e)'
  BY <1>1, <1>2, <1>6 DEF EndInv, Sender, Found
<1>8. /\ Sender(e)'
      /\ send_queue' \in [Ends -> Seq(Unacked)] /\ unacked_slots' \in [Ends -> Nat]
      /\ blocked' \subseteq Ends /\ blocked \subseteq blocked'
      /\ \A d \in Ends : d # e => /\ send_queue'[d] = send_queue[d]
                                  /\ unacked_slots'[d] = unacked_slots[d]
                                  /\ d \in blocked' <=> d \in blocked
  BY <1>1, <1>2, <1>6, <1>7, TaskEffect, Distinct DEF e
<1>9. PairTypes'
  BY <1>1, <1>2, <1>6, <1>8 DEF PairTypes
<1>10. Elsewhere(e)
  BY <1>2, <1>6, <1>8 DEF Elsewhere
<1>11. Grows(e)
  BY <1>2, <1>3, <1>6, <1>7 DEF Grows, Fresh
<1>12. Roles(e)'
  BY <1>6 DEF Roles, e
<1>13. Receiver(e)'
  <2>1. delivered[e] = << >> /\ Len(<< >>) = 0
    BY <1>1, <1>2 DEF EndInv, Receiver
  <2>2. /\ port'[Other(e)] = port[Other(e)] /\ log'[Other(e)] = log[Other(e)]
        /\ port[Other(e)].seq_num = Len(log[Other(e)])
    BY <1>1, <1>2, <1>6 DEF PairInv, EndInv, Sender, e
  <2>3. 1 <= port'[Other(e)].seq_num
    BY <1>5, <2>2
  <2>4. Run(e, 1, << >>, log[Other(e)], early[e])
    BY <1>5, <2>1 DEF Run, e
  <2>5. /\ delivered'[e] = << >> /\ early'[e] = early[e] /\ port'[e].ack_num = 1
        /\ \A i \in 1 .. Len(delivered'[e]) : FALSE
    BY <1>2, <1>6, <2>1
  <2>6. Run(e, port'[e].ack_num, delivered'[e], log'[Other(e)], early'[e])
    BY <2>2, <2>4, <2>5
  <2> QED
    BY <1>6, <2>3, <2>5, <2>6 DEF Receiver
<1>14. InOrder(e, delivered'[e], log[Other(e)], sent[Other(e)], early'[e])
  BY <1>1, <1>2 DEF EndInv
<1>15. /\ \A s \in Released(e)' : s \in Released(e) \/ s <= port[Other(e)].ack_num
       /\ \A c \in net' : c \in net
  BY <1>2, <1>6 DEF Released
<1> QED
  BY <1>1, <1>8, <1>9, <1>10, <1>11, <1>12, <1>13, <1>14, <1>15, StepAt

-----------------------------------------------------------------------------
(* Received segments.                                                      *)

\* What a segment that is taken can be, and what is acknowledged for it.
LEMMA Accepted ==
    ASSUME PairInv, NEW m \in net, NEW e \in Ends, e = m.to, Accepts(e, m)
    PROVE  /\ m \in Segment /\ m.seq_num \in Nat /\ m.ack_num \in Nat /\ m.data \in Nat
           /\ Found(e) /\ e \notin blocked
           /\ port[e].state # "SYN_SENT" => m.seq_num = port[e].ack_num
           /\ m.ctrl \in {ACK, SYN, SYNACK, PSHACK}
           /\ m.data # 0 <=> m.ctrl = PSHACK
           /\ Increment(m.ctrl, m.data) = IF m.ctrl = ACK THEN 0 ELSE 1
           /\ m.ctrl # ACK => Copy(m, log[Other(e)])
           /\ NextAck(e, m) = IF m.ctrl = ACK THEN port[e].ack_num ELSE m.seq_num + 1
           /\ NextAck(e, m) \in Nat /\ NextAck(e, m) <= port[Other(e)].seq_num
           /\ Steady(Other(e)) => m.ack_num <= port[Other(e)].ack_num
<1>1. /\ PairTypes /\ Other(e) \in Ends /\ Flight(m) /\ m \in Segment
      /\ Sender(Other(e)) /\ Receiver(e)
  BY TwoEnds DEF PairInv, EndInv, PairTypes
<1>2. /\ m.seq_num \in Nat /\ m.ack_num \in Nat /\ m.data \in Nat /\ m.ctrl \in Controls
      /\ port[e].ack_num \in Nat /\ port[Other(e)].seq_num \in Nat
      /\ Len(log[Other(e)]) \in Nat
      /\ log[Other(e)] \in Seq(Entry)
  BY <1>1, SegmentFields, Fields
<1>3. /\ m.ctrl # ACK => Copy(m, log[Other(e)])
      /\ m.ctrl = ACK => m.data = 0
      /\ Steady(Other(e)) => m.ack_num <= port[Other(e)].ack_num
  BY <1>1 DEF Flight, Carries
<1>4. m.data # 0 <=> m.ctrl = PSHACK
  <2>1. CASE m.ctrl = ACK
    BY <1>3, <2>1, Distinct
  <2>2. CASE m.ctrl # ACK
    <3>1. /\ m.seq_num + 1 \in 1 .. Len(log[Other(e)])
          /\ m.ctrl = log[Other(e)][m.seq_num + 1].ctrl
          /\ m.data = log[Other(e)][m.seq_num + 1].data
      BY <1>2, <1>3, <2>2 DEF Copy
    <3> QED
      BY <1>1, <3>1 DEF Sender, Written, Fit
  <2> QED
    BY <2>1, <2>2
<1>5. Increment(m.ctrl, m.data) = IF m.ctrl = ACK THEN 0 ELSE 1
  BY <1>2, <1>4, Increments
<1>6. m.ctrl \in {ACK, SYN, SYNACK, PSHACK}
  BY <1>2, Controlled DEF Accepts, Controls
<1>7. NextAck(e, m) = IF m.ctrl = ACK THEN port[e].ack_num ELSE m.seq_num + 1
  BY <1>5 DEF NextAck
<1>8. NextAck(e, m) \in Nat /\ NextAck(e, m) <= port[Other(e)].seq_num
  <2>1. CASE m.ctrl = ACK
    BY <1>1, <1>2, <1>7, <2>1 DEF Receiver
  <2>2. CASE m.ctrl # ACK
    <3>1. m.seq_num < Len(log[Other(e)]) /\ port[Other(e)].seq_num = Len(log[Other(e)])
      BY <1>1, <1>3, <2>2 DEF Copy, Sender
    <3> QED
      BY <1>2, <1>7, <2>2, <3>1
  <2> QED
    BY <2>1, <2>2
<1>9. /\ Found(e) /\ e \notin blocked
      /\ port[e].state # "SYN_SENT" => m.seq_num = port[e].ack_num
  BY DEF Accepts
<1> QED
  BY <1>1, <1>2, <1>3, <1>4, <1>5, <1>6, <1>7, <1>8, <1>9

\* What a segment that is taken does to its end, wherever tcp_task stops.
LEMMA InputEffect ==
    ASSUME PairInv, NEW m \in net, NEW e \in Ends, e = m.to, Accepts(e, m), Release(e, m),
           PairTypes', port'[e].seq_num = port[e].seq_num, Found(e)',
           port'[e].ack_num = NextAck(e, m), early'[e] = NextEarly(e, m),
           \/ send_queue'[e] = send_queue[e]
           \/ send_queue'[e] = Append(send_queue[e], Item(ACK, 0, port[e].seq_num)),
           UNCHANGED <<sent, log, refused>>
    PROVE  /\ Sender(e)' /\ Grows(e)
           /\ Steady(Other(e)) => \A s \in Released(e)' :
                 s \in Released(e) \/ s <= port[Other(e)].ack_num
<1>1. /\ PairTypes /\ Roles(e) /\ Sender(e) /\ Receiver(e)
  BY DEF PairInv, EndInv
<1>2. /\ send_queue[e] \in Seq(Unacked) /\ log[e] \in Seq(Entry) /\ sent[e] \in Nat
      /\ unacked[e] \in SUBSET Unacked /\ unacked_slots[e] \in Nat
      /\ port[e].seq_num \in Nat /\ port[e].ack_num \in Nat
      /\ unacked \in [Ends -> SUBSET Unacked] /\ unacked_slots \in [Ends -> Nat]
  BY <1>1, Fields DEF PairTypes
<1>3. PICK R \in SUBSET unacked[e] : R = Acked(e, m)
  BY DEF Acked
<1>4. /\ unacked'[e] = unacked[e] \ R
      /\ unacked_slots'[e] = unacked_slots[e] + Cardinality(R)
  BY <1>2, <1>3 DEF Release
<1>5. Room(unacked'[e], unacked_slots'[e], send_queue[e]) /\ unacked_slots'[e] \in Nat
  <2>1. Room(unacked[e], unacked_slots[e], send_queue[e])
    BY <1>1 DEF Sender
  <2>2. /\ Cardinality(R) \in Nat
        /\ Room(unacked[e] \ R, unacked_slots[e] + Cardinality(R), send_queue[e])
    BY <1>2, <2>1, RoomRelease
  <2> QED
    BY <1>2, <1>4, <2>2
<1>6. /\ Room(unacked'[e], unacked_slots'[e], send_queue'[e])
      /\ Waiting(e, send_queue'[e], log[e], sent[e])
  <2>1. PICK x : x = Item(ACK, 0, port[e].seq_num)
    OBVIOUS
  <2>2. x \in Unacked /\ x.ctrl = ACK /\ x.data = 0
    <3>1. PICK c \in Controls, z \in Nat, n \in Nat :
             c = ACK /\ z = 0 /\ n = port[e].seq_num
      BY <1>2 DEF Controls
    <3> QED
      BY <2>1, <3>1, ItemType
  <2>3. Fit(e, x, sent[e]) /\ ~ Opens(x) /\ sent[e] <= sent[e]
    BY <1>2, <2>2, Distinct DEF Fit, Opens
  <2>4. Waiting(e, Append(send_queue[e], x), log[e], sent[e])
    BY <1>1, <1>2, <2>2, <2>3, WaitingAppend DEF Sender
  <2>5. unacked'[e] \in SUBSET Unacked
    BY <1>2, <1>4
  <2>6. Room(unacked'[e], unacked_slots'[e], Append(send_queue[e], x))
    BY <1>2, <1>5, <2>2, <2>5, RoomAppend
  <2> QED
    BY <1>1, <1>5, <2>1, <2>4, <2>6 DEF Sender
<1>7. Kept(unacked'[e], log[e])
  BY <1>1, <1>4 DEF Sender, Kept
<1>8. Sender(e)'
  BY <1>1, <1>6, <1>7 DEF Sender
<1>9. Steady(e)' => port[e].ack_num <= port'[e].ack_num
  <2> SUFFICES ASSUME Steady(e)' PROVE port[e].ack_num <= port'[e].ack_num
    OBVIOUS
  <2>1. /\ port'[e].ack_num \in Nat /\ m.seq_num \in Nat /\ e \notin blocked
        /\ port[e].state # "SYN_SENT" => m.seq_num = port[e].ack_num
        /\ port'[e].ack_num = IF m.ctrl = ACK THEN port[e].ack_num ELSE m.seq_num + 1
    BY Accepted
  <2>2. CASE port[e].state # "SYN_SENT"
    BY <1>2, <2>1, <2>2
  <2>3. CASE port[e].state = "SYN_SENT"
    <3>1. e = "client"
      BY <1>1, <2>3, TwoEnds DEF Roles
    <3>2. early'[e] = {}
      BY <3>1 DEF Steady
    <3>3. early[e] = {}
      BY <3>2 DEF NextEarly
    <3>4. port[e].ack_num = 0
      BY <1>1, <2>1, <2>3, <3>3 DEF Receiver
    <3> QED
      BY <2>1, <3>4
  <2> QED
    BY <2>2, <2>3
<1>10. Grows(e)
  <2>1. early[e] \subseteq early'[e]
    BY DEF NextEarly
  <2> QED
    BY <1>2, <1>9, <2>1 DEF Grows
<1>11. ASSUME Steady(Other(e)), NEW s \in Released(e)'
       PROVE  s \in Released(e) \/ s <= port[Other(e)].ack_num
  <2>1. /\ s \in 0 .. port[e].seq_num - 1 /\ s \notin refused[e]
        /\ \A u \in unacked'[e] : u.seq_num # s
    BY <1>11 DEF Released
  <2>2. CASE \A u \in unacked[e] : u.seq_num # s
    BY <2>1, <2>2 DEF Released
  <2>3. CASE \E u \in unacked[e] : u.seq_num = s
    <3>1. PICK u \in unacked[e] : u.seq_num = s
      BY <2>3
    <3>2. u \in Acked(e, m)
      BY <1>3, <1>4, <2>1, <3>1
    <3>3. u.seq_num <= m.ack_num
      BY <3>2 DEF Acked
    <3>4. m.ack_num <= port[Other(e)].ack_num /\ m.ack_num \in Nat
      BY <1>11, Accepted
    <3>5. port[Other(e)].ack_num \in Nat /\ s \in Nat
      BY <1>1, <2>1, <1>2, Fields, TwoEnds
    <3> QED
      BY <3>1, <3>3, <3>4, <3>5
  <2> QED
    BY <2>2, <2>3
<1> QED
  BY <1>8, <1>10, <1>11

\* A segment that is taken changes its own end only.
LEMMA InputTypes ==
    ASSUME PairInv, NEW m \in net, NEW e \in Ends, e = m.to, Accepts(e, m), Release(e, m),
           early' = [early EXCEPT ![e] = NextEarly(e, m)]
    PROVE  /\ unacked' \in [Ends -> SUBSET Unacked] /\ unacked_slots' \in [Ends -> Nat]
           /\ early' \in [Ends -> SUBSET Nat] /\ early'[e] = NextEarly(e, m)
           /\ \A d \in Ends : d # e => /\ unacked'[d] = unacked[d] /\ early'[d] = early[d]
                                       /\ unacked_slots'[d] = unacked_slots[d]
<1>1. /\ PairTypes /\ Sender(e) /\ m.data \in Nat
  BY Accepted DEF PairInv, EndInv
<1>2. /\ unacked[e] \in SUBSET Unacked /\ unacked_slots[e] \in Nat /\ early[e] \in SUBSET Nat
      /\ unacked \in [Ends -> SUBSET Unacked] /\ unacked_slots \in [Ends -> Nat]
      /\ early \in [Ends -> SUBSET Nat] /\ send_queue[e] \in Seq(Unacked)
  BY <1>1, Fields DEF PairTypes
<1>3. PICK R \in SUBSET unacked[e] : R = Acked(e, m)
  BY DEF Acked
<1>4. Cardinality(R) \in Nat
  BY <1>1, <1>2, RoomRelease DEF Sender
<1>5. PICK n \in Nat : n = unacked_slots[e] + Cardinality(R)
  BY <1>2, <1>4
<1>6. /\ unacked' = [unacked EXCEPT ![e] = unacked[e] \ R]
      /\ unacked_slots' = [unacked_slots EXCEPT ![e] = n]
  BY <1>3, <1>5 DEF Release
<1>7. NextEarly(e, m) \in SUBSET Nat
  BY <1>1, <1>2 DEF NextEarly
<1>8. /\ unacked' \in [Ends -> SUBSET Unacked]
      /\ \A d \in Ends : d # e => unacked'[d] = unacked[d]
  BY <1>2, <1>6
<1>9. /\ unacked_slots' \in [Ends -> Nat]
      /\ \A d \in Ends : d # e => unacked_slots'[d] = unacked_slots[d]
  BY <1>2, <1>6
<1>10. /\ early' \in [Ends -> SUBSET Nat] /\ early'[e] = NextEarly(e, m)
       /\ \A d \in Ends : d # e => early'[d] = early[d]
  BY <1>2, <1>7
<1> QED
  BY <1>8, <1>9, <1>10

\* More data that came too early does not matter to the order.
LEMMA InOrderEarly ==
    ASSUME NEW e, NEW d, NEW L, NEW n, NEW E, NEW F, E \subseteq F, InOrder(e, d, L, n, E)
    PROVE  InOrder(e, d, L, n, F)
BY DEF InOrder

\* tcp_task stops at the ACK it cannot queue.
LEMMA InputBlocksStep ==
    ASSUME PairInv, NEW m \in net, InputBlocks(m)
    PROVE  PairInv'
<1>1. PICK e \in Ends : e = m.to
  BY SegmentFields DEF PairInv, PairTypes
<1>2. /\ Accepts(e, m) /\ Release(e, m)
      /\ port' = [port EXCEPT ![e].ack_num = NextAck(e, m)]
      /\ early' = [early EXCEPT ![e] = NextEarly(e, m)]
      /\ blocked' = blocked \cup {e}
      /\ UNCHANGED <<send_queue, net, sent, closes, delivered, log, refused>>
  BY <1>1 DEF InputBlocks, app
<1>3. PairTypes /\ EndInv(e) /\ Other(e) \in Ends /\ Other(e) # e
  BY TwoEnds DEF PairInv
<1>4. NextAck(e, m) \in Nat /\ NextAck(e, m) <= port[Other(e)].seq_num /\ Found(e)
  BY <1>1, <1>2, Accepted
<1>5. /\ port' \in [Ends -> [state : States, seq_num : Nat, ack_num : Nat]]
      /\ port'[e].state = port[e].state /\ port'[e].seq_num = port[e].seq_num
      /\ port'[e].ack_num = NextAck(e, m)
      /\ \A d \in Ends : d # e => port'[d] = port[d]
  <2> DEFINE r == [port[e] EXCEPT !.ack_num = NextAck(e, m)]
  <2>1. /\ r \in [state : States, seq_num : Nat, ack_num : Nat]
        /\ r.state = port[e].state /\ r.seq_num = port[e].seq_num
        /\ r.ack_num = NextAck(e, m)
    BY <1>3, <1>4, Fields
  <2>2. port' = [port EXCEPT ![e] = r]
    BY <1>2
  <2> HIDE DEF r
  <2> QED
    BY <1>3, <2>1, <2>2, PortEffect
<1>6. /\ unacked' \in [Ends -> SUBSET Unacked] /\ unacked_slots' \in [Ends -> Nat]
      /\ early' \in [Ends -> SUBSET Nat] /\ early'[e] = NextEarly(e, m)
      /\ \A d \in Ends : d # e => /\ unacked'[d] = unacked[d] /\ early'[d] = early[d]
                                  /\ unacked_slots'[d] = unacked_slots[d]
  BY <1>1, <1>2, InputTypes
<1>7. PairTypes'
  BY <1>2, <1>3, <1>5, <1>6 DEF PairTypes
<1>8. Elsewhere(e)
  BY <1>2, <1>5, <1>6 DEF Elsewhere
<1>9. Found(e)'
  BY <1>4, <1>5 DEF Found
<1>10. /\ Sender(e)' /\ Grows(e)
       /\ Steady(Other(e)) => \A s \in Released(e)' :
             s \in Released(e) \/ s <= port[Other(e)].ack_num
  BY <1>1, <1>2, <1>5, <1>6, <1>7, <1>9, InputEffect
<1>11. Roles(e)'
  BY <1>3, <1>5 DEF EndInv, Roles
<1>12. Receiver(e)'
  <2>1. Receiver(e) /\ e \in blocked'
    BY <1>2, <1>3 DEF EndInv
  <2>2. port'[Other(e)] = port[Other(e)]
    BY <1>3, <1>5
  <2> QED
    BY <1>2, <1>4, <1>5, <2>1, <2>2 DEF Receiver, Numbered
<1>13. InOrder(e, delivered'[e], log[Other(e)], sent[Other(e)], early'[e])
  <2>1. early[e] \subseteq early'[e] /\ delivered' = delivered
    BY <1>2, <1>6 DEF NextEarly
  <2> QED
    BY <1>3, <2>1, InOrderEarly DEF EndInv
<1>14. \A c \in net' : c \in net
  BY <1>2
<1> QED
  BY <1>7, <1>8, <1>10, <1>11, <1>12, <1>13, <1>14, StepAt

\* What a sequence of numbers holds is a number.
LEMMA NumberAt ==
    ASSUME NEW d \in Seq(Nat), NEW i \in 1 .. Len(d)
    PROVE  d[i] \in Nat
OBVIOUS

\* The next payload in sequence is delivered: the run goes on.
LEMMA RunDeliver ==
    ASSUME NEW e \in Ends, NEW ack \in Nat, NEW d \in Seq(Nat), NEW L \in Seq(Entry), NEW E,
           NEW n \in Nat, NEW v \in Nat, Run(e, ack, d, L, E), InOrder(e, d, L, n, E),
           Ascending(L), L[1].data = 0, ack < Len(L), v = L[ack + 1].data, v # 0, v <= n
    PROVE  /\ Run(e, ack + 1, Append(d, v), L, E)
           /\ InOrder(e, Append(d, v), L, n, E)
           /\ \A i \in 1 .. Len(d) : d[i] < v
           /\ ~ (e = "server" /\ d = << >>) => \A k \in 1 .. Len(L) :
                 L[k].data # 0 /\ L[k].data < v => d # << >> /\ L[k].data <= d[Len(d)]
<1> DEFINE c == Append(d, v)
<1>1. /\ Len(d) \in Nat /\ Len(c) = Len(d) + 1 /\ c[Len(d) + 1] = v
      /\ \A i \in 1 .. Len(d) : c[i] = d[i]
      /\ Len(L) \in Nat
  BY Ends_of_queues
<1> HIDE DEF c
<1>0. Len(d) \in Nat /\ Len(c) = Len(d) + 1 /\ Len(L) \in Nat
  BY <1>1
<1>2. PICK b \in Nat : b = ack - Len(d) /\ b >= 1
  <2>1. Len(d) < ack
    BY DEF Run
  <2> QED
    BY SMTT(20), <1>0, <2>1
<1>3. ack = b + Len(d) /\ b + (Len(d) + 1) = ack + 1 /\ (ack + 1) - Len(c) = b
  BY <1>0, <1>2
<1>4. \A i \in 1 .. Len(d) : d[i] = L[b + i].data /\ d[i] # 0
  BY <1>2 DEF Run
<1>5. \A i \in 1 .. Len(c) : /\ i \in 1 .. Len(d) \/ i = Len(d) + 1
                             /\ b + i \in 1 .. Len(L)
  <2>1. PICK p \in Nat, q \in Nat, r \in Nat : p = Len(d) /\ q = Len(L) /\ r = Len(c)
    BY <1>0
  <2>2. r = p + 1 /\ ack = b + p /\ ack < q
    BY <1>0, <1>3, <2>1
  <2>3. \A i \in 1 .. r : (i \in 1 .. p \/ i = p + 1) /\ b + i \in 1 .. q
    BY <2>2
  <2> QED
    BY <2>1, <2>3
<1>6. \A i \in 1 .. Len(c) : c[i] = L[b + i].data /\ c[i] # 0
  BY <1>1, <1>3, <1>4, <1>5
<1>7. /\ e = "client" => b = 1
      /\ e = "server" => \A j \in 2 .. b : L[j].data \in E
      /\ Opens(L[1])
  BY <1>1, <1>2 DEF Run
<1>8. Run(e, ack + 1, c, L, E)
  <2>1. ack + 1 >= 1 /\ Len(c) < ack + 1 /\ (b = 1 => ack + 1 = Len(c) + 1)
    BY <1>0, <1>2, <1>3
  <2> QED
    BY <1>3, <1>6, <1>7, <2>1 DEF Run
<1>9. \A i, j \in 1 .. Len(c) : i < j => c[i] < c[j]
  <2> SUFFICES ASSUME NEW i \in 1 .. Len(c), NEW j \in 1 .. Len(c), i < j
               PROVE  c[i] < c[j]
    OBVIOUS
  <2>1. /\ b + i \in 1 .. Len(L) /\ b + j \in 1 .. Len(L) /\ b + i < b + j
        /\ c[i] = L[b + i].data /\ c[i] # 0 /\ c[j] = L[b + j].data /\ c[j] # 0
    BY <1>1, <1>2, <1>5, <1>6
  <2> QED
    BY <2>1 DEF Ascending
<1>10. ASSUME NEW k \in 1 .. Len(L), L[k].data # 0, L[k].data < v
       PROVE  \/ \E j \in 1 .. Len(d) : d[j] = L[k].data
              \/ e = "server" /\ L[k].data < c[1] /\ L[k].data \in E /\ k <= b
  <2>1. k <= ack
    <3>1. ack + 1 \in 1 .. Len(L) /\ L[k].data \in Nat /\ L[ack + 1].data # 0
      BY <1>1, EntryFields
    <3>2. CASE k > ack + 1
      <4>1. L[ack + 1].data < L[k].data
        BY <1>10, <3>1, <3>2 DEF Ascending
      <4> QED
        BY <1>10, <3>1, <4>1
    <3>3. CASE k = ack + 1
      BY <1>10, <3>1, <3>3
    <3> QED
      BY <1>1, <3>2, <3>3
  <2>2. CASE k > b
    <3>1. k - b \in 1 .. Len(d) /\ b + (k - b) = k
      BY <1>1, <1>2, <1>3, <2>1, <2>2
    <3>2. d[k - b] = L[k].data
      BY <1>4, <3>1
    <3> QED
      BY <3>1, <3>2
  <2>3. CASE k <= b
    <3>1. k # 1
      BY <1>10
    <3>2. k \in 2 .. b /\ b # 1
      BY <1>2, <2>3, <3>1
    <3>3. e = "server" /\ L[k].data \in E
      BY <1>7, <3>2, TwoEnds
    <3>4. 1 \in 1 .. Len(c) /\ k < b + 1
      BY <1>1, <1>2, <2>3
    <3>5. L[k].data < c[1]
      BY <1>5, <1>6, <1>10, <3>4 DEF Ascending
    <3> QED
      BY <2>3, <3>3, <3>5
  <2> QED
    BY <1>2, <2>2, <2>3
<1>11. InOrder(e, c, L, n, E)
  <2> SUFFICES ASSUME NEW i \in 1 .. Len(c)
               PROVE  /\ c[i] <= n
                      /\ i > 1 => c[i - 1] < c[i]
                      /\ \A k \in 1 .. Len(L) : L[k].data # 0 /\ L[k].data < c[i] =>
                            \/ \E j \in 1 .. i - 1 : c[j] = L[k].data
                            \/ e = "server" /\ L[k].data < c[1] /\ L[k].data \in E
    BY DEF InOrder
  <2>1. i > 1 => c[i - 1] < c[i]
    <3>1. i > 1 => i - 1 \in 1 .. Len(c) /\ i - 1 < i
      BY <1>1
    <3> QED
      BY <1>9, <3>1
  <2>2. CASE i \in 1 .. Len(d)
    <3>1. c[i] = d[i] /\ 1 \in 1 .. Len(d) /\ c[1] = d[1]
      BY <1>1, <2>2
    <3>2. \A j \in 1 .. i - 1 : j \in 1 .. Len(d) /\ c[j] = d[j]
      BY <1>1, <2>2
    <3>3. /\ d[i] <= n
          /\ \A k \in 1 .. Len(L) : L[k].data # 0 /\ L[k].data < d[i] =>
                \/ \E j \in 1 .. i - 1 : d[j] = L[k].data
                \/ e = "server" /\ L[k].data < d[1] /\ L[k].data \in E
      BY <2>2 DEF InOrder
    <3> QED
      BY <2>1, <3>1, <3>2, <3>3
  <2>3. CASE i = Len(d) + 1
    <3>1. c[i] = v /\ i - 1 = Len(d)
      BY <1>1, <2>3
    <3>2. \A k \in 1 .. Len(L) : L[k].data # 0 /\ L[k].data < v =>
             \/ \E j \in 1 .. i - 1 : c[j] = L[k].data
             \/ e = "server" /\ L[k].data < c[1] /\ L[k].data \in E
      BY <1>1, <1>10, <3>1
    <3> QED
      BY <2>1, <3>1, <3>2
  <2> QED
    BY <1>5, <2>2, <2>3
<1>12. \A i \in 1 .. Len(d) : d[i] < v
  <2>1. \A i \in 1 .. Len(d) : /\ i \in 1 .. Len(c) /\ Len(d) + 1 \in 1 .. Len(c)
                               /\ i < Len(d) + 1
    BY <1>1
  <2> QED
    BY <1>1, <1>9, <2>1
<1>13. ASSUME ~ (e = "server" /\ d = << >>), NEW k \in 1 .. Len(L),
              L[k].data # 0, L[k].data < v
       PROVE  d # << >> /\ L[k].data <= d[Len(d)]
  <2>1. L[k].data \in Nat
    BY EntryFields
  <2>2. ASSUME NEW j \in 1 .. Len(d)
        PROVE  d # << >> /\ d[j] <= d[Len(d)] /\ d[j] \in Nat /\ d[Len(d)] \in Nat
    <3>0. /\ Len(d) \in 1 .. Len(d) /\ j \in 1 .. Len(c) /\ Len(d) \in 1 .. Len(c)
          /\ Len(d) # 0
      BY <1>0
    <3>1. d # << >> /\ c[j] = d[j] /\ c[Len(d)] = d[Len(d)]
      BY <1>1, <3>0, EmptySeq
    <3>2. d[j] \in Nat /\ d[Len(d)] \in Nat
      BY <3>0, NumberAt
    <3>3. j = Len(d) \/ j < Len(d)
      BY <1>0
    <3>4. CASE j = Len(d)
      BY <3>1, <3>2, <3>4
    <3>5. CASE j < Len(d)
      <4>1. c[j] < c[Len(d)]
        BY <1>9, <3>0, <3>5
      <4> QED
        BY <3>1, <3>2, <4>1
    <3> QED
      BY <3>3, <3>4, <3>5
  <2>3. CASE \E j \in 1 .. Len(d) : d[j] = L[k].data
    BY <2>2, <2>3
  <2>4. CASE e = "server" /\ L[k].data < c[1]
    <3>1. d # << >>
      BY <1>13, <2>4
    <3>2. 1 \in 1 .. Len(d) /\ c[1] = d[1] /\ d[1] \in Nat
      BY <1>1, <3>1, EmptySeq
    <3>3. d[1] <= d[Len(d)] /\ d[Len(d)] \in Nat
      BY <2>2, <3>2
    <3> QED
      BY <2>1, <2>4, <3>1, <3>2, <3>3
  <2> QED
    BY <1>10, <1>13, <2>3, <2>4
<1> QED
  BY <1>8, <1>11, <1>12, <1>13 DEF c

\* What on_receive is called with is the next payload that has a number.
LEMMA NextPayload ==
    ASSUME PairInv, NEW m \in net, NEW e \in Ends, e = m.to, Accepts(e, m),
           port[e].state = "ESTABLISHED", m.data # 0
    PROVE  LET L == log[Other(e)]
               ack == port[e].ack_num
               d == delivered[e]
           IN  /\ ack \in Nat /\ d \in Seq(Nat) /\ L \in Seq(Entry)
               /\ sent[Other(e)] \in Nat /\ m.data \in Nat
               /\ Run(e, ack, d, L, early[e])
               /\ InOrder(e, d, L, sent[Other(e)], early[e])
               /\ Ascending(L) /\ L[1].data = 0 /\ ack < Len(L)
               /\ m.data = L[ack + 1].data /\ m.data <= sent[Other(e)]
               /\ NextAck(e, m) = ack + 1
<1> DEFINE L == log[Other(e)]
<1>1. /\ PairTypes /\ EndInv(e) /\ Sender(Other(e)) /\ Other(e) \in Ends
  BY TwoEnds DEF PairInv, EndInv
<1>2. /\ port[e].ack_num \in Nat /\ delivered[e] \in Seq(Nat) /\ L \in Seq(Entry)
      /\ sent[Other(e)] \in Nat /\ Len(L) \in Nat
  BY <1>1, Fields
<1>3. /\ m.data \in Nat /\ e \notin blocked /\ m.seq_num = port[e].ack_num
      /\ m.ctrl = PSHACK /\ Copy(m, L) /\ NextAck(e, m) = m.seq_num + 1
  <2>1. /\ m.data \in Nat /\ e \notin blocked /\ m.seq_num = port[e].ack_num
        /\ m.ctrl = PSHACK
    BY Accepted
  <2> QED
    BY <2>1, Accepted, Distinct
<1>4. /\ Run(e, port[e].ack_num, delivered[e], L, early[e])
      /\ InOrder(e, delivered[e], L, sent[Other(e)], early[e])
  BY <1>1, <1>3 DEF EndInv, Receiver
<1>5. /\ port[e].ack_num + 1 \in 1 .. Len(L) /\ port[e].ack_num < Len(L)
      /\ m.data = L[port[e].ack_num + 1].data
  BY <1>2, <1>3 DEF Copy
<1>6. Ascending(L) /\ m.data <= sent[Other(e)]
  BY <1>1, <1>5 DEF Sender, Written, Fit
<1>7. L[1].data = 0
  <2>1. Opens(L[1]) /\ 1 \in 1 .. Len(L)
    <3>1. PICK len \in Nat, ack \in Nat : len = Len(L) /\ ack = port[e].ack_num
      BY <1>2
    <3>2. ack + 1 \in 1 .. len
      BY <1>5, <3>1
    <3>3. 1 \in 1 .. len
      BY <3>2
    <3>4. Opens(L[1])
      BY <1>4 DEF Run
    <3> QED
      BY <3>1, <3>3, <3>4
  <2>2. Fit(Other(e), L[1], sent[Other(e)])
    BY <1>1, <2>1 DEF Sender, Written
  <2> QED
    BY <2>1, <2>2, Distinct DEF Opens, Fit
<1> QED
  BY <1>2, <1>3, <1>4, <1>5, <1>6, <1>7

\* What an end is after a segment that it takes.
LEMMA InputReceiver ==
    ASSUME PairInv, NEW m \in net, NEW e \in Ends, e = m.to, Accepts(e, m),
           port'[e].state = NextState(e, m), port'[e].ack_num = NextAck(e, m),
           early'[e] = NextEarly(e, m),
           delivered'[e] = IF port[e].state = "ESTABLISHED" /\ m.data # 0
                           THEN Append(delivered[e], m.data) ELSE delivered[e],
           UNCHANGED <<log, blocked>>, port'[Other(e)] = port[Other(e)]
    PROVE  /\ Roles(e)' /\ Receiver(e)' /\ Found(e)'
           /\ InOrder(e, delivered'[e], log[Other(e)], sent[Other(e)], early'[e])
<1> DEFINE L == log[Other(e)]
<1>1. /\ PairTypes /\ Roles(e) /\ Receiver(e) /\ Other(e) \in Ends
      /\ InOrder(e, delivered[e], L, sent[Other(e)], early[e])
  BY TwoEnds DEF PairInv, EndInv
<1>2. /\ port[e].ack_num \in Nat /\ delivered[e] \in Seq(Nat) /\ L \in Seq(Entry)
      /\ Len(L) \in Nat /\ Len(delivered[e]) \in Nat
  BY <1>1, Fields
<1>3. /\ e \notin blocked /\ Found(e) /\ m.seq_num \in Nat
      /\ m.ctrl \in {ACK, SYN, SYNACK, PSHACK}
      /\ m.data # 0 <=> m.ctrl = PSHACK
      /\ NextAck(e, m) <= port[Other(e)].seq_num
  BY Accepted
<1>4. /\ port[e].state # "SYN_SENT" => m.seq_num = port[e].ack_num
      /\ NextAck(e, m) = IF m.ctrl = ACK THEN port[e].ack_num ELSE m.seq_num + 1
      /\ m.ctrl # ACK => Copy(m, L)
  BY Accepted
<1>5. early[e] \subseteq early'[e]
  BY DEF NextEarly
<1>0. /\ log' = log /\ blocked' = blocked
      /\ Numbered(Other(e))' = Numbered(Other(e))
  BY DEF Numbered
<1>6. CASE port[e].state = "SYN_SENT"
  <2>1. e = "client" /\ delivered[e] = << >> /\ delivered'[e] = << >>
    BY <1>1, <1>6, TwoEnds DEF Roles, Receiver
  <2>2. InOrder(e, delivered'[e], L, sent[Other(e)], early'[e])
    BY <1>1, <1>5, <2>1, InOrderEarly
  <2>3. \A i \in 1 .. Len(delivered'[e]) : FALSE
    <3>1. PICK d : d = delivered'[e]
      OBVIOUS
    <3>2. d = << >>
      BY <2>1, <3>1
    <3>3. \A i \in 1 .. Len(d) : FALSE
      BY <3>2
    <3> QED
      BY <3>1, <3>3
  <2>4. CASE m.ctrl = SYNACK
    <3>1. /\ m.seq_num = 0 /\ Opens(L[1])
      BY <2>4, FirstSegment DEF Opens
    <3>2. port'[e].ack_num = 1
      BY <1>4, <2>4, <3>1, Distinct
    <3>3. port'[e].state = "ESTABLISHED"
      BY <1>6, <2>4 DEF NextState
    <3>4. Run(e, 1, << >>, L, early'[e])
      BY <2>1, <3>1 DEF Run
    <3> QED
      BY <1>3, <2>1, <2>2, <2>3, <3>2, <3>3, <3>4 DEF Receiver, Roles, Found
  <2>5. CASE m.ctrl # SYNACK
    <3>1. m.ctrl # SYN
      BY <2>1, FirstSegment DEF Opens
    <3>2. m.ctrl \in {ACK, PSHACK}
      BY <1>3, <2>5, <3>1
    <3>3. port'[e].state = "SYN_SENT"
      BY <1>6, <3>2, Controlled DEF NextState, SYNACK
    <3>4. early'[e] = {} => port'[e].ack_num = 0
      <4>1. CASE m.ctrl = PSHACK
        BY <1>3, <1>6, <4>1 DEF NextEarly
      <4>2. CASE m.ctrl = ACK
        BY <1>1, <1>3, <1>4, <1>5, <1>6, <4>2 DEF Receiver
      <4> QED
        BY <3>2, <4>1, <4>2
    <3> QED
      BY <1>3, <2>1, <2>2, <2>3, <3>3, <3>4 DEF Receiver, Roles, Found
  <2> QED
    BY <2>4, <2>5
<1>7. CASE port[e].state = "SYN_RECEIVED"
  <2>1. e = "server" /\ delivered[e] = << >> /\ delivered'[e] = << >>
    BY <1>1, <1>7, TwoEnds DEF Roles, Receiver
  <2>2. Run(e, port[e].ack_num, << >>, L, early[e])
    BY <1>1, <1>3, <1>7, <2>1 DEF Receiver
  <2>3. m.seq_num = port[e].ack_num /\ port[e].ack_num >= 1
    BY <1>4, <1>7, <2>2 DEF Run
  <2>4. m.ctrl \in {ACK, PSHACK}
    BY <1>3, <2>3, FirstSegment DEF Opens
  <2>5. Run(e, port'[e].ack_num, << >>, L, early'[e])
    <3>1. CASE m.ctrl = ACK
      BY <1>4, <1>5, <2>2, <3>1 DEF Run
    <3>2. CASE m.ctrl = PSHACK
      <4>1. /\ port'[e].ack_num = port[e].ack_num + 1
            /\ m.data = L[port[e].ack_num + 1].data
        BY <1>4, <2>3, <3>2, Distinct DEF Copy
      <4>2. m.data \in early'[e]
        BY <1>3, <1>7, <3>2 DEF NextEarly
      <4>3. /\ Opens(L[1]) /\ \A j \in 2 .. port[e].ack_num : L[j].data \in early[e]
        BY <1>2, <2>1, <2>2 DEF Run
      <4>4. \A j \in 2 .. port[e].ack_num + 1 : L[j].data \in early'[e]
        <5>1. \A j \in 2 .. port[e].ack_num + 1 :
                 j \in 2 .. port[e].ack_num \/ j = port[e].ack_num + 1
          BY <1>2
        <5> QED
          BY <1>5, <4>1, <4>2, <4>3, <5>1
      <4>5. PICK a \in Nat : a = port[e].ack_num + 1 /\ a >= 1
        BY <1>2
      <4>6. Run(e, a, << >>, L, early'[e])
        BY <2>1, <4>3, <4>4, <4>5 DEF Run
      <4> QED
        BY <4>1, <4>5, <4>6
    <3> QED
      BY <2>4, <3>1, <3>2
  <2>6. port'[e].state \in {"SYN_RECEIVED", "ESTABLISHED"}
    BY <1>7 DEF NextState
  <2>7. InOrder(e, delivered'[e], L, sent[Other(e)], early'[e])
    BY <1>1, <1>5, <2>1, InOrderEarly
  <2>8. \A i \in 1 .. Len(delivered'[e]) : FALSE
    <3>1. PICK d : d = delivered'[e]
      OBVIOUS
    <3>2. d = << >>
      BY <2>1, <3>1
    <3>3. \A i \in 1 .. Len(d) : FALSE
      BY <3>2
    <3> QED
      BY <3>1, <3>3
  <2> QED
    BY <1>3, <2>1, <2>5, <2>6, <2>7, <2>8 DEF Receiver, Roles, Found
<1>8. CASE port[e].state = "ESTABLISHED"
  <2>1. port'[e].state = "ESTABLISHED" /\ early'[e] = early[e]
    BY <1>8 DEF NextState, NextEarly
  <2>2. Run(e, port[e].ack_num, delivered[e], L, early[e])
    BY <1>1, <1>3, <1>8 DEF Receiver
  <2>3. CASE m.data = 0
    <3>1. m.ctrl = ACK
      <4>1. m.seq_num = port[e].ack_num /\ port[e].ack_num >= 1
        BY <1>4, <1>8, <2>2 DEF Run
      <4> QED
        BY <1>3, <2>3, <4>1, FirstSegment DEF Opens
    <3>2. port'[e].ack_num = port[e].ack_num /\ delivered'[e] = delivered[e]
      BY <1>4, <2>3, <3>1
    <3>3. Roles(e)' /\ Found(e)'
      BY <1>1, <1>8, <2>1 DEF Roles, Found
    <3>4. Receiver(e)'
      <4>1. \A i \in 1 .. Len(delivered'[e]) : delivered'[e][i] \in Numbered(Other(e))'
        BY <1>0, <1>1, <3>2 DEF Receiver
      <4>2. Run(e, port'[e].ack_num, delivered'[e], log'[Other(e)], early'[e])
        BY <1>0, <2>1, <2>2, <3>2
      <4>3. port'[e].ack_num <= port'[Other(e)].seq_num
        BY <1>3
      <4> QED
        BY <2>1, <4>1, <4>2, <4>3 DEF Receiver
    <3> QED
      BY <1>1, <2>1, <3>2, <3>3, <3>4
  <2>4. CASE m.data # 0
    <3>1. PICK ack \in Nat, d \in Seq(Nat), M \in Seq(Entry), n \in Nat, v \in Nat, E \in {early[e]} :
             /\ ack = port[e].ack_num /\ d = delivered[e] /\ M = L
             /\ n = sent[Other(e)] /\ v = m.data /\ E = early[e]
      BY <1>8, <2>4, NextPayload
    <3>2. /\ Run(e, ack, d, M, E) /\ InOrder(e, d, M, n, E)
          /\ Ascending(M) /\ M[1].data = 0 /\ ack < Len(M)
          /\ v = M[ack + 1].data /\ v # 0 /\ v <= n /\ NextAck(e, m) = ack + 1
      BY <1>8, <2>4, <3>1, NextPayload
    <3>3. Run(e, ack + 1, Append(d, v), M, E) /\ InOrder(e, Append(d, v), M, n, E)
      BY <3>2, RunDeliver
    <3>4. port'[e].ack_num = ack + 1 /\ delivered'[e] = Append(d, v)
      BY <1>8, <2>4, <3>1, <3>2
    <3>5. \A i \in 1 .. Len(delivered'[e]) : delivered'[e][i] \in Numbered(Other(e))
      <4>1. v \in Numbered(Other(e))
        <5>1. ack + 1 \in 1 .. Len(M)
          BY <3>2, <1>2, <3>1
        <5> QED
          BY <3>1, <3>2, <5>1 DEF Numbered
      <4>2. \A i \in 1 .. Len(d) : d[i] \in Numbered(Other(e))
        BY <1>1, <3>1 DEF Receiver
      <4>3. \A i \in 1 .. Len(Append(d, v)) :
               \/ i \in 1 .. Len(d) /\ Append(d, v)[i] = d[i]
               \/ Append(d, v)[i] = v
        BY Ends_of_queues
      <4> QED
        BY <3>4, <4>1, <4>2, <4>3
    <3>6. Numbered(Other(e))' = Numbered(Other(e))
      BY DEF Numbered
    <3> QED
      BY <1>3, <1>8, <2>1, <3>1, <3>3, <3>4, <3>5, <3>6, <1>1 DEF Receiver, Roles, Found
  <2> QED
    BY <2>3, <2>4
<1>9. CASE port[e].state \in {"FIN_WAIT_1", "FIN_WAIT_2"}
  <2>1. port'[e].state \in {"FIN_WAIT_1", "FIN_WAIT_2"} /\ delivered'[e] = delivered[e]
    BY <1>9 DEF NextState
  <2>2. InOrder(e, delivered'[e], L, sent[Other(e)], early'[e])
    BY <1>1, <1>5, <2>1, InOrderEarly
  <2>3. Roles(e)' /\ Found(e)'
    BY <2>1 DEF Roles, Found
  <2>4. Receiver(e)'
    <3>1. \A i \in 1 .. Len(delivered'[e]) : delivered'[e][i] \in Numbered(Other(e))'
      BY <1>0, <1>1, <2>1 DEF Receiver
    <3>2. port'[e].ack_num <= port'[Other(e)].seq_num
      BY <1>3
    <3> QED
      BY <2>1, <3>1, <3>2 DEF Receiver
  <2> QED
    BY <2>2, <2>3, <2>4
<1> QED
  BY <1>1, <1>3, <1>6, <1>7, <1>8, <1>9, Fields DEF Found, States

\* input_tcp_internal takes a segment.
LEMMA InputSegmentStep ==
    ASSUME PairInv, NEW m \in net, InputSegment(m)
    PROVE  PairInv'
<1>1. PICK e \in Ends : e = m.to
  BY SegmentFields DEF PairInv, PairTypes
<1>2. /\ Accepts(e, m) /\ Release(e, m)
      /\ port' = [port EXCEPT ![e].ack_num = NextAck(e, m), ![e].state = NextState(e, m)]
      /\ \/ Enqueue(e, Item(ACK, 0, port[e].seq_num))
         \/ UNCHANGED send_queue
      /\ delivered' = IF port[e].state = "ESTABLISHED" /\ m.data # 0
                      THEN [delivered EXCEPT ![e] = Append(@, m.data)] ELSE delivered
      /\ early' = [early EXCEPT ![e] = NextEarly(e, m)]
      /\ UNCHANGED <<blocked, net, sent, closes, log, refused>>
  BY <1>1 DEF InputSegment
<1>3. PairTypes /\ EndInv(e) /\ Other(e) \in Ends /\ Other(e) # e
  BY TwoEnds DEF PairInv
<1>4. NextAck(e, m) \in Nat /\ m.data \in Nat
  BY <1>1, <1>2, Accepted
<1>5. NextState(e, m) \in States
  BY <1>3, Fields DEF NextState, States
<1>6. /\ port' \in [Ends -> [state : States, seq_num : Nat, ack_num : Nat]]
      /\ port'[e].state = NextState(e, m) /\ port'[e].seq_num = port[e].seq_num
      /\ port'[e].ack_num = NextAck(e, m)
      /\ \A d \in Ends : d # e => port'[d] = port[d]
  <2> DEFINE r == [port[e] EXCEPT !.ack_num = NextAck(e, m), !.state = NextState(e, m)]
  <2>1. /\ r \in [state : States, seq_num : Nat, ack_num : Nat]
        /\ r.state = NextState(e, m) /\ r.seq_num = port[e].seq_num
        /\ r.ack_num = NextAck(e, m)
    BY <1>3, <1>4, <1>5, Fields
  <2>2. port' = [port EXCEPT ![e] = r]
    <3>1. port \in [Ends -> [state : States, seq_num : Nat, ack_num : Nat]]
      BY <1>3 DEF PairTypes
    <3>2. PICK a, st : a = NextAck(e, m) /\ st = NextState(e, m)
      OBVIOUS
    <3> QED
      BY <1>2, <3>1, <3>2
  <2> HIDE DEF r
  <2> QED
    BY <1>3, <2>1, <2>2, PortEffect
<1>7. /\ unacked' \in [Ends -> SUBSET Unacked] /\ unacked_slots' \in [Ends -> Nat]
      /\ early' \in [Ends -> SUBSET Nat] /\ early'[e] = NextEarly(e, m)
      /\ \A d \in Ends : d # e => /\ unacked'[d] = unacked[d] /\ early'[d] = early[d]
                                  /\ unacked_slots'[d] = unacked_slots[d]
  BY <1>1, <1>2, InputTypes
<1>8. /\ send_queue' \in [Ends -> Seq(Unacked)]
      /\ \/ send_queue'[e] = send_queue[e]
         \/ send_queue'[e] = Append(send_queue[e], Item(ACK, 0, port[e].seq_num))
      /\ \A d \in Ends : d # e => send_queue'[d] = send_queue[d]
  <2>1. PICK x : x = Item(ACK, 0, port[e].seq_num)
    OBVIOUS
  <2>2. x \in Unacked
    <3>1. PICK c \in Controls, z \in Nat, n \in Nat :
             c = ACK /\ z = 0 /\ n = port[e].seq_num
      BY <1>3, Fields DEF Controls
    <3> QED
      BY <2>1, <3>1, ItemType
  <2>3. CASE Enqueue(e, x)
    BY <1>3, <2>1, <2>2, <2>3, EnqueueEffect
  <2>4. CASE UNCHANGED send_queue
    BY <1>3, <2>4 DEF PairTypes
  <2> QED
    BY <1>2, <2>1, <2>3, <2>4
<1>9. /\ delivered' \in [Ends -> Seq(Nat)]
      /\ delivered'[e] = IF port[e].state = "ESTABLISHED" /\ m.data # 0
                         THEN Append(delivered[e], m.data) ELSE delivered[e]
      /\ \A d \in Ends : d # e => delivered'[d] = delivered[d]
  <2>1. delivered \in [Ends -> Seq(Nat)] /\ Append(delivered[e], m.data) \in Seq(Nat)
    BY <1>3, <1>4, Fields DEF PairTypes
  <2> QED
    BY <1>2, <2>1
<1>10. PairTypes'
  BY <1>2, <1>3, <1>6, <1>7, <1>8, <1>9 DEF PairTypes
<1>11. Elsewhere(e)
  BY <1>2, <1>6, <1>7, <1>8, <1>9 DEF Elsewhere
<1>12. /\ Roles(e)' /\ Receiver(e)' /\ Found(e)'
       /\ InOrder(e, delivered'[e], log[Other(e)], sent[Other(e)], early'[e])
  BY ZenonT(30), <1>1, <1>2, <1>3, <1>6, <1>7, <1>9, InputReceiver
<1>13. /\ Sender(e)' /\ Grows(e)
       /\ Steady(Other(e)) => \A s \in Released(e)' :
             s \in Released(e) \/ s <= port[Other(e)].ack_num
  BY <1>1, <1>2, <1>6, <1>7, <1>8, <1>10, <1>12, InputEffect
<1>14. \A c \in net' : c \in net
  BY <1>2
<1> QED
  BY <1>10, <1>11, <1>12, <1>13, <1>14, StepAt

-----------------------------------------------------------------------------
(* The invariant and the properties.                                       *)

\* At first nothing was sent, and the server listens.
LEMMA PairInit == Init => PairInv
<1> SUFFICES ASSUME Init PROVE PairInv
  OBVIOUS
<1>1. PairTypes
  BY PairConstants DEF Init, PairTypes, States
<1>2. ASSUME NEW e \in Ends
      PROVE  /\ port[e].state = IF e = "server" THEN "LISTEN" ELSE "CLOSED"
             /\ port[e].seq_num = 0 /\ port[e].ack_num = 0
             /\ unacked[e] = {} /\ unacked_slots[e] = MAX_UNACKED
             /\ send_queue[e] = << >> /\ delivered[e] = << >> /\ log[e] = << >>
             /\ sent[e] = 0 /\ early[e] = {} /\ refused[e] = {}
  BY DEF Init
<1>3. net = {} /\ blocked = {}
  BY DEF Init
<1>4. Len(<< >>) = 0 /\ 1 .. 0 = {}
  OBVIOUS
<1>5. Room({}, MAX_UNACKED, << >>)
  <2>1. Positions(<< >>, Reliable) = {}
    BY DEF Positions
  <2>2. Count(<< >>, Reliable) = 0 /\ Cardinality({}) = 0 /\ IsFiniteSet({})
    BY <2>1, FS_EmptySet DEF Count
  <2> QED
    BY <2>2, PairConstants DEF Room
<1>6. ASSUME NEW e \in Ends PROVE EndInv(e)
  <2>1. Other(e) \in Ends
    BY TwoEnds
  <2>2. Roles(e) /\ ~ Found(e) /\ Fresh(e)
    BY <1>2, <1>6 DEF Roles, Found, Fresh
  <2>3. Sender(e)
    <3>1. Written(e, << >>, 0) /\ Waiting(e, << >>, << >>, 0) /\ Kept({}, << >>)
      BY <1>4 DEF Written, Waiting, Kept, Ascending
    <3> QED
      BY <1>2, <1>4, <1>5, <1>6, <2>2, <3>1 DEF Sender
  <2>4. Receiver(e)
    <3>1. \A i \in 1 .. Len(delivered[e]) : FALSE
      BY <1>2, <1>4
    <3>2. port[e].ack_num <= port[Other(e)].seq_num
      BY <1>2, <2>1
    <3> QED
      BY <1>2, <3>1, <3>2 DEF Receiver
  <2>5. Bounded(e)
    <3>1. Released(e) = {}
      BY <1>2 DEF Released
    <3> QED
      BY <3>1 DEF Bounded
  <2>6. InOrder(e, delivered[e], log[Other(e)], sent[Other(e)], early[e])
    <3>1. InOrder(e, << >>, log[Other(e)], sent[Other(e)], early[e])
      BY <1>4 DEF InOrder
    <3> QED
      BY <1>2, <3>1
  <2> QED
    BY <2>2, <2>3, <2>4, <2>5, <2>6 DEF EndInv
<1> QED
  BY <1>1, <1>3, <1>6 DEF PairInv

\* Every step keeps the invariant.
LEMMA PairStep == PairInv /\ [Next]_vars => PairInv'
<1> SUFFICES ASSUME PairInv, [Next]_vars PROVE PairInv'
  OBVIOUS
<1>1. CASE Connect
  BY <1>1, ConnectStep
<1>2. CASE \E e \in Ends : TcpSend(e)
  BY <1>2, TcpSendStep
<1>3. CASE \E e \in Ends : Close(e)
  BY <1>3, CloseStep
<1>4. CASE \E e \in Ends : SendInternal(e)
  BY <1>4, SendInternalStep
<1>5. CASE \E e \in Ends : SendFails(e)
  BY <1>5, SendFailsStep
<1>6. CASE \E e \in Ends : RetransmitSome(e)
  BY <1>6, RetransmitStep DEF RetransmitSome
<1>7. CASE \E m \in net : InputListen(m)
  BY <1>7, InputListenStep
<1>8. CASE \E m \in net : InputSegment(m)
  BY <1>8, InputSegmentStep
<1>9. CASE \E m \in net : InputBlocks(m)
  BY <1>9, InputBlocksStep
<1>10. CASE \E m \in net : Lose(m)
  BY <1>10, LoseStep DEF Lose
<1>11. CASE UNCHANGED vars
  BY <1>11, LoseStep DEF vars
<1> QED
  BY <1>1, <1>2, <1>3, <1>4, <1>5, <1>6, <1>7, <1>8, <1>9, <1>10, <1>11 DEF Next

\* The invariant holds in every state of the two hosts and the network.
LEMMA PairInvariant == Spec => []PairInv
BY PairInit, PairStep, PTL DEF Spec

\* Every state is typed, and the entries of a port are never overrun: one is
\* free for each slot, whatever malloc and the queues refuse.
THEOREM PairTypeCorrect == Spec => []TypeOK
<1>1. PairInv => TypeOK
  <2> SUFFICES ASSUME PairInv PROVE TypeOK
    OBVIOUS
  <2>1. PairTypes
    BY DEF PairInv
  <2>2. ASSUME NEW e \in Ends
        PROVE  /\ Cardinality(unacked[e]) + unacked_slots[e] <= MAX_UNACKED
               /\ unacked_slots[e] \in 0 .. MAX_UNACKED
    <3>1. Room(unacked[e], unacked_slots[e], send_queue[e])
      BY DEF PairInv, EndInv, Sender
    <3>2. /\ unacked_slots[e] \in Nat /\ send_queue[e] \in Seq(Unacked)
          /\ MAX_UNACKED \in Nat
      BY <2>1, Fields, PairConstants
    <3>3. Cardinality(unacked[e]) \in Nat /\ Count(send_queue[e], Reliable) \in Nat
      BY <3>1, <3>2, CountBound, FS_CardinalityType DEF Room
    <3> QED
      BY <3>1, <3>2, <3>3 DEF Room
  <2>3. unacked_slots \in [Ends -> 0 .. MAX_UNACKED]
    BY <2>1, <2>2 DEF PairTypes
  <2> QED
    BY <2>1, <2>2, <2>3 DEF PairTypes, TypeOK, Entry
<1> QED
  BY <1>1, PairInvariant, PTL

\* Nothing is acknowledged that was not sent, whatever the network does, in
\* whatever state segments are sent and ports are closed.
THEOREM NothingAckedUnsent == Spec => []AckHonest
<1>1. PairInv => AckHonest
  BY DEF PairInv, EndInv, Receiver, Flight, AckHonest
<1> QED
  BY <1>1, PairInvariant, PTL

\* An acknowledgement releases kept segments at most one too early: all others
\* were accepted by the other end, or their retransmission was refused.
THEOREM ReleasedAtMostOneEarly == Spec => []ReleasedBound
<1>1. PairInv => ReleasedBound
  <2> SUFFICES ASSUME PairInv, NEW e \in Ends, e = "client" \/ early["client"] = {}
               PROVE  \A s \in Released(e) : s <= port[Other(e)].ack_num
    BY DEF ReleasedBound
  <2>1. Steady(Other(e))
    BY TwoEnds DEF Steady
  <2> QED
    BY <2>1 DEF PairInv, EndInv, Bounded
<1> QED
  BY <1>1, PairInvariant, PTL

\* on_receive sees the payloads of the other end in order and none twice; one
\* that got a number is left out only at the beginning, at the server.
THEOREM DeliveryInOrder == Spec => []DeliveredInOrder
<1>1. PairInv => DeliveredInOrder
  <2> SUFFICES ASSUME PairInv, NEW e \in Ends, NEW i \in 1 .. Len(delivered[e])
               PROVE  LET d == delivered[e]
                      IN  /\ d[i] <= sent[Other(e)]
                          /\ i > 1 => d[i - 1] < d[i]
                          /\ \A n \in Numbered(Other(e)) : n < d[i] =>
                                \/ \E j \in 1 .. i - 1 : d[j] = n
                                \/ e = "server" /\ n < d[1] /\ n \in early[e]
    BY DEF DeliveredInOrder
  <2>1. InOrder(e, delivered[e], log[Other(e)], sent[Other(e)], early[e])
    BY DEF PairInv, EndInv
  <2>2. /\ delivered[e][i] <= sent[Other(e)]
        /\ i > 1 => delivered[e][i - 1] < delivered[e][i]
    BY <2>1 DEF InOrder
  <2>3. ASSUME NEW n \in Numbered(Other(e)), n < delivered[e][i]
        PROVE  \/ \E j \in 1 .. i - 1 : delivered[e][j] = n
               \/ e = "server" /\ n < delivered[e][1] /\ n \in early[e]
    <3>1. PICK k \in 1 .. Len(log[Other(e)]) : n = log[Other(e)][k].data /\ n # 0
      BY DEF Numbered
    <3> QED
      BY <2>1, <2>3, <3>1 DEF InOrder
  <2> QED
    BY <2>2, <2>3
<1> QED
  BY <1>1, PairInvariant, PTL

\* Whatever is kept or on its way under a sequence number is what that number
\* was first given to.
THEOREM NumbersUnambiguous == Spec => []OneContent
<1>1. PairInv => OneContent
  <2> SUFFICES ASSUME PairInv, NEW e \in Ends
               PROVE  \A x \in unacked[e] \cup {m \in net : m.to = Other(e)} :
                         Increment(x.ctrl, x.data) > 0 => Copy(x, log[e])
    BY DEF OneContent, Copy
  <2>1. PairTypes /\ Sender(e) /\ Other(Other(e)) = e
    BY TwoEnds DEF PairInv, EndInv
  <2>2. ASSUME NEW x \in unacked[e] PROVE Copy(x, log[e])
    BY <2>1 DEF Sender, Kept
  <2>3. ASSUME NEW x \in net, x.to = Other(e), Increment(x.ctrl, x.data) > 0
        PROVE  Copy(x, log[e])
    <3>1. Carries(x, log[e])
      BY <2>1, <2>3 DEF PairInv, Flight
    <3>2. x.ctrl # ACK
      BY <2>3, <3>1, Controlled DEF Carries, Increment
    <3> QED
      BY <3>1, <3>2 DEF Carries
  <2> QED
    BY <2>2, <2>3
<1> QED
  BY <1>1, PairInvariant, PTL

-----------------------------------------------------------------------------
(* The stream.                                                             *)

\* What the mapping of TcpStream makes of a state.
ConnMap    == [e \in Ends |-> Conn(e)]
DroppedMap == [e \in Ends |-> Dropped(e)]
Seen       == <<ConnMap, sent, DroppedMap, delivered>>

\* A connection is open while its port is ESTABLISHED, and idle before.
LEMMA ConnOf ==
    ASSUME PairTypes, NEW e \in Ends
    PROVE  /\ ConnMap[e] = Conn(e)
           /\ Conn(e) = "open" <=> port[e].state = "ESTABLISHED"
           /\ Conn(e) = "closed" <=> port[e].state \in {"FIN_WAIT_1", "FIN_WAIT_2"}
           /\ Conn(e) \in {"idle", "open", "closed"}
BY DEF ConnMap, Conn

\* A step that moves the state of one port at most changes its connection.
LEMMA ConnMoves ==
    ASSUME NEW e \in Ends, \A d \in Ends : d # e => port'[d].state = port[d].state
    PROVE  /\ ConnMap' = [ConnMap EXCEPT ![e] = Conn(e)']
           /\ Conn(e)' = Conn(e) => ConnMap' = ConnMap
BY DEF ConnMap, Conn

\* The payloads up to n that neither have a number nor wait for one.
Gone(n, L, q) ==
    {k \in 1 .. n : /\ \A j \in 1 .. Len(L) : L[j].data # k
                    /\ \A j \in 1 .. Len(q) : q[j].data # k}

LEMMA DroppedOf ==
    ASSUME NEW e \in Ends
    PROVE  /\ DroppedMap[e] = Dropped(e)
           /\ Dropped(e) = Gone(sent[e], log[e], send_queue[e])
           /\ Dropped(e)' = Gone(sent'[e], log'[e], send_queue'[e])
BY DEF DroppedMap, Dropped, Numbered, Gone

\* A step that queues, sends and drops no payload.
LEMMA GoneStays ==
    ASSUME NEW n \in Nat, NEW L, NEW q \in Seq(Unacked), NEW x \in Unacked, x.data = 0
    PROVE  Gone(n, L, Append(q, x)) = Gone(n, L, q)
<1>1. /\ Len(q) \in Nat /\ Len(Append(q, x)) = Len(q) + 1 /\ Append(q, x)[Len(q) + 1] = x
      /\ \A k \in 1 .. Len(q) : Append(q, x)[k] = q[k]
  BY Ends_of_queues
<1>2. \A j \in 1 .. Len(q) + 1 : j \in 1 .. Len(q) \/ j = Len(q) + 1
  BY <1>1
<1>3. \A j \in 1 .. Len(q) : j \in 1 .. Len(q) + 1
  BY <1>1
<1>4. \A k \in 1 .. n : (\A j \in 1 .. Len(Append(q, x)) : Append(q, x)[j].data # k)
                        <=> (\A j \in 1 .. Len(q) : q[j].data # k)
  BY <1>1, <1>2, <1>3
<1> QED
  BY <1>4 DEF Gone

LEMMA DroppedStays ==
    ASSUME PairInv, NEW e \in Ends, UNCHANGED <<sent, log>>,
           \A d \in Ends : d # e => send_queue'[d] = send_queue[d],
           \/ send_queue'[e] = send_queue[e]
           \/ \E x \in Unacked : x.data = 0 /\ send_queue'[e] = Append(send_queue[e], x)
    PROVE  DroppedMap' = DroppedMap
<1>1. sent[e] \in Nat /\ send_queue[e] \in Seq(Unacked)
  BY Fields DEF PairInv
<1>2. Gone(sent[e], log[e], send_queue'[e]) = Gone(sent[e], log[e], send_queue[e])
  BY ZenonT(30), <1>1, GoneStays
<1>3. \A d \in Ends : Dropped(d)' = Dropped(d)
  BY <1>2, DroppedOf
<1> QED
  BY <1>3 DEF DroppedMap

\* What tcp_task queues is no payload.
LEMMA TaskQueues ==
    ASSUME PairInv, NEW e \in Ends, NEW c \in Controls, TaskEnqueues(e, c)
    PROVE  /\ \A d \in Ends : d # e => send_queue'[d] = send_queue[d]
           /\ \/ send_queue'[e] = send_queue[e]
              \/ \E x \in Unacked : x.data = 0 /\ send_queue'[e] = Append(send_queue[e], x)
<1>1. PairTypes /\ port[e].seq_num \in Nat
  BY Fields DEF PairInv
<1>2. PICK x : x = Item(c, 0, port[e].seq_num)
  OBVIOUS
<1>3. x \in Unacked /\ x.data = 0
  <2>1. PICK z \in Nat, n \in Nat : z = 0 /\ n = port[e].seq_num
    BY <1>1
  <2> QED
    BY <1>2, <2>1, ItemType
<1>4. CASE EnqueueReliable(e, x)
  BY <1>1, <1>3, <1>4, EnqueueEffect DEF EnqueueReliable
<1> QED
  BY <1>2, <1>4 DEF TaskEnqueues

\* tcp_connect_port and the SYN for a listening port announce nothing.
LEMMA QuietOpening ==
    ASSUME PairInv, Connect \/ \E m \in net : InputListen(m)
    PROVE  UNCHANGED Seen
<1>1. PairTypes /\ "client" \in Ends /\ "server" \in Ends
      /\ SYN \in Controls /\ SYNACK \in Controls
  BY TwoEnds DEF PairInv, Controls
<1>2. PICK e \in Ends, c \in Controls :
         /\ TaskEnqueues(e, c) /\ UNCHANGED <<sent, log, delivered>>
         /\ port[e].state \in {"CLOSED", "LISTEN"}
         /\ port'[e].state \in {"SYN_SENT", "SYN_RECEIVED"}
         /\ \A d \in Ends : d # e => port'[d].state = port[d].state
  <2>1. CASE Connect
    <3>1. /\ port["client"].state = "CLOSED" /\ TaskEnqueues("client", SYN)
          /\ port' = [port EXCEPT !["client"].state = "SYN_SENT"]
          /\ UNCHANGED <<sent, log, delivered>>
      BY <2>1 DEF Connect, app, history
    <3>2. /\ port'["client"].state = "SYN_SENT"
          /\ \A d \in Ends : d # "client" => port'[d].state = port[d].state
      BY <1>1, <3>1 DEF PairTypes
    <3> QED
      BY <1>1, <3>1, <3>2
  <2>2. CASE \E m \in net : InputListen(m)
    <3>1. PICK m \in net :
             /\ port["server"].state = "LISTEN" /\ TaskEnqueues("server", SYNACK)
             /\ port' = [port EXCEPT !["server"].state = "SYN_RECEIVED",
                                     !["server"].ack_num = m.seq_num + 1]
             /\ UNCHANGED <<sent, log, delivered>>
      BY <2>2 DEF InputListen, app, history
    <3>2. /\ port'["server"].state = "SYN_RECEIVED"
          /\ \A d \in Ends : d # "server" => port'[d].state = port[d].state
      BY <1>1, <3>1 DEF PairTypes
    <3> QED
      BY <1>1, <3>1, <3>2
  <2> QED
    BY <2>1, <2>2
<1>3. Conn(e) = "idle" /\ Conn(e)' = "idle"
  BY <1>2 DEF Conn
<1>4. ConnMap' = ConnMap
  BY <1>2, <1>3, ConnMoves
<1>5. DroppedMap' = DroppedMap
  BY <1>2, TaskQueues, DroppedStays
<1> QED
  BY <1>2, <1>4, <1>5 DEF Seen

\* tcp_send.
LEMMA SendRefines ==
    ASSUME PairInv, NEW e \in Ends, TcpSend(e)
    PROVE  App!Send(e)
<1>1. PairTypes /\ Sender(e) /\ sent[e] \in Nat /\ send_queue[e] \in Seq(Unacked)
      /\ log[e] \in Seq(Entry) /\ sent \in [Ends -> Nat]
  BY Fields DEF PairInv, EndInv, PairTypes
<1>2. /\ sent' = [sent EXCEPT ![e] = sent[e] + 1]
      /\ Enqueue(e, Item(PSHACK, sent[e] + 1, 0))
      /\ UNCHANGED <<port, delivered, log>>
  BY DEF TcpSend, EnqueueReliable, history
<1>3. PICK r \in Nat : r = sent[e] + 1
  BY <1>1
<1> DEFINE x == Item(PSHACK, r, 0)
<1>4. x \in Unacked /\ x.data = r
  <2>1. PICK z \in Nat : z = 0
    OBVIOUS
  <2>2. PSHACK \in Controls
    BY DEF Controls
  <2> QED
    BY <2>1, <2>2, ItemType
<1>11. Enqueue(e, x)
  BY <1>2, <1>3
<1> HIDE DEF x
<1>5. /\ send_queue'[e] = Append(send_queue[e], x) /\ sent'[e] = r
      /\ \A d \in Ends : d # e => send_queue'[d] = send_queue[d] /\ sent'[d] = sent[d]
  BY <1>1, <1>2, <1>3, <1>4, <1>11, EnqueueEffect
<1>6. PICK q \in Seq(Unacked) : q = send_queue[e]
  BY <1>1
<1>7. /\ Len(q) \in Nat /\ Len(Append(q, x)) = Len(q) + 1 /\ Append(q, x)[Len(q) + 1] = x
      /\ \A k \in 1 .. Len(q) : Append(q, x)[k] = q[k]
  BY <1>4, Ends_of_queues
<1>8. Gone(r, log[e], Append(q, x)) = Gone(sent[e], log[e], q)
  <2>1. \A j \in 1 .. Len(q) + 1 : j \in 1 .. Len(q) \/ j = Len(q) + 1
    BY <1>7
  <2>2. Len(q) + 1 \in 1 .. Len(q) + 1 /\ \A j \in 1 .. Len(q) : j \in 1 .. Len(q) + 1
    BY <1>7
  <2>3. \A k \in 1 .. r : k \in 1 .. sent[e] \/ k = r
    BY <1>1, <1>3
  <2>4. \A k \in 1 .. sent[e] : k \in 1 .. r /\ k # r
    BY <1>1, <1>3
  <2>5. \A k \in 1 .. sent[e] : (\A j \in 1 .. Len(Append(q, x)) : Append(q, x)[j].data # k)
                                 <=> (\A j \in 1 .. Len(q) : q[j].data # k)
    BY <1>4, <1>7, <2>1, <2>2, <2>4
  <2>6. r \notin Gone(r, log[e], Append(q, x))
    BY <1>4, <1>7, <2>2 DEF Gone
  <2> QED
    BY <2>3, <2>4, <2>5, <2>6 DEF Gone
<1>9. \A d \in Ends : Dropped(d)' = Dropped(d)
  BY <1>2, <1>5, <1>6, <1>8, DroppedOf
<1>10. DroppedMap' = DroppedMap /\ ConnMap' = ConnMap
  BY <1>2, <1>9 DEF DroppedMap, ConnMap, Conn
<1> QED
  BY <1>2, <1>10 DEF App!Send, ConnMap, DroppedMap

\* tcp_close_port, which closes a connection once.
LEMMA CloseRefines ==
    ASSUME PairInv, NEW e \in Ends, Close(e)
    PROVE  App!Close(e) \/ UNCHANGED Seen
<1>1. PairTypes /\ FIN \in Controls
  BY DEF PairInv, Controls
<1>2. /\ TaskEnqueues(e, FIN) /\ port' = [port EXCEPT ![e].state = "FIN_WAIT_1"]
      /\ UNCHANGED <<sent, delivered, log>>
  BY DEF Close, history
<1>3. /\ port'[e].state = "FIN_WAIT_1"
      /\ \A d \in Ends : d # e => port'[d].state = port[d].state
  BY <1>1, <1>2 DEF PairTypes
<1>4. Conn(e)' = "closed"
  BY <1>3 DEF Conn
<1>5. ConnMap' = [ConnMap EXCEPT ![e] = "closed"] /\ (Conn(e) = "closed" => ConnMap' = ConnMap)
  BY <1>3, <1>4, ConnMoves
<1>6. DroppedMap' = DroppedMap
  BY <1>1, <1>2, TaskQueues, DroppedStays
<1>7. ConnMap[e] \in {"idle", "open"} \/ Conn(e) = "closed"
  BY <1>1, ConnOf
<1> QED
  BY <1>2, <1>5, <1>6, <1>7 DEF App!Close, Seen, ConnMap, DroppedMap

\* A payload that gets a number is not dropped; one that gets none is.
LEMMA GoneTail ==
    ASSUME NEW e, NEW n \in Nat, NEW L \in Seq(Entry), NEW q \in Seq(Unacked), q # << >>,
           Waiting(e, q, L, n)
    PROVE  /\ \A y \in Entry : y.data = Head(q).data =>
                Gone(n, Append(L, y), Tail(q)) = Gone(n, L, q)
           /\ Head(q).data = 0 => Gone(n, L, Tail(q)) = Gone(n, L, q)
           /\ Head(q).data # 0 =>
                /\ Head(q).data \in 1 .. n /\ Head(q).data \notin Gone(n, L, q)
                /\ Gone(n, L, Tail(q)) = Gone(n, L, q) \cup {Head(q).data}
                /\ \A j \in 1 .. Len(L) : L[j].data < Head(q).data
<1> DEFINE t == Tail(q)
           h == Head(q).data
<1>1. /\ Len(q) \in Nat /\ Len(t) = Len(q) - 1 /\ Len(q) >= 1
      /\ Head(q) = q[1] /\ Head(q) \in Unacked
      /\ \A k \in 1 .. Len(q) - 1 : t[k] = q[k + 1]
  BY Ends_of_queues
<1>2. h \in Nat /\ h = q[1].data /\ 1 \in 1 .. Len(q)
  BY <1>1, UnackedFields
<1> HIDE DEF t, h
<1>3. \A j \in 1 .. Len(t) : j + 1 \in 1 .. Len(q) /\ t[j] = q[j + 1] /\ 1 < j + 1
  BY <1>1
<1>4. \A j \in 1 .. Len(q) : j = 1 \/ (j - 1 \in 1 .. Len(t) /\ t[j - 1] = q[j])
  <2> SUFFICES ASSUME NEW j \in 1 .. Len(q), j # 1
               PROVE  j - 1 \in 1 .. Len(t) /\ t[j - 1] = q[j]
    OBVIOUS
  <2>1. j - 1 \in 1 .. Len(q) - 1 /\ (j - 1) + 1 = j
    BY <1>1
  <2> QED
    BY <1>1, <2>1
<1>5. ASSUME NEW k PROVE (\A j \in 1 .. Len(q) : q[j].data # k)
                           <=> h # k /\ \A j \in 1 .. Len(t) : t[j].data # k
  BY ZenonT(30), <1>2, <1>3, <1>4
<1>6. ASSUME NEW y \in Entry, y.data = h
      PROVE  Gone(n, Append(L, y), t) = Gone(n, L, q)
  <2>1. /\ Len(L) \in Nat /\ Len(Append(L, y)) = Len(L) + 1 /\ Append(L, y)[Len(L) + 1] = y
        /\ \A k \in 1 .. Len(L) : Append(L, y)[k] = L[k]
    BY Ends_of_queues
  <2>2. /\ \A j \in 1 .. Len(L) + 1 : j \in 1 .. Len(L) \/ j = Len(L) + 1
        /\ \A j \in 1 .. Len(L) : j \in 1 .. Len(L) + 1
        /\ Len(L) + 1 \in 1 .. Len(L) + 1
    BY <2>1
  <2>3. ASSUME NEW k PROVE (\A j \in 1 .. Len(Append(L, y)) : Append(L, y)[j].data # k)
                             <=> h # k /\ \A j \in 1 .. Len(L) : L[j].data # k
    BY <1>6, <2>1, <2>2
  <2>4. ASSUME NEW k \in 1 .. n
        PROVE  k \in Gone(n, Append(L, y), t) <=> k \in Gone(n, L, q)
    <3>1. k \in Gone(n, Append(L, y), t) <=>
             /\ \A j \in 1 .. Len(Append(L, y)) : Append(L, y)[j].data # k
             /\ \A j \in 1 .. Len(t) : t[j].data # k
      BY DEF Gone
    <3>2. k \in Gone(n, L, q) <=> /\ \A j \in 1 .. Len(L) : L[j].data # k
                                 /\ \A j \in 1 .. Len(q) : q[j].data # k
      BY DEF Gone
    <3> QED
      BY <1>5, <2>3, <3>1, <3>2, Zenon
  <2> QED
    BY <2>4 DEF Gone
<1>7. ASSUME h = 0 PROVE Gone(n, L, t) = Gone(n, L, q)
  <2>1. \A k \in 1 .. n : h # k
    BY <1>7
  <2> QED
    BY <1>5, <2>1 DEF Gone
<1>8. ASSUME h # 0
      PROVE  /\ h \in 1 .. n /\ h \notin Gone(n, L, q)
             /\ Gone(n, L, t) = Gone(n, L, q) \cup {h}
             /\ \A j \in 1 .. Len(L) : L[j].data < h
  <2>1. h <= n
    BY <1>2 DEF Waiting, Fit
  <2>2. h \in 1 .. n
    BY <1>2, <1>8, <2>1
  <2>3. \A j \in 1 .. Len(L) : L[j].data < h
    BY <1>2, <1>8 DEF Waiting
  <2>4. \A j \in 1 .. Len(L) : L[j].data # h
    <3> SUFFICES ASSUME NEW j \in 1 .. Len(L) PROVE L[j].data # h
      OBVIOUS
    <3>1. L[j].data \in Nat
      BY EntryFields
    <3> QED
      BY <1>2, <2>3, <3>1
  <2>5. \A j \in 1 .. Len(t) : t[j].data # h
    <3> SUFFICES ASSUME NEW j \in 1 .. Len(t), t[j].data = h PROVE FALSE
      OBVIOUS
    <3>1. j + 1 \in 1 .. Len(q) /\ 1 < j + 1 /\ q[j + 1].data = h
      BY <1>3
    <3>2. q[1].data < q[j + 1].data
      BY <1>2, <1>8, <3>1 DEF Waiting, Ascending
    <3> QED
      BY <1>2, <3>1, <3>2
  <2>6. h \notin Gone(n, L, q)
    BY <1>5 DEF Gone
  <2>7. Gone(n, L, t) = Gone(n, L, q) \cup {h}
    BY ZenonT(30), <1>5, <2>2, <2>4, <2>5 DEF Gone
  <2> QED
    BY <2>2, <2>3, <2>6, <2>7
<1> QED
  BY <1>6, <1>7, <1>8 DEF t, h

\* tcp_send_internal with memory: the applications see nothing.
LEMMA SendInternalRefines ==
    ASSUME PairInv, NEW e \in Ends, SendInternal(e)
    PROVE  UNCHANGED Seen
<1>1. PairTypes /\ Sender(e) /\ Taken(e)
  BY DEF PairInv, EndInv, SendInternal
<1>2. /\ send_queue[e] # << >> /\ send_queue'[e] = Tail(send_queue[e])
      /\ \A d \in Ends : d # e => send_queue'[d] = send_queue[d]
      /\ Head(send_queue[e]) \in Unacked /\ Fit(e, Head(send_queue[e]), sent[e])
  BY <1>1, TakenEffect
<1>3. PICK x \in Unacked : x = Head(send_queue[e])
  BY <1>2
<1>4. Increment(x.ctrl, x.data) = IF x.ctrl = ACK THEN 0 ELSE 1
  BY <1>2, <1>3, UnackedFields, Increments DEF Fit
<1>5. PICK y : y = [ctrl |-> x.ctrl, data |-> x.data]
  OBVIOUS
<1>6. y \in Entry /\ y.data = x.data
  BY <1>5, UnackedFields DEF Entry
<1>7. UNCHANGED <<sent, delivered>>
  BY DEF SendInternal, app
<1>8. PICK q \in Seq(Unacked), L \in Seq(Entry), n \in Nat :
         q = send_queue[e] /\ L = log[e] /\ n = sent[e]
  BY <1>1, Fields
<1>9. q # << >> /\ Waiting(e, q, L, n) /\ x = Head(q)
  BY <1>1, <1>2, <1>3, <1>8 DEF Sender
<1>10. CASE x.ctrl = ACK
  <2>1. UNCHANGED <<port, log>>
    BY <1>3, <1>4, <1>10 DEF SendInternal
  <2>2. Gone(n, L, Tail(q)) = Gone(n, L, q)
    <3>1. x.data = 0
      BY <1>2, <1>3, <1>10, Distinct DEF Fit
    <3> QED
      BY <1>9, <3>1, GoneTail
  <2>3. \A d \in Ends : Dropped(d)' = Dropped(d)
    BY <1>2, <1>7, <1>8, <2>1, <2>2, DroppedOf
  <2> QED
    BY <1>7, <2>1, <2>3 DEF Seen, DroppedMap, ConnMap, Conn
<1>11. CASE x.ctrl # ACK
  <2>1. /\ port' = [port EXCEPT ![e].seq_num = port[e].seq_num + 1]
        /\ log' = [log EXCEPT ![e] = Append(log[e], y)]
    BY <1>3, <1>4, <1>5, <1>11 DEF SendInternal
  <2>2. \A d \in Ends : port'[d].state = port[d].state
    <3>1. PICK k : k = port[e].seq_num + 1
      OBVIOUS
    <3>2. /\ port \in [Ends -> [state : States, seq_num : Nat, ack_num : Nat]]
          /\ port' = [port EXCEPT ![e].seq_num = k]
      BY <1>1, <2>1, <3>1 DEF PairTypes
    <3> QED
      BY <3>2
  <2>3. log'[e] = Append(log[e], y) /\ \A d \in Ends : d # e => log'[d] = log[d]
    BY <1>1, <2>1 DEF PairTypes
  <2>4. Gone(n, Append(L, y), Tail(q)) = Gone(n, L, q)
    BY <1>6, <1>9, GoneTail
  <2>5. \A d \in Ends : Dropped(d)' = Dropped(d)
    BY <1>2, <1>7, <1>8, <2>3, <2>4, DroppedOf
  <2> QED
    BY <1>7, <2>2, <2>5 DEF Seen, DroppedMap, ConnMap, Conn
<1> QED
  BY <1>10, <1>11

\* tcp_send_internal without memory drops a payload no later one of which was
\* handed over.
LEMMA SendFailsRefines ==
    ASSUME PairInv, NEW e \in Ends, SendFails(e)
    PROVE  App!Drop(e) \/ UNCHANGED Seen
<1>1. /\ PairTypes /\ Sender(e) /\ Taken(e) /\ Other(e) \in Ends /\ Receiver(Other(e))
      /\ Other(Other(e)) = e
  BY TwoEnds DEF PairInv, EndInv, SendFails
<1>2. /\ send_queue[e] # << >> /\ send_queue'[e] = Tail(send_queue[e])
      /\ \A d \in Ends : d # e => send_queue'[d] = send_queue[d]
      /\ Head(send_queue[e]) \in Unacked
  BY <1>1, TakenEffect
<1>3. UNCHANGED <<sent, delivered, log, port>>
  BY DEF SendFails, app, history
<1>4. PICK q \in Seq(Unacked), L \in Seq(Entry), n \in Nat, h \in Nat :
         q = send_queue[e] /\ L = log[e] /\ n = sent[e] /\ h = Head(q).data
  BY <1>1, <1>2, Fields, UnackedFields
<1>5. q # << >> /\ Waiting(e, q, L, n)
  BY <1>1, <1>2, <1>4 DEF Sender
<1>6. /\ h = 0 => Gone(n, L, Tail(q)) = Gone(n, L, q)
      /\ h # 0 => /\ h \in 1 .. n /\ h \notin Gone(n, L, q)
                  /\ Gone(n, L, Tail(q)) = Gone(n, L, q) \cup {h}
                  /\ \A j \in 1 .. Len(L) : L[j].data < h
  <2>1. /\ Head(q).data = 0 => Gone(n, L, Tail(q)) = Gone(n, L, q)
        /\ Head(q).data # 0 =>
             /\ Head(q).data \in 1 .. n /\ Head(q).data \notin Gone(n, L, q)
             /\ Gone(n, L, Tail(q)) = Gone(n, L, q) \cup {Head(q).data}
             /\ \A j \in 1 .. Len(L) : L[j].data < Head(q).data
    BY <1>5, GoneTail
  <2> QED
    BY <1>4, <2>1
<1>7. ConnMap' = ConnMap
  BY <1>3 DEF ConnMap, Conn
<1>8. /\ \A d \in Ends : d # e => Dropped(d)' = Dropped(d)
      /\ Dropped(e) = Gone(n, L, q) /\ Dropped(e)' = Gone(n, L, Tail(q))
  BY <1>2, <1>3, <1>4, DroppedOf
<1>9. CASE h = 0
  BY <1>3, <1>6, <1>7, <1>8, <1>9 DEF Seen, DroppedMap
<1>10. CASE h # 0
  <2>1. DroppedMap' = [DroppedMap EXCEPT ![e] = @ \cup {h}]
    BY <1>6, <1>8, <1>10 DEF DroppedMap
  <2>2. h \notin DroppedMap[e]
    BY <1>6, <1>8, <1>10 DEF DroppedMap
  <2>3. App!Last(App!Peer(e)) < h
    <3>1. App!Peer(e) = Other(e)
      BY DEF App!Peer, Other
    <3>2. PICK d \in Seq(Nat) : d = delivered[Other(e)]
      BY <1>1, Fields
    <3>3. CASE d = << >>
      BY <1>4, <1>10, <3>1, <3>2, <3>3 DEF App!Last
    <3>4. CASE d # << >>
      <4>1. Len(d) \in 1 .. Len(d)
        BY <3>4, EmptySeq, LenProperties
      <4>2. d[Len(d)] \in Numbered(e)
        BY <1>1, <3>2, <4>1 DEF Receiver
      <4>3. d[Len(d)] < h
        BY <1>4, <1>6, <1>10, <4>2 DEF Numbered
      <4> QED
        BY <3>1, <3>2, <3>4, <4>3 DEF App!Last
    <3> QED
      BY <3>3, <3>4
  <2>4. h \in 1 .. sent[e]
    BY <1>4, <1>6, <1>10
  <2>5. App!Drop(e)
    BY <1>3, <1>7, <2>1, <2>2, <2>3, <2>4 DEF App!Drop, ConnMap, DroppedMap
  <2> QED
    BY <2>5
<1> QED
  BY <1>9, <1>10

\* The payload that is handed over was sent and not dropped, comes after all
\* before it, and those left out between were dropped, or never reached an
\* application that had got nothing yet.
LEMMA NextPayloadFits ==
    ASSUME PairInv, NEW m \in net, NEW e \in Ends, e = m.to, Accepts(e, m),
           port[e].state = "ESTABLISHED", m.data # 0
    PROVE  /\ m.data \in 1 .. sent[App!Peer(e)] /\ App!Last(e) < m.data
           /\ m.data \notin DroppedMap[App!Peer(e)]
           /\ \/ \A k \in App!Last(e) + 1 .. m.data - 1 : k \in DroppedMap[App!Peer(e)]
              \/ e = "server" /\ delivered[e] = << >>
<1> DEFINE o == Other(e)
<1>1. /\ PairTypes /\ o \in Ends /\ Sender(o) /\ App!Peer(e) = o
  BY TwoEnds DEF PairInv, EndInv, App!Peer, Other
<1>2. PICK ack \in Nat, d \in Seq(Nat), L \in Seq(Entry), n \in Nat, v \in Nat, E \in {early[e]} :
         /\ ack = port[e].ack_num /\ d = delivered[e] /\ L = log[o]
         /\ n = sent[o] /\ v = m.data /\ E = early[e]
  BY NextPayload
<1>3. /\ Run(e, ack, d, L, E) /\ InOrder(e, d, L, n, E)
      /\ Ascending(L) /\ L[1].data = 0 /\ ack < Len(L)
      /\ v = L[ack + 1].data /\ v # 0 /\ v <= n
  BY <1>2, NextPayload
<1>4. /\ \A i \in 1 .. Len(d) : d[i] < v
      /\ ~ (e = "server" /\ d = << >>) => \A k \in 1 .. Len(L) :
            L[k].data # 0 /\ L[k].data < v => d # << >> /\ L[k].data <= d[Len(d)]
  <2>1. \A i \in 1 .. Len(d) : d[i] < v
    BY SMTT(20), <1>3, RunDeliver
  <2>2. ~ (e = "server" /\ d = << >>) => \A k \in 1 .. Len(L) :
           L[k].data # 0 /\ L[k].data < v => d # << >> /\ L[k].data <= d[Len(d)]
    BY SMTT(20), <1>3, RunDeliver
  <2> QED
    BY <2>1, <2>2
<1>5. PICK q \in Seq(Unacked) : q = send_queue[o] /\ Waiting(o, q, L, n)
  <2>1. send_queue[o] \in Seq(Unacked) /\ Waiting(o, send_queue[o], log[o], sent[o])
    BY <1>1, Fields DEF Sender
  <2> QED
    BY <1>2, <2>1
<1> HIDE DEF o
<1>6. ack + 1 \in 1 .. Len(L) /\ Len(L) \in Nat
  BY <1>3, LenProperties
<1>7. PICK last \in Nat : /\ last = App!Last(e) /\ last < v
                          /\ d # << >> => last = d[Len(d)]
  <2>1. CASE d = << >>
    <3>1. App!Last(e) = 0
      BY <1>2, <2>1 DEF App!Last
    <3>2. 0 < v
      BY <1>3
    <3> QED
      BY <2>1, <3>1, <3>2
  <2>2. CASE d # << >>
    <3>1. Len(d) \in 1 .. Len(d)
      BY <2>2, EmptySeq, LenProperties
    <3>2. d[Len(d)] \in Nat /\ d[Len(d)] < v
      BY <1>4, <3>1
    <3>3. App!Last(e) = d[Len(d)]
      BY <1>2, <2>2 DEF App!Last
    <3> QED
      BY <3>2, <3>3
  <2> QED
    BY <2>1, <2>2
<1>8. DroppedMap[o] = Gone(n, L, q)
  BY <1>1, <1>2, <1>5, DroppedOf
<1>9. v \notin Gone(n, L, q)
  BY <1>3, <1>6 DEF Gone
<1>10. ASSUME ~ (e = "server" /\ d = << >>), NEW k \in last + 1 .. v - 1
       PROVE  k \in Gone(n, L, q)
  <2>1. k \in 1 .. n /\ last < k /\ k < v /\ k # 0
    <3>1. v <= n /\ last < v
      BY <1>3, <1>7
    <3> QED
      BY <3>1
  <2>2. \A j \in 1 .. Len(L) : L[j].data # k
    <3> SUFFICES ASSUME NEW j \in 1 .. Len(L), L[j].data = k PROVE FALSE
      OBVIOUS
    <3>1. L[j].data # 0 /\ L[j].data < v
      BY <2>1
    <3>2. d # << >> /\ L[j].data <= d[Len(d)]
      BY <1>4, <1>10, <3>1
    <3>3. k <= last
      BY <1>7, <3>2
    <3> QED
      BY <2>1, <3>3
  <2>3. \A j \in 1 .. Len(q) : q[j].data # k
    <3> SUFFICES ASSUME NEW j \in 1 .. Len(q), q[j].data = k PROVE FALSE
      OBVIOUS
    <3>1. L[ack + 1].data < q[j].data
      BY <1>5, <1>6, <2>1 DEF Waiting
    <3> QED
      BY <1>3, <2>1, <3>1
  <2> QED
    BY <2>1, <2>2, <2>3 DEF Gone
<1>11. v \in 1 .. n
  BY <1>3
<1> QED
  BY <1>1, <1>2, <1>7, <1>8, <1>9, <1>10, <1>11 DEF o

\* What a segment that is taken can queue.
LEMMA InputQueues ==
    ASSUME PairInv, NEW e \in Ends,
           Enqueue(e, Item(ACK, 0, port[e].seq_num)) \/ UNCHANGED send_queue
    PROVE  /\ \A d \in Ends : d # e => send_queue'[d] = send_queue[d]
           /\ \/ send_queue'[e] = send_queue[e]
              \/ \E x \in Unacked : x.data = 0 /\ send_queue'[e] = Append(send_queue[e], x)
<1>1. PairTypes /\ port[e].seq_num \in Nat
  BY Fields DEF PairInv
<1>2. PICK x : x = Item(ACK, 0, port[e].seq_num)
  OBVIOUS
<1>3. x \in Unacked /\ x.data = 0
  <2>1. PICK c \in Controls, z \in Nat, n \in Nat : c = ACK /\ z = 0 /\ n = port[e].seq_num
    BY <1>1 DEF Controls
  <2> QED
    BY <1>2, <2>1, ItemType
<1>4. CASE Enqueue(e, x)
  BY <1>1, <1>3, <1>4, EnqueueEffect
<1> QED
  BY <1>2, <1>4

\* input_tcp_internal announces the connection, or hands over the payload the
\* application waits for, or shows nothing.
LEMMA InputRefines ==
    ASSUME PairInv, NEW m \in net, InputSegment(m)
    PROVE  \/ \E e \in Ends : App!Open(e) \/ App!Deliver(e)
           \/ UNCHANGED Seen
<1>1. PICK e \in Ends : e = m.to
  BY SegmentFields DEF PairInv, PairTypes
<1>2. /\ Accepts(e, m)
      /\ port' = [port EXCEPT ![e].ack_num = NextAck(e, m), ![e].state = NextState(e, m)]
      /\ Enqueue(e, Item(ACK, 0, port[e].seq_num)) \/ UNCHANGED send_queue
      /\ delivered' = IF port[e].state = "ESTABLISHED" /\ m.data # 0
                      THEN [delivered EXCEPT ![e] = Append(@, m.data)] ELSE delivered
      /\ UNCHANGED <<sent, log>>
  BY <1>1 DEF InputSegment
<1>3. PairTypes
  BY DEF PairInv
<1>4. /\ port'[e].state = NextState(e, m)
      /\ \A d \in Ends : d # e => port'[d].state = port[d].state
  <2>1. PICK a, st : a = NextAck(e, m) /\ st = NextState(e, m)
    OBVIOUS
  <2>2. /\ port \in [Ends -> [state : States, seq_num : Nat, ack_num : Nat]]
        /\ port' = [port EXCEPT ![e].ack_num = a, ![e].state = st]
    BY <1>2, <1>3, <2>1 DEF PairTypes
  <2>3. port'[e].state = st /\ \A d \in Ends : d # e => port'[d].state = port[d].state
    BY <2>2
  <2> QED
    BY <2>1, <2>3
<1>5. DroppedMap' = DroppedMap
  BY <1>2, InputQueues, DroppedStays
<1>6. CASE Conn(e)' = Conn(e)
  <2>1. ConnMap' = ConnMap
    BY <1>4, <1>6, ConnMoves
  <2>2. CASE ~ (port[e].state = "ESTABLISHED" /\ m.data # 0)
    BY <1>2, <1>5, <2>1, <2>2 DEF Seen
  <2>3. CASE port[e].state = "ESTABLISHED" /\ m.data # 0
    <3>1. delivered' = [delivered EXCEPT ![e] = Append(@, m.data)]
      BY <1>2, <2>3
    <3>2. ConnMap[e] = "open"
      BY <1>3, <2>3, ConnOf
    <3>3. /\ m.data \in 1 .. sent[App!Peer(e)] /\ App!Last(e) < m.data
          /\ m.data \notin DroppedMap[App!Peer(e)]
          /\ \/ \A k \in App!Last(e) + 1 .. m.data - 1 : k \in DroppedMap[App!Peer(e)]
             \/ e = "server" /\ delivered[e] = << >>
      BY <1>1, <1>2, <2>3, NextPayloadFits
    <3>4. App!Deliver(e)
      BY <1>2, <1>5, <2>1, <3>1, <3>2, <3>3 DEF App!Deliver, ConnMap, DroppedMap
    <3> QED
      BY <3>4
  <2> QED
    BY <2>2, <2>3
<1>7. CASE Conn(e)' # Conn(e)
  <2>1. /\ port'[e].state = "ESTABLISHED"
        /\ port[e].state \notin {"ESTABLISHED", "FIN_WAIT_1", "FIN_WAIT_2"}
    <3>1. port[e].state # "ESTABLISHED"
      BY <1>4, <1>7 DEF NextState, Conn
    <3>2. port[e].state \notin {"FIN_WAIT_1", "FIN_WAIT_2"}
      BY <1>4, <1>7 DEF NextState, Conn
    <3>3. port'[e].state = "ESTABLISHED"
      BY <1>4, <1>7, <3>1, <3>2 DEF NextState, Conn
    <3> QED
      BY <3>1, <3>2, <3>3
  <2>2. Conn(e)' = "open" /\ Conn(e) = "idle" /\ ConnMap[e] = "idle"
    BY <1>3, <2>1, ConnOf DEF Conn
  <2>3. ConnMap' = [ConnMap EXCEPT ![e] = "open"]
    BY <1>4, <2>2, ConnMoves
  <2>4. UNCHANGED delivered
    BY <1>2, <2>1
  <2>5. App!Open(e)
    BY <1>2, <1>5, <2>2, <2>3, <2>4 DEF App!Open, ConnMap, DroppedMap
  <2> QED
    BY <2>5
<1> QED
  BY <1>6, <1>7

\* Every step of two ports and the network is one of the stream, or is not
\* seen by the applications.
LEMMA StreamStep ==
    ASSUME PairInv, [Next]_vars
    PROVE  App!Next \/ UNCHANGED Seen
<1>1. PairTypes /\ App!Ends = Ends
  BY DEF PairInv, App!Ends, Ends
<1>2. CASE Connect \/ \E m \in net : InputListen(m)
  BY <1>2, QuietOpening
<1>3. CASE \E e \in Ends : TcpSend(e)
  BY <1>1, <1>3, SendRefines DEF App!Next
<1>4. CASE \E e \in Ends : Close(e)
  BY <1>1, <1>4, CloseRefines DEF App!Next
<1>5. CASE \E e \in Ends : SendInternal(e)
  BY <1>5, SendInternalRefines
<1>6. CASE \E e \in Ends : SendFails(e)
  BY <1>1, <1>6, SendFailsRefines DEF App!Next
<1>7. CASE \E m \in net : InputSegment(m)
  BY <1>1, <1>7, InputRefines DEF App!Next
<1>8. ASSUME UNCHANGED <<sent, log, send_queue, delivered>>,
             \A e \in Ends : port'[e].state = port[e].state
      PROVE  UNCHANGED Seen
  BY <1>8 DEF Seen, ConnMap, DroppedMap, Conn, Dropped, Numbered
<1>9. CASE \E e \in Ends : RetransmitSome(e)
  BY <1>8, <1>9 DEF RetransmitSome, Retransmit, app
<1>10. CASE \E m \in net : InputBlocks(m)
  <2>1. PICK m \in net : /\ port' = [port EXCEPT ![m.to].ack_num = NextAck(m.to, m)]
                         /\ UNCHANGED <<sent, log, send_queue, delivered>>
    BY <1>10 DEF InputBlocks, app
  <2>2. \A e \in Ends : port'[e].state = port[e].state
    <3>1. PICK a : a = NextAck(m.to, m)
      OBVIOUS
    <3>2. /\ port \in [Ends -> [state : States, seq_num : Nat, ack_num : Nat]]
          /\ port' = [port EXCEPT ![m.to].ack_num = a]
      BY <1>1, <2>1, <3>1 DEF PairTypes
    <3> QED
      BY <3>2
  <2> QED
    BY <1>8, <2>1, <2>2
<1>11. CASE \E m \in net : Lose(m)
  BY <1>8, <1>11 DEF Lose, app, history
<1>12. CASE UNCHANGED vars
  BY <1>8, <1>12 DEF vars, app, history
<1> QED
  BY <1>2, <1>3, <1>4, <1>5, <1>6, <1>7, <1>9, <1>10, <1>11, <1>12 DEF Next

\* Two ports of tcp.c implement Stream over every network and with every failure
\* of malloc and of the queues, for every number of entries and of calls: seen
\* from the callbacks, a connection is announced once and carries nothing once
\* it is closed; payloads arrive in order and none twice, and of those sent
\* before one that arrived only the dropped ones and, at the server, some at
\* the beginning are missing.
THEOREM TcpImplementsStream == Spec => StreamSafety
<1>1. Init => App!Init
  <2> SUFFICES ASSUME Init PROVE App!Init
    OBVIOUS
  <2>1. [e \in Ends |-> Conn(e)] = [e \in Ends |-> "idle"]
    BY DEF Init, Conn
  <2>2. \A e \in Ends : Dropped(e) = {}
    BY DEF Init, Dropped
  <2>3. [e \in Ends |-> Dropped(e)] = [e \in Ends |-> {}]
    BY <2>2
  <2>4. App!Ends = Ends
    BY DEF App!Ends, Ends
  <2> QED
    BY <2>1, <2>3, <2>4 DEF Init, App!Init
<1>2. PairInv /\ [Next]_vars => [App!Next]_(App!svars)
  BY StreamStep DEF App!svars, Seen, ConnMap, DroppedMap
<1> QED
  BY <1>1, <1>2, PairInvariant, PTL DEF Spec, StreamSafety, App!Spec
=============================================================================
