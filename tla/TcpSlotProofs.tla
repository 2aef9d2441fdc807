--------------------------- MODULE TcpSlotProofs ---------------------------
(***************************************************************************)
(* The retransmission entries of the TCP layer and the semaphore slots     *)
(* that stand for them.  As long as no port takes over a tuple that is in  *)
(* use, a port never has more segments under way than it has entries for,  *)
(* and loses no slot unless a malloc fails or an application sends         *)
(* nothing.  As long as no sequence number wraps, the entries of a port    *)
(* cover disjoint ranges.  For every size of the tables and queues and any *)
(* number of application tasks.                                            *)
(***************************************************************************)
EXTENDS TcpProofs

\* malloc succeeds and applications send no empty payload: not the two cases in
\* which tcp_send_internal never gives the slot of a segment back.
Lossless == ~ MallocMayFail /\ 0 \notin Lens

\* tcp_task queues a SYN or a FIN of the port it works on, and a scan is due
\* only for entries in use.
TaskHolds ==
    /\ task.pc = "reliable" =>
         /\ Reliable(task.item)
         /\ ports[task.p].self = task.item.src /\ ports[task.p].other = task.item.dst
         /\ ports[task.p].state # "LISTEN"
    /\ task.pc = "scan" =>
         \A p \in PortIdx, i \in SlotIdx : <<p, i>> \in task.due => unacked[p][i].in_use

PortsOpen ==
    \A p \in PortIdx :
       /\ ports[p].self # 0 => ports[p].state # "CLOSED"
       /\ ports[p].state = "LISTEN" => ports[p].other = NoPeer

\* No two ports have the same tuple.
TuplesDistinct ==
    \A p, q \in PortIdx :
       /\ ports[p].self # 0 /\ ports[q].self = ports[p].self
       /\ ports[q].other = ports[p].other
       => p = q

\* What a call r of tcp_send knows about the port table P: the place it
\* remembers and the tuple it remembers belong to the same port, or to none.
Refers(r, P) ==
    /\ r.deleted => r.pc = "take" /\ P[r.p].self = 0
    /\ r.pc # "idle" =>
         /\ P[r.p].self # 0 => P[r.p].other # NoPeer
         /\ Lossless => r.item.len > 0
    /\ r.pc \in {"take", "check", "queue"} =>
         /\ P[r.p].self # 0 => P[r.p].self = r.item.src /\ P[r.p].other = r.item.dst
         /\ \A q \in PortIdx :
              P[q].self # 0 /\ P[q].self = r.item.src /\ P[q].other = r.item.dst
                => q = r.p

CallsRefer == \A c \in Apps : Refers(call[c], ports)

\* Nothing is queued for a port that listens.
ListenersQuiet ==
    \A p \in PortIdx, k \in 1 .. Len(send_queue) :
       ports[p].self # 0 /\ ports[p].state = "LISTEN" /\ Reliable(send_queue[k])
         => send_queue[k].src # ports[p].self \/ send_queue[k].dst # ports[p].other

SlotSum(p) == unacked_slots[p] + Used(p) + Queued(p) + Holding(p)

Balanced ==
    \A p \in PortIdx : ports[p].self # 0 =>
       /\ SlotSum(p) <= MAX_UNACKED
       /\ Lossless => SlotSum(p) = MAX_UNACKED

SlotInv ==
    /\ TaskHolds /\ PortsOpen
    /\ ~ reused => TuplesDistinct /\ CallsRefer /\ ListenersQuiet /\ Balanced

-----------------------------------------------------------------------------
(* The terms of the sum, as functions of what they count.                  *)

Taken(u)        == {i \in SlotIdx : u[i].in_use}
Wanted(s, o)    == {x \in Params : Reliable(x) /\ x.src = s /\ x.dst = o}
Holds(r, p)     == r.pc \in {"check", "queue"} /\ r.p = p
Holders(C, p)   == {c \in Apps : Holds(C[c], p)}
Sum(n, u, Q, C, p, s, o) ==
    n + Cardinality(Taken(u)) + Count(Q, Wanted(s, o)) + Cardinality(Holders(C, p))

\* The sets that are counted are finite.
LEMMA Finite ==
    /\ \A u : IsFiniteSet(Taken(u)) /\ Cardinality(Taken(u)) \in Nat
    /\ \A C, p : IsFiniteSet(Holders(C, p)) /\ Cardinality(Holders(C, p)) \in Nat
    /\ \A Q \in Seq(Params) : \A s, o : Count(Q, Wanted(s, o)) \in Nat
<1>1. IsFiniteSet(SlotIdx) /\ IsFiniteSet(Apps)
  BY FS_Interval, TcpConstants DEF SlotIdx
<1>2. \A u : IsFiniteSet(Taken(u)) /\ Cardinality(Taken(u)) \in Nat
  <2>1. \A u : Taken(u) \subseteq SlotIdx
    BY DEF Taken
  <2> QED
    BY <1>1, <2>1, FS_Subset, FS_CardinalityType
<1>3. \A C, p : IsFiniteSet(Holders(C, p)) /\ Cardinality(Holders(C, p)) \in Nat
  <2>1. \A C, p : Holders(C, p) \subseteq Apps
    BY DEF Holders
  <2> QED
    BY <1>1, <2>1, FS_Subset, FS_CardinalityType
<1>4. \A Q \in Seq(Params) : \A s, o : Count(Q, Wanted(s, o)) \in Nat
  BY CountBound
<1> QED
  BY <1>2, <1>3, <1>4

\* The sum is a natural number.
LEMMA SumNat ==
    ASSUME NEW n \in Nat, NEW u, NEW Q \in Seq(Params), NEW C, NEW p, NEW s, NEW o
    PROVE  Sum(n, u, Q, C, p, s, o) \in Nat
<1>1. Cardinality(Taken(u)) \in Nat
  BY Finite
<1>2. Cardinality(Holders(C, p)) \in Nat
  BY Finite
<1>3. Count(Q, Wanted(s, o)) \in Nat
  BY Finite
<1> QED
  BY <1>1, <1>2, <1>3 DEF Sum

\* An empty entry is filled.
LEMMA TakenMore ==
    ASSUME NEW u \in [SlotIdx -> Unacked], NEW i \in SlotIdx, NEW e,
           ~ u[i].in_use, e.in_use
    PROVE  Cardinality(Taken([u EXCEPT ![i] = e])) = Cardinality(Taken(u)) + 1
<1> DEFINE v == [u EXCEPT ![i] = e]
<1>1. Taken(v) = Taken(u) \cup {i} /\ i \notin Taken(u)
  BY DEF Taken
<1> HIDE DEF v
<1>2. Cardinality(Taken(v)) = Cardinality(Taken(u)) + 1
  BY <1>1, Finite, FS_AddElement
<1> QED
  BY <1>2 DEF v

\* Entries in use are emptied.
LEMMA TakenLess ==
    ASSUME NEW u, NEW v, NEW rel \in SUBSET Taken(u),
           \A i \in SlotIdx : v[i] = IF i \in rel THEN Free ELSE u[i]
    PROVE  /\ Cardinality(rel) \in Nat
           /\ Cardinality(Taken(u)) = Cardinality(Taken(v)) + Cardinality(rel)
<1>1. ~ Free.in_use
  BY DEF Free
<1>2. Taken(v) = Taken(u) \ rel
  BY <1>1 DEF Taken
<1>3. IsFiniteSet(rel) /\ Cardinality(rel) \in Nat
  BY Finite, FS_Subset, FS_CardinalityType
<1>4. Cardinality(Taken(u) \ rel) = Cardinality(Taken(u)) - Cardinality(Taken(u) \cap rel)
  BY Finite, FS_Difference
<1>5. Taken(u) \cap rel = rel
  OBVIOUS
<1>6. Cardinality(Taken(u)) \in Nat
  BY Finite
<1> QED
  BY <1>2, <1>3, <1>4, <1>5, <1>6

\* A call moves: it begins to hold a slot of p, or ceases to, or neither.
LEMMA HoldersMove ==
    ASSUME NEW C, NEW D, NEW c \in Apps, NEW r, NEW p,
           \A b \in Apps : D[b] = IF b = c THEN r ELSE C[b]
    PROVE  Cardinality(Holders(D, p)) + (IF Holds(C[c], p) THEN 1 ELSE 0)
             = Cardinality(Holders(C, p)) + (IF Holds(r, p) THEN 1 ELSE 0)
<1>1. \A b \in Apps : D[b] = IF b = c THEN r ELSE C[b]
  OBVIOUS
<1>2. IsFiniteSet(Holders(C, p)) /\ Cardinality(Holders(C, p)) \in Nat
      /\ IsFiniteSet(Holders(D, p)) /\ Cardinality(Holders(D, p)) \in Nat
  BY Finite
<1>3. CASE Holds(C[c], p) /\ Holds(r, p)
  <2>1. Holders(D, p) = Holders(C, p)
    BY <1>1, <1>3 DEF Holders
  <2> QED
    BY <1>2, <1>3, <2>1
<1>4. CASE Holds(C[c], p) /\ ~ Holds(r, p)
  <2>1. Holders(C, p) = Holders(D, p) \cup {c} /\ c \notin Holders(D, p)
    BY <1>1, <1>4 DEF Holders
  <2>2. Cardinality(Holders(C, p)) = Cardinality(Holders(D, p)) + 1
    BY <1>2, <2>1, FS_AddElement
  <2> QED
    BY <1>2, <1>4, <2>2
<1>5. CASE ~ Holds(C[c], p) /\ Holds(r, p)
  <2>1. Holders(D, p) = Holders(C, p) \cup {c} /\ c \notin Holders(C, p)
    BY <1>1, <1>5 DEF Holders
  <2>2. Cardinality(Holders(D, p)) = Cardinality(Holders(C, p)) + 1
    BY <1>2, <2>1, FS_AddElement
  <2> QED
    BY <1>2, <1>5, <2>2
<1>6. CASE ~ Holds(C[c], p) /\ ~ Holds(r, p)
  <2>1. Holders(D, p) = Holders(C, p)
    BY <1>1, <1>6 DEF Holders
  <2> QED
    BY <1>2, <1>6, <2>1
<1> QED
  BY <1>3, <1>4, <1>5, <1>6

\* SlotSum is the sum of these terms, before a step and after it.
LEMMA SumBefore ==
    ASSUME TypeOK, NEW p \in PortIdx
    PROVE  SlotSum(p) = Sum(unacked_slots[p], unacked[p], send_queue, call, p,
                            ports[p].self, ports[p].other)
<1>1. \A k \in 1 .. Len(send_queue) : send_queue[k] \in Params
  BY DEF TypeOK
<1>2. {k \in 1 .. Len(send_queue) : /\ Reliable(send_queue[k])
                                    /\ send_queue[k].src = ports[p].self
                                    /\ send_queue[k].dst = ports[p].other}
        = Positions(send_queue, Wanted(ports[p].self, ports[p].other))
  BY <1>1 DEF Positions, Wanted
<1> QED
  BY <1>2 DEF SlotSum, Sum, Used, Queued, Holding, Taken, Holders, Holds, Count

\* SlotSum in the next state, as a function of what it counts.
LEMMA SumAfter ==
    ASSUME TypeOK', NEW p \in PortIdx
    PROVE  SlotSum(p)' = Sum(unacked_slots'[p], unacked'[p], send_queue', call', p,
                             ports'[p].self, ports'[p].other)
<1>1. \A k \in 1 .. Len(send_queue') : send_queue'[k] \in Params
  BY DEF TypeOK
<1>2. {k \in 1 .. Len(send_queue') : /\ Reliable(send_queue'[k])
                                     /\ send_queue'[k].src = ports'[p].self
                                     /\ send_queue'[k].dst = ports'[p].other}
        = Positions(send_queue', Wanted(ports'[p].self, ports'[p].other))
  BY <1>1 DEF Positions, Wanted
<1> QED
  BY <1>2 DEF SlotSum, Sum, Used, Queued, Holding, Taken, Holders, Holds, Count

-----------------------------------------------------------------------------
(* Steps that give no port a new tuple.                                    *)

PortsKept ==
    \A p \in PortIdx :
       /\ ports'[p].self \in {ports[p].self, 0}
       /\ ports'[p].other = ports[p].other
       /\ ports'[p].state = "LISTEN" => ports[p].state = "LISTEN"

\* Ports that keep or give up their tuples stay distinct.
LEMMA TuplesStep ==
    ASSUME TuplesDistinct, PortsKept
    PROVE  TuplesDistinct'
BY DEF TuplesDistinct, PortsKept

\* A call still refers to its port when ports only keep or give up their
\* tuples.
LEMMA RefersStep ==
    ASSUME PortsKept, NEW r \in Call, Refers(r, ports)
    PROVE  Refers(r, ports')
<1>1. r.p \in PortIdx
  BY DEF Call
<1>2. /\ ports'[r.p].self \in {ports[r.p].self, 0}
      /\ ports'[r.p].other = ports[r.p].other
  BY <1>1 DEF PortsKept
<1>3. \A q \in PortIdx : /\ ports'[q].self \in {ports[q].self, 0}
                         /\ ports'[q].other = ports[q].other
  BY DEF PortsKept
<1> QED
  BY <1>2, <1>3 DEF Refers

\* So do all calls, when none of them moves.
LEMMA CallsSame ==
    ASSUME TypeOK, CallsRefer, PortsKept, call' = call
    PROVE  CallsRefer'
<1> SUFFICES ASSUME NEW c \in Apps PROVE Refers(call[c], ports')
  BY DEF CallsRefer
<1>1. PICK r : r = call[c]
  OBVIOUS
<1>2. r \in Call /\ Refers(r, ports)
  BY <1>1 DEF TypeOK, CallsRefer
<1>3. Refers(r, ports')
  BY <1>2, RefersStep
<1> QED
  BY <1>1, <1>3

\* One call moves to r, which refers to its port; the others stay.
LEMMA CallsMove ==
    ASSUME TypeOK, CallsRefer, ports' = ports, NEW c \in Apps, NEW r,
           call' = [call EXCEPT ![c] = r], Refers(r, ports)
    PROVE  CallsRefer'
<1>1. call \in [Apps -> Call]
  BY DEF TypeOK
<1>2. \A b \in Apps : call'[b] = IF b = c THEN r ELSE call[b]
  BY <1>1
<1>3. \A b \in Apps : Refers(call'[b], ports)
  BY <1>2 DEF CallsRefer
<1> QED
  BY <1>3 DEF CallsRefer

\* Nothing is queued for a listener when the queue stays the same,
LEMMA QuietSame ==
    ASSUME ListenersQuiet, PortsKept, send_queue' = send_queue
    PROVE  ListenersQuiet'
BY DEF ListenersQuiet, PortsKept

\* when an item is taken off it,
LEMMA QuietTail ==
    ASSUME TypeOK, ListenersQuiet, PortsKept,
           send_queue # << >>, send_queue' = Tail(send_queue)
    PROVE  ListenersQuiet'
<1>1. /\ Len(send_queue) \in Nat \ {0} /\ Len(send_queue') = Len(send_queue) - 1
      /\ \A k \in 1 .. Len(send_queue) - 1 : send_queue'[k] = send_queue[k + 1]
  BY HeadTailProperties, EmptySeq, LenProperties DEF TypeOK
<1>2. \A k \in 1 .. Len(send_queue') :
         k + 1 \in 1 .. Len(send_queue) /\ send_queue'[k] = send_queue[k + 1]
  BY <1>1
<1> QED
  BY <1>2 DEF ListenersQuiet, PortsKept

\* and when an item is added that is not for a listener.
LEMMA QuietAppend ==
    ASSUME TypeOK, ListenersQuiet, PortsKept, NEW x \in Params,
           send_queue' = Append(send_queue, x),
           \A p \in PortIdx :
              ports[p].self # 0 /\ ports[p].state = "LISTEN" /\ Reliable(x)
                => x.src # ports[p].self \/ x.dst # ports[p].other
    PROVE  ListenersQuiet'
<1>1. send_queue \in Seq(Params)
  BY DEF TypeOK
<1>2. \A k \in 1 .. Len(send_queue') :
         send_queue'[k] = x \/ (k \in 1 .. Len(send_queue) /\ send_queue'[k] = send_queue[k])
  BY <1>1
<1> QED
  BY <1>2 DEF ListenersQuiet, PortsKept

\* A step that leaves each port's sum alone, or lowers it by one where
\* slots may be lost, keeps Balanced.
LEMMA BalanceStep ==
    ASSUME TypeOK, TypeOK', Balanced, PortsKept,
           \A p \in PortIdx : ports'[p].self # 0 =>
              LET before == Sum(unacked_slots[p], unacked[p], send_queue, call, p,
                                ports[p].self, ports[p].other)
                  after  == Sum(unacked_slots'[p], unacked'[p], send_queue', call', p,
                                ports[p].self, ports[p].other)
              IN  after = before \/ (~ Lossless /\ after + 1 = before)
    PROVE  Balanced'
<1> SUFFICES ASSUME NEW p \in PortIdx, ports'[p].self # 0
             PROVE  /\ SlotSum(p)' <= MAX_UNACKED
                    /\ Lossless => SlotSum(p)' = MAX_UNACKED
  BY DEF Balanced
<1> DEFINE before == Sum(unacked_slots[p], unacked[p], send_queue, call, p,
                         ports[p].self, ports[p].other)
           after  == Sum(unacked_slots'[p], unacked'[p], send_queue', call', p,
                         ports[p].self, ports[p].other)
<1>1. ports'[p].self = ports[p].self /\ ports'[p].other = ports[p].other
  BY DEF PortsKept
<1>2. SlotSum(p)' = after
  BY <1>1, SumAfter
<1>3. SlotSum(p) = before
  BY SumBefore
<1>4. before <= MAX_UNACKED /\ (Lossless => before = MAX_UNACKED)
  BY <1>1, <1>3 DEF Balanced
<1>5. before \in Nat /\ after \in Nat
  <2>1. /\ unacked_slots[p] \in Nat /\ unacked_slots'[p] \in Nat
        /\ send_queue \in Seq(Params) /\ send_queue' \in Seq(Params)
    BY DEF TypeOK
  <2> QED
    BY <2>1, SumNat
<1>6. after = before \/ (~ Lossless /\ after + 1 = before)
  OBVIOUS
<1> HIDE DEF before, after
<1> QED
  BY <1>2, <1>4, <1>5, <1>6, TcpConstants

\* A step that leaves the port table alone.
LEMMA PortsSame ==
    ASSUME ports' = ports
    PROVE  PortsKept /\ (PortsOpen => PortsOpen')
BY DEF PortsKept, PortsOpen

\* A step that leaves alone what TaskHolds speaks of.
LEMMA TaskSame ==
    ASSUME TaskHolds, UNCHANGED <<ports, unacked, task>>
    PROVE  TaskHolds'
BY DEF TaskHolds

\* Only tcp_task moves.
LEMMA TaskMoves ==
    ASSUME TypeOK, TypeOK', SlotInv, TaskHolds',
           UNCHANGED <<ports, unacked, unacked_slots, send_queue, call, reused>>
    PROVE  SlotInv'
<1>1. PortsOpen' /\ PortsKept
  BY PortsSame DEF SlotInv
<1>2. ASSUME ~ reused'
      PROVE  TuplesDistinct' /\ CallsRefer' /\ ListenersQuiet' /\ Balanced'
  <2>1. TuplesDistinct /\ CallsRefer /\ ListenersQuiet /\ Balanced
    BY <1>2 DEF SlotInv
  <2>2. Balanced'
    BY <1>1, <2>1, BalanceStep
  <2> QED
    BY <1>1, <2>1, <2>2, TuplesStep, CallsSame, QuietSame
<1> QED
  BY <1>1, <1>2 DEF SlotInv

-----------------------------------------------------------------------------
(* Application tasks.                                                      *)

\* One call moves and takes a slot of its port, or gives it back, or neither.
LEMMA CallStep ==
    ASSUME TypeOK, TypeOK', SlotInv, NEW c \in Apps, NEW r,
           call' = [call EXCEPT ![c] = r],
           UNCHANGED <<ports, unacked, send_queue, task, reused>>,
           ~ reused => Refers(r, ports),
           ~ reused => \A p \in PortIdx : ports[p].self # 0 =>
              unacked_slots'[p] + (IF Holds(r, p) THEN 1 ELSE 0)
                = unacked_slots[p] + (IF Holds(call[c], p) THEN 1 ELSE 0)
    PROVE  SlotInv'
<1>1. PortsOpen' /\ PortsKept /\ TaskHolds'
  BY PortsSame, TaskSame DEF SlotInv
<1>2. ASSUME ~ reused'
      PROVE  TuplesDistinct' /\ CallsRefer' /\ ListenersQuiet' /\ Balanced'
  <2>1. TuplesDistinct /\ CallsRefer /\ ListenersQuiet /\ Balanced
    BY <1>2 DEF SlotInv
  <2>2. CallsRefer'
    BY <1>2, <2>1, CallsMove
  <2>3. ASSUME NEW p \in PortIdx, ports'[p].self # 0
        PROVE  Sum(unacked_slots'[p], unacked'[p], send_queue', call', p,
                   ports[p].self, ports[p].other)
               = Sum(unacked_slots[p], unacked[p], send_queue, call, p,
                     ports[p].self, ports[p].other)
    <3>1. unacked_slots'[p] + (IF Holds(r, p) THEN 1 ELSE 0)
            = unacked_slots[p] + (IF Holds(call[c], p) THEN 1 ELSE 0)
      BY <1>2, <2>3
    <3>2. PICK C, D : C = call /\ D = [C EXCEPT ![c] = r]
      OBVIOUS
    <3>3. C \in [Apps -> Call] /\ call' = D
      BY <3>2 DEF TypeOK
    <3>4. Cardinality(Holders(D, p)) + (IF Holds(C[c], p) THEN 1 ELSE 0)
            = Cardinality(Holders(C, p)) + (IF Holds(r, p) THEN 1 ELSE 0)
      <4>1. \A b \in Apps : D[b] = IF b = c THEN r ELSE C[b]
        BY <3>2, <3>3
      <4> QED
        BY <4>1, HoldersMove
    <3>5. Cardinality(Holders(D, p)) \in Nat /\ Cardinality(Holders(C, p)) \in Nat
      BY Finite
    <3>6. unacked_slots[p] \in Nat /\ unacked_slots'[p] \in Nat
      BY DEF TypeOK
    <3>7. unacked_slots'[p] + Cardinality(Holders(D, p))
            = unacked_slots[p] + Cardinality(Holders(C, p))
      BY <3>1, <3>2, <3>4, <3>5, <3>6
    <3>8. /\ Cardinality(Taken(unacked[p])) \in Nat
          /\ Count(send_queue, Wanted(ports[p].self, ports[p].other)) \in Nat
      BY Finite DEF TypeOK
    <3> QED
      BY <3>2, <3>3, <3>5, <3>6, <3>7, <3>8 DEF Sum
  <2>4. Balanced'
    BY <1>1, <2>1, <2>3, BalanceStep
  <2> QED
    BY <1>1, <2>1, <2>2, <2>4, TuplesStep, QuietSame
<1> QED
  BY <1>1, <1>2 DEF SlotInv

\* An idle call holds no slot and refers to no port.
LEMMA IdleRefers ==
    /\ \A p : ~ Holds(Idle, p)
    /\ \A P : Refers(Idle, P)
BY DEF Idle, Holds, Refers

\* A new call of tcp_send holds no slot yet.
LEMMA TcpSendSlots ==
    ASSUME TypeOK, TypeOK', SlotInv, NEW c \in Apps, NEW self \in PortNums,
           NEW other \in Peers, NEW d \in Blocks, NEW len \in Lens, NEW wait \in Waits,
           TcpSend(c, self, other, d, len, wait)
    PROVE  SlotInv'
<1> DEFINE p == Min(FindPort(self, other))
           item == [NoParams EXCEPT !.data = d, !.len = len]
<1>1. PICK r : r = [pc |-> "params", p |-> p, item |-> item, wait |-> wait,
                    deleted |-> FALSE]
  OBVIOUS
<1>2. /\ call' = [call EXCEPT ![c] = r] /\ call[c].pc = "idle"
      /\ UNCHANGED <<ports, unacked, unacked_slots, send_queue, task, reused>>
  BY <1>1 DEF TcpSend, tables, queues
<1>3. r.pc = "params" /\ r.p = p /\ ~ r.deleted /\ r.item.len = len
  BY <1>1 DEF NoParams
<1>4. p \in FindPort(self, other)
  <2>1. FindPort(self, other) \in SUBSET PortIdx /\ FindPort(self, other) # {}
    BY DEF FindPort, TcpSend
  <2> QED
    BY <2>1, FirstPort
<1>5. ports[p].other # NoPeer
  BY <1>4, TcpConstants DEF FindPort
<1>6. Lossless => len > 0
  BY TcpConstants DEF Lossless
<1>7. Refers(r, ports)
  BY <1>3, <1>5, <1>6 DEF Refers
<1>8. \A q \in PortIdx : ~ Holds(r, q) /\ ~ Holds(call[c], q)
  BY <1>2, <1>3 DEF Holds
<1>9. \A q \in PortIdx : unacked_slots'[q] + (IF Holds(r, q) THEN 1 ELSE 0)
                           = unacked_slots[q] + (IF Holds(call[c], q) THEN 1 ELSE 0)
  BY <1>2, <1>8
<1> QED
  BY <1>2, <1>7, <1>9, CallStep

\* The call now remembers the tuple of its port, and holds no slot yet.
LEMMA SendParamsSlots ==
    ASSUME TypeOK, TypeOK', SlotInv, NEW c \in Apps, SendParams(c)
    PROVE  SlotInv'
<1> DEFINE port  == ports[call[c].p]
           found == FindPort(port.self, port.other)
           item  == [call[c].item EXCEPT !.src = port.self, !.dst = port.other,
                                         !.ctrl = {"ACK", "PSH"}]
<1>1. PICK r : r = [call[c] EXCEPT !.pc = "take", !.p = Min(found), !.item = item]
  OBVIOUS
<1>2. /\ call[c] \in Call /\ call[c].item \in Params /\ call[c].p \in PortIdx
      /\ call[c].pc = "params" /\ call \in [Apps -> Call]
  BY CallType DEF SendParams, TypeOK
<1>3. /\ call' = [call EXCEPT ![c] = r]
      /\ UNCHANGED <<ports, unacked, unacked_slots, send_queue, task, reused>>
  <2>1. call' = [call EXCEPT ![c].pc = "take", ![c].p = Min(found), ![c].item = item]
    BY DEF SendParams
  <2>2. call' = [call EXCEPT ![c] = r]
    BY <1>1, <1>2, <2>1
  <2> QED
    BY <2>2 DEF SendParams, tables, queues
<1>4. Min(found) \in found
  <2>1. found \in SUBSET PortIdx /\ call[c].p \in found
    BY <1>2 DEF FindPort
  <2> QED
    BY <2>1, FirstPort
<1>5. /\ item.src = port.self /\ item.dst = port.other /\ item.len = call[c].item.len
  BY <1>2 DEF Params
<1>6. /\ r.pc = "take" /\ r.p = Min(found) /\ r.deleted = call[c].deleted
      /\ r.item.src = port.self /\ r.item.dst = port.other
      /\ r.item.len = call[c].item.len
  BY <1>1, <1>2, <1>5 DEF Call
<1>7. /\ Min(found) \in PortIdx /\ ports[Min(found)].self = port.self
      /\ ports[Min(found)].other = port.other
  BY <1>4 DEF FindPort
<1>8. ASSUME ~ reused PROVE Refers(r, ports)
  <2>1. TuplesDistinct /\ Refers(call[c], ports)
    BY <1>8 DEF SlotInv, CallsRefer
  <2>2. ~ call[c].deleted /\ (port.self # 0 => port.other # NoPeer)
        /\ (Lossless => call[c].item.len > 0)
    BY <1>2, <2>1 DEF Refers
  <2>3. \A q \in PortIdx : ports[q].self # 0 /\ ports[q].self = port.self
                             /\ ports[q].other = port.other => q = Min(found)
    BY <1>7, <2>1 DEF TuplesDistinct
  <2> QED
    BY <1>6, <1>7, <2>2, <2>3 DEF Refers
<1>9. \A q \in PortIdx : unacked_slots'[q] + (IF Holds(r, q) THEN 1 ELSE 0)
                           = unacked_slots[q] + (IF Holds(call[c], q) THEN 1 ELSE 0)
  BY <1>2, <1>3, <1>6 DEF Holds
<1> QED
  BY <1>3, <1>8, <1>9, CallStep

\* A free slot becomes one the call holds.
LEMMA TakeSlotSlots ==
    ASSUME TypeOK, TypeOK', SlotInv, NEW c \in Apps, TakeSlot(c)
    PROVE  SlotInv'
<1>1. PICK r : r = [call[c] EXCEPT !.pc = "check"]
  OBVIOUS
<1>2. /\ call[c] \in Call /\ call[c].p \in PortIdx
      /\ unacked_slots[call[c].p] \in 0 .. MAX_UNACKED
  BY CallType
<1>3. /\ call' = [call EXCEPT ![c] = r]
      /\ UNCHANGED <<ports, unacked, send_queue, task, reused>>
      /\ call[c].pc = "take" /\ ~ call[c].deleted
  BY <1>1 DEF TakeSlot, queues, Exists
<1>4. /\ r.pc = "check" /\ r.p = call[c].p /\ r.item = call[c].item
      /\ r.deleted = call[c].deleted
  BY <1>1, <1>2 DEF Call
<1>5. ASSUME ~ reused PROVE Refers(r, ports)
  <2>1. Refers(call[c], ports)
    BY <1>5 DEF SlotInv, CallsRefer
  <2> QED
    BY <1>3, <1>4, <2>1 DEF Refers
<1>6. \A q \in PortIdx : unacked_slots'[q] + (IF Holds(r, q) THEN 1 ELSE 0)
                           = unacked_slots[q] + (IF Holds(call[c], q) THEN 1 ELSE 0)
  <2>1. unacked_slots \in [PortIdx -> 0 .. MAX_UNACKED]
    BY DEF TypeOK
  <2>2. \A q \in PortIdx : unacked_slots'[q] = IF q = call[c].p THEN unacked_slots[q] - 1
                                               ELSE unacked_slots[q]
    BY <2>1 DEF TakeSlot
  <2>3. \A q \in PortIdx : (Holds(r, q) <=> q = call[c].p) /\ ~ Holds(call[c], q)
    BY <1>3, <1>4 DEF Holds
  <2> QED
    BY <2>1, <2>2, <2>3, TcpConstants
<1> QED
  BY <1>3, <1>5, <1>6, CallStep

\* A call that holds no slot of a port in use gives up.
LEMMA FailSlots ==
    ASSUME TypeOK, TypeOK', SlotInv, NEW c \in Apps, Fail(c),
           \A p \in PortIdx : ports[p].self # 0 => ~ Holds(call[c], p),
           UNCHANGED <<ports, unacked, unacked_slots, send_queue, task, reused>>
    PROVE  SlotInv'
<1>1. PICK r : r = Idle
  OBVIOUS
<1>2. call' = [call EXCEPT ![c] = r]
  BY <1>1 DEF Fail
<1>3. Refers(r, ports)
  BY <1>1, IdleRefers
<1>4. \A q \in PortIdx : ports[q].self # 0 =>
        unacked_slots'[q] + (IF Holds(r, q) THEN 1 ELSE 0)
          = unacked_slots[q] + (IF Holds(call[c], q) THEN 1 ELSE 0)
  BY <1>1, IdleRefers
<1> QED
  BY <1>2, <1>3, <1>4, CallStep

\* The call gives up before it holds a slot.
LEMMA TakeTimeoutSlots ==
    ASSUME TypeOK, TypeOK', SlotInv, NEW c \in Apps, TakeTimeout(c)
    PROVE  SlotInv'
<1>1. /\ Fail(c) /\ call[c].pc = "take"
      /\ UNCHANGED <<ports, unacked, unacked_slots, send_queue, task, reused>>
  BY DEF TakeTimeout, tables, queues
<1>2. \A p \in PortIdx : ~ Holds(call[c], p)
  BY <1>1 DEF Holds
<1> QED
  BY <1>1, <1>2, FailSlots

\* A take of a deleted semaphore that seems to succeed is of a port without
\* tuple, whose slots are not counted.
LEMMA TakeDeletedSlots ==
    ASSUME TypeOK, TypeOK', SlotInv, NEW c \in Apps, TakeDeleted(c)
    PROVE  SlotInv'
<1>1. /\ call[c].pc = "take" /\ ~ Exists(c)
      /\ UNCHANGED <<ports, unacked, unacked_slots, send_queue, task, reused>>
  BY DEF TakeDeleted, tables, queues
<1>2. \A p \in PortIdx : ~ Holds(call[c], p)
  BY <1>1 DEF Holds
<1>3. CASE Fail(c)
  BY <1>1, <1>2, <1>3, FailSlots
<1>4. CASE call' = [call EXCEPT ![c].pc = "check", ![c].deleted = FALSE]
  <2>1. PICK r : r = [call[c] EXCEPT !.pc = "check", !.deleted = FALSE]
    OBVIOUS
  <2>2. call[c] \in Call /\ call \in [Apps -> Call]
    BY DEF TypeOK
  <2>3. call' = [call EXCEPT ![c] = r]
    BY <1>4, <2>1, <2>2
  <2>4. /\ r.pc = "check" /\ r.p = call[c].p /\ r.item = call[c].item /\ ~ r.deleted
    BY <2>1, <2>2 DEF Call
  <2>5. ASSUME ~ reused PROVE Refers(r, ports) /\ ports[r.p].self = 0
    <3>1. Refers(call[c], ports)
      BY <2>5 DEF SlotInv, CallsRefer
    <3> QED
      BY <1>1, <2>4, <3>1 DEF Refers, Exists
  <2>6. ~ reused => \A q \in PortIdx : ports[q].self # 0 =>
          unacked_slots'[q] + (IF Holds(r, q) THEN 1 ELSE 0)
            = unacked_slots[q] + (IF Holds(call[c], q) THEN 1 ELSE 0)
    BY <1>1, <1>2, <2>5 DEF Holds
  <2> QED
    BY <1>1, <2>3, <2>5, <2>6, CallStep
<1> QED
  BY <1>3, <1>4 DEF TakeDeleted

\* A port with a tuple is not CLOSED, so no call that holds one of its
\* slots fails here.
LEMMA CheckClosedSlots ==
    ASSUME TypeOK, TypeOK', SlotInv, NEW c \in Apps, CheckClosed(c)
    PROVE  SlotInv'
<1>1. /\ call[c].pc = "check" /\ call[c].p \in PortIdx
      /\ UNCHANGED <<ports, unacked, unacked_slots, send_queue, task, reused>>
  BY CallType DEF CheckClosed, tables, queues
<1>2. CASE ports[call[c].p].state = "CLOSED" /\ Fail(c)
  <2>1. ports[call[c].p].self = 0
    BY <1>1, <1>2 DEF SlotInv, PortsOpen
  <2>2. \A p \in PortIdx : ports[p].self # 0 => ~ Holds(call[c], p)
    BY <2>1 DEF Holds
  <2> QED
    BY <1>1, <1>2, <2>2, FailSlots
<1>3. CASE call' = [call EXCEPT ![c].pc = "queue"]
  <2>1. PICK r : r = [call[c] EXCEPT !.pc = "queue"]
    OBVIOUS
  <2>2. call[c] \in Call /\ call' = [call EXCEPT ![c] = r]
    BY <1>3, <2>1 DEF TypeOK
  <2>3. /\ r.pc = "queue" /\ r.p = call[c].p /\ r.item = call[c].item
        /\ r.deleted = call[c].deleted
    BY <2>1, <2>2 DEF Call
  <2>4. ASSUME ~ reused PROVE Refers(r, ports)
    <3>1. Refers(call[c], ports)
      BY <2>4 DEF SlotInv, CallsRefer
    <3> QED
      BY <1>1, <2>3, <3>1 DEF Refers
  <2>5. \A q \in PortIdx : unacked_slots'[q] + (IF Holds(r, q) THEN 1 ELSE 0)
                             = unacked_slots[q] + (IF Holds(call[c], q) THEN 1 ELSE 0)
    BY <1>1, <2>3 DEF Holds
  <2> QED
    BY <1>1, <2>2, <2>4, <2>5, CallStep
<1> QED
  BY <1>2, <1>3 DEF CheckClosed

\* While a call holds a slot, the semaphore is below its limit.
LEMMA HeldRoom ==
    ASSUME TypeOK, Balanced, NEW c \in Apps, NEW p \in PortIdx, ports[p].self # 0,
           Holds(call[c], p)
    PROVE  unacked_slots[p] < MAX_UNACKED
<1>1. c \in Holders(call, p)
  BY DEF Holders
<1>2. IsFiniteSet(Holders(call, p)) /\ Cardinality(Holders(call, p)) \in Nat
  BY Finite
<1>3. Cardinality(Holders(call, p)) # 0
  BY <1>1, <1>2, FS_EmptySet
<1>4. /\ unacked_slots[p] \in Nat /\ Cardinality(Taken(unacked[p])) \in Nat
      /\ Count(send_queue, Wanted(ports[p].self, ports[p].other)) \in Nat
  BY Finite DEF TypeOK
<1>5. unacked_slots[p] + Cardinality(Taken(unacked[p]))
        + Count(send_queue, Wanted(ports[p].self, ports[p].other))
        + Cardinality(Holders(call, p)) <= MAX_UNACKED
  BY SumBefore DEF Balanced, Sum
<1> QED
  BY <1>2, <1>3, <1>4, <1>5, TcpConstants

\* The slot the call holds is free again.
LEMMA EnqueueFullSlots ==
    ASSUME TypeOK, TypeOK', SlotInv, NEW c \in Apps, EnqueueFull(c)
    PROVE  SlotInv'
<1>1. /\ call[c].pc = "queue" /\ call[c].p \in PortIdx
      /\ UNCHANGED <<ports, unacked, send_queue, task, reused>>
  BY CallType DEF EnqueueFull, queues
<1>2. PICK r : r = Idle
  OBVIOUS
<1>3. call' = [call EXCEPT ![c] = r] /\ Refers(r, ports) /\ \A q : ~ Holds(r, q)
  BY <1>2, IdleRefers DEF EnqueueFull, Fail
<1>4. unacked_slots \in [PortIdx -> 0 .. MAX_UNACKED]
  BY DEF TypeOK
<1>5. ASSUME ~ reused, NEW q \in PortIdx, ports[q].self # 0
      PROVE  unacked_slots'[q] + (IF Holds(r, q) THEN 1 ELSE 0)
               = unacked_slots[q] + (IF Holds(call[c], q) THEN 1 ELSE 0)
  <2>1. CASE q = call[c].p
    <3>1. Holds(call[c], q)
      BY <1>1, <2>1 DEF Holds
    <3>2. unacked_slots[q] < MAX_UNACKED
      BY <1>5, <3>1, HeldRoom DEF SlotInv
    <3>3. unacked_slots'[q] = Given(unacked_slots[q])
      BY <1>1, <1>4, <1>5, <2>1 DEF EnqueueFull
    <3>4. unacked_slots'[q] = unacked_slots[q] + 1
      BY <3>2, <3>3 DEF Given
    <3> QED
      BY <1>3, <1>4, <3>1, <3>4
  <2>2. CASE q # call[c].p
    <3>1. unacked_slots'[q] = unacked_slots[q] /\ ~ Holds(call[c], q)
      BY <1>4, <2>2 DEF EnqueueFull, Holds
    <3> QED
      BY <1>3, <3>1
  <2> QED
    BY <2>1, <2>2
<1> QED
  BY <1>1, <1>3, <1>5, CallStep

\* A segment is kept when it has a payload, a SYN or a FIN, and only then.
LEMMA ReliableItem ==
    ASSUME NEW x \in Params
    PROVE  /\ x.len > 0 => Reliable(x)
           /\ "SYN" \in x.ctrl \/ "FIN" \in x.ctrl => Reliable(x)
           /\ ~ ("SYN" \in x.ctrl \/ "FIN" \in x.ctrl) /\ x.len = 0 => ~ Reliable(x)
<1>1. x.len \in Nat
  BY DEF Params
<1> QED
  BY <1>1 DEF Reliable, SeqIncrement

\* The slot of a call goes to the segment it queues.
LEMMA EnqueueSegmentSlots ==
    ASSUME TypeOK, TypeOK', SlotInv, NEW c \in Apps, EnqueueSegment(c)
    PROVE  SlotInv'
<1>1. PICK x, r : x = call[c].item /\ r = Idle
  OBVIOUS
<1>2. /\ send_queue' = Append(send_queue, x) /\ call' = [call EXCEPT ![c] = r]
      /\ call[c].pc = "queue" /\ call[c].p \in PortIdx /\ x \in Params
      /\ UNCHANGED <<ports, unacked, unacked_slots, task, reused>>
  BY <1>1, CallType DEF EnqueueSegment, QueueSend, tables
<1>3. Refers(r, ports) /\ \A q : ~ Holds(r, q)
  BY <1>1, IdleRefers
<1>4. PortsOpen' /\ PortsKept /\ TaskHolds'
  BY <1>2, PortsSame, TaskSame DEF SlotInv
<1>5. ASSUME ~ reused'
      PROVE  TuplesDistinct' /\ CallsRefer' /\ ListenersQuiet' /\ Balanced'
  <2>1. TuplesDistinct /\ CallsRefer /\ ListenersQuiet /\ Balanced /\ PortsOpen
    BY <1>2, <1>5 DEF SlotInv
  <2>2. /\ ports[call[c].p].self # 0 =>
             ports[call[c].p].self = x.src /\ ports[call[c].p].other = x.dst
        /\ ports[call[c].p].self # 0 => ports[call[c].p].other # NoPeer
        /\ \A q \in PortIdx :
             ports[q].self # 0 /\ ports[q].self = x.src /\ ports[q].other = x.dst
               => q = call[c].p
        /\ Lossless => x.len > 0
    BY <1>1, <1>2, <2>1 DEF CallsRefer, Refers
  <2>3. CallsRefer'
    BY <1>2, <1>3, <2>1, CallsMove
  <2>4. ListenersQuiet'
    <3>1. \A p \in PortIdx :
             ports[p].self # 0 /\ ports[p].state = "LISTEN" /\ Reliable(x)
               => x.src # ports[p].self \/ x.dst # ports[p].other
      BY <2>1, <2>2 DEF PortsOpen
    <3> QED
      BY <1>2, <1>4, <2>1, <3>1, QuietAppend
  <2>5. ASSUME NEW p \in PortIdx, ports'[p].self # 0
        PROVE  LET before == Sum(unacked_slots[p], unacked[p], send_queue, call, p,
                                 ports[p].self, ports[p].other)
                   after  == Sum(unacked_slots'[p], unacked'[p], send_queue', call', p,
                                 ports[p].self, ports[p].other)
               IN  after = before \/ (~ Lossless /\ after + 1 = before)
    <3>1. PICK C, D, Q, W, a, n, m, g, h :
             /\ C = call /\ D = [C EXCEPT ![c] = r] /\ Q = send_queue
             /\ W = Wanted(ports[p].self, ports[p].other)
             /\ a = unacked_slots[p] + Cardinality(Taken(unacked[p]))
             /\ n = Count(Q, W) /\ m = Count(Append(Q, x), W)
             /\ g = Cardinality(Holders(C, p)) /\ h = Cardinality(Holders(D, p))
      OBVIOUS
    <3>2. Q \in Seq(Params) /\ C \in [Apps -> Call]
      BY <3>1 DEF TypeOK
    <3>3. m = n + (IF x \in W THEN 1 ELSE 0)
      BY <1>2, <3>1, <3>2, CountAppend
    <3>4. h + (IF Holds(C[c], p) THEN 1 ELSE 0) = g
      <4>1. \A b \in Apps : D[b] = IF b = c THEN r ELSE C[b]
        BY <3>1, <3>2
      <4>2. Cardinality(Holders(D, p)) + (IF Holds(C[c], p) THEN 1 ELSE 0)
              = Cardinality(Holders(C, p)) + (IF Holds(r, p) THEN 1 ELSE 0)
        BY <4>1, HoldersMove
      <4>3. g \in Nat
        BY <3>1, Finite
      <4> QED
        BY <1>3, <3>1, <4>2, <4>3
    <3>5. Holds(C[c], p) <=> p = call[c].p
      BY <1>2, <3>1 DEF Holds
    <3>6. x \in W <=> p = call[c].p /\ Reliable(x)
      <4>1. x \in W <=> Reliable(x) /\ x.src = ports[p].self /\ x.dst = ports[p].other
        BY <1>2, <3>1 DEF Wanted
      <4> QED
        BY <1>2, <2>2, <2>5, <4>1
    <3>7. Lossless => Reliable(x)
      BY <1>2, <2>2, ReliableItem
    <3>8. a \in Nat /\ n \in Nat /\ g \in Nat /\ h \in Nat
      <4>1. n \in Nat /\ g \in Nat /\ h \in Nat
        BY <3>1, <3>2, Finite
      <4>2. unacked_slots[p] \in Nat /\ Cardinality(Taken(unacked[p])) \in Nat
        BY Finite DEF TypeOK
      <4> QED
        BY <3>1, <4>1, <4>2
    <3>9. m + h = n + g \/ (~ Lossless /\ m + h + 1 = n + g)
      BY <3>3, <3>4, <3>5, <3>6, <3>7, <3>8
    <3>10. m \in Nat
      BY <3>3, <3>8
    <3>11. /\ Sum(unacked_slots[p], unacked[p], send_queue, call, p,
                  ports[p].self, ports[p].other) = a + n + g
           /\ Sum(unacked_slots'[p], unacked'[p], send_queue', call', p,
                  ports[p].self, ports[p].other) = a + m + h
      BY <1>2, <3>1 DEF Sum
    <3> QED
      BY <3>8, <3>9, <3>10, <3>11
  <2>6. Balanced'
    BY <1>4, <2>1, <2>5, BalanceStep
  <2> QED
    BY <1>4, <2>1, <2>3, <2>4, <2>6, TuplesStep
<1> QED
  BY <1>4, <1>5 DEF SlotInv

-----------------------------------------------------------------------------
(* tcp_task: transmitting.                                                 *)

\* A step of tcp_task that gives no port a new tuple.
LEMMA KeptStep ==
    ASSUME TypeOK, TypeOK', SlotInv, TaskHolds', PortsOpen', PortsKept,
           call' = call, reused' = reused,
           ~ reused => ListenersQuiet',
           ~ reused => \A p \in PortIdx : ports'[p].self # 0 =>
              LET before == Sum(unacked_slots[p], unacked[p], send_queue, call, p,
                                ports[p].self, ports[p].other)
                  after  == Sum(unacked_slots'[p], unacked'[p], send_queue', call', p,
                                ports[p].self, ports[p].other)
              IN  after = before \/ (~ Lossless /\ after + 1 = before)
    PROVE  SlotInv'
<1>1. ASSUME ~ reused'
      PROVE  TuplesDistinct' /\ CallsRefer' /\ ListenersQuiet' /\ Balanced'
  <2>1. TuplesDistinct /\ CallsRefer /\ ListenersQuiet /\ Balanced /\ ~ reused
    BY <1>1 DEF SlotInv
  <2>2. Balanced'
    BY <2>1, BalanceStep
  <2> QED
    BY <2>1, <2>2, TuplesStep, CallsSame
<1> QED
  BY <1>1 DEF SlotInv

\* TaskHolds says nothing of a tcp_task that waits for events.
LEMMA TaskSelecting ==
    ASSUME task'.pc = "select"
    PROVE  TaskHolds'
BY DEF TaskHolds

\* What the queue wants from a port, as the head is taken off.
LEMMA HeadCount ==
    ASSUME TypeOK, TakeSend, NEW W
    PROVE  Count(send_queue, W)
             = Count(send_queue', W) + (IF Head(send_queue) \in W THEN 1 ELSE 0)
<1>1. PICK Q : Q = send_queue
  OBVIOUS
<1>2. Q \in Seq(Params) /\ Q # << >> /\ send_queue' = Tail(Q)
  BY <1>1, TakeSendType DEF TypeOK
<1>3. Count(Q, W) = Count(Tail(Q), W) + (IF Head(Q) \in W THEN 1 ELSE 0)
  BY <1>2, CountTail
<1> QED
  BY <1>1, <1>2, <1>3

\* The terms of the sum are numbers before and after a step.
LEMMA Terms ==
    ASSUME TypeOK, TypeOK', NEW p \in PortIdx
    PROVE  /\ unacked_slots[p] \in Nat /\ unacked_slots'[p] \in Nat
           /\ Cardinality(Taken(unacked[p])) \in Nat
           /\ Cardinality(Taken(unacked'[p])) \in Nat
           /\ Cardinality(Holders(call, p)) \in Nat
           /\ \A s, o : /\ Count(send_queue, Wanted(s, o)) \in Nat
                        /\ Count(send_queue', Wanted(s, o)) \in Nat
<1>1. /\ unacked_slots[p] \in Nat /\ unacked_slots'[p] \in Nat
      /\ send_queue \in Seq(Params) /\ send_queue' \in Seq(Params)
  BY DEF TypeOK
<1>2. /\ Cardinality(Taken(unacked[p])) \in Nat
      /\ Cardinality(Taken(unacked'[p])) \in Nat
      /\ Cardinality(Holders(call, p)) \in Nat
  BY Finite
<1>3. \A s, o : /\ Count(send_queue, Wanted(s, o)) \in Nat
                /\ Count(send_queue', Wanted(s, o)) \in Nat
  BY <1>1, Finite
<1> QED
  BY <1>1, <1>2, <1>3

\* A reliable segment in send_queue has an entry reserved for it.
LEMMA EntryReserved ==
    ASSUME TypeOK, TypeOK', Balanced, TakeSend, NEW p \in PortIdx, ports[p].self # 0,
           Head(send_queue) \in Wanted(ports[p].self, ports[p].other)
    PROVE  EmptyUnacked(p) # {}
<1> SUFFICES ASSUME EmptyUnacked(p) = {} PROVE FALSE
  OBVIOUS
<1>1. Taken(unacked[p]) = SlotIdx
  BY DEF Taken, EmptyUnacked
<1>2. Cardinality(SlotIdx) = MAX_UNACKED
  <2> DEFINE n == MAX_UNACKED
  <2>1. n \in Int /\ 1 \in Int /\ (IF 1 > n THEN 0 ELSE n - 1 + 1) = n
    BY TcpConstants
  <2> HIDE DEF n
  <2>2. Cardinality(1 .. n) = n
    BY <2>1, FS_Interval
  <2> QED
    BY <2>2 DEF n, SlotIdx
<1>3. Count(send_queue, Wanted(ports[p].self, ports[p].other))
        = Count(send_queue', Wanted(ports[p].self, ports[p].other)) + 1
  BY HeadCount
<1>4. unacked_slots[p] + Cardinality(Taken(unacked[p]))
        + Count(send_queue, Wanted(ports[p].self, ports[p].other))
        + Cardinality(Holders(call, p)) <= MAX_UNACKED
  BY SumBefore DEF Balanced, Sum
<1>5. /\ unacked_slots[p] \in Nat /\ Cardinality(Holders(call, p)) \in Nat
      /\ Count(send_queue', Wanted(ports[p].self, ports[p].other)) \in Nat
  BY Terms
<1> QED
  BY <1>1, <1>2, <1>3, <1>4, <1>5, TcpConstants

\* A dropped segment loses its slot, but only where malloc fails or its
\* port has gone: an entry was reserved.
LEMMA SendDroppedSlots ==
    ASSUME TypeOK, TypeOK', SlotInv, SendDropped
    PROVE  SlotInv'
<1>1. TakeSend /\ UNCHANGED <<ports, unacked>>
  BY DEF SendDropped
<1>2. /\ send_queue # << >> /\ send_queue' = Tail(send_queue)
      /\ Head(send_queue) \in Params
      /\ UNCHANGED <<unacked_slots, task, call, reused>>
  BY <1>1, TakeSendType
<1>3. PortsOpen' /\ PortsKept /\ TaskHolds'
  BY <1>1, <1>2, PortsSame, TaskSame DEF SlotInv
<1>4. ASSUME ~ reused PROVE ListenersQuiet'
  BY <1>2, <1>3, <1>4, QuietTail DEF SlotInv
<1>5. ASSUME ~ reused, NEW p \in PortIdx, ports'[p].self # 0
      PROVE  LET before == Sum(unacked_slots[p], unacked[p], send_queue, call, p,
                               ports[p].self, ports[p].other)
                 after  == Sum(unacked_slots'[p], unacked'[p], send_queue', call', p,
                               ports[p].self, ports[p].other)
             IN  after = before \/ (~ Lossless /\ after + 1 = before)
  <2> DEFINE W == Wanted(ports[p].self, ports[p].other)
  <2>1. Count(send_queue, W)
          = Count(send_queue', W) + (IF Head(send_queue) \in W THEN 1 ELSE 0)
    BY <1>1, HeadCount
  <2>2. /\ unacked_slots[p] \in Nat /\ Cardinality(Taken(unacked[p])) \in Nat
        /\ Cardinality(Holders(call, p)) \in Nat
        /\ Count(send_queue, W) \in Nat /\ Count(send_queue', W) \in Nat
    BY Terms
  <2>3. ASSUME Head(send_queue) \in W PROVE ~ Lossless
    <3> DEFINE item  == Head(send_queue)
               found == FindPort(item.src, item.dst)
    <3>1. TuplesDistinct /\ Balanced /\ ports[p].self # 0
      BY <1>1, <1>5 DEF SlotInv
    <3>2. Reliable(item) /\ item.src = ports[p].self /\ item.dst = ports[p].other
      BY <2>3 DEF Wanted
    <3>3. found = {p}
      BY <3>1, <3>2 DEF FindPort, TuplesDistinct
    <3>4. Min(found) = p
      BY <3>3, FirstPort
    <3>5. EmptyUnacked(p) # {}
      BY <1>1, <2>3, <3>1, EntryReserved
    <3>6. MallocMayFail
      BY <3>3, <3>4, <3>5 DEF SendDropped
    <3> QED
      BY <3>6 DEF Lossless
  <2> HIDE DEF W
  <2>4. /\ Sum(unacked_slots[p], unacked[p], send_queue, call, p,
               ports[p].self, ports[p].other)
             = unacked_slots[p] + Cardinality(Taken(unacked[p]))
                 + Count(send_queue, W) + Cardinality(Holders(call, p))
        /\ Sum(unacked_slots'[p], unacked'[p], send_queue', call', p,
               ports[p].self, ports[p].other)
             = unacked_slots[p] + Cardinality(Taken(unacked[p]))
                 + Count(send_queue', W) + Cardinality(Holders(call, p))
    BY <1>1, <1>2 DEF Sum, W
  <2> QED
    BY <2>1, <2>2, <2>3, <2>4
<1> QED
  BY <1>2, <1>3, <1>4, <1>5, KeptStep

\* An ACK had no slot; an empty payload loses its own.
LEMMA SendPlainSlots ==
    ASSUME TypeOK, TypeOK', SlotInv, SendPlain
    PROVE  SlotInv'
<1>1. TakeSend /\ UNCHANGED <<ports, unacked>> /\ ~ Reliable(Head(send_queue))
  BY DEF SendPlain
<1>2. /\ send_queue # << >> /\ send_queue' = Tail(send_queue)
      /\ UNCHANGED <<unacked_slots, task, call, reused>>
  BY <1>1, TakeSendType
<1>3. PortsOpen' /\ PortsKept /\ TaskHolds'
  BY <1>1, <1>2, PortsSame, TaskSame DEF SlotInv
<1>4. ASSUME ~ reused PROVE ListenersQuiet'
  BY <1>2, <1>3, <1>4, QuietTail DEF SlotInv
<1>5. ASSUME NEW p \in PortIdx
      PROVE  Sum(unacked_slots'[p], unacked'[p], send_queue', call', p,
                 ports[p].self, ports[p].other)
             = Sum(unacked_slots[p], unacked[p], send_queue, call, p,
                   ports[p].self, ports[p].other)
  <2> DEFINE W == Wanted(ports[p].self, ports[p].other)
  <2>1. Head(send_queue) \notin W
    BY <1>1 DEF Wanted
  <2>2. Count(send_queue, W)
          = Count(send_queue', W) + (IF Head(send_queue) \in W THEN 1 ELSE 0)
    BY <1>1, HeadCount
  <2>3. Count(send_queue', W) \in Nat
    BY Terms
  <2>4. Count(send_queue, W) = Count(send_queue', W)
    BY <2>1, <2>2, <2>3
  <2> QED
    BY <1>1, <1>2, <2>4 DEF Sum
<1> QED
  BY <1>2, <1>3, <1>4, <1>5, KeptStep

\* The segment moves from the queue to an empty entry of its port.
LEMMA SendReliableSlots ==
    ASSUME TypeOK, TypeOK', SlotInv, SendReliable
    PROVE  SlotInv'
<1> DEFINE item  == Head(send_queue)
           found == FindPort(item.src, item.dst)
<1>1. PICK q, i, e : /\ q = Min(found) /\ i = Min(EmptyUnacked(q))
                     /\ e = [in_use |-> TRUE, seq_num |-> ports[q].seq_num,
                             ctrl |-> item.ctrl, data |-> item.data, len |-> item.len]
  OBVIOUS
<1>2. /\ TakeSend /\ found # {} /\ Reliable(item) /\ EmptyUnacked(q) # {}
      /\ unacked' = [unacked EXCEPT ![q][i] = e]
      /\ ports' = [ports EXCEPT ![q].seq_num = NextSeq(q, item)]
  BY <1>1 DEF SendReliable
<1>3. /\ send_queue # << >> /\ send_queue' = Tail(send_queue)
      /\ item \in Params
      /\ UNCHANGED <<unacked_slots, task, call, reused>>
  BY <1>2, TakeSendType
<1>4. q \in PortIdx /\ ports[q].self = item.src /\ ports[q].other = item.dst
  <2>1. found \in SUBSET PortIdx
    BY DEF FindPort
  <2>2. q \in found
    BY <1>1, <1>2, <2>1, FirstPort
  <2> QED
    BY <2>2 DEF FindPort
<1>5. i \in SlotIdx /\ ~ unacked[q][i].in_use
  <2>1. EmptyUnacked(q) \in SUBSET SlotIdx
    BY DEF EmptyUnacked
  <2>2. i \in EmptyUnacked(q)
    BY <1>1, <1>2, <2>1, FirstSlot
  <2> QED
    BY <2>2 DEF EmptyUnacked
<1>6. \A p \in PortIdx : /\ ports'[p].self = ports[p].self
                         /\ ports'[p].other = ports[p].other
                         /\ ports'[p].state = ports[p].state
  <2>1. \A p \in PortIdx : ports[p] \in Port
    BY DEF TypeOK
  <2>2. \A p \in PortIdx : p # q => ports'[p] = ports[p]
    BY <1>2 DEF TypeOK
  <2>3. ports'[q] = [ports[q] EXCEPT !.seq_num = NextSeq(q, item)]
    BY <1>2, <1>4 DEF TypeOK
  <2>4. /\ ports'[q].self = ports[q].self /\ ports'[q].other = ports[q].other
        /\ ports'[q].state = ports[q].state
    BY <1>4, <2>1, <2>3 DEF Port
  <2> QED
    BY <2>2, <2>4
<1>7. PortsKept /\ PortsOpen'
  BY <1>6 DEF PortsKept, PortsOpen, SlotInv
<1>8. TaskHolds'
  <2>1. task'.pc = "select"
    BY <1>2, <1>3 DEF TakeSend, Selected
  <2> QED
    BY <2>1, TaskSelecting
<1>9. ASSUME ~ reused PROVE ListenersQuiet'
  BY <1>3, <1>7, <1>9, QuietTail DEF SlotInv
<1>10. unacked \in [PortIdx -> [SlotIdx -> Unacked]] /\ e.in_use
  BY <1>1 DEF TypeOK
<1>11. ASSUME ~ reused, NEW p \in PortIdx, ports'[p].self # 0
       PROVE  Sum(unacked_slots'[p], unacked'[p], send_queue', call', p,
                  ports[p].self, ports[p].other)
              = Sum(unacked_slots[p], unacked[p], send_queue, call, p,
                    ports[p].self, ports[p].other)
  <2> DEFINE W == Wanted(ports[p].self, ports[p].other)
  <2>1. Count(send_queue, W) = Count(send_queue', W) + (IF item \in W THEN 1 ELSE 0)
    BY <1>2, HeadCount
  <2>2. /\ Cardinality(Taken(unacked[p])) \in Nat /\ Cardinality(Taken(unacked'[p])) \in Nat
        /\ Count(send_queue, W) \in Nat /\ Count(send_queue', W) \in Nat
    BY Terms
  <2>3. item \in W <=> p = q
    <3>1. item \in W <=> ports[p].self = item.src /\ ports[p].other = item.dst
      BY <1>2, <1>3 DEF Wanted
    <3>2. TuplesDistinct /\ ports[p].self # 0
      BY <1>6, <1>11 DEF SlotInv
    <3> QED
      BY <1>4, <3>1, <3>2 DEF TuplesDistinct
  <2>4. CASE p = q
    <3>1. PICK u, v : u = unacked[q] /\ v = [u EXCEPT ![i] = e]
      OBVIOUS
    <3>2. u \in [SlotIdx -> Unacked] /\ ~ u[i].in_use /\ unacked'[p] = v
      BY <1>2, <1>4, <1>5, <1>10, <2>4, <3>1
    <3>3. Cardinality(Taken([u EXCEPT ![i] = e])) = Cardinality(Taken(u)) + 1
      BY <1>5, <1>10, <3>2, TakenMore
    <3>4. Cardinality(Taken(unacked'[p])) = Cardinality(Taken(unacked[p])) + 1
      BY <2>4, <3>1, <3>2, <3>3
    <3>5. Count(send_queue, W) = Count(send_queue', W) + 1
      BY <2>1, <2>3, <2>4
    <3>6. PICK n : n = unacked_slots[p]
      OBVIOUS
    <3>7. n \in Nat
      BY <3>6, Terms
    <3> HIDE DEF W
    <3>8. n + Cardinality(Taken(unacked'[p])) + Count(send_queue', W)
            = n + Cardinality(Taken(unacked[p])) + Count(send_queue, W)
      BY <2>2, <3>4, <3>5, <3>7
    <3> QED
      BY <1>3, <3>6, <3>8 DEF Sum, W
  <2>5. CASE p # q
    <3>1. unacked'[p] = unacked[p]
      BY <1>2, <1>10, <2>5
    <3>2. Count(send_queue, W) = Count(send_queue', W)
      BY <2>1, <2>2, <2>3, <2>5
    <3> QED
      BY <1>3, <3>1, <3>2 DEF Sum
  <2> QED
    BY <2>4, <2>5
<1> QED
  BY <1>3, <1>7, <1>8, <1>9, <1>11, KeptStep

-----------------------------------------------------------------------------
(* tcp_task: tcp_reset_port.                                               *)

\* What tcp_reset_port changes in the tables and in the calls.
LEMMA ResetFields ==
    ASSUME TypeOK, NEW q \in PortIdx, ResetPort(q)
    PROVE  /\ \A p \in PortIdx : /\ ports'[p].self = IF p = q THEN 0 ELSE ports[p].self
                                 /\ ports'[p].other = ports[p].other
                                 /\ ports'[p].state = IF p = q THEN "CLOSED"
                                                      ELSE ports[p].state
                                 /\ p # q => /\ unacked'[p] = unacked[p]
                                             /\ unacked_slots'[p] = unacked_slots[p]
           /\ \A p \in PortIdx, i \in SlotIdx :
                 unacked'[p][i].in_use = unacked[p][i].in_use
           /\ \A c \in Apps : /\ call'[c].pc = call[c].pc /\ call'[c].p = call[c].p
                              /\ call'[c].item = call[c].item
                              /\ \/ call'[c].deleted = call[c].deleted
                                 \/ call[c].pc = "take" /\ call[c].p = q
<1>1. ASSUME NEW p \in PortIdx
      PROVE  /\ ports'[p].self = IF p = q THEN 0 ELSE ports[p].self
             /\ ports'[p].other = ports[p].other
             /\ ports'[p].state = IF p = q THEN "CLOSED" ELSE ports[p].state
  <2>1. ports \in [PortIdx -> Port] /\ ports[p] \in Port
    BY DEF TypeOK
  <2>2. ports'[p] = IF p = q THEN [ports[p] EXCEPT !.state = "CLOSED", !.self = 0]
                    ELSE ports[p]
    BY <2>1 DEF ResetPort
  <2> QED
    BY <2>1, <2>2 DEF Port
<1>2. unacked \in [PortIdx -> [SlotIdx -> Unacked]]
      /\ unacked_slots \in [PortIdx -> 0 .. MAX_UNACKED]
  BY DEF TypeOK
<1>3. \A p \in PortIdx : p # q => /\ unacked'[p] = unacked[p]
                                  /\ unacked_slots'[p] = unacked_slots[p]
  BY <1>2 DEF ResetPort
<1>4. ASSUME NEW i \in SlotIdx
      PROVE  unacked'[q][i].in_use = unacked[q][i].in_use
  <2>1. unacked'[q][i] = ResetEntry(unacked[q][i]) /\ unacked[q][i] \in Unacked
    BY <1>2 DEF ResetPort
  <2> QED
    BY <2>1 DEF ResetEntry, Unacked
<1>5. \A p \in PortIdx, i \in SlotIdx : unacked'[p][i].in_use = unacked[p][i].in_use
  BY <1>3, <1>4
<1>6. ASSUME NEW c \in Apps
      PROVE  /\ call'[c].pc = call[c].pc /\ call'[c].p = call[c].p
             /\ call'[c].item = call[c].item
             /\ \/ call'[c].deleted = call[c].deleted
                \/ call[c].pc = "take" /\ call[c].p = q
  <2>1. call[c] \in Call
    BY DEF TypeOK
  <2>2. \/ call'[c] = call[c]
        \/ /\ call[c].pc = "take" /\ call[c].p = q
           /\ call'[c] = [call[c] EXCEPT !.deleted = TRUE]
    BY DEF ResetPort
  <2> QED
    BY <2>1, <2>2 DEF Call
<1> QED
  BY <1>1, <1>3, <1>5, <1>6

\* tcp_reset_port keeps SlotInv: the port has no tuple any more, so its
\* slots are not counted until allocate_port creates them anew.
LEMMA ResetSlots ==
    ASSUME TypeOK, TypeOK', SlotInv, NEW q \in PortIdx, ResetPort(q), TaskHolds',
           send_queue' = send_queue, reused' = reused
    PROVE  SlotInv'
<1>1. PortsKept /\ PortsOpen'
  <2>1. \A p \in PortIdx : /\ ports'[p].self = IF p = q THEN 0 ELSE ports[p].self
                           /\ ports'[p].other = ports[p].other
                           /\ ports'[p].state = IF p = q THEN "CLOSED"
                                                ELSE ports[p].state
    BY ResetFields
  <2> QED
    BY <2>1 DEF PortsKept, PortsOpen, SlotInv
<1>2. ports'[q].self = 0
  BY ResetFields
<1>3. ASSUME ~ reused'
      PROVE  TuplesDistinct' /\ CallsRefer' /\ ListenersQuiet' /\ Balanced'
  <2>1. TuplesDistinct /\ CallsRefer /\ ListenersQuiet /\ Balanced
    BY <1>3 DEF SlotInv
  <2>2. CallsRefer'
    <3> SUFFICES ASSUME NEW c \in Apps PROVE Refers(call'[c], ports')
      BY DEF CallsRefer
    <3>1. PICK r : r = call[c]
      OBVIOUS
    <3>2. r \in Call /\ Refers(r, ports)
      BY <2>1, <3>1 DEF TypeOK, CallsRefer
    <3>3. Refers(r, ports')
      BY <1>1, <3>2, RefersStep
    <3>4. /\ call'[c].pc = r.pc /\ call'[c].p = r.p /\ call'[c].item = r.item
          /\ call'[c].deleted = r.deleted \/ (r.pc = "take" /\ r.p = q)
      BY <3>1, ResetFields
    <3> QED
      BY <1>2, <3>3, <3>4 DEF Refers
  <2>3. ASSUME NEW p \in PortIdx, ports'[p].self # 0
        PROVE  Sum(unacked_slots'[p], unacked'[p], send_queue', call', p,
                   ports[p].self, ports[p].other)
               = Sum(unacked_slots[p], unacked[p], send_queue, call, p,
                     ports[p].self, ports[p].other)
    <3>1. unacked'[p] = unacked[p] /\ unacked_slots'[p] = unacked_slots[p]
      BY <1>2, <2>3, ResetFields
    <3>2. Holders(call', p) = Holders(call, p)
      BY ResetFields DEF Holders, Holds
    <3> QED
      BY <3>1, <3>2 DEF Sum
  <2>4. Balanced'
    BY <1>1, <2>1, <2>3, BalanceStep
  <2> QED
    BY <1>1, <2>1, <2>2, <2>4, TuplesStep, QuietSame
<1> QED
  BY <1>1, <1>3 DEF SlotInv

-----------------------------------------------------------------------------
(* tcp_task: receiving.                                                    *)

\* RST resets the port.
LEMMA InputResetSlots ==
    ASSUME TypeOK, TypeOK', SlotInv, InputReset
    PROVE  SlotInv'
<1>1. PICK q : q = Min(Receiver(Head(input_queue)))
  OBVIOUS
<1>2. q \in PortIdx /\ ResetPort(q)
  BY <1>1, ReceiverType DEF InputReset
<1>3. task'.pc = "select" /\ send_queue' = send_queue /\ reused' = reused
  BY DEF InputReset, TakeInput, Selected
<1>4. TaskHolds'
  BY <1>3, TaskSelecting
<1> QED
  BY <1>2, <1>3, <1>4, ResetSlots

\* Slots that go with the entries they were for do not reach the limit.
LEMMA ReleaseBalance ==
    ASSUME TypeOK, TypeOK', Balanced, NEW p \in PortIdx, ports[p].self # 0,
           NEW rel \in SUBSET Taken(unacked[p]),
           \A i \in SlotIdx : unacked'[p][i] = IF i \in rel THEN Free ELSE unacked[p][i],
           unacked_slots'[p] = GivenBack(p, Cardinality(rel)),
           send_queue' = send_queue, call' = call
    PROVE  Sum(unacked_slots'[p], unacked'[p], send_queue', call', p,
               ports[p].self, ports[p].other)
           = Sum(unacked_slots[p], unacked[p], send_queue, call, p,
                 ports[p].self, ports[p].other)
<1>1. PICK u, v, n, m : /\ u = unacked[p] /\ v = unacked'[p]
                        /\ n = unacked_slots[p] /\ m = unacked_slots'[p]
  OBVIOUS
<1>2. /\ Cardinality(rel) \in Nat
      /\ Cardinality(Taken(u)) = Cardinality(Taken(v)) + Cardinality(rel)
  <2>1. /\ rel \in SUBSET Taken(u)
        /\ \A i \in SlotIdx : v[i] = IF i \in rel THEN Free ELSE u[i]
    BY <1>1
  <2> QED
    BY ONLY <2>1, TakenLess
<1>3. /\ n \in Nat /\ m \in Nat /\ Cardinality(Taken(u)) \in Nat
      /\ Cardinality(Taken(v)) \in Nat
      /\ Count(send_queue, Wanted(ports[p].self, ports[p].other)) \in Nat
      /\ Cardinality(Holders(call, p)) \in Nat
  BY <1>1, Terms
<1>4. n + Cardinality(Taken(u)) + Count(send_queue, Wanted(ports[p].self, ports[p].other))
        + Cardinality(Holders(call, p)) <= MAX_UNACKED
  BY <1>1, SumBefore DEF Balanced, Sum
<1>5. n + Cardinality(rel) <= MAX_UNACKED
  BY <1>2, <1>3, <1>4, TcpConstants
<1>6. m = n + Cardinality(rel)
  BY <1>1, <1>5 DEF GivenBack
<1>7. m + Cardinality(Taken(v)) = n + Cardinality(Taken(u))
  BY <1>2, <1>3, <1>6
<1> QED
  BY <1>1, <1>7 DEF Sum

\* Each released entry becomes a free slot.
LEMMA InputProcessSlots ==
    ASSUME TypeOK, TypeOK', SlotInv, InputProcess
    PROVE  SlotInv'
<1> DEFINE seg == Head(input_queue)
<1>1. PICK q, rel, num :
         /\ q = Min(Receiver(seg)) /\ rel = Acked(q, seg)
         /\ num = IF NeedsAck(q, seg)
                  THEN (seg.seq + SeqIncrement(seg.len, seg.ctrl)) % SEQ_MOD
                  ELSE ports[q].ack_num
  OBVIOUS
<1>2. /\ unacked' = [unacked EXCEPT ![q] =
                       [i \in SlotIdx |-> IF i \in rel THEN Free ELSE unacked[q][i]]]
      /\ unacked_slots' = [unacked_slots EXCEPT ![q] = GivenBack(q, Cardinality(rel))]
      /\ ports' = [ports EXCEPT ![q].ack_num = num]
      /\ task' = [task EXCEPT !.pc = IF NeedsAck(q, seg) THEN "ack" ELSE "switch",
                              !.seg = seg, !.p = q]
      /\ send_queue' = send_queue /\ call' = call /\ reused' = reused
  BY <1>1 DEF InputProcess, TakeInput
<1>3. q \in PortIdx
  BY <1>1, ReceiverType DEF InputProcess
<1>4. rel \in SUBSET Taken(unacked[q])
  BY <1>1 DEF Acked, Taken
<1>5. TaskHolds'
  <2>1. task \in Task
    BY DEF TypeOK
  <2>2. task'.pc \in {"ack", "switch"}
    BY <1>2, <2>1 DEF Task
  <2> QED
    BY <2>2 DEF TaskHolds
<1>6. \A p \in PortIdx : /\ ports'[p].self = ports[p].self
                         /\ ports'[p].other = ports[p].other
                         /\ ports'[p].state = ports[p].state
  <2>1. \A p \in PortIdx : ports[p] \in Port
    BY DEF TypeOK
  <2>2. \A p \in PortIdx : p # q => ports'[p] = ports[p]
    BY <1>2 DEF TypeOK
  <2>3. ports'[q] = [ports[q] EXCEPT !.ack_num = num]
    BY <1>2, <1>3 DEF TypeOK
  <2>4. /\ ports'[q].self = ports[q].self /\ ports'[q].other = ports[q].other
        /\ ports'[q].state = ports[q].state
    BY <1>3, <2>1, <2>3 DEF Port
  <2> QED
    BY <2>2, <2>4
<1>7. PortsKept /\ PortsOpen'
  BY <1>6 DEF PortsKept, PortsOpen, SlotInv
<1>8. ASSUME ~ reused PROVE ListenersQuiet'
  BY <1>2, <1>7, <1>8, QuietSame DEF SlotInv
<1>9. ASSUME ~ reused, NEW p \in PortIdx, ports'[p].self # 0
      PROVE  Sum(unacked_slots'[p], unacked'[p], send_queue', call', p,
                 ports[p].self, ports[p].other)
             = Sum(unacked_slots[p], unacked[p], send_queue, call, p,
                   ports[p].self, ports[p].other)
  <2>1. /\ unacked \in [PortIdx -> [SlotIdx -> Unacked]]
        /\ unacked_slots \in [PortIdx -> 0 .. MAX_UNACKED]
    BY DEF TypeOK
  <2>2. CASE p = q
    <3>1. /\ \A i \in SlotIdx : unacked'[p][i] = IF i \in rel THEN Free ELSE unacked[p][i]
          /\ unacked_slots'[p] = GivenBack(p, Cardinality(rel))
      BY <1>2, <1>3, <2>1, <2>2
    <3>2. Balanced /\ ports[p].self # 0 /\ rel \in SUBSET Taken(unacked[p])
      BY <1>4, <1>6, <1>9, <2>2 DEF SlotInv
    <3> QED
      BY <1>2, <3>1, <3>2, ReleaseBalance
  <2>3. CASE p # q
    <3>1. unacked'[p] = unacked[p] /\ unacked_slots'[p] = unacked_slots[p]
      BY <1>2, <2>1, <2>3
    <3> QED
      BY <1>2, <3>1 DEF Sum
  <2> QED
    BY <2>2, <2>3
<1> QED
  BY <1>2, <1>5, <1>7, <1>8, <1>9, KeptStep

\* The ACK that is queued is not counted.
LEMMA InputAckSlots ==
    ASSUME TypeOK, TypeOK', SlotInv, InputAck
    PROVE  SlotInv'
<1>1. PICK x : x = Packet(task.p, {"ACK"})
  OBVIOUS
<1>2. /\ send_queue' = Append(send_queue, x) /\ task' = [task EXCEPT !.pc = "switch"]
      /\ UNCHANGED <<ports, unacked, unacked_slots, call, reused>>
  BY <1>1 DEF InputAck, QueueSend, tables
<1>3. x \in Params /\ ~ Reliable(x)
  <2>1. x \in Params /\ x.len = 0 /\ x.ctrl = {"ACK"}
    BY <1>1, TaskType, PacketType DEF Flags, Packet
  <2> QED
    BY <2>1, ReliableItem
<1>4. TaskHolds'
  <2>1. task'.pc = "switch"
    BY <1>2, TaskType DEF Task
  <2> QED
    BY <2>1 DEF TaskHolds
<1>5. PortsKept /\ PortsOpen'
  BY <1>2, PortsSame DEF SlotInv
<1>6. ASSUME ~ reused PROVE ListenersQuiet'
  BY <1>2, <1>3, <1>5, <1>6, QuietAppend DEF SlotInv
<1>7. ASSUME NEW p \in PortIdx
      PROVE  Sum(unacked_slots'[p], unacked'[p], send_queue', call', p,
                 ports[p].self, ports[p].other)
             = Sum(unacked_slots[p], unacked[p], send_queue, call, p,
                   ports[p].self, ports[p].other)
  <2>1. PICK Q, W : Q = send_queue /\ W = Wanted(ports[p].self, ports[p].other)
    OBVIOUS
  <2>2. Q \in Seq(Params) /\ x \notin W /\ Count(Q, W) \in Nat
    <3>1. Q \in Seq(Params)
      BY <2>1 DEF TypeOK
    <3>2. x \notin W
      BY <1>3, <2>1 DEF Wanted
    <3>3. Count(Q, W) \in Nat
      BY <2>1, Terms
    <3> QED
      BY <3>1, <3>2, <3>3
  <2>3. Count(Append(Q, x), W) = Count(Q, W) + (IF x \in W THEN 1 ELSE 0)
    BY <1>3, <2>2, CountAppend
  <2>4. Count(Append(Q, x), W) = Count(Q, W)
    BY <2>2, <2>3
  <2> QED
    BY <1>2, <2>1, <2>4 DEF Sum
<1> QED
  BY <1>2, <1>4, <1>5, <1>6, <1>7, KeptStep

\* The slot taken for a segment goes with it to the queue.
LEMMA QueueSlot ==
    ASSUME TypeOK, TypeOK', TuplesDistinct, NEW x \in Params, NEW q \in PortIdx,
           ports[q].self = x.src, ports[q].other = x.dst, Lossless => Reliable(x),
           send_queue' = Append(send_queue, x), unacked_slots[q] > 0,
           unacked_slots' = [unacked_slots EXCEPT ![q] = @ - 1],
           unacked' = unacked, call' = call,
           NEW p \in PortIdx, ports[p].self # 0
    PROVE  LET before == Sum(unacked_slots[p], unacked[p], send_queue, call, p,
                             ports[p].self, ports[p].other)
               after  == Sum(unacked_slots'[p], unacked'[p], send_queue', call', p,
                             ports[p].self, ports[p].other)
           IN  after = before \/ (~ Lossless /\ after + 1 = before)
<1>1. PICK Q, W, t, h, n, m :
         /\ Q = send_queue /\ W = Wanted(ports[p].self, ports[p].other)
         /\ t = Cardinality(Taken(unacked[p])) /\ h = Cardinality(Holders(call, p))
         /\ n = unacked_slots[p] /\ m = unacked_slots'[p]
  OBVIOUS
<1>2. Q \in Seq(Params)
  BY <1>1 DEF TypeOK
<1>3. Count(Append(Q, x), W) = Count(Q, W) + (IF x \in W THEN 1 ELSE 0)
  BY <1>2, CountAppend
<1>4. n \in Nat /\ m \in Nat /\ t \in Nat /\ h \in Nat /\ Count(Q, W) \in Nat
  BY <1>1, Terms
<1>5. x \in W <=> p = q /\ Reliable(x)
  <2>1. x \in W <=> Reliable(x) /\ x.src = ports[p].self /\ x.dst = ports[p].other
    BY <1>1 DEF Wanted
  <2> QED
    BY <2>1 DEF TuplesDistinct
<1>6. n = m + (IF p = q THEN 1 ELSE 0)
  <2>1. unacked_slots \in [PortIdx -> 0 .. MAX_UNACKED]
    BY DEF TypeOK
  <2>2. m = IF p = q THEN n - 1 ELSE n
    BY <1>1, <2>1
  <2> QED
    BY <1>4, <2>2
<1>7. /\ Sum(unacked_slots[p], unacked[p], send_queue, call, p,
             ports[p].self, ports[p].other) = n + t + Count(Q, W) + h
      /\ Sum(unacked_slots'[p], unacked'[p], send_queue', call', p,
             ports[p].self, ports[p].other) = m + t + Count(Append(Q, x), W) + h
  BY <1>1 DEF Sum
<1> QED
  BY <1>3, <1>4, <1>5, <1>6, <1>7

\* A segment of port q, which does not listen, may be queued.
LEMMA QueueQuiet ==
    ASSUME TypeOK, ListenersQuiet, TuplesDistinct, PortsKept, NEW x \in Params,
           NEW q \in PortIdx, ports[q].self = x.src, ports[q].other = x.dst,
           ports[q].state # "LISTEN", send_queue' = Append(send_queue, x)
    PROVE  ListenersQuiet'
<1>1. \A p \in PortIdx :
         ports[p].self # 0 /\ ports[p].state = "LISTEN" /\ Reliable(x)
           => x.src # ports[p].self \/ x.dst # ports[p].other
  BY DEF TuplesDistinct
<1> QED
  BY <1>1, QuietAppend

\* The state of port q is assigned.
LEMMA StateFields ==
    ASSUME TypeOK, PortsOpen, NEW q \in PortIdx, NEW s \in States \ {"LISTEN", "CLOSED"},
           ports' = [ports EXCEPT ![q].state = s]
    PROVE  /\ \A p \in PortIdx : /\ ports'[p].self = ports[p].self
                                 /\ ports'[p].other = ports[p].other
                                 /\ ports'[p].state = IF p = q THEN s ELSE ports[p].state
           /\ PortsKept /\ PortsOpen'
<1>1. ports \in [PortIdx -> Port] /\ ports[q] \in Port
  BY DEF TypeOK
<1>2. \A p \in PortIdx : p # q => ports'[p] = ports[p]
  BY <1>1
<1>3. ports'[q] = [ports[q] EXCEPT !.state = s]
  BY <1>1
<1>4. /\ ports'[q].self = ports[q].self /\ ports'[q].other = ports[q].other
      /\ ports'[q].state = s
  BY <1>1, <1>3 DEF Port
<1>5. \A p \in PortIdx : /\ ports'[p].self = ports[p].self
                         /\ ports'[p].other = ports[p].other
                         /\ ports'[p].state = IF p = q THEN s ELSE ports[p].state
  BY <1>2, <1>4
<1> QED
  BY <1>5 DEF PortsKept, PortsOpen

\* A free slot becomes a queued SYN or FIN; when send_queue is full it is
\* given back.
LEMMA EnqueueReliableSlots ==
    ASSUME TypeOK, TypeOK', SlotInv, EnqueueReliable
    PROVE  SlotInv'
<1>1. PICK x, o, q : /\ x = task.item /\ o = task.p
                     /\ q = Min(FindPort(task.item.src, task.item.dst))
  OBVIOUS
<1>2. /\ task.pc = "reliable" /\ UNCHANGED <<unacked, call, reused>>
      /\ x \in Params /\ o \in PortIdx
  BY <1>1, TaskType DEF EnqueueReliable
<1>3. /\ Reliable(x) /\ ports[o].self = x.src /\ ports[o].other = x.dst
      /\ ports[o].state # "LISTEN"
  BY <1>1, <1>2 DEF SlotInv, TaskHolds
<1>4. PortsKept /\ PortsOpen'
  <2>1. CASE ports[o].state = "ESTABLISHED"
    <3>1. PICK s : s = "LAST_ACK"
      OBVIOUS
    <3>2. ports' = [ports EXCEPT ![o].state = s] /\ s \in States \ {"LISTEN", "CLOSED"}
      BY <1>1, <2>1, <3>1 DEF EnqueueReliable, States
    <3> QED
      BY <1>2, <3>2, StateFields DEF SlotInv
  <2>2. CASE ports[o].state # "ESTABLISHED"
    <3>1. ports \in [PortIdx -> Port] /\ ports[o] \in Port
      BY <1>2 DEF TypeOK
    <3>2. ports' = [ports EXCEPT ![o].state = ports[o].state]
      BY <1>1, <2>2 DEF EnqueueReliable
    <3>3. \A p \in PortIdx : p # o => ports'[p] = ports[p]
      BY <3>1, <3>2
    <3>4. /\ ports'[o].self = ports[o].self /\ ports'[o].other = ports[o].other
          /\ ports'[o].state = ports[o].state
      BY <1>2, <3>1, <3>2 DEF Port
    <3>5. \A p \in PortIdx : /\ ports'[p].self = ports[p].self
                             /\ ports'[p].other = ports[p].other
                             /\ ports'[p].state = ports[p].state
      BY <3>3, <3>4
    <3> QED
      BY <3>5 DEF PortsKept, PortsOpen, SlotInv
  <2> QED
    BY <2>1, <2>2
<1>5. TaskHolds'
  <2>1. task'.pc \in {"deliver", "select"}
    BY TaskType, Values DEF EnqueueReliable, Task
  <2> QED
    BY <2>1 DEF TaskHolds
<1>6. /\ q \in PortIdx /\ ports[q].self = x.src /\ ports[q].other = x.dst
      /\ unacked_slots[q] > 0
  <2>1. FindPort(x.src, x.dst) \in SUBSET PortIdx /\ o \in FindPort(x.src, x.dst)
    BY <1>2, <1>3 DEF FindPort
  <2>2. q \in FindPort(x.src, x.dst)
    BY <1>1, <2>1, FirstPort
  <2> QED
    BY <1>1, <2>2 DEF FindPort, EnqueueReliable
<1>7. CASE /\ send_queue' = Append(send_queue, x)
           /\ unacked_slots' = [unacked_slots EXCEPT ![q] = @ - 1]
  <2>1. ASSUME ~ reused PROVE ListenersQuiet'
    BY <1>2, <1>3, <1>4, <1>7, <2>1, QueueQuiet DEF SlotInv
  <2>2. ASSUME ~ reused, NEW p \in PortIdx, ports'[p].self # 0
        PROVE  LET before == Sum(unacked_slots[p], unacked[p], send_queue, call, p,
                                 ports[p].self, ports[p].other)
                   after  == Sum(unacked_slots'[p], unacked'[p], send_queue', call', p,
                                 ports[p].self, ports[p].other)
               IN  after = before \/ (~ Lossless /\ after + 1 = before)
    <3>1. TuplesDistinct /\ ports[p].self # 0
      BY <1>4, <2>2 DEF SlotInv, PortsKept
    <3> QED
      BY <1>2, <1>3, <1>6, <1>7, <3>1, QueueSlot
  <2> QED
    BY <1>2, <1>4, <1>5, <2>1, <2>2, KeptStep
<1>8. CASE UNCHANGED <<unacked_slots, send_queue>>
  <2>1. ASSUME ~ reused PROVE ListenersQuiet'
    BY <1>4, <1>8, <2>1, QuietSame DEF SlotInv
  <2> QED
    BY <1>2, <1>4, <1>5, <1>8, <2>1, KeptStep
<1> QED
  BY <1>1, <1>7, <1>8 DEF EnqueueReliable, QueueSend

\* A callback of tcp_task takes a slot for what it queues.
LEMMA CallbackSlots ==
    ASSUME TypeOK, TypeOK', SlotInv, CallbackSends, TaskHolds', PortsOpen', PortsKept,
           UNCHANGED <<unacked, call, reused>>
    PROVE  SlotInv'
<1>1. CASE UNCHANGED <<unacked_slots, send_queue, tcp_task_queue_set, heap>>
  <2>1. ASSUME ~ reused PROVE ListenersQuiet'
    BY <1>1, <2>1, QuietSame DEF SlotInv
  <2> QED
    BY <1>1, <2>1, KeptStep
<1>2. CASE \E self \in PortNums, other \in Peers, d \in Blocks \ heap, len \in Lens :
             LET p == Min(FindPort(self, other))
             IN  /\ FindPort(self, other) # {}
                 /\ unacked_slots[p] > 0
                 /\ Len(send_queue) < SEND_QUEUE_LEN
                 /\ unacked_slots' = [unacked_slots EXCEPT ![p] = @ - 1]
                 /\ QueueSend([Packet(p, {"ACK", "PSH"}) EXCEPT !.data = d, !.len = len])
                 /\ heap' = heap \cup {d}
  <2>1. PICK self \in PortNums, other \in Peers, d \in Blocks \ heap, len \in Lens :
             /\ FindPort(self, other) # {}
             /\ unacked_slots[Min(FindPort(self, other))] > 0
             /\ unacked_slots' =
                  [unacked_slots EXCEPT ![Min(FindPort(self, other))] = @ - 1]
             /\ QueueSend([Packet(Min(FindPort(self, other)), {"ACK", "PSH"})
                             EXCEPT !.data = d, !.len = len])
    BY <1>2
  <2>2. PICK q : q = Min(FindPort(self, other))
    OBVIOUS
  <2>3. q \in PortIdx /\ ports[q].other = other
    <3>1. FindPort(self, other) \in SUBSET PortIdx
      BY DEF FindPort
    <3>2. q \in FindPort(self, other)
      BY <2>1, <2>2, <3>1, FirstPort
    <3> QED
      BY <3>2 DEF FindPort
  <2>4. PICK x : x = [Packet(q, {"ACK", "PSH"}) EXCEPT !.data = d, !.len = len]
    OBVIOUS
  <2>5. /\ x \in Params /\ x.src = ports[q].self /\ x.dst = ports[q].other
        /\ x.len = len
    <3>1. Packet(q, {"ACK", "PSH"}) \in Params
      BY <2>3, PacketType DEF Flags
    <3>2. d \in Data /\ len \in Nat
      BY TcpConstants DEF Data
    <3>3. x \in Params
      BY <2>4, <3>1, <3>2 DEF Params
    <3> QED
      BY <2>4, <3>3 DEF Packet
  <2>6. /\ send_queue' = Append(send_queue, x) /\ unacked_slots[q] > 0
        /\ unacked_slots' = [unacked_slots EXCEPT ![q] = @ - 1]
    BY <2>1, <2>2, <2>4 DEF QueueSend
  <2>7. Lossless => Reliable(x)
    <3>1. Lossless => len > 0
      BY TcpConstants DEF Lossless
    <3> QED
      BY <2>5, <3>1, ReliableItem
  <2>8. ports[q].state # "LISTEN"
    BY <2>3, TcpConstants DEF SlotInv, PortsOpen
  <2>9. ASSUME ~ reused PROVE ListenersQuiet'
    BY <2>3, <2>5, <2>6, <2>8, <2>9, QueueQuiet DEF SlotInv
  <2>10. ASSUME ~ reused, NEW p \in PortIdx, ports'[p].self # 0
         PROVE  LET before == Sum(unacked_slots[p], unacked[p], send_queue, call, p,
                                  ports[p].self, ports[p].other)
                    after  == Sum(unacked_slots'[p], unacked'[p], send_queue', call', p,
                                  ports[p].self, ports[p].other)
                IN  after = before \/ (~ Lossless /\ after + 1 = before)
    <3>1. TuplesDistinct /\ ports[p].self # 0
      BY <2>10 DEF SlotInv, PortsKept
    <3> QED
      BY <2>3, <2>5, <2>6, <2>7, <3>1, QueueSlot
  <2> QED
    BY <2>9, <2>10, KeptStep
<1> QED
  BY <1>1, <1>2 DEF CallbackSends

\* A payload on_connect sends takes a free slot for its place in
\* send_queue.
LEMMA SwitchEstablishSlots ==
    ASSUME TypeOK, TypeOK', SlotInv, SwitchEstablish
    PROVE  SlotInv'
<1>1. CallbackSends /\ UNCHANGED <<unacked, call, reused>> /\ task' = Selecting
  BY DEF SwitchEstablish
<1>2. PICK q, s : q = task.p /\ s = "ESTABLISHED"
  OBVIOUS
<1>3. /\ ports' = [ports EXCEPT ![q].state = s] /\ q \in PortIdx
      /\ s \in States \ {"LISTEN", "CLOSED"}
  BY <1>2, TaskType DEF SwitchEstablish, States
<1>4. PortsKept /\ PortsOpen'
  BY <1>3, StateFields DEF SlotInv
<1>5. TaskHolds'
  BY <1>1, Values, TaskSelecting
<1> QED
  BY <1>1, <1>4, <1>5, CallbackSlots

\* So does one that on_receive sends.
LEMMA DeliverSlots ==
    ASSUME TypeOK, TypeOK', SlotInv, Deliver
    PROVE  SlotInv'
<1>1. CallbackSends /\ UNCHANGED <<ports, unacked, call, reused>> /\ task' = Selecting
  BY DEF Deliver
<1>2. PortsKept /\ PortsOpen'
  BY <1>1, PortsSame DEF SlotInv
<1>3. TaskHolds'
  BY <1>1, Values, TaskSelecting
<1> QED
  BY <1>1, <1>2, <1>3, CallbackSlots

\* tcp_task is about to queue a FIN from an open port.
LEMMA SwitchFinSlots ==
    ASSUME TypeOK, TypeOK', SlotInv, SwitchFin
    PROVE  SlotInv'
<1>1. PICK x, q : x = Packet(task.p, {"FIN", "ACK"}) /\ q = task.p
  OBVIOUS
<1>2. /\ UNCHANGED <<ports, unacked, unacked_slots, send_queue, call, reused>>
      /\ task' = [task EXCEPT !.pc = "reliable", !.item = x]
      /\ ports[q].state = "ESTABLISHED"
  BY <1>1 DEF SwitchFin, Switch, tables, queues
<1>3. x \in Params /\ Reliable(x) /\ x.src = ports[q].self /\ x.dst = ports[q].other
  <2>1. x \in Params /\ x.ctrl = {"FIN", "ACK"} /\ x.src = ports[q].self
        /\ x.dst = ports[q].other
    BY <1>1, TaskType, PacketType DEF Flags, Packet
  <2> QED
    BY <2>1, ReliableItem
<1>4. task'.pc = "reliable" /\ task'.item = x /\ task'.p = q
  BY <1>1, <1>2, TaskType DEF Task
<1>5. TaskHolds'
  BY <1>2, <1>3, <1>4 DEF TaskHolds
<1> QED
  BY <1>2, <1>5, TaskMoves

\* The last ACK resets the port.
LEMMA SwitchLastAckSlots ==
    ASSUME TypeOK, TypeOK', SlotInv, SwitchLastAck
    PROVE  SlotInv'
<1>1. PICK q : q = task.p
  OBVIOUS
<1>2. /\ q \in PortIdx /\ ResetPort(q) /\ send_queue' = send_queue
      /\ reused' = reused /\ task' = Selecting
  BY <1>1, TaskType DEF SwitchLastAck
<1>3. TaskHolds'
  BY <1>2, Values, TaskSelecting
<1> QED
  BY <1>2, <1>3, ResetSlots

\* A step that only assigns a state and leaves tcp_task selecting.
LEMMA StateSlots ==
    ASSUME TypeOK, TypeOK', SlotInv, TaskHolds', NEW q \in PortIdx,
           NEW s \in States \ {"LISTEN", "CLOSED"},
           ports' = [ports EXCEPT ![q].state = s],
           UNCHANGED <<unacked, unacked_slots, send_queue, call, reused>>
    PROVE  SlotInv'
<1>1. PortsKept /\ PortsOpen'
  BY StateFields DEF SlotInv
<1>2. ASSUME ~ reused PROVE ListenersQuiet'
  BY <1>1, <1>2, QuietSame DEF SlotInv
<1> QED
  BY <1>1, <1>2, KeptStep

\* Only the state changes.
LEMMA SwitchFinWaitSlots ==
    ASSUME TypeOK, TypeOK', SlotInv, SwitchFinWait
    PROVE  SlotInv'
<1>1. PICK q, s : q = task.p /\ s = "TIME_WAIT"
  OBVIOUS
<1>2. /\ ports' = [ports EXCEPT ![q].state = s] /\ q \in PortIdx
      /\ s \in States \ {"LISTEN", "CLOSED"} /\ task' = Selecting
      /\ UNCHANGED <<unacked, unacked_slots, send_queue, call, reused>>
  BY <1>1, TaskType DEF SwitchFinWait, States
<1>3. TaskHolds'
  BY <1>2, Values, TaskSelecting
<1> QED
  BY <1>2, <1>3, StateSlots

\* Only the state changes.
LEMMA SwitchFinAckedSlots ==
    ASSUME TypeOK, TypeOK', SlotInv, SwitchFinAcked
    PROVE  SlotInv'
<1>1. PICK q, s : q = task.p /\ s = "FIN_WAIT_2"
  OBVIOUS
<1>2. /\ ports' = [ports EXCEPT ![q].state = s] /\ q \in PortIdx
      /\ s \in States \ {"LISTEN", "CLOSED"} /\ task' = Selecting
      /\ UNCHANGED <<unacked, unacked_slots, send_queue, call, reused>>
  BY <1>1, TaskType DEF SwitchFinAcked, States, queues
<1>3. TaskHolds'
  BY <1>2, Values, TaskSelecting
<1> QED
  BY <1>2, <1>3, StateSlots

\* The state machine ignores the segment.
LEMMA SwitchNoneSlots ==
    ASSUME TypeOK, TypeOK', SlotInv, SwitchNone
    PROVE  SlotInv'
<1>1. /\ UNCHANGED <<ports, unacked, unacked_slots, send_queue, call, reused>>
      /\ task' = Selecting
  BY DEF SwitchNone, tables, queues
<1>2. TaskHolds'
  BY <1>1, Values, TaskSelecting
<1> QED
  BY <1>1, <1>2, TaskMoves

-----------------------------------------------------------------------------
(* A port takes a tuple that nothing refers to.                            *)

\* A queue without such items counts none.
LEMMA CountNone ==
    ASSUME NEW Q, NEW T, \A k \in 1 .. Len(Q) : Q[k] \notin T
    PROVE  Count(Q, T) = 0
<1>1. Positions(Q, T) = {}
  BY DEF Positions
<1> QED
  BY <1>1, FS_EmptySet DEF Count

\* A port that takes a tuple nobody refers to starts with no queued segment
\* and no call holding a slot.
LEMMA NewTuple ==
    ASSUME TypeOK, TuplesDistinct, CallsRefer, ListenersQuiet,
           NEW q \in PortIdx, NEW self, NEW other, ~ TupleBusy(q, self, other),
           ports'[q].self = self, ports'[q].other = other,
           \A p \in PortIdx \ {q} : ports'[p] = ports[p],
           call' = call, send_queue' = send_queue
    PROVE  /\ TuplesDistinct' /\ CallsRefer' /\ ListenersQuiet'
           /\ Count(send_queue, Wanted(self, other)) = 0
           /\ Cardinality(Holders(call, q)) = 0
<1>1. /\ \A p \in PortIdx \ {q} : ports[p].self # self \/ ports[p].other # other
      /\ \A k \in 1 .. Len(send_queue) :
            Reliable(send_queue[k]) => send_queue[k].src # self \/ send_queue[k].dst # other
      /\ \A c \in Apps : call[c].pc # "idle" =>
            call[c].p # q /\ (call[c].item.src # self \/ call[c].item.dst # other)
  BY DEF TupleBusy
<1>2. TuplesDistinct'
  <2> SUFFICES ASSUME NEW a \in PortIdx, NEW b \in PortIdx, ports'[a].self # 0,
                      ports'[b].self = ports'[a].self, ports'[b].other = ports'[a].other
               PROVE  a = b
    BY DEF TuplesDistinct
  <2>1. CASE a # q /\ b # q
    BY <2>1 DEF TuplesDistinct
  <2>2. CASE a = q /\ b # q
    BY <1>1, <2>2
  <2>3. CASE b = q /\ a # q
    BY <1>1, <2>3
  <2> QED
    BY <2>1, <2>2, <2>3
<1>3. CallsRefer'
  <2> SUFFICES ASSUME NEW c \in Apps PROVE Refers(call[c], ports')
    BY DEF CallsRefer
  <2>1. Refers(call[c], ports) /\ call[c].p \in PortIdx
    BY CallType DEF CallsRefer
  <2>2. CASE call[c].pc = "idle"
    BY <2>1, <2>2 DEF Refers
  <2>3. CASE call[c].pc # "idle"
    <3>1. /\ ports'[call[c].p] = ports[call[c].p]
          /\ call[c].item.src # self \/ call[c].item.dst # other
      BY <1>1, <2>1, <2>3
    <3>2. \A p \in PortIdx :
             ports'[p].self # 0 /\ ports'[p].self = call[c].item.src
               /\ ports'[p].other = call[c].item.dst
             => p # q /\ ports'[p] = ports[p]
      BY <3>1
    <3> QED
      BY <2>1, <3>1, <3>2 DEF Refers
  <2> QED
    BY <2>2, <2>3
<1>4. ListenersQuiet'
  <2> SUFFICES ASSUME NEW p \in PortIdx, NEW k \in 1 .. Len(send_queue),
                      ports'[p].self # 0, ports'[p].state = "LISTEN",
                      Reliable(send_queue[k])
               PROVE  send_queue[k].src # ports'[p].self \/ send_queue[k].dst # ports'[p].other
    BY DEF ListenersQuiet
  <2>1. CASE p = q
    BY <1>1, <2>1
  <2>2. CASE p # q
    BY <2>2 DEF ListenersQuiet
  <2> QED
    BY <2>1, <2>2
<1>5. Count(send_queue, Wanted(self, other)) = 0
  <2>1. PICK Q, W : Q = send_queue /\ W = Wanted(self, other)
    OBVIOUS
  <2>2. \A k \in 1 .. Len(Q) : Q[k] \notin W
    BY <1>1, <2>1 DEF Wanted
  <2>3. Count(Q, W) = 0
    BY <2>2, CountNone
  <2> QED
    BY <2>1, <2>3
<1>6. Cardinality(Holders(call, q)) = 0
  <2>1. Holders(call, q) = {}
    BY <1>1 DEF Holders, Holds
  <2> QED
    BY <2>1, FS_EmptySet
<1> QED
  BY <1>2, <1>3, <1>4, <1>5, <1>6

\* The balance of the other ports does not change.
LEMMA OthersBalanced ==
    ASSUME TypeOK, TypeOK', Balanced, NEW q \in PortIdx,
           call' = call, send_queue' = send_queue,
           \A p \in PortIdx \ {q} : /\ ports'[p] = ports[p] /\ unacked'[p] = unacked[p]
                                    /\ unacked_slots'[p] = unacked_slots[p],
           ports'[q].self # 0 => SlotSum(q)' = MAX_UNACKED
                                   \/ (SlotSum(q)' = SlotSum(q) /\ ports[q].self # 0)
    PROVE  Balanced'
<1> SUFFICES ASSUME NEW p \in PortIdx, ports'[p].self # 0
             PROVE  /\ SlotSum(p)' <= MAX_UNACKED
                    /\ Lossless => SlotSum(p)' = MAX_UNACKED
  BY DEF Balanced
<1>1. CASE p = q
  BY <1>1, TcpConstants DEF Balanced
<1>2. CASE p # q
  <2>1. SlotSum(p)' = SlotSum(p)
    BY <1>2, SumBefore, SumAfter
  <2> QED
    BY <1>2, <2>1 DEF Balanced
<1> QED
  BY <1>1, <1>2

\* A listener takes the tuple of a peer: nothing was queued for it, so its
\* sum stays the same, unless the tuple is in use.
LEMMA SwitchListenSlots ==
    ASSUME TypeOK, TypeOK', SlotInv, SwitchListen
    PROVE  SlotInv'
<1>1. PICK q, self, peer, num, x :
         /\ q = task.p /\ self = ports[task.p].self /\ peer = task.seg.src
         /\ num = (task.seg.seq + 1) % SEQ_MOD
         /\ x = [Packet(task.p, {"SYN", "ACK"}) EXCEPT !.dst = task.seg.src]
  OBVIOUS
<1>2. /\ ports' = [ports EXCEPT ![q] = [@ EXCEPT !.state = "SYN_RECEIVED",
                                          !.other = peer, !.ack_num = num]]
      /\ ThenEnqueue(q, x)
      /\ reused' = (reused \/ TupleBusy(q, self, peer))
      /\ UNCHANGED <<unacked, unacked_slots, send_queue, call>>
  BY <1>1 DEF SwitchListen, queues
<1>3. q \in PortIdx /\ ports[q] \in Port /\ ports \in [PortIdx -> Port]
      /\ ports[q].state = "LISTEN"
  BY <1>1, TaskType DEF SwitchListen, Switch, TypeOK
<1>4. \A p \in PortIdx \ {q} : ports'[p] = ports[p]
  BY <1>2, <1>3
<1>5. ports'[q].self = self /\ ports'[q].other = peer /\ ports'[q].state = "SYN_RECEIVED"
  <2>1. ports'[q] = [ports[q] EXCEPT !.state = "SYN_RECEIVED", !.other = peer,
                                     !.ack_num = num]
    BY <1>2, <1>3
  <2> QED
    BY <1>1, <1>3, <2>1 DEF Port
<1>6. PortsOpen'
  BY <1>4, <1>5 DEF PortsOpen, SlotInv
<1>7. TaskHolds'
  <2>1. Packet(q, {"SYN", "ACK"}) \in Params
    BY <1>3, PacketType DEF Flags
  <2>2. peer \in Others
    <3>1. task.seg \in Segments \cup {NULL}
      BY TaskType
    <3>2. ports'[q] \in Port
      BY <1>3 DEF TypeOK
    <3> QED
      BY <1>5, <3>2 DEF Port
  <2>3. x \in Params /\ x.ctrl = {"SYN", "ACK"} /\ x.src = self /\ x.dst = peer
    BY <1>1, <2>1, <2>2 DEF Params, Packet
  <2>4. Reliable(x)
    BY <2>3, ReliableItem
  <2>5. task'.pc = "reliable" /\ task'.p = q /\ task'.item = x
    BY <1>2 DEF ThenEnqueue, Selecting
  <2> QED
    BY <1>5, <2>3, <2>4, <2>5 DEF TaskHolds
<1>8. ASSUME ~ reused'
      PROVE  TuplesDistinct' /\ CallsRefer' /\ ListenersQuiet' /\ Balanced'
  <2>1. /\ ~ reused /\ ~ TupleBusy(q, self, peer)
        /\ TuplesDistinct /\ CallsRefer /\ ListenersQuiet /\ Balanced
    BY <1>2, <1>8 DEF SlotInv
  <2>2. /\ TuplesDistinct' /\ CallsRefer' /\ ListenersQuiet'
        /\ Count(send_queue, Wanted(self, peer)) = 0
    BY <1>2, <1>3, <1>4, <1>5, <2>1, NewTuple
  <2>3. ASSUME ports'[q].self # 0
        PROVE  SlotSum(q)' = SlotSum(q) /\ ports[q].self # 0
    <3>1. Count(send_queue, Wanted(ports[q].self, ports[q].other)) = 0
      <4>1. PICK Q, W : Q = send_queue /\ W = Wanted(ports[q].self, ports[q].other)
        OBVIOUS
      <4>2. \A k \in 1 .. Len(Q) : Q[k] \notin W
        BY <1>1, <1>3, <1>5, <2>1, <2>3, <4>1 DEF Wanted, ListenersQuiet
      <4>3. Count(Q, W) = 0
        BY <4>2, CountNone
      <4> QED
        BY <4>1, <4>3
    <3>2. SlotSum(q) = Sum(unacked_slots[q], unacked[q], send_queue, call, q,
                           ports[q].self, ports[q].other)
      BY <1>3, SumBefore
    <3>3. SlotSum(q)' = Sum(unacked_slots[q], unacked[q], send_queue, call, q, self, peer)
      BY <1>2, <1>3, <1>5, SumAfter
    <3> QED
      BY <1>1, <1>5, <2>2, <2>3, <3>1, <3>2, <3>3 DEF Sum
  <2>4. Balanced'
    BY <1>2, <1>3, <1>4, <2>1, <2>3, OthersBalanced
  <2> QED
    BY <2>2, <2>4
<1> QED
  BY <1>6, <1>7, <1>8 DEF SlotInv

\* allocate_port: nothing of the new port is taken, queued or held.
LEMMA CreateSlots ==
    ASSUME TypeOK, TypeOK', SlotInv, TaskHolds', NEW q \in PortIdx, NEW self, NEW other,
           NEW state \in States \ {"CLOSED"}, state = "LISTEN" => other = NoPeer,
           CreatePort(q, self, other, state), UNCHANGED <<send_queue, call>>
    PROVE  SlotInv'
<1>1. /\ ports \in [PortIdx -> Port] /\ unacked \in [PortIdx -> [SlotIdx -> Unacked]]
      /\ unacked_slots \in [PortIdx -> 0 .. MAX_UNACKED]
  BY DEF TypeOK
<1>2. \A p \in PortIdx \ {q} : /\ ports'[p] = ports[p] /\ unacked'[p] = unacked[p]
                               /\ unacked_slots'[p] = unacked_slots[p]
  BY <1>1 DEF CreatePort
<1>3. ports'[q].self = self /\ ports'[q].other = other /\ ports'[q].state = state
  BY <1>1 DEF CreatePort
<1>4. unacked_slots'[q] = MAX_UNACKED /\ \A i \in SlotIdx : unacked'[q][i] = Free
  BY <1>1 DEF CreatePort
<1>5. PortsOpen'
  BY <1>2, <1>3 DEF PortsOpen, SlotInv
<1>6. ASSUME ~ reused'
      PROVE  TuplesDistinct' /\ CallsRefer' /\ ListenersQuiet' /\ Balanced'
  <2>1. ~ reused /\ ~ TupleBusy(q, self, other)
    BY <1>6 DEF CreatePort
  <2>2. TuplesDistinct /\ CallsRefer /\ ListenersQuiet /\ Balanced
    BY <2>1 DEF SlotInv
  <2>3. /\ TuplesDistinct' /\ CallsRefer' /\ ListenersQuiet'
        /\ Count(send_queue, Wanted(self, other)) = 0
        /\ Cardinality(Holders(call, q)) = 0
    BY <1>2, <1>3, <2>1, <2>2, NewTuple
  <2>4. Cardinality(Taken(unacked'[q])) = 0
    <3>1. ~ Free.in_use
      BY DEF Free
    <3>2. Taken(unacked'[q]) = {}
      BY <1>4, <3>1 DEF Taken
    <3> QED
      BY <3>2, FS_EmptySet
  <2>5. SlotSum(q)' = MAX_UNACKED
    <3>1. SlotSum(q)' = Sum(MAX_UNACKED, unacked'[q], send_queue, call, q, self, other)
      BY <1>3, <1>4, SumAfter
    <3>2. SlotSum(q)' = MAX_UNACKED + 0 + 0 + 0
      BY <2>3, <2>4, <3>1 DEF Sum
    <3> QED
      BY <3>2, TcpConstants
  <2>6. Balanced'
    BY <1>2, <2>2, <2>5, OthersBalanced
  <2> QED
    BY <2>3, <2>6
<1> QED
  BY <1>5, <1>6 DEF SlotInv

-----------------------------------------------------------------------------
(* tcp_task: port commands.                                                *)

\* A new listener has all its slots free.
LEMMA CmdListenSlots ==
    ASSUME TypeOK, TypeOK', SlotInv, CmdListen
    PROVE  SlotInv'
<1>1. PICK q, self, other, state : /\ q = Min(FreePorts)
                                   /\ self = Head(port_cmd_queue).self
                                   /\ other = NoPeer /\ state = "LISTEN"
  OBVIOUS
<1>2. /\ q \in PortIdx /\ CreatePort(q, self, other, state)
      /\ state \in States \ {"CLOSED"}
  BY <1>1, FreePortType DEF CmdListen, States
<1>3. UNCHANGED <<send_queue, call, task>> /\ task.pc = "select"
  BY DEF CmdListen, TakeCmd, Selected
<1>4. TaskHolds'
  BY <1>3, TaskSelecting
<1> QED
  BY <1>1, <1>2, <1>3, <1>4, CreateSlots

\* A new connection has all its slots free, and tcp_task is about to queue
\* its SYN.
LEMMA CmdConnectSlots ==
    ASSUME TypeOK, TypeOK', SlotInv, CmdConnect
    PROVE  SlotInv'
<1>1. PICK q, self, other, state, x :
         /\ q = Min(FreePorts) /\ self = Head(port_cmd_queue).self
         /\ other = Head(port_cmd_queue).other /\ state = "SYN_SENT"
         /\ x = [src |-> self, dst |-> other, ctrl |-> {"SYN"}, data |-> NULL, len |-> 0]
  OBVIOUS
<1>2. /\ q \in PortIdx /\ CreatePort(q, self, other, state)
      /\ state \in States \ {"CLOSED"} /\ state # "LISTEN" /\ ThenEnqueue(q, x)
  BY <1>1, FreePortType DEF CmdConnect, States
<1>3. UNCHANGED <<send_queue, call>>
  BY DEF CmdConnect, TakeCmd
<1>4. ports'[q].self = self /\ ports'[q].other = other /\ ports'[q].state = state
  BY <1>2 DEF CreatePort, TypeOK
<1>5. Reliable(x) /\ x.src = self /\ x.dst = other
  BY <1>1 DEF Reliable, SeqIncrement
<1>6. task'.pc = "reliable" /\ task'.p = q /\ task'.item = x
  BY <1>2 DEF ThenEnqueue, Selecting
<1>7. TaskHolds'
  BY <1>2, <1>4, <1>5, <1>6 DEF TaskHolds
<1> QED
  BY <1>2, <1>3, <1>7, CreateSlots

\* tcp_task is about to queue a FIN.
LEMMA CmdCloseSlots ==
    ASSUME TypeOK, TypeOK', SlotInv, CmdClose
    PROVE  SlotInv'
<1> DEFINE found == FindPort(Head(port_cmd_queue).self, Head(port_cmd_queue).other)
<1>1. PICK q, s, x : q = Min(found) /\ s = "FIN_WAIT_1" /\ x = Packet(q, {"FIN"})
  OBVIOUS
<1>2. q \in PortIdx /\ s \in States \ {"LISTEN", "CLOSED"}
  <2>1. found \in SUBSET PortIdx /\ found # {}
    BY DEF FindPort, CmdClose
  <2> QED
    BY <1>1, <2>1, FirstPort DEF States
<1>3. /\ ports' = [ports EXCEPT ![q].state = s] /\ ThenEnqueue(q, x)
      /\ UNCHANGED <<unacked, unacked_slots, send_queue, call, reused>>
  BY <1>1 DEF CmdClose, TakeCmd
<1>4. TaskHolds'
  <2>1. ports'[q].self = ports[q].self /\ ports'[q].other = ports[q].other
        /\ ports'[q].state = s
    <3>1. PortsOpen
      BY DEF SlotInv
    <3>2. \A p \in PortIdx : /\ ports'[p].self = ports[p].self
                             /\ ports'[p].other = ports[p].other
                             /\ ports'[p].state = IF p = q THEN s ELSE ports[p].state
      BY <1>2, <1>3, <3>1, StateFields
    <3> QED
      BY <1>2, <3>2
  <2>2. /\ x \in Params /\ x.ctrl = {"FIN"}
        /\ x.src = ports[q].self /\ x.dst = ports[q].other
    BY <1>1, <1>2, PacketType DEF Packet, Flags
  <2>3. Reliable(x)
    BY <2>2, ReliableItem
  <2>4. task'.pc = "reliable" /\ task'.p = q /\ task'.item = x
    BY <1>3 DEF ThenEnqueue, Selecting
  <2> QED
    BY <1>2, <2>1, <2>2, <2>3, <2>4 DEF TaskHolds
<1> QED
  BY <1>2, <1>3, <1>4, StateSlots

\* A command that cannot be carried out changes no port.
LEMMA CmdFailsSlots ==
    ASSUME TypeOK, TypeOK', SlotInv, CmdFails
    PROVE  SlotInv'
<1>1. UNCHANGED <<ports, unacked, unacked_slots, send_queue, call, reused, task>>
  BY DEF CmdFails, TakeCmd, tables
<1>2. TaskHolds'
  BY <1>1, TaskSame DEF SlotInv
<1> QED
  BY <1>1, <1>2, TaskMoves

-----------------------------------------------------------------------------
(* tcp_task: the scan for timeouts.                                        *)

\* The scan is due only for entries in use.
LEMMA ScanBeginSlots ==
    ASSUME TypeOK, TypeOK', SlotInv, NEW due \in SUBSET Timers, ScanBegin(due)
    PROVE  SlotInv'
<1>1. /\ UNCHANGED <<ports, unacked, unacked_slots, send_queue, call, reused>>
      /\ task' = [task EXCEPT !.pc = "scan", !.due = due] /\ task \in Task
  BY TaskType DEF ScanBegin, tables, queues
<1>2. task'.pc = "scan" /\ task'.due = due
  BY <1>1 DEF Task
<1>3. ASSUME NEW p \in PortIdx, NEW i \in SlotIdx, <<p, i>> \in due
      PROVE  unacked[p][i].in_use
  <2>1. i # 0
    BY DEF SlotIdx
  <2>2. <<p, i>> \in Timers
    BY <1>3
  <2> QED
    BY <2>1, <2>2 DEF Timers
<1>4. TaskHolds'
  BY <1>1, <1>2, <1>3 DEF TaskHolds
<1> QED
  BY <1>1, <1>4, TaskMoves

\* What is left of a scan was due before.
LEMMA ScannedDue ==
    ASSUME TypeOK, NEW done, Scanned(done), task.pc = "scan"
    PROVE  \/ task'.pc = "select"
           \/ task'.pc = "scan" /\ task'.due = task.due \ done
<1>1. CASE task' = Selecting
  BY <1>1, Values
<1>2. CASE task' = [task EXCEPT !.due = task.due \ done]
  <2>1. task \in Task
    BY TaskType
  <2> QED
    BY <1>2, <2>1 DEF Task
<1> QED
  BY <1>1, <1>2 DEF Scanned

\* The timers that are left are those of entries still in use.
LEMMA ScannedHolds ==
    ASSUME TypeOK, TaskHolds, NEW done, Scanned(done), task.pc = "scan",
           \A p \in PortIdx, i \in SlotIdx :
              <<p, i>> \in task.due \ done /\ unacked[p][i].in_use => unacked'[p][i].in_use
    PROVE  TaskHolds'
<1>1. CASE task'.pc = "select"
  BY <1>1, TaskSelecting
<1>2. CASE task'.pc = "scan" /\ task'.due = task.due \ done
  BY <1>2 DEF TaskHolds
<1> QED
  BY <1>1, <1>2, ScannedDue

\* A port leaves TIME_WAIT by a reset.
LEMMA ScanTimeWaitSlots ==
    ASSUME TypeOK, TypeOK', SlotInv, NEW q \in PortIdx, ScanTimeWait(q)
    PROVE  SlotInv'
<1>1. PICK done : done = {q} \X (0 .. MAX_UNACKED)
  OBVIOUS
<1>2. /\ Scanned(done) /\ task.pc = "scan" /\ ResetPort(q)
      /\ send_queue' = send_queue /\ reused' = reused
  BY <1>1 DEF ScanTimeWait, ScanAt, queues
<1>3. \A p \in PortIdx, i \in SlotIdx : unacked'[p][i].in_use = unacked[p][i].in_use
  BY <1>2, ResetFields
<1>4. TaskHolds'
  BY <1>2, <1>3, ScannedHolds DEF SlotInv
<1> QED
  BY <1>2, <1>4, ResetSlots

\* A retransmission the IPv4 queue takes changes no entry.
LEMMA ScanRetransmitSlots ==
    ASSUME TypeOK, TypeOK', SlotInv, NEW p \in PortIdx, NEW i \in SlotIdx,
           ScanRetransmit(p, i)
    PROVE  SlotInv'
<1>1. PICK done : done = {<<p, i>>}
  OBVIOUS
<1>2. /\ Scanned(done) /\ task.pc = "scan"
      /\ UNCHANGED <<ports, unacked, unacked_slots, send_queue, call, reused>>
  BY <1>1 DEF ScanRetransmit, ScanAt, tables, queues
<1>3. TaskHolds'
  BY <1>2, ScannedHolds DEF SlotInv
<1> QED
  BY <1>2, <1>3, TaskMoves

\* The entry that is dropped was in use: its slot goes back to the semaphore.
LEMMA ScanDropSlots ==
    ASSUME TypeOK, TypeOK', SlotInv, NEW q \in PortIdx, NEW j \in SlotIdx,
           ScanDrop(q, j)
    PROVE  SlotInv'
<1>1. PICK done, rel : done = {<<q, j>>} /\ rel = {j}
  OBVIOUS
<1>2. /\ Scanned(done) /\ task.pc = "scan" /\ <<q, j>> \in task.due
      /\ unacked' = [unacked EXCEPT ![q][j] = Free]
      /\ unacked_slots' = [unacked_slots EXCEPT ![q] = Given(@)]
      /\ UNCHANGED <<ports, send_queue, call, reused>>
  BY <1>1 DEF ScanDrop, ScanAt, queues
<1>3. /\ unacked \in [PortIdx -> [SlotIdx -> Unacked]]
      /\ unacked_slots \in [PortIdx -> 0 .. MAX_UNACKED]
  BY DEF TypeOK
<1>4. /\ \A p \in PortIdx, i \in SlotIdx :
            unacked'[p][i] = IF p = q /\ i = j THEN Free ELSE unacked[p][i]
      /\ \A p \in PortIdx : p # q => /\ unacked'[p] = unacked[p]
                                     /\ unacked_slots'[p] = unacked_slots[p]
      /\ unacked_slots'[q] = Given(unacked_slots[q])
  BY <1>2, <1>3
<1>5. unacked[q][j].in_use
  BY <1>2 DEF SlotInv, TaskHolds
<1>6. TaskHolds'
  <2>1. \A p \in PortIdx, i \in SlotIdx :
           <<p, i>> \in task.due \ done /\ unacked[p][i].in_use => unacked'[p][i].in_use
    BY <1>1, <1>4
  <2> QED
    BY <1>2, <2>1, ScannedHolds DEF SlotInv
<1>7. PortsOpen' /\ PortsKept
  BY <1>2, PortsSame DEF SlotInv
<1>8. ASSUME ~ reused PROVE ListenersQuiet'
  BY <1>2, <1>7, <1>8, QuietSame DEF SlotInv
<1>9. ASSUME ~ reused, NEW p \in PortIdx, ports'[p].self # 0
      PROVE  Sum(unacked_slots'[p], unacked'[p], send_queue', call', p,
                 ports[p].self, ports[p].other)
             = Sum(unacked_slots[p], unacked[p], send_queue, call, p,
                   ports[p].self, ports[p].other)
  <2>1. CASE p # q
    BY <1>2, <1>4, <2>1
  <2>2. CASE p = q
    <3>1. rel \in SUBSET Taken(unacked[p])
      BY <1>1, <1>5, <2>2 DEF Taken
    <3>2. \A i \in SlotIdx : unacked'[p][i] = IF i \in rel THEN Free ELSE unacked[p][i]
      BY <1>1, <1>4, <2>2
    <3>3. unacked_slots'[p] = GivenBack(p, Cardinality(rel))
      <4>1. Cardinality(rel) = 1
        BY <1>1, FS_Singleton
      <4>2. unacked_slots[q] \in 0 .. MAX_UNACKED
        BY <1>3
      <4> QED
        BY <1>4, <2>2, <4>1, <4>2, TcpConstants DEF GivenBack, Given
    <3>4. Balanced /\ ports[p].self # 0
      BY <1>2, <1>9 DEF SlotInv
    <3> QED
      BY <1>2, <3>1, <3>2, <3>3, <3>4, ReleaseBalance
  <2> QED
    BY <2>1, <2>2
<1> QED
  BY <1>2, <1>6, <1>7, <1>8, <1>9, KeptStep

-----------------------------------------------------------------------------
(* Steps that touch neither the tables nor send_queue nor a call.          *)

\* A step that touches none of what SlotInv speaks of.
LEMMA OtherSlots ==
    ASSUME TypeOK, TypeOK', SlotInv,
           UNCHANGED <<ports, unacked, unacked_slots, send_queue, call, reused, task>>
    PROVE  SlotInv'
<1>1. TaskHolds'
  BY TaskSame DEF SlotInv
<1> QED
  BY <1>1, TaskMoves

\* Segments and commands that arrive touch none of it.
LEMMA EnvironmentSlots ==
    ASSUME TypeOK, TypeOK', SlotInv, Environment
    PROVE  SlotInv'
<1>1. ASSUME NEW seg \in Segments, InputTcp(seg) PROVE SlotInv'
  BY <1>1, OtherSlots DEF InputTcp, tables
<1>2. ASSUME NEW cmd \in Cmd, PortCmd(cmd) PROVE SlotInv'
  BY <1>2, OtherSlots DEF PortCmd, tables
<1> QED
  BY <1>1, <1>2, TcpSendSlots DEF Environment

\* Nor does a segment nobody takes.
LEMMA InputDiscardSlots ==
    ASSUME TypeOK, TypeOK', SlotInv, InputDiscard
    PROVE  SlotInv'
BY OtherSlots DEF InputDiscard, TakeInput, tables

\* Nor does ipv4_task.
LEMMA Ipv4DrainSlots ==
    ASSUME TypeOK, TypeOK', SlotInv, Ipv4Drain
    PROVE  SlotInv'
BY OtherSlots DEF Ipv4Drain, tables, queues

-----------------------------------------------------------------------------

\* SlotInv holds with no ports.
LEMMA SlotInitial ==
    ASSUME Init
    PROVE  SlotInv
<1>1. \A p \in PortIdx : ports[p].self = 0 /\ ports[p].state = "CLOSED"
  BY DEF Init
<1>2. task.pc = "select" /\ \A c \in Apps : call[c] = Idle
  BY Values DEF Init
<1>3. TaskHolds /\ PortsOpen
  BY <1>1, <1>2 DEF TaskHolds, PortsOpen
<1>4. CallsRefer
  BY <1>2, IdleRefers DEF CallsRefer
<1>5. TuplesDistinct /\ ListenersQuiet /\ Balanced
  BY <1>1 DEF TuplesDistinct, ListenersQuiet, Balanced
<1> QED
  BY <1>3, <1>4, <1>5 DEF SlotInv

\* Every step keeps SlotInv.
LEMMA SlotStep ==
    ASSUME TcpInv, SlotInv, [Next]_vars
    PROVE  SlotInv'
<1>0. TypeOK /\ TypeOK'
  BY TcpStep DEF TcpInv
<1>1. CASE Environment
  BY <1>0, <1>1, EnvironmentSlots
<1>2. ASSUME NEW c \in Apps, CallReturning(c) \/ TakeDeleted(c)
      PROVE  SlotInv'
  BY <1>0, <1>2, SendParamsSlots, TakeSlotSlots, TakeTimeoutSlots, CheckClosedSlots,
     EnqueueSegmentSlots, EnqueueFullSlots, TakeDeletedSlots DEF CallReturning
<1>3. CASE TaskReceive
  BY <1>0, <1>3, InputDiscardSlots, InputResetSlots, InputProcessSlots, InputAckSlots,
     SwitchListenSlots, SwitchEstablishSlots, SwitchFinSlots, DeliverSlots,
     SwitchLastAckSlots, SwitchFinWaitSlots, SwitchFinAckedSlots, SwitchNoneSlots
     DEF TaskReceive
<1>4. CASE TcpTask
  BY <1>0, <1>3, <1>4, SendDroppedSlots, SendReliableSlots, SendPlainSlots,
     EnqueueReliableSlots, CmdListenSlots, CmdConnectSlots, CmdCloseSlots, CmdFailsSlots,
     ScanTimeWaitSlots, ScanRetransmitSlots, ScanDropSlots DEF TcpTask
<1>5. CASE \E due \in SUBSET Timers : ScanBegin(due)
  BY <1>0, <1>5, ScanBeginSlots
<1>6. CASE Ipv4Drain
  BY <1>0, <1>6, Ipv4DrainSlots
<1>7. CASE UNCHANGED vars
  BY <1>0, <1>7, OtherSlots DEF vars, tables, queues
<1> QED
  BY <1>1, <1>2, <1>4, <1>5, <1>6, <1>7 DEF Next, System

\* SlotInv holds in every behaviour.
LEMMA SlotInvariant == Spec => []SlotInv
<1>1. Init => SlotInv
  BY SlotInitial
<1>2. TcpInv /\ SlotInv /\ [Next]_vars => SlotInv'
  BY SlotStep
<1> QED
  BY <1>1, <1>2, TcpInvariant, PTL DEF Spec

\* A slot taken on a port's semaphore reserves a retransmission entry: free
\* slots, calls of tcp_send that hold one, segments in send_queue and entries
\* in use never exceed MAX_UNACKED, whatever timeouts, resets, failing
\* retransmissions and refused segments give back, so that tcp_send_internal
\* finds an empty entry for every segment tcp_send accepted (as long as no
\* port has taken over a tuple that is still referred to).
THEOREM EntryAlwaysReserved == Spec => []SlotBound
<1>1. SlotInv => SlotBound
  BY DEF SlotInv, SlotBound, Balanced, SlotSum
<1> QED
  BY <1>1, SlotInvariant, PTL

\* No slot is lost on any path of tcp_send, tcp_enqueue_reliable, the state
\* machine and the scan, provided that malloc succeeds and no application
\* sends an empty payload, the two cases in which the code does lose one (and,
\* as SlotExact says, as long as no port has taken over a tuple in use).
THEOREM NoSlotLost == Lossless /\ Spec => []SlotExact
<1>1. Lossless /\ SlotInv => SlotExact
  BY DEF SlotInv, SlotExact, Balanced, SlotSum
<1>2. Lossless => Lossless'
  BY DEF Lossless
<1> QED
  BY <1>1, <1>2, SlotInvariant, PTL

-----------------------------------------------------------------------------
(* The sequence numbers of the entries.                                    *)

\* What is queued for a port still fits below the wrap of its sequence number.
SeqRoom ==
    \A p \in PortIdx, k \in 1 .. Len(send_queue) :
       send_queue[k].src = ports[p].self /\ send_queue[k].dst = ports[p].other
         => ports[p].seq_num + SeqIncrement(send_queue[k].len, send_queue[k].ctrl)
              < SEQ_MOD

EndOf(e) == e.seq_num + SeqIncrement(e.len, e.ctrl)

\* The entries u of a port cover disjoint ranges below its next number n.
Apart(n, u) ==
    /\ \A i \in SlotIdx : u[i].in_use => EndOf(u[i]) <= n
    /\ \A i, j \in SlotIdx :
          u[i].in_use /\ u[j].in_use
            => i = j \/ EndOf(u[i]) <= u[j].seq_num \/ EndOf(u[j]) <= u[i].seq_num

RangesApart == \A p \in PortIdx : ports[p].self # 0 => Apart(ports[p].seq_num, unacked[p])

\* RangesApart is UnackedDisjoint, stated for each port by what it has.
LEMMA DisjointIsApart == RangesApart <=> UnackedDisjoint
BY DEF RangesApart, UnackedDisjoint, Apart, EndOf

\* Ports keep their number and lose entries, or start without any.
LEMMA ApartKept ==
    ASSUME RangesApart,
           \A p \in PortIdx : ports'[p].self # 0 =>
              \/ /\ ports[p].self # 0 /\ ports'[p].seq_num = ports[p].seq_num
                 /\ \A i \in SlotIdx : unacked'[p][i].in_use
                                         => unacked'[p][i] = unacked[p][i]
              \/ \A i \in SlotIdx : ~ unacked'[p][i].in_use
    PROVE  RangesApart'
<1> SUFFICES ASSUME NEW p \in PortIdx, ports'[p].self # 0
             PROVE  Apart(ports'[p].seq_num, unacked'[p])
  BY DEF RangesApart
<1>1. CASE \A i \in SlotIdx : ~ unacked'[p][i].in_use
  BY <1>1 DEF Apart
<1>2. CASE /\ ports[p].self # 0 /\ ports'[p].seq_num = ports[p].seq_num
           /\ \A i \in SlotIdx : unacked'[p][i].in_use => unacked'[p][i] = unacked[p][i]
  <2>1. Apart(ports[p].seq_num, unacked[p])
    BY <1>2 DEF RangesApart
  <2> QED
    BY <1>2, <2>1 DEF Apart
<1> QED
  BY <1>1, <1>2

\* A step that leaves the ports and entries alone.
LEMMA ApartSame ==
    ASSUME RangesApart, UNCHANGED <<ports, unacked>>
    PROVE  RangesApart'
BY DEF RangesApart

\* One port changes, but neither its number nor whether it is open.
LEMMA ApartPort ==
    ASSUME TypeOK, RangesApart, NEW q \in PortIdx, NEW r,
           ports' = [ports EXCEPT ![q] = r], r.self = ports[q].self,
           r.seq_num = ports[q].seq_num, unacked' = unacked
    PROVE  RangesApart'
<1>1. \A p \in PortIdx : ports'[p].self = ports[p].self /\ ports'[p].seq_num = ports[p].seq_num
  BY DEF TypeOK
<1> QED
  BY <1>1, ApartKept

\* A change of state moves no sequence number.
LEMMA ApartState ==
    ASSUME TypeOK, RangesApart, NEW q \in PortIdx, NEW s,
           ports' = [ports EXCEPT ![q].state = s], unacked' = unacked
    PROVE  RangesApart'
<1>1. PICK r : r = [ports[q] EXCEPT !.state = s]
  OBVIOUS
<1>2. ports[q] \in Port
  BY DEF TypeOK
<1>3. ports' = [ports EXCEPT ![q] = r]
  BY <1>1
<1>4. r.self = ports[q].self /\ r.seq_num = ports[q].seq_num
  BY <1>1, <1>2 DEF Port
<1> QED
  BY <1>3, <1>4, ApartPort

\* A port that was reset has no range to keep apart.
LEMMA ApartReset ==
    ASSUME TypeOK, RangesApart, NEW q \in PortIdx, ResetPort(q)
    PROVE  RangesApart'
<1>1. \A p \in PortIdx : /\ ports'[p].self = IF p = q THEN 0 ELSE ports[p].self
                         /\ p # q => unacked'[p] = unacked[p]
  BY ResetFields
<1>2. \A p \in PortIdx : p # q => ports'[p] = ports[p]
  BY DEF ResetPort, TypeOK
<1> QED
  BY <1>1, <1>2, ApartKept

\* A port that is allocated keeps nothing yet.
LEMMA ApartCreate ==
    ASSUME TypeOK, RangesApart, NEW q \in PortIdx, NEW self, NEW other, NEW state,
           CreatePort(q, self, other, state)
    PROVE  RangesApart'
<1>1. \A p \in PortIdx : p # q => ports'[p] = ports[p] /\ unacked'[p] = unacked[p]
  BY DEF CreatePort, TypeOK
<1>2. \A i \in SlotIdx : unacked'[q][i] = Free
  BY DEF CreatePort, TypeOK
<1>3. \A i \in SlotIdx : ~ unacked'[q][i].in_use
  BY <1>2 DEF Free
<1> QED
  BY <1>1, <1>3, ApartKept

\* The new entry begins where the others have ended and ends where the next
\* will begin.
LEMMA ApartMore ==
    ASSUME NEW n \in Nat, NEW u \in [SlotIdx -> Unacked], NEW v, NEW j \in SlotIdx,
           Apart(n, u), ~ u[j].in_use, \A i \in SlotIdx : i # j => v[i] = u[i],
           v[j].seq_num = n, EndOf(v[j]) \in Nat, n <= EndOf(v[j])
    PROVE  Apart(EndOf(v[j]), v)
<1>1. ASSUME NEW i \in SlotIdx, v[i].in_use
      PROVE  EndOf(v[i]) <= EndOf(v[j])
  <2>1. CASE i = j
    BY <2>1
  <2>2. CASE i # j
    <3>1. EndOf(u[i]) <= n /\ v[i] = u[i]
      BY <1>1, <2>2 DEF Apart
    <3>2. EndOf(u[i]) \in Nat
      <4>1. u[i] \in Unacked
        OBVIOUS
      <4> QED
        BY <4>1, TcpConstants DEF EndOf, Unacked, SeqIncrement, SeqNums
    <3> QED
      BY <3>1, <3>2
  <2> QED
    BY <2>1, <2>2
<1>2. ASSUME NEW i \in SlotIdx, NEW k \in SlotIdx, v[i].in_use, v[k].in_use, i # k
      PROVE  EndOf(v[i]) <= v[k].seq_num \/ EndOf(v[k]) <= v[i].seq_num
  <2>1. CASE i # j /\ k # j
    BY <1>2, <2>1 DEF Apart
  <2>2. CASE k = j
    BY <1>2, <2>2 DEF Apart
  <2>3. CASE i = j
    BY <1>2, <2>3 DEF Apart
  <2> QED
    BY <2>1, <2>2, <2>3
<1> QED
  BY <1>1, <1>2 DEF Apart

\* A segment is numbered from the next sequence number on, above all the
\* port keeps.
LEMMA ApartSend ==
    ASSUME TypeOK, RangesApart, SeqRoom, SendReliable
    PROVE  RangesApart'
<1> DEFINE item  == Head(send_queue)
           found == FindPort(item.src, item.dst)
<1>1. PICK q, j, e, n : /\ q = Min(found) /\ j = Min(EmptyUnacked(q))
                        /\ e = [in_use |-> TRUE, seq_num |-> ports[q].seq_num,
                                ctrl |-> item.ctrl, data |-> item.data, len |-> item.len]
                        /\ n = NextSeq(q, item)
  OBVIOUS
<1>2. /\ found # {} /\ EmptyUnacked(q) # {} /\ TakeSend
      /\ unacked' = [unacked EXCEPT ![q][j] = e]
      /\ ports' = [ports EXCEPT ![q].seq_num = n]
  BY <1>1 DEF SendReliable
<1>3. q \in found /\ q \in PortIdx
  <2>1. found \in SUBSET PortIdx
    BY DEF FindPort
  <2> QED
    BY <1>1, <1>2, <2>1, FirstPort
<1>4. j \in SlotIdx /\ ~ unacked[q][j].in_use
  <2>1. EmptyUnacked(q) \in SUBSET SlotIdx
    BY DEF EmptyUnacked
  <2>2. j \in EmptyUnacked(q)
    BY <1>1, <1>2, <2>1, FirstSlot
  <2> QED
    BY <2>2 DEF EmptyUnacked
<1>5. item \in Params /\ ports[q] \in Port /\ ports \in [PortIdx -> Port]
      /\ unacked \in [PortIdx -> [SlotIdx -> Unacked]]
  BY <1>2, <1>3, TakeSendType DEF TypeOK
<1>6. /\ ports[q].seq_num \in Nat /\ SeqIncrement(item.len, item.ctrl) \in Nat
      /\ EndOf(e) = ports[q].seq_num + SeqIncrement(item.len, item.ctrl)
      /\ e.seq_num = ports[q].seq_num
  <2>1. ports[q].seq_num \in SeqNums /\ item.len \in Nat
    BY <1>5 DEF Port, Params
  <2> QED
    BY <1>1, <2>1, TcpConstants DEF SeqNums, SeqIncrement, EndOf
<1>7. n = EndOf(e)
  <2>1. send_queue[1] = item /\ 1 \in 1 .. Len(send_queue)
    BY <1>2, TakeSendType DEF TypeOK
  <2>2. ports[q].self = item.src /\ ports[q].other = item.dst
    BY <1>3 DEF FindPort
  <2>3. ports[q].seq_num + SeqIncrement(item.len, item.ctrl) < SEQ_MOD
    BY <1>3, <2>1, <2>2 DEF SeqRoom
  <2>4. (ports[q].seq_num + SeqIncrement(item.len, item.ctrl)) % SEQ_MOD
          = ports[q].seq_num + SeqIncrement(item.len, item.ctrl)
    BY <1>6, <2>3, TcpConstants
  <2> QED
    BY <1>1, <1>6, <2>4 DEF NextSeq
<1>8. /\ \A p \in PortIdx : p # q => ports'[p] = ports[p] /\ unacked'[p] = unacked[p]
      /\ \A i \in SlotIdx : unacked'[q][i] = IF i = j THEN e ELSE unacked[q][i]
  BY <1>2, <1>3, <1>4, <1>5
<1>9. ports'[q].self = ports[q].self /\ ports'[q].seq_num = n
  <2>1. ports'[q] = [ports[q] EXCEPT !.seq_num = n]
    BY <1>2, <1>3, <1>5
  <2> QED
    BY <1>5, <2>1 DEF Port
<1> SUFFICES ASSUME NEW p \in PortIdx, ports'[p].self # 0
             PROVE  Apart(ports'[p].seq_num, unacked'[p])
  BY DEF RangesApart
<1>10. CASE p # q
  BY <1>8, <1>10 DEF RangesApart
<1>11. CASE p = q
  <2>1. PICK u, v, m : u = unacked[q] /\ v = unacked'[q] /\ m = ports[q].seq_num
    OBVIOUS
  <2>2. Apart(m, u) /\ u \in [SlotIdx -> Unacked] /\ m \in Nat /\ ~ u[j].in_use
    BY <1>3, <1>4, <1>5, <1>6, <1>9, <1>11, <2>1 DEF RangesApart
  <2>3. v[j] = e /\ \A i \in SlotIdx : i # j => v[i] = u[i]
    BY <1>4, <1>8, <2>1
  <2>4. EndOf(e) \in Nat /\ m <= EndOf(e) /\ e.seq_num = m
    BY <1>6, <2>1
  <2>5. Apart(EndOf(v[j]), v)
    BY <1>4, <2>2, <2>3, <2>4, ApartMore
  <2> QED
    BY <1>7, <1>9, <1>11, <2>1, <2>3, <2>5
<1> QED
  BY <1>10, <1>11

\* Receiving only releases entries and leaves seq_num alone.
LEMMA ApartReceive ==
    ASSUME TypeOK, RangesApart, TaskReceive
    PROVE  RangesApart'
<1>1. CASE InputDiscard \/ InputAck \/ SwitchFin \/ Deliver \/ SwitchNone
  BY <1>1, ApartSame DEF InputDiscard, InputAck, SwitchFin, Deliver, SwitchNone, tables
<1>2. CASE InputReset
  <2>1. PICK q : q = Min(Receiver(Head(input_queue)))
    OBVIOUS
  <2>2. q \in PortIdx /\ ResetPort(q)
    BY <1>2, <2>1, ReceiverType DEF InputReset
  <2> QED
    BY <2>2, ApartReset
<1>3. CASE InputProcess
  <2> DEFINE seg == Head(input_queue)
  <2>1. PICK q, rel, num : /\ q = Min(Receiver(seg)) /\ rel = Acked(q, seg)
                           /\ num = IF NeedsAck(q, seg)
                                    THEN (seg.seq + SeqIncrement(seg.len, seg.ctrl)) % SEQ_MOD
                                    ELSE ports[q].ack_num
    OBVIOUS
  <2>2. /\ q \in PortIdx
        /\ unacked' = [unacked EXCEPT ![q] =
                         [i \in SlotIdx |-> IF i \in rel THEN Free ELSE unacked[q][i]]]
        /\ ports' = [ports EXCEPT ![q] = [ports[q] EXCEPT !.ack_num = num]]
    BY <1>3, <2>1, ReceiverType DEF InputProcess
  <2>3. /\ ports \in [PortIdx -> Port] /\ ports[q] \in Port
        /\ unacked \in [PortIdx -> [SlotIdx -> Unacked]]
    BY <2>2 DEF TypeOK
  <2>4. \A p \in PortIdx : ports'[p].self = ports[p].self
                           /\ ports'[p].seq_num = ports[p].seq_num
    <3>1. /\ [ports[q] EXCEPT !.ack_num = num].self = ports[q].self
          /\ [ports[q] EXCEPT !.ack_num = num].seq_num = ports[q].seq_num
      BY <2>3 DEF Port
    <3> QED
      BY <2>2, <2>3, <3>1
  <2>5. ~ Free.in_use
    BY DEF Free
  <2>6. \A p \in PortIdx, i \in SlotIdx :
           unacked'[p][i].in_use => unacked'[p][i] = unacked[p][i]
    BY <2>2, <2>3, <2>5
  <2> QED
    BY <2>4, <2>6, ApartKept
<1>4. CASE SwitchListen
  <2>1. PICK q, peer, num, r :
           /\ q = task.p /\ peer = task.seg.src /\ num = (task.seg.seq + 1) % SEQ_MOD
           /\ r = [ports[q] EXCEPT !.state = "SYN_RECEIVED", !.other = peer,
                                   !.ack_num = num]
    OBVIOUS
  <2>2. ports' = [ports EXCEPT ![q] = r] /\ unacked' = unacked
    BY <1>4, <2>1 DEF SwitchListen
  <2>3. q \in PortIdx /\ ports[q] \in Port
    BY <2>1, TaskType
  <2>4. r.self = ports[q].self /\ r.seq_num = ports[q].seq_num
    BY <2>1, <2>3 DEF Port
  <2> QED
    BY <2>2, <2>3, <2>4, ApartPort
<1>5. CASE SwitchEstablish \/ SwitchFinWait \/ SwitchFinAcked
  <2>1. PICK q : q = task.p
    OBVIOUS
  <2>2. /\ q \in PortIdx /\ unacked' = unacked
        /\ \E s \in {"ESTABLISHED", "TIME_WAIT", "FIN_WAIT_2"} :
              ports' = [ports EXCEPT ![q].state = s]
    BY <1>5, <2>1, TaskType DEF SwitchEstablish, SwitchFinWait, SwitchFinAcked
  <2> QED
    BY <2>2, ApartState
<1>6. CASE SwitchLastAck
  <2>1. PICK q : q = task.p
    OBVIOUS
  <2>2. q \in PortIdx /\ ResetPort(q)
    BY <1>6, <2>1, TaskType DEF SwitchLastAck
  <2> QED
    BY <2>2, ApartReset
<1> QED
  BY <1>1, <1>2, <1>3, <1>4, <1>5, <1>6 DEF TaskReceive

\* tcp_task keeps the ranges of every port apart.
LEMMA ApartTask ==
    ASSUME TypeOK, RangesApart, SeqRoom, TcpTask
    PROVE  RangesApart'
<1>1. CASE SendDropped \/ SendPlain
  BY <1>1, ApartSame DEF SendDropped, SendPlain
<1>2. CASE SendReliable
  BY <1>2, ApartSend
<1>3. CASE TaskReceive
  BY <1>3, ApartReceive
<1>4. CASE EnqueueReliable
  <2>1. PICK q, s : /\ q = task.p
                    /\ s = IF ports[q].state = "ESTABLISHED" THEN "LAST_ACK"
                           ELSE ports[q].state
    OBVIOUS
  <2>2. q \in PortIdx /\ ports' = [ports EXCEPT ![q].state = s] /\ unacked' = unacked
    BY <1>4, <2>1, TaskType DEF EnqueueReliable
  <2> QED
    BY <2>2, ApartState
<1>5. CASE CmdListen \/ CmdConnect
  <2>1. PICK q : q = Min(FreePorts)
    OBVIOUS
  <2>2. q \in PortIdx /\ \E self, other, state : CreatePort(q, self, other, state)
    BY <1>5, <2>1, FreePortType DEF CmdListen, CmdConnect
  <2> QED
    BY <2>2, ApartCreate
<1>6. CASE CmdClose
  <2> DEFINE found == FindPort(Head(port_cmd_queue).self, Head(port_cmd_queue).other)
  <2>1. PICK q, s : q = Min(found) /\ s = "FIN_WAIT_1"
    OBVIOUS
  <2>2. found \in SUBSET PortIdx /\ found # {}
    BY <1>6 DEF FindPort, CmdClose
  <2>3. q \in PortIdx
    BY <2>1, <2>2, FirstPort
  <2>4. ports' = [ports EXCEPT ![q].state = s] /\ unacked' = unacked
    BY <1>6, <2>1 DEF CmdClose
  <2> QED
    BY <2>3, <2>4, ApartState
<1>7. CASE CmdFails
  BY <1>7, ApartSame DEF CmdFails, tables
<1>8. ASSUME NEW p \in PortIdx, ScanTimeWait(p) PROVE RangesApart'
  BY <1>8, ApartReset DEF ScanTimeWait
<1>9. ASSUME NEW p \in PortIdx, NEW i \in SlotIdx, ScanRetransmit(p, i)
      PROVE  RangesApart'
  BY <1>9, ApartSame DEF ScanRetransmit, tables
<1>10. ASSUME NEW q \in PortIdx, NEW j \in SlotIdx, ScanDrop(q, j)
       PROVE  RangesApart'
  <2>1. ports' = ports /\ unacked' = [unacked EXCEPT ![q][j] = Free]
    BY <1>10 DEF ScanDrop
  <2>2. \A p \in PortIdx, i \in SlotIdx :
           unacked'[p][i] = IF p = q /\ i = j THEN Free ELSE unacked[p][i]
    BY <1>10, <2>1 DEF TypeOK
  <2>3. ~ Free.in_use
    BY DEF Free
  <2> QED
    BY <2>1, <2>2, <2>3, ApartKept
<1> QED
  BY <1>1, <1>2, <1>3, <1>4, <1>5, <1>6, <1>7, <1>8, <1>9, <1>10 DEF TcpTask

\* Every step does.
LEMMA ApartStep ==
    ASSUME TypeOK, RangesApart, SeqRoom, [Next]_vars
    PROVE  RangesApart'
<1>1. CASE Environment
  BY <1>1, ApartSame DEF Environment, TcpSend, InputTcp, PortCmd, tables
<1>2. ASSUME NEW c \in Apps, CallReturning(c) \/ TakeDeleted(c)
      PROVE  RangesApart'
  BY <1>2, ApartSame DEF CallReturning, SendParams, TakeSlot, TakeTimeout, CheckClosed,
     EnqueueSegment, EnqueueFull, TakeDeleted, tables
<1>3. CASE TcpTask
  BY <1>3, ApartTask
<1>4. CASE (\E due \in SUBSET Timers : ScanBegin(due)) \/ Ipv4Drain
  BY <1>4, ApartSame DEF ScanBegin, Ipv4Drain, tables
<1>5. CASE UNCHANGED vars
  BY <1>5, ApartSame DEF vars, tables
<1> QED
  BY <1>1, <1>2, <1>3, <1>4, <1>5 DEF Next, System

\* As long as no sequence number wraps, the segments a port keeps for
\* retransmission cover disjoint ranges below its next sequence number,
\* through acknowledgements in any order, dropped retransmissions, resets and
\* reallocated ports.
THEOREM EntriesDisjoint == Spec /\ []SeqRoom => []UnackedDisjoint
<1>1. Init => RangesApart
  BY DEF Init, RangesApart
<1>2. TypeOK /\ RangesApart /\ SeqRoom /\ [Next]_vars => RangesApart'
  BY ApartStep
<1>3. RangesApart => UnackedDisjoint
  BY DisjointIsApart
<1> QED
  BY <1>1, <1>2, <1>3, TcpTypeCorrect, PTL DEF Spec
=============================================================================
