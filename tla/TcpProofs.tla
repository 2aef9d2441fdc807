----------------------------- MODULE TcpProofs -----------------------------
(***************************************************************************)
(* The TCP layer: its state keeps its types, and no payload is freed twice *)
(* or used after it was freed, whatever applications, the network and a    *)
(* failing malloc do and wherever tcp_send is when its port is reset.  For *)
(* every size of the tables and queues.                                    *)
(***************************************************************************)
EXTENDS TcpProperties, StackLemmas

\* tcp_task has a segment in hand where it looks at one, and never queues a
\* payload of its own.
TaskStage ==
    /\ task.pc \in {"ack", "switch", "deliver"} => task.seg \in Segments
    /\ task.item.data = NULL

TcpInv == TypeOK /\ TaskStage /\ OwnedOnce

-----------------------------------------------------------------------------
(* Ownership of payloads, apart from everything else: C is what the calls  *)
(* of tcp_send hold, Q what send_queue holds, U what the entries hold.     *)

Exclusive(C, Q, U, H) ==
    /\ \A c \in Apps : C[c] \in H \cup {NULL}
    /\ \A k \in 1 .. Len(Q) : Q[k] \in H \cup {NULL}
    /\ \A p \in PortIdx, i \in SlotIdx : U[p][i] \in H \cup {NULL}
    /\ \A c1, c2 \in Apps : C[c1] = C[c2] => c1 = c2 \/ C[c1] = NULL
    /\ \A j, k \in 1 .. Len(Q) : Q[j] = Q[k] => j = k \/ Q[j] = NULL
    /\ \A p, q \in PortIdx, i, j \in SlotIdx :
          U[p][i] = U[q][j] => (p = q /\ i = j) \/ U[p][i] = NULL
    /\ \A c \in Apps, k \in 1 .. Len(Q) : C[c] = Q[k] => Q[k] = NULL
    /\ \A c \in Apps, p \in PortIdx, i \in SlotIdx : C[c] = U[p][i] => U[p][i] = NULL
    /\ \A k \in 1 .. Len(Q), p \in PortIdx, i \in SlotIdx :
          Q[k] = U[p][i] => U[p][i] = NULL

\* Calls and entries only let go of blocks, and a block is freed only after
\* its owner let go of it.
LEMMA LetGo ==
    ASSUME NEW C, NEW Q, NEW U, NEW H, NEW D, NEW V, NEW G,
           Exclusive(C, Q, U, H),
           \A c \in Apps : D[c] \in {C[c], NULL},
           \A p \in PortIdx, i \in SlotIdx : V[p][i] \in {U[p][i], NULL},
           \A c \in Apps : D[c] \in G \cup {NULL},
           \A k \in 1 .. Len(Q) : Q[k] \in G \cup {NULL},
           \A p \in PortIdx, i \in SlotIdx : V[p][i] \in G \cup {NULL}
    PROVE  Exclusive(D, Q, V, G)
<1>1. \A c1, c2 \in Apps : D[c1] = D[c2] => c1 = c2 \/ D[c1] = NULL
  BY DEF Exclusive
<1>2. \A p, q \in PortIdx, i, j \in SlotIdx :
         V[p][i] = V[q][j] => (p = q /\ i = j) \/ V[p][i] = NULL
  BY DEF Exclusive
<1>3. \A c \in Apps, k \in 1 .. Len(Q) : D[c] = Q[k] => Q[k] = NULL
  BY DEF Exclusive
<1>4. \A c \in Apps, p \in PortIdx, i \in SlotIdx : D[c] = V[p][i] => V[p][i] = NULL
  BY DEF Exclusive
<1>5. \A k \in 1 .. Len(Q), p \in PortIdx, i \in SlotIdx :
         Q[k] = V[p][i] => V[p][i] = NULL
  BY DEF Exclusive
<1> QED
  BY <1>1, <1>2, <1>3, <1>4, <1>5 DEF Exclusive

\* A block goes to the end of send_queue: a new one, or one that a call let
\* go of, or none.
LEMMA HandOver ==
    ASSUME NEW C, NEW Q \in Seq(Data), NEW U, NEW H, NEW D, NEW G, NEW x \in Data,
           Exclusive(C, Q, U, H),
           \A c \in Apps : D[c] \in {C[c], NULL},
           H \subseteq G, x \in G \cup {NULL},
           x # NULL => /\ \A c \in Apps : D[c] # x
                       /\ \A k \in 1 .. Len(Q) : Q[k] # x
                       /\ \A p \in PortIdx, i \in SlotIdx : U[p][i] # x
    PROVE  Exclusive(D, Append(Q, x), U, G)
<1> DEFINE R == Append(Q, x)
<1>1. /\ Len(Q) \in Nat /\ Len(R) = Len(Q) + 1 /\ R[Len(Q) + 1] = x
      /\ \A k \in 1 .. Len(Q) : R[k] = Q[k]
      /\ \A k \in 1 .. Len(Q) + 1 : k \in 1 .. Len(Q) \/ k = Len(Q) + 1
  OBVIOUS
<1> HIDE DEF R
<1>2. \A k \in 1 .. Len(R) : R[k] = x \/ \E j \in 1 .. Len(Q) : j = k /\ R[k] = Q[j]
  BY <1>1
<1>3. \A c \in Apps : D[c] \in G \cup {NULL}
  BY DEF Exclusive
<1>4. \A k \in 1 .. Len(R) : R[k] \in G \cup {NULL}
  BY <1>2 DEF Exclusive
<1>5. \A p \in PortIdx, i \in SlotIdx : U[p][i] \in G \cup {NULL}
  BY DEF Exclusive
<1>6. \A c1, c2 \in Apps : D[c1] = D[c2] => c1 = c2 \/ D[c1] = NULL
  BY DEF Exclusive
<1>7. \A j, k \in 1 .. Len(R) : R[j] = R[k] => j = k \/ R[j] = NULL
  <2> SUFFICES ASSUME NEW j \in 1 .. Len(R), NEW k \in 1 .. Len(R), R[j] = R[k], j # k
               PROVE  R[j] = NULL
    OBVIOUS
  <2>1. CASE j \in 1 .. Len(Q) /\ k \in 1 .. Len(Q)
    BY <1>1, <2>1 DEF Exclusive
  <2>2. CASE j = Len(Q) + 1 /\ k \in 1 .. Len(Q)
    BY <1>1, <2>2
  <2>3. CASE k = Len(Q) + 1 /\ j \in 1 .. Len(Q)
    BY <1>1, <2>3
  <2> QED
    BY <1>1, <2>1, <2>2, <2>3
<1>8. \A c \in Apps, k \in 1 .. Len(R) : D[c] = R[k] => R[k] = NULL
  BY <1>2 DEF Exclusive
<1>9. \A c \in Apps, p \in PortIdx, i \in SlotIdx : D[c] = U[p][i] => U[p][i] = NULL
  BY DEF Exclusive
<1>10. \A k \in 1 .. Len(R), p \in PortIdx, i \in SlotIdx :
          R[k] = U[p][i] => U[p][i] = NULL
  BY <1>2 DEF Exclusive
<1>11. \A p, q \in PortIdx, i, j \in SlotIdx :
          U[p][i] = U[q][j] => (p = q /\ i = j) \/ U[p][i] = NULL
  BY DEF Exclusive
<1>12. Exclusive(D, R, U, G)
  BY <1>3, <1>4, <1>5, <1>6, <1>7, <1>8, <1>9, <1>10, <1>11 DEF Exclusive
<1> QED
  BY <1>12 DEF R

\* The entries V are the entries U, except that entry b of port a may hold h.
Keeps(U, V, a, b, h) ==
    \A p \in PortIdx, i \in SlotIdx :
       V[p][i] = U[p][i] \/ (p = a /\ i = b /\ V[p][i] = h)

\* The first block of send_queue leaves it: to one entry, or to be freed, or
\* forgotten.
LEMMA TakeOver ==
    ASSUME NEW C, NEW Q \in Seq(Data), Q # << >>, NEW U, NEW H, NEW V, NEW G,
           NEW a, NEW b,
           Exclusive(C, Q, U, H),
           Keeps(U, V, a, b, Head(Q)),
           G \subseteq H, H \ G \subseteq {Head(Q)},
           (\E p \in PortIdx, i \in SlotIdx : V[p][i] # U[p][i]) => G = H
    PROVE  Exclusive(C, Tail(Q), V, G)
<1> DEFINE R == Tail(Q)
           h == Head(Q)
<1>1. /\ Len(Q) \in Nat \ {0} /\ Len(R) = Len(Q) - 1 /\ h = Q[1]
      /\ \A k \in 1 .. Len(Q) - 1 : R[k] = Q[k + 1]
  BY HeadTailProperties, EmptySeq, LenProperties
<1>2. 1 \in 1 .. Len(Q)
  BY <1>1
<1>3. \A k \in 1 .. Len(R) : k + 1 \in 1 .. Len(Q) /\ R[k] = Q[k + 1] /\ k + 1 # 1
  BY <1>1
<1> HIDE DEF R, h
<1>4. /\ \A c \in Apps : C[c] = h => h = NULL
      /\ \A k \in 1 .. Len(R) : R[k] = h => h = NULL
      /\ \A p \in PortIdx, i \in SlotIdx : U[p][i] = h => h = NULL
      /\ h \in H \cup {NULL}
  <2>1. \A c \in Apps : C[c] = h => h = NULL
    BY <1>1, <1>2 DEF Exclusive
  <2>2. \A k \in 1 .. Len(R) : R[k] = h => h = NULL
    BY <1>1, <1>2, <1>3 DEF Exclusive
  <2>3. \A p \in PortIdx, i \in SlotIdx : U[p][i] = h => h = NULL
    BY <1>1, <1>2 DEF Exclusive
  <2> QED
    BY <1>1, <1>2, <2>1, <2>2, <2>3 DEF Exclusive
<1>5. \A p \in PortIdx, i \in SlotIdx :
         V[p][i] = U[p][i] \/ (p = a /\ i = b /\ V[p][i] = h /\ G = H)
  BY DEF h, Keeps
<1>6. G \subseteq H /\ H \ G \subseteq {h}
  BY DEF h
<1>7. \A c \in Apps : C[c] \in G \cup {NULL}
  BY <1>4, <1>6 DEF Exclusive
<1>8. \A k \in 1 .. Len(R) : R[k] \in G \cup {NULL}
  BY <1>3, <1>4, <1>6 DEF Exclusive
<1>9. \A p \in PortIdx, i \in SlotIdx : V[p][i] \in G \cup {NULL}
  BY <1>4, <1>5, <1>6 DEF Exclusive
<1>10. \A c1, c2 \in Apps : C[c1] = C[c2] => c1 = c2 \/ C[c1] = NULL
  BY DEF Exclusive
<1>11. \A j, k \in 1 .. Len(R) : R[j] = R[k] => j = k \/ R[j] = NULL
  <2> SUFFICES ASSUME NEW j \in 1 .. Len(R), NEW k \in 1 .. Len(R), R[j] = R[k], j # k
               PROVE  R[j] = NULL
    OBVIOUS
  <2>1. j + 1 # k + 1
    BY <1>1
  <2> QED
    BY <1>3, <2>1 DEF Exclusive
<1>12. \A c \in Apps, k \in 1 .. Len(R) : C[c] = R[k] => R[k] = NULL
  BY <1>3 DEF Exclusive
<1>13. \A p, q \in PortIdx, i, j \in SlotIdx :
          V[p][i] = V[q][j] => (p = q /\ i = j) \/ V[p][i] = NULL
  BY <1>4, <1>5 DEF Exclusive
<1>14. \A c \in Apps, p \in PortIdx, i \in SlotIdx : C[c] = V[p][i] => V[p][i] = NULL
  BY <1>4, <1>5 DEF Exclusive
<1>15. \A k \in 1 .. Len(R), p \in PortIdx, i \in SlotIdx :
          R[k] = V[p][i] => V[p][i] = NULL
  BY <1>3, <1>4, <1>5 DEF Exclusive
<1>16. Exclusive(C, R, V, G)
  BY <1>7, <1>8, <1>9, <1>10, <1>11, <1>12, <1>13, <1>14, <1>15 DEF Exclusive
<1> QED
  BY <1>16 DEF R

\* A call begins with a block that nobody owns.
LEMMA BringIn ==
    ASSUME NEW C, NEW Q, NEW U, NEW H, NEW D, NEW a \in Apps, NEW x,
           Exclusive(C, Q, U, H), x \notin H, x # NULL,
           \A c \in Apps : D[c] = IF c = a THEN x ELSE C[c]
    PROVE  Exclusive(D, Q, U, H \cup {x})
BY DEF Exclusive

-----------------------------------------------------------------------------
(* The same, for steps of the TCP layer.                                   *)

\* The payloads of send_queue, one by one: sending and taking an item sends
\* and takes its payload.
LEMMA QueueData ==
    ASSUME NEW s \in Seq(Params)
    PROVE  /\ Datas(s) \in Seq(Data) /\ Len(Datas(s)) = Len(s)
           /\ \A k \in 1 .. Len(s) : Datas(s)[k] = s[k].data
           /\ \A x \in Params : Datas(Append(s, x)) = Append(Datas(s), x.data)
           /\ s # << >> => /\ Datas(s) # << >>
                           /\ Datas(Tail(s)) = Tail(Datas(s))
                           /\ Head(s).data = Head(Datas(s))
<1>1. \A x \in Params : x.data \in Data
  BY DEF Params
<1>2. \A k \in 1 .. Len(s) : Datas(s)[k] = s[k].data
  BY DEF Datas
<1> QED
  BY <1>1, <1>2, QueueOfData

\* OwnedOnce says Exclusive of what calls, queue and entries hold, before a
\* step and after it.
LEMMA OwnersBefore ==
    ASSUME TypeOK, OwnedOnce, NEW C, NEW Q, NEW U,
           C = [c \in Apps |-> call[c].item.data], Q = Datas(send_queue),
           U = [p \in PortIdx |-> [i \in SlotIdx |-> unacked[p][i].data]]
    PROVE  Exclusive(C, Q, U, heap)
<1>1. /\ \A c \in Apps : C[c] = call[c].item.data
      /\ \A p \in PortIdx, i \in SlotIdx : U[p][i] = unacked[p][i].data
      /\ Len(Q) = Len(send_queue)
      /\ \A k \in 1 .. Len(Q) : Q[k] = send_queue[k].data
  BY QueueData DEF TypeOK
<1> QED
  BY <1>1 DEF OwnedOnce, Exclusive

\* OwnedOnce in the next state, from Exclusive on the payloads found there.
LEMMA OwnersAfter ==
    ASSUME NEW C, NEW Q, NEW U, NEW H, Exclusive(C, Q, U, H), heap' = H,
           \A c \in Apps : call'[c].item.data = C[c],
           Len(send_queue') = Len(Q),
           \A k \in 1 .. Len(Q) : send_queue'[k].data = Q[k],
           \A p \in PortIdx, i \in SlotIdx : unacked'[p][i].data = U[p][i]
    PROVE  OwnedOnce'
BY DEF OwnedOnce, Exclusive

\* A step in which calls and entries only let go of payloads keeps
\* OwnedOnce, if none that is still held is freed.
LEMMA LetGoStep ==
    ASSUME TypeOK, OwnedOnce, send_queue' = send_queue,
           \A c \in Apps : call'[c].item.data \in {call[c].item.data, NULL},
           \A p \in PortIdx, i \in SlotIdx :
              unacked'[p][i].data \in {unacked[p][i].data, NULL},
           \A c \in Apps : call'[c].item.data \in heap' \cup {NULL},
           \A k \in 1 .. Len(send_queue) : send_queue[k].data \in heap' \cup {NULL},
           \A p \in PortIdx, i \in SlotIdx : unacked'[p][i].data \in heap' \cup {NULL}
    PROVE  OwnedOnce'
<1>1. PICK C, Q, U, H :
         /\ C = [c \in Apps |-> call[c].item.data] /\ Q = Datas(send_queue)
         /\ U = [p \in PortIdx |-> [i \in SlotIdx |-> unacked[p][i].data]]
         /\ H = heap
  OBVIOUS
<1>2. PICK D, V, G :
         /\ D = [c \in Apps |-> call'[c].item.data]
         /\ V = [p \in PortIdx |-> [i \in SlotIdx |-> unacked'[p][i].data]]
         /\ G = heap'
  OBVIOUS
<1>3. Exclusive(C, Q, U, H)
  BY <1>1, OwnersBefore
<1>4. /\ \A c \in Apps : C[c] = call[c].item.data /\ D[c] = call'[c].item.data
      /\ \A p \in PortIdx, i \in SlotIdx : /\ U[p][i] = unacked[p][i].data
                                           /\ V[p][i] = unacked'[p][i].data
  BY <1>1, <1>2
<1>5. /\ Len(Q) = Len(send_queue)
      /\ \A k \in 1 .. Len(Q) : Q[k] = send_queue[k].data
  BY <1>1, QueueData DEF TypeOK
<1>6. Exclusive(D, Q, V, G)
  <2>1. \A k \in 1 .. Len(Q) : Q[k] \in G \cup {NULL}
    BY <1>2, <1>5
  <2>2. \A c \in Apps : D[c] \in {C[c], NULL} /\ D[c] \in G \cup {NULL}
    BY <1>2, <1>4
  <2>3. \A p \in PortIdx, i \in SlotIdx :
           V[p][i] \in {U[p][i], NULL} /\ V[p][i] \in G \cup {NULL}
    BY <1>2, <1>4
  <2> QED
    BY <1>3, <2>1, <2>2, <2>3, LetGo
<1> QED
  BY <1>2, <1>4, <1>5, <1>6, OwnersAfter

\* Nothing happens to a payload.
LEMMA SameOwners ==
    ASSUME TypeOK, OwnedOnce, send_queue' = send_queue, heap' = heap,
           unacked' = unacked,
           \A c \in Apps : call'[c].item.data = call[c].item.data
    PROVE  OwnedOnce'
BY DEF OwnedOnce

\* A step that puts a payload nobody else keeps on send_queue keeps
\* OwnedOnce.
LEMMA HandOverStep ==
    ASSUME TypeOK, OwnedOnce, NEW x \in Params,
           send_queue' = Append(send_queue, x), unacked' = unacked,
           \A c \in Apps : call'[c].item.data \in {call[c].item.data, NULL},
           heap \subseteq heap', x.data \in heap' \cup {NULL},
           x.data # NULL =>
             /\ \A c \in Apps : call'[c].item.data # x.data
             /\ \A k \in 1 .. Len(send_queue) : send_queue[k].data # x.data
             /\ \A p \in PortIdx, i \in SlotIdx : unacked[p][i].data # x.data
    PROVE  OwnedOnce'
<1>1. PICK C, Q, U, H :
         /\ C = [c \in Apps |-> call[c].item.data] /\ Q = Datas(send_queue)
         /\ U = [p \in PortIdx |-> [i \in SlotIdx |-> unacked[p][i].data]]
         /\ H = heap
  OBVIOUS
<1>2. PICK D, G : D = [c \in Apps |-> call'[c].item.data] /\ G = heap'
  OBVIOUS
<1>3. Exclusive(C, Q, U, H)
  BY <1>1, OwnersBefore
<1>4. /\ \A c \in Apps : C[c] = call[c].item.data /\ D[c] = call'[c].item.data
      /\ \A p \in PortIdx, i \in SlotIdx : U[p][i] = unacked[p][i].data
  BY <1>1, <1>2
<1>5. /\ Q \in Seq(Data) /\ Len(Q) = Len(send_queue)
      /\ \A k \in 1 .. Len(Q) : Q[k] = send_queue[k].data
  BY <1>1, QueueData DEF TypeOK
<1>6. x.data \in Data
  BY DEF Params
<1>7. Exclusive(D, Append(Q, x.data), U, G)
  <2>1. \A c \in Apps : D[c] \in {C[c], NULL}
    BY <1>4
  <2>2. H \subseteq G /\ x.data \in G \cup {NULL}
    BY <1>1, <1>2
  <2>3. x.data # NULL => /\ \A c \in Apps : D[c] # x.data
                         /\ \A k \in 1 .. Len(Q) : Q[k] # x.data
                         /\ \A p \in PortIdx, i \in SlotIdx : U[p][i] # x.data
    BY <1>4, <1>5
  <2> QED
    BY <1>3, <1>5, <1>6, <2>1, <2>2, <2>3, HandOver
<1>8. /\ Len(send_queue') = Len(Append(Q, x.data))
      /\ \A k \in 1 .. Len(Append(Q, x.data)) : send_queue'[k].data = Append(Q, x.data)[k]
  <2>1. send_queue \in Seq(Params) /\ send_queue' \in Seq(Params)
    BY DEF TypeOK
  <2>2. Datas(Append(send_queue, x)) = Append(Q, x.data)
    BY <1>1, <2>1, QueueData
  <2>3. /\ Len(Datas(send_queue')) = Len(send_queue')
        /\ \A k \in 1 .. Len(send_queue') : Datas(send_queue')[k] = send_queue'[k].data
    BY <2>1, QueueData
  <2>4. Datas(send_queue') = Append(Q, x.data)
    BY <2>2
  <2> QED
    BY <2>3, <2>4
<1>9. PICK R : R = Append(Q, x.data)
  OBVIOUS
<1>10. /\ Exclusive(D, R, U, G) /\ heap' = G
       /\ \A c \in Apps : call'[c].item.data = D[c]
       /\ Len(send_queue') = Len(R)
       /\ \A k \in 1 .. Len(R) : send_queue'[k].data = R[k]
       /\ \A p \in PortIdx, i \in SlotIdx : unacked'[p][i].data = U[p][i]
  BY <1>2, <1>4, <1>7, <1>8, <1>9
<1> QED
  BY <1>10, OwnersAfter

\* A step in which the first payload of send_queue is freed, forgotten or
\* moved into one entry keeps OwnedOnce.
LEMMA TakeOverStep ==
    ASSUME TypeOK, OwnedOnce, send_queue # << >>, send_queue' = Tail(send_queue),
           call' = call, NEW a, NEW b,
           \A p \in PortIdx, i \in SlotIdx :
              \/ unacked'[p][i].data = unacked[p][i].data
              \/ /\ p = a /\ i = b /\ unacked'[p][i].data = Head(send_queue).data
                 /\ heap' = heap,
           heap' \in {heap, heap \ {Head(send_queue).data}}
    PROVE  OwnedOnce'
<1>1. PICK C, Q, U, H :
         /\ C = [c \in Apps |-> call[c].item.data] /\ Q = Datas(send_queue)
         /\ U = [p \in PortIdx |-> [i \in SlotIdx |-> unacked[p][i].data]]
         /\ H = heap
  OBVIOUS
<1>2. PICK V, G :
         /\ V = [p \in PortIdx |-> [i \in SlotIdx |-> unacked'[p][i].data]]
         /\ G = heap'
  OBVIOUS
<1>3. Exclusive(C, Q, U, H)
  BY <1>1, OwnersBefore
<1>4. /\ \A c \in Apps : C[c] = call[c].item.data
      /\ \A p \in PortIdx, i \in SlotIdx : /\ U[p][i] = unacked[p][i].data
                                           /\ V[p][i] = unacked'[p][i].data
  BY <1>1, <1>2
<1>5. send_queue \in Seq(Params) /\ send_queue' \in Seq(Params)
  BY HeadTailProperties DEF TypeOK
<1>6. /\ Q \in Seq(Data) /\ Q # << >> /\ Head(Q) = Head(send_queue).data
      /\ Datas(send_queue') = Tail(Q)
  BY <1>1, <1>5, QueueData
<1>7. Exclusive(C, Tail(Q), V, G)
  <2>1. Keeps(U, V, a, b, Head(Q))
    BY <1>4, <1>6 DEF Keeps
  <2>2. G \subseteq H /\ H \ G \subseteq {Head(Q)}
    BY <1>1, <1>2, <1>6
  <2>3. (\E p \in PortIdx, i \in SlotIdx : V[p][i] # U[p][i]) => G = H
    BY <1>1, <1>2, <1>4
  <2>4. Q \in Seq(Data) /\ Q # << >>
    BY <1>6
  <2> QED
    BY <1>3, <2>1, <2>2, <2>3, <2>4, TakeOver
<1>8. /\ Len(send_queue') = Len(Tail(Q))
      /\ \A k \in 1 .. Len(Tail(Q)) : send_queue'[k].data = Tail(Q)[k]
  <2>1. /\ Len(Datas(send_queue')) = Len(send_queue')
        /\ \A k \in 1 .. Len(send_queue') : Datas(send_queue')[k] = send_queue'[k].data
    BY <1>5, QueueData
  <2> QED
    BY <1>6, <2>1
<1>9. PICK R : R = Tail(Q)
  OBVIOUS
<1>10. /\ Exclusive(C, R, V, G) /\ heap' = G
       /\ \A c \in Apps : call'[c].item.data = C[c]
       /\ Len(send_queue') = Len(R)
       /\ \A k \in 1 .. Len(R) : send_queue'[k].data = R[k]
       /\ \A p \in PortIdx, i \in SlotIdx : unacked'[p][i].data = V[p][i]
  BY <1>2, <1>4, <1>7, <1>8, <1>9
<1> QED
  BY <1>10, OwnersAfter

\* A call that brings in a block that was not allocated keeps OwnedOnce.
LEMMA BringInStep ==
    ASSUME TypeOK, OwnedOnce, send_queue' = send_queue, unacked' = unacked,
           NEW a \in Apps, NEW x, x \notin heap, x # NULL,
           \A c \in Apps : call'[c].item.data = IF c = a THEN x ELSE call[c].item.data,
           heap' = heap \cup {x}
    PROVE  OwnedOnce'
<1>1. PICK C, Q, U, H :
         /\ C = [c \in Apps |-> call[c].item.data] /\ Q = Datas(send_queue)
         /\ U = [p \in PortIdx |-> [i \in SlotIdx |-> unacked[p][i].data]]
         /\ H = heap
  OBVIOUS
<1>2. PICK D, G : D = [c \in Apps |-> call'[c].item.data] /\ G = heap'
  OBVIOUS
<1>3. Exclusive(C, Q, U, H)
  BY <1>1, OwnersBefore
<1>4. /\ \A c \in Apps : C[c] = call[c].item.data /\ D[c] = call'[c].item.data
      /\ \A p \in PortIdx, i \in SlotIdx : U[p][i] = unacked[p][i].data
  BY <1>1, <1>2
<1>5. /\ Len(Q) = Len(send_queue)
      /\ \A k \in 1 .. Len(Q) : Q[k] = send_queue[k].data
  BY <1>1, QueueData DEF TypeOK
<1>6. Exclusive(D, Q, U, G)
  <2>1. x \notin H /\ G = H \cup {x} /\ \A c \in Apps : D[c] = IF c = a THEN x ELSE C[c]
    BY <1>1, <1>2, <1>4
  <2> QED
    BY <1>3, <2>1, BringIn
<1> QED
  BY <1>2, <1>4, <1>5, <1>6, OwnersAfter

-----------------------------------------------------------------------------
(* Types of the values the operations write.                               *)

\* The constant records have their types and hold no payload.
LEMMA Values ==
    /\ Free \in Unacked /\ Free.data = NULL
    /\ NoParams \in Params /\ NoParams.data = NULL
    /\ Idle \in Call /\ Idle.item.data = NULL
    /\ Selecting \in Task /\ Selecting.item.data = NULL /\ Selecting.pc = "select"
<1>1. 0 \in SeqNums /\ 1 \in PortIdx /\ 0 \in Nat
  BY TcpConstants DEF SeqNums, PortIdx
<1>2. Free \in Unacked /\ Free.data = NULL
  BY <1>1 DEF Free, Unacked, Data
<1>3. NoParams \in Params /\ NoParams.data = NULL
  BY <1>1 DEF NoParams, Params, Data, Others
<1>4. Idle \in Call /\ Idle.item.data = NULL
  BY <1>1, <1>3 DEF Idle, Call, Waits
<1>5. Selecting \in Task /\ Selecting.item.data = NULL /\ Selecting.pc = "select"
  BY <1>1, <1>3 DEF Selecting, Task
<1> QED
  BY <1>2, <1>3, <1>4, <1>5

\* The first match of a search through the port table, or through the entries
\* of a port.
LEMMA FirstPort ==
    ASSUME NEW S \in SUBSET PortIdx, S # {}
    PROVE  Min(S) \in S /\ Min(S) \in PortIdx
<1>1. S \subseteq Nat
  BY DEF PortIdx
<1> QED
  BY <1>1, MinInSet

\* The first of some entries is one of them.
LEMMA FirstSlot ==
    ASSUME NEW S \in SUBSET SlotIdx, S # {}
    PROVE  Min(S) \in S /\ Min(S) \in SlotIdx
<1>1. S \subseteq Nat
  BY DEF SlotIdx
<1> QED
  BY <1>1, MinInSet

\* A sum of sequence numbers is a sequence number once it has wrapped.
LEMMA Wrapped ==
    ASSUME NEW n \in Nat
    PROVE  n % SEQ_MOD \in SeqNums
BY TcpConstants DEF SeqNums

\* A segment without payload, made from the tuple of a port.
LEMMA PacketType ==
    ASSUME TypeOK, NEW p \in PortIdx, NEW ctrl \in SUBSET Flags
    PROVE  Packet(p, ctrl) \in Params /\ Packet(p, ctrl).data = NULL
<1>1. ports[p] \in Port
  BY DEF TypeOK
<1>2. ports[p].self \in PortNums \cup {0} /\ ports[p].other \in Others
  BY <1>1 DEF Port
<1> QED
  BY <1>2 DEF Packet, Params, Data

\* A segment of the network has the fields its header carries.
LEMMA SegmentType ==
    ASSUME NEW seg \in Segments
    PROVE  /\ seg.dst \in PortNums /\ seg.src \in Peers /\ seg.ctrl \in SUBSET Flags
           /\ seg.seq \in SeqNums /\ seg.ack \in SeqNums /\ seg.len \in Nat
           /\ SeqIncrement(seg.len, seg.ctrl) \in Nat
<1>1. seg \in [dst : PortNums, src : Peers, ctrl : SUBSET Flags,
               seq : 0 .. SEQ_MOD - 1, ack : 0 .. SEQ_MOD - 1, len : Nat]
  BY TcpConstants
<1> QED
  BY <1>1 DEF SeqNums, SeqIncrement

-----------------------------------------------------------------------------
(* Application tasks.                                                      *)

\* What a call of tcp_send carries has its type.
LEMMA CallType ==
    ASSUME TypeOK, NEW c \in Apps
    PROVE  /\ call[c] \in Call /\ call[c].item \in Params /\ call[c].p \in PortIdx
           /\ call[c].item.data \in Data
           /\ call[c].item.len \in Nat
           /\ unacked_slots[call[c].p] \in 0 .. MAX_UNACKED
           /\ ports[call[c].p] \in Port
<1>1. call[c] \in Call
  BY DEF TypeOK
<1>2. call[c].item \in Params /\ call[c].p \in PortIdx
  BY <1>1 DEF Call
<1> QED
  BY <1>1, <1>2 DEF TypeOK, Params

\* tcp_send: the call now owns the payload it brings.
LEMMA TcpSendStep ==
    ASSUME TcpInv, NEW c \in Apps, NEW self \in PortNums, NEW other \in Peers,
           NEW d \in Blocks, NEW len \in Lens, NEW wait \in Waits,
           TcpSend(c, self, other, d, len, wait)
    PROVE  TcpInv'
<1>1. TypeOK /\ TaskStage /\ OwnedOnce
  BY DEF TcpInv
<1>2. FindPort(self, other) \in SUBSET PortIdx /\ FindPort(self, other) # {}
  BY DEF FindPort, TcpSend
<1>3. Min(FindPort(self, other)) \in PortIdx
  BY <1>2, FirstPort
<1> DEFINE item == [NoParams EXCEPT !.data = d, !.len = len]
           r == [pc |-> "params", p |-> Min(FindPort(self, other)), item |-> item,
                 wait |-> wait, deleted |-> FALSE]
<1>4. item \in Params /\ item.data = d
  BY Values, TcpConstants DEF Params, Data
<1>5. r \in Call /\ r.item.data = d
  BY <1>3, <1>4 DEF Call
<1>6. call' = [call EXCEPT ![c] = r] /\ heap' = heap \cup {d} /\ d \notin heap
  BY DEF TcpSend
<1> HIDE DEF r
<1>7. call \in [Apps -> Call] /\ heap \in SUBSET Blocks
  BY <1>1 DEF TypeOK
<1>8. call' \in [Apps -> Call] /\ heap' \in SUBSET Blocks
  BY <1>5, <1>6, <1>7
<1>9. /\ UNCHANGED <<ports, unacked, unacked_slots, send_queue, input_queue>>
      /\ UNCHANGED <<port_cmd_queue, tcp_task_queue_set, ipv4_queue, task, reused>>
  BY DEF TcpSend, tables, queues
<1>10. TypeOK' /\ TaskStage'
  BY <1>1, <1>8, <1>9 DEF TypeOK, TaskStage
<1>11. OwnedOnce'
  <2>1. \A b \in Apps : call'[b].item.data = IF b = c THEN d ELSE call[b].item.data
    BY <1>5, <1>6, <1>7
  <2>2. d # NULL
    BY TcpConstants
  <2> QED
    BY <1>1, <1>6, <1>9, <2>1, <2>2, BringInStep
<1> QED
  BY <1>10, <1>11 DEF TcpInv

\* A step that changes only where one call is, and not what it holds.
LEMMA CallMoves ==
    ASSUME TcpInv, NEW c \in Apps, NEW r \in Call, r.item.data = call[c].item.data,
           call' = [call EXCEPT ![c] = r],
           unacked_slots' \in [PortIdx -> 0 .. MAX_UNACKED],
           UNCHANGED <<ports, unacked, queues, ipv4_queue, task, heap, reused>>
    PROVE  TcpInv'
<1>1. TypeOK /\ TaskStage /\ OwnedOnce
  BY DEF TcpInv
<1>2. call \in [Apps -> Call]
  BY <1>1 DEF TypeOK
<1>3. call' \in [Apps -> Call]
  BY <1>2
<1>4. \A b \in Apps : call'[b].item.data = call[b].item.data
  BY <1>2
<1>5. TypeOK' /\ TaskStage'
  BY <1>1, <1>3 DEF TypeOK, TaskStage, queues
<1>6. OwnedOnce'
  <2>1. send_queue' = send_queue /\ heap' = heap /\ unacked' = unacked
    BY DEF queues
  <2> QED
    BY <1>1, <1>4, <2>1, SameOwners
<1> QED
  BY <1>5, <1>6 DEF TcpInv

\* A call that fails frees its block and forgets it.
LEMMA FailStep ==
    ASSUME TcpInv, NEW c \in Apps, Fail(c),
           unacked_slots' \in [PortIdx -> 0 .. MAX_UNACKED],
           UNCHANGED <<ports, unacked, queues, ipv4_queue, task, reused>>
    PROVE  TcpInv'
<1>1. TypeOK /\ TaskStage /\ OwnedOnce
  BY DEF TcpInv
<1>2. call \in [Apps -> Call] /\ heap \in SUBSET Blocks
  BY <1>1 DEF TypeOK
<1>3. heap' = heap \ {call[c].item.data} /\ call' = [call EXCEPT ![c] = Idle]
  BY DEF Fail
<1>4. call' \in [Apps -> Call] /\ heap' \in SUBSET Blocks
  BY <1>2, <1>3, Values
<1>5. TypeOK' /\ TaskStage'
  BY <1>1, <1>4 DEF TypeOK, TaskStage, queues
<1>6. \A b \in Apps : call'[b].item.data = IF b = c THEN NULL ELSE call[b].item.data
  BY <1>2, <1>3, Values
<1>7. send_queue' = send_queue /\ unacked' = unacked
  BY DEF queues
<1>8. OwnedOnce'
  <2>1. \A b \in Apps : call'[b].item.data \in heap' \cup {NULL}
    BY <1>1, <1>3, <1>6 DEF OwnedOnce
  <2>2. \A k \in 1 .. Len(send_queue) : send_queue[k].data \in heap' \cup {NULL}
    BY <1>1, <1>3 DEF OwnedOnce
  <2>3. \A p \in PortIdx, i \in SlotIdx : unacked'[p][i].data \in heap' \cup {NULL}
    BY <1>1, <1>3, <1>7 DEF OwnedOnce
  <2>4. /\ \A b \in Apps : call'[b].item.data \in {call[b].item.data, NULL}
        /\ \A p \in PortIdx, i \in SlotIdx :
              unacked'[p][i].data \in {unacked[p][i].data, NULL}
    BY <1>6, <1>7
  <2> QED
    BY <1>1, <1>7, <2>1, <2>2, <2>3, <2>4, LetGoStep
<1> QED
  BY <1>5, <1>8 DEF TcpInv

\* tcp_send copies the tuple of the port; the payload stays the call's.
LEMMA SendParamsStep ==
    ASSUME TcpInv, NEW c \in Apps, SendParams(c)
    PROVE  TcpInv'
<1>1. TypeOK /\ TaskStage /\ OwnedOnce
  BY DEF TcpInv
<1> DEFINE port  == ports[call[c].p]
           found == FindPort(port.self, port.other)
           item  == [call[c].item EXCEPT !.src = port.self, !.dst = port.other,
                                         !.ctrl = {"ACK", "PSH"}]
           r     == [call[c] EXCEPT !.pc = "take", !.p = Min(found), !.item = item]
<1>2. call[c] \in Call /\ call[c].item \in Params /\ port \in Port /\ call[c].p \in PortIdx
  BY <1>1, CallType
<1>3. found \in SUBSET PortIdx /\ call[c].p \in found
  BY <1>2 DEF FindPort
<1>4. Min(found) \in PortIdx
  BY <1>3, FirstPort
<1>5. port.self \in PortNums \cup {0} /\ port.other \in Others
  BY <1>2 DEF Port
<1>6. item \in Params /\ item.data = call[c].item.data
  BY <1>2, <1>5 DEF Params, Flags
<1>7. r \in Call /\ r.item.data = call[c].item.data
  BY <1>2, <1>4, <1>6 DEF Call
<1>8. call' = [call EXCEPT ![c] = r]
  <2>1. call \in [Apps -> Call]
    BY <1>1 DEF TypeOK
  <2> QED
    BY <2>1 DEF SendParams
<1>9. /\ unacked_slots' \in [PortIdx -> 0 .. MAX_UNACKED]
      /\ UNCHANGED <<ports, unacked, queues, ipv4_queue, task, heap, reused>>
  BY <1>1 DEF SendParams, TypeOK, tables
<1> HIDE DEF r
<1> QED
  BY <1>7, <1>8, <1>9, CallMoves

\* xSemaphoreTake succeeds: a slot less, no payload moves.
LEMMA TakeSlotStep ==
    ASSUME TcpInv, NEW c \in Apps, TakeSlot(c)
    PROVE  TcpInv'
<1>1. TypeOK
  BY DEF TcpInv
<1> DEFINE r == [call[c] EXCEPT !.pc = "check"]
<1>2. call[c] \in Call /\ call[c].p \in PortIdx
      /\ unacked_slots[call[c].p] \in 0 .. MAX_UNACKED
  BY <1>1, CallType
<1>3. r \in Call /\ r.item.data = call[c].item.data
  BY <1>2 DEF Call
<1>4. call' = [call EXCEPT ![c] = r]
  BY DEF TakeSlot
<1>5. unacked_slots' \in [PortIdx -> 0 .. MAX_UNACKED]
  <2>1. unacked_slots[call[c].p] - 1 \in 0 .. MAX_UNACKED
    BY <1>2, TcpConstants DEF TakeSlot
  <2>2. unacked_slots \in [PortIdx -> 0 .. MAX_UNACKED]
    BY <1>1 DEF TypeOK
  <2> QED
    BY <1>2, <2>1, <2>2 DEF TakeSlot
<1>6. UNCHANGED <<ports, unacked, queues, ipv4_queue, task, heap, reused>>
  BY DEF TakeSlot
<1> HIDE DEF r
<1> QED
  BY <1>3, <1>4, <1>5, <1>6, CallMoves

\* xSemaphoreTake times out: the call frees its own payload.
LEMMA TakeTimeoutStep ==
    ASSUME TcpInv, NEW c \in Apps, TakeTimeout(c)
    PROVE  TcpInv'
<1>1. unacked_slots' \in [PortIdx -> 0 .. MAX_UNACKED]
  BY DEF TcpInv, TypeOK, TakeTimeout, tables
<1>2. Fail(c) /\ UNCHANGED <<ports, unacked, queues, ipv4_queue, task, reused>>
  BY DEF TakeTimeout, tables
<1> QED
  BY <1>1, <1>2, FailStep

\* xSemaphoreTake on a deleted semaphore: the call keeps or frees its own
\* payload.
LEMMA TakeDeletedStep ==
    ASSUME TcpInv, NEW c \in Apps, TakeDeleted(c)
    PROVE  TcpInv'
<1>1. /\ unacked_slots' \in [PortIdx -> 0 .. MAX_UNACKED]
      /\ UNCHANGED <<ports, unacked, queues, ipv4_queue, task, reused>>
  BY DEF TcpInv, TypeOK, TakeDeleted, tables
<1>2. CASE Fail(c)
  BY <1>1, <1>2, FailStep
<1>3. CASE /\ call' = [call EXCEPT ![c].pc = "check", ![c].deleted = FALSE]
           /\ UNCHANGED heap
  <2> DEFINE r == [call[c] EXCEPT !.pc = "check", !.deleted = FALSE]
  <2>1. call[c] \in Call /\ call \in [Apps -> Call]
    BY CallType DEF TcpInv, TypeOK
  <2>2. r \in Call /\ r.item.data = call[c].item.data
    BY <2>1 DEF Call
  <2>3. call' = [call EXCEPT ![c] = r]
    BY <1>3, <2>1
  <2> HIDE DEF r
  <2>4. UNCHANGED <<ports, unacked, queues, ipv4_queue, task, heap, reused>>
    BY <1>1, <1>3
  <2> QED
    BY <1>1, <2>2, <2>3, <2>4, CallMoves
<1> QED
  BY <1>2, <1>3 DEF TakeDeleted

\* The port has closed meanwhile: the call frees its own payload, or goes
\* on.
LEMMA CheckClosedStep ==
    ASSUME TcpInv, NEW c \in Apps, CheckClosed(c)
    PROVE  TcpInv'
<1>1. /\ unacked_slots' \in [PortIdx -> 0 .. MAX_UNACKED]
      /\ UNCHANGED <<ports, unacked, queues, ipv4_queue, task, reused>>
  BY DEF TcpInv, TypeOK, CheckClosed, tables
<1>2. CASE Fail(c)
  BY <1>1, <1>2, FailStep
<1>3. CASE call' = [call EXCEPT ![c].pc = "queue"] /\ UNCHANGED heap
  <2> DEFINE r == [call[c] EXCEPT !.pc = "queue"]
  <2>1. call[c] \in Call
    BY CallType DEF TcpInv
  <2>2. r \in Call /\ r.item.data = call[c].item.data
    BY <2>1 DEF Call
  <2>3. call' = [call EXCEPT ![c] = r]
    BY <1>3
  <2> HIDE DEF r
  <2>4. UNCHANGED <<ports, unacked, queues, ipv4_queue, task, heap, reused>>
    BY <1>1, <1>3
  <2> QED
    BY <1>1, <2>2, <2>3, <2>4, CallMoves
<1> QED
  BY <1>2, <1>3 DEF CheckClosed

\* The queue set learns of every item that is queued, by any task.
LEMMA SetAppended ==
    ASSUME TypeOK, NEW q \in {"send", "input", "cmd"}
    PROVE  Append(tcp_task_queue_set, q) \in Seq({"send", "input", "cmd"})
BY DEF TypeOK

\* The payload goes from the call to send_queue.
LEMMA EnqueueSegmentStep ==
    ASSUME TcpInv, NEW c \in Apps, EnqueueSegment(c)
    PROVE  TcpInv'
<1>1. TypeOK /\ TaskStage /\ OwnedOnce
  BY DEF TcpInv
<1> DEFINE x == call[c].item
<1>2. call[c] \in Call /\ x \in Params /\ call \in [Apps -> Call]
  BY <1>1, CallType DEF TypeOK
<1>3. /\ send_queue' = Append(send_queue, x)
      /\ tcp_task_queue_set' = Append(tcp_task_queue_set, "send")
      /\ call' = [call EXCEPT ![c] = Idle]
  BY DEF EnqueueSegment, QueueSend
<1>4. /\ UNCHANGED <<ports, unacked, unacked_slots, input_queue, port_cmd_queue>>
      /\ UNCHANGED <<ipv4_queue, task, heap, reused>>
  BY DEF EnqueueSegment, tables
<1>5. call' \in [Apps -> Call]
  BY <1>2, <1>3, Values
<1>6. send_queue' \in Seq(Params) /\ tcp_task_queue_set' \in Seq({"send", "input", "cmd"})
  <2>1. send_queue \in Seq(Params)
    BY <1>1 DEF TypeOK
  <2> QED
    BY <1>1, <1>2, <1>3, <2>1, SetAppended
<1>7. TypeOK' /\ TaskStage'
  BY <1>1, <1>4, <1>5, <1>6 DEF TypeOK, TaskStage
<1>8. OwnedOnce'
  <2>1. \A b \in Apps : call'[b].item.data = IF b = c THEN NULL ELSE call[b].item.data
    BY <1>2, <1>3, Values
  <2>2. x.data \in heap \cup {NULL} /\ heap' = heap
    BY <1>1, <1>4 DEF OwnedOnce
  <2>3. x.data # NULL =>
          /\ \A b \in Apps : call'[b].item.data # x.data
          /\ \A k \in 1 .. Len(send_queue) : send_queue[k].data # x.data
          /\ \A p \in PortIdx, i \in SlotIdx : unacked[p][i].data # x.data
    BY <1>1, <2>1 DEF OwnedOnce
  <2> HIDE DEF x
  <2>4. PICK y : y = x
    OBVIOUS
  <2> QED
    BY <1>1, <1>2, <1>3, <1>4, <2>1, <2>2, <2>3, <2>4, HandOverStep
<1> QED
  BY <1>7, <1>8 DEF TcpInv

\* xSemaphoreGive keeps a semaphore within its limit.
LEMMA GivenType ==
    ASSUME NEW n \in 0 .. MAX_UNACKED
    PROVE  Given(n) \in 0 .. MAX_UNACKED
BY TcpConstants DEF Given

\* send_queue is full: the slot goes back, the call frees its own payload.
LEMMA EnqueueFullStep ==
    ASSUME TcpInv, NEW c \in Apps, EnqueueFull(c)
    PROVE  TcpInv'
<1>1. TypeOK
  BY DEF TcpInv
<1>2. /\ call[c].p \in PortIdx /\ unacked_slots[call[c].p] \in 0 .. MAX_UNACKED
      /\ unacked_slots \in [PortIdx -> 0 .. MAX_UNACKED]
  BY <1>1, CallType DEF TypeOK
<1>3. Given(unacked_slots[call[c].p]) \in 0 .. MAX_UNACKED
  BY <1>2, GivenType
<1>4. unacked_slots' \in [PortIdx -> 0 .. MAX_UNACKED]
  BY <1>2, <1>3 DEF EnqueueFull
<1>5. Fail(c) /\ UNCHANGED <<ports, unacked, queues, ipv4_queue, task, reused>>
  BY DEF EnqueueFull
<1> QED
  BY <1>4, <1>5, FailStep

-----------------------------------------------------------------------------
(* What other tasks queue.                                                 *)

\* input_tcp queues a segment and touches no payload to be sent.
LEMMA InputTcpStep ==
    ASSUME TcpInv, NEW seg \in Segments, InputTcp(seg)
    PROVE  TcpInv'
<1>1. TypeOK /\ TaskStage /\ OwnedOnce
  BY DEF TcpInv
<1>2. /\ UNCHANGED <<ports, unacked, unacked_slots, send_queue, port_cmd_queue>>
      /\ UNCHANGED <<ipv4_queue, task, call, heap, reused>>
  BY DEF InputTcp, tables
<1>3. input_queue' \in Seq(Segments)
  BY <1>1 DEF InputTcp, TypeOK
<1>4. tcp_task_queue_set' \in Seq({"send", "input", "cmd"})
  BY <1>1, SetAppended DEF InputTcp
<1>5. TypeOK' /\ TaskStage'
  BY <1>1, <1>2, <1>3, <1>4 DEF TypeOK, TaskStage
<1>6. OwnedOnce'
  BY <1>1, <1>2, SameOwners
<1> QED
  BY <1>5, <1>6 DEF TcpInv

\* A command is queued; no payload is involved.
LEMMA PortCmdStep ==
    ASSUME TcpInv, NEW cmd \in Cmd, PortCmd(cmd)
    PROVE  TcpInv'
<1>1. TypeOK /\ TaskStage /\ OwnedOnce
  BY DEF TcpInv
<1>2. /\ UNCHANGED <<ports, unacked, unacked_slots, send_queue, input_queue>>
      /\ UNCHANGED <<ipv4_queue, task, call, heap, reused>>
  BY DEF PortCmd, tables
<1>3. port_cmd_queue' \in Seq(Cmd)
  <2>1. port_cmd_queue \in Seq(Cmd)
    BY <1>1 DEF TypeOK
  <2> QED
    BY <2>1 DEF PortCmd
<1>4. tcp_task_queue_set' \in Seq({"send", "input", "cmd"})
  BY <1>1, SetAppended DEF PortCmd
<1>5. TypeOK' /\ TaskStage'
  BY <1>1, <1>2, <1>3, <1>4 DEF TypeOK, TaskStage
<1>6. OwnedOnce'
  BY <1>1, <1>2, SameOwners
<1> QED
  BY <1>5, <1>6 DEF TcpInv

\* ipv4_task takes a packet; no payload is involved.
LEMMA Ipv4DrainStep ==
    ASSUME TcpInv, Ipv4Drain
    PROVE  TcpInv'
<1>1. TypeOK /\ TaskStage /\ OwnedOnce
  BY DEF TcpInv
<1>2. /\ UNCHANGED <<ports, unacked, unacked_slots, send_queue, input_queue>>
      /\ UNCHANGED <<port_cmd_queue, tcp_task_queue_set, task, call, heap, reused>>
  BY DEF Ipv4Drain, tables, queues
<1>3. ipv4_queue' \in 0 .. IPV4_QUEUE_LEN
  BY <1>1, TcpConstants DEF Ipv4Drain, TypeOK
<1>4. TypeOK' /\ TaskStage'
  BY <1>1, <1>2, <1>3 DEF TypeOK, TaskStage
<1>5. OwnedOnce'
  BY <1>1, <1>2, SameOwners
<1> QED
  BY <1>4, <1>5 DEF TcpInv
-----------------------------------------------------------------------------
(* tcp_task: transmitting.                                                 *)

\* Taking an event leaves a queue set of events.
LEMMA SelectedType ==
    ASSUME TypeOK, NEW q, Selected(q)
    PROVE  tcp_task_queue_set' \in Seq({"send", "input", "cmd"})
BY HeadTailProperties DEF TypeOK, Selected

\* Taking an item off send_queue: its type, and what stays.
LEMMA TakeSendType ==
    ASSUME TypeOK, TakeSend
    PROVE  /\ send_queue # << >> /\ send_queue' = Tail(send_queue)
           /\ Head(send_queue) \in Params /\ send_queue' \in Seq(Params)
           /\ tcp_task_queue_set' \in Seq({"send", "input", "cmd"})
           /\ UNCHANGED <<unacked_slots, input_queue, port_cmd_queue, task, call>>
           /\ UNCHANGED reused
<1>1. send_queue # << >> /\ send_queue' = Tail(send_queue) /\ Selected("send")
  BY DEF TakeSend
<1>2. send_queue \in Seq(Params)
  BY DEF TypeOK
<1>3. Head(send_queue) \in Params /\ send_queue' \in Seq(Params)
  BY <1>1, <1>2, HeadTailProperties
<1> QED
  BY <1>1, <1>3, SelectedType DEF TakeSend

\* The IPv4 queue never holds more than it has places.
LEMMA Ipv4Type ==
    ASSUME TypeOK
    PROVE  Ipv4Queued \in 0 .. IPV4_QUEUE_LEN
           /\ (~ Ipv4Full => ipv4_queue + 1 \in 0 .. IPV4_QUEUE_LEN)
BY TcpConstants DEF TypeOK, Ipv4Queued, Ipv4Full

\* tcp_send_internal gives up: the payload it took is freed, and nobody
\* else has it.
LEMMA SendDroppedStep ==
    ASSUME TcpInv, SendDropped
    PROVE  TcpInv'
<1>1. TypeOK /\ TaskStage /\ OwnedOnce /\ TakeSend
  BY DEF TcpInv, SendDropped
<1>2. /\ heap' = heap \ {Head(send_queue).data}
      /\ UNCHANGED <<ports, unacked, ipv4_queue>>
  BY DEF SendDropped
<1>3. heap' \in SUBSET Blocks
  BY <1>1, <1>2 DEF TypeOK
<1>4. TypeOK' /\ TaskStage'
  BY <1>1, <1>2, <1>3, TakeSendType DEF TypeOK, TaskStage
<1>5. OwnedOnce'
  BY <1>1, <1>2, TakeSendType, TakeOverStep
<1> QED
  BY <1>4, <1>5 DEF TcpInv

\* A segment that is not kept: its payload has no owner any more.
LEMMA SendPlainStep ==
    ASSUME TcpInv, SendPlain
    PROVE  TcpInv'
<1>1. TypeOK /\ TaskStage /\ OwnedOnce /\ TakeSend
  BY DEF TcpInv, SendPlain
<1>2. ipv4_queue' = Ipv4Queued /\ UNCHANGED <<ports, unacked, heap>>
  BY DEF SendPlain
<1>3. ipv4_queue' \in 0 .. IPV4_QUEUE_LEN
  BY <1>1, <1>2, Ipv4Type
<1>4. TypeOK' /\ TaskStage'
  BY <1>1, <1>2, <1>3, TakeSendType DEF TypeOK, TaskStage
<1>5. OwnedOnce'
  BY <1>1, <1>2, TakeSendType, TakeOverStep
<1> QED
  BY <1>4, <1>5 DEF TcpInv

\* The port record after one of its fields was assigned.
LEMMA PortWritten ==
    ASSUME TypeOK, NEW p \in PortIdx, NEW r \in Port
    PROVE  [ports EXCEPT ![p] = r] \in [PortIdx -> Port]
BY DEF TypeOK

\* The payload goes from send_queue to one empty entry.
LEMMA SendReliableStep ==
    ASSUME TcpInv, SendReliable
    PROVE  TcpInv'
<1>1. TypeOK /\ TaskStage /\ OwnedOnce /\ TakeSend
  BY DEF TcpInv, SendReliable
<1> DEFINE item  == Head(send_queue)
           found == FindPort(item.src, item.dst)
           p     == Min(found)
           i     == Min(EmptyUnacked(p))
           e     == [in_use |-> TRUE, seq_num |-> ports[p].seq_num,
                     ctrl |-> item.ctrl, data |-> item.data, len |-> item.len]
           r     == [ports[p] EXCEPT !.seq_num = NextSeq(p, item)]
<1>2. /\ found # {} /\ EmptyUnacked(p) # {}
      /\ unacked' = [unacked EXCEPT ![p][i] = e]
      /\ ports' = [ports EXCEPT ![p].seq_num = NextSeq(p, item)]
      /\ ipv4_queue' = Ipv4Queued /\ heap' = heap
  BY DEF SendReliable
<1>3. item \in Params
  BY <1>1, TakeSendType
<1>4. p \in PortIdx
  <2>1. found \in SUBSET PortIdx
    BY DEF FindPort
  <2> QED
    BY <1>2, <2>1, FirstPort
<1>5. i \in SlotIdx
  <2>1. EmptyUnacked(p) \in SUBSET SlotIdx
    BY DEF EmptyUnacked
  <2> QED
    BY <1>2, <2>1, FirstSlot
<1>6. ports[p] \in Port
  BY <1>1, <1>4 DEF TypeOK
<1>7. e \in Unacked /\ e.data = item.data
  BY <1>3, <1>6 DEF Unacked, Params, Port
<1>8. r \in Port
  <2>1. ports[p].seq_num + SeqIncrement(item.len, item.ctrl) \in Nat
    BY <1>3, <1>6, TcpConstants DEF Port, Params, SeqNums, SeqIncrement
  <2>2. NextSeq(p, item) \in SeqNums
    BY <2>1, Wrapped DEF NextSeq
  <2> QED
    BY <1>6, <2>2 DEF Port
<1>9. ports' \in [PortIdx -> Port]
  <2>1. ports' = [ports EXCEPT ![p] = r]
    BY <1>2
  <2> HIDE DEF r
  <2> QED
    BY <1>1, <1>4, <1>8, <2>1, PortWritten
<1>10. unacked \in [PortIdx -> [SlotIdx -> Unacked]]
  BY <1>1 DEF TypeOK
<1> HIDE DEF item, p, i, e, r
<1>11. unacked' \in [PortIdx -> [SlotIdx -> Unacked]]
  <2>1. [unacked[p] EXCEPT ![i] = e] \in [SlotIdx -> Unacked]
    BY <1>4, <1>5, <1>7, <1>10
  <2> QED
    BY <1>2, <1>4, <1>10, <2>1
<1>12. ipv4_queue' \in 0 .. IPV4_QUEUE_LEN
  BY <1>1, <1>2, Ipv4Type
<1>13. TypeOK' /\ TaskStage'
  BY <1>1, <1>2, <1>9, <1>11, <1>12, TakeSendType DEF TypeOK, TaskStage
<1>14. OwnedOnce'
  <2>1. \A q \in PortIdx, j \in SlotIdx :
           \/ unacked'[q][j].data = unacked[q][j].data
           \/ /\ q = p /\ j = i /\ unacked'[q][j].data = Head(send_queue).data
              /\ heap' = heap
    BY <1>2, <1>4, <1>5, <1>7, <1>10 DEF item
  <2>2. PICK a, b : a = p /\ b = i
    OBVIOUS
  <2>3. \A q \in PortIdx, j \in SlotIdx :
           \/ unacked'[q][j].data = unacked[q][j].data
           \/ /\ q = a /\ j = b /\ unacked'[q][j].data = Head(send_queue).data
              /\ heap' = heap
    BY <2>1, <2>2
  <2>4. /\ send_queue # << >> /\ send_queue' = Tail(send_queue) /\ call' = call
        /\ heap' \in {heap, heap \ {Head(send_queue).data}}
    BY <1>1, <1>2, TakeSendType
  <2> QED
    BY <1>1, <2>3, <2>4, TakeOverStep
<1> QED
  BY <1>13, <1>14 DEF TcpInv

-----------------------------------------------------------------------------
(* tcp_task: tcp_reset_port.                                               *)

\* tcp_reset_port keeps the types of all it overwrites.
LEMMA ResetPortType ==
    ASSUME TypeOK, NEW p \in PortIdx, ResetPort(p)
    PROVE  /\ ports' \in [PortIdx -> Port]
           /\ unacked' \in [PortIdx -> [SlotIdx -> Unacked]]
           /\ unacked_slots' \in [PortIdx -> 0 .. MAX_UNACKED]
           /\ call' \in [Apps -> Call]
           /\ heap' \in SUBSET Blocks
<1>1. ports' \in [PortIdx -> Port]
  <2> DEFINE r == [ports[p] EXCEPT !.state = "CLOSED", !.self = 0]
  <2>1. ports[p] \in Port /\ ports \in [PortIdx -> Port]
    BY DEF TypeOK
  <2>2. r \in Port
    BY <2>1 DEF Port, States
  <2>3. ports' = [ports EXCEPT ![p] = r]
    BY <2>1 DEF ResetPort
  <2> HIDE DEF r
  <2> QED
    BY <2>2, <2>3, PortWritten
<1>2. unacked' \in [PortIdx -> [SlotIdx -> Unacked]]
  <2>1. unacked \in [PortIdx -> [SlotIdx -> Unacked]]
    BY DEF TypeOK
  <2>2. ASSUME NEW i \in SlotIdx
        PROVE  ResetEntry(unacked[p][i]) \in Unacked
    <3>1. unacked[p][i] \in Unacked
      BY <2>1
    <3>2. [unacked[p][i] EXCEPT !.data = NULL] \in Unacked
      BY <3>1 DEF Unacked, Data
    <3> QED
      BY <3>1, <3>2 DEF ResetEntry
  <2>3. [i \in SlotIdx |-> ResetEntry(unacked[p][i])] \in [SlotIdx -> Unacked]
    BY <2>2
  <2> QED
    BY <2>1, <2>3 DEF ResetPort
<1>3. unacked_slots' \in [PortIdx -> 0 .. MAX_UNACKED]
  <2>1. 0 \in 0 .. MAX_UNACKED
    BY TcpConstants
  <2> QED
    BY <2>1 DEF ResetPort, TypeOK
<1>4. call' \in [Apps -> Call]
  <2>1. ASSUME NEW c \in Apps
        PROVE  call[c] \in Call /\ [call[c] EXCEPT !.deleted = TRUE] \in Call
    <3>1. call[c] \in Call
      BY DEF TypeOK
    <3> QED
      BY <3>1 DEF Call
  <2> QED
    BY <2>1 DEF ResetPort
<1>5. heap' \in SUBSET Blocks
  BY DEF ResetPort, TypeOK
<1> QED
  BY <1>1, <1>2, <1>3, <1>4, <1>5

\* A reset frees the payloads of the entries in use and forgets them; nobody
\* else held one of them.
LEMMA ResetPortOwners ==
    ASSUME TypeOK, OwnedOnce, NEW p \in PortIdx, ResetPort(p), send_queue' = send_queue
    PROVE  OwnedOnce'
<1> DEFINE freed == {unacked[p][i].data : i \in {j \in SlotIdx : unacked[p][j].in_use}}
<1>1. heap' = heap \ freed
  BY DEF ResetPort
<1>2. unacked \in [PortIdx -> [SlotIdx -> Unacked]] /\ call \in [Apps -> Call]
  BY DEF TypeOK
<1>3. \A c \in Apps : call'[c].item.data = call[c].item.data
  <2>2. ASSUME NEW c \in Apps
        PROVE  [call[c] EXCEPT !.deleted = TRUE].item = call[c].item
    <3>1. call[c] \in Call
      BY <1>2
    <3> QED
      BY <3>1 DEF Call
  <2> QED
    BY <2>2 DEF ResetPort
<1>4. \A i \in SlotIdx :
         ResetEntry(unacked[p][i]).data = IF unacked[p][i].in_use THEN NULL
                                          ELSE unacked[p][i].data
  <2>1. \A i \in SlotIdx : unacked[p][i] \in Unacked
    BY <1>2
  <2> QED
    BY <2>1 DEF ResetEntry, Unacked
<1>5. \A q \in PortIdx, i \in SlotIdx :
         unacked'[q][i] = IF q = p THEN ResetEntry(unacked[p][i]) ELSE unacked[q][i]
  BY <1>2 DEF ResetPort
<1>6. \A q \in PortIdx, i \in SlotIdx :
         unacked'[q][i].data = IF q = p /\ unacked[q][i].in_use THEN NULL
                               ELSE unacked[q][i].data
  BY <1>4, <1>5
<1>7. \A c \in Apps : call'[c].item.data \in heap' \cup {NULL}
  BY <1>1, <1>3 DEF OwnedOnce
<1>8. \A k \in 1 .. Len(send_queue) : send_queue[k].data \in heap' \cup {NULL}
  BY <1>1 DEF OwnedOnce
<1>9. \A q \in PortIdx, i \in SlotIdx : unacked'[q][i].data \in heap' \cup {NULL}
  <2> SUFFICES ASSUME NEW q \in PortIdx, NEW i \in SlotIdx,
                      ~ (q = p /\ unacked[q][i].in_use), unacked[q][i].data # NULL
               PROVE  unacked[q][i].data \in heap \ freed
    BY <1>1, <1>6
  <2>1. unacked[q][i].data \in heap
    BY DEF OwnedOnce
  <2>2. ASSUME NEW j \in SlotIdx, unacked[p][j].in_use
        PROVE  unacked[p][j].data # unacked[q][i].data
    BY <2>2 DEF OwnedOnce
  <2> QED
    BY <2>1, <2>2
<1>10. /\ \A c \in Apps : call'[c].item.data \in {call[c].item.data, NULL}
       /\ \A q \in PortIdx, i \in SlotIdx :
             unacked'[q][i].data \in {unacked[q][i].data, NULL}
  BY <1>3, <1>6
<1> QED
  BY <1>7, <1>8, <1>9, <1>10, LetGoStep

-----------------------------------------------------------------------------
(* tcp_task: receiving.                                                    *)

\* Taking a segment off input_queue: its type, and what stays.
LEMMA TakeInputType ==
    ASSUME TypeOK, TakeInput
    PROVE  /\ Head(input_queue) \in Segments /\ input_queue' \in Seq(Segments)
           /\ tcp_task_queue_set' \in Seq({"send", "input", "cmd"})
           /\ UNCHANGED <<send_queue, port_cmd_queue, ipv4_queue, reused>>
<1>1. input_queue # << >> /\ input_queue' = Tail(input_queue) /\ Selected("input")
  BY DEF TakeInput
<1>2. input_queue \in Seq(Segments)
  BY DEF TypeOK
<1>3. Head(input_queue) \in Segments /\ input_queue' \in Seq(Segments)
  BY <1>1, <1>2, HeadTailProperties
<1> QED
  BY <1>1, <1>3, SelectedType DEF TakeInput

\* The port a segment is for is a port of the table.
LEMMA ReceiverType ==
    ASSUME NEW seg, Receiver(seg) # {}
    PROVE  Min(Receiver(seg)) \in PortIdx
<1>1. Receiver(seg) \in SUBSET PortIdx
  BY DEF Receiver, FindPort, FindListeningPort
<1> QED
  BY <1>1, FirstPort

\* What tcp_task carries has its type.
LEMMA TaskType ==
    ASSUME TypeOK
    PROVE  /\ task \in Task /\ task.p \in PortIdx /\ task.item \in Params
           /\ task.seg \in Segments \cup {NULL} /\ ports[task.p] \in Port
           /\ task.due \in SUBSET (PortIdx \X (0 .. MAX_UNACKED))
<1>1. task \in Task
  BY DEF TypeOK
<1>2. /\ task.p \in PortIdx /\ task.item \in Params /\ task.seg \in Segments \cup {NULL}
      /\ task.due \in SUBSET (PortIdx \X (0 .. MAX_UNACKED))
  BY <1>1 DEF Task
<1> QED
  BY <1>1, <1>2 DEF TypeOK

\* A segment nobody takes changes no owner.
LEMMA InputDiscardStep ==
    ASSUME TcpInv, InputDiscard
    PROVE  TcpInv'
<1>1. TypeOK /\ TaskStage /\ OwnedOnce /\ TakeInput
  BY DEF TcpInv, InputDiscard
<1>2. UNCHANGED <<ports, unacked, unacked_slots, task, call, heap>>
  BY DEF InputDiscard, tables
<1>3. TypeOK' /\ TaskStage'
  BY <1>1, <1>2, TakeInputType DEF TypeOK, TaskStage
<1>4. OwnedOnce'
  BY <1>1, <1>2, TakeInputType, SameOwners
<1> QED
  BY <1>3, <1>4 DEF TcpInv

\* RST: the payloads of the port's entries are freed, once each.
LEMMA InputResetStep ==
    ASSUME TcpInv, InputReset
    PROVE  TcpInv'
<1>1. TypeOK /\ TaskStage /\ OwnedOnce /\ TakeInput
  BY DEF TcpInv, InputReset
<1>2. PICK p : p = Min(Receiver(Head(input_queue)))
  OBVIOUS
<1>3. p \in PortIdx /\ ResetPort(p) /\ task' = task
  BY <1>2, ReceiverType DEF InputReset
<1>4. TypeOK' /\ TaskStage'
  BY <1>1, <1>3, TakeInputType, ResetPortType DEF TypeOK, TaskStage
<1>5. OwnedOnce'
  BY <1>1, <1>3, TakeInputType, ResetPortOwners
<1> QED
  BY <1>4, <1>5 DEF TcpInv

\* Giving back the slots of several entries keeps a semaphore within its
\* limit.
LEMMA GivenBackType ==
    ASSUME TypeOK, NEW p \in PortIdx, NEW n \in Nat
    PROVE  GivenBack(p, n) \in 0 .. MAX_UNACKED
<1>1. unacked_slots[p] \in 0 .. MAX_UNACKED
  BY DEF TypeOK
<1> QED
  BY <1>1, TcpConstants DEF GivenBack

\* The entries an acknowledgement releases are freed and forgotten.
LEMMA ReleaseOwners ==
    ASSUME TypeOK, OwnedOnce, NEW p \in PortIdx, NEW rel \in SUBSET SlotIdx,
           heap' = heap \ {unacked[p][i].data : i \in rel},
           unacked' = [unacked EXCEPT ![p] =
                         [i \in SlotIdx |-> IF i \in rel THEN Free ELSE unacked[p][i]]],
           send_queue' = send_queue, call' = call
    PROVE  OwnedOnce'
<1>1. unacked \in [PortIdx -> [SlotIdx -> Unacked]]
  BY DEF TypeOK
<1>2. \A q \in PortIdx, i \in SlotIdx :
         unacked'[q][i].data = IF q = p /\ i \in rel THEN NULL ELSE unacked[q][i].data
  BY <1>1, Values
<1>3. \A c \in Apps : call'[c].item.data \in heap' \cup {NULL}
  BY DEF OwnedOnce
<1>4. \A k \in 1 .. Len(send_queue) : send_queue[k].data \in heap' \cup {NULL}
  BY DEF OwnedOnce
<1>5. \A q \in PortIdx, i \in SlotIdx : unacked'[q][i].data \in heap' \cup {NULL}
  <2> SUFFICES ASSUME NEW q \in PortIdx, NEW i \in SlotIdx,
                      ~ (q = p /\ i \in rel), unacked[q][i].data # NULL
               PROVE  unacked[q][i].data \in heap'
    BY <1>2
  <2>1. unacked[q][i].data \in heap
    BY DEF OwnedOnce
  <2>2. \A j \in rel : unacked[p][j].data # unacked[q][i].data
    BY DEF OwnedOnce
  <2> QED
    BY <2>1, <2>2
<1>6. /\ \A c \in Apps : call'[c].item.data \in {call[c].item.data, NULL}
      /\ \A q \in PortIdx, i \in SlotIdx :
            unacked'[q][i].data \in {unacked[q][i].data, NULL}
  BY <1>2
<1> QED
  BY <1>3, <1>4, <1>5, <1>6, LetGoStep

\* An acknowledgement frees the payloads of the entries it releases, and
\* these entries hold them no longer.
LEMMA InputProcessStep ==
    ASSUME TcpInv, InputProcess
    PROVE  TcpInv'
<1>1. TypeOK /\ TaskStage /\ OwnedOnce /\ TakeInput
  BY DEF TcpInv, InputProcess
<1> DEFINE seg == Head(input_queue)
           p   == Min(Receiver(seg))
           rel == Acked(p, seg)
           num == IF NeedsAck(p, seg)
                  THEN (seg.seq + SeqIncrement(seg.len, seg.ctrl)) % SEQ_MOD
                  ELSE ports[p].ack_num
           r   == [ports[p] EXCEPT !.ack_num = num]
           t   == [task EXCEPT !.pc = IF NeedsAck(p, seg) THEN "ack" ELSE "switch",
                               !.seg = seg, !.p = p]
<1>2. /\ Receiver(seg) # {}
      /\ unacked' = [unacked EXCEPT ![p] =
                       [i \in SlotIdx |-> IF i \in rel THEN Free ELSE unacked[p][i]]]
      /\ heap' = heap \ {unacked[p][i].data : i \in rel}
      /\ unacked_slots' = [unacked_slots EXCEPT ![p] = GivenBack(p, Cardinality(rel))]
      /\ task' = t /\ call' = call
  BY DEF InputProcess
<1>3. seg \in Segments /\ p \in PortIdx
  BY <1>1, <1>2, TakeInputType, ReceiverType
<1>4. rel \in SUBSET SlotIdx
  BY DEF Acked
<1>5. ports[p] \in Port /\ task \in Task
  BY <1>1, <1>3 DEF TypeOK
<1>6. ports' = [ports EXCEPT ![p] = r]
  BY DEF InputProcess
<1>7. num \in SeqNums
  <2>1. seg.seq + SeqIncrement(seg.len, seg.ctrl) \in Nat
    <3>1. seg.seq \in SeqNums /\ SeqIncrement(seg.len, seg.ctrl) \in Nat
      BY <1>3, SegmentType
    <3> QED
      BY <3>1, TcpConstants DEF SeqNums
  <2>2. (seg.seq + SeqIncrement(seg.len, seg.ctrl)) % SEQ_MOD \in SeqNums
    BY <2>1, Wrapped
  <2> QED
    BY <1>5, <2>2 DEF Port
<1> HIDE DEF seg, p, rel, num
<1>8. r \in Port
  BY <1>5, <1>7 DEF Port
<1>9. t \in Task /\ t.seg = seg /\ t.item = task.item
  BY <1>3, <1>5 DEF Task
<1> HIDE DEF r, t
<1>10. ports' \in [PortIdx -> Port]
  BY <1>1, <1>3, <1>6, <1>8, PortWritten
<1>11. unacked' \in [PortIdx -> [SlotIdx -> Unacked]]
  <2>1. unacked \in [PortIdx -> [SlotIdx -> Unacked]]
    BY <1>1 DEF TypeOK
  <2>2. [i \in SlotIdx |-> IF i \in rel THEN Free ELSE unacked[p][i]] \in [SlotIdx -> Unacked]
    BY <1>3, <2>1, Values
  <2> QED
    BY <1>2, <2>1, <2>2
<1>12. unacked_slots' \in [PortIdx -> 0 .. MAX_UNACKED]
  <2>1. IsFiniteSet(SlotIdx)
    BY FS_Interval, TcpConstants DEF SlotIdx
  <2>2. Cardinality(rel) \in Nat
    BY <1>4, <2>1, FS_Subset, FS_CardinalityType
  <2>3. GivenBack(p, Cardinality(rel)) \in 0 .. MAX_UNACKED
    BY <1>1, <1>3, <2>2, GivenBackType
  <2>4. unacked_slots \in [PortIdx -> 0 .. MAX_UNACKED]
    BY <1>1 DEF TypeOK
  <2> QED
    BY <1>2, <2>3, <2>4
<1>13. heap' \in SUBSET Blocks
  BY <1>1, <1>2 DEF TypeOK
<1>14. task' \in Task /\ TaskStage'
  BY <1>1, <1>2, <1>3, <1>9 DEF TaskStage
<1>15. TypeOK'
  BY <1>1, <1>2, <1>10, <1>11, <1>12, <1>13, <1>14, TakeInputType DEF TypeOK
<1>16. OwnedOnce'
  <2>1. PICK q, s : q = p /\ s = rel
    OBVIOUS
  <2> QED
    BY <1>1, <1>2, <1>3, <1>4, <2>1, TakeInputType, ReleaseOwners
<1> QED
  BY <1>14, <1>15, <1>16 DEF TcpInv

\* A segment of tcp_task, without a payload, goes to send_queue.
LEMMA QueueSendStep ==
    ASSUME TypeOK, OwnedOnce, NEW item \in Params, item.data = NULL, QueueSend(item),
           UNCHANGED <<unacked, call, heap>>
    PROVE  /\ send_queue' \in Seq(Params)
           /\ tcp_task_queue_set' \in Seq({"send", "input", "cmd"})
           /\ OwnedOnce'
<1>1. send_queue' = Append(send_queue, item) /\ send_queue \in Seq(Params)
  BY DEF QueueSend, TypeOK
<1>2. send_queue' \in Seq(Params)
  BY <1>1
<1>3. tcp_task_queue_set' \in Seq({"send", "input", "cmd"})
  BY SetAppended DEF QueueSend
<1>4. OwnedOnce'
  BY <1>1, HandOverStep
<1> QED
  BY <1>2, <1>3, <1>4

\* The ACK that is queued carries no payload.
LEMMA InputAckStep ==
    ASSUME TcpInv, InputAck
    PROVE  TcpInv'
<1>1. TypeOK /\ TaskStage /\ OwnedOnce
  BY DEF TcpInv
<1>2. PICK item : item = Packet(task.p, {"ACK"})
  OBVIOUS
<1>3. item \in Params /\ item.data = NULL /\ QueueSend(item)
  BY <1>1, <1>2, TaskType, PacketType DEF InputAck, Flags
<1>4. /\ UNCHANGED <<ports, unacked, unacked_slots, input_queue, port_cmd_queue>>
      /\ UNCHANGED <<ipv4_queue, call, heap, reused>>
  BY DEF InputAck, tables
<1>5. /\ send_queue' \in Seq(Params) /\ OwnedOnce'
      /\ tcp_task_queue_set' \in Seq({"send", "input", "cmd"})
  BY <1>1, <1>3, <1>4, QueueSendStep
<1>6. task' \in Task /\ TaskStage'
  <2>1. task \in Task
    BY <1>1 DEF TypeOK
  <2> QED
    BY <1>1, <2>1 DEF TaskStage, InputAck, Task
<1>7. TypeOK'
  BY <1>1, <1>4, <1>5, <1>6 DEF TypeOK
<1> QED
  BY <1>5, <1>6, <1>7 DEF TcpInv

\* A port's state is assigned.
LEMMA StateWritten ==
    ASSUME TypeOK, NEW p \in PortIdx, NEW s \in States,
           ports' = [ports EXCEPT ![p].state = s]
    PROVE  ports' \in [PortIdx -> Port]
<1> DEFINE r == [ports[p] EXCEPT !.state = s]
<1>1. ports[p] \in Port
  BY DEF TypeOK
<1>2. r \in Port
  BY <1>1 DEF Port
<1>3. ports' = [ports EXCEPT ![p] = r]
  OBVIOUS
<1> HIDE DEF r
<1> QED
  BY <1>2, <1>3, PortWritten

\* Taking a slot of entry q, which the search may not have found.
LEMMA SlotTaken ==
    ASSUME TypeOK, NEW q, unacked_slots[q] > 0
    PROVE  [unacked_slots EXCEPT ![q] = @ - 1] \in [PortIdx -> 0 .. MAX_UNACKED]
<1>1. unacked_slots \in [PortIdx -> 0 .. MAX_UNACKED]
  BY DEF TypeOK
<1>2. CASE q \in PortIdx
  <2>1. unacked_slots[q] - 1 \in 0 .. MAX_UNACKED
    BY <1>1, <1>2, TcpConstants
  <2> QED
    BY <1>1, <1>2, <2>1
<1>3. CASE q \notin PortIdx
  BY <1>1, <1>3
<1> QED
  BY <1>2, <1>3

\* The SYN or FIN that is queued carries no payload.
LEMMA EnqueueReliableStep ==
    ASSUME TcpInv, EnqueueReliable
    PROVE  TcpInv'
<1>1. TypeOK /\ TaskStage /\ OwnedOnce
  BY DEF TcpInv
<1>2. /\ UNCHANGED <<unacked, input_queue, port_cmd_queue>>
      /\ UNCHANGED <<ipv4_queue, call, heap, reused>>
  BY DEF EnqueueReliable
<1>3. ports' \in [PortIdx -> Port]
  <2> DEFINE s == IF ports[task.p].state = "ESTABLISHED" THEN "LAST_ACK"
                  ELSE ports[task.p].state
  <2>1. task.p \in PortIdx /\ ports[task.p] \in Port
    BY <1>1, TaskType
  <2>2. s \in States
    BY <2>1 DEF Port, States
  <2>3. PICK p, v : p = task.p /\ v = s
    OBVIOUS
  <2>4. ports' = [ports EXCEPT ![p].state = v]
    BY <2>3 DEF EnqueueReliable
  <2> QED
    BY <1>1, <2>1, <2>2, <2>3, <2>4, StateWritten
<1>4. task' \in Task /\ TaskStage'
  <2>1. task \in Task /\ task.item.data = NULL /\ task.seg \in Segments \cup {NULL}
    BY <1>1, TaskType DEF TaskStage
  <2>2. CASE task.seg # NULL /\ task.seg.len > 0
    <3>1. task' = [task EXCEPT !.pc = "deliver"]
      BY <2>2 DEF EnqueueReliable
    <3>2. task' \in Task /\ task'.seg = task.seg /\ task'.item = task.item
      BY <2>1, <3>1 DEF Task
    <3>3. task'.seg \in Segments
      BY <2>1, <2>2, <3>2
    <3> QED
      BY <2>1, <3>2, <3>3 DEF TaskStage
  <2>3. CASE ~ (task.seg # NULL /\ task.seg.len > 0)
    <3>1. task' = Selecting
      BY <2>3 DEF EnqueueReliable
    <3> QED
      BY <3>1, Values DEF TaskStage
  <2> QED
    BY <2>2, <2>3
<1>5. /\ unacked_slots' \in [PortIdx -> 0 .. MAX_UNACKED]
      /\ send_queue' \in Seq(Params) /\ OwnedOnce'
      /\ tcp_task_queue_set' \in Seq({"send", "input", "cmd"})
  <2>1. PICK q, item : q = Min(FindPort(task.item.src, task.item.dst)) /\ item = task.item
    OBVIOUS
  <2>2. item \in Params /\ item.data = NULL
    BY <1>1, <2>1, TaskType DEF TaskStage
  <2>3. CASE QueueSend(item) /\ unacked_slots' = [unacked_slots EXCEPT ![q] = @ - 1]
    <3>1. unacked_slots[q] > 0
      BY <2>1 DEF EnqueueReliable
    <3>2. unacked_slots' \in [PortIdx -> 0 .. MAX_UNACKED]
      BY <1>1, <2>3, <3>1, SlotTaken
    <3> QED
      BY <1>1, <1>2, <2>2, <2>3, <3>2, QueueSendStep
  <2>4. CASE UNCHANGED <<unacked_slots, send_queue, tcp_task_queue_set>>
    <3>1. OwnedOnce'
      BY <1>1, <1>2, <2>4, SameOwners
    <3> QED
      BY <1>1, <2>4, <3>1 DEF TypeOK
  <2> QED
    BY <2>1, <2>3, <2>4 DEF EnqueueReliable
<1>6. TypeOK'
  BY <1>1, <1>2, <1>3, <1>4, <1>5 DEF TypeOK
<1> QED
  BY <1>4, <1>5, <1>6 DEF TcpInv

\* tcp_task about to queue a segment without payload.
LEMMA ThenEnqueueType ==
    ASSUME NEW p \in PortIdx, NEW item \in Params, item.data = NULL, ThenEnqueue(p, item)
    PROVE  task' \in Task /\ TaskStage'
<1>1. Selecting \in Task
  BY Values
<1>2. task' = [Selecting EXCEPT !.pc = "reliable", !.p = p, !.item = item]
  BY DEF ThenEnqueue
<1>3. task' \in Task /\ task'.pc = "reliable" /\ task'.item = item
  BY <1>1, <1>2 DEF Task
<1> QED
  BY <1>3 DEF TaskStage

\* LISTEN: the tuple changes, no payload moves.
LEMMA SwitchListenStep ==
    ASSUME TcpInv, SwitchListen
    PROVE  TcpInv'
<1>1. TypeOK /\ TaskStage /\ OwnedOnce
  BY DEF TcpInv
<1>2. /\ UNCHANGED <<unacked, unacked_slots, send_queue, input_queue>>
      /\ UNCHANGED <<port_cmd_queue, tcp_task_queue_set, ipv4_queue, call, heap>>
  BY DEF SwitchListen, queues
<1>3. task.seg \in Segments /\ task.p \in PortIdx /\ ports[task.p] \in Port
  BY <1>1, TaskType DEF SwitchListen, Switch, TaskStage
<1> DEFINE num  == (task.seg.seq + 1) % SEQ_MOD
           r    == [ports[task.p] EXCEPT !.state = "SYN_RECEIVED",
                                         !.other = task.seg.src, !.ack_num = num]
           item == [Packet(task.p, {"SYN", "ACK"}) EXCEPT !.dst = task.seg.src]
<1>4. task.seg.src \in Peers /\ num \in SeqNums
  <2>1. task.seg.src \in Peers /\ task.seg.seq \in SeqNums
    BY <1>3, SegmentType
  <2>2. task.seg.seq + 1 \in Nat
    BY <2>1 DEF SeqNums
  <2> QED
    BY <2>1, <2>2, Wrapped
<1> HIDE DEF num
<1>5. r \in Port
  BY <1>3, <1>4 DEF Port, Others, States
<1>6. item \in Params /\ item.data = NULL
  <2>1. /\ Packet(task.p, {"SYN", "ACK"}) \in Params
        /\ Packet(task.p, {"SYN", "ACK"}).data = NULL
    BY <1>1, <1>3, PacketType DEF Flags
  <2> QED
    BY <1>4, <2>1 DEF Params, Others
<1>7. ports' = [ports EXCEPT ![task.p] = r] /\ ThenEnqueue(task.p, item)
  BY DEF SwitchListen, num
<1> HIDE DEF r, item
<1>8. PICK p, x : p = task.p /\ x = item
  OBVIOUS
<1>9. task' \in Task /\ TaskStage'
  BY <1>3, <1>6, <1>7, <1>8, ThenEnqueueType
<1>10. ports' \in [PortIdx -> Port]
  BY <1>1, <1>3, <1>5, <1>7, PortWritten
<1>11. reused' \in BOOLEAN
  BY DEF SwitchListen
<1>12. TypeOK'
  BY <1>1, <1>2, <1>9, <1>10, <1>11 DEF TypeOK
<1>13. OwnedOnce'
  BY <1>1, <1>2, SameOwners
<1> QED
  BY <1>9, <1>12, <1>13 DEF TcpInv

\* A callback of tcp_task hands a new block to send_queue, or nothing.
LEMMA CallbackSendsStep ==
    ASSUME TypeOK, OwnedOnce, CallbackSends, UNCHANGED <<unacked, call>>
    PROVE  /\ unacked_slots' \in [PortIdx -> 0 .. MAX_UNACKED]
           /\ send_queue' \in Seq(Params)
           /\ tcp_task_queue_set' \in Seq({"send", "input", "cmd"})
           /\ heap' \in SUBSET Blocks
           /\ OwnedOnce'
<1>1. CASE UNCHANGED <<unacked_slots, send_queue, tcp_task_queue_set, heap>>
  <2>1. OwnedOnce'
    BY <1>1, SameOwners
  <2> QED
    BY <1>1, <2>1 DEF TypeOK
<1>2. CASE \E self \in PortNums, other \in Peers, d \in Blocks \ heap, len \in Lens :
             LET p == Min(FindPort(self, other))
             IN  /\ FindPort(self, other) # {}
                 /\ unacked_slots[p] > 0
                 /\ Len(send_queue) < SEND_QUEUE_LEN
                 /\ unacked_slots' = [unacked_slots EXCEPT ![p] = @ - 1]
                 /\ QueueSend([Packet(p, {"ACK", "PSH"}) EXCEPT !.data = d, !.len = len])
                 /\ heap' = heap \cup {d}
  <2>1. PICK self \in PortNums, other \in Peers, d \in Blocks \ heap, len \in Lens :
             /\ FindPort(self, other) # {}
             /\ unacked_slots[Min(FindPort(self, other))] > 0
             /\ unacked_slots' =
                  [unacked_slots EXCEPT ![Min(FindPort(self, other))] = @ - 1]
             /\ QueueSend([Packet(Min(FindPort(self, other)), {"ACK", "PSH"})
                             EXCEPT !.data = d, !.len = len])
             /\ heap' = heap \cup {d}
    BY <1>2
  <2>2. PICK p : p = Min(FindPort(self, other))
    OBVIOUS
  <2>3. p \in PortIdx
    <3>1. FindPort(self, other) \in SUBSET PortIdx
      BY DEF FindPort
    <3> QED
      BY <2>1, <2>2, <3>1, FirstPort
  <2> DEFINE x == [Packet(p, {"ACK", "PSH"}) EXCEPT !.data = d, !.len = len]
  <2>4. x \in Params /\ x.data = d
    <3>1. Packet(p, {"ACK", "PSH"}) \in Params
      BY <2>3, PacketType DEF Flags
    <3>2. d \in Data /\ len \in Nat
      BY TcpConstants DEF Data
    <3> QED
      BY <3>1, <3>2 DEF Params
  <2>5. /\ send_queue' = Append(send_queue, x)
        /\ tcp_task_queue_set' = Append(tcp_task_queue_set, "send")
    BY <2>1, <2>2 DEF QueueSend
  <2> HIDE DEF x
  <2>6. PICK y : y = x
    OBVIOUS
  <2>7. unacked_slots' \in [PortIdx -> 0 .. MAX_UNACKED]
    BY <2>1, <2>2, SlotTaken
  <2>8. /\ send_queue' \in Seq(Params)
        /\ tcp_task_queue_set' \in Seq({"send", "input", "cmd"})
    <3>1. send_queue \in Seq(Params)
      BY DEF TypeOK
    <3> QED
      BY <2>4, <2>5, <3>1, SetAppended
  <2>9. heap' \in SUBSET Blocks
    BY <2>1 DEF TypeOK
  <2>10. OwnedOnce'
    <3>1. heap \subseteq heap' /\ d \in heap' /\ d \notin heap /\ d # NULL
      BY <2>1, TcpConstants
    <3>2. /\ \A c \in Apps : call[c].item.data # d /\ call'[c].item.data = call[c].item.data
          /\ \A k \in 1 .. Len(send_queue) : send_queue[k].data # d
          /\ \A q \in PortIdx, i \in SlotIdx : unacked[q][i].data # d
      BY <3>1 DEF OwnedOnce
    <3> QED
      BY <2>4, <2>5, <2>6, <3>1, <3>2, HandOverStep
  <2> QED
    BY <2>7, <2>8, <2>9, <2>10
<1> QED
  BY <1>1, <1>2 DEF CallbackSends

\* on_connect may queue a payload that was not allocated before.
LEMMA SwitchEstablishStep ==
    ASSUME TcpInv, SwitchEstablish
    PROVE  TcpInv'
<1>1. TypeOK /\ TaskStage /\ OwnedOnce /\ CallbackSends
  BY DEF TcpInv, SwitchEstablish
<1>2. /\ UNCHANGED <<unacked, input_queue, port_cmd_queue, ipv4_queue, call, reused>>
      /\ task' = Selecting
  BY DEF SwitchEstablish
<1>3. ports' \in [PortIdx -> Port]
  <2>1. PICK p, s : p = task.p /\ s = "ESTABLISHED"
    OBVIOUS
  <2>2. ports' = [ports EXCEPT ![p].state = s] /\ p \in PortIdx /\ s \in States
    BY <1>1, <2>1, TaskType DEF SwitchEstablish, States
  <2> QED
    BY <1>1, <2>2, StateWritten
<1>4. task' \in Task /\ TaskStage'
  BY <1>2, Values DEF TaskStage
<1>5. TypeOK' /\ OwnedOnce'
  BY <1>1, <1>2, <1>3, <1>4, CallbackSendsStep DEF TypeOK
<1> QED
  BY <1>4, <1>5 DEF TcpInv

\* FIN in ESTABLISHED: no payload moves.
LEMMA SwitchFinStep ==
    ASSUME TcpInv, SwitchFin
    PROVE  TcpInv'
<1>1. TypeOK /\ TaskStage /\ OwnedOnce
  BY DEF TcpInv
<1>2. /\ UNCHANGED <<ports, unacked, unacked_slots, send_queue, input_queue>>
      /\ UNCHANGED <<port_cmd_queue, tcp_task_queue_set, ipv4_queue, call, heap, reused>>
  BY DEF SwitchFin, tables, queues
<1>3. task' \in Task /\ TaskStage'
  <2> DEFINE item == Packet(task.p, {"FIN", "ACK"})
  <2>1. task \in Task /\ item \in Params /\ item.data = NULL
    BY <1>1, TaskType, PacketType DEF Flags
  <2>2. task' = [task EXCEPT !.pc = "reliable", !.item = item]
    BY DEF SwitchFin
  <2> HIDE DEF item
  <2>3. task' \in Task /\ task'.pc = "reliable" /\ task'.item = item
    BY <2>1, <2>2 DEF Task
  <2> QED
    BY <2>1, <2>3 DEF TaskStage
<1>4. TypeOK'
  BY <1>1, <1>2, <1>3 DEF TypeOK
<1>5. OwnedOnce'
  BY <1>1, <1>2, SameOwners
<1> QED
  BY <1>3, <1>4, <1>5 DEF TcpInv

\* on_receive may queue a payload that was not allocated before.
LEMMA DeliverStep ==
    ASSUME TcpInv, Deliver
    PROVE  TcpInv'
<1>1. TypeOK /\ TaskStage /\ OwnedOnce /\ CallbackSends
  BY DEF TcpInv, Deliver
<1>2. /\ UNCHANGED <<ports, unacked, input_queue, port_cmd_queue, ipv4_queue, call>>
      /\ UNCHANGED reused /\ task' = Selecting
  BY DEF Deliver
<1>3. task' \in Task /\ TaskStage'
  BY <1>2, Values DEF TaskStage
<1>4. TypeOK' /\ OwnedOnce'
  BY <1>1, <1>2, <1>3, CallbackSendsStep DEF TypeOK
<1> QED
  BY <1>3, <1>4 DEF TcpInv

\* on_disconnect leaves the queues with their types.
LEMMA OnDisconnectType ==
    ASSUME TypeOK, OnDisconnect
    PROVE  /\ port_cmd_queue' \in Seq(Cmd)
           /\ tcp_task_queue_set' \in Seq({"send", "input", "cmd"})
<1>1. port_cmd_queue \in Seq(Cmd)
  BY DEF TypeOK
<1>2. CASE UNCHANGED <<port_cmd_queue, tcp_task_queue_set>>
  BY <1>1, <1>2 DEF TypeOK
<1>3. CASE \E self \in PortNums :
             /\ Len(port_cmd_queue) < PORT_CMD_QUEUE_LEN
             /\ port_cmd_queue' = Append(port_cmd_queue,
                  [type |-> "listen", self |-> self, other |-> NoPeer])
             /\ tcp_task_queue_set' = Append(tcp_task_queue_set, "cmd")
  <2>1. PICK self \in PortNums :
             /\ port_cmd_queue' = Append(port_cmd_queue,
                  [type |-> "listen", self |-> self, other |-> NoPeer])
             /\ tcp_task_queue_set' = Append(tcp_task_queue_set, "cmd")
    BY <1>3
  <2>2. [type |-> "listen", self |-> self, other |-> NoPeer] \in Cmd
    BY DEF Cmd
  <2> QED
    BY <1>1, <2>1, <2>2, SetAppended
<1> QED
  BY <1>2, <1>3 DEF OnDisconnect

\* The last ACK resets the port, which frees what its entries hold.
LEMMA SwitchLastAckStep ==
    ASSUME TcpInv, SwitchLastAck
    PROVE  TcpInv'
<1>1. TypeOK /\ TaskStage /\ OwnedOnce /\ OnDisconnect
  BY DEF TcpInv, SwitchLastAck
<1>2. UNCHANGED <<send_queue, input_queue, ipv4_queue, reused>> /\ task' = Selecting
  BY DEF SwitchLastAck
<1>3. PICK p : p = task.p
  OBVIOUS
<1>4. p \in PortIdx /\ ResetPort(p)
  BY <1>1, <1>3, TaskType DEF SwitchLastAck
<1>5. task' \in Task /\ TaskStage'
  BY <1>2, Values DEF TaskStage
<1>6. TypeOK'
  BY <1>1, <1>2, <1>4, <1>5, ResetPortType, OnDisconnectType DEF TypeOK
<1>7. OwnedOnce'
  BY <1>1, <1>2, <1>4, ResetPortOwners
<1> QED
  BY <1>5, <1>6, <1>7 DEF TcpInv

\* FIN in FIN_WAIT: no payload moves.
LEMMA SwitchFinWaitStep ==
    ASSUME TcpInv, SwitchFinWait
    PROVE  TcpInv'
<1>1. TypeOK /\ TaskStage /\ OwnedOnce /\ OnDisconnect
  BY DEF TcpInv, SwitchFinWait
<1>2. /\ UNCHANGED <<unacked, unacked_slots, send_queue, input_queue, ipv4_queue>>
      /\ UNCHANGED <<call, heap, reused>> /\ task' = Selecting
  BY DEF SwitchFinWait
<1>3. ports' \in [PortIdx -> Port]
  <2>1. PICK p, s : p = task.p /\ s = "TIME_WAIT"
    OBVIOUS
  <2>2. ports' = [ports EXCEPT ![p].state = s] /\ p \in PortIdx /\ s \in States
    BY <1>1, <2>1, TaskType DEF SwitchFinWait, States
  <2> QED
    BY <1>1, <2>2, StateWritten
<1>4. task' \in Task /\ TaskStage'
  BY <1>2, Values DEF TaskStage
<1>5. TypeOK'
  BY <1>1, <1>2, <1>3, <1>4, OnDisconnectType DEF TypeOK
<1>6. OwnedOnce'
  BY <1>1, <1>2, SameOwners
<1> QED
  BY <1>4, <1>5, <1>6 DEF TcpInv

\* Our FIN is acknowledged: no payload moves.
LEMMA SwitchFinAckedStep ==
    ASSUME TcpInv, SwitchFinAcked
    PROVE  TcpInv'
<1>1. TypeOK /\ TaskStage /\ OwnedOnce
  BY DEF TcpInv
<1>2. /\ UNCHANGED <<unacked, unacked_slots, send_queue, input_queue, port_cmd_queue>>
      /\ UNCHANGED <<tcp_task_queue_set, ipv4_queue, call, heap, reused>>
      /\ task' = Selecting
  BY DEF SwitchFinAcked, queues
<1>3. ports' \in [PortIdx -> Port]
  <2>1. PICK p, s : p = task.p /\ s = "FIN_WAIT_2"
    OBVIOUS
  <2>2. ports' = [ports EXCEPT ![p].state = s] /\ p \in PortIdx /\ s \in States
    BY <1>1, <2>1, TaskType DEF SwitchFinAcked, States
  <2> QED
    BY <1>1, <2>2, StateWritten
<1>4. task' \in Task /\ TaskStage'
  BY <1>2, Values DEF TaskStage
<1>5. TypeOK'
  BY <1>1, <1>2, <1>3, <1>4 DEF TypeOK
<1>6. OwnedOnce'
  BY <1>1, <1>2, SameOwners
<1> QED
  BY <1>4, <1>5, <1>6 DEF TcpInv

\* The state machine ignores the segment.
LEMMA SwitchNoneStep ==
    ASSUME TcpInv, SwitchNone
    PROVE  TcpInv'
<1>1. TypeOK /\ TaskStage /\ OwnedOnce
  BY DEF TcpInv
<1>2. /\ UNCHANGED <<ports, unacked, unacked_slots, send_queue, input_queue>>
      /\ UNCHANGED <<port_cmd_queue, tcp_task_queue_set, ipv4_queue, call, heap, reused>>
      /\ task' = Selecting
  BY DEF SwitchNone, tables, queues
<1>3. task' \in Task /\ TaskStage'
  BY <1>2, Values DEF TaskStage
<1>4. TypeOK'
  BY <1>1, <1>2, <1>3 DEF TypeOK
<1>5. OwnedOnce'
  BY <1>1, <1>2, SameOwners
<1> QED
  BY <1>3, <1>4, <1>5 DEF TcpInv

-----------------------------------------------------------------------------
(* tcp_task: port commands.                                                *)

\* The fields of a port command.
LEMMA CmdType ==
    ASSUME NEW cmd \in Cmd
    PROVE  /\ cmd.self \in PortNums /\ cmd.other \in Others
           /\ cmd.type = "connect" => cmd.other \in Peers
BY DEF Cmd, Others

\* Taking a command off port_cmd_queue: its type, and what stays.
LEMMA TakeCmdType ==
    ASSUME TypeOK, NEW type, TakeCmd(type)
    PROVE  /\ Head(port_cmd_queue) \in Cmd /\ port_cmd_queue' \in Seq(Cmd)
           /\ Head(port_cmd_queue).type = type
           /\ tcp_task_queue_set' \in Seq({"send", "input", "cmd"})
           /\ UNCHANGED <<send_queue, input_queue, ipv4_queue, call, heap>>
<1>1. /\ port_cmd_queue # << >> /\ port_cmd_queue' = Tail(port_cmd_queue)
      /\ Selected("cmd") /\ Head(port_cmd_queue).type = type
      /\ UNCHANGED <<send_queue, input_queue, ipv4_queue, call, heap>>
  BY DEF TakeCmd
<1>2. port_cmd_queue \in Seq(Cmd)
  BY DEF TypeOK
<1>3. Head(port_cmd_queue) \in Cmd /\ port_cmd_queue' \in Seq(Cmd)
  BY <1>1, <1>2, HeadTailProperties
<1>4. tcp_task_queue_set' \in Seq({"send", "input", "cmd"})
  BY <1>1, SelectedType
<1> QED
  BY <1>1, <1>3, <1>4

\* A port that is allocated again forgets what its entries held: after a reset
\* nothing.
LEMMA CreatePortStep ==
    ASSUME TypeOK, OwnedOnce, NEW p \in PortIdx, NEW self \in PortNums,
           NEW other \in Others, NEW state \in States, CreatePort(p, self, other, state),
           UNCHANGED <<send_queue, call, heap>>
    PROVE  /\ ports' \in [PortIdx -> Port]
           /\ unacked' \in [PortIdx -> [SlotIdx -> Unacked]]
           /\ unacked_slots' \in [PortIdx -> 0 .. MAX_UNACKED]
           /\ reused' \in BOOLEAN
           /\ OwnedOnce'
<1>1. ports' \in [PortIdx -> Port]
  <2> DEFINE r == [self |-> self, other |-> other, state |-> state, ack_num |-> 0,
                   seq_num |-> 0]
  <2>1. 0 \in SeqNums
    BY TcpConstants DEF SeqNums
  <2>2. r \in Port
    BY <2>1 DEF Port
  <2>3. ports' = [ports EXCEPT ![p] = r]
    BY DEF CreatePort
  <2> HIDE DEF r
  <2> QED
    BY <2>2, <2>3, PortWritten
<1>2. unacked \in [PortIdx -> [SlotIdx -> Unacked]]
  BY DEF TypeOK
<1>3. /\ unacked' \in [PortIdx -> [SlotIdx -> Unacked]]
      /\ \A q \in PortIdx, i \in SlotIdx :
            unacked'[q][i].data = IF q = p THEN NULL ELSE unacked[q][i].data
  <2>1. [i \in SlotIdx |-> Free] \in [SlotIdx -> Unacked]
    BY Values
  <2>2. unacked' = [unacked EXCEPT ![p] = [i \in SlotIdx |-> Free]]
    BY DEF CreatePort
  <2> QED
    BY <1>2, <2>1, <2>2, Values
<1>4. unacked_slots' \in [PortIdx -> 0 .. MAX_UNACKED]
  <2>1. MAX_UNACKED \in 0 .. MAX_UNACKED
    BY TcpConstants
  <2> QED
    BY <2>1 DEF CreatePort, TypeOK
<1>5. reused' \in BOOLEAN
  BY DEF CreatePort
<1>6. OwnedOnce'
  <2>1. /\ \A c \in Apps : call'[c].item.data \in heap' \cup {NULL}
        /\ \A k \in 1 .. Len(send_queue) : send_queue[k].data \in heap' \cup {NULL}
        /\ \A q \in PortIdx, i \in SlotIdx : unacked'[q][i].data \in heap' \cup {NULL}
    BY <1>3 DEF OwnedOnce
  <2>2. /\ \A c \in Apps : call'[c].item.data \in {call[c].item.data, NULL}
        /\ \A q \in PortIdx, i \in SlotIdx :
              unacked'[q][i].data \in {unacked[q][i].data, NULL}
    BY <1>3
  <2> QED
    BY <2>1, <2>2, LetGoStep
<1> QED
  BY <1>1, <1>3, <1>4, <1>5, <1>6

\* allocate_port returns a port of the table.
LEMMA FreePortType ==
    ASSUME FreePorts # {}
    PROVE  Min(FreePorts) \in PortIdx
<1>1. FreePorts \in SUBSET PortIdx
  BY DEF FreePorts
<1> QED
  BY <1>1, FirstPort

\* allocate_port overwrites the entries of a free port: they can only let
\* go of payloads.
LEMMA CmdListenStep ==
    ASSUME TcpInv, CmdListen
    PROVE  TcpInv'
<1>1. TypeOK /\ TaskStage /\ OwnedOnce
  BY DEF TcpInv
<1>2. TakeCmd("listen") /\ task' = task
  BY DEF CmdListen
<1>3. PICK p, self, state : /\ p = Min(FreePorts) /\ self = Head(port_cmd_queue).self
                            /\ state = "LISTEN"
  OBVIOUS
<1>4. /\ p \in PortIdx /\ self \in PortNums /\ NoPeer \in Others /\ state \in States
      /\ CreatePort(p, self, NoPeer, state)
  <2>1. Head(port_cmd_queue) \in Cmd
    BY <1>1, <1>2, TakeCmdType
  <2>2. self \in PortNums
    BY <1>3, <2>1, CmdType
  <2>3. p \in PortIdx
    BY <1>3, FreePortType DEF CmdListen
  <2> QED
    BY <1>3, <2>2, <2>3 DEF CmdListen, Others, States
<1>5. /\ port_cmd_queue' \in Seq(Cmd)
      /\ tcp_task_queue_set' \in Seq({"send", "input", "cmd"})
      /\ UNCHANGED <<send_queue, input_queue, ipv4_queue, call, heap>>
  BY <1>1, <1>2, TakeCmdType
<1>6. /\ ports' \in [PortIdx -> Port]
      /\ unacked' \in [PortIdx -> [SlotIdx -> Unacked]]
      /\ unacked_slots' \in [PortIdx -> 0 .. MAX_UNACKED]
      /\ reused' \in BOOLEAN /\ OwnedOnce'
  BY <1>1, <1>4, <1>5, CreatePortStep
<1>7. TypeOK' /\ TaskStage'
  BY <1>1, <1>2, <1>5, <1>6 DEF TypeOK, TaskStage
<1> QED
  BY <1>6, <1>7 DEF TcpInv

\* allocate_port for a connection, as for a listener; the SYN carries no
\* payload.
LEMMA CmdConnectStep ==
    ASSUME TcpInv, CmdConnect
    PROVE  TcpInv'
<1>1. TypeOK /\ TaskStage /\ OwnedOnce /\ TakeCmd("connect")
  BY DEF TcpInv, CmdConnect
<1>2. PICK p, self, other, state : /\ p = Min(FreePorts)
                                   /\ self = Head(port_cmd_queue).self
                                   /\ other = Head(port_cmd_queue).other
                                   /\ state = "SYN_SENT"
  OBVIOUS
<1>3. /\ p \in PortIdx /\ self \in PortNums /\ other \in Others /\ state \in States
      /\ CreatePort(p, self, other, state)
  <2>1. Head(port_cmd_queue) \in Cmd
    BY <1>1, TakeCmdType
  <2>2. self \in PortNums /\ other \in Others
    BY <1>2, <2>1, CmdType
  <2>3. p \in PortIdx
    BY <1>2, FreePortType DEF CmdConnect
  <2> QED
    BY <1>2, <2>2, <2>3 DEF CmdConnect, States
<1>4. PICK item : item = [src |-> self, dst |-> other, ctrl |-> {"SYN"},
                          data |-> NULL, len |-> 0]
  OBVIOUS
<1>5. item \in Params /\ item.data = NULL /\ ThenEnqueue(p, item)
  <2>1. item \in Params /\ item.data = NULL
    BY <1>3, <1>4 DEF Params, Data, Flags
  <2>2. ThenEnqueue(p, item)
    BY <1>2, <1>4 DEF CmdConnect
  <2> QED
    BY <2>1, <2>2
<1>6. task' \in Task /\ TaskStage'
  BY <1>3, <1>5, ThenEnqueueType
<1>7. /\ port_cmd_queue' \in Seq(Cmd)
      /\ tcp_task_queue_set' \in Seq({"send", "input", "cmd"})
      /\ UNCHANGED <<send_queue, input_queue, ipv4_queue, call, heap>>
  BY <1>1, TakeCmdType
<1>8. /\ ports' \in [PortIdx -> Port]
      /\ unacked' \in [PortIdx -> [SlotIdx -> Unacked]]
      /\ unacked_slots' \in [PortIdx -> 0 .. MAX_UNACKED]
      /\ reused' \in BOOLEAN /\ OwnedOnce'
  BY <1>1, <1>3, <1>7, CreatePortStep
<1>9. TypeOK'
  BY <1>1, <1>6, <1>7, <1>8 DEF TypeOK
<1> QED
  BY <1>6, <1>8, <1>9 DEF TcpInv

\* The FIN of tcp_close_port carries no payload.
LEMMA CmdCloseStep ==
    ASSUME TcpInv, CmdClose
    PROVE  TcpInv'
<1>1. TypeOK /\ TaskStage /\ OwnedOnce /\ TakeCmd("close")
  BY DEF TcpInv, CmdClose
<1> DEFINE found == FindPort(Head(port_cmd_queue).self, Head(port_cmd_queue).other)
<1>2. PICK p, s : p = Min(found) /\ s = "FIN_WAIT_1"
  OBVIOUS
<1>3. p \in PortIdx /\ s \in States
  <2>1. found \in SUBSET PortIdx /\ found # {}
    BY DEF FindPort, CmdClose
  <2> QED
    BY <1>2, <2>1, FirstPort DEF States
<1>4. PICK item : item = Packet(p, {"FIN"})
  OBVIOUS
<1>5. ports' = [ports EXCEPT ![p].state = s] /\ ThenEnqueue(p, item)
      /\ UNCHANGED <<unacked, unacked_slots, reused>>
  BY <1>2, <1>4 DEF CmdClose
<1>6. item \in Params /\ item.data = NULL
  BY <1>1, <1>3, <1>4, PacketType DEF Flags
<1>7. task' \in Task /\ TaskStage'
  BY <1>3, <1>5, <1>6, ThenEnqueueType
<1>8. ports' \in [PortIdx -> Port]
  BY <1>1, <1>3, <1>5, StateWritten
<1>9. /\ port_cmd_queue' \in Seq(Cmd)
      /\ tcp_task_queue_set' \in Seq({"send", "input", "cmd"})
      /\ UNCHANGED <<send_queue, input_queue, ipv4_queue, call, heap>>
  BY <1>1, TakeCmdType
<1>10. TypeOK'
  BY <1>1, <1>5, <1>7, <1>8, <1>9 DEF TypeOK
<1>11. OwnedOnce'
  BY <1>1, <1>5, <1>9, SameOwners
<1> QED
  BY <1>7, <1>10, <1>11 DEF TcpInv

\* A command that cannot be carried out changes no owner.
LEMMA CmdFailsStep ==
    ASSUME TcpInv, CmdFails
    PROVE  TcpInv'
<1>1. TypeOK /\ TaskStage /\ OwnedOnce
  BY DEF TcpInv
<1>2. PICK type : TakeCmd(type)
  BY DEF CmdFails
<1>3. UNCHANGED <<ports, unacked, unacked_slots, task, reused>>
  BY DEF CmdFails, tables
<1>4. /\ port_cmd_queue' \in Seq(Cmd)
      /\ tcp_task_queue_set' \in Seq({"send", "input", "cmd"})
      /\ UNCHANGED <<send_queue, input_queue, ipv4_queue, call, heap>>
  BY <1>1, <1>2, TakeCmdType
<1>5. TypeOK' /\ TaskStage'
  BY <1>1, <1>3, <1>4 DEF TypeOK, TaskStage
<1>6. OwnedOnce'
  BY <1>1, <1>3, <1>4, SameOwners
<1> QED
  BY <1>5, <1>6 DEF TcpInv

-----------------------------------------------------------------------------
(* tcp_task: the scan for timeouts.                                        *)

\* The timeout scan begins.
LEMMA ScanBeginStep ==
    ASSUME TcpInv, NEW due \in SUBSET Timers, ScanBegin(due)
    PROVE  TcpInv'
<1>1. TypeOK /\ TaskStage /\ OwnedOnce
  BY DEF TcpInv
<1>2. /\ UNCHANGED <<ports, unacked, unacked_slots, send_queue, input_queue>>
      /\ UNCHANGED <<port_cmd_queue, tcp_task_queue_set, ipv4_queue, call, heap, reused>>
      /\ task' = [task EXCEPT !.pc = "scan", !.due = due]
  BY DEF ScanBegin, tables, queues
<1>3. Timers \subseteq PortIdx \X (0 .. MAX_UNACKED)
  <2>1. 0 \in 0 .. MAX_UNACKED /\ SlotIdx \subseteq 0 .. MAX_UNACKED
    BY TcpConstants DEF SlotIdx
  <2>2. \A p \in PortIdx : <<p, 0>> \in PortIdx \X (0 .. MAX_UNACKED)
    BY <2>1
  <2>3. PortIdx \X SlotIdx \subseteq PortIdx \X (0 .. MAX_UNACKED)
    BY <2>1
  <2> QED
    BY <2>2, <2>3 DEF Timers
<1>4. task' \in Task /\ TaskStage'
  <2>1. task \in Task /\ task.item.data = NULL
    BY <1>1 DEF TypeOK, TaskStage
  <2>2. due \in SUBSET (PortIdx \X (0 .. MAX_UNACKED))
    BY <1>3
  <2>3. task' \in Task /\ task'.pc = "scan" /\ task'.item = task.item
    BY <1>2, <2>1, <2>2 DEF Task
  <2> QED
    BY <2>1, <2>3 DEF TaskStage
<1>5. TypeOK'
  BY <1>1, <1>2, <1>4 DEF TypeOK
<1>6. OwnedOnce'
  BY <1>1, <1>2, SameOwners
<1> QED
  BY <1>4, <1>5, <1>6 DEF TcpInv

\* The scan goes on with fewer timers, or ends.
LEMMA ScannedType ==
    ASSUME TypeOK, TaskStage, NEW done, Scanned(done), task.pc = "scan"
    PROVE  task' \in Task /\ TaskStage'
<1>1. task \in Task /\ task.due \in SUBSET (PortIdx \X (0 .. MAX_UNACKED))
  BY TaskType
<1>2. CASE task' = Selecting
  BY <1>2, Values DEF TaskStage
<1>3. CASE task' = [task EXCEPT !.due = task.due \ done]
  <2>1. task.due \ done \in SUBSET (PortIdx \X (0 .. MAX_UNACKED))
    BY <1>1
  <2>2. task' \in Task /\ task'.pc = "scan" /\ task'.item = task.item
    BY <1>1, <1>3, <2>1 DEF Task
  <2> QED
    BY <2>2 DEF TaskStage
<1> QED
  BY <1>2, <1>3 DEF Scanned

\* A port leaves TIME_WAIT by a reset, which frees what its entries hold.
LEMMA ScanTimeWaitStep ==
    ASSUME TcpInv, NEW p \in PortIdx, ScanTimeWait(p)
    PROVE  TcpInv'
<1>1. TypeOK /\ TaskStage /\ OwnedOnce /\ ResetPort(p) /\ task.pc = "scan"
  BY DEF TcpInv, ScanTimeWait, ScanAt
<1>2. /\ UNCHANGED <<send_queue, input_queue, port_cmd_queue, tcp_task_queue_set>>
      /\ UNCHANGED <<ipv4_queue, reused>>
  BY DEF ScanTimeWait, queues
<1>3. PICK done : done = {p} \X (0 .. MAX_UNACKED)
  OBVIOUS
<1>4. Scanned(done)
  BY <1>3 DEF ScanTimeWait
<1>5. task' \in Task /\ TaskStage'
  BY <1>1, <1>4, ScannedType
<1>6. TypeOK'
  BY <1>1, <1>2, <1>5, ResetPortType DEF TypeOK
<1>7. OwnedOnce'
  BY <1>1, <1>2, ResetPortOwners
<1> QED
  BY <1>5, <1>6, <1>7 DEF TcpInv

\* A retransmission leaves the payload in its entry.
LEMMA ScanRetransmitStep ==
    ASSUME TcpInv, NEW p \in PortIdx, NEW i \in SlotIdx, ScanRetransmit(p, i)
    PROVE  TcpInv'
<1>1. TypeOK /\ TaskStage /\ OwnedOnce /\ task.pc = "scan"
  BY DEF TcpInv, ScanRetransmit, ScanAt
<1>2. /\ UNCHANGED <<ports, unacked, unacked_slots, send_queue, input_queue>>
      /\ UNCHANGED <<port_cmd_queue, tcp_task_queue_set, call, heap, reused>>
      /\ Scanned({<<p, i>>}) /\ ~ Ipv4Full /\ ipv4_queue' = ipv4_queue + 1
  BY DEF ScanRetransmit, tables, queues
<1>3. ipv4_queue' \in 0 .. IPV4_QUEUE_LEN
  BY <1>1, <1>2, Ipv4Type
<1>4. task' \in Task /\ TaskStage'
  BY <1>1, <1>2, ScannedType
<1>5. TypeOK'
  BY <1>1, <1>2, <1>3, <1>4 DEF TypeOK
<1>6. OwnedOnce'
  BY <1>1, <1>2, SameOwners
<1> QED
  BY <1>4, <1>5, <1>6 DEF TcpInv

\* A retransmission that fails forgets the payload, and frees it at most once.
LEMMA ScanDropStep ==
    ASSUME TcpInv, NEW p \in PortIdx, NEW i \in SlotIdx, ScanDrop(p, i)
    PROVE  TcpInv'
<1>1. TypeOK /\ TaskStage /\ OwnedOnce /\ task.pc = "scan"
  BY DEF TcpInv, ScanDrop, ScanAt
<1>2. /\ UNCHANGED <<ports, send_queue, input_queue, port_cmd_queue>>
      /\ UNCHANGED <<tcp_task_queue_set, ipv4_queue, call, reused>>
      /\ Scanned({<<p, i>>})
  BY DEF ScanDrop, queues
<1>3. /\ unacked' = [unacked EXCEPT ![p][i] = Free]
      /\ unacked_slots' = [unacked_slots EXCEPT ![p] = Given(@)]
      /\ heap' \in {heap, heap \ {unacked[p][i].data}}
  BY DEF ScanDrop
<1>4. /\ unacked \in [PortIdx -> [SlotIdx -> Unacked]]
      /\ unacked_slots \in [PortIdx -> 0 .. MAX_UNACKED]
  BY <1>1 DEF TypeOK
<1>5. unacked' \in [PortIdx -> [SlotIdx -> Unacked]]
  <2>1. [unacked[p] EXCEPT ![i] = Free] \in [SlotIdx -> Unacked]
    BY <1>4, Values
  <2> QED
    BY <1>3, <1>4, <2>1
<1>6. unacked_slots' \in [PortIdx -> 0 .. MAX_UNACKED]
  <2>1. Given(unacked_slots[p]) \in 0 .. MAX_UNACKED
    BY <1>4, GivenType
  <2> QED
    BY <1>3, <1>4, <2>1
<1>7. heap' \in SUBSET Blocks
  BY <1>1, <1>3 DEF TypeOK
<1>8. task' \in Task /\ TaskStage'
  BY <1>1, <1>2, ScannedType
<1>9. TypeOK'
  BY <1>1, <1>2, <1>5, <1>6, <1>7, <1>8 DEF TypeOK
<1>10. \A q \in PortIdx, j \in SlotIdx :
          unacked'[q][j].data = IF q = p /\ j = i THEN NULL ELSE unacked[q][j].data
  BY <1>3, <1>4, Values
<1>11. OwnedOnce'
  <2>1. \A c \in Apps : call'[c].item.data \in heap' \cup {NULL}
    BY <1>1, <1>2, <1>3 DEF OwnedOnce
  <2>2. \A k \in 1 .. Len(send_queue) : send_queue[k].data \in heap' \cup {NULL}
    BY <1>1, <1>3 DEF OwnedOnce
  <2>3. \A q \in PortIdx, j \in SlotIdx : unacked'[q][j].data \in heap' \cup {NULL}
    BY <1>1, <1>3, <1>10 DEF OwnedOnce
  <2>4. /\ \A c \in Apps : call'[c].item.data \in {call[c].item.data, NULL}
        /\ \A q \in PortIdx, j \in SlotIdx :
              unacked'[q][j].data \in {unacked[q][j].data, NULL}
    BY <1>2, <1>10
  <2> QED
    BY <1>1, <1>2, <2>1, <2>2, <2>3, <2>4, LetGoStep
<1> QED
  BY <1>8, <1>9, <1>11 DEF TcpInv

-----------------------------------------------------------------------------

\* TcpInv holds with an empty port table and empty queues.
LEMMA TcpInitial ==
    ASSUME Init
    PROVE  TcpInv
<1>1. ports \in [PortIdx -> Port]
  <2>1. 0 \in SeqNums
    BY TcpConstants DEF SeqNums
  <2>2. [self |-> 0, other |-> NoPeer, state |-> "CLOSED", ack_num |-> 0, seq_num |-> 0]
           \in Port
    BY <2>1 DEF Port, Others, States
  <2> QED
    BY <2>2 DEF Init
<1>2. unacked \in [PortIdx -> [SlotIdx -> Unacked]]
  BY Values DEF Init
<1>3. unacked_slots \in [PortIdx -> 0 .. MAX_UNACKED] /\ ipv4_queue \in 0 .. IPV4_QUEUE_LEN
  BY TcpConstants DEF Init
<1>4. /\ send_queue \in Seq(Params) /\ input_queue \in Seq(Segments)
      /\ port_cmd_queue \in Seq(Cmd)
      /\ tcp_task_queue_set \in Seq({"send", "input", "cmd"})
  BY DEF Init
<1>5. task \in Task /\ TaskStage /\ call \in [Apps -> Call]
  BY Values DEF Init, TaskStage
<1>6. TypeOK
  BY <1>1, <1>2, <1>3, <1>4, <1>5 DEF Init, TypeOK
<1>7. OwnedOnce
  <2>1. /\ \A c \in Apps : call[c].item.data = NULL
        /\ \A p \in PortIdx, i \in SlotIdx : unacked[p][i].data = NULL
        /\ Len(send_queue) = 0
    BY Values DEF Init
  <2>2. ~ \E k : k \in 1 .. Len(send_queue)
    BY <2>1
  <2> QED
    BY <2>1, <2>2 DEF OwnedOnce
<1> QED
  BY <1>5, <1>6, <1>7 DEF TcpInv

\* Every step keeps TcpInv.
LEMMA TcpStep ==
    ASSUME TcpInv, [Next]_vars
    PROVE  TcpInv'
<1>1. CASE Environment
  BY <1>1, TcpSendStep, InputTcpStep, PortCmdStep DEF Environment
<1>2. ASSUME NEW c \in Apps, CallReturning(c) \/ TakeDeleted(c)
      PROVE  TcpInv'
  BY <1>2, SendParamsStep, TakeSlotStep, TakeTimeoutStep, CheckClosedStep,
     EnqueueSegmentStep, EnqueueFullStep, TakeDeletedStep DEF CallReturning
<1>3. CASE TaskReceive
  BY <1>3, InputDiscardStep, InputResetStep, InputProcessStep, InputAckStep,
     SwitchListenStep, SwitchEstablishStep, SwitchFinStep, DeliverStep,
     SwitchLastAckStep, SwitchFinWaitStep, SwitchFinAckedStep, SwitchNoneStep
     DEF TaskReceive
<1>4. CASE TcpTask
  BY <1>3, <1>4, SendDroppedStep, SendReliableStep, SendPlainStep, EnqueueReliableStep,
     CmdListenStep, CmdConnectStep, CmdCloseStep, CmdFailsStep, ScanTimeWaitStep,
     ScanRetransmitStep, ScanDropStep DEF TcpTask
<1>5. CASE \E due \in SUBSET Timers : ScanBegin(due)
  BY <1>5, ScanBeginStep
<1>6. CASE Ipv4Drain
  BY <1>6, Ipv4DrainStep
<1>7. CASE UNCHANGED vars
  BY <1>7 DEF TcpInv, TypeOK, TaskStage, OwnedOnce, vars, tables, queues
<1> QED
  BY <1>1, <1>2, <1>4, <1>5, <1>6, <1>7 DEF Next, System

\* TcpInv holds in every behaviour.
LEMMA TcpInvariant == Spec => []TcpInv
<1>1. Init => TcpInv
  BY TcpInitial
<1>2. TcpInv /\ [Next]_vars => TcpInv'
  BY TcpStep
<1> QED
  BY <1>1, <1>2, PTL DEF Spec

\* The port table, the semaphores, the queues and the tasks inside the TCP
\* layer keep their types: no semaphore exceeds MAX_UNACKED however often a
\* slot is given back, and every sequence number fits its width.
THEOREM TcpTypeCorrect == Spec => []TypeOK
<1>1. TcpInv => TypeOK
  BY DEF TcpInv
<1> QED
  BY <1>1, TcpInvariant, PTL

\* A payload given to tcp_send is owned by one call, one place of send_queue
\* or one retransmission entry at a time and is allocated while it is owned:
\* acknowledgements, resets, reallocated ports, failing retransmissions and
\* the error paths of tcp_send never free it twice nor use it when freed.
THEOREM PayloadOwnedOnce == Spec => []OwnedOnce
<1>1. TcpInv => OwnedOnce
  BY DEF TcpInv
<1> QED
  BY <1>1, TcpInvariant, PTL
=============================================================================
