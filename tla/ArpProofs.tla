----------------------------- MODULE ArpProofs -----------------------------
(***************************************************************************)
(* Proofs about arp.c, for every number of tasks, addresses, table entries *)
(* and queue places:                                                       *)
(*   TypeCorrect        every variable keeps its type;                     *)
(*   WakeUpsExact       no wake-up is lost and none is given twice;        *)
(*   PendingTableSound  arp_pending_tasks is not overrun, one entry per IP; *)
(*   CacheCorrect       ip_mac_cache holds announced pairs, one per IP;    *)
(*   ArpImplementsResolver  a task is woken once for each call.            *)
(***************************************************************************)
EXTENDS ArpResolver, StackLemmas, SequenceTheorems

USE ArpConstants

\* The entry at which the cache scans of add_ip_mac_cache_entry and
\* arp_get_cached_mac_addr stop is a match.
LEMMA FirstCached ==
    ASSUME NEW ip, CachedAt(ip) # {}
    PROVE  Min(CachedAt(ip)) \in CachedAt(ip) /\ Min(CachedAt(ip)) \in CacheIdx
<1>1. CachedAt(ip) \in SUBSET CacheIdx /\ CachedAt(ip) \in SUBSET Nat
  BY DEF CachedAt, CacheIdx
<1> QED
  BY <1>1, MinInSet

\* The entry find_pending returns is in use and has the IP.
LEMMA FirstPending ==
    ASSUME NEW pending, NEW ip, FindPending(pending, ip) # {}
    PROVE  /\ Min(FindPending(pending, ip)) \in FindPending(pending, ip)
           /\ Min(FindPending(pending, ip)) \in PendingIdx
<1>1. /\ FindPending(pending, ip) \in SUBSET PendingIdx
      /\ FindPending(pending, ip) \in SUBSET Nat
  BY DEF FindPending, PendingIdx
<1> QED
  BY <1>1, MinInSet

\* The entry alloc_pending takes is free.
LEMMA FirstFree ==
    ASSUME NEW pending, FreePending(pending) # {}
    PROVE  /\ Min(FreePending(pending)) \in FreePending(pending)
           /\ Min(FreePending(pending)) \in PendingIdx
<1>1. /\ FreePending(pending) \in SUBSET PendingIdx
      /\ FreePending(pending) \in SUBSET Nat
  BY DEF FreePending, PendingIdx
<1> QED
  BY <1>1, MinInSet

\* The clean-up of arp_task keeps the type of the table and notifies tasks.
LEMMA CleanedType ==
    ASSUME TypeOK
    PROVE  /\ Cleaned \in [PendingIdx -> Pending]
           /\ TimedOut \subseteq Tasks
<1>1. \A i \in PendingIdx : Waiters(i) \subseteq Tasks
  <2> SUFFICES ASSUME NEW i \in PendingIdx, NEW k \in 1 .. Len(arp_pending_tasks[i].waiting)
               PROVE  arp_pending_tasks[i].waiting[k] \in Tasks
    BY DEF Waiters
  <2>1. arp_pending_tasks[i].waiting \in Seq(Tasks)
    BY DEF TypeOK, Pending
  <2> QED
    BY <2>1, ElementOfSeq
<1>2. TimedOut \subseteq Tasks
  BY <1>1 DEF TimedOut, Expired
<1>3. Cleaned \in [PendingIdx -> Pending]
  BY EmptySeq DEF Cleaned, TypeOK, Pending
<1> QED
  BY <1>2, <1>3

\* The zeroed tables and empty queues of arp_init have their types.
LEMMA TypeInit == Init => TypeOK
  BY EmptySeq DEF Init, TypeOK, Caller, Entry, Pending, Worker, Idle, ZeroEntry, PendingIdx, CacheIdx

\* Every step of arp_task, of a caller and of the receive callback keeps the
\* types; the array indices it computes stay in their arrays.
LEMMA TypeNext == TypeOK /\ [Next]_vars => TypeOK'
<1> SUFFICES ASSUME TypeOK, [Next]_vars
             PROVE  TypeOK'
  OBVIOUS
<1> USE DEF TypeOK
<1>1. ASSUME NEW t \in Tasks, NEW ip \in IPs, ArpGetMacAddr(t, ip)
      PROVE  TypeOK'
  BY <1>1 DEF ArpGetMacAddr, Caller, CacheIdx
<1>2. ASSUME NEW t \in Tasks, SendRequest(t)
      PROVE  TypeOK'
  <2>1. [ip |-> caller[t].ip, task |-> t] \in Request
    BY DEF Request, Caller
  <2>2. arp_request_queue' \in Seq(Request) /\ arp_queue_set' \in Seq({"request", "input"})
    BY <1>2, <2>1, AppendProperties DEF SendRequest
  <2> QED
    BY <1>2, <2>2 DEF SendRequest, Caller
<1>3. ASSUME NEW t \in Tasks, CallerStep(t)
      PROVE  TypeOK'
  <2>1. CASE NotifyTake(t)
    BY <2>1 DEF NotifyTake, Caller
  <2>2. CASE Lookup(t)
    <3>1. CachedAt(caller[t].ip) # {} => Min(CachedAt(caller[t].ip)) \in CacheIdx
      BY FirstCached
    <3>2. caller[t] \in Caller
      OBVIOUS
    <3>3. CASE CachedAt(caller[t].ip) = {}
      <4>1. [caller[t] EXCEPT !.pc = "idle"] \in Caller
        BY <3>2 DEF Caller
      <4> QED
        BY <2>2, <3>3, <4>1 DEF Lookup
    <3>4. CASE CachedAt(caller[t].ip) # {}
      <4>1. [caller[t] EXCEPT !.pc = "copy", !.idx = Min(CachedAt(caller[t].ip))]
              \in Caller
        BY <3>1, <3>2, <3>4 DEF Caller
      <4> QED
        BY <2>2, <3>4, <4>1 DEF Lookup
    <3> QED
      BY <3>3, <3>4
  <2>3. CASE Copy(t)
    <3>1. ip_mac_cache[caller[t].idx].mac \in MACs
      BY DEF Caller, Entry
    <3>2. caller[t] \in Caller /\ 1 \in CacheIdx
      BY DEF CacheIdx
    <3>3. [caller[t] EXCEPT !.pc = "idle", !.idx = 1,
                            !.mac = ip_mac_cache[caller[t].idx].mac] \in Caller
      BY <3>1, <3>2 DEF Caller
    <3> QED
      BY <2>3, <3>3 DEF Copy
  <2> QED
    BY <1>3, <2>1, <2>2, <2>3 DEF CallerStep
<1>4. ASSUME NEW reply \in Replies, ArpInput([ip |-> reply[1], mac |-> reply[2]])
      PROVE  TypeOK'
  <2>1. [ip |-> reply[1], mac |-> reply[2]] \in Entry
    BY DEF Entry
  <2>2. arp_input_queue' \in Seq(Entry) /\ arp_queue_set' \in Seq({"request", "input"})
    BY <1>4, <2>1, AppendProperties DEF ArpInput
  <2> QED
    BY <1>4, <2>2 DEF ArpInput
<1>5. ASSUME ArpTask PROVE TypeOK'
  <2>1. CASE TaskTimeout
    BY <2>1, CleanedType DEF TaskTimeout
  <2>2. ASSUME TakeRequest
        PROVE  /\ arp_queue_set' \in Seq({"request", "input"})
               /\ arp_request_queue' \in Seq(Request)
               /\ Head(arp_request_queue) \in Request
    BY <2>2, HeadTailProperties DEF TakeRequest, Selected
  <2>3. CASE RequestJoins
    <3> DEFINE req == Head(arp_request_queue)
               found == FindPending(Cleaned, req.ip)
    <3>1. req \in Request /\ found # {} /\ TakeRequest
      BY <2>2, <2>3 DEF RequestJoins
    <3>2. Min(found) \in PendingIdx
      BY <3>1, FirstPending
    <3>3. Append(Cleaned[Min(found)].waiting, req.task) \in Seq(Tasks)
      BY <3>1, <3>2, CleanedType, AppendProperties DEF Pending, Request
    <3>4. arp_pending_tasks' \in [PendingIdx -> Pending]
      BY <2>3, <3>2, <3>3, CleanedType DEF RequestJoins, Pending
    <3> QED
      BY <2>2, <2>3, <3>1, <3>4, CleanedType DEF RequestJoins, TakeRequest
  <2>4. CASE RequestStarts
    <3> DEFINE req == Head(arp_request_queue)
               free == FreePending(Cleaned)
    <3>1. req \in Request /\ free # {} /\ TakeRequest
      BY <2>2, <2>4 DEF RequestStarts
    <3>2. Min(free) \in PendingIdx
      BY <3>1, FirstFree
    <3>3. <<req.task>> \in Seq(Tasks)
      BY <3>1 DEF Request
    <3>4. arp_pending_tasks' \in [PendingIdx -> Pending]
      BY <2>4, <3>1, <3>2, <3>3, CleanedType DEF RequestStarts, Pending, Request
    <3> QED
      BY <2>2, <2>4, <3>1, <3>4, CleanedType DEF RequestStarts, TakeRequest
  <2>5. CASE RequestRefused
    <3> DEFINE req == Head(arp_request_queue)
               free == FreePending(Cleaned)
    <3>1. req \in Request /\ TakeRequest
      BY <2>2, <2>5 DEF RequestRefused
    <3>2. free # {} => Min(free) \in PendingIdx
      BY FirstFree
    <3>3. [ip |-> req.ip, waiting |-> << >>, ttl |-> ARP_TIMEOUT_TICKS] \in Pending
      BY <3>1, EmptySeq DEF Pending, Request
    <3>4. arp_pending_tasks' \in [PendingIdx -> Pending]
      BY <2>5, <3>2, <3>3, CleanedType DEF RequestRefused
    <3>5. notified' \subseteq Tasks
      BY <2>5, <3>1, CleanedType DEF RequestRefused, Request
    <3> QED
      BY <2>2, <2>5, <3>1, <3>4, <3>5 DEF RequestRefused, TakeRequest
  <2>6. CASE CacheBegin
    <3> DEFINE entry == Head(arp_input_queue)
    <3>1. /\ entry \in Entry /\ arp_input_queue' \in Seq(Entry)
          /\ arp_queue_set' \in Seq({"request", "input"})
      BY <2>6, HeadTailProperties DEF CacheBegin, Selected
    <3>2. CachedAt(entry.ip) # {} => Min(CachedAt(entry.ip)) \in CacheIdx
      BY FirstCached
    <3>3. NextTop \in CacheIdx
      BY DEF NextTop, CacheIdx
    <3>4. worker' \in Worker
      BY <2>6, <3>1, <3>2 DEF CacheBegin, Worker
    <3>5. ip_mac_cache' \in [CacheIdx -> Entry] /\ ip_mac_cache_top' \in CacheIdx
      <4>1. /\ entry.ip \in IPs
            /\ \A i \in CacheIdx : [ip_mac_cache[i] EXCEPT !.ip = entry.ip] \in Entry
        BY <3>1 DEF Entry
      <4> QED
        BY <2>6, <3>3, <4>1 DEF CacheBegin
    <3> QED
      BY <2>6, <3>1, <3>4, <3>5, CleanedType DEF CacheBegin
  <2>7. CASE CacheEnd
    <3> DEFINE found == FindPending(arp_pending_tasks, worker.entry.ip)
    <3>1. found # {} => Min(found) \in PendingIdx
      BY FirstPending
    <3>2. arp_pending_tasks' \in [PendingIdx -> Pending]
      <4>1. CASE found = {}
        BY <2>7, <4>1 DEF CacheEnd
      <4>2. CASE found # {}
        <5>1. arp_pending_tasks' =
                [arp_pending_tasks EXCEPT ![Min(found)].waiting = << >>]
          BY <2>7, <4>2 DEF CacheEnd
        <5>2. << >> \in Seq(Tasks)
          BY EmptySeq
        <5> QED
          BY <5>1, <5>2 DEF Pending
      <4> QED
        BY <4>1, <4>2
    <3>3. found # {} => Waiters(Min(found)) \subseteq Tasks
      <4> SUFFICES ASSUME found # {},
                          NEW k \in 1 .. Len(arp_pending_tasks[Min(found)].waiting)
                   PROVE  arp_pending_tasks[Min(found)].waiting[k] \in Tasks
        BY DEF Waiters
      <4> QED
        BY <3>1, ElementOfSeq DEF Pending
    <3>4. notified' \subseteq Tasks
      BY <2>7, <3>3 DEF CacheEnd
    <3>5. worker' \in Worker
      BY <2>7 DEF CacheEnd, Worker, Idle, ZeroEntry, Entry, CacheIdx
    <3>6. ip_mac_cache' \in [CacheIdx -> Entry]
      BY <2>7 DEF CacheEnd, MacWritten, Worker, Entry
    <3> QED
      BY <2>7, <3>2, <3>4, <3>5, <3>6 DEF CacheEnd
  <2> QED
    BY <1>5, <2>1, <2>3, <2>4, <2>5, <2>6, <2>7 DEF ArpTask
<1>6. ASSUME Tick PROVE TypeOK'
  <2>1. ASSUME NEW i \in PendingIdx
        PROVE  arp_pending_tasks[i].ttl > 0 =>
                 [arp_pending_tasks[i] EXCEPT !.ttl = @ - 1] \in Pending
    <3>1. arp_pending_tasks[i] \in Pending
      OBVIOUS
    <3>2. /\ arp_pending_tasks[i].ttl \in 0 .. ARP_TIMEOUT_TICKS
          /\ arp_pending_tasks[i].ttl > 0
            => arp_pending_tasks[i].ttl - 1 \in 0 .. ARP_TIMEOUT_TICKS
      BY <3>1 DEF Pending
    <3> QED
      BY <3>1, <3>2 DEF Pending
  <2>2. arp_pending_tasks' \in [PendingIdx -> Pending]
    BY <1>6, <2>1 DEF Tick
  <2> QED
    BY <1>6, <2>2 DEF Tick
<1>7. CASE UNCHANGED vars
  BY <1>7 DEF vars
<1> QED
  BY <1>1, <1>2, <1>3, <1>4, <1>5, <1>6, <1>7 DEF Next

\* arp.c keeps the type of all it owns: ip_mac_cache_top and every index that
\* a scan returns name an entry, and only tasks are parked and notified.
THEOREM TypeCorrect == Spec => []TypeOK
  BY TypeInit, TypeNext, PTL DEF Spec

-----------------------------------------------------------------------------
(* No lost and no duplicate wake-ups.  The argument is about where a task   *)
(* is - queued, parked, notified - so the lemmas say how each update of the *)
(* queue and of the pending table changes these three places.              *)

ParkedIn(f, t) == \E i \in PendingIdx : \E k \in 1 .. Len(f[i].waiting) :
                     f[i].waiting[k] = t

OnceIn(f) ==
    \A i1, i2 \in PendingIdx :
       \A k1 \in 1 .. Len(f[i1].waiting), k2 \in 1 .. Len(f[i2].waiting) :
          f[i1].waiting[k1] = f[i2].waiting[k2] => i1 = i2 /\ k1 = k2

\* u waits in one of the entries X of f.
AmongIn(f, X, u) == \E i \in X : \E k \in 1 .. Len(f[i].waiting) :
                       f[i].waiting[k] = u

\* The three ways a step changes the lists of waiters: it empties those of the
\* entries X, adds task t to that of entry i, or leaves them alone.
Clears(f, g, X) == \A i \in PendingIdx :
                      g[i].waiting = IF i \in X THEN << >> ELSE f[i].waiting
Parks(f, g, i, t) == /\ g[i].waiting = Append(f[i].waiting, t)
                     /\ \A j \in PendingIdx \ {i} : g[j].waiting = f[j].waiting
Keeps(f, g) == \A i \in PendingIdx : g[i].waiting = f[i].waiting

QueuedIn(q, t) == \E k \in 1 .. Len(q) : q[k].task = t

QueueOnce(q) == \A j, k \in 1 .. Len(q) : q[j].task = q[k].task => j = k

\* Appending a request of a task that has none queues exactly that task.
LEMMA QueueAppend ==
    ASSUME NEW q \in Seq(Request), NEW r \in Request, QueueOnce(q),
           ~ QueuedIn(q, r.task)
    PROVE  /\ QueueOnce(Append(q, r))
           /\ \A u : QueuedIn(Append(q, r), u) <=> QueuedIn(q, u) \/ u = r.task
<1>1. /\ Len(Append(q, r)) = Len(q) + 1 /\ Len(q) \in Nat
      /\ \A i \in 1 .. Len(q) : Append(q, r)[i] = q[i]
      /\ Append(q, r)[Len(q) + 1] = r
  BY AppendProperties, LenProperties
<1>2. \A i \in 1 .. Len(q) + 1 : i \in 1 .. Len(q) \/ i = Len(q) + 1
  BY <1>1
<1>3. QueueOnce(Append(q, r))
  BY <1>1, <1>2 DEF QueueOnce, QueuedIn
<1>4. ASSUME NEW u
      PROVE  QueuedIn(Append(q, r), u) <=> QueuedIn(q, u) \/ u = r.task
  <2>1. QueuedIn(Append(q, r), u) => QueuedIn(q, u) \/ u = r.task
    BY <1>1, <1>2 DEF QueuedIn
  <2>2. QueuedIn(q, u) => QueuedIn(Append(q, r), u)
    BY <1>1 DEF QueuedIn
  <2>3. u = r.task => QueuedIn(Append(q, r), u)
    BY <1>1 DEF QueuedIn
  <2> QED
    BY <2>1, <2>2, <2>3
<1> QED
  BY <1>3, <1>4

\* Taking the first request unqueues exactly its task.
LEMMA QueueTail ==
    ASSUME NEW q \in Seq(Request), q # << >>, QueueOnce(q)
    PROVE  /\ QueueOnce(Tail(q))
           /\ QueuedIn(q, Head(q).task)
           /\ \A u : QueuedIn(Tail(q), u) <=> QueuedIn(q, u) /\ u # Head(q).task
<1>1. /\ Len(Tail(q)) = Len(q) - 1 /\ Len(q) \in Nat \ {0}
      /\ \A i \in 1 .. Len(q) - 1 : Tail(q)[i] = q[i + 1]
      /\ Head(q) = q[1]
  BY HeadTailProperties, LenProperties, EmptySeq
<1>2. QueueOnce(Tail(q))
  <2> SUFFICES ASSUME NEW j \in 1 .. Len(q) - 1, NEW k \in 1 .. Len(q) - 1,
                      Tail(q)[j].task = Tail(q)[k].task
               PROVE  j = k
    BY <1>1 DEF QueueOnce
  <2>1. j + 1 \in 1 .. Len(q) /\ k + 1 \in 1 .. Len(q)
    BY <1>1
  <2>2. j + 1 = k + 1
    BY <1>1, <2>1 DEF QueueOnce
  <2> QED
    BY <2>2
<1>3. QueuedIn(q, Head(q).task)
  BY <1>1 DEF QueuedIn
<1>4. ASSUME NEW u
      PROVE  QueuedIn(Tail(q), u) <=> QueuedIn(q, u) /\ u # Head(q).task
  <2>1. ASSUME QueuedIn(Tail(q), u)
        PROVE  QueuedIn(q, u) /\ u # Head(q).task
    <3>1. PICK k \in 1 .. Len(q) - 1 : q[k + 1].task = u
      BY <1>1, <2>1 DEF QueuedIn
    <3>2. k + 1 \in 1 .. Len(q) /\ 1 \in 1 .. Len(q) /\ k + 1 # 1
      BY <1>1
    <3> QED
      BY <1>1, <3>1, <3>2 DEF QueuedIn, QueueOnce
  <2>2. ASSUME QueuedIn(q, u), u # Head(q).task
        PROVE  QueuedIn(Tail(q), u)
    <3>1. PICK k \in 1 .. Len(q) : q[k].task = u
      BY <2>2 DEF QueuedIn
    <3>2. k # 1
      BY <1>1, <2>2, <3>1
    <3>3. k - 1 \in 1 .. Len(q) - 1 /\ (k - 1) + 1 = k
      BY <1>1, <3>2
    <3>4. Tail(q)[k - 1] = q[k]
      BY <1>1, <3>3
    <3> QED
      BY <1>1, <3>1, <3>3, <3>4 DEF QueuedIn
  <2> QED
    BY <2>1, <2>2
<1> QED
  BY <1>2, <1>3, <1>4

\* Emptying some entries of the table unparks exactly their tasks.
LEMMA ClearEntries ==
    ASSUME NEW f, NEW g, NEW X \in SUBSET PendingIdx, OnceIn(f), Clears(f, g, X)
    PROVE  /\ OnceIn(g)
           /\ \A u : ParkedIn(g, u) <=> ParkedIn(f, u) /\ ~ AmongIn(f, X, u)
<1>1. Len(<< >>) = 0
  BY EmptySeq
<1>2. \A i \in PendingIdx : \A k \in 1 .. Len(g[i].waiting) :
         i \notin X /\ g[i].waiting = f[i].waiting
  BY <1>1 DEF Clears
<1>3. OnceIn(g)
  <2> SUFFICES ASSUME NEW i1 \in PendingIdx, NEW i2 \in PendingIdx,
                      NEW k1 \in 1 .. Len(g[i1].waiting),
                      NEW k2 \in 1 .. Len(g[i2].waiting),
                      g[i1].waiting[k1] = g[i2].waiting[k2]
               PROVE  i1 = i2 /\ k1 = k2
    BY DEF OnceIn
  <2>1. g[i1].waiting = f[i1].waiting /\ g[i2].waiting = f[i2].waiting
    BY <1>2
  <2> QED
    BY <2>1 DEF OnceIn
<1>4. ASSUME NEW u, ParkedIn(g, u)
      PROVE  ParkedIn(f, u) /\ ~ AmongIn(f, X, u)
  <2>1. PICK i \in PendingIdx : \E k \in 1 .. Len(g[i].waiting) : g[i].waiting[k] = u
    BY <1>4 DEF ParkedIn
  <2>2. PICK k \in 1 .. Len(g[i].waiting) : g[i].waiting[k] = u
    BY <2>1
  <2>3. i \notin X /\ k \in 1 .. Len(f[i].waiting) /\ f[i].waiting[k] = u
    BY <1>2, <2>2
  <2>4. ASSUME NEW j \in X, NEW l \in 1 .. Len(f[j].waiting), f[j].waiting[l] = u
        PROVE  FALSE
    <3>1. i = j
      BY <2>3, <2>4 DEF OnceIn
    <3> QED
      BY <2>3, <3>1
  <2> QED
    BY <2>3, <2>4 DEF ParkedIn, AmongIn
<1>5. ASSUME NEW u, ParkedIn(f, u), ~ AmongIn(f, X, u)
      PROVE  ParkedIn(g, u)
  BY <1>5 DEF ParkedIn, AmongIn, Clears
<1> QED
  BY <1>3, <1>4, <1>5

\* Parking a task that is not parked yet parks exactly that task.
LEMMA ParkOne ==
    ASSUME NEW f \in [PendingIdx -> Pending], NEW g, NEW i \in PendingIdx,
           NEW t \in Tasks, OnceIn(f), ~ ParkedIn(f, t), Parks(f, g, i, t)
    PROVE  /\ OnceIn(g)
           /\ \A u : ParkedIn(g, u) <=> ParkedIn(f, u) \/ u = t
<1> DEFINE n == Len(f[i].waiting)
<1>1. f[i].waiting \in Seq(Tasks) /\ n \in Nat
  BY LenProperties DEF Pending
<1>2. /\ Len(g[i].waiting) = n + 1
      /\ \A k \in 1 .. n : g[i].waiting[k] = f[i].waiting[k]
      /\ g[i].waiting[n + 1] = t
  BY <1>1, AppendProperties DEF Parks
<1>3. ASSUME NEW j \in PendingIdx, NEW k \in 1 .. Len(g[j].waiting)
      PROVE  \/ j = i /\ k = n + 1 /\ g[j].waiting[k] = t
             \/ /\ k \in 1 .. Len(f[j].waiting)
                /\ g[j].waiting[k] = f[j].waiting[k]
  <2>1. CASE j = i
    BY <1>1, <1>2, <2>1
  <2>2. CASE j # i
    BY <2>2 DEF Parks
  <2> QED
    BY <2>1, <2>2
<1>4. OnceIn(g)
  <2> SUFFICES ASSUME NEW i1 \in PendingIdx, NEW i2 \in PendingIdx,
                      NEW k1 \in 1 .. Len(g[i1].waiting),
                      NEW k2 \in 1 .. Len(g[i2].waiting),
                      g[i1].waiting[k1] = g[i2].waiting[k2]
               PROVE  i1 = i2 /\ k1 = k2
    BY DEF OnceIn
  <2> HIDE DEF n
  <2> DEFINE New(j, k) == j = i /\ k = n + 1 /\ g[j].waiting[k] = t
             Old(j, k) == /\ k \in 1 .. Len(f[j].waiting)
                          /\ g[j].waiting[k] = f[j].waiting[k]
  <2>1. (New(i1, k1) \/ Old(i1, k1)) /\ (New(i2, k2) \/ Old(i2, k2))
    BY <1>3
  <2>2. ~ (New(i1, k1) /\ Old(i2, k2)) /\ ~ (Old(i1, k1) /\ New(i2, k2))
    BY DEF ParkedIn
  <2>3. ASSUME Old(i1, k1), Old(i2, k2)
        PROVE  i1 = i2 /\ k1 = k2
    <3>1. f[i1].waiting[k1] = f[i2].waiting[k2]
      BY <2>3
    <3>2. k1 \in 1 .. Len(f[i1].waiting) /\ k2 \in 1 .. Len(f[i2].waiting)
      BY <2>3
    <3> QED
      BY <3>1, <3>2 DEF OnceIn
  <2>4. New(i1, k1) /\ New(i2, k2) => i1 = i2 /\ k1 = k2
    OBVIOUS
  <2> QED
    BY <2>1, <2>2, <2>3, <2>4
<1>5. ASSUME NEW u, ParkedIn(g, u)
      PROVE  ParkedIn(f, u) \/ u = t
  <2> HIDE DEF n
  <2> QED
    BY <1>3, <1>5 DEF ParkedIn
<1>6. ASSUME NEW u, ParkedIn(f, u)
      PROVE  ParkedIn(g, u)
  <2>1. PICK j \in PendingIdx : \E k \in 1 .. Len(f[j].waiting) : f[j].waiting[k] = u
    BY <1>6 DEF ParkedIn
  <2>2. PICK k \in 1 .. Len(f[j].waiting) : f[j].waiting[k] = u
    BY <2>1
  <2>3. k \in 1 .. Len(g[j].waiting) /\ g[j].waiting[k] = u
    <3>1. CASE j = i
      BY <1>1, <1>2, <2>2, <3>1
    <3>2. CASE j # i
      BY <2>2, <3>2 DEF Parks
    <3> QED
      BY <3>1, <3>2
  <2> QED
    BY <2>3 DEF ParkedIn
<1>7. ParkedIn(g, t)
  <2>1. n + 1 \in 1 .. Len(g[i].waiting)
    BY <1>1, <1>2
  <2> QED
    BY <1>2, <2>1 DEF ParkedIn
<1> QED
  BY <1>4, <1>5, <1>6, <1>7

\* A step that leaves every list of waiters alone parks and unparks nobody.
LEMMA SameWaiters ==
    ASSUME NEW f, NEW g, OnceIn(f), Keeps(f, g)
    PROVE  /\ OnceIn(g)
           /\ \A u : ParkedIn(g, u) <=> ParkedIn(f, u)
<1>1. OnceIn(g)
  <2> SUFFICES ASSUME NEW i1 \in PendingIdx, NEW i2 \in PendingIdx,
                      NEW k1 \in 1 .. Len(g[i1].waiting),
                      NEW k2 \in 1 .. Len(g[i2].waiting),
                      g[i1].waiting[k1] = g[i2].waiting[k2]
               PROVE  i1 = i2 /\ k1 = k2
    BY DEF OnceIn
  <2>1. g[i1].waiting = f[i1].waiting /\ g[i2].waiting = f[i2].waiting
    BY DEF Keeps
  <2> QED
    BY <2>1 DEF OnceIn
<1>2. ASSUME NEW u PROVE ParkedIn(g, u) <=> ParkedIn(f, u)
  BY DEF ParkedIn, Keeps
<1> QED
  BY <1>1, <1>2

\* The clean-up of arp_task unparks exactly the tasks that it notifies.
LEMMA CleanedParks ==
    ASSUME TypeOK, OnceIn(arp_pending_tasks)
    PROVE  /\ OnceIn(Cleaned)
           /\ \A u : ParkedIn(Cleaned, u)
                <=> ParkedIn(arp_pending_tasks, u) /\ u \notin TimedOut
           /\ \A u \in TimedOut : ParkedIn(arp_pending_tasks, u)
<1>1. Expired \in SUBSET PendingIdx
  BY DEF Expired
<1>2. Clears(arp_pending_tasks, Cleaned, Expired)
  <2> SUFFICES ASSUME NEW i \in PendingIdx
               PROVE  Cleaned[i].waiting =
                        IF i \in Expired THEN << >> ELSE arp_pending_tasks[i].waiting
    BY DEF Clears
  <2>1. arp_pending_tasks[i] \in Pending
    BY DEF TypeOK
  <2>2. [arp_pending_tasks[i] EXCEPT !.waiting = << >>].waiting = << >>
    BY <2>1 DEF Pending
  <2> QED
    BY <2>2 DEF Cleaned
<1>3. \A u : u \in TimedOut <=> AmongIn(arp_pending_tasks, Expired, u)
  BY DEF TimedOut, Waiters, AmongIn
<1>4. /\ OnceIn(Cleaned)
      /\ \A u : ParkedIn(Cleaned, u) <=> /\ ParkedIn(arp_pending_tasks, u)
                                         /\ ~ AmongIn(arp_pending_tasks, Expired, u)
  BY <1>1, <1>2, ClearEntries
<1>5. \A u : AmongIn(arp_pending_tasks, Expired, u) => ParkedIn(arp_pending_tasks, u)
  BY <1>1 DEF ParkedIn, AmongIn
<1> QED
  BY <1>3, <1>4, <1>5

-----------------------------------------------------------------------------
(* The inductive invariant.  WaiterAccounted alone is not inductive: taking *)
(* a request from the queue must leave no second one of the same task       *)
(* behind, and waking an entry's waiters must leave none of them parked in  *)
(* another entry, which is what WaiterOnce says.                            *)

WaiterInv == TypeOK /\ WaiterAccounted /\ WaiterOnce

\* WaiterAccounted and WaiterOnce, read with the operators of the lemmas.
Accounted(q, f, n, pcs) ==
    \A u \in Tasks :
        /\ pcs[u].pc = "wait" <=> QueuedIn(q, u) \/ ParkedIn(f, u) \/ u \in n
        /\ ~ (QueuedIn(q, u) /\ ParkedIn(f, u))
        /\ ~ (QueuedIn(q, u) /\ u \in n)
        /\ ~ (ParkedIn(f, u) /\ u \in n)

\* The invariants in the vocabulary of the lemmas, in a state and after a step.
LEMMA WaiterForm ==
    /\ WaiterAccounted
         <=> Accounted(arp_request_queue, arp_pending_tasks, notified, caller)
    /\ WaiterOnce <=> QueueOnce(arp_request_queue) /\ OnceIn(arp_pending_tasks)
<1>1. \A u : (InQueue(u) <=> QueuedIn(arp_request_queue, u))
             /\ (Parked(u) <=> ParkedIn(arp_pending_tasks, u))
  BY DEF InQueue, QueuedIn, Parked, ParkedIn
<1>2. WaiterAccounted
        <=> Accounted(arp_request_queue, arp_pending_tasks, notified, caller)
  BY <1>1 DEF WaiterAccounted, Accounted
<1>3. WaiterOnce <=> QueueOnce(arp_request_queue) /\ OnceIn(arp_pending_tasks)
  BY DEF WaiterOnce, QueueOnce, OnceIn
<1> QED
  BY <1>2, <1>3

\* After arp_init nobody is queued, parked or notified.
LEMMA WaiterInit == Init => WaiterInv
<1> SUFFICES ASSUME Init PROVE WaiterInv
  OBVIOUS
<1>1. TypeOK
  BY TypeInit
<1>2. Len(<< >>) = 0
  BY EmptySeq
<1>3. \A i \in PendingIdx : arp_pending_tasks[i].waiting = << >>
  BY DEF Init
<1>4. \A u : ~ InQueue(u) /\ ~ Parked(u)
  BY <1>2, <1>3 DEF Init, InQueue, Parked
<1>5. WaiterAccounted
  BY <1>4 DEF Init, WaiterAccounted
<1>6. WaiterOnce
  BY <1>2, <1>3 DEF Init, WaiterOnce
<1> QED
  BY <1>1, <1>5, <1>6 DEF WaiterInv

\* Every step of arp_task and of the callers keeps each task in its one place.
LEMMA WaiterNext == WaiterInv /\ [Next]_vars => WaiterInv'
<1> SUFFICES ASSUME WaiterInv, [Next]_vars
             PROVE  WaiterInv'
  OBVIOUS
<1> DEFINE q == arp_request_queue
           f == arp_pending_tasks
<1>1. TypeOK /\ TypeOK'
  BY TypeNext DEF WaiterInv
<1>2. /\ Accounted(q, f, notified, caller)
      /\ QueueOnce(q) /\ OnceIn(f)
  BY WaiterForm DEF WaiterInv
<1> SUFFICES /\ Accounted(q', f', notified', caller')
             /\ QueueOnce(q') /\ OnceIn(f')
  <2>1. \A u : (InQueue(u)' <=> QueuedIn(q', u))
               /\ (Parked(u)' <=> ParkedIn(f', u))
    BY DEF InQueue, QueuedIn, Parked, ParkedIn
  <2>2. Accounted(q', f', notified', caller') => WaiterAccounted'
    BY <2>1 DEF WaiterAccounted, Accounted
  <2>3. QueueOnce(q') /\ OnceIn(f') => WaiterOnce'
    BY DEF WaiterOnce, QueueOnce, OnceIn
  <2> QED
    BY <1>1, <2>2, <2>3 DEF WaiterInv
<1>3. caller \in [Tasks -> Caller] /\ q \in Seq(Request) /\ f \in [PendingIdx -> Pending]
  BY <1>1 DEF TypeOK
<1> DEFINE Goal == /\ Accounted(q', f', notified', caller')
                   /\ QueueOnce(q') /\ OnceIn(f')
<1>4. ASSUME NEW t \in Tasks, NEW ip \in IPs, ArpGetMacAddr(t, ip)
      PROVE  Goal
  BY <1>2, <1>3, <1>4 DEF ArpGetMacAddr, Accounted
<1>5. ASSUME NEW t \in Tasks, SendRequest(t)
      PROVE  Goal
  <2> DEFINE r == [ip |-> caller[t].ip, task |-> t]
  <2>1. r \in Request /\ r.task = t
    BY <1>3 DEF Request, Caller
  <2>2. ~ QueuedIn(q, t) /\ ~ ParkedIn(f, t) /\ t \notin notified
    BY <1>2, <1>5 DEF SendRequest, Accounted
  <2>3. QueueOnce(q') /\ \A u : QueuedIn(q', u) <=> QueuedIn(q, u) \/ u = t
    BY <1>2, <1>3, <1>5, <2>1, <2>2, QueueAppend DEF SendRequest
  <2>4. /\ \A u \in Tasks : caller'[u].pc = IF u = t THEN "wait" ELSE caller[u].pc
        /\ UNCHANGED <<f, notified>>
    BY <1>3, <1>5 DEF SendRequest, Caller
  <2> QED
    BY <1>2, <2>2, <2>3, <2>4 DEF Accounted
<1>6. ASSUME NEW t \in Tasks, CallerStep(t)
      PROVE  Goal
  <2>1. CASE NotifyTake(t)
    <3>1. /\ \A u \in Tasks : caller'[u].pc = IF u = t THEN "lookup" ELSE caller[u].pc
          /\ UNCHANGED <<q, f>> /\ notified' = notified \ {t} /\ t \in notified
      BY <1>3, <2>1 DEF NotifyTake, Caller
    <3> QED
      BY <1>2, <3>1 DEF Accounted
  <2>2. CASE Lookup(t) \/ Copy(t)
    <3>1. /\ caller[t].pc # "wait"
          /\ \A u \in Tasks : \/ caller'[u].pc = caller[u].pc
                              \/ u = t /\ caller'[u].pc # "wait"
          /\ UNCHANGED <<q, f, notified>>
      BY <1>3, <2>2 DEF Lookup, Copy, Caller
    <3> QED
      BY <1>2, <3>1 DEF Accounted
  <2> QED
    BY <1>6, <2>1, <2>2 DEF CallerStep
<1>7. ASSUME NEW reply \in Replies, ArpInput([ip |-> reply[1], mac |-> reply[2]])
      PROVE  Goal
  BY <1>2, <1>7 DEF ArpInput
<1>8. ASSUME ArpTask PROVE Goal
  <2>1. /\ OnceIn(Cleaned)
        /\ \A u : ParkedIn(Cleaned, u) <=> ParkedIn(f, u) /\ u \notin TimedOut
        /\ \A u \in TimedOut : ParkedIn(f, u)
    BY <1>1, <1>2, CleanedParks
  <2>2. Cleaned \in [PendingIdx -> Pending] /\ TimedOut \subseteq Tasks
    BY <1>1, CleanedType
  <2> HIDE DEF Goal
  <2>3. CASE TaskTimeout
    <3>1. f' = Cleaned /\ notified' = notified \cup TimedOut /\ UNCHANGED <<q, caller>>
      BY <2>3 DEF TaskTimeout
    <3> QED
      BY <1>2, <2>1, <3>1 DEF Accounted, Goal
  <2>4. ASSUME TakeRequest
        PROVE  /\ Head(q) \in Request /\ Head(q).task \in Tasks
               /\ caller' = caller /\ QueueOnce(q')
               /\ QueuedIn(q, Head(q).task)
               /\ \A u : QueuedIn(q', u) <=> QueuedIn(q, u) /\ u # Head(q).task
               /\ ~ ParkedIn(f, Head(q).task)
    <3>1. q # << >> /\ q' = Tail(q) /\ caller' = caller
      BY <2>4 DEF TakeRequest
    <3>2. Head(q) \in Request /\ Head(q).task \in Tasks
      <4>1. Head(q) \in Request
        BY ONLY <1>3, <3>1, HeadTailProperties
      <4> QED
        BY <4>1 DEF Request
    <3>3. /\ QueueOnce(q') /\ QueuedIn(q, Head(q).task)
          /\ \A u : QueuedIn(q', u) <=> QueuedIn(q, u) /\ u # Head(q).task
      BY <1>2, <1>3, <3>1, QueueTail
    <3> QED
      BY <1>2, <3>1, <3>2, <3>3 DEF Accounted
  <2> DEFINE req == Head(q)
  \* The task whose request was taken is parked and not notified.
  <2>5. ASSUME TakeRequest, notified' = notified \cup TimedOut,
               NEW i \in PendingIdx, Parks(Cleaned, f', i, req.task)
        PROVE  Goal
    <3>1. ~ ParkedIn(Cleaned, req.task)
      BY <2>1, <2>4, <2>5
    <3>2. OnceIn(f') /\ \A u : ParkedIn(f', u) <=> ParkedIn(Cleaned, u) \/ u = req.task
      BY <2>1, <2>2, <2>4, <2>5, <3>1, ParkOne
    <3> QED
      BY <1>2, <2>1, <2>4, <2>5, <3>2 DEF Accounted, Goal
  <2>6. CASE RequestJoins
    <3> DEFINE found == FindPending(Cleaned, req.ip)
    <3>1. /\ found # {} /\ TakeRequest /\ notified' = notified \cup TimedOut
          /\ f' = [Cleaned EXCEPT ![Min(found)].waiting = Append(@, req.task)]
      BY <2>6 DEF RequestJoins
    <3>2. Min(found) \in PendingIdx
      BY <3>1, FirstPending
    <3> HIDE DEF found
    <3>3. Parks(Cleaned, f', Min(found), req.task)
      BY <2>2, <3>1, <3>2 DEF Parks, Pending
    <3> QED
      BY <2>5, <3>1, <3>2, <3>3
  <2>7. CASE RequestStarts
    <3> DEFINE free == FreePending(Cleaned)
    <3>1. /\ free # {} /\ TakeRequest /\ notified' = notified \cup TimedOut
          /\ f' = [Cleaned EXCEPT ![Min(free)] =
                     [ip |-> req.ip, waiting |-> <<req.task>>, ttl |-> ARP_TIMEOUT_TICKS]]
      BY <2>7 DEF RequestStarts
    <3>2. Min(free) \in PendingIdx /\ Cleaned[Min(free)].waiting = << >>
      BY <3>1, FirstFree DEF FreePending
    <3> HIDE DEF free
    <3>3. Append(<< >>, req.task) = <<req.task>>
      OBVIOUS
    <3>4. Parks(Cleaned, f', Min(free), req.task)
      BY <2>2, <3>1, <3>2, <3>3 DEF Parks
    <3> QED
      BY <2>5, <3>1, <3>2, <3>4
  <2>8. CASE RequestRefused
    <3> DEFINE free == FreePending(Cleaned)
    <3>1. /\ TakeRequest /\ notified' = notified \cup TimedOut \cup {req.task}
          /\ \/ f' = Cleaned
             \/ /\ free # {}
                /\ f' = [Cleaned EXCEPT ![Min(free)] =
                           [ip |-> req.ip, waiting |-> << >>, ttl |-> ARP_TIMEOUT_TICKS]]
      BY <2>8 DEF RequestRefused
    <3>2. free # {} => Min(free) \in PendingIdx /\ Cleaned[Min(free)].waiting = << >>
      BY FirstFree DEF FreePending
    <3> HIDE DEF free
    <3>3. Keeps(Cleaned, f')
      BY <2>2, <3>1, <3>2 DEF Keeps
    <3>4. OnceIn(f') /\ \A u : ParkedIn(f', u) <=> ParkedIn(Cleaned, u)
      BY <2>1, <3>3, SameWaiters
    <3> QED
      BY <1>2, <2>1, <2>4, <3>1, <3>4 DEF Accounted, Goal
  <2>9. CASE CacheBegin
    <3>1. f' = Cleaned /\ notified' = notified \cup TimedOut /\ UNCHANGED <<q, caller>>
      BY <2>9 DEF CacheBegin
    <3> QED
      BY <1>2, <2>1, <3>1 DEF Accounted, Goal
  <2>10. CASE CacheEnd
    <3> DEFINE found == FindPending(f, worker.entry.ip)
    <3>1. UNCHANGED <<q, caller>>
      BY <2>10 DEF CacheEnd
    <3>2. CASE found = {}
      <4>1. UNCHANGED <<f, notified>>
        BY <2>10, <3>2 DEF CacheEnd
      <4> QED
        BY <1>2, <3>1, <4>1 DEF Goal
    <3>3. CASE found # {}
      <4> DEFINE m == Min(found)
      <4>1. /\ f' = [f EXCEPT ![m].waiting = << >>]
            /\ notified' = notified \cup Waiters(m)
        BY <2>10, <3>3 DEF CacheEnd
      <4>2. m \in PendingIdx
        BY <3>3, FirstPending
      <4> HIDE DEF m
      <4>3. Clears(f, f', {m})
        BY <1>3, <4>1, <4>2 DEF Clears, Pending
      <4>4. /\ OnceIn(f')
            /\ \A u : ParkedIn(f', u) <=> ParkedIn(f, u) /\ ~ AmongIn(f, {m}, u)
        BY <1>2, <4>2, <4>3, ClearEntries
      <4>5. \A u : u \in Waiters(m) <=> AmongIn(f, {m}, u)
        BY DEF Waiters, AmongIn
      <4>6. \A u : AmongIn(f, {m}, u) => ParkedIn(f, u)
        BY <4>2 DEF AmongIn, ParkedIn
      <4> QED
        BY <1>2, <3>1, <4>1, <4>4, <4>5, <4>6 DEF Accounted, Goal
    <3> QED
      BY <3>2, <3>3
  <2> QED
    BY <1>8, <2>3, <2>6, <2>7, <2>8, <2>9, <2>10 DEF ArpTask
<1>9. ASSUME Tick PROVE Goal
  <2>1. Keeps(f, f') /\ UNCHANGED <<q, notified, caller>>
    BY <1>3, <1>9 DEF Tick, Keeps, Pending
  <2>2. OnceIn(f') /\ \A u : ParkedIn(f', u) <=> ParkedIn(f, u)
    BY <1>2, <2>1, SameWaiters
  <2> QED
    BY <1>2, <2>1, <2>2 DEF Accounted
<1>10. CASE UNCHANGED vars
  BY <1>2, <1>10 DEF vars
<1> QED
  BY <1>4, <1>5, <1>6, <1>7, <1>8, <1>9, <1>10 DEF Next

\* arp_get_mac_addr never loses a wake-up and never gets one too many: under
\* every interleaving of callers, replies, timeouts and refusals a sleeping
\* task is queued, parked or notified, and in only one of these places.
THEOREM WakeUpsExact == Spec => []WaiterAccounted
<1>1. WaiterInv => WaiterAccounted
  BY DEF WaiterInv
<1> QED
  BY <1>1, WaiterInit, WaiterNext, PTL DEF Spec

\* A task stands once in arp_request_queue and once in all of the pending
\* table, so that no single expiry, reply or refusal wakes it twice.
THEOREM WaitersStandOnce == Spec => []WaiterOnce
<1>1. WaiterInv => WaiterOnce
  BY DEF WaiterInv
<1> QED
  BY <1>1, WaiterInit, WaiterNext, PTL DEF Spec

-----------------------------------------------------------------------------
(* The pending table.                                                      *)

\* PendingSound of a table f.
Sound(f) ==
    /\ \A i \in PendingIdx : Len(f[i].waiting) <= MAX_PENDING_PER_IP
    /\ \A i, j \in PendingIdx :
          f[i].waiting # << >> /\ f[j].waiting # << >> /\ f[i].ip = f[j].ip
            => i = j

\* An update that empties entries or leaves them alone, and changes no IP of an
\* entry in use, keeps the table sound.
LEMMA SoundShrinks ==
    ASSUME NEW f, NEW g, Sound(f),
           \A i \in PendingIdx : \/ g[i].waiting = << >>
                                 \/ g[i].waiting = f[i].waiting /\ g[i].ip = f[i].ip
    PROVE  Sound(g)
<1>1. Len(<< >>) = 0
  BY EmptySeq
<1>2. \A i \in PendingIdx : Len(g[i].waiting) <= MAX_PENDING_PER_IP
  BY <1>1 DEF Sound
<1>3. \A i, j \in PendingIdx :
         g[i].waiting # << >> /\ g[j].waiting # << >> /\ g[i].ip = g[j].ip => i = j
  BY DEF Sound
<1> QED
  BY <1>2, <1>3 DEF Sound

\* The table arp_task has after its clean-up is sound.
LEMMA CleanedSound ==
    ASSUME TypeOK, Sound(arp_pending_tasks)
    PROVE  Sound(Cleaned)
<1>1. ASSUME NEW i \in PendingIdx
      PROVE  \/ Cleaned[i].waiting = << >>
             \/ /\ Cleaned[i].waiting = arp_pending_tasks[i].waiting
                /\ Cleaned[i].ip = arp_pending_tasks[i].ip
  <2>1. arp_pending_tasks[i] \in Pending
    BY DEF TypeOK
  <2>2. [arp_pending_tasks[i] EXCEPT !.waiting = << >>].waiting = << >>
    BY <2>1 DEF Pending
  <2> QED
    BY <2>2 DEF Cleaned
<1> HIDE DEF Cleaned
<1> QED
  BY <1>1, SoundShrinks

\* Every step of every actor keeps the pending table sound.
LEMMA PendingNext == TypeOK /\ PendingSound /\ [Next]_vars => PendingSound'
<1> SUFFICES ASSUME TypeOK, PendingSound, [Next]_vars
             PROVE  PendingSound'
  OBVIOUS
<1> DEFINE f == arp_pending_tasks
           q == arp_request_queue
<1>1. Sound(f) /\ f \in [PendingIdx -> Pending]
  BY DEF PendingSound, Sound, TypeOK
<1> SUFFICES Sound(f')
  BY DEF PendingSound, Sound
<1>2. Sound(Cleaned) /\ Cleaned \in [PendingIdx -> Pending]
  BY <1>1, CleanedSound, CleanedType
<1>3. ASSUME TakeRequest PROVE Head(q) \in Request
  BY <1>3, HeadTailProperties DEF TakeRequest, TypeOK
<1>4. CASE RequestJoins
  <2> DEFINE req == Head(q)
             found == FindPending(Cleaned, req.ip)
             m == Min(found)
  <2>1. /\ found # {} /\ HasRoom(Cleaned[m].waiting) /\ req \in Request
        /\ f' = [Cleaned EXCEPT ![m].waiting = Append(@, req.task)]
    BY <1>3, <1>4 DEF RequestJoins
  <2>2. m \in PendingIdx /\ m \in found
    BY <2>1, FirstPending
  <2> HIDE DEF m
  <2>3. /\ Cleaned[m].waiting \in Seq(Tasks) /\ req.task \in Tasks
        /\ f'[m].waiting = Append(Cleaned[m].waiting, req.task)
        /\ f'[m].ip = Cleaned[m].ip
        /\ \A j \in PendingIdx \ {m} : f'[j] = Cleaned[j]
    BY <1>2, <2>1, <2>2 DEF Pending, Request
  <2>4. Len(f'[m].waiting) <= MAX_PENDING_PER_IP
    BY <2>1, <2>3, AppendProperties, LenProperties DEF HasRoom
  <2>5. Cleaned[m].waiting # << >>
    BY <2>2 DEF FindPending
  <2> QED
    BY <1>2, <2>2, <2>3, <2>4, <2>5 DEF Sound
<1>5. CASE RequestStarts
  <2> DEFINE req == Head(q)
             m == Min(FreePending(Cleaned))
  <2>1. /\ FreePending(Cleaned) # {} /\ FindPending(Cleaned, req.ip) = {}
        /\ f' = [Cleaned EXCEPT ![m] = [ip |-> req.ip, waiting |-> <<req.task>>,
                                        ttl |-> ARP_TIMEOUT_TICKS]]
    BY <1>5 DEF RequestStarts
  <2>2. m \in PendingIdx
    BY <2>1, FirstFree
  <2> HIDE DEF m
  <2>3. /\ f'[m].ip = req.ip /\ f'[m].waiting = <<req.task>>
        /\ \A j \in PendingIdx \ {m} : f'[j] = Cleaned[j]
    BY <1>2, <2>1, <2>2
  <2>4. \A j \in PendingIdx : Cleaned[j].waiting # << >> => Cleaned[j].ip # req.ip
    BY <2>1 DEF FindPending
  <2>5. Len(<<req.task>>) = 1
    OBVIOUS
  <2>6. \A j \in PendingIdx : Len(f'[j].waiting) <= MAX_PENDING_PER_IP
    <3>1. Len(f'[m].waiting) = 1 /\ 1 <= MAX_PENDING_PER_IP
      BY <2>3, <2>5
    <3>2. \A j \in PendingIdx \ {m} : Len(f'[j].waiting) <= MAX_PENDING_PER_IP
      BY <1>2, <2>3 DEF Sound
    <3> QED
      BY <3>1, <3>2
  <2> QED
    BY <1>2, <2>3, <2>4, <2>6 DEF Sound
<1>6. CASE RequestRefused
  <2> DEFINE m == Min(FreePending(Cleaned))
  <2>1. \/ f' = Cleaned
        \/ /\ FreePending(Cleaned) # {}
           /\ f' = [Cleaned EXCEPT ![m] = [ip |-> Head(q).ip, waiting |-> << >>,
                                           ttl |-> ARP_TIMEOUT_TICKS]]
    BY <1>6 DEF RequestRefused
  <2>2. \A i \in PendingIdx : f'[i].waiting = << >> \/ f'[i] = Cleaned[i]
    BY <1>2, <2>1
  <2> QED
    BY <1>2, <2>2, SoundShrinks
<1>7. CASE CacheEnd
  <2> DEFINE m == Min(FindPending(f, worker.entry.ip))
  <2>1. f' = f \/ f' = [f EXCEPT ![m].waiting = << >>]
    BY <1>7 DEF CacheEnd
  <2> HIDE DEF m
  <2>2. \A i \in PendingIdx : f'[i].waiting = << >> \/ f'[i] = f[i]
    BY <1>1, <2>1 DEF Pending
  <2> QED
    BY <1>1, <2>2, SoundShrinks
<1>8. CASE TaskTimeout \/ CacheBegin
  BY <1>2, <1>8 DEF TaskTimeout, CacheBegin
<1>9. CASE Tick
  <2>1. \A i \in PendingIdx : f'[i].waiting = f[i].waiting /\ f'[i].ip = f[i].ip
    BY <1>1, <1>9 DEF Tick, Pending
  <2> QED
    BY <1>1, <2>1, SoundShrinks
<1>10. ASSUME NEW t \in Tasks, NEW ip \in IPs, ArpGetMacAddr(t, ip)
       PROVE  Sound(f')
  BY <1>1, <1>10 DEF ArpGetMacAddr
<1>11. ASSUME NEW t \in Tasks, SendRequest(t) \/ CallerStep(t)
       PROVE  Sound(f')
  BY <1>1, <1>11 DEF SendRequest, CallerStep, NotifyTake, Lookup, Copy
<1>12. ASSUME NEW reply \in Replies, ArpInput([ip |-> reply[1], mac |-> reply[2]])
       PROVE  Sound(f')
  BY <1>1, <1>12 DEF ArpInput
<1>13. CASE UNCHANGED vars
  BY <1>1, <1>13 DEF vars
<1> QED
  BY <1>4, <1>5, <1>6, <1>7, <1>8, <1>9, <1>10, <1>11, <1>12, <1>13 DEF Next, ArpTask

\* waiting_tasks is never overrun and find_pending's first match is the only
\* one, for tables of every size.
THEOREM PendingTableSound == Spec => []PendingSound
<1>1. Init => PendingSound
  BY EmptySeq DEF Init, PendingSound
<1> QED
  BY <1>1, PendingNext, TypeCorrect, PTL DEF Spec

-----------------------------------------------------------------------------
(* The cache.  Between the two writes of add_ip_mac_cache_entry an entry may *)
(* pair an IP with the MAC of another; the strengthening says what arp_task *)
(* still holds to complete it: an announced pair, whose IP is already the   *)
(* entry's.                                                                *)

Announced(entry) == <<entry.ip, entry.mac>> \in Replies

\* What is still to be cached has been announced: the queued replies and the
\* entry being written.
InputAnnounced ==
    \A k \in 1 .. Len(arp_input_queue) : Announced(arp_input_queue[k])
WriteAnnounced ==
    worker.pc = "write" => /\ Announced(worker.entry)
                           /\ ip_mac_cache[worker.idx].ip = worker.entry.ip

CacheInv == CacheUnique /\ CacheSound /\ InputAnnounced /\ WriteAnnounced

\* Every step of every actor keeps the cache sound and free of duplicates.
LEMMA CacheNext == TypeOK /\ CacheInv /\ [Next]_vars => CacheInv'
<1> SUFFICES ASSUME TypeOK, CacheInv, [Next]_vars
             PROVE  CacheInv'
  OBVIOUS
<1> DEFINE c == ip_mac_cache
           q == arp_input_queue
<1>1. /\ c \in [CacheIdx -> Entry] /\ ip_mac_cache_top \in CacheIdx
      /\ worker \in Worker /\ q \in Seq(Entry)
  BY DEF TypeOK
<1>2. ASSUME UNCHANGED <<c, q, worker>>
      PROVE  CacheInv'
  BY <1>2 DEF CacheInv, CacheUnique, CacheSound, InputAnnounced, WriteAnnounced
<1>3. ASSUME NEW reply \in Replies, ArpInput([ip |-> reply[1], mac |-> reply[2]])
      PROVE  CacheInv'
  <2> DEFINE e == [ip |-> reply[1], mac |-> reply[2]]
  <2>1. Announced(e) /\ e \in Entry
    BY DEF Announced, Entry
  <2>2. q' = Append(q, e) /\ UNCHANGED <<c, worker>>
    BY <1>3 DEF ArpInput
  <2> HIDE DEF e
  <2>3. /\ Len(q') = Len(q) + 1 /\ Len(q) \in Nat
        /\ \A k \in 1 .. Len(q) : q'[k] = q[k]
        /\ q'[Len(q) + 1] = e
    BY <1>1, <2>1, <2>2, AppendProperties, LenProperties
  <2>4. InputAnnounced'
    <3> SUFFICES ASSUME NEW k \in 1 .. Len(q) + 1
                 PROVE  Announced(q'[k])
      BY <2>3 DEF InputAnnounced, Announced
    <3>1. k \in 1 .. Len(q) \/ k = Len(q) + 1
      BY <2>3
    <3> QED
      BY <2>1, <2>3, <3>1 DEF CacheInv, InputAnnounced
  <2> QED
    BY <2>2, <2>4 DEF CacheInv, CacheUnique, CacheSound, WriteAnnounced
<1>4. CASE CacheBegin
  <2> DEFINE e == Head(q)
             top == ip_mac_cache_top
  <2>1. q # << >> /\ q' = Tail(q) /\ worker.pc = "select"
    BY <1>4 DEF CacheBegin, Selected
  <2>2. /\ Len(q) \in Nat \ {0} /\ e = q[1] /\ e \in Entry
        /\ Len(q') = Len(q) - 1
        /\ \A k \in 1 .. Len(q) - 1 : q'[k] = q[k + 1]
    BY <1>1, <2>1, HeadTailProperties, LenProperties, EmptySeq
  <2>3. Announced(e)
    BY <2>2 DEF CacheInv, InputAnnounced
  <2>4. InputAnnounced'
    <3> SUFFICES ASSUME NEW k \in 1 .. Len(q) - 1
                 PROVE  Announced(q'[k])
      BY <2>2 DEF InputAnnounced, Announced
    <3>1. k + 1 \in 1 .. Len(q)
      BY <2>2
    <3> QED
      BY <2>2, <3>1 DEF CacheInv, InputAnnounced
  <2>5. CASE CachedAt(e.ip) # {}
    <3> DEFINE m == Min(CachedAt(e.ip))
    <3>1. worker' = [pc |-> "write", idx |-> m, entry |-> e] /\ c' = c
      BY <1>4, <2>5 DEF CacheBegin
    <3>2. m \in CacheIdx /\ m \in CachedAt(e.ip)
      BY <2>5, FirstCached
    <3> HIDE DEF m
    <3>3. c[m].ip = e.ip
      BY <3>2 DEF CachedAt
    <3>4. WriteAnnounced'
      BY <2>3, <3>1, <3>3 DEF WriteAnnounced, Announced
    <3>5. CacheUnique' /\ CacheSound'
      BY <2>1, <3>1 DEF CacheInv, CacheUnique, CacheSound
    <3> QED
      BY <2>4, <3>4, <3>5 DEF CacheInv
  <2>6. CASE CachedAt(e.ip) = {}
    <3>1. /\ worker' = [pc |-> "write", idx |-> top, entry |-> e]
          /\ c' = [c EXCEPT ![top].ip = e.ip]
      BY <1>4, <2>6 DEF CacheBegin
    <3>2. c'[top].ip = e.ip /\ \A i \in CacheIdx \ {top} : c'[i] = c[i]
      BY <1>1, <3>1 DEF Entry
    <3>3. \A i \in CacheIdx : c[i].ip # e.ip
      BY <2>6 DEF CachedAt
    <3>4. CacheUnique'
      BY <1>1, <3>2, <3>3 DEF CacheInv, CacheUnique
    <3>5. CacheSound'
      BY <2>1, <3>1, <3>2 DEF CacheInv, CacheSound
    <3>6. WriteAnnounced'
      BY <2>3, <3>1, <3>2 DEF WriteAnnounced, Announced
    <3> QED
      BY <2>4, <3>4, <3>5, <3>6 DEF CacheInv
  <2> QED
    BY <2>5, <2>6
<1>5. CASE CacheEnd
  <2> DEFINE m == worker.idx
  <2>1. /\ worker.pc = "write" /\ worker'.pc = "select" /\ q' = q
        /\ c' = [c EXCEPT ![m].mac = worker.entry.mac]
    BY <1>5 DEF CacheEnd, Idle, MacWritten
  <2>2. /\ m \in CacheIdx
        /\ \A i \in CacheIdx : c'[i].ip = c[i].ip
        /\ \A i \in CacheIdx \ {m} : c'[i] = c[i]
        /\ c'[m].mac = worker.entry.mac
    BY <1>1, <2>1 DEF Entry, Worker
  <2>3. Announced(worker.entry) /\ c[m].ip = worker.entry.ip
    BY <2>1 DEF CacheInv, WriteAnnounced
  <2>4. <<c'[m].ip, c'[m].mac>> \in Replies
    BY <2>2, <2>3 DEF Announced
  <2>5. CacheSound'
    BY <2>1, <2>2, <2>4 DEF CacheInv, CacheSound
  <2>6. CacheUnique'
    BY <2>2 DEF CacheInv, CacheUnique
  <2>7. InputAnnounced' /\ WriteAnnounced'
    BY <2>1 DEF CacheInv, InputAnnounced, WriteAnnounced
  <2> QED
    BY <2>5, <2>6, <2>7 DEF CacheInv
<1>6. CASE TaskTimeout \/ RequestJoins \/ RequestStarts \/ RequestRefused \/ Tick
  BY <1>2, <1>6 DEF TaskTimeout, RequestJoins, RequestStarts, RequestRefused,
                    TakeRequest, Tick
<1>7. ASSUME NEW t \in Tasks, NEW ip \in IPs, ArpGetMacAddr(t, ip)
      PROVE  CacheInv'
  BY <1>2, <1>7 DEF ArpGetMacAddr
<1>8. ASSUME NEW t \in Tasks, SendRequest(t) \/ CallerStep(t)
      PROVE  CacheInv'
  BY <1>2, <1>8 DEF SendRequest, CallerStep, NotifyTake, Lookup, Copy
<1>9. CASE UNCHANGED vars
  BY <1>2, <1>9 DEF vars
<1> QED
  BY <1>3, <1>4, <1>5, <1>6, <1>7, <1>8, <1>9 DEF Next, ArpTask

\* CacheInv holds when the cache is empty and no reply is queued.
LEMMA CacheInit == Init => CacheInv
BY EmptySeq DEF Init, CacheInv, CacheUnique, CacheSound, InputAnnounced,
                WriteAnnounced, Idle, ZeroEntry

\* Every entry of ip_mac_cache that arp_task has finished writing pairs an IP
\* with a MAC announced for it, for caches of every size.
THEOREM CacheCorrect == Spec => []CacheSound
<1>1. CacheInv => CacheSound
  BY DEF CacheInv
<1> QED
  BY <1>1, CacheInit, CacheNext, TypeCorrect, PTL DEF Spec

\* ip_mac_cache never holds an IP twice, also when ip_mac_cache_top has
\* wrapped and old entries are overwritten.
THEOREM CacheHasNoDuplicates == Spec => []CacheUnique
<1>1. CacheInv => CacheUnique
  BY DEF CacheInv
<1> QED
  BY <1>1, CacheInit, CacheNext, TypeCorrect, PTL DEF Spec

-----------------------------------------------------------------------------
(* arp.c implements the safety part of Resolver.  The only fact about its  *)
(* state that the step needs is WaiterInv: arp_task gives notifications to *)
(* tasks that sleep, have sent their request and have none pending.        *)

\* The mapped state of arp.c.
CallMap  == [t \in Tasks |-> Phase(t)]
FoundMap == [t \in Tasks |-> caller[t].mac # NoMAC]

\* Where a task is for the abstract resolver, one case at a time.
LEMMA PhaseCases ==
    ASSUME TypeOK, NEW t \in Tasks
    PROVE  /\ caller[t].pc = "idle" => Phase(t) = "idle"
           /\ caller[t].pc \in {"request", "wait"} /\ t \notin notified
                => Phase(t) = "asleep"
           /\ caller[t].pc \in {"request", "wait"} /\ t \in notified
                => Phase(t) = "awake"
           /\ caller[t].pc \in {"lookup", "copy"} => Phase(t) = "awake"
<1>1. caller[t].pc \in {"idle", "request", "wait", "lookup", "copy"}
  BY DEF TypeOK, Caller
<1> QED
  BY <1>1 DEF Phase

\* The same in the next state.
LEMMA PhaseCasesNext ==
    ASSUME TypeOK', NEW t \in Tasks
    PROVE  /\ caller'[t].pc = "idle" => Phase(t)' = "idle"
           /\ caller'[t].pc \in {"request", "wait"} /\ t \notin notified'
                => Phase(t)' = "asleep"
           /\ caller'[t].pc \in {"request", "wait"} /\ t \in notified'
                => Phase(t)' = "awake"
           /\ caller'[t].pc \in {"lookup", "copy"} => Phase(t)' = "awake"
<1>1. caller'[t].pc \in {"idle", "request", "wait", "lookup", "copy"}
  BY DEF TypeOK, Caller
<1> QED
  BY <1>1 DEF Phase

\* A step that leaves the callers and their notifications alone is invisible.
LEMMA InvisibleStep ==
    ASSUME UNCHANGED <<caller, notified>>
    PROVE  CallMap' = CallMap /\ FoundMap' = FoundMap
BY DEF CallMap, FoundMap, Phase

\* A step that leaves the callers alone and takes no notification back wakes
\* a set of sleepers, or nobody: a task it wakes was parked or queued, not
\* already notified.
LEMMA WakingStep ==
    ASSUME WaiterInv, WaiterInv', UNCHANGED caller, notified \subseteq notified'
    PROVE  \/ \E S \in SUBSET Tasks : R!Wake(S)
           \/ CallMap' = CallMap /\ FoundMap' = FoundMap
<1> DEFINE S == notified' \ notified
<1> USE DEF WaiterInv
<1>1. S \in SUBSET Tasks
  BY DEF TypeOK
<1>2. ASSUME NEW t \in S
      PROVE  caller[t].pc = "wait" /\ Phase(t) = "asleep" /\ Phase(t)' = "awake"
  <2>1. t \in Tasks /\ t \notin notified /\ t \in notified'
    BY <1>1
  <2>2. caller'[t].pc = "wait"
    BY <2>1 DEF WaiterAccounted
  <2> QED
    BY <2>1, <2>2, PhaseCases, PhaseCasesNext
<1>3. ASSUME NEW t \in Tasks, t \notin S
      PROVE  Phase(t)' = Phase(t)
  <2>1. t \in notified <=> t \in notified'
    BY <1>3
  <2> QED
    BY <2>1 DEF Phase
<1>4. FoundMap' = FoundMap
  BY DEF FoundMap
<1>5. CASE S = {}
  BY <1>3, <1>4, <1>5 DEF CallMap
<1>6. CASE S # {}
  <2>1. \A t \in S : CallMap[t] = "asleep"
    BY <1>1, <1>2 DEF CallMap
  <2>2. CallMap' = [t \in Tasks |-> IF t \in S THEN "awake" ELSE CallMap[t]]
    BY <1>1, <1>2, <1>3 DEF CallMap
  <2>3. R!Wake(S)
    BY <1>4, <1>6, <2>1, <2>2 DEF R!Wake, CallMap, FoundMap
  <2> QED
    BY <1>1, <2>3
<1> QED
  BY <1>5, <1>6

\* Only the task that takes a step of its own moves.
LEMMA OthersStay ==
    ASSUME NEW t \in Tasks, NEW u \in Tasks, u # t,
           caller'[u] = caller[u], u \in notified' <=> u \in notified
    PROVE  Phase(u)' = Phase(u)
BY DEF Phase

\* Every step of arp.c is a step of the abstract resolver or invisible to it.
LEMMA StepRefines ==
    ASSUME WaiterInv, WaiterInv', [Next]_vars
    PROVE  R!Next \/ (CallMap' = CallMap /\ FoundMap' = FoundMap)
<1> USE DEF WaiterInv
<1>1. ASSUME NEW t \in Tasks, NEW ip \in IPs, ArpGetMacAddr(t, ip)
      PROVE  R!Call(t)
  <2>1. /\ caller[t].pc = "idle" /\ caller'[t].pc = "request"
        /\ caller'[t].mac = NoMAC /\ notified' = notified
        /\ \A u \in Tasks : u # t => caller'[u] = caller[u]
    BY <1>1 DEF ArpGetMacAddr, TypeOK
  <2>2. t \notin notified
    BY <2>1 DEF WaiterAccounted
  <2>3. Phase(t) = "idle" /\ Phase(t)' = "asleep"
    BY <2>1, <2>2, PhaseCases, PhaseCasesNext
  <2>4. \A u \in Tasks : u # t => Phase(u)' = Phase(u)
    BY <2>1, OthersStay
  <2>5. CallMap' = [CallMap EXCEPT ![t] = "asleep"]
    BY <2>3, <2>4 DEF CallMap
  <2>6. FoundMap' = [FoundMap EXCEPT ![t] = FALSE]
    BY <2>1 DEF FoundMap
  <2> QED
    BY <2>3, <2>5, <2>6 DEF R!Call, CallMap, FoundMap
<1>2. ASSUME NEW t \in Tasks, SendRequest(t)
      PROVE  CallMap' = CallMap /\ FoundMap' = FoundMap
  <2>1. /\ caller[t].pc = "request" /\ caller'[t].pc = "wait"
        /\ caller'[t].mac = caller[t].mac /\ notified' = notified
        /\ \A u \in Tasks : u # t => caller'[u] = caller[u]
    BY <1>2 DEF SendRequest, TypeOK, Caller
  <2>2. Phase(t)' = Phase(t)
    BY <2>1, PhaseCases, PhaseCasesNext
  <2>3. \A u \in Tasks : u # t => Phase(u)' = Phase(u)
    BY <2>1, OthersStay
  <2> QED
    BY <2>1, <2>2, <2>3 DEF CallMap, FoundMap
<1>3. ASSUME NEW t \in Tasks, NotifyTake(t)
      PROVE  CallMap' = CallMap /\ FoundMap' = FoundMap
  <2>1. /\ caller[t].pc = "wait" /\ caller'[t].pc = "lookup"
        /\ caller'[t].mac = caller[t].mac
        /\ t \in notified /\ notified' = notified \ {t}
        /\ \A u \in Tasks : u # t => caller'[u] = caller[u]
    BY <1>3 DEF NotifyTake, TypeOK, Caller
  <2>2. Phase(t)' = Phase(t)
    BY <2>1, PhaseCases, PhaseCasesNext
  <2>3. \A u \in Tasks : u # t => Phase(u)' = Phase(u)
    BY <2>1, OthersStay
  <2> QED
    BY <2>1, <2>2, <2>3 DEF CallMap, FoundMap
<1>4. ASSUME NEW t \in Tasks, Lookup(t) \/ Copy(t), caller'[t].pc = "idle"
      PROVE  R!Return(t)
  <2>1. /\ caller[t].pc \in {"lookup", "copy"} /\ notified' = notified
        /\ \A u \in Tasks : u # t => caller'[u] = caller[u]
    BY <1>4 DEF Lookup, Copy, TypeOK
  <2>2. Phase(t) = "awake" /\ Phase(t)' = "idle"
    BY <1>4, <2>1, PhaseCases, PhaseCasesNext
  <2>3. \A u \in Tasks : u # t => Phase(u)' = Phase(u)
    BY <2>1, OthersStay
  <2>4. CallMap' = [CallMap EXCEPT ![t] = "idle"]
    BY <2>2, <2>3 DEF CallMap
  <2>5. FoundMap' = [FoundMap EXCEPT ![t] = (caller'[t].mac # NoMAC)]
    BY <2>1 DEF FoundMap
  <2>6. \E ok \in BOOLEAN : FoundMap' = [FoundMap EXCEPT ![t] = ok]
    BY <2>5
  <2> QED
    BY <2>2, <2>4, <2>6 DEF R!Return, CallMap, FoundMap
<1>5. ASSUME NEW t \in Tasks, Lookup(t) \/ Copy(t), caller'[t].pc # "idle"
      PROVE  CallMap' = CallMap /\ FoundMap' = FoundMap
  <2>1. /\ caller[t].pc = "lookup" /\ caller'[t].pc = "copy"
        /\ caller'[t].mac = caller[t].mac /\ notified' = notified
        /\ \A u \in Tasks : u # t => caller'[u] = caller[u]
    <3>1. ~ Copy(t)
      <4>1. caller[t] \in Caller /\ caller \in [Tasks -> Caller]
        BY DEF TypeOK
      <4>2. ASSUME Copy(t) PROVE caller'[t].pc = "idle"
        BY <4>1, <4>2 DEF Copy, Caller
      <4> QED
        BY <1>5, <4>2
    <3>2. Lookup(t)
      BY <1>5, <3>1
    <3>3. caller[t] \in Caller /\ caller \in [Tasks -> Caller]
      BY DEF TypeOK
    <3>4. caller[t].pc = "lookup" /\ notified' = notified
      BY <3>2 DEF Lookup
    <3>5. caller'[t].pc = "copy" /\ caller'[t].mac = caller[t].mac
      <4>1. PICK i : i = Min(CachedAt(caller[t].ip))
        OBVIOUS
      <4>2. \/ caller'[t] = [caller[t] EXCEPT !.pc = "idle"]
            \/ caller'[t] = [caller[t] EXCEPT !.pc = "copy", !.idx = i]
        BY <3>2, <3>3, <4>1 DEF Lookup
      <4>3. caller'[t] # [caller[t] EXCEPT !.pc = "idle"]
        <5>1. [caller[t] EXCEPT !.pc = "idle"].pc = "idle"
          BY <3>3 DEF Caller
        <5> QED
          BY <1>5, <5>1
      <4> QED
        BY <3>3, <4>2, <4>3 DEF Caller
    <3>6. \A u \in Tasks : u # t => caller'[u] = caller[u]
      BY <3>2, <3>3 DEF Lookup
    <3> QED
      BY <3>4, <3>5, <3>6
  <2>2. Phase(t)' = Phase(t)
    BY <2>1, PhaseCases, PhaseCasesNext
  <2>3. \A u \in Tasks : u # t => Phase(u)' = Phase(u)
    BY <2>1, OthersStay
  <2> QED
    BY <2>1, <2>2, <2>3 DEF CallMap, FoundMap
<1>6. CASE ArpTask
  <2>1. UNCHANGED caller /\ notified \subseteq notified'
    BY <1>6 DEF ArpTask, TaskTimeout, RequestJoins, RequestStarts,
                RequestRefused, TakeRequest, CacheBegin, CacheEnd
  <2> QED
    BY <2>1, WakingStep DEF R!Next
<1>7. CASE \/ \E reply \in Replies : ArpInput([ip |-> reply[1], mac |-> reply[2]])
           \/ Tick
           \/ UNCHANGED vars
  BY <1>7, InvisibleStep DEF ArpInput, Tick, vars
<1> QED
  BY <1>1, <1>2, <1>3, <1>4, <1>5, <1>6, <1>7 DEF Next, CallerStep, R!Next

\* arp.c implements Resolver: in every behaviour a task is woken only while
\* it sleeps in a call of arp_get_mac_addr, once for each call, and no call
\* returns before its task was woken.
THEOREM ArpImplementsResolver == Spec => ResolverSafety
<1>1. Init => R!Init
  <2> SUFFICES ASSUME Init PROVE R!Init
    OBVIOUS
  <2>1. \A t \in Tasks : caller[t].pc = "idle" /\ caller[t].mac = NoMAC
    BY DEF Init
  <2>2. \A t \in Tasks : Phase(t) = "idle"
    BY <2>1 DEF Phase
  <2>3. CallMap = [t \in Tasks |-> "idle"]
    BY <2>2 DEF CallMap
  <2>4. FoundMap = [t \in Tasks |-> FALSE]
    BY <2>1 DEF FoundMap
  <2> QED
    BY <2>3, <2>4 DEF R!Init, CallMap, FoundMap
<1>2. WaiterInv /\ WaiterInv' /\ [Next]_vars => [R!Next]_(R!rvars)
  BY StepRefines DEF R!rvars, CallMap, FoundMap
<1> QED
  BY <1>1, <1>2, WaiterInit, WaiterNext, PTL
     DEF Spec, ResolverSafety, R!Spec
=============================================================================
