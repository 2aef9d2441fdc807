-------------------------------- MODULE Arp --------------------------------
(***************************************************************************)
(* Address resolution: components/net_stack/protocols/arp.c.               *)
(*                                                                         *)
(* A task that needs a MAC address puts a request on arp_request_queue     *)
(* and sleeps on its own task notification (arp_get_mac_addr).  arp_task   *)
(* is the only owner of arp_pending_tasks: it parks the sleeper, broadcasts *)
(* an ARP request, and wakes every parked task when a reply is cached, when *)
(* the entry expires, or when it cannot park the task at all.  The woken   *)
(* task then reads ip_mac_cache itself, without a lock, while arp_task may *)
(* be writing it.                                                          *)
(*                                                                         *)
(* Tasks are preemptible at equal priority, so the cache is written in two *)
(* steps (first memcpy the IP, then the MAC) and read in two steps (match  *)
(* the IP, then copy the MAC).  Everything else arp_task does between two  *)
(* waits touches only its own data and is one step.                        *)
(*                                                                         *)
(* Time: expiration_tick is kept as the number of ticks still to go, which *)
(* is exact as long as the tick counter does not wrap.                     *)
(***************************************************************************)
EXTENDS Naturals, Sequences, FiniteSetsExt

CONSTANTS
    Tasks,                \* tasks that call arp_get_mac_addr
    IPs, ZeroIP,          \* addresses; ZeroIP is the all-zero address
    MACs, ZeroMAC, NoMAC, \* NoMAC: the call returned ESP_FAIL
    Replies,              \* the <<ip, mac>> pairs hosts announce in replies
    MAX_PENDING_IPS, MAX_PENDING_PER_IP, IP_MAC_CACHE_LENGTH,
    REQUEST_QUEUE_LEN, INPUT_QUEUE_LEN,
    ARP_TIMEOUT_TICKS

ASSUME ArpConstants ==
    /\ MAX_PENDING_IPS \in Nat \ {0}
    /\ MAX_PENDING_PER_IP \in Nat \ {0}
    /\ IP_MAC_CACHE_LENGTH \in Nat \ {0}
    /\ REQUEST_QUEUE_LEN \in Nat \ {0}
    /\ INPUT_QUEUE_LEN \in Nat \ {0}
    /\ ARP_TIMEOUT_TICKS \in Nat
    /\ Replies \subseteq IPs \X MACs
    /\ ZeroIP \in IPs /\ ZeroMAC \in MACs /\ NoMAC \notin MACs

VARIABLES
    caller,             \* control state of each calling task
    notified,           \* tasks whose notification count is not zero
    arp_request_queue, arp_input_queue,
    arp_queue_set,      \* FIFO of the queues that received an item
    arp_pending_tasks,
    ip_mac_cache, ip_mac_cache_top,
    worker              \* where arp_task is inside add_ip_mac_cache_entry

vars == <<caller, notified, arp_request_queue, arp_input_queue, arp_queue_set,
          arp_pending_tasks, ip_mac_cache, ip_mac_cache_top, worker>>

PendingIdx == 1 .. MAX_PENDING_IPS
CacheIdx   == 1 .. IP_MAC_CACHE_LENGTH

Request == [ip : IPs, task : Tasks]
Entry   == [ip : IPs, mac : MACs]
Pending == [ip : IPs, waiting : Seq(Tasks), ttl : 0 .. ARP_TIMEOUT_TICKS]
Caller  == [pc : {"idle", "request", "wait", "lookup", "copy"},
            ip : IPs, idx : CacheIdx, mac : MACs \cup {NoMAC}]
Worker  == [pc : {"select", "write"}, idx : CacheIdx, entry : Entry]

ZeroEntry == [ip |-> ZeroIP, mac |-> ZeroMAC]
Idle      == [pc |-> "select", idx |-> 1, entry |-> ZeroEntry]

Init ==
    /\ caller = [t \in Tasks |->
                   [pc |-> "idle", ip |-> ZeroIP, idx |-> 1, mac |-> NoMAC]]
    /\ notified = {}
    /\ arp_request_queue = << >>
    /\ arp_input_queue = << >>
    /\ arp_queue_set = << >>
    /\ arp_pending_tasks = [i \in PendingIdx |->
                              [ip |-> ZeroIP, waiting |-> << >>, ttl |-> 0]]
    /\ ip_mac_cache = [i \in CacheIdx |-> ZeroEntry]
    /\ ip_mac_cache_top = 1
    /\ worker = Idle

-----------------------------------------------------------------------------
(* The calling task: arp_get_mac_addr and arp_get_cached_mac_addr.         *)

ArpGetMacAddr(t, ip) ==
    /\ caller[t].pc = "idle"
    /\ caller' = [caller EXCEPT ![t] =
                    [pc |-> "request", ip |-> ip, idx |-> 1, mac |-> NoMAC]]
    /\ UNCHANGED <<notified, arp_request_queue, arp_input_queue, arp_queue_set,
                   arp_pending_tasks, ip_mac_cache, ip_mac_cache_top, worker>>

\* xQueueSend(arp_request_queue, portMAX_DELAY) blocks while the queue is full.
SendRequest(t) ==
    /\ caller[t].pc = "request"
    /\ Len(arp_request_queue) < REQUEST_QUEUE_LEN
    /\ arp_request_queue' =
         Append(arp_request_queue, [ip |-> caller[t].ip, task |-> t])
    /\ arp_queue_set' = Append(arp_queue_set, "request")
    /\ caller' = [caller EXCEPT ![t].pc = "wait"]
    /\ UNCHANGED <<notified, arp_input_queue, arp_pending_tasks, ip_mac_cache,
                   ip_mac_cache_top, worker>>

\* ulTaskNotifyTake(pdTRUE, portMAX_DELAY): sleeps until notified, clears the
\* count.
NotifyTake(t) ==
    /\ caller[t].pc = "wait"
    /\ t \in notified
    /\ notified' = notified \ {t}
    /\ caller' = [caller EXCEPT ![t].pc = "lookup"]
    /\ UNCHANGED <<arp_request_queue, arp_input_queue, arp_queue_set,
                   arp_pending_tasks, ip_mac_cache, ip_mac_cache_top, worker>>

CachedAt_short(ip) == {i \in 1 .. IP_MAC_CACHE_LENGTH - 1 :
                          ip_mac_cache[i].ip = ip}

\* The entries for an IP; the code's loops take the first one.
CachedAt(ip) == {i \in CacheIdx : ip_mac_cache[i].ip = ip}

\* The scan of arp_get_cached_mac_addr; "copy" is the memcpy it has yet to do.
Lookup(t) ==
    /\ caller[t].pc = "lookup"
    /\ \/ /\ CachedAt(caller[t].ip) = {}
          /\ caller' = [caller EXCEPT ![t].pc = "idle"]
       \/ /\ CachedAt(caller[t].ip) # {}
          /\ caller' = [caller EXCEPT ![t] =
               [@ EXCEPT !.pc = "copy", !.idx = Min(CachedAt(caller[t].ip))]]
    /\ UNCHANGED <<notified, arp_request_queue, arp_input_queue, arp_queue_set,
                   arp_pending_tasks, ip_mac_cache, ip_mac_cache_top, worker>>

Copy(t) ==
    /\ caller[t].pc = "copy"
    /\ caller' = [caller EXCEPT ![t] =
         [@ EXCEPT !.pc = "idle", !.idx = 1,
                   !.mac = ip_mac_cache[caller[t].idx].mac]]
    /\ UNCHANGED <<notified, arp_request_queue, arp_input_queue, arp_queue_set,
                   arp_pending_tasks, ip_mac_cache, ip_mac_cache_top, worker>>

-----------------------------------------------------------------------------
(* The receive callback: arp_input.  A reply addressed to this host is     *)
(* handed to arp_task without waiting, and lost when the queue is full.    *)
(* Requests are answered on the spot and touch no state of this module,    *)
(* and everything else is discarded.                                       *)

ArpInput(entry) ==
    /\ Len(arp_input_queue) < INPUT_QUEUE_LEN
    /\ arp_input_queue' = Append(arp_input_queue, entry)
    /\ arp_queue_set' = Append(arp_queue_set, "input")
    /\ UNCHANGED <<caller, notified, arp_request_queue, arp_pending_tasks,
                   ip_mac_cache, ip_mac_cache_top, worker>>

-----------------------------------------------------------------------------
(* arp_task.                                                               *)

Waiters(i) == {arp_pending_tasks[i].waiting[k] :
                 k \in 1 .. Len(arp_pending_tasks[i].waiting)}

Expired_never    == {}
Cleaned_keeps    == arp_pending_tasks
HasRoom_offByOne(waiting) == Len(waiting) <= MAX_PENDING_PER_IP

\* The clean-up arp_task runs after every wake, before it looks at the handle.
Expired  == {i \in PendingIdx : arp_pending_tasks[i].ttl = 0}
TimedOut == UNION {Waiters(i) : i \in Expired}
Cleaned  == [i \in PendingIdx |->
               IF i \in Expired
               THEN [arp_pending_tasks[i] EXCEPT !.waiting = << >>]
               ELSE arp_pending_tasks[i]]

FindPending(pending, ip) ==
    {i \in PendingIdx : pending[i].waiting # << >> /\ pending[i].ip = ip}
FreePending(pending) == {i \in PendingIdx : pending[i].waiting = << >>}
HasRoom(waiting) == Len(waiting) < MAX_PENDING_PER_IP

Selected(q) ==
    /\ worker.pc = "select"
    /\ arp_queue_set # << >>
    /\ Head(arp_queue_set) = q
    /\ arp_queue_set' = Tail(arp_queue_set)

\* The select timed out, or woke, with nothing to do but the clean-up.
TaskTimeout ==
    /\ worker.pc = "select"
    /\ arp_queue_set = << >>
    /\ TimedOut # {}
    /\ arp_pending_tasks' = Cleaned
    /\ notified' = notified \cup TimedOut
    /\ UNCHANGED <<caller, arp_request_queue, arp_input_queue, arp_queue_set,
                   ip_mac_cache, ip_mac_cache_top, worker>>

TakeRequest ==
    /\ Selected("request")
    /\ arp_request_queue # << >>
    /\ arp_request_queue' = Tail(arp_request_queue)
    /\ UNCHANGED <<caller, arp_input_queue, ip_mac_cache, ip_mac_cache_top,
                   worker>>

\* A request for this IP is already out: the task joins its waiters.
RequestJoins ==
    /\ TakeRequest
    /\ LET req   == Head(arp_request_queue)
           found == FindPending(Cleaned, req.ip)
       IN  /\ found # {}
           /\ HasRoom(Cleaned[Min(found)].waiting)
           /\ arp_pending_tasks' =
                [Cleaned EXCEPT ![Min(found)].waiting = Append(@, req.task)]
           /\ notified' = notified \cup TimedOut

\* The first request for this IP: it is broadcast and the task is parked.
RequestStarts ==
    /\ TakeRequest
    /\ LET req  == Head(arp_request_queue)
           free == FreePending(Cleaned)
       IN  /\ FindPending(Cleaned, req.ip) = {}
           /\ free # {}
           /\ arp_pending_tasks' =
                [Cleaned EXCEPT ![Min(free)] =
                   [ip |-> req.ip, waiting |-> <<req.task>>,
                    ttl |-> ARP_TIMEOUT_TICKS]]
           /\ notified' = notified \cup TimedOut

\* The task cannot be parked: no free entry, no room in the entry, or
\* send_arp_request failed and left the entry it had taken free again.
RequestRefused ==
    /\ TakeRequest
    /\ LET req   == Head(arp_request_queue)
           found == FindPending(Cleaned, req.ip)
           free  == FreePending(Cleaned)
       IN  /\ \/ /\ found = {} /\ free = {}
                 /\ arp_pending_tasks' = Cleaned
              \/ /\ found # {}
                 /\ ~ HasRoom(Cleaned[Min(found)].waiting)
                 /\ arp_pending_tasks' = Cleaned
              \/ /\ found = {} /\ free # {}
                 /\ arp_pending_tasks' =
                      [Cleaned EXCEPT ![Min(free)] =
                         [ip |-> req.ip, waiting |-> << >>,
                          ttl |-> ARP_TIMEOUT_TICKS]]
           /\ notified' = notified \cup TimedOut \cup {req.task}

NextTop_noWrap == ip_mac_cache_top + 1
NextTop == (ip_mac_cache_top % IP_MAC_CACHE_LENGTH) + 1

MacWritten_atTop ==
    [ip_mac_cache EXCEPT ![ip_mac_cache_top].mac = worker.entry.mac]
MacWritten == [ip_mac_cache EXCEPT ![worker.idx].mac = worker.entry.mac]

\* add_ip_mac_cache_entry up to the first memcpy: an entry for this IP is
\* kept, otherwise the entry at ip_mac_cache_top gets the new IP.
CacheBegin ==
    /\ Selected("input")
    /\ arp_input_queue # << >>
    /\ arp_input_queue' = Tail(arp_input_queue)
    /\ arp_pending_tasks' = Cleaned
    /\ notified' = notified \cup TimedOut
    /\ LET entry == Head(arp_input_queue)
           known == CachedAt(entry.ip)
       IN  \/ /\ known # {}
              /\ worker' = [pc |-> "write", idx |-> Min(known), entry |-> entry]
              /\ UNCHANGED <<ip_mac_cache, ip_mac_cache_top>>
           \/ /\ known = {}
              /\ worker' = [pc |-> "write", idx |-> ip_mac_cache_top,
                            entry |-> entry]
              /\ ip_mac_cache' =
                   [ip_mac_cache EXCEPT ![ip_mac_cache_top].ip = entry.ip]
              /\ ip_mac_cache_top' = NextTop
    /\ UNCHANGED <<caller, arp_request_queue>>

\* The MAC is written, then every task parked on this IP is woken and the
\* pending entry freed.
CacheEnd ==
    /\ worker.pc = "write"
    /\ worker' = Idle
    /\ ip_mac_cache' = MacWritten
    /\ LET found == FindPending(arp_pending_tasks, worker.entry.ip)
       IN  \/ /\ found = {}
              /\ UNCHANGED <<arp_pending_tasks, notified>>
           \/ /\ found # {}
              /\ arp_pending_tasks' =
                   [arp_pending_tasks EXCEPT ![Min(found)].waiting = << >>]
              /\ notified' = notified \cup Waiters(Min(found))
    /\ UNCHANGED <<caller, arp_request_queue, arp_input_queue, arp_queue_set,
                   ip_mac_cache_top>>

\* One tick passes.  Only ticks that bring a parked task closer to its
\* expiration can be told apart.
Tick ==
    /\ \E i \in PendingIdx : /\ arp_pending_tasks[i].waiting # << >>
                             /\ arp_pending_tasks[i].ttl > 0
    /\ arp_pending_tasks' =
         [i \in PendingIdx |->
            IF arp_pending_tasks[i].ttl > 0
            THEN [arp_pending_tasks[i] EXCEPT !.ttl = @ - 1]
            ELSE arp_pending_tasks[i]]
    /\ UNCHANGED <<caller, notified, arp_request_queue, arp_input_queue,
                   arp_queue_set, ip_mac_cache, ip_mac_cache_top, worker>>

-----------------------------------------------------------------------------
CallerStep(t) == NotifyTake(t) \/ Lookup(t) \/ Copy(t)

ArpTask == \/ TaskTimeout \/ RequestJoins \/ RequestStarts \/ RequestRefused
           \/ CacheBegin \/ CacheEnd

Next ==
    \/ \E t \in Tasks : \/ \E ip \in IPs : ArpGetMacAddr(t, ip)
                        \/ SendRequest(t)
                        \/ CallerStep(t)
    \/ \E reply \in Replies : ArpInput([ip |-> reply[1], mac |-> reply[2]])
    \/ ArpTask
    \/ Tick

Spec == Init /\ [][Next]_vars

\* arp_task and the callers run at priority 1 and are time-sliced, so a step
\* that stays enabled is taken.  A sender blocked on a full queue waits in
\* FIFO order of its priority, so a place is not taken from it for ever.
FairSpec ==
    /\ Spec
    /\ WF_vars(ArpTask)
    /\ WF_vars(Tick)
    /\ \A t \in Tasks : WF_vars(CallerStep(t)) /\ SF_vars(SendRequest(t))

-----------------------------------------------------------------------------
(* Properties.                                                             *)

\* Every variable keeps its type; in particular the write position of the
\* cache (ip_mac_cache_top) always names an entry of the array.
TypeOK ==
    /\ caller \in [Tasks -> Caller]
    /\ notified \in SUBSET Tasks
    /\ arp_request_queue \in Seq(Request)
    /\ arp_input_queue \in Seq(Entry)
    /\ arp_queue_set \in Seq({"request", "input"})
    /\ arp_pending_tasks \in [PendingIdx -> Pending]
    /\ ip_mac_cache \in [CacheIdx -> Entry]
    /\ ip_mac_cache_top \in CacheIdx
    /\ worker \in Worker

InQueue(t)  == \E k \in 1 .. Len(arp_request_queue) :
                  arp_request_queue[k].task = t
Parked(t) == \E i \in PendingIdx :
                \E k \in 1 .. Len(arp_pending_tasks[i].waiting) :
                   arp_pending_tasks[i].waiting[k] = t

\* No wake-up is lost and none is given twice: a task sleeping in
\* ulTaskNotifyTake is in exactly one place - its request is queued, or it
\* is parked by arp_task, or its notification is pending - and a task that
\* is not sleeping there is in none of them.  A second notification would
\* release the task's NEXT call before it is answered.
WaiterAccounted ==
    \A t \in Tasks :
        /\ caller[t].pc = "wait" <=> InQueue(t) \/ Parked(t) \/ t \in notified
        /\ ~ (InQueue(t) /\ Parked(t))
        /\ ~ (InQueue(t) /\ t \in notified)
        /\ ~ (Parked(t) /\ t \in notified)

\* A task is queued once and parked once: two parkings would wake it twice.
WaiterOnce ==
    /\ \A j, k \in 1 .. Len(arp_request_queue) :
          arp_request_queue[j].task = arp_request_queue[k].task => j = k
    /\ \A i1, i2 \in PendingIdx :
          \A k1 \in 1 .. Len(arp_pending_tasks[i1].waiting),
             k2 \in 1 .. Len(arp_pending_tasks[i2].waiting) :
             arp_pending_tasks[i1].waiting[k1] = arp_pending_tasks[i2].waiting[k2]
               => i1 = i2 /\ k1 = k2

\* The pending table never overruns waiting_tasks[MAX_PENDING_PER_IP], and an
\* IP is pending in one entry only: add_ip_mac_cache_entry wakes the tasks of
\* the first entry it finds, so a second one would sleep until its timeout.
PendingSound ==
    /\ \A i \in PendingIdx :
          Len(arp_pending_tasks[i].waiting) <= MAX_PENDING_PER_IP
    /\ \A i, j \in PendingIdx :
          /\ arp_pending_tasks[i].waiting # << >>
          /\ arp_pending_tasks[j].waiting # << >>
          /\ arp_pending_tasks[i].ip = arp_pending_tasks[j].ip
          => i = j

\* An IP is cached in one entry only, so that an update is never shadowed by
\* an older entry in front of it (the duplicate check of
\* add_ip_mac_cache_entry).
CacheUnique ==
    \A i, j \in CacheIdx :
        ip_mac_cache[i].ip = ip_mac_cache[j].ip /\ ip_mac_cache[i].ip # ZeroIP
          => i = j

\* Every entry that arp_task is not in the middle of writing holds a pair
\* that some ARP reply announced.
CacheSound ==
    \A i \in CacheIdx :
        \/ ip_mac_cache[i].ip = ZeroIP
        \/ worker.pc = "write" /\ worker.idx = i
        \/ <<ip_mac_cache[i].ip, ip_mac_cache[i].mac>> \in Replies

\* Every call of arp_get_mac_addr returns, whatever replies are lost and
\* however full the tables are.
CallReturns == \A t \in Tasks : caller[t].pc # "idle" ~> caller[t].pc = "idle"

\* What "Returns ESP_OK if found" (arp.c:113) promises of a call that did
\* return ESP_OK: the MAC is one that a reply announced for that IP.
LookupSound ==
    \A t \in Tasks :
        caller[t].mac # NoMAC /\ caller[t].ip # ZeroIP
          => <<caller[t].ip, caller[t].mac>> \in Replies
=============================================================================
