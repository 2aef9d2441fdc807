----------------------------- MODULE WifiProofs -----------------------------
(***************************************************************************)
(* Start-up is safe for every length of the event queue and every number   *)
(* of hosts: no frame and no scan overtakes the init functions.            *)
(***************************************************************************)
EXTENDS WifiManager, TLAPS

\* TypeOK, and the scanner's calls as the function that Resolver updates.
WifiTypes == TypeOK /\ call \in [{"event_loop"} -> {"idle", "asleep", "awake"}]

\* wifi_begin works through its calls in order, and nothing that feeds the
\* stack is registered before it has reached the end: the frames come through
\* wifi_rxcb and the scans through wifi_connect_event.
SetupOrder ==
    /\ begin # "context" => "context" \in done
    /\ "rxcb" \in done \/ "wifi_connect_event" \in done => begin = "end"
    /\ rx # "idle" => "rxcb" \in done
    /\ loop.pc # "wait" => "wifi_connect_event" \in done

WifiInv == WifiTypes /\ SetupOrder

\* Nothing is registered at the start.
LEMMA WifiInit == Init => WifiInv
<1> SUFFICES ASSUME Init PROVE WifiInv
  OBVIOUS
<1>1. WifiTypes
  BY WifiConstants DEF Init, R!Init, WifiTypes, TypeOK, Setup
<1>2. SetupOrder
  BY DEF Init, SetupOrder
<1> QED
  BY <1>1, <1>2 DEF WifiInv

\* One step of wifi_begin, or the application's call of arp_scanner_init.
LEMMA BeginStep ==
    ASSUME WifiInv, WifiBegin \/ ArpScannerInit
    PROVE  WifiInv'
<1> USE DEF WifiInv, loopvars
<1>1. UNCHANGED <<loop, call, found, rx>>
  BY DEF WifiBegin, SetContext, RegisterHandler, WifiStart, ArpInit, Ipv4Init,
         FreeQueueFails, RegisterRxcb, ArpScannerInit
<1>3. /\ begin' \in {"context", "register", "start", "arp", "ipv4", "queue", "end"}
      /\ done' \subseteq Setup
      /\ link' \in {"off", "down", "connecting", "up"}
  BY DEF WifiTypes, TypeOK, WifiBegin, SetContext, RegisterHandler, WifiStart,
         ArpInit, Ipv4Init, FreeQueueFails, RegisterRxcb, ArpScannerInit, Setup,
         Handlers
<1>4. events' \in Seq(Events)
  BY DEF WifiTypes, TypeOK, WifiBegin, SetContext, RegisterHandler, WifiStart,
         ArpInit, Ipv4Init, FreeQueueFails, RegisterRxcb, ArpScannerInit, Events
<1>5. WifiTypes'
  BY <1>1, <1>3, <1>4 DEF WifiTypes, TypeOK
<1>6. done \subseteq done'
  BY DEF WifiBegin, SetContext, RegisterHandler, WifiStart, ArpInit, Ipv4Init,
         FreeQueueFails, RegisterRxcb, ArpScannerInit
<1>7. SetupOrder'
  BY <1>1, <1>6 DEF SetupOrder, WifiBegin, SetContext, RegisterHandler, WifiStart,
         ArpInit, Ipv4Init, FreeQueueFails, RegisterRxcb, ArpScannerInit
<1> QED
  BY <1>5, <1>7

\* The driver hands a frame to wifi_rxcb, which comes back.
LEMMA FrameStep ==
    ASSUME WifiInv, Receive \/ WifiRxcb \/ FreeRx
    PROVE  WifiInv'
<1> USE DEF WifiInv, loopvars
<1>1. UNCHANGED <<begin, done, link, events, loop, call, found>>
  BY DEF Receive, WifiRxcb, FreeRx
<1>2. rx' \in {"idle", "input", "free"} /\ (rx' # "idle" => "rxcb" \in done)
  BY DEF SetupOrder, Receive, WifiRxcb, FreeRx
<1>3. WifiTypes'
  BY <1>1, <1>2 DEF WifiTypes, TypeOK
<1>4. SetupOrder'
  BY <1>1, <1>2 DEF SetupOrder
<1> QED
  BY <1>3, <1>4

\* The event loop, the driver's events and the wake-ups of arp_task.
LEMMA LoopStep ==
    ASSUME WifiInv, EventLoop \/ ArpWakes \/ LinkUp \/ LinkDown
    PROVE  WifiInv'
<1> USE DEF WifiInv, loopvars
<1>1. UNCHANGED <<begin, done, rx>>
  BY DEF EventLoop, HandleStart, HandleConnected, HandleDisconnected, ScanNext,
         ScanReturns, ScanEnds, ArpWakes, LinkUp, LinkDown
<1>3. link' \in {"off", "down", "connecting", "up"}
  BY DEF WifiTypes, TypeOK, EventLoop, HandleStart, HandleConnected,
         HandleDisconnected, ScanNext, ScanReturns, ScanEnds, ArpWakes, LinkUp,
         LinkDown
<1>4. events' \in Seq(Events)
  <2>1. events \in Seq(Events)
    BY DEF WifiTypes, TypeOK
  <2>2. CASE LinkUp \/ LinkDown
    BY <2>1, <2>2 DEF LinkUp, LinkDown, Events
  <2>3. CASE HandleStart \/ HandleConnected \/ HandleDisconnected
    <3>1. events # << >> /\ events' = Tail(events)
      BY <2>3 DEF HandleStart, HandleConnected, HandleDisconnected, Dispatched
    <3> HIDE DEF Events
    <3> QED
      BY <2>1, <3>1
  <2>4. CASE ScanNext \/ ScanReturns \/ ScanEnds \/ ArpWakes
    BY <2>1, <2>4 DEF ScanNext, ScanReturns, ScanEnds, ArpWakes
  <2> QED
    BY <2>2, <2>3, <2>4 DEF EventLoop
<1>5. /\ loop' \in [pc : {"wait", "scan", "arp"}, i : 0 .. LAST_HOST]
      /\ loop'.pc # "wait" => loop'.i # 0
      /\ loop'.pc = "arp" => loop'.i < LAST_HOST
  <2>1. /\ loop \in [pc : {"wait", "scan", "arp"}, i : 0 .. LAST_HOST]
        /\ loop.pc # "wait" => loop.i # 0
        /\ loop.pc = "arp" => loop.i < LAST_HOST
    BY DEF WifiTypes, TypeOK
  <2>2. CASE ScanReturns
    <3>1. loop.i \in Nat /\ loop.i < LAST_HOST
      BY <2>1, <2>2 DEF ScanReturns
    <3>2. (loop.i + 1) % (LAST_HOST + 1) = loop.i + 1
      BY <3>1, WifiConstants
    <3>3. loop.i + 1 \in 0 .. LAST_HOST /\ loop.i + 1 # 0
      BY <3>1, WifiConstants
    <3> QED
      BY <2>2, <3>2, <3>3 DEF ScanReturns
  <2>3. CASE ScanNext
    BY <2>1, <2>3 DEF ScanNext, MoreHosts
  <2>4. CASE ~ (ScanNext \/ ScanReturns)
    BY <2>1, <2>4, WifiConstants
       DEF EventLoop, HandleStart, HandleConnected, HandleDisconnected, ScanEnds,
           ArpWakes, LinkUp, LinkDown
  <2> QED
    BY <2>2, <2>3, <2>4
<1>6. call' \in [{"event_loop"} -> {"idle", "asleep", "awake"}]
  <2>1. call \in [{"event_loop"} -> {"idle", "asleep", "awake"}]
    BY DEF WifiTypes
  <2>2. CASE ArpWakes
    BY <2>1, <2>2 DEF ArpWakes, R!WakeUp, R!Wake
  <2>3. CASE ScanNext \/ ScanReturns
    BY <2>1, <2>3 DEF ScanNext, ScanReturns, R!Call, R!Return
  <2>4. CASE ~ (ArpWakes \/ ScanNext \/ ScanReturns)
    BY <2>1, <2>4 DEF EventLoop, HandleStart, HandleConnected, HandleDisconnected,
                      ScanEnds, LinkUp, LinkDown
  <2> QED
    BY <2>2, <2>3, <2>4
<1>7. WifiTypes'
  BY <1>1, <1>3, <1>4, <1>5, <1>6 DEF WifiTypes, TypeOK
<1>8. loop'.pc # "wait" => "wifi_connect_event" \in done
  <2>1. loop \in [pc : {"wait", "scan", "arp"}, i : 0 .. LAST_HOST]
    BY DEF WifiTypes, TypeOK
  <2> QED
    BY <2>1 DEF SetupOrder, EventLoop, HandleStart, HandleConnected,
                HandleDisconnected, ScanNext, ScanReturns, ScanEnds, ArpWakes,
                LinkUp, LinkDown
<1>9. SetupOrder'
  BY <1>1, <1>8 DEF SetupOrder
<1> QED
  BY <1>7, <1>9

\* Every step of every task keeps the invariant.
LEMMA WifiNext == WifiInv /\ [Next]_vars => WifiInv'
<1> SUFFICES ASSUME WifiInv, [Next]_vars PROVE WifiInv'
  OBVIOUS
<1>1. CASE UNCHANGED vars
  BY <1>1 DEF vars, WifiInv, WifiTypes, TypeOK, SetupOrder
<1> QED
  BY <1>1, BeginStep, FrameStep, LoopStep DEF Next

\* The types of wifi_manager.c's state hold in every behaviour: for
\* every size of the network begin_scan asks for the hosts between the network's
\* and the broadcast address, and its uint8_t never wraps.
THEOREM WifiTypeCorrect == Spec => []TypeOK
<1>1. WifiInv => TypeOK
  BY DEF WifiInv, WifiTypes
<1> QED
  BY <1>1, WifiInit, WifiNext, PTL DEF Spec

\* No frame reaches the protocols and no scan calls arp_get_mac_addr before
\* wifi_begin has been through every init function, however the driver's
\* events and frames run ahead of it.
THEOREM NoInputBeforeInit == Spec => []InputAfterInit
<1>1. WifiInv => InputAfterInit
  BY DEF WifiInv, SetupOrder, InputAfterInit
<1> QED
  BY <1>1, WifiInit, WifiNext, PTL DEF Spec
=============================================================================
