---------------------------- MODULE WifiManager ----------------------------
(***************************************************************************)
(* Start-up and driver callbacks (wifi_manager.c), with the ARP scanner    *)
(* (arp_scanner.c) that an application may register.                       *)
(*                                                                         *)
(* Three tasks run here: the one that calls wifi_begin, the event loop,    *)
(* which runs the event handlers one at a time, and the driver's, which    *)
(* runs wifi_rxcb.  Start-up is a race: from esp_wifi_start on, events and *)
(* frames arrive while wifi_begin is still creating queues and tasks.      *)
(*                                                                         *)
(* A failed ESP_ERROR_CHECK aborts the program and is left out; a protocol *)
(* that cannot create its queues or its task only logs it, and wifi_begin  *)
(* goes on.                                                                *)
(***************************************************************************)
EXTENDS Integers, Sequences

CONSTANTS EVENT_QUEUE_LEN, LAST_HOST

ASSUME WifiConstants == {EVENT_QUEUE_LEN, LAST_HOST} \subseteq Nat \ {0}

VARIABLES
    begin,        \* the call wifi_begin makes next
    done,         \* what it has set up, and who has registered
    link,         \* the driver's state
    events,       \* posted and not yet dispatched
    loop,         \* the event loop: the handler it runs, and begin_scan's i
    rx,           \* where wifi_rxcb is with the frame it handles
    call, found   \* the scanner's calls of arp_get_mac_addr

vars == <<begin, done, link, events, loop, rx, call, found>>

R == INSTANCE Resolver WITH Callers <- {"event_loop"}

Handlers == {"wifi_event_handler", "wifi_connect_event"}
Setup    == Handlers \cup {"context", "arp", "ipv4", "tcp", "rxcb"}
Events   == {"STA_START", "STA_CONNECTED", "STA_DISCONNECTED"}

Init == /\ begin = "context"
        /\ done = {}
        /\ link = "off"
        /\ events = << >>
        /\ loop = [pc |-> "wait", i |-> 0]
        /\ rx = "idle"
        /\ R!Init

loopvars == <<loop, call, found>>

-----------------------------------------------------------------------------
(* wifi_begin.                                                             *)

\* The driver is initialised, and ARP, IPv4 and ICMP are told the addresses.
SetContext ==
    /\ begin = "context"
    /\ done' = done \cup {"context"}
    /\ begin' = "register"
    /\ UNCHANGED <<link, events, loopvars, rx>>

RegisterHandler_forgotten ==
    /\ begin = "register"
    /\ begin' = "start"
    /\ UNCHANGED <<done, link, events, loopvars, rx>>

RegisterHandler ==
    /\ begin = "register"
    /\ done' = done \cup {"wifi_event_handler"}
    /\ begin' = "start"
    /\ UNCHANGED <<link, events, loopvars, rx>>

WifiStart ==
    /\ begin = "start"
    /\ link = "off"
    /\ Len(events) < EVENT_QUEUE_LEN
    /\ link' = "down"
    /\ events' = Append(events, "STA_START")
    /\ begin' = "arp"
    /\ UNCHANGED <<done, loopvars, rx>>

ArpInit_rxcbFirst ==
    /\ begin = "arp"
    /\ begin' = "ipv4"
    /\ done' = done \cup {"arp", "rxcb"}
    /\ UNCHANGED <<link, events, loopvars, rx>>

\* arp_init: two queues, their set and the task, or only some of them.
ArpInit ==
    /\ begin = "arp"
    /\ begin' = "ipv4"
    /\ done' \in {done, done \cup {"arp"}}
    /\ UNCHANGED <<link, events, loopvars, rx>>

\* ipv4_init goes on to init_tcp only when its own part has succeeded.
Ipv4Init ==
    /\ begin = "ipv4"
    /\ begin' = "queue"
    /\ done' \in {done, done \cup {"ipv4"}, done \cup {"ipv4", "tcp"}}
    /\ UNCHANGED <<link, events, loopvars, rx>>

\* Without the queue for deferred freeing the callback is not registered.
FreeQueueFails ==
    /\ begin = "queue"
    /\ begin' = "end"
    /\ UNCHANGED <<done, link, events, loopvars, rx>>

RegisterRxcb ==
    /\ begin = "queue"
    /\ begin' = "end"
    /\ done' = done \cup {"rxcb"}
    /\ UNCHANGED <<link, events, loopvars, rx>>

\* arp_scanner_init needs the event loop, which wifi_begin creates.
ArpScannerInit ==
    /\ begin = "end"
    /\ "wifi_connect_event" \notin done
    /\ done' = done \cup {"wifi_connect_event"}
    /\ UNCHANGED <<begin, link, events, loopvars, rx>>

WifiBegin == \/ SetContext \/ RegisterHandler \/ WifiStart \/ ArpInit
             \/ Ipv4Init \/ FreeQueueFails \/ RegisterRxcb

-----------------------------------------------------------------------------
(* The driver.                                                             *)

LinkUp ==
    /\ link = "connecting"
    /\ Len(events) < EVENT_QUEUE_LEN
    /\ link' = "up"
    /\ events' = Append(events, "STA_CONNECTED")
    /\ UNCHANGED <<begin, done, loopvars, rx>>

LinkDown ==
    /\ link \in {"connecting", "up"}
    /\ Len(events) < EVENT_QUEUE_LEN
    /\ link' = "down"
    /\ events' = Append(events, "STA_DISCONNECTED")
    /\ UNCHANGED <<begin, done, loopvars, rx>>

\* A frame, once wifi_begin has registered the callback.
Receive ==
    /\ link = "up"
    /\ "rxcb" \in done
    /\ rx = "idle"
    /\ rx' = "input"
    /\ UNCHANGED <<begin, done, link, events, loopvars>>

\* wifi_rxcb is in arp_input, or in ipv4_input, which goes on to ICMP or TCP
\* (RxPath says what they do with the frame).
WifiRxcb ==
    /\ rx = "input"
    /\ rx' = "free"
    /\ UNCHANGED <<begin, done, link, events, loopvars>>

\* The buffer goes back to the driver or to the heap.
FreeRx ==
    /\ rx = "free"
    /\ rx' = "idle"
    /\ UNCHANGED <<begin, done, link, events, loopvars>>

-----------------------------------------------------------------------------
(* The event loop: an event goes to the handlers registered when it is     *)
(* dispatched, and to nobody when there are none.                          *)

Dispatched(event) == /\ loop.pc = "wait"
                     /\ events # << >>
                     /\ Head(events) = event
                     /\ events' = Tail(events)

\* wifi_event_handler connects when the station has started.
HandleStart ==
    /\ Dispatched("STA_START")
    /\ link' = IF "wifi_event_handler" \in done /\ link = "down"
               THEN "connecting" ELSE link
    /\ UNCHANGED <<begin, done, loopvars, rx>>

\* wifi_connect_event, when it is registered, runs begin_scan.
HandleConnected ==
    /\ Dispatched("STA_CONNECTED")
    /\ loop' = IF "wifi_connect_event" \in done
               THEN [pc |-> "scan", i |-> 1] ELSE loop
    /\ UNCHANGED <<begin, done, link, call, found, rx>>

\* A lost connection is only logged.
HandleDisconnected ==
    /\ Dispatched("STA_DISCONNECTED")
    /\ UNCHANGED <<begin, done, link, loopvars, rx>>

MoreHosts_inclusive == loop.i <= LAST_HOST
MoreHosts == loop.i < LAST_HOST     \* i < 255

ScanNext ==
    /\ loop.pc = "scan"
    /\ MoreHosts
    /\ R!Call("event_loop")
    /\ loop' = [loop EXCEPT !.pc = "arp"]
    /\ UNCHANGED <<begin, done, link, events, rx>>

\* i is a uint8_t: after 255 comes 0.
ScanReturns ==
    /\ loop.pc = "arp"
    /\ R!Return("event_loop")
    /\ loop' = [pc |-> "scan", i |-> (loop.i + 1) % (LAST_HOST + 1)]
    /\ UNCHANGED <<begin, done, link, events, rx>>

ScanEnds ==
    /\ loop.pc = "scan"
    /\ ~ MoreHosts
    /\ loop' = [pc |-> "wait", i |-> 0]
    /\ UNCHANGED <<begin, done, link, events, call, found, rx>>

EventLoop == \/ HandleStart \/ HandleConnected \/ HandleDisconnected
             \/ ScanNext \/ ScanReturns \/ ScanEnds

\* The promise of Resolver holds once arp_init has succeeded.
ArpWakes == /\ "arp" \in done
            /\ R!WakeUp("event_loop")
            /\ UNCHANGED <<begin, done, link, events, loop, rx>>

Next == \/ WifiBegin \/ ArpScannerInit \/ EventLoop \/ ArpWakes
        \/ LinkUp \/ LinkDown \/ Receive \/ WifiRxcb \/ FreeRx

Spec == Init /\ [][Next]_vars

\* Every task runs again and again, and ARP keeps the promise of Resolver.
\* Nothing makes the driver connect or the application register its scanner.
FairSpec == /\ Spec
            /\ WF_vars(WifiBegin) /\ WF_vars(EventLoop) /\ WF_vars(ArpWakes)
            /\ WF_vars(WifiRxcb \/ FreeRx)

-----------------------------------------------------------------------------
\* Every variable keeps its type; in particular the scanner asks for the hosts
\* 1 to 254 only, and its uint8_t does not get to wrap.
TypeOK ==
    /\ begin \in {"context", "register", "start", "arp", "ipv4", "queue", "end"}
    /\ done \subseteq Setup
    /\ link \in {"off", "down", "connecting", "up"}
    /\ events \in Seq(Events)
    /\ loop \in [pc : {"wait", "scan", "arp"}, i : 0 .. LAST_HOST]
    /\ loop.pc # "wait" => loop.i # 0
    /\ loop.pc = "arp" => loop.i < LAST_HOST
    /\ rx \in {"idle", "input", "free"}
    /\ call["event_loop"] \in {"idle", "asleep", "awake"}

\* No frame reaches arp_input, icmpv4_input or input_tcp, and no scan calls
\* arp_get_mac_addr, before wifi_begin has been through every init function,
\* although the driver, its events and its frames run ahead of it.
InputAfterInit ==
    rx # "idle" \/ loop.pc # "wait" => "context" \in done /\ begin = "end"

\* Once wifi_begin has started the driver, the station gets to
\* esp_wifi_connect: its first event is not missed.
StartConnects ==
    events # << >> /\ Head(events) = "STA_START" ~> link = "connecting"

\* The event loop comes back from every handler, the scan of all hosts
\* included, so the events posted meanwhile are dispatched (unless arp_init
\* has failed, which nobody checks before the first call).
EventsDispatched ==
    /\ loop.pc # "wait" ~> loop.pc = "wait" \/ "arp" \notin done
    /\ Len(events) = EVENT_QUEUE_LEN
         ~> Len(events) < EVENT_QUEUE_LEN \/ "arp" \notin done
=============================================================================
