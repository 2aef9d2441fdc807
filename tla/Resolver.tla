------------------------------ MODULE Resolver ------------------------------
(***************************************************************************)
(* What arp_get_mac_addr promises the tasks that call it.  The caller goes *)
(* to sleep, is woken once, for this very call, and returns with or        *)
(* without an address; every call returns in the end.  Nothing is said of  *)
(* how: ArpResolver shows that arp.c works like this, and the modules of   *)
(* the callers rely on it.                                                 *)
(***************************************************************************)
CONSTANT Callers

VARIABLES
    call,   \* where each caller is
    found   \* whether its last call returned ESP_OK

rvars == <<call, found>>

Init == /\ call = [t \in Callers |-> "idle"]
        /\ found = [t \in Callers |-> FALSE]

Call(t) == /\ call[t] = "idle"
           /\ call' = [call EXCEPT ![t] = "asleep"]
           /\ found' = [found EXCEPT ![t] = FALSE]

\* One step of arp_task wakes some of the sleepers: those of an expired or an
\* answered entry, and the one it cannot park.
Wake(S) == /\ S # {}
           /\ \A t \in S : call[t] = "asleep"
           /\ call' = [t \in Callers |-> IF t \in S THEN "awake" ELSE call[t]]
           /\ UNCHANGED found

Return(t) == /\ call[t] = "awake"
             /\ call' = [call EXCEPT ![t] = "idle"]
             /\ \E ok \in BOOLEAN : found' = [found EXCEPT ![t] = ok]

WakeUp(t) == \E S \in SUBSET Callers : t \in S /\ Wake(S)

Next == \/ \E t \in Callers : Call(t) \/ Return(t)
        \/ \E S \in SUBSET Callers : Wake(S)

Spec == Init /\ [][Next]_rvars

Fairness == \A t \in Callers : WF_rvars(WakeUp(t)) /\ WF_rvars(Return(t))

FairSpec == Spec /\ Fairness
=============================================================================
