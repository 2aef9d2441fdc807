---------------------------- MODULE ArpResolver ----------------------------
(* arp.c implements Resolver: the mapping of its state to the abstract one. *)
EXTENDS Arp

\* A task is asleep from its call until its notification is given.  A task
\* that is notified before its request is even sent would be awake at once,
\* which Resolver does not allow.
Phase(t) ==
    CASE caller[t].pc = "idle" -> "idle"
      [] caller[t].pc \in {"request", "wait"} /\ t \notin notified -> "asleep"
      [] OTHER -> "awake"

R == INSTANCE Resolver WITH
        Callers <- Tasks,
        call    <- [t \in Tasks |-> Phase(t)],
        found   <- [t \in Tasks |-> caller[t].mac # NoMAC]

\* Every step of the callers, of the receive callback and of arp_task is a
\* step of the abstract resolver or changes nothing it can see: a task is
\* never woken while awake or before it asked, never twice for one call, and
\* never returns without having been woken.
ResolverSafety == R!Spec

\* And under the fairness of the tasks every sleeper is woken and every woken
\* task returns, however the replies are lost: with ResolverSafety this is
\* the promise that ipv4_task and the scanner rely on.
ResolverProgress == R!Fairness
=============================================================================
