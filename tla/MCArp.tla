------------------------------- MODULE MCArp -------------------------------
(* Small instances of Arp for TLC. *)
EXTENDS ArpResolver, TLC

CONSTANTS a, b, c, ma, mb

\* Hosts b and c keep their addresses, host a has had its interface replaced.
MCReplies == {<<a, ma>>, <<a, mb>>, <<b, mb>>, <<c, ma>>}

\* A single host that may answer.
MCReplyA == {<<a, ma>>}

\* Callers are interchangeable; the addresses are not.
TaskSymmetry == Permutations(Tasks)
=============================================================================
