----------------------------- MODULE MCTcpPair -----------------------------
(* Instances of TcpPair for TLC. *)
EXTENDS TcpStream

NoCalls     == [e \in Ends |-> 0]
OneEach     == [e \in Ends |-> 1]
ClientOnce  == [NoCalls EXCEPT !["client"] = 1]
ClientTwice == [NoCalls EXCEPT !["client"] = 2]

\* Only these need be lost: any other segment may stay in the network and
\* never arrive, as fairness asks for the arrival of content only.
DataSegments == {PSHACK}
=============================================================================
