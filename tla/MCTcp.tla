------------------------------- MODULE MCTcp -------------------------------
(***************************************************************************)
(* Small instances of Tcp for TLC.  Applications and the network may act   *)
(* any number of times; here each kind of act has a budget.                *)
(***************************************************************************)
EXTENDS TcpProperties, TLC

CONSTANTS MAX_SEGMENTS, MAX_SENDS, MAX_CMDS,
          MCWaits, MCTypes           \* timeouts and commands of interest

VARIABLE budget

Seg(ctrl, seq, ack, len) ==
    [dst : PortNums, src : Peers, ctrl : {ctrl}, seq : seq, ack : ack, len : len]

\* What a peer sends to a port that connected to it: the handshake's answer,
\* data, acknowledgements of the SYN and of the data, its FIN, a reset.
ServerSegments ==
    UNION {Seg({"SYN", "ACK"}, {0}, {1}, {0}),
           Seg({"ACK"}, {1}, {1, 2}, {0, 1}),
           Seg({"FIN", "ACK"}, {1}, {1, 2}, {0}),
           Seg({"ACK"}, {2}, {2}, {0}),
           Seg({"RST"}, {0}, {0}, {0})}

\* What a peer sends to a port that listens.
ClientSegments ==
    UNION {Seg({"SYN"}, {0}, {0}, {0}),
           Seg({"ACK"}, {1}, {1, 2}, {0}),
           Seg({"FIN", "ACK"}, {1}, {1}, {0, 1}),
           Seg({"ACK"}, {2}, {1, 2}, {0}),
           Seg({"RST"}, {0}, {0}, {0})}

BlockSymmetry == Permutations(Blocks)

mcvars == <<vars, budget>>

Spend(kind) == budget[kind] > 0 /\ budget' = [budget EXCEPT ![kind] = @ - 1]

MCInit == /\ Init
          /\ budget = [seg |-> MAX_SEGMENTS, send |-> MAX_SENDS, cmd |-> MAX_CMDS]

MCEnvironment ==
    \/ /\ Spend("send")
       /\ \E c \in Apps, self \in PortNums, other \in Peers, d \in Blocks,
             len \in Lens, wait \in MCWaits :
             TcpSend(c, self, other, d, len, wait)
    \/ Spend("seg") /\ \E seg \in Segments : InputTcp(seg)
    \/ Spend("cmd") /\ \E cmd \in {x \in Cmd : x.type \in MCTypes} : PortCmd(cmd)

MCNext == MCEnvironment \/ (System /\ UNCHANGED budget)

MCSpec == MCInit /\ [][MCNext]_mcvars
MCFairSpec == MCSpec /\ Fairness
=============================================================================
