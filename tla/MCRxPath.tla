------------------------------ MODULE MCRxPath ------------------------------
(***************************************************************************)
(* Frames for RxPath.  Header faults are tried with one body, and bodies   *)
(* with a good header.                                                     *)
(***************************************************************************)
EXTENDS RxPath

CONSTANTS m0, m1, m2, mb

MCSelf == [ip |-> <<49320, 486>>, mac |-> m1]    \* 192.168.1.230
MCPeer == [ip |-> <<49320, 471>>, mac |-> m2]    \* 192.168.1.215
Far    == [ip |-> <<65535, 65535>>, mac |-> m2]

ArpFrames ==
    [ethertype : {"arp"}, dst_mac : {m1, mb}, hardware_type : {1, 6},
     protocol_type : {2048, 0}, operation : {1, 2, 3}, src_mac : {m2},
     src_ip : {MCPeer.ip}, target_mac : {m0, m1}, dst_ip : {MCSelf.ip, Far.ip}]

Checked(hdr) ==
    [hdr EXCEPT !.header_checksum =
       ChecksumOfWords(HeaderWords([hdr EXCEPT !.header_checksum = 0]))]

Headers(versions, ihls, totals, ids, protocols, srcs, dsts) ==
    [version : versions, ihl : ihls, dscp_and_ecn : {0}, total_length : totals,
     identification : ids, flags : {0}, ttl : {64}, protocol : protocols,
     header_checksum : {0}, src : srcs, dst : dsts]

Ipv4Frame(hdr, body, sent) ==
    [ethertype |-> "ipv4", len |-> HEADER_LENGTH + Len(body), hdr |-> hdr,
     body |-> body, sent |-> sent]

Ping(type, code, payload) == <<type, code, 0, 0, 255, 255, 0, 1>> \o payload

\* Odd and even payloads whose sums carry once and twice.
Payloads == UNION {[1 .. n -> {0, 1, 255}] : n \in 0 .. 4}

\* Pings with every payload, and with 0 to 2 bytes of padding after it.
PingFrames ==
    {Ipv4Frame(Checked(hdr), Ping(8, 0, payload), Checked(hdr)) :
       hdr \in Headers({4}, {5}, {28 + n : n \in 0 .. 4}, {0}, {ICMP},
                       {MCPeer.ip, Far.ip}, {MCSelf.ip}),
       payload \in Payloads}

\* Every check of ipv4_input and icmpv4_input, with a header whose checksum is
\* right.
FaultFrames ==
    {Ipv4Frame(Checked(hdr), body, Checked(hdr)) :
       hdr \in Headers({4, 6}, {4, 5, 6}, {0, 19, 20, 27, 28, 30, 32, 40},
                       {0, 65535}, {ICMP, TCP, 17}, {MCPeer.ip},
                       {MCSelf.ip, Far.ip}),
       body \in {<< >>, Ping(8, 0, <<255, 255>>), Ping(0, 0, << >>),
                 Ping(8, 1, << >>)}}

\* A frame too short for a header: what is read after its end does not matter.
RuntFrames == {[f EXCEPT !.len = 19] : f \in {x \in FaultFrames : x.body = << >>}}

\* One word of a good header replaced by another (0 and 65535 are the same
\* number to the checksum).
DamagedFrom(hdr) ==
    {[hdr EXCEPT !.dscp_and_ecn = n] : n \in {1, 128}}
    \cup {[hdr EXCEPT !.total_length = n] : n \in {20, 28, 29, 31}}
    \cup {[hdr EXCEPT !.identification = n] : n \in {1, 256, 65534}}
    \cup {[hdr EXCEPT !.ttl = n] : n \in {63, 192}}
    \cup {[hdr EXCEPT !.protocol = n] : n \in {ICMP, TCP} \ {hdr.protocol}}
    \cup {[hdr EXCEPT !.src = <<49320, n>>] : n \in {0, 486}}
    \cup {[hdr EXCEPT !.header_checksum = n] : n \in {1, 65534}}

DamagedFrames ==
    UNION {{Ipv4Frame(bad, Ping(8, 0, <<255, 255>>), Checked(hdr)) :
              bad \in DamagedFrom(Checked(hdr))} :
           hdr \in Headers({4}, {5}, {30}, {0}, {ICMP, TCP},
                           {MCPeer.ip}, {MCSelf.ip})}

\* TCP segments as the peer's own code sends them, padded or cut.
Zeros(n) == [k \in 1 .. n |-> 0]
SegmentFrames ==
    UNION {{Ipv4Frame(hdr, Zeros(k), hdr) : k \in {n, n + 1, n + 6, IF n = 0 THEN 0 ELSE n - 1}} :
           <<hdr, n>> \in {<<Header(MCPeer, MCSelf.ip, TCP, n), n>> : n \in {0, 1, 20, 21}}}

MCFrames == SegmentFrames \cup ArpFrames \cup PingFrames \cup FaultFrames \cup RuntFrames
            \cup DamagedFrames \cup {[ethertype |-> "other"]}
MCMACs == {m0, m1}
=============================================================================
