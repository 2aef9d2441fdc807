------------------------------- MODULE RxPath -------------------------------
(***************************************************************************)
(* What happens to the bytes of one frame: wifi_rxcb hands it to arp_input *)
(* or ipv4_input, which discard it, answer it, or pass it on, and the      *)
(* answer is built by send_arp_reply, or by send_icmpv4_ping_reply and     *)
(* internal_send_ipv4_packet.  Lengths, header words and checksums have    *)
(* their real widths; a MAC address is a value, an IPv4 address two words. *)
(*                                                                         *)
(* All of it runs to completion in the receive callback, except for the    *)
(* header of the reply, which ipv4_task adds later.  The queues in between *)
(* are the subject of Arp, Ipv4 and Tcp.                                   *)
(*                                                                         *)
(* The operators take the host they run on: the properties let a second    *)
(* host, with the same code, receive what this one sends.                  *)
(***************************************************************************)
EXTENDS Checksum

CONSTANTS
    self, peer,  \* hosts: [ip, mac]
    Broadcast,   \* BROADCAST_MAC
    MACs,        \* what an uninitialised MAC address may hold
    Frames       \* what may arrive

HEADER_LENGTH == 20   \* sizeof(struct ipv4_header_t)
ICMP_HEADER   == 8    \* sizeof(struct icmpv4_header_t)
ICMP == 1
TCP  == 6

\* struct ipv4_header_t, with version_and_ihl as its two halves; an IPv4
\* address is two words.
Nibble    == {n \in Nat : n < 16}
Addresses == UInt16 \X UInt16
Ipv4Header ==
    [version : Nibble, ihl : Nibble, dscp_and_ecn : Byte, total_length : UInt16,
     identification : UInt16, flags : UInt16, ttl : Byte, protocol : Byte,
     header_checksum : UInt16, src : Addresses, dst : Addresses]

\* What the types of the code say of a frame: len is the uint16_t the driver
\* gives, and the frame has that many bytes: those after the Ethernet header,
\* which a driver's frame is taken to have (wifi_rxcb subtracts its 14 bytes
\* unasked).  The header as its sender built it is kept beside the one that
\* arrived.
ASSUME RxConstants ==
    /\ self.ip \in Addresses /\ peer.ip \in Addresses
    /\ \A f \in Frames : f.ethertype = "ipv4" =>
          /\ f.hdr \in Ipv4Header /\ f.sent \in Ipv4Header
          /\ f.body \in Seq(Byte) /\ Len(f.body) < 65536
          /\ f.len \in UInt16 /\ f.len <= HEADER_LENGTH + Len(f.body)

VARIABLES
    pc,
    rx,       \* the frame being handled
    datagram, \* what send_icmpv4_ping_reply has queued for ipv4_task
    tx,       \* the frame given to the driver
    entry,    \* what arp_input has queued for arp_task
    segment   \* the length handed to input_tcp

vars == <<pc, rx, datagram, tx, entry, segment>>

None == [ethertype |-> "none"]

Init == /\ pc = "idle" /\ rx = None /\ tx = None
        /\ datagram = << >> /\ entry = << >> /\ segment = << >>

\* wifi_rxcb: the EtherType selects the protocol.
WifiRxcb(frame) ==
    /\ pc = "idle"
    /\ frame.ethertype \in {"arp", "ipv4"}
    /\ pc' = frame.ethertype
    /\ rx' = frame
    /\ UNCHANGED <<datagram, tx, entry, segment>>

Finish == pc' = "done" /\ UNCHANGED rx

\* The end of wifi_rxcb: the buffer is freed, and nothing of it is kept.
FreeRxBuffer ==
    /\ pc = "done"
    /\ pc' = "idle" /\ rx' = None /\ tx' = None
    /\ datagram' = << >> /\ entry' = << >> /\ segment' = << >>

-----------------------------------------------------------------------------
(* ARP.                                                                    *)

ArpFrame(dst_mac, op, src, target_mac, target_ip) ==
    [ethertype |-> "arp", dst_mac |-> dst_mac, hardware_type |-> 1,
     protocol_type |-> 2048, operation |-> op, src_mac |-> src.mac,
     src_ip |-> src.ip, target_mac |-> target_mac, dst_ip |-> target_ip]

\* send_arp_request leaves the target hardware address uninitialised.
ArpRequest(h, ip, junk) == ArpFrame(Broadcast, 1, h, junk, ip)

ArpReply_swapped(h, request) ==
    ArpFrame(request.src_mac, 2, h, request.src_mac, request.dst_ip)

\* send_arp_reply to the sender of a request.
ArpReply(h, request) ==
    ArpFrame(request.src_mac, 2, h, request.src_mac, request.src_ip)

ArpForUs(h, f) == /\ f.hardware_type = 1
                  /\ f.protocol_type = 2048
                  /\ f.dst_ip = h.ip

SendArpRequest(ip) ==
    /\ pc = "idle"
    /\ \E junk \in MACs : tx' = ArpRequest(self, ip, junk)
    /\ Finish
    /\ UNCHANGED <<datagram, entry, segment>>

ArpInputReply ==
    /\ pc = "arp"
    /\ ArpForUs(self, rx) /\ rx.operation = 2
    /\ entry' = [ip |-> rx.src_ip, mac |-> rx.src_mac]
    /\ Finish
    /\ UNCHANGED <<datagram, tx, segment>>

ArpInputRequest ==
    /\ pc = "arp"
    /\ ArpForUs(self, rx) /\ rx.operation = 1
    /\ tx' = ArpReply(self, rx)
    /\ Finish
    /\ UNCHANGED <<datagram, entry, segment>>

ArpInputDiscard ==
    /\ pc = "arp"
    /\ ~ ArpForUs(self, rx) \/ rx.operation \notin {1, 2}
    /\ Finish
    /\ UNCHANGED <<datagram, tx, entry, segment>>

-----------------------------------------------------------------------------
(* IPv4.                                                                   *)

\* The ten words of struct ipv4_header_t.
HeaderWords(hdr) ==
    <<256 * (16 * hdr.version + hdr.ihl) + hdr.dscp_and_ecn, hdr.total_length,
      hdr.identification, hdr.flags, 256 * hdr.ttl + hdr.protocol,
      hdr.header_checksum, hdr.src[1], hdr.src[2], hdr.dst[1], hdr.dst[2]>>

Ipv4Accepts_noChecksum(h, f) ==
    /\ f.len >= HEADER_LENGTH
    /\ f.hdr.version = 4 /\ f.hdr.ihl = 5
    /\ f.hdr.total_length <= f.len
    /\ f.hdr.dst = h.ip

\* The checks of ipv4_input.  A header with options (ihl above 5) is refused
\* whatever its checksum.
Ipv4Accepts(h, f) ==
    /\ f.len >= HEADER_LENGTH
    /\ f.hdr.version = 4
    /\ f.hdr.total_length <= f.len
    /\ f.hdr.ihl = 5
    /\ ChecksumOfWords(HeaderWords(f.hdr)) = 0
    /\ f.hdr.dst = h.ip

Ipv4InputDiscard ==
    /\ pc = "ipv4"
    /\ ~ Ipv4Accepts(self, rx) \/ rx.hdr.protocol \notin {ICMP, TCP}
    /\ Finish
    /\ UNCHANGED <<datagram, tx, entry, segment>>

SegmentLength_padded(f) == f.len - HEADER_LENGTH

\* data_len, a uint16_t: total_len is not checked against header_len.
SegmentLength(f) == (f.hdr.total_length + 65536 - HEADER_LENGTH) % 65536

Ipv4InputTcp ==
    /\ pc = "ipv4"
    /\ Ipv4Accepts(self, rx) /\ rx.hdr.protocol = TCP
    /\ segment' = <<SegmentLength(rx)>>
    /\ Finish
    /\ UNCHANGED <<datagram, tx, entry>>

\* Beyond the end of the frame there is some other memory.
ByteAt(f, k) == IF k <= Len(f.body) THEN f.body[k] ELSE 0

IsPing(f) == /\ f.hdr.total_length >= HEADER_LENGTH + ICMP_HEADER
             /\ ByteAt(f, 1) = 8 /\ ByteAt(f, 2) = 0

Ipv4InputIcmp ==
    /\ pc = "ipv4"
    /\ Ipv4Accepts(self, rx) /\ rx.hdr.protocol = ICMP
    /\ pc' = "icmp"
    /\ UNCHANGED <<rx, datagram, tx, entry, segment>>

-----------------------------------------------------------------------------
(* ICMP.                                                                   *)

IcmpInputDiscard ==
    /\ pc = "icmp"
    /\ ~ IsPing(rx)
    /\ Finish
    /\ UNCHANGED <<datagram, tx, entry, segment>>

PayloadLen_padded(f) == f.len - HEADER_LENGTH - ICMP_HEADER
PayloadLen(f) == f.hdr.total_length - HEADER_LENGTH - ICMP_HEADER

\* send_icmpv4_ping_reply: type and code 0, identifier, sequence number and
\* payload of the request, and the checksum over all of it.
PingReply(f) ==
    LET rest == [k \in 1 .. 4 + PayloadLen(f) |-> ByteAt(f, 4 + k)]
        sum  == NetChecksum(<<0, 0, 0, 0>> \o rest)
    IN  <<0, 0, sum \div 256, sum % 256>> \o rest

IcmpInputPing ==
    /\ pc = "icmp"
    /\ IsPing(rx)
    /\ datagram' = PingReply(rx)
    /\ pc' = "send"
    /\ UNCHANGED <<rx, tx, entry, segment>>

\* The header of internal_send_ipv4_packet for a protocol number, without and
\* with its checksum.
BlankHeader(h, dst, number, data_len) ==
    [version |-> 4, ihl |-> HEADER_LENGTH \div 4, dscp_and_ecn |-> 0,
     total_length |-> (HEADER_LENGTH + data_len) % 65536,
     identification |-> 0, flags |-> 2 * 8192, ttl |-> 128,
     protocol |-> number, header_checksum |-> 0, src |-> h.ip, dst |-> dst]

Header(h, dst, number, data_len) ==
    LET blank == BlankHeader(h, dst, number, data_len)
    IN  [blank EXCEPT !.header_checksum = ChecksumOfWords(HeaderWords(blank))]

\* ipv4_task sends the reply to the MAC address ARP gave it.
InternalSendIpv4Packet ==
    /\ pc = "send"
    /\ \E mac \in MACs :
          tx' = [ethertype |-> "ipv4", dst_mac |-> mac,
                 len |-> (HEADER_LENGTH + Len(datagram)) % 65536,
                 hdr |-> Header(self, rx.hdr.src, ICMP, Len(datagram)),
                 body |-> datagram]
    /\ Finish
    /\ UNCHANGED <<datagram, entry, segment>>

Next ==
    \/ \E frame \in Frames : WifiRxcb(frame)
    \/ SendArpRequest(peer.ip)
    \/ ArpInputReply \/ ArpInputRequest \/ ArpInputDiscard
    \/ Ipv4InputDiscard \/ Ipv4InputTcp \/ Ipv4InputIcmp
    \/ IcmpInputDiscard \/ IcmpInputPing \/ InternalSendIpv4Packet
    \/ FreeRxBuffer

Spec == Init /\ [][Next]_vars

-----------------------------------------------------------------------------
\* Resolution works between two hosts with this code: the request
\* send_arp_request broadcasts is answered by the peer's arp_input, and the
\* answer gives this host the peer's address; and the answer this host gives
\* to a request gives the asking host this one's address.
ArpRoundTrip ==
    tx.ethertype = "arp" =>
      LET asker    == IF tx.operation = 1 THEN self
                      ELSE [ip |-> tx.dst_ip, mac |-> tx.dst_mac]
          answerer == IF tx.operation = 1 THEN peer ELSE self
          answer   == IF tx.operation = 1 THEN ArpReply(peer, tx) ELSE tx
      IN  /\ tx.operation = 1 => ArpForUs(peer, tx)
          /\ tx.operation = 2 => asker = [ip |-> rx.src_ip, mac |-> rx.src_mac]
          /\ answer.operation = 2 /\ answer.dst_mac = asker.mac
          /\ ArpForUs(asker, answer)
          /\ answer.src_ip = answerer.ip /\ answer.src_mac = answerer.mac

\* A ping is answered with a packet the sender accepts: this very code, on the
\* sender's side, finds its header, length and header checksum right, the ICMP
\* checksum verifies, and identifier, sequence number and payload are those of
\* the request, without the padding Ethernet may have added to it.
PingRoundTrip ==
    tx.ethertype = "ipv4" =>
      /\ Ipv4Accepts([ip |-> rx.hdr.src], tx)
      /\ tx.hdr.total_length = HEADER_LENGTH + Len(tx.body)
      /\ NetChecksum(tx.body) = 0
      /\ HEADER_LENGTH + Len(tx.body) = rx.hdr.total_length
      /\ SubSeq(tx.body, 5, Len(tx.body)) = SubSeq(rx.body, 5, Len(tx.body))

\* net_checksum is the Internet checksum of RFC 1071, which "standard internet
\* checksum" (checksum.c:5) names: on the header that arrives, with odd and
\* even lengths, and with sums whose carries carry again.
ChecksumStandard ==
    rx.ethertype = "ipv4" =>
      /\ ChecksumOfWords(HeaderWords(rx.hdr))
           = InternetChecksum(HeaderWords(rx.hdr))
      /\ NetChecksum(rx.body) = InternetChecksum(WordsOf(rx.body))

\* One word of the header is not what it was when it was sent, 0 and 65535
\* being the same number in ones' complement.
Damaged(hdr, sent) ==
    LET now == HeaderWords(hdr)  then == HeaderWords(sent)
    IN  \E k \in 1 .. 10 :
           /\ now[k] % 65535 # then[k] % 65535
           /\ \A i \in 1 .. 10 : i # k => now[i] = then[i]

\* A header that left its sender with a good checksum and was damaged in one
\* word on its way is not taken for a packet to this host, whatever word it
\* is: the one field that ipv4_input then acts on without a check of its own
\* is the total length.
DamageRefused ==
    /\ rx.ethertype = "ipv4"
    /\ ChecksumOfWords(HeaderWords(rx.sent)) = 0
    /\ Damaged(rx.hdr, rx.sent)
    => pc # "icmp" /\ segment = << >>

\* A TCP segment arrives whole and alone: a frame with the header that
\* internal_send_ipv4_packet of the peer builds for it, if the frame is not
\* cut, passes every check of ipv4_input, and input_tcp is given as many bytes
\* as the peer's TCP handed over, whatever padding Ethernet added.
FromPeer(f) ==
    /\ f.ethertype = "ipv4"
    /\ f.hdr.total_length \in HEADER_LENGTH .. f.len
    /\ f.hdr = Header(peer, self.ip, TCP, f.hdr.total_length - HEADER_LENGTH)

SegmentRoundTrip ==
    pc = "done" /\ FromPeer(rx)
    => segment = <<rx.hdr.total_length - HEADER_LENGTH>>

\* "Buffer len includes ethernet padding, so long as we are under that we are
\* fine" (ipv4.c:134): the segment that an accepted packet gives to TCP lies in
\* its frame.  It does not when the total length is below that of the header.
LengthsInFrame ==
    segment # << >> => segment[1] <= rx.len - HEADER_LENGTH
=============================================================================
