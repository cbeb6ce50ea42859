------------------------------- MODULE Frames -------------------------------
(***************************************************************************)
(* The frames of axolotchi-net as octets: Ethernet II (ethernet.rs), ARP   *)
(* for Ethernet and IPv4 (arp.rs), the source of an IPv4 packet (ipv4.rs), *)
(* and what sweep and sniffer take from a frame.  Operators only.          *)
(*                                                                         *)
(* A MAC address is six octets, an IPv4 address a number; the text of a    *)
(* MAC address, which is a device id, is its hexadecimal digits in pairs.  *)
(* A decoder gives the set of what it returns: empty for None.             *)
(***************************************************************************)
EXTENDS Integers, Sequences

Octet == 0 .. 255
Mac   == [1 .. 6 -> Octet]

BroadcastMac  == [i \in 1 .. 6 |-> 255]
EtherTypeArp  == 2054    \* 0x0806
EtherTypeIpv4 == 2048    \* 0x0800
HtypeEthernet == 1
ArpLen        == 28

U16(n)         == <<n \div 256, n % 256>>
ReadU16(b, at) == 256 * b[at] + b[at + 1]

Ipv4Octets(n) ==
  <<(n \div 16777216) % 256, (n \div 65536) % 256, (n \div 256) % 256, n % 256>>

ReadIpv4(b, at) == 256 * (256 * (256 * b[at] + b[at + 1]) + b[at + 2]) + b[at + 3]

-----------------------------------------------------------------------------
FormatMac(mac) == [i \in 1 .. 6 |-> <<mac[i] \div 16, mac[i] % 16>>]

ParseMac(text) ==
  IF Len(text) = 6 THEN {[i \in 1 .. 6 |-> 16 * text[i][1] + text[i][2]]} ELSE {}

EthernetEncode(f) == f.dst \o f.src \o U16(f.ethertype) \o f.payload

EthernetDecode(b) ==
  IF Len(b) < 14 THEN {}
  ELSE {[dst       |-> SubSeq(b, 1, 6),
         src       |-> SubSeq(b, 7, 12),
         ethertype |-> ReadU16(b, 13),
         payload   |-> SubSeq(b, 15, Len(b))]}

ArpEncode(p) ==
  U16(HtypeEthernet) \o U16(EtherTypeIpv4) \o <<6, 4>>
    \o U16(IF p.operation = "Request" THEN 1 ELSE 2)
    \o p.senderMac \o Ipv4Octets(p.senderIp) \o p.targetMac \o Ipv4Octets(p.targetIp)

ArpDecode(b) ==
  IF \/ Len(b) < ArpLen
     \/ ReadU16(b, 1) # HtypeEthernet \/ ReadU16(b, 3) # EtherTypeIpv4
     \/ b[5] # 6 \/ b[6] # 4
     \/ ReadU16(b, 7) \notin {1, 2}
  THEN {}
  ELSE {[operation |-> IF ReadU16(b, 7) = 1 THEN "Request" ELSE "Reply",
         senderMac |-> SubSeq(b, 9, 14),
         senderIp  |-> ReadIpv4(b, 15),
         targetMac |-> SubSeq(b, 19, 24),
         targetIp  |-> ReadIpv4(b, 25)]}

\* ipv4::parse_src
ParseSrc(b) ==
  IF Len(b) < 20 \/ b[1] \div 16 # 4 THEN {} ELSE {ReadIpv4(b, 13)}

-----------------------------------------------------------------------------
(* What is sent *)

\* send_arp_request
ArpRequest(ourMac, ourIp, dstMac, targetIp) ==
  EthernetEncode(
    [dst |-> dstMac, src |-> ourMac, ethertype |-> EtherTypeArp,
     payload |-> ArpEncode([operation |-> "Request",
                            senderMac |-> ourMac, senderIp |-> ourIp,
                            targetMac |-> [i \in 1 .. 6 |-> 0], targetIp |-> targetIp])])

-----------------------------------------------------------------------------
(* What is made of a frame that was received *)

\* The body of collect_replies: the device and address an ARP reply confirms.
Confirmation(b, ourMac) ==
  LET packets == UNION {ArpDecode(f.payload) :
                          f \in {e \in EthernetDecode(b) : /\ e.src # ourMac
                                                           /\ e.ethertype = EtherTypeArp}}
  IN  {[id |-> FormatMac(p.senderMac), ip |-> p.senderIp] :
         p \in {q \in packets : q.operation = "Reply"}}

\* The address a frame tells: that of an ARP packet's sender, whatever the
\* operation, or the source of an IPv4 packet.
AddressIn(f) ==
  CASE f.ethertype = EtherTypeArp  -> {p.senderIp : p \in ArpDecode(f.payload)}
    [] f.ethertype = EtherTypeIpv4 -> ParseSrc(f.payload)
    [] OTHER                       -> {}

\* Mutant of PassiveSighting: our own frames count.
PassiveSightingOfAll(b, ourMac) ==
  {[id |-> FormatMac(f.src), ip |-> AddressIn(f)] :
     f \in {e \in EthernetDecode(b) : e.src # BroadcastMac}}

\* passive_sighting_from_frame
PassiveSighting(b, ourMac) ==
  {[id |-> FormatMac(f.src), ip |-> AddressIn(f)] :
     f \in {e \in EthernetDecode(b) : e.src \notin {ourMac, BroadcastMac}}}
=============================================================================
