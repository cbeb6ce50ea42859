---------------------------- MODULE SweepProofs ----------------------------
(***************************************************************************)
(* Proofs about Sweep, for any devices, subnet, leases, miss limit and     *)
(* sizes of channel and sockets: what is made of the octets of a frame,    *)
(* that Axo never sights itself, that answering in time costs nothing, and *)
(* that no suspect is charged a miss without a request of its own.         *)
(***************************************************************************)
EXTENDS Sweep, SequenceTheorems, FiniteSetTheorems, TLAPS

-----------------------------------------------------------------------------
(* Octets *)

\* A number of 32 bits, and of 16.
Ipv4     == {n \in Nat : n \div 16777216 \in Octet}
Number16 == 0 .. 65535

\* Where the octets of a concatenation come from.
LEMMA Concatenation ==
  ASSUME NEW s \in Seq(Octet), NEW t \in Seq(Octet)
  PROVE  /\ s \o t \in Seq(Octet) /\ Len(s \o t) = Len(s) + Len(t)
         /\ \A i \in 1 .. Len(s) : (s \o t)[i] = s[i]
         /\ \A i \in 1 .. Len(t) : (s \o t)[Len(s) + i] = t[i]
<1> DEFINE r == s \o t
           m == Len(s)
           n == Len(t)
<1>1. m \in Nat /\ n \in Nat
  BY LenProperties
<1>2. /\ r \in Seq(Octet) /\ Len(r) = m + n
      /\ \A i \in 1 .. m + n : r[i] = IF i <= m THEN s[i] ELSE t[i - m]
  BY ConcatProperties, Zenon
<1> HIDE DEF r, m, n
<1>3. ASSUME NEW i \in 1 .. m PROVE r[i] = s[i]
  BY <1>1, <1>2
<1>4. ASSUME NEW i \in 1 .. n PROVE r[m + i] = t[i]
  <2>1. m + i \in 1 .. m + n /\ ~(m + i <= m) /\ (m + i) - m = i
    BY <1>1
  <2>2. r[m + i] = IF m + i <= m THEN s[m + i] ELSE t[(m + i) - m]
    BY <1>2, <2>1, Zenon
  <2>3. QED
    BY <2>1, <2>2, Zenon
<1>5. QED
  BY <1>2, <1>3, <1>4, Zenon DEF r, m, n

LEMMA MacIsSeq ==
  ASSUME NEW m \in Mac
  PROVE  m \in Seq(Octet) /\ Len(m) = 6
<1>1. m \in Seq(Octet)
  BY SeqDef DEF Mac
<1>2. DOMAIN m = 1 .. 6 /\ DOMAIN m = 1 .. Len(m) /\ Len(m) \in Nat
  BY <1>1, LenProperties DEF Mac
<1>3. QED
  BY <1>1, <1>2, SMT

LEMMA SeqIsMac ==
  ASSUME NEW s \in Seq(Octet), Len(s) = 6
  PROVE  s \in Mac
  BY LenProperties DEF Mac

LEMMA U16Octets ==
  ASSUME NEW n \in Number16
  PROVE  /\ U16(n) \in Seq(Octet) /\ Len(U16(n)) = 2
         /\ 256 * U16(n)[1] + U16(n)[2] = n
<1>1. n \in Nat /\ n <= 65535
  BY SMT DEF Number16
<1>2. n \div 256 \in 0 .. 255 /\ n % 256 \in 0 .. 255 /\ n = 256 * (n \div 256) + (n % 256)
  <2>1. n \div 256 \in Nat /\ n \div 256 <= 255
    BY <1>1, SMT
  <2>2. n % 256 \in 0 .. 255 /\ n = 256 * (n \div 256) + (n % 256)
    BY <1>1, SMT
  <2>3. QED
    BY <2>1, <2>2, SMT
<1> DEFINE s == <<n \div 256, n % 256>>
<1>3. s \in Seq(Octet) /\ Len(s) = 2 /\ s[1] = n \div 256 /\ s[2] = n % 256
  BY <1>2 DEF Octet
<1>4. s = U16(n)
  BY DEF U16
<1> HIDE DEF s
<1>5. QED
  BY <1>2, <1>3, <1>4

LEMMA Ipv4OctetsAre ==
  ASSUME NEW n \in Int
  PROVE  Ipv4Octets(n) \in Seq(Octet) /\ Len(Ipv4Octets(n)) = 4
<1>1. /\ (n \div 16777216) % 256 \in Octet /\ (n \div 65536) % 256 \in Octet
      /\ (n \div 256) % 256 \in Octet /\ n % 256 \in Octet
  BY SMT DEF Octet
<1>2. QED
  BY <1>1, SMT DEF Ipv4Octets

\* An address read back from its octets.
LEMMA Ipv4RoundTrip ==
  ASSUME NEW n \in Ipv4, NEW b, NEW at \in Nat,
         \A i \in 1 .. 4 : b[at + (i - 1)] = Ipv4Octets(n)[i]
  PROVE  ReadIpv4(b, at) = n
<1>1. /\ b[at] = Ipv4Octets(n)[1] /\ b[at + 1] = Ipv4Octets(n)[2]
      /\ b[at + 2] = Ipv4Octets(n)[3] /\ b[at + 3] = Ipv4Octets(n)[4]
  <2>1. \A i \in 1 .. 4 : b[at + (i - 1)] = Ipv4Octets(n)[i]
    OBVIOUS
  <2>2. 1 \in 1 .. 4 /\ 2 \in 1 .. 4 /\ 3 \in 1 .. 4 /\ 4 \in 1 .. 4
    OBVIOUS
  <2>3. b[at + (1 - 1)] = Ipv4Octets(n)[1] /\ b[at + (2 - 1)] = Ipv4Octets(n)[2]
        /\ b[at + (3 - 1)] = Ipv4Octets(n)[3] /\ b[at + (4 - 1)] = Ipv4Octets(n)[4]
    BY <2>1, <2>2, Zenon
  <2>4. at + (1 - 1) = at /\ at + (2 - 1) = at + 1 /\ at + (3 - 1) = at + 2
        /\ at + (4 - 1) = at + 3
    OBVIOUS
  <2>5. QED
    BY <2>3, <2>4
<1>2. /\ Ipv4Octets(n)[1] = (n \div 16777216) % 256 /\ Ipv4Octets(n)[2] = (n \div 65536) % 256
      /\ Ipv4Octets(n)[3] = (n \div 256) % 256 /\ Ipv4Octets(n)[4] = n % 256
  BY SMT DEF Ipv4Octets
<1>3. n \in Nat /\ (n \div 16777216) % 256 = n \div 16777216
  BY SMT DEF Ipv4, Octet
<1>4. n = 256 * (256 * (256 * (n \div 16777216) + ((n \div 65536) % 256))
                 + ((n \div 256) % 256)) + (n % 256)
  BY <1>3, SMT
<1>5. ReadIpv4(b, at) = 256 * (256 * (256 * b[at] + b[at + 1]) + b[at + 2]) + b[at + 3]
  BY DEF ReadIpv4
<1>6. QED
  BY <1>1, <1>2, <1>3, <1>4, <1>5, SMT

-----------------------------------------------------------------------------
(* Ethernet *)

EthernetFrame == [dst : Mac, src : Mac, ethertype : Number16, payload : Seq(Octet)]

\* Where the parts of a frame are among its octets.
LEMMA EthernetOctets ==
  ASSUME NEW f \in EthernetFrame
  PROVE  LET b == EthernetEncode(f)
         IN  /\ b \in Seq(Octet) /\ Len(b) = 14 + Len(f.payload)
             /\ \A i \in 1 .. 6 : b[6 + i] = f.src[i]
             /\ 256 * b[13] + b[14] = f.ethertype
             /\ \A i \in 1 .. Len(f.payload) : b[14 + i] = f.payload[i]
<1> DEFINE u         == U16(f.ethertype)
           addresses == f.dst \o f.src
           header    == addresses \o u
           b         == header \o f.payload
<1>1. /\ f.dst \in Seq(Octet) /\ Len(f.dst) = 6 /\ f.src \in Seq(Octet) /\ Len(f.src) = 6
      /\ f.payload \in Seq(Octet)
  BY MacIsSeq DEF EthernetFrame
<1>2. u \in Seq(Octet) /\ Len(u) = 2 /\ 256 * u[1] + u[2] = f.ethertype
  BY U16Octets DEF EthernetFrame
<1>3. /\ addresses \in Seq(Octet) /\ Len(addresses) = Len(f.dst) + Len(f.src)
      /\ \A i \in 1 .. Len(f.src) : addresses[Len(f.dst) + i] = f.src[i]
  BY <1>1, Concatenation, Zenon
<1> HIDE DEF u
<1>4. /\ header \in Seq(Octet) /\ Len(header) = Len(addresses) + Len(u)
      /\ \A i \in 1 .. Len(addresses) : header[i] = addresses[i]
      /\ \A i \in 1 .. Len(u) : header[Len(addresses) + i] = u[i]
  <2> HIDE DEF addresses
  <2>1. QED
    BY <1>2, <1>3, Concatenation, Zenon
<1>5. /\ b \in Seq(Octet) /\ Len(b) = Len(header) + Len(f.payload)
      /\ \A i \in 1 .. Len(header) : b[i] = header[i]
      /\ \A i \in 1 .. Len(f.payload) : b[Len(header) + i] = f.payload[i]
  <2> HIDE DEF header
  <2>1. QED
    BY <1>1, <1>4, Concatenation, Zenon
<1>6. b = EthernetEncode(f)
  BY DEF EthernetEncode, u
<1> HIDE DEF addresses, header, b
<1>7. Len(addresses) = 12 /\ Len(header) = 14
  BY <1>1, <1>2, <1>3, <1>4
<1>8. /\ \A i \in 1 .. 6 : addresses[6 + i] = f.src[i]
      /\ \A i \in 1 .. 12 : header[i] = addresses[i]
      /\ \A i \in 1 .. 2 : header[12 + i] = u[i]
      /\ \A i \in 1 .. 14 : b[i] = header[i]
      /\ \A i \in 1 .. Len(f.payload) : b[14 + i] = f.payload[i]
  BY <1>1, <1>2, <1>3, <1>4, <1>5, <1>7, Zenon
<1>9. \A i \in 1 .. 6 : b[6 + i] = f.src[i]
  <2> SUFFICES ASSUME NEW i \in 1 .. 6 PROVE b[6 + i] = f.src[i]
    OBVIOUS
  <2>1. 6 + i \in 1 .. 14 /\ 6 + i \in 1 .. 12
    OBVIOUS
  <2>2. QED
    BY <2>1, <1>8, Zenon
<1>10. 256 * b[13] + b[14] = f.ethertype
  <2>1. header[12 + 1] = u[1] /\ header[12 + 2] = u[2]
    BY <1>8
  <2>2. b[13] = header[13] /\ b[14] = header[14]
    BY <1>8
  <2>3. QED
    BY <1>2, <2>1, <2>2
<1>11. Len(b) = 14 + Len(f.payload)
  BY <1>5, <1>7, Zenon
<1>12. QED
  BY <1>5, <1>6, <1>8, <1>9, <1>10, <1>11, Zenon

\* What decoding makes of the octets of a frame, also of one that is cut short.
LEMMA EthernetDecoded ==
  ASSUME NEW b \in Seq(Octet), NEW e \in EthernetDecode(b)
  PROVE  /\ Len(b) >= 14
         /\ e.src \in Mac /\ \A i \in 1 .. 6 : e.src[i] = b[6 + i]
         /\ e.ethertype = 256 * b[13] + b[14]
         /\ e.payload \in Seq(Octet) /\ Len(e.payload) = Len(b) - 14
         /\ \A i \in 1 .. Len(b) - 14 : e.payload[i] = b[14 + i]
<1>1. Len(b) >= 14 /\ Len(b) \in Nat /\ \A i \in 1 .. Len(b) : b[i] \in Octet
  BY ElementOfSeq DEF EthernetDecode
<1>2. e = [dst       |-> SubSeq(b, 1, 6),
           src       |-> SubSeq(b, 7, 12),
           ethertype |-> ReadU16(b, 13),
           payload   |-> SubSeq(b, 15, Len(b))]
  BY <1>1 DEF EthernetDecode
<1>3. /\ e.src = SubSeq(b, 7, 12) /\ e.payload = SubSeq(b, 15, Len(b))
      /\ e.ethertype = 256 * b[13] + b[13 + 1]
  BY <1>2 DEF ReadU16
<1>4. /\ e.src \in Seq(Octet) /\ Len(e.src) = 6
      /\ \A i \in 1 .. 6 : e.src[i] = b[6 + i]
  <2>1. \A i \in 7 .. 12 : b[i] \in Octet
    BY <1>1
  <2>2. /\ SubSeq(b, 7, 12) \in Seq(Octet)
        /\ Len(SubSeq(b, 7, 12)) = IF 7 <= 12 THEN 12 - 7 + 1 ELSE 0
        /\ \A i \in 1 .. 12 - 7 + 1 : SubSeq(b, 7, 12)[i] = b[7 + i - 1]
    BY <2>1, SubSeqProperties
  <2>3. QED
    BY <1>3, <2>2
<1>5. /\ e.payload \in Seq(Octet) /\ Len(e.payload) = Len(b) - 14
      /\ \A i \in 1 .. Len(b) - 14 : e.payload[i] = b[14 + i]
  <2> DEFINE n == Len(b)
  <2>0. n \in Nat /\ n >= 14 /\ e.payload = SubSeq(b, 15, n)
    BY <1>1, <1>3
  <2>1. \A i \in 15 .. n : b[i] \in Octet
    BY <1>1
  <2> HIDE DEF n
  <2>2. /\ SubSeq(b, 15, n) \in Seq(Octet)
        /\ Len(SubSeq(b, 15, n)) = IF 15 <= n THEN n - 15 + 1 ELSE 0
        /\ \A i \in 1 .. n - 15 + 1 : SubSeq(b, 15, n)[i] = b[15 + i - 1]
    BY <2>0, <2>1, SubSeqProperties
  <2>3. n - 15 + 1 = n - 14 /\ \A i \in 1 .. n - 14 : 15 + i - 1 = 14 + i
    BY <2>0
  <2>4. /\ e.payload \in Seq(Octet) /\ Len(e.payload) = n - 14
        /\ \A i \in 1 .. n - 14 : e.payload[i] = b[14 + i]
    BY <2>0, <2>2, <2>3
  <2>5. QED
    BY <2>4 DEF n
<1>6. e.src \in Mac
  BY <1>4, SeqIsMac
<1>7. e.ethertype = 256 * b[13] + b[14]
  BY <1>3
<1>8. QED
  BY <1>1, <1>4, <1>5, <1>6, <1>7

LEMMA SameMac ==
  ASSUME NEW m \in Mac, NEW n \in Mac, \A i \in 1 .. 6 : m[i] = n[i]
  PROVE  m = n
  BY DEF Mac

\* A frame that was sent is read as it was sent.
LEMMA EthernetRoundTrip ==
  ASSUME NEW f \in EthernetFrame, NEW e \in EthernetDecode(EthernetEncode(f))
  PROVE  e.src = f.src /\ e.ethertype = f.ethertype /\ e.payload = f.payload
<1> DEFINE b == EthernetEncode(f)
<1>1. /\ b \in Seq(Octet) /\ Len(b) = 14 + Len(f.payload)
      /\ \A i \in 1 .. 6 : b[6 + i] = f.src[i]
      /\ 256 * b[13] + b[14] = f.ethertype
      /\ \A i \in 1 .. Len(f.payload) : b[14 + i] = f.payload[i]
  BY EthernetOctets
<1>2. e \in EthernetDecode(b)
  OBVIOUS
<1> HIDE DEF b
<1>3. /\ e.src \in Mac /\ \A i \in 1 .. 6 : e.src[i] = b[6 + i]
      /\ e.ethertype = 256 * b[13] + b[14]
      /\ e.payload \in Seq(Octet) /\ Len(e.payload) = Len(b) - 14
      /\ \A i \in 1 .. Len(b) - 14 : e.payload[i] = b[14 + i]
  BY <1>1, <1>2, EthernetDecoded
<1>4. f.src \in Mac /\ f.payload \in Seq(Octet) /\ Len(f.payload) \in Nat
  BY DEF EthernetFrame
<1>5. e.src = f.src
  <2>1. \A i \in 1 .. 6 : e.src[i] = f.src[i]
    BY <1>1, <1>3
  <2>2. QED
    BY <1>3, <1>4, <2>1, SameMac
<1>6. e.payload = f.payload
  <2>1. Len(e.payload) = Len(f.payload) /\ Len(b) - 14 = Len(f.payload)
    BY <1>1, <1>3, <1>4
  <2>2. \A i \in 1 .. Len(e.payload) : e.payload[i] = f.payload[i]
    BY <1>1, <1>3, <2>1
  <2>3. QED
    BY <1>3, <1>4, <2>1, <2>2, SeqEqual
<1>7. QED
  BY <1>1, <1>3, <1>5, <1>6

-----------------------------------------------------------------------------
(* ARP *)

Operations == {"Request", "Reply"}
ArpPacket  == [operation : Operations, senderMac : Mac, senderIp : Int,
               targetMac : Mac, targetIp : Int]

\* Where the parts of a packet are among its octets.
LEMMA ArpOctets ==
  ASSUME NEW p \in ArpPacket
  PROVE  LET b == ArpEncode(p)
         IN  /\ b \in Seq(Octet) /\ Len(b) = 28
             /\ 256 * b[7] + b[8] = IF p.operation = "Request" THEN 1 ELSE 2
             /\ \A i \in 1 .. 6 : b[8 + i] = p.senderMac[i]
             /\ \A i \in 1 .. 4 : b[14 + i] = Ipv4Octets(p.senderIp)[i]
<1> DEFINE code == IF p.operation = "Request" THEN 1 ELSE 2
           op   == U16(code)
           from == Ipv4Octets(p.senderIp)
           to   == Ipv4Octets(p.targetIp)
           b2   == U16(HtypeEthernet) \o U16(EtherTypeIpv4)
           b3   == b2 \o <<6, 4>>
           b4   == b3 \o op
           b5   == b4 \o p.senderMac
           b6   == b5 \o from
           b7   == b6 \o p.targetMac
           b    == b7 \o to
<1>1. /\ op \in Seq(Octet) /\ Len(op) = 2 /\ 256 * op[1] + op[2] = code
      /\ from \in Seq(Octet) /\ Len(from) = 4
      /\ to \in Seq(Octet) /\ Len(to) = 4
      /\ p.senderMac \in Seq(Octet) /\ Len(p.senderMac) = 6
      /\ p.targetMac \in Seq(Octet) /\ Len(p.targetMac) = 6
  <2>1. code \in Number16
    BY SMT DEF Number16
  <2>2. /\ p.senderMac \in Mac /\ p.targetMac \in Mac
        /\ p.senderIp \in Int /\ p.targetIp \in Int
    BY DEF ArpPacket
  <2> HIDE DEF code
  <2>3. QED
    BY <2>1, <2>2, U16Octets, Ipv4OctetsAre, MacIsSeq, Zenon
<1>2. b3 \in Seq(Octet) /\ Len(b3) = 6
  <2>1. HtypeEthernet \in Number16 /\ EtherTypeIpv4 \in Number16
    BY SMT DEF HtypeEthernet, EtherTypeIpv4, Number16
  <2>2. /\ U16(HtypeEthernet) \in Seq(Octet) /\ Len(U16(HtypeEthernet)) = 2
        /\ U16(EtherTypeIpv4) \in Seq(Octet) /\ Len(U16(EtherTypeIpv4)) = 2
    BY <2>1, U16Octets, Zenon
  <2>3. b2 \in Seq(Octet) /\ Len(b2) = Len(U16(HtypeEthernet)) + Len(U16(EtherTypeIpv4))
    BY <2>2, Concatenation, Zenon
  <2>4. <<6, 4>> \in Seq(Octet) /\ Len(<<6, 4>>) = 2
    BY SMT DEF Octet
  <2> HIDE DEF b2
  <2>5. b3 \in Seq(Octet) /\ Len(b3) = Len(b2) + Len(<<6, 4>>)
    BY <2>3, <2>4, Concatenation, Zenon
  <2> HIDE DEF b3
  <2>6. QED
    BY <2>2, <2>3, <2>4, <2>5
<1> HIDE DEF op, from, to, b3
<1>3. /\ b4 \in Seq(Octet) /\ Len(b4) = Len(b3) + Len(op)
      /\ \A i \in 1 .. Len(op) : b4[Len(b3) + i] = op[i]
  BY <1>1, <1>2, Concatenation, Zenon
<1>4. /\ b5 \in Seq(Octet) /\ Len(b5) = Len(b4) + Len(p.senderMac)
      /\ \A i \in 1 .. Len(b4) : b5[i] = b4[i]
      /\ \A i \in 1 .. Len(p.senderMac) : b5[Len(b4) + i] = p.senderMac[i]
  <2> HIDE DEF b4
  <2>1. QED
    BY <1>1, <1>3, Concatenation, Zenon
<1>5. /\ b6 \in Seq(Octet) /\ Len(b6) = Len(b5) + Len(from)
      /\ \A i \in 1 .. Len(b5) : b6[i] = b5[i]
      /\ \A i \in 1 .. Len(from) : b6[Len(b5) + i] = from[i]
  <2> HIDE DEF b5
  <2>1. QED
    BY <1>1, <1>4, Concatenation, Zenon
<1>6. /\ b7 \in Seq(Octet) /\ Len(b7) = Len(b6) + Len(p.targetMac)
      /\ \A i \in 1 .. Len(b6) : b7[i] = b6[i]
  <2> HIDE DEF b6
  <2>1. QED
    BY <1>1, <1>5, Concatenation, Zenon
<1>7. /\ b \in Seq(Octet) /\ Len(b) = Len(b7) + Len(to)
      /\ \A i \in 1 .. Len(b7) : b[i] = b7[i]
  <2> HIDE DEF b7
  <2>1. QED
    BY <1>1, <1>6, Concatenation, Zenon
<1>8. b = ArpEncode(p)
  BY DEF ArpEncode, op, from, to, b3
<1> HIDE DEF b4, b5, b6, b7, b
<1>9. Len(b4) = 8 /\ Len(b5) = 14 /\ Len(b6) = 18 /\ Len(b7) = 24 /\ Len(b) = 28
  <2>1. Len(b4) = 8
    BY <1>1, <1>2, <1>3
  <2>2. Len(b5) = 14
    BY <2>1, <1>1, <1>4
  <2>3. Len(b6) = 18
    BY <2>2, <1>1, <1>5
  <2>4. Len(b7) = 24
    BY <2>3, <1>1, <1>6
  <2>5. Len(b) = 28
    BY <2>4, <1>1, <1>7
  <2>6. QED
    BY <2>1, <2>2, <2>3, <2>4, <2>5
<1>10. /\ \A i \in 1 .. 2 : b4[6 + i] = op[i]
       /\ \A i \in 1 .. 8 : b5[i] = b4[i]
       /\ \A i \in 1 .. 6 : b5[8 + i] = p.senderMac[i]
       /\ \A i \in 1 .. 14 : b6[i] = b5[i]
       /\ \A i \in 1 .. 4 : b6[14 + i] = from[i]
       /\ \A i \in 1 .. 18 : b7[i] = b6[i]
       /\ \A i \in 1 .. 24 : b[i] = b7[i]
  BY <1>1, <1>2, <1>3, <1>4, <1>5, <1>6, <1>7, <1>9, Zenon
<1>11. \A i \in 1 .. 18 : b[i] = b6[i]
  <2> SUFFICES ASSUME NEW i \in 1 .. 18 PROVE b[i] = b6[i]
    OBVIOUS
  <2>1. i \in 1 .. 24
    OBVIOUS
  <2>2. QED
    BY <2>1, <1>10, Zenon
<1>12. \A i \in 1 .. 4 : b[14 + i] = from[i]
  <2> SUFFICES ASSUME NEW i \in 1 .. 4 PROVE b[14 + i] = from[i]
    OBVIOUS
  <2>1. 14 + i \in 1 .. 18
    OBVIOUS
  <2>2. QED
    BY <2>1, <1>10, <1>11, Zenon
<1>13. \A i \in 1 .. 14 : b[i] = b5[i]
  <2> SUFFICES ASSUME NEW i \in 1 .. 14 PROVE b[i] = b5[i]
    OBVIOUS
  <2>1. i \in 1 .. 18
    OBVIOUS
  <2>2. QED
    BY <2>1, <1>10, <1>11, Zenon
<1>14. \A i \in 1 .. 6 : b[8 + i] = p.senderMac[i]
  <2> SUFFICES ASSUME NEW i \in 1 .. 6 PROVE b[8 + i] = p.senderMac[i]
    OBVIOUS
  <2>1. 8 + i \in 1 .. 14
    OBVIOUS
  <2>2. QED
    BY <2>1, <1>10, <1>13, Zenon
<1>15. 256 * b[7] + b[8] = code
  <2>1. b4[6 + 1] = op[1] /\ b4[6 + 2] = op[2]
    BY <1>10
  <2>2. b[7] = b5[7] /\ b[8] = b5[8] /\ b5[7] = b4[7] /\ b5[8] = b4[8]
    BY <1>10, <1>13
  <2>3. b[7] = op[1] /\ b[8] = op[2]
    BY <2>1, <2>2
  <2>4. QED
    BY <1>1, <2>3, Zenon
<1>16. QED
  BY <1>7, <1>8, <1>9, <1>12, <1>14, <1>15, Zenon DEF from

\* A packet that was sent is read as it was sent, as far as anyone looks at it.
LEMMA ArpRoundTrip ==
  ASSUME NEW p \in ArpPacket, p.senderIp \in Ipv4, NEW q \in ArpDecode(ArpEncode(p))
  PROVE  q.operation = p.operation /\ q.senderMac = p.senderMac /\ q.senderIp = p.senderIp
<1> DEFINE b == ArpEncode(p)
<1>1. /\ b \in Seq(Octet) /\ Len(b) = 28
      /\ 256 * b[7] + b[8] = IF p.operation = "Request" THEN 1 ELSE 2
      /\ \A i \in 1 .. 6 : b[8 + i] = p.senderMac[i]
      /\ \A i \in 1 .. 4 : b[14 + i] = Ipv4Octets(p.senderIp)[i]
  BY ArpOctets
<1>2. q \in ArpDecode(b)
  OBVIOUS
<1> HIDE DEF b
<1>3. q = [operation |-> IF ReadU16(b, 7) = 1 THEN "Request" ELSE "Reply",
           senderMac |-> SubSeq(b, 9, 14),
           senderIp  |-> ReadIpv4(b, 15),
           targetMac |-> SubSeq(b, 19, 24),
           targetIp  |-> ReadIpv4(b, 25)]
  BY <1>2, Zenon DEF ArpDecode
<1>4. /\ q.operation = IF ReadU16(b, 7) = 1 THEN "Request" ELSE "Reply"
      /\ q.senderMac = SubSeq(b, 9, 14) /\ q.senderIp = ReadIpv4(b, 15)
  BY <1>3
<1>5. q.operation = p.operation
  <2>1. ReadU16(b, 7) = 256 * b[7] + b[7 + 1] /\ 7 + 1 = 8
    BY DEF ReadU16
  <2>2. ReadU16(b, 7) = IF p.operation = "Request" THEN 1 ELSE 2
    BY <1>1, <2>1
  <2>3. p.operation = "Request" \/ p.operation = "Reply"
    BY DEF ArpPacket, Operations
  <2>4. QED
    BY <1>4, <2>2, <2>3
<1>6. q.senderIp = p.senderIp
  <2>1. \A i \in 1 .. 4 : 15 + (i - 1) = 14 + i
    OBVIOUS
  <2>2. \A i \in 1 .. 4 : b[15 + (i - 1)] = Ipv4Octets(p.senderIp)[i]
    BY <1>1, <2>1, Zenon
  <2>3. ReadIpv4(b, 15) = p.senderIp
    BY <2>2, Ipv4RoundTrip
  <2>4. QED
    BY <1>4, <2>3
<1>7. q.senderMac = p.senderMac
  <2>1. \A i \in 9 .. 14 : b[i] \in Octet
    <3>1. \A i \in 9 .. 14 : i \in 1 .. Len(b)
      BY <1>1
    <3>2. \A i \in 1 .. Len(b) : b[i] \in Octet
      BY <1>1, ElementOfSeq, Zenon
    <3>3. QED
      BY <3>1, <3>2, Zenon
  <2>2. /\ SubSeq(b, 9, 14) \in Seq(Octet)
        /\ Len(SubSeq(b, 9, 14)) = IF 9 <= 14 THEN 14 - 9 + 1 ELSE 0
        /\ \A i \in 1 .. 14 - 9 + 1 : SubSeq(b, 9, 14)[i] = b[9 + i - 1]
    BY <2>1, SubSeqProperties
  <2>3. /\ q.senderMac \in Seq(Octet) /\ Len(q.senderMac) = 6
        /\ \A i \in 1 .. 6 : q.senderMac[i] = b[8 + i]
    BY <1>4, <2>2
  <2>4. q.senderMac \in Mac /\ p.senderMac \in Mac
    BY <2>3, SeqIsMac DEF ArpPacket
  <2>5. \A i \in 1 .. 6 : q.senderMac[i] = p.senderMac[i]
    BY <1>1, <2>3, Zenon
  <2>6. QED
    BY <2>4, <2>5, SameMac
<1>8. QED
  BY <1>5, <1>6, <1>7

-----------------------------------------------------------------------------
(* The frames of the model *)

\* ArpFrom for a device that has the address ip.
ArpOf(d, ip, operation) ==
  EthernetEncode([dst |-> BroadcastMac, src |-> MacOf[d], ethertype |-> EtherTypeArp,
                  payload |-> ArpEncode([operation |-> operation,
                                         senderMac |-> MacOf[d], senderIp |-> ip,
                                         targetMac |-> OurMac, targetIp |-> OurIp])])

Replies      == {ArpOf(d, ip, "Reply") : d \in DeviceIds, ip \in Leases}
CutRequests  == {SubSeq(ArpOf(d, ip, "Request"), 1, 28) : d \in DeviceIds, ip \in Leases}
Ipv4Packets  == {Ipv4From(d, ip) : d \in DeviceIds, ip \in Sources}
DeviceFrames == Replies \cup CutRequests \cup Ipv4Packets
OurFrames    == {ArpRequest(OurMac, OurIp, m, ip) : m \in Mac, ip \in Int}

LEMMA DevicesHaveMacs ==
  ASSUME NEW d \in DeviceIds
  PROVE  MacOf[d] \in Macs /\ MacOf[d] \in Mac /\ FormatMac(MacOf[d]) = d
<1>1. \E m \in Macs : FormatMac(m) = d
  BY MacAssumption
<1>2. MacOf[d] = CHOOSE m \in Macs : FormatMac(m) = d
  BY DEF MacOf
<1>3. QED
  BY <1>1, <1>2, MacAssumption, Zenon

LEMMA SourcesAreIpv4 == Sources \subseteq Ipv4 /\ Sources \subseteq Int \cap Ips
  BY SourcesAssumption, SMT DEF Sources, Ipv4

LEMMA LeasesAreIpv4 == Leases \subseteq Sources /\ Leases \subseteq Ipv4 /\ Leases \subseteq Int \cap Ips
  BY SourcesAreIpv4 DEF Sources

LEMMA BroadcastIsMac == BroadcastMac \in Mac
  BY SMT DEF BroadcastMac, Mac, Octet

LEMMA EtherTypes == EtherTypeArp \in Number16 /\ EtherTypeIpv4 \in Number16 /\ EtherTypeArp # EtherTypeIpv4
  BY SMT DEF EtherTypeArp, EtherTypeIpv4, Number16

\* An ARP packet in a frame, whoever sends it.
ArpFrame(dst, src, p) ==
  EthernetEncode([dst |-> dst, src |-> src, ethertype |-> EtherTypeArp,
                  payload |-> ArpEncode(p)])

LEMMA ArpFrames ==
  ASSUME NEW dst \in Mac, NEW src \in Mac, NEW p \in ArpPacket
  PROVE  /\ ArpFrame(dst, src, p) \in Seq(Octet) /\ Len(ArpFrame(dst, src, p)) = 42
         /\ \A e \in EthernetDecode(ArpFrame(dst, src, p)) :
              e.src = src /\ e.ethertype = EtherTypeArp /\ e.payload = ArpEncode(p)
<1> DEFINE f == [dst |-> dst, src |-> src, ethertype |-> EtherTypeArp, payload |-> ArpEncode(p)]
           b == ArpFrame(dst, src, p)
<1>1. ArpEncode(p) \in Seq(Octet) /\ Len(ArpEncode(p)) = 28
  BY ArpOctets
<1>2. f \in EthernetFrame /\ f.src = src /\ f.ethertype = EtherTypeArp /\ f.payload = ArpEncode(p)
  BY <1>1, EtherTypes DEF EthernetFrame
<1>3. b = EthernetEncode(f)
  BY DEF ArpFrame
<1> HIDE DEF f, b
<1>4. b \in Seq(Octet) /\ Len(b) = 14 + Len(f.payload)
  BY <1>2, <1>3, EthernetOctets
<1>5. \A e \in EthernetDecode(b) : e.src = f.src /\ e.ethertype = f.ethertype /\ e.payload = f.payload
  BY <1>2, <1>3, EthernetRoundTrip
<1>6. Len(b) = 42
  <2>1. Len(b) = 14 + 28
    BY <1>1, <1>2, <1>4, Zenon
  <2>2. QED
    BY <2>1
<1>7. QED
  BY <1>2, <1>4, <1>5, <1>6, Zenon DEF b

\* A reply tells the address of the device.
LEMMA ReplyTells ==
  ASSUME NEW d \in DeviceIds, NEW ip \in Leases, NEW operation \in Operations
  PROVE  LET b == ArpOf(d, ip, operation)
         IN  /\ b \in Seq(Octet) /\ Len(b) = 42
             /\ \A e \in EthernetDecode(b) :
                  /\ e.src = MacOf[d] /\ e.ethertype = EtherTypeArp
                  /\ \A q \in ArpDecode(e.payload) :
                       q.operation = operation /\ q.senderMac = MacOf[d] /\ q.senderIp = ip
<1> DEFINE p == [operation |-> operation, senderMac |-> MacOf[d], senderIp |-> ip,
                 targetMac |-> OurMac, targetIp |-> OurIp]
           b == ArpOf(d, ip, operation)
<1>1. p \in ArpPacket /\ p.senderIp \in Ipv4
  BY DevicesHaveMacs, LeasesAreIpv4, MacAssumption, SweepAssumption DEF ArpPacket
<1>2. p.operation = operation /\ p.senderMac = MacOf[d] /\ p.senderIp = ip
  OBVIOUS
<1>3. b = ArpFrame(BroadcastMac, MacOf[d], p)
  BY DEF ArpOf, ArpFrame
<1> HIDE DEF p, b
<1>4. /\ b \in Seq(Octet) /\ Len(b) = 42
      /\ \A e \in EthernetDecode(b) :
           e.src = MacOf[d] /\ e.ethertype = EtherTypeArp /\ e.payload = ArpEncode(p)
  <2>1. BroadcastMac \in Mac /\ MacOf[d] \in Mac /\ p \in ArpPacket
    BY <1>1, BroadcastIsMac, DevicesHaveMacs
  <2>2. /\ ArpFrame(BroadcastMac, MacOf[d], p) \in Seq(Octet)
        /\ Len(ArpFrame(BroadcastMac, MacOf[d], p)) = 42
        /\ \A e \in EthernetDecode(ArpFrame(BroadcastMac, MacOf[d], p)) :
             e.src = MacOf[d] /\ e.ethertype = EtherTypeArp /\ e.payload = ArpEncode(p)
    BY <2>1, ArpFrames
  <2>3. QED
    BY <1>3, <2>2, Zenon
<1>5. \A q \in ArpDecode(ArpEncode(p)) :
        q.operation = operation /\ q.senderMac = MacOf[d] /\ q.senderIp = ip
  BY <1>1, <1>2, ArpRoundTrip
<1>6. QED
  BY <1>4, <1>5, Zenon DEF b

\* What an IPv4 packet tells.
LEMMA PacketTells ==
  ASSUME NEW d \in DeviceIds, NEW ip \in Sources
  PROVE  /\ Ipv4From(d, ip) \in Seq(Octet)
         /\ \A e \in EthernetDecode(Ipv4From(d, ip)) :
              /\ e.src = MacOf[d] /\ e.ethertype = EtherTypeIpv4
              /\ ParseSrc(e.payload) \subseteq {ip}
<1> DEFINE zeros   == [i \in 1 .. 11 |-> 0]
           ones    == [i \in 1 .. 4 |-> 255]
           first   == <<69>>
           from    == Ipv4Octets(ip)
           p2      == first \o zeros
           p3      == p2 \o from
           payload == p3 \o ones
           f       == [dst |-> BroadcastMac, src |-> MacOf[d], ethertype |-> EtherTypeIpv4,
                       payload |-> payload]
           b       == Ipv4From(d, ip)
<1>1. /\ first \in Seq(Octet) /\ Len(first) = 1 /\ zeros \in Seq(Octet) /\ Len(zeros) = 11
      /\ ones \in Seq(Octet) /\ Len(ones) = 4 /\ from \in Seq(Octet) /\ Len(from) = 4
  <2>1. first \in Seq(Octet) /\ Len(first) = 1
    BY SMT DEF Octet
  <2>2. zeros \in Seq(Octet) /\ Len(zeros) = 11
    BY SMT DEF Octet
  <2>3. ones \in Seq(Octet) /\ Len(ones) = 4
    BY SMT DEF Octet
  <2>4. from \in Seq(Octet) /\ Len(from) = 4
    BY Ipv4OctetsAre, SourcesAreIpv4
  <2>5. QED
    BY <2>1, <2>2, <2>3, <2>4
<1>2. b = EthernetEncode(f)
  BY Zenon DEF Ipv4From
<1>3. /\ f.src = MacOf[d] /\ f.ethertype = EtherTypeIpv4 /\ f.payload = payload
      /\ payload \in Seq(Octet) => f \in EthernetFrame
  BY BroadcastIsMac, DevicesHaveMacs, EtherTypes, Zenon DEF EthernetFrame
<1> HIDE DEF f, b, zeros, ones, first, from
<1>4. p2 \in Seq(Octet) /\ Len(p2) = Len(first) + Len(zeros)
  BY <1>1, Concatenation, Zenon
<1> HIDE DEF p2
<1>5. /\ p3 \in Seq(Octet) /\ Len(p3) = Len(p2) + Len(from)
      /\ \A i \in 1 .. Len(from) : p3[Len(p2) + i] = from[i]
  BY <1>1, <1>4, Concatenation, Zenon
<1> HIDE DEF p3
<1>6. /\ payload \in Seq(Octet)
      /\ \A i \in 1 .. Len(p3) : payload[i] = p3[i]
  BY <1>1, <1>5, Concatenation, Zenon
<1> HIDE DEF payload
<1>7. Len(p2) = 12 /\ Len(p3) = 16
  BY <1>1, <1>4, <1>5
<1>8. (\A i \in 1 .. 4 : p3[12 + i] = from[i]) /\ \A i \in 1 .. 16 : payload[i] = p3[i]
  BY <1>1, <1>5, <1>6, <1>7, Zenon
<1>9. ParseSrc(payload) \subseteq {ip}
  <2>1. \A i \in 1 .. 4 : payload[13 + (i - 1)] = from[i]
    <3> SUFFICES ASSUME NEW i \in 1 .. 4 PROVE payload[13 + (i - 1)] = from[i]
      OBVIOUS
    <3>1. 13 + (i - 1) = 12 + i /\ 12 + i \in 1 .. 16
      OBVIOUS
    <3>2. QED
      BY <3>1, <1>8, Zenon
  <2>2. ReadIpv4(payload, 13) = ip
    BY <2>1, Ipv4RoundTrip, SourcesAreIpv4 DEF from
  <2>3. QED
    BY <2>2, Zenon DEF ParseSrc
<1>10. /\ b \in Seq(Octet)
       /\ \A e \in EthernetDecode(b) :
            e.src = f.src /\ e.ethertype = f.ethertype /\ e.payload = f.payload
  BY <1>2, <1>3, <1>6, EthernetOctets, EthernetRoundTrip
<1>11. QED
  BY <1>3, <1>9, <1>10, Zenon DEF b

\* A frame that is cut short tells no address.
LEMMA CutTells ==
  ASSUME NEW d \in DeviceIds, NEW ip \in Leases
  PROVE  LET b == SubSeq(ArpOf(d, ip, "Request"), 1, 28)
         IN  /\ b \in Seq(Octet)
             /\ \A e \in EthernetDecode(b) :
                  /\ e.src = MacOf[d] /\ e.ethertype = EtherTypeArp
                  /\ ArpDecode(e.payload) = {}
<1> DEFINE whole == ArpOf(d, ip, "Request")
           b     == SubSeq(whole, 1, 28)
<1>1. whole \in Seq(Octet) /\ Len(whole) = 42
  BY ReplyTells DEF Operations
<1>2. whole \in Seq(Octet) /\ whole = ArpOf(d, ip, "Request")
  BY <1>1
<1> HIDE DEF whole
<1>3. /\ b \in Seq(Octet) /\ Len(b) = 28
      /\ \A i \in 1 .. 28 : b[i] = whole[i]
  <2>1. \A i \in 1 .. 28 : whole[i] \in Octet
    <3>1. \A i \in 1 .. 28 : i \in 1 .. Len(whole)
      BY <1>1
    <3>2. \A i \in 1 .. Len(whole) : whole[i] \in Octet
      BY <1>1, ElementOfSeq, Zenon
    <3>3. QED
      BY <3>1, <3>2, Zenon
  <2>2. /\ b \in Seq(Octet) /\ Len(b) = IF 1 <= 28 THEN 28 - 1 + 1 ELSE 0
        /\ \A i \in 1 .. 28 - 1 + 1 : b[i] = whole[1 + i - 1]
    BY <2>1, SubSeqProperties
  <2>3. \A i \in 1 .. 28 : 1 + i - 1 = i
    OBVIOUS
  <2> HIDE DEF b
  <2>4. QED
    BY <2>2, <2>3
<1> HIDE DEF b
<1> SUFFICES ASSUME NEW e \in EthernetDecode(b)
             PROVE  /\ e.src = MacOf[d] /\ e.ethertype = EtherTypeArp
                    /\ ArpDecode(e.payload) = {}
  BY <1>2, <1>3, Zenon DEF b
<1>4. /\ e.src \in Mac /\ \A i \in 1 .. 6 : e.src[i] = b[6 + i]
      /\ e.ethertype = 256 * b[13] + b[14]
      /\ Len(e.payload) = Len(b) - 14
  BY <1>3, EthernetDecoded
<1>5. ArpDecode(e.payload) = {}
  <2>1. Len(e.payload) < 28
    BY <1>3, <1>4
  <2>2. QED
    BY <2>1, Zenon DEF ArpDecode, ArpLen
<1> DEFINE p == [operation |-> "Request", senderMac |-> MacOf[d], senderIp |-> ip,
                 targetMac |-> OurMac, targetIp |-> OurIp]
           f == [dst |-> BroadcastMac, src |-> MacOf[d], ethertype |-> EtherTypeArp,
                 payload |-> ArpEncode(p)]
<1>6. p \in ArpPacket
  BY DevicesHaveMacs, LeasesAreIpv4, MacAssumption, SweepAssumption DEF ArpPacket, Operations
<1>7. whole = EthernetEncode(f)
  BY <1>2, Zenon DEF ArpOf
<1> HIDE DEF p
<1>8. ArpEncode(p) \in Seq(Octet)
  BY <1>6, ArpOctets
<1>9. f \in EthernetFrame /\ f.src = MacOf[d] /\ f.ethertype = EtherTypeArp
  BY <1>8, EtherTypes, BroadcastIsMac, DevicesHaveMacs DEF EthernetFrame
<1> HIDE DEF f
<1>10. /\ \A i \in 1 .. 6 : whole[6 + i] = f.src[i]
       /\ 256 * whole[13] + whole[14] = f.ethertype
  BY <1>7, <1>9, EthernetOctets
<1>11. e.ethertype = EtherTypeArp
  <2>1. b[13] = whole[13] /\ b[14] = whole[14]
    BY <1>3
  <2>2. QED
    BY <1>4, <1>9, <1>10, <2>1, Zenon
<1>12. e.src = MacOf[d]
  <2>1. ASSUME NEW i \in 1 .. 6 PROVE e.src[i] = MacOf[d][i]
    <3>1. 6 + i \in 1 .. 28
      OBVIOUS
    <3>2. b[6 + i] = whole[6 + i]
      BY <3>1, <1>3, Zenon
    <3>3. e.src[i] = b[6 + i] /\ whole[6 + i] = f.src[i]
      BY <1>4, <1>10, Zenon
    <3>4. QED
      BY <3>2, <3>3, <1>9
  <2>2. QED
    BY <2>1, <1>4, DevicesHaveMacs, SameMac
<1>13. QED
  BY <1>5, <1>11, <1>12

\* Our own requests are known by their source.
LEMMA OursTell ==
  ASSUME NEW m \in Mac, NEW ip \in Int
  PROVE  /\ ArpRequest(OurMac, OurIp, m, ip) \in Seq(Octet)
         /\ \A e \in EthernetDecode(ArpRequest(OurMac, OurIp, m, ip)) : e.src = OurMac
<1> DEFINE p == [operation |-> "Request", senderMac |-> OurMac, senderIp |-> OurIp,
                 targetMac |-> [i \in 1 .. 6 |-> 0], targetIp |-> ip]
           b == ArpRequest(OurMac, OurIp, m, ip)
<1>1. p \in ArpPacket
  <2>1. [i \in 1 .. 6 |-> 0] \in Mac
    BY SMT DEF Mac, Octet
  <2>2. QED
    BY <2>1, MacAssumption, SweepAssumption DEF ArpPacket, Operations
<1>2. b = ArpFrame(m, OurMac, p)
  BY Zenon DEF ArpRequest, ArpFrame
<1> HIDE DEF p, b
<1>3. OurMac \in Mac
  BY MacAssumption
<1>4. /\ ArpFrame(m, OurMac, p) \in Seq(Octet)
      /\ \A e \in EthernetDecode(ArpFrame(m, OurMac, p)) : e.src = OurMac
  BY <1>1, <1>3, ArpFrames
<1>5. QED
  BY <1>2, <1>4, Zenon DEF b

\* What the sweep makes of a frame from a device.
LEMMA Confirmed ==
  ASSUME NEW b \in DeviceFrames
  PROVE  \A r \in Confirmation(b, OurMac) : r.id \in DeviceIds /\ r.ip \in Leases
<1> SUFFICES ASSUME NEW r \in Confirmation(b, OurMac)
             PROVE  r.id \in DeviceIds /\ r.ip \in Leases
  OBVIOUS
<1>0. PICK e \in EthernetDecode(b) :
        /\ e.ethertype = EtherTypeArp
        /\ \E q \in ArpDecode(e.payload) :
             /\ q.operation = "Reply"
             /\ r = [id |-> FormatMac(q.senderMac), ip |-> q.senderIp]
  BY Zenon DEF Confirmation
<1>1. PICK q \in ArpDecode(e.payload) :
        /\ q.operation = "Reply"
        /\ r = [id |-> FormatMac(q.senderMac), ip |-> q.senderIp]
  BY <1>0
<1>2. r.id = FormatMac(q.senderMac) /\ r.ip = q.senderIp
  BY <1>1
<1>3. CASE b \in Replies
  <2>1. PICK d \in DeviceIds, ip \in Leases : b = ArpOf(d, ip, "Reply")
    BY <1>3 DEF Replies
  <2>2. q.senderMac = MacOf[d] /\ q.senderIp = ip
    BY <2>1, ReplyTells DEF Operations
  <2>3. QED
    BY <1>2, <2>2, DevicesHaveMacs
<1>4. CASE b \in CutRequests
  <2>1. PICK d \in DeviceIds, ip \in Leases : b = SubSeq(ArpOf(d, ip, "Request"), 1, 28)
    BY <1>4 DEF CutRequests
  <2>2. ArpDecode(e.payload) = {}
    BY <2>1, CutTells
  <2>3. QED
    BY <2>2
<1>5. CASE b \in Ipv4Packets
  <2>1. PICK d \in DeviceIds, ip \in Sources : b = Ipv4From(d, ip)
    BY <1>5 DEF Ipv4Packets
  <2>2. e.ethertype = EtherTypeIpv4
    BY <2>1, PacketTells
  <2>3. QED
    BY <1>0, <2>2, EtherTypes
<1>6. QED
  BY <1>3, <1>4, <1>5 DEF DeviceFrames

\* What the sniffer makes of any frame on the wire.
LEMMA Sighted ==
  ASSUME NEW b \in DeviceFrames \cup OurFrames
  PROVE  \A s \in PassiveSighting(b, OurMac) : s.id \in DeviceIds /\ s.ip \subseteq Sources
<1> SUFFICES ASSUME NEW s \in PassiveSighting(b, OurMac)
             PROVE  s.id \in DeviceIds /\ s.ip \subseteq Sources
  OBVIOUS
<1>1. PICK e \in EthernetDecode(b) :
        e.src # OurMac /\ s = [id |-> FormatMac(e.src), ip |-> AddressIn(e)]
  BY Zenon DEF PassiveSighting
<1>2. s.id = FormatMac(e.src) /\ s.ip = AddressIn(e)
  BY <1>1
<1>3. /\ e.ethertype = EtherTypeArp => AddressIn(e) = {p.senderIp : p \in ArpDecode(e.payload)}
      /\ e.ethertype = EtherTypeIpv4 => AddressIn(e) = ParseSrc(e.payload)
  BY EtherTypes, Zenon DEF AddressIn
<1>4. CASE b \in Replies
  <2>1. PICK d \in DeviceIds, ip \in Leases : b = ArpOf(d, ip, "Reply")
    BY <1>4 DEF Replies
  <2>2. /\ e.src = MacOf[d] /\ e.ethertype = EtherTypeArp
        /\ \A q \in ArpDecode(e.payload) : q.senderIp = ip
    BY <2>1, ReplyTells DEF Operations
  <2>3. QED
    BY <1>2, <1>3, <2>2, DevicesHaveMacs, LeasesAreIpv4
<1>5. CASE b \in CutRequests
  <2>1. PICK d \in DeviceIds, ip \in Leases : b = SubSeq(ArpOf(d, ip, "Request"), 1, 28)
    BY <1>5 DEF CutRequests
  <2>2. e.src = MacOf[d] /\ e.ethertype = EtherTypeArp /\ ArpDecode(e.payload) = {}
    BY <2>1, CutTells
  <2>3. QED
    BY <1>2, <1>3, <2>2, DevicesHaveMacs, LeasesAreIpv4
<1>6. CASE b \in Ipv4Packets
  <2>1. PICK d \in DeviceIds, ip \in Sources : b = Ipv4From(d, ip)
    BY <1>6 DEF Ipv4Packets
  <2>2. e.src = MacOf[d] /\ e.ethertype = EtherTypeIpv4 /\ ParseSrc(e.payload) \subseteq {ip}
    BY <2>1, PacketTells
  <2>3. QED
    BY <1>2, <1>3, <2>2, DevicesHaveMacs, LeasesAreIpv4
<1>7. CASE b \in OurFrames
  <2>1. PICK m \in Mac, ip \in Int : b = ArpRequest(OurMac, OurIp, m, ip)
    BY <1>7 DEF OurFrames
  <2>2. e.src = OurMac
    BY <2>1, OursTell
  <2>3. QED
    BY <1>1, <2>2
<1>8. QED
  BY <1>4, <1>5, <1>6, <1>7 DEF DeviceFrames

LEMMA FramesAreOctets == DeviceFrames \cup OurFrames \subseteq Seq(Octet)
<1>1. Replies \subseteq Seq(Octet)
  BY ReplyTells DEF Replies, Operations
<1>2. CutRequests \subseteq Seq(Octet)
  <2>1. \A d \in DeviceIds, ip \in Leases : SubSeq(ArpOf(d, ip, "Request"), 1, 28) \in Seq(Octet)
    BY CutTells, Zenon
  <2>2. QED
    <3> SUFFICES ASSUME NEW b \in CutRequests PROVE b \in Seq(Octet)
      OBVIOUS
    <3>1. PICK d \in DeviceIds, ip \in Leases : b = SubSeq(ArpOf(d, ip, "Request"), 1, 28)
      BY DEF CutRequests
    <3>2. QED
      BY <2>1, <3>1, Zenon
<1>3. Ipv4Packets \subseteq Seq(Octet)
  BY PacketTells DEF Ipv4Packets
<1>4. OurFrames \subseteq Seq(Octet)
  BY OursTell DEF OurFrames
<1>5. QED
  BY <1>1, <1>2, <1>3, <1>4 DEF DeviceFrames

\* The Pi is not a device, and the id of a device is its MAC address in text.
LEMMA TextIsMac ==
  ASSUME NEW m \in Mac
  PROVE  ParseMac(FormatMac(m)) = {m}
<1> DEFINE text == FormatMac(m)
           back == [i \in 1 .. 6 |-> 16 * text[i][1] + text[i][2]]
<1>1. text = [i \in 1 .. 6 |-> <<m[i] \div 16, m[i] % 16>>]
  BY DEF FormatMac
<1>2. text \in Seq(Nat \X Nat) /\ Len(text) = 6
  <2>1. \A i \in 1 .. 6 : m[i] \div 16 \in Nat /\ m[i] % 16 \in Nat
    BY SMT DEF Mac, Octet
  <2>2. text \in [1 .. 6 -> Nat \X Nat]
    BY <1>1, <2>1
  <2> HIDE DEF text
  <2>3. text \in Seq(Nat \X Nat)
    BY <2>2, SeqDef
  <2>4. DOMAIN text = 1 .. 6 /\ DOMAIN text = 1 .. Len(text) /\ Len(text) \in Nat
    BY <2>2, <2>3, LenProperties
  <2>5. QED
    BY <2>3, <2>4, SMT
<1>3. ASSUME NEW i \in 1 .. 6 PROVE 16 * text[i][1] + text[i][2] = m[i]
  <2>1. m[i] \in Nat
    BY DEF Mac, Octet
  <2>2. text[i][1] = m[i] \div 16 /\ text[i][2] = m[i] % 16
    BY <1>1
  <2>3. 16 * (m[i] \div 16) + (m[i] % 16) = m[i]
    BY <2>1, SMT
  <2>4. QED
    BY <2>2, <2>3
<1> HIDE DEF text
<1>4. back = m
  BY <1>3 DEF Mac
<1>5. ParseMac(text) = {back}
  BY <1>2, Zenon DEF ParseMac
<1>6. QED
  BY <1>4, <1>5 DEF text

LEMMA WeAreNoDevice == FormatMac(OurMac) \notin DeviceIds
<1> SUFFICES ASSUME NEW m \in Macs, FormatMac(m) = FormatMac(OurMac)
             PROVE  FALSE
  BY MacAssumption
<1>1. m \in Mac /\ OurMac \in Mac /\ m # OurMac
  BY MacAssumption
<1>2. ParseMac(FormatMac(m)) = {m} /\ ParseMac(FormatMac(OurMac)) = {OurMac}
  BY <1>1, TextIsMac
<1>3. QED
  BY <1>1, <1>2

-----------------------------------------------------------------------------
(* The addresses of a subnet *)

\* Quotient and remainder, and that multiples of a number keep their distance.
LEMMA Division ==
  ASSUME NEW a \in Nat, NEW t \in Nat \ {0}
  PROVE  a \div t \in Nat /\ a % t \in 0 .. t - 1 /\ a = t * (a \div t) + (a % t)
  BY SMT

LEMMA Multiples ==
  ASSUME NEW t \in Nat, NEW x \in Nat, NEW y \in Nat, x > y
  PROVE  t * x >= t * y + t /\ {t * x, t * y} \subseteq Nat
<1>1. PICK d \in Nat : x = y + 1 + d
  OBVIOUS
<1>2. t * x = t * y + t + t * d /\ t * d >= 0 /\ {t * x, t * y, t * d} \subseteq Nat
  BY <1>1
<1>3. QED
  BY <1>2

\* An address of the block is its base and an offset below the size.
LEMMA AddressesOfBlock ==
  ASSUME NEW network \in Addresses, NEW prefixLen \in 0 .. AddressBits,
         NEW t, t = BlockSize(prefixLen), NEW offset \in 0 .. t - 1
  PROVE  LET a == (network - (network % t)) + offset
         IN  a \in Addresses /\ a \div t = network \div t /\ a % t = offset
<1> DEFINE n == 2 ^ prefixLen
           q == network \div t
           a == (network - (network % t)) + offset
<1>1. AddressBits - prefixLen \in 0 .. AddressBits
  BY AddressBitsAssumption
<1>2. t \in Nat \ {0} /\ n \in Nat \ {0} /\ t * n = 2 ^ AddressBits /\ t * n \in Nat
  BY <1>1, PowersAssumption DEF BlockSize
<1>3. network \in Nat /\ network < t * n
  BY <1>2 DEF Addresses
<1> HIDE DEF n
<1>4. q \in Nat /\ network % t \in 0 .. t - 1 /\ network = t * q + (network % t)
  BY <1>2, <1>3, Division
<1> HIDE DEF q
<1>5. t * q \in Nat /\ offset \in Nat
  BY <1>2, <1>4
<1>6. a = t * q + offset
  BY <1>2, <1>3, <1>4, <1>5
<1> HIDE DEF a
<1>7. t * q + t <= t * n
  <2>1. ~(q > n) /\ q # n
    BY <1>2, <1>3, <1>4, <1>5, Multiples
  <2>2. QED
    BY <1>2, <1>4, <2>1, Multiples
<1>8. a \in Addresses
  BY <1>2, <1>5, <1>6, <1>7 DEF Addresses
<1>9. a \div t = q /\ a % t = offset
  <2>1. a \in Nat
    BY <1>5, <1>6
  <2>2. PICK p \in Nat : p = a \div t
    BY <1>2, <2>1, Division
  <2>3. PICK s \in 0 .. t - 1 : s = a % t
    BY <1>2, <2>1, Division
  <2>4. t * p + s = t * q + offset
    BY <1>2, <1>6, <2>1, <2>2, <2>3, Division
  <2>5. {t * p, t * q} \subseteq Nat /\ s \in 0 .. t - 1 /\ p \in Nat
    BY <1>2, <1>5, <2>2, <2>3
  <2>6. p = q
    <3>1. offset < t /\ s < t /\ offset >= 0 /\ s >= 0
      BY <1>2, <2>5
    <3>2. p > q => t * p >= t * q + t
      BY <1>2, <1>4, <2>5, Multiples
    <3>3. q > p => t * q >= t * p + t
      BY <1>2, <1>4, <2>5, Multiples
    <3>4. QED
      BY <1>2, <1>4, <1>5, <2>4, <2>5, <3>1, <3>2, <3>3
  <2>7. s = offset
    BY <1>2, <1>5, <2>4, <2>5, <2>6
  <2>8. QED
    BY <2>2, <2>3, <2>6, <2>7
<1>10. QED
  BY <1>8, <1>9 DEF q, a

\* A block has more than two addresses just when its prefix leaves two bits.
LEMMA SmallBlocks ==
  ASSUME NEW prefixLen \in 0 .. AddressBits
  PROVE  /\ BlockSize(prefixLen) \in Nat \ {0}
         /\ BlockSize(prefixLen) > 2 <=> prefixLen < AddressBits - 1
<1> DEFINE k == AddressBits - prefixLen
<1>1. k \in 0 .. AddressBits /\ (k = 0 \/ k = 1 \/ k > 1)
  BY AddressBitsAssumption
<1>2. prefixLen < AddressBits - 1 <=> k > 1
  BY AddressBitsAssumption
<1>3. BlockSize(prefixLen) = 2 ^ k
  BY DEF BlockSize
<1> HIDE DEF k
<1>4. 2 ^ 0 = 1 /\ 2 ^ 1 = 2 /\ 2 ^ k \in Nat \ {0} /\ (k > 1 => 2 ^ k > 2)
  BY <1>1, PowersAssumption
<1>5. CASE k = 0
  BY <1>2, <1>3, <1>4, <1>5
<1>6. CASE k = 1
  <2>1. BlockSize(prefixLen) = 2
    BY <1>3, <1>4, <1>6, Zenon
  <2>2. QED
    BY <1>2, <1>6, <2>1
<1>7. CASE k > 1
  BY <1>2, <1>3, <1>4, <1>7
<1>8. QED
  BY <1>1, <1>5, <1>6, <1>7

\* For each network and prefix that is not rejected, also for a network given by
\* one of its hosts, exactly the usable addresses of the subnet are swept.
LEMMA HostsAreUsable ==
  \A network \in Addresses, prefixLen \in 0 .. AddressBits :
    Hosts(network, prefixLen) = UsableHosts(network, prefixLen)
<1> SUFFICES ASSUME NEW network \in Addresses, NEW prefixLen \in 0 .. AddressBits
             PROVE  Hosts(network, prefixLen) = UsableHosts(network, prefixLen)
  OBVIOUS
<1> DEFINE t    == BlockSize(prefixLen)
           base == network - (network % t)
<1>1. t \in Nat \ {0} /\ (t > 2 <=> prefixLen < AddressBits - 1)
  BY SmallBlocks
<1>2. network \in Nat /\ Addresses \subseteq Nat
  BY AddressBitsAssumption, PowersAssumption DEF Addresses
<1>3. \A offset \in 0 .. t - 1 :
        /\ base + offset \in Addresses
        /\ (base + offset) \div t = network \div t /\ (base + offset) % t = offset
  BY AddressesOfBlock
<1>4. Hosts(network, prefixLen) = {base + offset : offset \in Offsets(t)}
  BY DEF Hosts
<1>5. UsableHosts(network, prefixLen) =
        {a \in Addresses : /\ a \div t = network \div t
                           /\ prefixLen < AddressBits - 1 => a % t \notin {0, t - 1}}
  BY DEF UsableHosts, SameBlock, HostPart
<1>6. \A a \in Addresses : a \div t = network \div t => a = base + (a % t) /\ a % t \in 0 .. t - 1
  <2> TAKE a \in Addresses
  <2>1. a \in Nat
    BY <1>2
  <2> HIDE DEF t
  <2>2. /\ a % t \in 0 .. t - 1 /\ a = t * (a \div t) + (a % t)
        /\ network % t \in 0 .. t - 1 /\ network = t * (network \div t) + (network % t)
        /\ t * (a \div t) \in Int /\ t * (network \div t) \in Int
    BY <1>1, <1>2, <2>1, Division
  <2>3. QED
    BY <2>2, <1>2, <2>1
<1>7. Offsets(t) = {i \in 0 .. t - 1 : prefixLen < AddressBits - 1 => i \notin {0, t - 1}}
  <2> HIDE DEF t
  <2>1. QED
    BY <1>1 DEF Offsets
<1> HIDE DEF t, base
<1>8. ASSUME NEW a \in Hosts(network, prefixLen) PROVE a \in UsableHosts(network, prefixLen)
  <2>1. PICK i \in Offsets(t) : a = base + i
    BY <1>4
  <2>2. QED
    BY <1>3, <1>5, <1>7, <2>1
<1>9. ASSUME NEW a \in UsableHosts(network, prefixLen) PROVE a \in Hosts(network, prefixLen)
  <2>1. a \in Addresses /\ a \div t = network \div t
        /\ (prefixLen < AddressBits - 1 => a % t \notin {0, t - 1})
    BY <1>5
  <2>2. a = base + (a % t) /\ a % t \in Offsets(t)
    BY <1>6, <1>7, <2>1
  <2>3. QED
    BY <1>4, <2>2
<1>10. QED
  BY <1>8, <1>9

-----------------------------------------------------------------------------
(* The requests of a cycle *)

Requests == [dst : Mac, ip : Int]

LEMMA NetworkIsNatural == Network \in Nat
<1>1. 2 ^ AddressBits \in Nat
  BY AddressBitsAssumption, PowersAssumption
<1>2. QED
  BY <1>1, SweepAssumption DEF Addresses

\* The usable addresses are consecutive.
LEMMA HostsAreConsecutive ==
  \E low \in Int, high \in Int : HostsOrNone(Network, PrefixLen) = low .. high
<1>1. CASE Rejected(PrefixLen)
  <2>1. HostsOrNone(Network, PrefixLen) = 1 .. 0
    BY <1>1, SMT DEF HostsOrNone
  <2>2. QED
    BY <2>1
<1>2. CASE ~Rejected(PrefixLen)
  <2> DEFINE total == BlockSize(PrefixLen)
             base  == Network - (Network % total)
  <2>1. total \in Nat \ {0}
    <3>1. AddressBits - PrefixLen \in 0 .. AddressBits
      BY <1>2, AddressBitsAssumption, SweepAssumption DEF Rejected
    <3>2. QED
      BY <3>1, PowersAssumption DEF BlockSize
  <2>2. HostsOrNone(Network, PrefixLen) = {base + offset : offset \in Offsets(total)}
    BY <1>2, Zenon DEF HostsOrNone, Hosts
  <2> HIDE DEF total
  <2>3. base \in Int
    BY <2>1, NetworkIsNatural, SMT
  <2>4. \E first \in Int, last \in Int : Offsets(total) = first .. last
    <3>1. total - 1 \in Int /\ total - 2 \in Int /\ 0 \in Int /\ 1 \in Int
      BY <2>1
    <3>2. Offsets(total) = 0 .. total - 1 \/ Offsets(total) = 1 .. total - 2
      BY DEF Offsets
    <3>3. QED
      BY <3>1, <3>2
  <2> HIDE DEF base
  <2>5. PICK first \in Int, last \in Int : Offsets(total) = first .. last
    BY <2>4
  <2>6. {base + offset : offset \in first .. last} = base + first .. base + last
    <3>1. \A x \in base + first .. base + last : x - base \in first .. last /\ base + (x - base) = x
      BY <2>3
    <3>2. \A x \in first .. last : base + x \in base + first .. base + last
      BY <2>3
    <3>3. QED
      BY <3>1, <3>2
  <2>7. HostsOrNone(Network, PrefixLen) = base + first .. base + last
    BY <2>2, <2>5, <2>6
  <2>8. QED
    BY <2>3, <2>7
<1>3. QED
  BY <1>1, <1>2

\* So there is an ascending order of the targets, and it is the one that Probes
\* takes.
LEMMA TargetsAscend ==
  \E s \in [1 .. Cardinality(Targets) -> Targets] :
    \A i, j \in DOMAIN s : i < j => s[i] < s[j]
<1>1. PICK low \in Int, high \in Int : HostsOrNone(Network, PrefixLen) = low .. high
  BY HostsAreConsecutive
<1>2. Targets = (low .. high) \ {OurIp} /\ OurIp \in Int
  BY <1>1, SweepAssumption DEF Targets
<1>3. IsFiniteSet(low .. high) /\ Cardinality(low .. high) = IF low > high THEN 0 ELSE high - low + 1
  BY FS_Interval
<1>4. Cardinality(Targets) = IF OurIp \in low .. high THEN Cardinality(low .. high) - 1
                             ELSE Cardinality(low .. high)
  BY <1>2, <1>3, FS_RemoveElement
<1>5. CASE OurIp \in low .. high
  <2>1. Cardinality(Targets) = high - low
    BY <1>3, <1>4, <1>5
  <2> DEFINE s == [i \in 1 .. high - low |->
                     IF low + i - 1 < OurIp THEN low + i - 1 ELSE low + i]
  <2>2. s \in [1 .. high - low -> Targets]
    BY <1>2, <1>5
  <2>3. \A i, j \in 1 .. high - low : i < j => s[i] < s[j]
    BY <1>2
  <2>4. DOMAIN s = 1 .. high - low
    OBVIOUS
  <2> HIDE DEF s
  <2>5. QED
    BY <2>1, <2>2, <2>3, <2>4
<1>6. CASE OurIp \notin low .. high
  <2> DEFINE n == Cardinality(Targets)
             s == [i \in 1 .. n |-> low + i - 1]
  <2>1. n = IF low > high THEN 0 ELSE high - low + 1
    BY <1>3, <1>4, <1>6
  <2>2. \A i \in 1 .. n : low + i - 1 \in low .. high
    BY <2>1
  <2>3. s \in [1 .. n -> Targets]
    BY <1>2, <1>6, <2>2
  <2>4. \A i, j \in 1 .. n : i < j => low + i - 1 < low + j - 1
    BY <2>1
  <2>5. \A i, j \in DOMAIN s : i < j => s[i] < s[j]
    BY <2>4
  <2> HIDE DEF s
  <2>6. QED
    BY <2>3, <2>5 DEF n
<1>7. QED
  BY <1>5, <1>6

\* Its elements, and that there are finitely many.
LEMMA TargetsAreNumbers == Targets \subseteq Int /\ IsFiniteSet(Targets)
<1>1. PICK low \in Int, high \in Int : HostsOrNone(Network, PrefixLen) = low .. high
  BY HostsAreConsecutive
<1>2. Targets = (low .. high) \ {OurIp} /\ IsFiniteSet(low .. high)
  BY <1>1, FS_Interval DEF Targets
<1>3. IsFiniteSet(Targets)
  BY <1>2, FS_RemoveElement
<1>4. QED
  BY <1>2, <1>3

\* There is a request to everybody for each target, and one only.
LEMMA ProbesAskEachTarget ==
  /\ Probes \in Seq(Requests)
  /\ \A i \in DOMAIN Probes : Probes[i].dst = BroadcastMac
  /\ {Probes[i].ip : i \in DOMAIN Probes} = Targets
  /\ \A i, j \in DOMAIN Probes : i # j => Probes[i].ip # Probes[j].ip
<1> DEFINE n     == Cardinality(Targets)
           order == CHOOSE s \in [1 .. n -> Targets] :
                      \A i, j \in DOMAIN s : i < j => s[i] < s[j]
<1>1. order \in [1 .. n -> Targets] /\ \A i, j \in DOMAIN order : i < j => order[i] < order[j]
  BY TargetsAscend, Zenon
<1>2. Probes = [i \in DOMAIN order |-> Request(BroadcastMac, order[i])]
  BY DEF Probes
<1>3. n \in Nat /\ Targets \subseteq Int /\ IsFiniteSet(Targets)
  BY TargetsAreNumbers, FS_CardinalityType
<1>4. n = Cardinality(Targets)
  OBVIOUS
<1> HIDE DEF order, n
<1>5. \A i, j \in 1 .. n : i # j => order[i] # order[j]
  <2> SUFFICES ASSUME NEW i \in 1 .. n, NEW j \in 1 .. n, i # j PROVE order[i] # order[j]
    OBVIOUS
  <2>1. order[i] \in Targets /\ order[j] \in Targets
    BY <1>1
  <2>2. order[i] \in Int /\ order[j] \in Int
    BY <1>3, <2>1, Zenon
  <2>3. i < j \/ j < i
    OBVIOUS
  <2>4. (i < j => order[i] < order[j]) /\ (j < i => order[j] < order[i])
    BY <1>1
  <2>5. QED
    BY <2>2, <2>3, <2>4
<1>6. \A target \in Targets : \E i \in 1 .. n : order[i] = target
  <2>1. order \in Injection(1 .. n, Targets)
    BY <1>1, <1>5, Zenon DEF Injection, IsInjective
  <2>2. Cardinality(1 .. n) = Cardinality(Targets)
    BY <1>3, <1>4, FS_Interval
  <2>3. order \in Surjection(1 .. n, Targets)
    BY <1>3, <2>1, <2>2, FS_Injection
  <2>4. QED
    BY <2>3 DEF Surjection
<1>7. Probes \in [1 .. n -> Requests]
  BY <1>1, <1>2, <1>3, BroadcastIsMac DEF Request, Requests
<1>8. DOMAIN Probes = 1 .. n
      /\ \A i \in 1 .. n : Probes[i].dst = BroadcastMac /\ Probes[i].ip = order[i]
  BY <1>1, <1>2 DEF Request
<1>9. Probes \in Seq(Requests)
  BY <1>3, <1>7, SeqDef
<1>10. {Probes[i].ip : i \in DOMAIN Probes} = Targets
  BY <1>1, <1>6, <1>8
<1>11. QED
  BY <1>5, <1>8, <1>9, <1>10

LEMMA ProbesAreRequests == Probes \in Seq(Requests)
  BY ProbesAskEachTarget

LEMMA TargetsAreSwept == Targets = Swept
<1>1. CASE Rejected(PrefixLen)
  BY <1>1 DEF Targets, HostsOrNone, Swept
<1>2. CASE ~Rejected(PrefixLen)
  <2>1. Network \in Addresses /\ PrefixLen \in 0 .. AddressBits
    BY <1>2, SweepAssumption, AddressBitsAssumption DEF Rejected
  <2>2. Hosts(Network, PrefixLen) = UsableHosts(Network, PrefixLen)
    BY <2>1, HostsAreUsable
  <2>3. QED
    BY <1>2, <2>2 DEF Targets, HostsOrNone, Swept
<1>3. QED
  BY <1>1, <1>2

(* Whichever network and prefix are configured, a pass of probes goes to    *)
(* exactly the usable addresses of the subnet but our own, to each of them  *)
(* once, and to none if `hosts` rejects the prefix; it reaches just the     *)
(* devices that have one of them (run_sweep_cycle, subnet.rs).              *)
THEOREM SubnetIsProbed == Spec => ProbesCoverTheSubnet
<1> DEFINE A == Broadcast =>
                  /\ {Probes[i].ip : i \in DOMAIN Probes} = Swept
                  /\ \A i, j \in DOMAIN Probes : i # j => Probes[i].ip # Probes[j].ip
                  /\ asked' = asked \cup {d \in DeviceIds : lan[d] \in Swept}
<1>1. A
  <2> SUFFICES ASSUME Broadcast
               PROVE  asked' = asked \cup {d \in DeviceIds : lan[d] \in Swept}
    BY ProbesAskEachTarget, TargetsAreSwept
  <2>1. asked' = asked \cup
          {d \in DeviceIds : \E i \in DOMAIN Probes :
                               /\ Probes[i].dst \in {BroadcastMac, MacOf[d]}
                               /\ Probes[i].ip = lan[d]}
    BY DEF Broadcast, Send
  <2>2. Swept = {Probes[i].ip : i \in DOMAIN Probes}
        /\ \A i \in DOMAIN Probes : Probes[i].dst = BroadcastMac
    BY ProbesAskEachTarget, TargetsAreSwept
  <2>3. QED
    BY <2>1, <2>2
<1>2. [Next]_vars => [A]_vars
  BY <1>1
<1>3. QED
  BY <1>2, PTL DEF Spec, ProbesCoverTheSubnet

\* There is a retry for each suspect, at its last known address.
LEMMA RetriesReachSuspects ==
  ASSUME IsTable(knownIps, Leases)
  PROVE  /\ Retries \in Seq(Requests)
         /\ \A d \in Suspects :
              \E i \in DOMAIN Retries : Retries[i] = Request(MacOf[d], knownIps[d])
<1> DEFINE W == UNION {{Request(m, knownIps[d]) : m \in ParseMac(d)} : d \in Suspects}
           n == Cardinality(W)
           g == SetToSeq(W)
<1>1. \A d \in Suspects : d \in DeviceIds /\ knownIps[d] \in Leases
  BY DEF Suspects, IsTable
<1>2. \A d \in DeviceIds : ParseMac(d) = {MacOf[d]}
  BY DevicesHaveMacs, TextIsMac
<1>3. W = {Request(MacOf[d], knownIps[d]) : d \in Suspects}
  BY <1>1, <1>2
<1>4. W \subseteq Requests
  <2>1. \A d \in Suspects : MacOf[d] \in Mac /\ knownIps[d] \in Int
    BY <1>1, DevicesHaveMacs, LeasesAreIpv4
  <2>2. \A d \in Suspects : Request(MacOf[d], knownIps[d]) \in Requests
    BY <2>1 DEF Request, Requests
  <2>3. QED
    BY <1>3, <2>2
<1>5. IsFiniteSet(W)
  <2> DEFINE f == [r \in W |-> r.dst]
  <2>1. \A r \in W : r.dst \in Macs
    BY <1>1, <1>3, DevicesHaveMacs DEF Request
  <2>2. \A r, q \in W : r.dst = q.dst => r = q
    BY <1>1, <1>3, DevicesHaveMacs DEF Request
  <2>3. f \in Injection(W, Macs)
    <3>1. f \in [W -> Macs] /\ \A r \in W : f[r] = r.dst
      BY <2>1
    <3> HIDE DEF f
    <3>2. \A a, b \in W : f[a] = f[b] => a = b
      BY <2>2, <3>1
    <3>3. QED
      BY <3>1, <3>2, Zenon DEF Injection, IsInjective
  <2>4. QED
    BY <2>3, MacAssumption, FS_Injection, Zenon
<1> HIDE DEF W
<1>6. n \in Nat /\ ExistsBijection(1 .. n, W)
  BY <1>5, FS_CardinalityType
<1> HIDE DEF n
<1>7. g = CHOOSE f \in [1 .. n -> W] : IsInjective(f)
  BY DEF n, SetToSeq
<1>8. \E f \in [1 .. n -> W] : IsInjective(f)
  BY <1>6 DEF ExistsBijection, Bijection, Injection, IsInjective
<1>9. g \in [1 .. n -> W] /\ IsInjective(g)
  BY <1>7, <1>8, Zenon
<1>10. g = Retries
  BY DEF Retries, W
<1> HIDE DEF g
<1>11. g \in Injection(1 .. n, W)
  BY <1>9 DEF Injection, IsInjective
<1>12. g \in Surjection(1 .. n, W)
  <2>1. Cardinality(1 .. n) = Cardinality(W)
    BY <1>6, FS_Interval DEF n
  <2>2. QED
    BY <1>5, <1>11, <2>1, FS_Injection
<1>13. \A r \in W : \E i \in DOMAIN g : g[i] = r
  BY <1>9, <1>12 DEF Surjection
<1>14. g \in Seq(Requests)
  BY <1>4, <1>6, <1>9, SeqDef
<1>15. QED
  BY <1>3, <1>10, <1>13, <1>14

-----------------------------------------------------------------------------
(* The type invariant, by parts *)

LanOK ==
  /\ lan \in [DeviceIds -> Leases \cup {None}]
  /\ moves \in 0 .. MaxMoves
  /\ asked \subseteq {d \in DeviceIds : lan[d] # None}

\* Only devices' frames are in the socket of the sweep, and ours too in the other.
SocketsOK ==
  /\ sweepSocket \in Seq(DeviceFrames) /\ Len(sweepSocket) <= SocketSize
  /\ sniffSocket \in Seq(DeviceFrames \cup OurFrames) /\ Len(sniffSocket) <= SocketSize

\* What a cycle has found, and what is remembered of earlier ones.
CycleOK ==
  /\ pc \in {"asleep", "firstWindow", "secondWindow", "reporting"}
  /\ IsTable(confirmed, Leases) /\ IsTable(knownIps, Leases)
  /\ pc = "asleep" => confirmed = EmptyMap
  /\ unsent \subseteq DOMAIN confirmed
  /\ pc # "reporting" => unsent = {}
  /\ pc = "reporting" => DOMAIN confirmed \subseteq DOMAIN knownIps
  /\ reported \subseteq DOMAIN knownIps

NetOK == net \in Seq(NetEvent) /\ Len(net) <= ChannelSize

DevicesOK == IsTable(devices, Device)

SInv == LanOK /\ SocketsOK /\ CycleOK /\ NetOK /\ DevicesOK

LEMMA NoneIsNoLease == None \notin Leases /\ None \notin Int
  BY NoneAssumption, LeasesAreIpv4

LEMMA EmptyTable ==
  ASSUME NEW S
  PROVE  IsTable(EmptyMap, S) /\ DOMAIN EmptyMap = {}
  BY DEF EmptyMap, IsTable

LEMMA InitSInv == Init => SInv
<1> SUFFICES ASSUME Init PROVE SInv
  OBVIOUS
<1>1. LanOK
  BY SweepAssumption DEF Init, LanOK
<1>2. SocketsOK
  BY SweepAssumption, EmptySeq DEF Init, SocketsOK
<1>3. CycleOK
  BY EmptyTable DEF Init, CycleOK
<1>4. NetOK
  BY SweepAssumption, EmptySeq DEF Init, NetOK
<1>5. DevicesOK
  BY EmptyTable DEF Init, DevicesOK, EmptyMap
<1>6. QED
  BY <1>1, <1>2, <1>3, <1>4, <1>5 DEF SInv

\* The kernel's queue takes frames of its kind, and no more than it has room for.
LEMMA ReceiveKeeps ==
  ASSUME NEW F, NEW socket \in Seq(F), NEW frames \in Seq(F)
  PROVE  Receive(socket, frames) \in Seq(F) /\ Len(Receive(socket, frames)) <= SocketSize
<1> DEFINE all == socket \o frames
           n   == Len(all)
           m   == Min({n, SocketSize})
<1>1. all \in Seq(F) /\ n \in Nat /\ \A i \in 1 .. n : all[i] \in F
  BY ConcatProperties, LenProperties, ElementOfSeq
<1>2. Receive(socket, frames) = SubSeq(all, 1, m)
  BY DEF Receive
<1> HIDE DEF all
<1>3. m \in Nat /\ m <= n /\ m <= SocketSize
  <2> HIDE DEF n
  <2>1. n \in Nat /\ SocketSize \in Nat
    BY <1>1, SweepAssumption
  <2>2. \E x \in {n, SocketSize} : \A y \in {n, SocketSize} : x <= y
    BY <2>1
  <2>3. m \in {n, SocketSize} /\ \A y \in {n, SocketSize} : m <= y
    BY <2>2, Zenon DEF Min
  <2>4. QED
    BY <2>1, <2>3
<1> HIDE DEF n, m
<1>4. \A i \in 1 .. m : all[i] \in F
  BY <1>1, <1>3
<1>5. SubSeq(all, 1, m) \in Seq(F) /\ Len(SubSeq(all, 1, m)) = IF 1 <= m THEN m - 1 + 1 ELSE 0
  BY <1>3, <1>4, SubSeqProperties
<1>6. QED
  BY <1>2, <1>3, <1>5

-----------------------------------------------------------------------------
(* What the actions do, for the invariants that follow *)

\* A pass of sends: who has an address that is asked for may answer, and the
\* sniffer's socket gets frames of ours.
Sends ==
  /\ asked' \subseteq asked \cup {d \in DeviceIds : lan[d] \in Int}
  /\ \E frames \in Seq(OurFrames) : sniffSocket' = Receive(sniffSocket, frames)

LEMMA SendSends ==
  ASSUME NEW requests \in Seq(Requests), Send(requests)
  PROVE  Sends
<1>1. /\ Len(requests) \in Nat /\ DOMAIN requests = 1 .. Len(requests)
      /\ \A i \in DOMAIN requests : requests[i] \in Requests
  BY LenProperties, ElementOfSeq
<1>2. \A i \in DOMAIN requests : requests[i].dst \in Mac /\ requests[i].ip \in Int
  BY <1>1 DEF Requests
<1> DEFINE frames == [i \in DOMAIN requests |->
                        ArpRequest(OurMac, OurIp, requests[i].dst, requests[i].ip)]
<1>3. frames \in Seq(OurFrames)
  <2>1. frames \in [1 .. Len(requests) -> OurFrames]
    BY <1>1, <1>2 DEF OurFrames
  <2> HIDE DEF frames
  <2>2. QED
    BY <1>1, <2>1, SeqDef
<1>4. sniffSocket' = Receive(sniffSocket, frames)
  BY DEF Send
<1>5. asked' \subseteq asked \cup {d \in DeviceIds : lan[d] \in Int}
  <2>1. asked' = asked \cup
          {d \in DeviceIds : \E i \in DOMAIN requests :
                               /\ requests[i].dst \in {BroadcastMac, MacOf[d]}
                               /\ requests[i].ip = lan[d]}
    BY DEF Send
  <2>2. QED
    BY <1>2, <2>1
<1> HIDE DEF frames
<1>6. QED
  BY <1>3, <1>4, <1>5 DEF Sends

LEMMA FirstOf ==
  ASSUME NEW S, NEW s \in Seq(S), NEW n \in 0 .. Len(s)
  PROVE  SubSeq(s, 1, n) \in Seq(S)
<1>1. \A i \in 1 .. n : s[i] \in S
  BY LenProperties, ElementOfSeq
<1>2. QED
  BY <1>1, SubSeqProperties

LEMMA CyclesSend ==
  ASSUME SInv, Broadcast \/ BroadcastFails \/ RetrySuspects \/ CycleFails
  PROVE  Sends
<1>1. Probes \in Seq(Requests) /\ Len(Probes) \in Nat
  BY ProbesAreRequests, LenProperties
<1>2. Retries \in Seq(Requests) /\ Len(Retries) \in Nat
  BY RetriesReachSuspects, LenProperties DEF SInv, CycleOK
<1>3. CASE Broadcast
  BY <1>1, <1>3, SendSends DEF Broadcast
<1>4. CASE BroadcastFails
  <2>1. PICK sent \in 0 .. Len(Probes) - 1 : Send(SubSeq(Probes, 1, sent))
    BY <1>4 DEF BroadcastFails
  <2>2. sent \in 0 .. Len(Probes)
    BY <1>1
  <2>3. SubSeq(Probes, 1, sent) \in Seq(Requests)
    BY <1>1, <2>2, FirstOf
  <2>4. QED
    BY <2>1, <2>3, SendSends
<1>5. CASE RetrySuspects
  BY <1>2, <1>5, SendSends DEF RetrySuspects
<1>6. CASE CycleFails
  <2>1. CASE \E sent \in 0 .. Len(Retries) : Send(SubSeq(Retries, 1, sent))
    <3>1. PICK sent \in 0 .. Len(Retries) : Send(SubSeq(Retries, 1, sent))
      BY <2>1
    <3>2. SubSeq(Retries, 1, sent) \in Seq(Requests)
      BY <1>2, FirstOf
    <3>3. QED
      BY <3>1, <3>2, SendSends
  <2>2. CASE Send(<<>>)
    BY <2>2, SendSends, EmptySeq
  <2>3. QED
    BY <1>6, <2>1, <2>2 DEF CycleFails
<1>7. QED
  BY <1>3, <1>4, <1>5, <1>6

-----------------------------------------------------------------------------
(* Every step preserves each part *)

LEMMA NextLan == SInv /\ [Next]_vars => LanOK'
<1> SUFFICES ASSUME SInv, [Next]_vars PROVE LanOK'
  OBVIOUS
<1>0. LanOK
  BY DEF SInv
<1>1. CASE UNCHANGED <<lanVars, asked>>
  BY <1>0, <1>1 DEF LanOK, lanVars
<1>2. ASSUME NEW d \in DeviceIds, NEW place \in Leases \cup {None}, Move(d, place)
      PROVE  LanOK'
  <2>1. /\ lan' = [lan EXCEPT ![d] = place] /\ asked' = asked \ {d}
        /\ moves' = moves + 1 /\ moves < MaxMoves
    BY <1>2 DEF Move
  <2>2. lan' \in [DeviceIds -> Leases \cup {None}] /\ \A x \in DeviceIds \ {d} : lan'[x] = lan[x]
    BY <1>0, <2>1 DEF LanOK
  <2>3. asked' \subseteq {x \in DeviceIds : lan'[x] # None}
    BY <1>0, <2>1, <2>2 DEF LanOK
  <2>4. moves' \in 0 .. MaxMoves
    BY <1>0, <2>1, SweepAssumption DEF LanOK
  <2>5. QED
    BY <2>2, <2>3, <2>4 DEF LanOK
<1>3. ASSUME NEW d \in DeviceIds, Reply(d) \/ Ignore(d)
      PROVE  LanOK'
  <2>1. asked' = asked \ {d} /\ UNCHANGED lanVars
    BY <1>3 DEF Reply, Ignore
  <2>2. QED
    BY <1>0, <2>1 DEF LanOK, lanVars
<1>4. CASE Broadcast \/ BroadcastFails \/ RetrySuspects \/ CycleFails
  <2>1. asked' \subseteq asked \cup {d \in DeviceIds : lan[d] \in Int}
    BY <1>4, CyclesSend DEF Sends
  <2>2. UNCHANGED lanVars
    BY <1>4 DEF Broadcast, BroadcastFails, RetrySuspects, CycleFails
  <2>3. QED
    BY <1>0, <2>1, <2>2, NoneIsNoLease DEF LanOK, lanVars
<1>5. ASSUME NEW d \in DeviceIds, Chatter(d) \/ Forward(d) \/ Report(d) \/ TakeSighting(d)
      PROVE  LanOK'
  BY <1>1, <1>5 DEF Chatter, Forward, Report, TakeSighting
<1>6. CASE Collect \/ CloseSecondWindow \/ Complete \/ Sniff \/ TakeSweepComplete
  BY <1>1, <1>6 DEF Collect, CloseSecondWindow, Complete, Sniff, TakeSweepComplete
<1>7. QED
  BY <1>1, <1>2, <1>3, <1>4, <1>5, <1>6 DEF Next, vars

LEMMA NextSockets == SInv /\ [Next]_vars => SocketsOK'
<1> SUFFICES ASSUME SInv, [Next]_vars PROVE SocketsOK'
  OBVIOUS
<1>0. SocketsOK /\ LanOK /\ SocketSize \in Nat
  BY SweepAssumption DEF SInv
<1>1. CASE UNCHANGED socketVars
  BY <1>0, <1>1 DEF SocketsOK, socketVars
<1>2. ASSUME NEW frame \in DeviceFrames,
             sweepSocket' = Receive(sweepSocket, <<frame>>),
             sniffSocket' = Receive(sniffSocket, <<frame>>)
      PROVE  SocketsOK'
  <2>1. <<frame>> \in Seq(DeviceFrames) /\ <<frame>> \in Seq(DeviceFrames \cup OurFrames)
    OBVIOUS
  <2>2. QED
    BY <1>0, <1>2, <2>1, ReceiveKeeps DEF SocketsOK
<1>3. ASSUME NEW d \in DeviceIds, Reply(d)
      PROVE  SocketsOK'
  <2>1. lan[d] \in Leases
    BY <1>0, <1>3 DEF Reply, LanOK
  <2>2. ArpFrom(d, "Reply") = ArpOf(d, lan[d], "Reply")
    BY Zenon DEF ArpFrom, ArpOf
  <2>3. ArpFrom(d, "Reply") \in DeviceFrames
    BY <2>1, <2>2 DEF DeviceFrames, Replies
  <2>4. QED
    BY <1>2, <1>3, <2>3 DEF Reply
<1>4. ASSUME NEW d \in DeviceIds, Chatter(d)
      PROVE  SocketsOK'
  <2>1. lan[d] \in Leases
    BY <1>0, <1>4 DEF Chatter, LanOK
  <2>2. ArpFrom(d, "Request") = ArpOf(d, lan[d], "Request")
    BY Zenon DEF ArpFrom, ArpOf
  <2>3. Ipv4From(d, lan[d]) \in DeviceFrames
    BY <2>1, LeasesAreIpv4 DEF DeviceFrames, Ipv4Packets
  <2>4. SubSeq(ArpFrom(d, "Request"), 1, 28) \in DeviceFrames
    BY <2>1, <2>2 DEF DeviceFrames, CutRequests
  <2>5. PICK frame \in {Ipv4From(d, lan[d]), SubSeq(ArpFrom(d, "Request"), 1, 28)} :
          /\ sweepSocket' = Receive(sweepSocket, <<frame>>)
          /\ sniffSocket' = Receive(sniffSocket, <<frame>>)
    BY <1>4, Zenon DEF Chatter
  <2>6. frame \in DeviceFrames
    BY <2>3, <2>4, <2>5, Zenon
  <2>7. QED
    BY <1>2, <2>5, <2>6, Zenon
<1>10. ASSUME NEW d \in DeviceIds, Forward(d)
       PROVE  SocketsOK'
  <2>1. PICK ip \in Forwarded :
          /\ sweepSocket' = Receive(sweepSocket, <<Ipv4From(d, ip)>>)
          /\ sniffSocket' = Receive(sniffSocket, <<Ipv4From(d, ip)>>)
    BY <1>10, Zenon DEF Forward
  <2>2. Ipv4From(d, ip) \in DeviceFrames
    BY DEF DeviceFrames, Ipv4Packets, Sources
  <2>3. QED
    BY <1>2, <2>1, <2>2, Zenon
<1>5. CASE Broadcast \/ BroadcastFails \/ RetrySuspects \/ CycleFails
  <2>1. PICK frames \in Seq(OurFrames) : sniffSocket' = Receive(sniffSocket, frames)
    BY <1>5, CyclesSend DEF Sends
  <2>2. sweepSocket' = sweepSocket
    BY <1>5 DEF Broadcast, BroadcastFails, RetrySuspects, CycleFails
  <2>3. frames \in Seq(DeviceFrames \cup OurFrames)
    BY SeqMonotonic
  <2>4. QED
    BY <1>0, <2>1, <2>2, <2>3, ReceiveKeeps DEF SocketsOK
<1>6. CASE Collect
  <2>1. sweepSocket # <<>> /\ sweepSocket' = Tail(sweepSocket) /\ sniffSocket' = sniffSocket
    BY <1>6 DEF Collect
  <2>2. /\ Tail(sweepSocket) \in Seq(DeviceFrames)
        /\ Len(Tail(sweepSocket)) = Len(sweepSocket) - 1 /\ Len(sweepSocket) \in Nat
    BY <1>0, <2>1, HeadTailProperties, LenProperties DEF SocketsOK
  <2>3. QED
    BY <1>0, <2>1, <2>2 DEF SocketsOK
<1>7. CASE Sniff
  <2>1. sniffSocket # <<>> /\ sniffSocket' = Tail(sniffSocket) /\ sweepSocket' = sweepSocket
    BY <1>7 DEF Sniff
  <2>2. /\ Tail(sniffSocket) \in Seq(DeviceFrames \cup OurFrames)
        /\ Len(Tail(sniffSocket)) = Len(sniffSocket) - 1 /\ Len(sniffSocket) \in Nat
    BY <1>0, <2>1, HeadTailProperties, LenProperties DEF SocketsOK
  <2>3. QED
    BY <1>0, <2>1, <2>2 DEF SocketsOK
<1>8. ASSUME NEW d \in DeviceIds, NEW place,
             Move(d, place) \/ Ignore(d) \/ Report(d) \/ TakeSighting(d)
      PROVE  SocketsOK'
  BY <1>1, <1>8 DEF Move, Ignore, Report, TakeSighting
<1>9. CASE CloseSecondWindow \/ Complete \/ TakeSweepComplete
  BY <1>1, <1>9 DEF CloseSecondWindow, Complete, TakeSweepComplete
<1>11. QED
  BY <1>1, <1>3, <1>4, <1>5, <1>6, <1>7, <1>8, <1>9, <1>10 DEF Next, vars

LEMMA NextCycle == SInv /\ [Next]_vars => CycleOK'
<1> SUFFICES ASSUME SInv, [Next]_vars PROVE CycleOK'
  OBVIOUS
<1>0. CycleOK
  BY DEF SInv
<1>1. CASE UNCHANGED <<cycleVars, knownIps, reported>>
  BY <1>0, <1>1 DEF CycleOK, cycleVars
<1>2. CASE Broadcast \/ RetrySuspects
  <2>1. /\ pc \in {"asleep", "firstWindow"} /\ pc' \in {"firstWindow", "secondWindow"}
        /\ UNCHANGED <<confirmed, unsent, knownIps, reported>>
    BY <1>2 DEF Broadcast, RetrySuspects
  <2>2. QED
    BY <1>0, <2>1 DEF CycleOK
<1>3. CASE Collect
  <2> DEFINE b       == Head(sweepSocket)
             replies == Confirmation(b, OurMac)
  <2>1. /\ pc \in {"firstWindow", "secondWindow"}
        /\ confirmed' = Confirm(confirmed, replies)
        /\ UNCHANGED <<pc, unsent, knownIps, reported>>
    BY <1>3 DEF Collect
  <2>2. \A r \in replies : r.id \in DeviceIds /\ r.ip \in Leases
    <3>1. b \in DeviceFrames
      BY <1>3, HeadTailProperties DEF SInv, SocketsOK, Collect
    <3>2. QED
      BY <3>1, Confirmed
  <2> HIDE DEF replies
  <2>3. \A d \in DOMAIN confirmed : d \in DeviceIds /\ confirmed[d] \in Leases
    BY <1>0 DEF CycleOK, IsTable
  <2> DEFINE c == Confirm(confirmed, replies)
  <2>4. DOMAIN c = DOMAIN confirmed \cup {r.id : r \in replies}
    BY DEF Confirm
  <2>5. ASSUME NEW d \in DOMAIN c PROVE c[d] \in Leases
    <3>1. c[d] = IF \E r \in replies : r.id = d THEN (CHOOSE r \in replies : r.id = d).ip
                 ELSE confirmed[d]
      BY <2>5 DEF Confirm
    <3>2. CASE \E r \in replies : r.id = d
      <4>1. (CHOOSE r \in replies : r.id = d) \in replies
        BY <3>2, Zenon
      <4>2. QED
        BY <2>2, <3>1, <3>2, <4>1
    <3>3. CASE ~ \E r \in replies : r.id = d
      BY <2>3, <2>4, <2>5, <3>1, <3>3
    <3>4. QED
      BY <3>2, <3>3
  <2>6. c = [d \in DOMAIN c |-> c[d]]
    BY DEF Confirm
  <2>7. DOMAIN c \subseteq DeviceIds
    BY <2>2, <2>3, <2>4
  <2> HIDE DEF c
  <2>8. IsTable(c, Leases)
    BY <2>5, <2>6, <2>7 DEF IsTable
  <2>9. confirmed' = c
    BY <2>1 DEF c
  <2>10. QED
    BY <1>0, <2>1, <2>4, <2>8, <2>9 DEF CycleOK
<1>4. CASE CycleFails
  <2>1. /\ pc \in {"firstWindow", "secondWindow"} /\ pc' = "asleep" /\ confirmed' = EmptyMap
        /\ UNCHANGED <<unsent, knownIps, reported>>
    BY <1>4 DEF CycleFails
  <2>2. unsent = {}
    BY <1>0, <2>1 DEF CycleOK
  <2>3. QED
    BY <1>0, <2>1, <2>2, EmptyTable DEF CycleOK
<1>5. CASE CloseSecondWindow
  <2>1. /\ pc' = "reporting" /\ knownIps' = Remember(knownIps, confirmed)
        /\ unsent' = DOMAIN confirmed /\ UNCHANGED <<confirmed, reported>>
    BY <1>5 DEF CloseSecondWindow
  <2> DEFINE k == Remember(knownIps, confirmed)
  <2>2. /\ DOMAIN k = DOMAIN knownIps \cup DOMAIN confirmed
        /\ \A d \in DOMAIN k : k[d] = IF d \in DOMAIN confirmed THEN confirmed[d] ELSE knownIps[d]
        /\ k = [d \in DOMAIN k |-> k[d]]
    BY DEF Remember
  <2>3. knownIps' = k
    BY <2>1
  <2> HIDE DEF k
  <2>4. IsTable(k, Leases)
    BY <1>0, <2>2 DEF CycleOK, IsTable
  <2>5. QED
    BY <1>0, <2>1, <2>2, <2>3, <2>4 DEF CycleOK
<1>6. ASSUME NEW d \in DeviceIds, Report(d)
      PROVE  CycleOK'
  <2>1. /\ pc = "reporting" /\ d \in unsent /\ unsent' = unsent \ {d}
        /\ reported' = reported \cup {d} /\ UNCHANGED <<pc, confirmed, knownIps>>
    BY <1>6 DEF Report
  <2>2. QED
    BY <1>0, <2>1 DEF CycleOK
<1>7. CASE Complete
  <2>1. /\ unsent = {} /\ pc' = "asleep" /\ confirmed' = EmptyMap
        /\ UNCHANGED <<unsent, knownIps, reported>>
    BY <1>7 DEF Complete
  <2>2. QED
    BY <1>0, <2>1, EmptyTable DEF CycleOK
<1>8. ASSUME NEW d \in DeviceIds, NEW place,
             Move(d, place) \/ Reply(d) \/ Ignore(d) \/ Chatter(d) \/ Forward(d) \/ TakeSighting(d)
      PROVE  CycleOK'
  BY <1>1, <1>8 DEF Move, Reply, Ignore, Chatter, Forward, TakeSighting
<1>9. CASE BroadcastFails \/ Sniff \/ TakeSweepComplete
  BY <1>1, <1>9 DEF BroadcastFails, Sniff, TakeSweepComplete
<1>10. QED
  BY <1>1, <1>2, <1>3, <1>4, <1>5, <1>6, <1>7, <1>8, <1>9 DEF Next, vars

\* The event goes to the end of the channel, which has room for it.
Sent(e) == HasRoom /\ net' = Append(net, e)

LEMMA ReportsSend ==
  ASSUME SInv, NEW d \in DeviceIds, Report(d)
  PROVE  SightingEvent(d, confirmed[d]) \in NetEvent /\ Sent(SightingEvent(d, confirmed[d]))
<1>1. confirmed[d] \in Leases /\ Sent(SightingEvent(d, confirmed[d]))
  BY DEF Report, Sent, SInv, CycleOK, IsTable
<1>2. QED
  BY <1>1, LeasesAreIpv4 DEF SightingEvent, NetEvent

LEMMA CompletionsSend ==
  ASSUME SInv, Complete
  PROVE  LET e == [kind |-> "sweep_complete", answered |-> DOMAIN confirmed]
         IN  e \in NetEvent /\ Sent(e)
<1>1. DOMAIN confirmed \subseteq DeviceIds
  BY DEF SInv, CycleOK, IsTable
<1>2. QED
  BY <1>1 DEF Complete, Sent, NetEvent

\* The sniffer sends nothing, or the sighting of a device.
LEMMA SniffsSend ==
  ASSUME SInv, Sniff
  PROVE  \/ net' = net
         \/ \E d \in DeviceIds, ip \in Sources \cup {None} :
              SightingEvent(d, ip) \in NetEvent /\ Sent(SightingEvent(d, ip))
<1> DEFINE b    == Head(sniffSocket)
           seen == PassiveSighting(b, OurMac)
<1>1. \/ net' = net
      \/ \E s \in seen : HasRoom /\ net' = Append(net, SightingEvent(s.id, OrNone(s.ip)))
  BY DEF Sniff
<1>2. \A s \in seen : s.id \in DeviceIds /\ s.ip \subseteq Sources
  <2>1. b \in DeviceFrames \cup OurFrames
    BY HeadTailProperties DEF SInv, SocketsOK, Sniff
  <2>2. QED
    BY <2>1, Sighted
<1> HIDE DEF seen
<1>3. CASE \E s \in seen : HasRoom /\ net' = Append(net, SightingEvent(s.id, OrNone(s.ip)))
  <2>1. PICK s \in seen : Sent(SightingEvent(s.id, OrNone(s.ip)))
    BY <1>3 DEF Sent
  <2>2. s.id \in DeviceIds /\ OrNone(s.ip) \in Sources \cup {None}
    BY <1>2 DEF OrNone
  <2>3. SightingEvent(s.id, OrNone(s.ip)) \in NetEvent
    BY <2>2 DEF SightingEvent, NetEvent
  <2>4. QED
    BY <2>1, <2>2, <2>3
<1>4. QED
  BY <1>1, <1>3

\* What a step does to the channel.
LEMMA NetSteps ==
  ASSUME SInv, [Next]_vars
  PROVE  \/ net' = net
         \/ \E e \in NetEvent : Sent(e)
         \/ net # <<>> /\ net' = Tail(net)
<1>1. ASSUME NEW d \in DeviceIds, NEW place,
             Move(d, place) \/ Reply(d) \/ Ignore(d) \/ Chatter(d) \/ Forward(d)
      PROVE  net' = net
  BY <1>1 DEF Move, Reply, Ignore, Chatter, Forward
<1>2. CASE \/ Broadcast \/ BroadcastFails \/ Collect \/ RetrySuspects \/ CycleFails
           \/ CloseSecondWindow
  BY <1>2 DEF Broadcast, BroadcastFails, Collect, RetrySuspects, CycleFails, CloseSecondWindow
<1>3. ASSUME NEW d \in DeviceIds, Report(d)
      PROVE  \E e \in NetEvent : Sent(e)
  BY <1>3, ReportsSend
<1>4. CASE Complete
  BY <1>4, CompletionsSend
<1>5. CASE Sniff
  BY <1>5, SniffsSend
<1>6. CASE (\E d \in DeviceIds : TakeSighting(d)) \/ TakeSweepComplete
  BY <1>6 DEF TakeSighting, TakeSweepComplete
<1>7. CASE UNCHANGED vars
  BY <1>7 DEF vars
<1>8. QED
  BY <1>1, <1>2, <1>3, <1>4, <1>5, <1>6, <1>7 DEF Next

LEMMA NextNet == SInv /\ [Next]_vars => NetOK'
<1> SUFFICES ASSUME SInv, [Next]_vars PROVE NetOK'
  OBVIOUS
<1>1. net \in Seq(NetEvent) /\ Len(net) \in Nat /\ Len(net) <= ChannelSize /\ ChannelSize \in Nat
  BY LenProperties, SweepAssumption DEF SInv, NetOK
<1>2. CASE net' = net
  BY <1>1, <1>2 DEF NetOK
<1>3. ASSUME NEW e \in NetEvent, Sent(e) PROVE NetOK'
  <2>1. Append(net, e) \in Seq(NetEvent) /\ Len(Append(net, e)) = Len(net) + 1
    BY <1>1, AppendProperties
  <2>2. QED
    BY <1>1, <1>3, <2>1 DEF Sent, HasRoom, NetOK
<1>4. CASE net # <<>> /\ net' = Tail(net)
  <2>1. Tail(net) \in Seq(NetEvent) /\ Len(Tail(net)) = Len(net) - 1
    BY <1>1, <1>4, HeadTailProperties
  <2>2. QED
    BY <1>1, <1>4, <2>1 DEF NetOK
<1>5. QED
  BY <1>2, <1>3, <1>4, NetSteps

\* What a sighting and a completed sweep do to a device.
LEMMA SightingKeeps ==
  ASSUME NEW t, IsTable(t, Device), NEW d \in DeviceIds, NEW ip \in Sources \cup {None}
  PROVE  LET n == OnSighting(t, d, ip, 0)
         IN  /\ IsTable(n, Device) /\ DOMAIN n = DOMAIN t \cup {d}
             /\ n[d].presence = Present /\ n[d].sightedThisSweep
             /\ \A x \in DOMAIN t \ {d} : n[x] = t[x]
<1> DEFINE n == OnSighting(t, d, ip, 0)
           r == Regrown(t, d, ip, 0)
<1>1. t \in [DOMAIN t -> Device] /\ DOMAIN t \subseteq DeviceIds
  BY DEF IsTable
<1>2. r \in Device /\ r.presence = Present /\ r.sightedThisSweep
  <2>1. d \in DOMAIN t => t[d].ip \in Ips \cup {None}
    BY <1>1 DEF Device
  <2>2. ip \in Ips \cup {None}
    BY SourcesAreIpv4
  <2>3. QED
    BY <2>1, <2>2 DEF Regrown, Device, Presence
<1> HIDE DEF r
<1>3. n = [x \in DOMAIN t \cup {d} |-> IF x = d THEN r ELSE t[x]]
  BY DEF OnSighting, r
<1> HIDE DEF n
<1>4. QED
  BY <1>1, <1>2, <1>3 DEF IsTable, n

LEMMA SweepKeeps ==
  ASSUME NEW t, IsTable(t, Device)
  PROVE  LET n == OnSweepComplete(t)
         IN  /\ IsTable(n, Device) /\ DOMAIN n = DOMAIN t
             /\ \A x \in DOMAIN t :
                  t[x].sightedThisSweep => n[x].presence = t[x].presence
<1> DEFINE n == OnSweepComplete(t)
<1>1. t \in [DOMAIN t -> Device] /\ DOMAIN t \subseteq DeviceIds
  BY DEF IsTable
<1>2. n = [x \in DOMAIN t |-> AfterSweep(t[x])]
  BY DEF OnSweepComplete
<1>3. ASSUME NEW v \in Device
      PROVE  AfterSweep(v) \in Device
             /\ (v.sightedThisSweep => AfterSweep(v).presence = v.presence)
  <2>1. AfterSweep(v) = [v EXCEPT !.presence = IF TakesMiss(v) THEN AfterMiss(@) ELSE @,
                                  !.sightedThisSweep = FALSE]
    BY DEF AfterSweep
  <2>2. TakesMiss(v) => AfterMiss(v.presence) \in Presence
    <3>1. v.presence.missed \in 0 .. MissLimit - 1
      BY MissLimitAssumption DEF Device, Presence, Present, Gone, Missed
    <3>2. QED
      BY <3>1, MissLimitAssumption DEF AfterMiss, Presence
  <2>3. v.sightedThisSweep => ~TakesMiss(v)
    BY DEF TakesMiss
  <2>4. QED
    BY <2>1, <2>2, <2>3 DEF Device
<1> HIDE DEF n
<1>4. QED
  BY <1>1, <1>2, <1>3 DEF IsTable, n

LEMMA EventKinds ==
  ASSUME NEW e \in NetEvent
  PROVE  \/ e.kind = "sighting" /\ e.id \in DeviceIds /\ e.ip \in Sources \cup {None}
         \/ e.kind = "sweep_complete" /\ e.answered \subseteq DeviceIds
  BY DEF NetEvent

LEMMA NextDevices == SInv /\ [Next]_vars => DevicesOK'
<1> SUFFICES ASSUME SInv, [Next]_vars PROVE DevicesOK'
  OBVIOUS
<1>0. IsTable(devices, Device)
  BY DEF SInv, DevicesOK
<1>1. CASE devices' = devices
  BY <1>0, <1>1 DEF DevicesOK, IsTable
<1>2. ASSUME NEW d \in DeviceIds, TakeSighting(d)
      PROVE  DevicesOK'
  <2>1. Head(net) \in NetEvent
    BY <1>2, HeadTailProperties DEF SInv, NetOK, TakeSighting
  <2>2. Head(net).ip \in Sources \cup {None}
    BY <1>2, <2>1, EventKinds DEF TakeSighting
  <2>3. devices' = OnSighting(devices, d, Head(net).ip, 0)
    BY <1>2 DEF TakeSighting
  <2>4. QED
    BY <1>0, <2>2, <2>3, SightingKeeps DEF DevicesOK
<1>3. CASE TakeSweepComplete
  BY <1>0, <1>3, SweepKeeps DEF TakeSweepComplete, DevicesOK
<1>4. ASSUME NEW d \in DeviceIds, NEW place,
             Move(d, place) \/ Reply(d) \/ Ignore(d) \/ Chatter(d) \/ Forward(d) \/ Report(d)
      PROVE  devices' = devices
  BY <1>4 DEF Move, Reply, Ignore, Chatter, Forward, Report
<1>5. CASE \/ Broadcast \/ BroadcastFails \/ Collect \/ RetrySuspects \/ CycleFails
           \/ CloseSecondWindow \/ Complete \/ Sniff
  BY <1>1, <1>5 DEF Broadcast, BroadcastFails, Collect, RetrySuspects, CycleFails,
                    CloseSecondWindow, Complete, Sniff
<1>6. CASE UNCHANGED vars
  BY <1>1, <1>6 DEF vars
<1>7. QED
  BY <1>1, <1>2, <1>3, <1>4, <1>5, <1>6 DEF Next

LEMMA NextSInv == SInv /\ [Next]_vars => SInv'
  BY NextLan, NextSockets, NextCycle, NextNet, NextDevices DEF SInv

(* Everything of the LAN, the sockets, a cycle, the channel and the engine  *)
(* stays in its domain, and neither the channel nor a socket holds more     *)
(* than it can: run_sweep_cycle, run_passive_sniffer and State::handle.     *)
THEOREM SweepIsWellFormed == Spec => []TypeOK
<1>1. Init => SInv
  BY InitSInv
<1>2. SInv /\ [Next]_vars => SInv'
  BY NextSInv
<1>3. SInv => TypeOK
  <2> SUFFICES ASSUME SInv PROVE TypeOK
    OBVIOUS
  <2>1. \A i \in DOMAIN sweepSocket : sweepSocket[i] \in Seq(Octet)
    BY FramesAreOctets, LenProperties, ElementOfSeq DEF SInv, SocketsOK
  <2>2. \A i \in DOMAIN sniffSocket : sniffSocket[i] \in Seq(Octet)
    BY FramesAreOctets, LenProperties, ElementOfSeq DEF SInv, SocketsOK
  <2>3. Len(sweepSocket) <= SocketSize /\ Len(sniffSocket) <= SocketSize
    BY DEF SInv, SocketsOK
  <2>4. QED
    BY <2>1, <2>2, <2>3 DEF SInv, LanOK, CycleOK, NetOK, DevicesOK, TypeOK
<1>4. QED
  BY <1>1, <1>2, <1>3, PTL DEF Spec

\* The ids in the channel are those of devices.
LEMMA NetIds ==
  ASSUME SInv, NEW i \in DOMAIN net, net[i].kind = "sighting"
  PROVE  net[i].id \in DeviceIds
<1>1. net[i] \in NetEvent
  BY LenProperties, ElementOfSeq DEF SInv, NetOK
<1>2. QED
  BY <1>1, EventKinds

(* The sniffer, which hears every probe of the sweep, never reports the Pi: *)
(* the filter on our own MAC holds for every frame that either socket gets  *)
(* (passive_sighting_from_frame and confirmation_from_frame).               *)
THEOREM PiIsNoDevice == Spec => []NeverSightsItself
<1>1. Init => SInv
  BY InitSInv
<1>2. SInv /\ [Next]_vars => SInv'
  BY NextSInv
<1>3. SInv => NeverSightsItself
  BY NetIds, WeAreNoDevice DEF NeverSightsItself
<1>4. QED
  BY <1>1, <1>2, <1>3, PTL DEF Spec

(* Every device that any cycle has reported and this one has not heard in   *)
(* its first window gets a request of its own: known_ips outlives failed    *)
(* cycles (run_sweep_cycle and suspects).                                   *)
THEOREM EverySuspectIsAsked == Spec => SuspectsAreRetried
<1> DEFINE A == RetrySuspects =>
                  \A d \in reported \ DOMAIN confirmed :
                    \E i \in DOMAIN Retries : Retries[i] = Request(MacOf[d], knownIps[d])
<1>1. Init => SInv
  BY InitSInv
<1>2. SInv /\ [Next]_vars => SInv'
  BY NextSInv
<1>3. SInv => A
  <2> SUFFICES ASSUME SInv, NEW d \in reported \ DOMAIN confirmed
               PROVE  \E i \in DOMAIN Retries : Retries[i] = Request(MacOf[d], knownIps[d])
    OBVIOUS
  <2>1. d \in Suspects
    BY DEF SInv, CycleOK, Suspects
  <2>2. QED
    BY <2>1, RetriesReachSuspects DEF SInv, CycleOK
<1>4. SInv => [A]_vars
  BY <1>3
<1>5. QED
  BY <1>1, <1>2, <1>4, PTL DEF Spec, SuspectsAreRetried

-----------------------------------------------------------------------------
(* An answer in time costs nothing *)

\* Only sightings are in the channel at the places of P.
Sightings(P) == \A j \in P : net[j].kind = "sighting"

\* What comes after the first n places of the channel finds d heard: there is a
\* sighting of d and no end of a sweep after it, or the engine took one since
\* the last end of a sweep, and no other is in these places.
Heard(d, n) ==
  \/ \E i \in 1 .. n : net[i].kind = "sighting" /\ net[i].id = d /\ Sightings(i .. n)
  \/ /\ Sightings(1 .. n)
     /\ d \in DOMAIN devices /\ devices[d].presence = Present /\ devices[d].sightedThisSweep

\* Each end of a sweep in the channel finds its devices heard, and the one that
\* is to come will find those heard whose sighting is sent.
HeardInv ==
  /\ \A n \in DOMAIN net :
       net[n].kind = "sweep_complete" => \A d \in net[n].answered : Heard(d, n - 1)
  /\ pc = "reporting" => \A d \in DOMAIN confirmed \ unsent : Heard(d, Len(net))

HInv == SInv /\ HeardInv

LEMMA NetPlaces ==
  ASSUME SInv
  PROVE  /\ net \in Seq(NetEvent) /\ Len(net) \in Nat /\ DOMAIN net = 1 .. Len(net)
         /\ \A i \in 1 .. Len(net) : net[i] \in NetEvent
  BY LenProperties, ElementOfSeq DEF SInv, NetOK

\* Who was heard stays heard when an event is appended.
LEMMA AppendKeepsHeard ==
  ASSUME SInv, NEW e \in NetEvent, net' = Append(net, e), devices' = devices,
         NEW d, NEW n \in 0 .. Len(net), Heard(d, n)
  PROVE  Heard(d, n)'
<1>1. n \in Nat /\ \A i \in 1 .. n : net'[i] = net[i]
  BY NetPlaces, AppendProperties
<1>2. CASE \E i \in 1 .. n : net[i].kind = "sighting" /\ net[i].id = d /\ Sightings(i .. n)
  <2>1. PICK i \in 1 .. n : net[i].kind = "sighting" /\ net[i].id = d /\ Sightings(i .. n)
    BY <1>2
  <2>2. \A j \in i .. n : j \in 1 .. n
    BY <1>1, <2>1
  <2>3. \A j \in i .. n : net'[j].kind = "sighting"
    BY <1>1, <2>1, <2>2 DEF Sightings
  <2>4. QED
    BY <1>1, <2>1, <2>3 DEF Heard, Sightings
<1>3. CASE /\ Sightings(1 .. n)
           /\ d \in DOMAIN devices /\ devices[d].presence = Present /\ devices[d].sightedThisSweep
  BY <1>1, <1>3 DEF Heard, Sightings
<1>4. QED
  BY <1>2, <1>3 DEF Heard

\* A sighting that is appended keeps who was heard at the end heard there, and
\* its own device is heard there too.
LEMMA SightingIsHeard ==
  ASSUME SInv, NEW e \in NetEvent, e.kind = "sighting", net' = Append(net, e),
         devices' = devices
  PROVE  /\ \A d : Heard(d, Len(net)) => Heard(d, Len(net))'
         /\ Heard(e.id, Len(net))'
<1>0. PICK n \in Nat : Len(net) = n
  BY NetPlaces
<1>1. Len(net') = n + 1 /\ net'[n + 1] = e /\ \A i \in 1 .. n : net'[i] = net[i]
  BY <1>0, NetPlaces, AppendProperties
<1>2. ASSUME NEW d, Heard(d, n) PROVE Heard(d, n + 1)'
  <2>1. CASE \E i \in 1 .. n : net[i].kind = "sighting" /\ net[i].id = d /\ Sightings(i .. n)
    <3>1. PICK i \in 1 .. n : net[i].kind = "sighting" /\ net[i].id = d /\ Sightings(i .. n)
      BY <2>1
    <3>2. ASSUME NEW j \in i .. n + 1 PROVE net'[j].kind = "sighting"
      <4>1. j = n + 1 \/ (j \in i .. n /\ j \in 1 .. n)
        BY <1>1, <3>1
      <4>2. QED
        BY <1>1, <3>1, <4>1 DEF Sightings
    <3>3. i \in 1 .. n + 1
      BY <1>1
    <3>4. QED
      BY <1>1, <3>1, <3>2, <3>3 DEF Heard, Sightings
  <2>2. CASE /\ Sightings(1 .. n)
             /\ d \in DOMAIN devices /\ devices[d].presence = Present
             /\ devices[d].sightedThisSweep
    <3>1. ASSUME NEW j \in 1 .. n + 1 PROVE net'[j].kind = "sighting"
      <4>1. j = n + 1 \/ j \in 1 .. n
        BY <1>1
      <4>2. QED
        BY <1>1, <2>2, <4>1 DEF Sightings
    <3>2. QED
      BY <2>2, <3>1 DEF Heard, Sightings
  <2>3. QED
    BY <1>2, <2>1, <2>2 DEF Heard
<1>3. Heard(e.id, n + 1)'
  <2>1. n + 1 \in 1 .. n + 1 /\ \A j \in n + 1 .. n + 1 : j = n + 1
    BY <1>1
  <2>2. QED
    BY <1>1, <2>1 DEF Heard, Sightings
<1>4. QED
  BY <1>0, <1>1, <1>2, <1>3

\* The engine takes the first event: what is after it moves one place on.
LEMMA TailMoves ==
  ASSUME SInv, net # <<>>, net' = Tail(net)
  PROVE  /\ Len(net) >= 1 /\ Len(net') = Len(net) - 1 /\ Head(net) = net[1]
         /\ Head(net) \in NetEvent
         /\ \A i \in 1 .. Len(net) - 1 : net'[i] = net[i + 1]
         /\ \A n \in 1 .. Len(net) : \A i \in 2 .. n : Sightings(i .. n) => Sightings(i - 1 .. n - 1)'
<1>0. PICK k \in Nat : Len(net) = k
  BY NetPlaces
<1>1. k >= 1 /\ Len(net') = k - 1 /\ Head(net) = net[1] /\ Head(net) \in NetEvent
  BY <1>0, NetPlaces, HeadTailProperties, EmptySeq
<1>2. \A i \in 1 .. k - 1 : net'[i] = net[i + 1]
  BY <1>0, NetPlaces, HeadTailProperties
<1>3. ASSUME NEW n \in 1 .. k, NEW i \in 2 .. n, Sightings(i .. n)
      PROVE  Sightings(i - 1 .. n - 1)'
  <2>1. ASSUME NEW j \in i - 1 .. n - 1 PROVE net'[j].kind = "sighting"
    <3>1. j \in 1 .. k - 1 /\ j + 1 \in i .. n
      BY <1>0
    <3>2. QED
      BY <1>2, <1>3, <3>1 DEF Sightings
  <2>2. QED
    BY <2>1 DEF Sightings
<1>4. QED
  BY <1>0, <1>1, <1>2, <1>3

\* A sighting that is taken keeps who was heard behind it heard.
LEMMA TakingKeepsHeard ==
  ASSUME SInv, NEW x \in DeviceIds, TakeSighting(x),
         NEW d, NEW n \in 1 .. Len(net), Heard(d, n)
  PROVE  Heard(d, n - 1)'
<1>0. n \in Nat /\ n >= 1 /\ Len(net) \in Nat /\ n <= Len(net)
  BY NetPlaces
<1>1. net # <<>> /\ net' = Tail(net) /\ Head(net).kind = "sighting" /\ Head(net).id = x
  BY DEF TakeSighting
<1>2. /\ Head(net) = net[1] /\ Head(net) \in NetEvent
      /\ \A i \in 1 .. Len(net) - 1 : net'[i] = net[i + 1]
      /\ \A i \in 2 .. n : Sightings(i .. n) => Sightings(i - 1 .. n - 1)'
  BY <1>1, TailMoves
<1>3. /\ DOMAIN devices' = DOMAIN devices \cup {x}
      /\ devices'[x].presence = Present /\ devices'[x].sightedThisSweep
      /\ \A y \in DOMAIN devices \ {x} : devices'[y] = devices[y]
  <2>1. devices' = OnSighting(devices, x, Head(net).ip, 0) /\ Head(net).ip \in Sources \cup {None}
    BY <1>1, <1>2, EventKinds DEF TakeSighting
  <2> DEFINE ip == Head(net).ip
             m  == OnSighting(devices, x, ip, 0)
  <2>2. ip \in Sources \cup {None} /\ IsTable(devices, Device)
    BY <2>1 DEF SInv, DevicesOK
  <2>3. devices' = m
    BY <2>1
  <2> HIDE DEF ip
  <2>4. /\ DOMAIN m = DOMAIN devices \cup {x} /\ m[x].presence = Present /\ m[x].sightedThisSweep
        /\ \A y \in DOMAIN devices \ {x} : m[y] = devices[y]
    BY <2>2, SightingKeeps
  <2> HIDE DEF m
  <2>5. QED
    BY <2>3, <2>4
<1>4. Sightings(1 .. n) => Sightings(1 .. n - 1)'
  <2>1. SUFFICES ASSUME Sightings(1 .. n), NEW j \in 1 .. n - 1 PROVE net'[j].kind = "sighting"
    BY DEF Sightings
  <2>2. j \in 1 .. Len(net) - 1 /\ j + 1 \in 1 .. n
    BY <1>0
  <2>3. QED
    BY <1>2, <2>1, <2>2 DEF Sightings
<1>5. CASE \E i \in 1 .. n : net[i].kind = "sighting" /\ net[i].id = d /\ Sightings(i .. n)
  <2>1. PICK i \in 1 .. n : net[i].kind = "sighting" /\ net[i].id = d /\ Sightings(i .. n)
    BY <1>5
  <2>2. CASE i = 1
    <3>1. d = x /\ Sightings(1 .. n - 1)'
      BY <1>1, <1>2, <1>4, <2>1, <2>2
    <3>2. QED
      BY <1>3, <3>1 DEF Heard
  <2>3. CASE i # 1
    <3>1. i \in 2 .. n /\ i - 1 \in 1 .. n - 1 /\ i - 1 \in 1 .. Len(net) - 1 /\ i - 1 + 1 = i
      BY <1>0, <2>1, <2>3
    <3>2. net'[i - 1] = net[i] /\ Sightings(i - 1 .. n - 1)'
      BY <1>2, <2>1, <3>1
    <3>3. QED
      BY <2>1, <3>1, <3>2 DEF Heard
  <2>4. QED
    BY <2>2, <2>3
<1>6. CASE /\ Sightings(1 .. n)
           /\ d \in DOMAIN devices /\ devices[d].presence = Present /\ devices[d].sightedThisSweep
  BY <1>3, <1>4, <1>6 DEF Heard
<1>7. QED
  BY <1>5, <1>6 DEF Heard

\* The end of a sweep that is taken keeps who was heard after it heard.
LEMMA EndKeepsHeard ==
  ASSUME SInv, TakeSweepComplete, NEW d, NEW n \in 1 .. Len(net), Heard(d, n)
  PROVE  Heard(d, n - 1)'
<1>0. n \in Nat /\ n >= 1 /\ Len(net) \in Nat /\ n <= Len(net)
  BY NetPlaces
<1>1. net # <<>> /\ net' = Tail(net) /\ Head(net).kind = "sweep_complete"
  BY DEF TakeSweepComplete
<1>2. /\ Head(net) = net[1]
      /\ \A i \in 1 .. Len(net) - 1 : net'[i] = net[i + 1]
      /\ \A i \in 2 .. n : Sightings(i .. n) => Sightings(i - 1 .. n - 1)'
  BY <1>1, TailMoves
<1>3. net[1].kind # "sighting"
  BY <1>1, <1>2
<1>4. ~Sightings(1 .. n)
  BY <1>0, <1>3 DEF Sightings
<1>5. PICK i \in 1 .. n : net[i].kind = "sighting" /\ net[i].id = d /\ Sightings(i .. n)
  BY <1>4 DEF Heard
<1>6. i \in 2 .. n /\ i - 1 \in 1 .. n - 1 /\ i - 1 \in 1 .. Len(net) - 1 /\ i - 1 + 1 = i
  BY <1>0, <1>3, <1>5
<1>7. net'[i - 1] = net[i] /\ Sightings(i - 1 .. n - 1)'
  BY <1>2, <1>5, <1>6
<1>8. QED
  BY <1>5, <1>6, <1>7 DEF Heard

\* The two parts of HeardInv.
EndsHeard    == \A n \in DOMAIN net :
                  net[n].kind = "sweep_complete" => \A d \in net[n].answered : Heard(d, n - 1)
ReportsHeard == pc = "reporting" => \A d \in DOMAIN confirmed \ unsent : Heard(d, Len(net))

\* An event that is appended leaves the ends before it as they are.
LEMMA AppendKeepsEnds ==
  ASSUME SInv, EndsHeard, NEW e \in NetEvent, net' = Append(net, e), devices' = devices,
         e.kind = "sweep_complete" => \A d \in e.answered : Heard(d, Len(net))
  PROVE  EndsHeard'
<1>0. PICK k \in Nat : Len(net) = k
  BY NetPlaces
<1>1. DOMAIN net' = 1 .. k + 1 /\ net'[k + 1] = e /\ \A i \in 1 .. k : net'[i] = net[i]
  BY <1>0, NetPlaces, AppendProperties, LenProperties
<1>2. SUFFICES ASSUME NEW n \in 1 .. k + 1, net'[n].kind = "sweep_complete",
                      NEW d \in net'[n].answered
               PROVE  Heard(d, n - 1)'
  BY <1>1 DEF EndsHeard
<1>3. n - 1 \in 0 .. Len(net)
  BY <1>0
<1>4. Heard(d, n - 1)
  <2>1. CASE n \in 1 .. k
    BY <1>0, <1>1, <1>2, <2>1, NetPlaces DEF EndsHeard
  <2>2. CASE n = k + 1
    <3>1. n - 1 = k
      BY <2>2
    <3>2. QED
      BY <1>0, <1>1, <1>2, <2>2, <3>1
  <2>3. QED
    BY <2>1, <2>2
<1> DEFINE p == n - 1
<1>5. p \in 0 .. Len(net) /\ Heard(d, p)
  BY <1>3, <1>4
<1> HIDE DEF p
<1>6. Heard(d, p)'
  BY <1>5, AppendKeepsHeard
<1>7. QED
  BY <1>6 DEF p

\* What is taken leaves the ends behind it as they are.
LEMMA TakingKeepsEnds ==
  ASSUME HInv, net # <<>>, net' = Tail(net), UNCHANGED <<pc, confirmed, unsent>>,
         \A d, n : n \in 1 .. Len(net) /\ Heard(d, n) => Heard(d, n - 1)'
  PROVE  EndsHeard' /\ ReportsHeard'
<1> USE DEF HInv
<1>0. PICK k \in Nat : Len(net) = k
  BY NetPlaces
<1>1. k >= 1 /\ Len(net') = k - 1 /\ \A i \in 1 .. k - 1 : net'[i] = net[i + 1]
  BY <1>0, TailMoves
<1>2. EndsHeard'
  <2>1. DOMAIN net' = 1 .. k - 1
    BY <1>0, <1>1, NetPlaces, HeadTailProperties, LenProperties
  <2>2. SUFFICES ASSUME NEW n \in 1 .. k - 1, net'[n].kind = "sweep_complete",
                        NEW d \in net'[n].answered
                 PROVE  Heard(d, n - 1)'
    BY <2>1 DEF EndsHeard
  <2>3. n + 1 \in DOMAIN net /\ n + 1 - 1 = n /\ n \in 1 .. Len(net)
    BY <1>0, NetPlaces
  <2>4. net[n + 1].kind = "sweep_complete" /\ d \in net[n + 1].answered
    BY <1>1, <2>2
  <2>5. Heard(d, n)
    BY <2>3, <2>4 DEF HeardInv
  <2>6. QED
    BY <2>3, <2>5
<1>3. ReportsHeard'
  <2>1. SUFFICES ASSUME pc = "reporting", NEW d \in DOMAIN confirmed \ unsent
                 PROVE  Heard(d, k - 1)'
    BY <1>1 DEF ReportsHeard
  <2>2. Heard(d, k) /\ k \in 1 .. Len(net)
    BY <1>0, <1>1, <2>1 DEF HeardInv
  <2>3. QED
    BY <2>2
<1>4. QED
  BY <1>2, <1>3

LEMMA NextHeard == HInv /\ [Next]_vars => HeardInv'
<1> SUFFICES ASSUME HInv, [Next]_vars PROVE EndsHeard' /\ ReportsHeard'
  BY DEF EndsHeard, ReportsHeard, HeardInv
<1>0. SInv /\ EndsHeard /\ ReportsHeard
  BY DEF HInv, HeardInv, EndsHeard, ReportsHeard
<1>1. CASE UNCHANGED <<net, devices, cycleVars>>
  BY <1>0, <1>1 DEF EndsHeard, ReportsHeard, Heard, Sightings, cycleVars
<1>2. CASE UNCHANGED <<net, devices>> /\ (pc' # "reporting" \/ unsent' = DOMAIN confirmed')
  BY <1>0, <1>2 DEF EndsHeard, ReportsHeard, Heard, Sightings
<1>3. CASE Broadcast \/ Collect \/ RetrySuspects \/ CycleFails \/ CloseSecondWindow
  BY <1>2, <1>3 DEF Broadcast, Collect, RetrySuspects, CycleFails, CloseSecondWindow
<1>4. ASSUME NEW d \in DeviceIds, Report(d)
      PROVE  EndsHeard' /\ ReportsHeard'
  <2> DEFINE e == SightingEvent(d, confirmed[d])
  <2>1. e \in NetEvent /\ Sent(e)
    BY <1>0, <1>4, ReportsSend
  <2>2. e.kind = "sighting" /\ e.id = d
    BY DEF SightingEvent
  <2>3. /\ net' = Append(net, e) /\ devices' = devices
        /\ pc' = pc /\ confirmed' = confirmed /\ unsent' = unsent \ {d}
    BY <1>4 DEF Report
  <2> HIDE DEF e
  <2>4. EndsHeard'
    BY <1>0, <2>1, <2>2, <2>3, AppendKeepsEnds
  <2>5. (\A x : Heard(x, Len(net)) => Heard(x, Len(net))') /\ Heard(d, Len(net))'
    BY <1>0, <2>1, <2>2, <2>3, SightingIsHeard
  <2>6. ReportsHeard'
    BY <1>0, <2>3, <2>5 DEF ReportsHeard
  <2>7. QED
    BY <2>4, <2>6
<1>5. CASE Complete
  <2> DEFINE e == [kind |-> "sweep_complete", answered |-> DOMAIN confirmed]
  <2>1. e \in NetEvent /\ Sent(e)
    BY <1>0, <1>5, CompletionsSend
  <2>2. \A d \in e.answered : Heard(d, Len(net))
    BY <1>0, <1>5 DEF Complete, ReportsHeard
  <2>3. net' = Append(net, e) /\ devices' = devices /\ pc' = "asleep"
    BY <1>5 DEF Complete
  <2> HIDE DEF e
  <2>4. QED
    BY <1>0, <2>1, <2>2, <2>3, AppendKeepsEnds DEF ReportsHeard
<1>6. CASE Sniff
  <2>1. devices' = devices /\ UNCHANGED cycleVars
    BY <1>6 DEF Sniff
  <2>2. CASE net' = net
    BY <1>1, <2>1, <2>2
  <2>3. ASSUME NEW d \in DeviceIds, NEW ip \in Sources \cup {None},
               SightingEvent(d, ip) \in NetEvent, Sent(SightingEvent(d, ip))
        PROVE  EndsHeard' /\ ReportsHeard'
    <3> DEFINE e == SightingEvent(d, ip)
    <3>1. e \in NetEvent /\ e.kind = "sighting" /\ net' = Append(net, e)
      BY <2>3 DEF SightingEvent, Sent
    <3> HIDE DEF e
    <3>2. EndsHeard'
      BY <1>0, <2>1, <3>1, AppendKeepsEnds
    <3>3. \A x : Heard(x, Len(net)) => Heard(x, Len(net))'
      BY <1>0, <2>1, <3>1, SightingIsHeard
    <3>4. QED
      BY <1>0, <2>1, <3>2, <3>3 DEF ReportsHeard, cycleVars
  <2>4. QED
    BY <1>0, <1>6, <2>2, <2>3, SniffsSend
<1>7. ASSUME NEW x \in DeviceIds, TakeSighting(x)
      PROVE  EndsHeard' /\ ReportsHeard'
  <2>1. net # <<>> /\ net' = Tail(net) /\ UNCHANGED <<pc, confirmed, unsent>>
    BY <1>7 DEF TakeSighting, cycleVars
  <2>2. \A d, n : n \in 1 .. Len(net) /\ Heard(d, n) => Heard(d, n - 1)'
    BY <1>0, <1>7, TakingKeepsHeard
  <2>3. QED
    BY <2>1, <2>2, TakingKeepsEnds
<1>8. CASE TakeSweepComplete
  <2>1. net # <<>> /\ net' = Tail(net) /\ UNCHANGED <<pc, confirmed, unsent>>
    BY <1>8 DEF TakeSweepComplete, cycleVars
  <2>2. \A d, n : n \in 1 .. Len(net) /\ Heard(d, n) => Heard(d, n - 1)'
    BY <1>0, <1>8, EndKeepsHeard
  <2>3. QED
    BY <2>1, <2>2, TakingKeepsEnds
<1>9. ASSUME NEW d \in DeviceIds, NEW place, Move(d, place) \/ Reply(d) \/ Ignore(d) \/ Chatter(d) \/ Forward(d)
      PROVE  EndsHeard' /\ ReportsHeard'
  BY <1>1, <1>9 DEF Move, Reply, Ignore, Chatter, Forward
<1>10. CASE BroadcastFails \/ UNCHANGED vars
  BY <1>1, <1>10 DEF BroadcastFails, vars
<1>11. QED
  BY <1>3, <1>4, <1>5, <1>6, <1>7, <1>8, <1>9, <1>10 DEF Next

(* A device whose answer was read in either window of a cycle is Present    *)
(* after the SweepComplete of that cycle, however full the channel is and   *)
(* whatever the sniffer sends in between: its sighting is taken before, and *)
(* no other end of a sweep comes between the two (run_sweep_cycle,          *)
(* on_sighting and on_sweep_complete).                                      *)
THEOREM AnswersAreCounted == Spec => AnsweringCostsNothing
<1> DEFINE A == TakeSweepComplete =>
                  \A d \in Head(net).answered :
                    d \in DOMAIN devices' /\ devices'[d].presence = Present
<1>1. Init => HInv
  <2>1. Init => HeardInv
    BY DEF Init, HeardInv
  <2>2. QED
    BY <2>1, InitSInv DEF HInv
<1>2. HInv /\ [Next]_vars => HInv'
  BY NextSInv, NextHeard DEF HInv
<1>3. HInv => A
  <2> SUFFICES ASSUME HInv, TakeSweepComplete, NEW d \in Head(net).answered
               PROVE  d \in DOMAIN devices' /\ devices'[d].presence = Present
    OBVIOUS
  <2>1. net # <<>> /\ net' = Tail(net) /\ Head(net).kind = "sweep_complete"
    BY DEF TakeSweepComplete
  <2>2. Len(net) >= 1 /\ Head(net) = net[1] /\ 1 \in DOMAIN net
    BY <2>1, TailMoves, NetPlaces DEF HInv
  <2>3. Heard(d, 0)
    <3>1. Heard(d, 1 - 1)
      BY <2>1, <2>2 DEF HInv, HeardInv
    <3>2. QED
      BY <3>1
  <2>4. d \in DOMAIN devices /\ devices[d].presence = Present /\ devices[d].sightedThisSweep
    BY <2>3 DEF Heard
  <2> DEFINE m == OnSweepComplete(devices)
  <2>5. devices' = m
    BY DEF TakeSweepComplete
  <2>6. DOMAIN m = DOMAIN devices /\ \A x \in DOMAIN devices :
          devices[x].sightedThisSweep => m[x].presence = devices[x].presence
    BY SweepKeeps DEF HInv, SInv, DevicesOK
  <2> HIDE DEF m
  <2>7. QED
    BY <2>4, <2>5, <2>6
<1>4. HInv => [A]_vars
  BY <1>3
<1>5. QED
  BY <1>1, <1>2, <1>4, PTL DEF Spec, AnsweringCostsNothing
=============================================================================
