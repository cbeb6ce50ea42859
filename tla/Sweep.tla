------------------------------- MODULE Sweep -------------------------------
(***************************************************************************)
(* The hardware net sources of axolotchi-net and what they drive: the LAN, *)
(* the ARP sweep with its two passes and reply windows (sweep.rs), the     *)
(* passive sniffer (sniffer.rs), the bounded net channel, and the engine   *)
(* that takes events from it.                                              *)
(*                                                                         *)
(* Frames are octets (Frames).  A sweep awaits in its windows and when the *)
(* channel is full; a pass of sends is one step.  A probe reaches a device *)
(* that has the address asked for; an answer, or any other frame, may come *)
(* at any later time or not at all.  Both sockets are promiscuous and take *)
(* every frame on the wire, those that Axo sends through the other socket  *)
(* included.                                                               *)
(***************************************************************************)
EXTENDS DeviceTable, Subnet, Frames, SequencesExt

CONSTANTS Network, PrefixLen, OurIp,   \* SweepConfig
          OurMac, Macs, \* of the interface, and of the devices
          Leases,       \* the addresses the LAN gives to devices
          Routers,      \* devices that also pass on packets of others,
          Forwarded,    \* and the source addresses such packets come with
          ChannelSize,  \* of the net channel
          SocketSize,   \* frames a socket holds before the kernel drops
          MaxMoves      \* bound on arrivals, departures and new addresses

ASSUME MacAssumption ==
  /\ Macs \cup {OurMac} \subseteq Mac /\ IsFiniteSet(Macs)
  /\ {OurMac, BroadcastMac} \cap Macs = {}
  /\ DeviceIds = {FormatMac(m) : m \in Macs}
ASSUME LeasesAssumption == Leases \subseteq Addresses /\ OurIp \notin Leases
ASSUME SourcesAssumption ==
  /\ Leases \cup Forwarded \subseteq Nat \cap Ips /\ Routers \subseteq DeviceIds
  /\ \A ip \in Leases \cup Forwarded : ip \div 16777216 \in Octet   \* it has 32 bits
ASSUME SweepAssumption ==
  /\ Network \in Addresses /\ OurIp \in Int
  /\ {PrefixLen, ChannelSize, SocketSize, MaxMoves} \subseteq Nat

VARIABLES
  lan,          \* [DeviceIds -> Leases or None], where each device is now
  moves,        \* how often that has changed
  asked,        \* devices that a probe has reached and that may still answer
  sweepSocket,  \* frames received and not read by the sweep
  sniffSocket,  \* frames received and not read by the sniffer
  pc,           \* where run_sweep_cycle is
  confirmed,    \* id -> address, of this cycle
  unsent,       \* confirmed devices whose sighting is still to be sent
  knownIps,     \* id -> address, over all cycles
  reported,     \* history: the devices any cycle has reported
  net,          \* the net channel
  devices       \* State::devices of the engine

lanVars    == <<lan, moves>>
socketVars == <<sweepSocket, sniffSocket>>
cycleVars  == <<pc, confirmed, unsent>>
vars == <<lanVars, asked, socketVars, cycleVars, knownIps, reported, net, devices>>

\* The addresses a frame may tell.
Sources == Leases \cup Forwarded

NetEvent == [kind : {"sighting"}, id : DeviceIds, ip : Sources \cup {None}]
            \cup [kind : {"sweep_complete"}, answered : SUBSET DeviceIds]

SightingEvent(d, ip) == [kind |-> "sighting", id |-> d, ip |-> ip]

EmptyMap == [d \in {} |-> None]

Init ==
  /\ lan \in [DeviceIds -> Leases \cup {None}]
  /\ \A d, e \in DeviceIds : d # e /\ lan[d] # None => lan[d] # lan[e]
  /\ moves = 0
  /\ asked = {} /\ sweepSocket = <<>> /\ sniffSocket = <<>>
  /\ pc = "asleep" /\ confirmed = EmptyMap /\ unsent = {}
  /\ knownIps = EmptyMap
  /\ reported = {}
  /\ net = <<>>
  /\ devices = [d \in {} |-> None]

-----------------------------------------------------------------------------
(* The LAN *)

\* A device arrives, leaves, or gets another address.
Move(d, place) ==
  /\ moves < MaxMoves
  /\ place # lan[d]
  /\ place # None => \A e \in DeviceIds : lan[e] # place
  /\ moves' = moves + 1
  /\ lan' = [lan EXCEPT ![d] = place]
  /\ asked' = asked \ {d}
  /\ UNCHANGED <<socketVars, cycleVars, knownIps, reported, net, devices>>

\* The kernel queues frames, and drops them when the socket is full.
Receive(socket, frames) ==
  LET all == socket \o frames IN SubSeq(all, 1, Min({Len(all), SocketSize}))

MacOf == [d \in DeviceIds |-> CHOOSE m \in Macs : FormatMac(m) = d]

\* A frame to everybody, with an ARP packet of a device that tells its address.
ArpFrom(d, operation) ==
  EthernetEncode([dst |-> BroadcastMac, src |-> MacOf[d], ethertype |-> EtherTypeArp,
                  payload |-> ArpEncode([operation |-> operation,
                                         senderMac |-> MacOf[d], senderIp |-> lan[d],
                                         targetMac |-> OurMac, targetIp |-> OurIp])])

\* A device answers a probe: both sockets get the reply.
Reply(d) ==
  /\ d \in asked
  /\ asked' = asked \ {d}
  /\ sweepSocket' = Receive(sweepSocket, <<ArpFrom(d, "Reply")>>)
  /\ sniffSocket' = Receive(sniffSocket, <<ArpFrom(d, "Reply")>>)
  /\ UNCHANGED <<lanVars, cycleVars, knownIps, reported, net, devices>>

\* A device that is asleep, or a lost frame: the probe stays unanswered.
Ignore(d) ==
  /\ d \in asked
  /\ asked' = asked \ {d}
  /\ UNCHANGED <<lanVars, socketVars, cycleVars, knownIps, reported, net, devices>>

\* A packet that a device puts on the wire, with its source address; what
\* follows the address is left out.
Ipv4From(d, ip) ==
  EthernetEncode([dst |-> BroadcastMac, src |-> MacOf[d], ethertype |-> EtherTypeIpv4,
                  payload |-> <<69>> \o [i \in 1 .. 11 |-> 0] \o Ipv4Octets(ip)
                                   \o [i \in 1 .. 4 |-> 255]])

\* Any other frame of its own: an IPv4 packet, which tells an address as an ARP request
\* would, and an ARP packet that was cut short and tells none.
Chatter(d) ==
  /\ lan[d] # None
  /\ \E frame \in {Ipv4From(d, lan[d]), SubSeq(ArpFrom(d, "Request"), 1, 28)} :
       /\ sweepSocket' = Receive(sweepSocket, <<frame>>)
       /\ sniffSocket' = Receive(sniffSocket, <<frame>>)
  /\ UNCHANGED <<lanVars, asked, cycleVars, knownIps, reported, net, devices>>

\* A router passes on a packet: the frame is its own, the address is not.
Forward(d) ==
  /\ d \in Routers /\ lan[d] # None
  /\ \E ip \in Forwarded :
       /\ sweepSocket' = Receive(sweepSocket, <<Ipv4From(d, ip)>>)
       /\ sniffSocket' = Receive(sniffSocket, <<Ipv4From(d, ip)>>)
  /\ UNCHANGED <<lanVars, asked, cycleVars, knownIps, reported, net, devices>>

-----------------------------------------------------------------------------
(* The ARP sweep *)

Targets == HostsOrNone(Network, PrefixLen) \ {OurIp}

Request(dst, ip) == [dst |-> dst, ip |-> ip]

\* A request to everybody for each address, in ascending order.
Probes ==
  LET order == CHOOSE s \in [1 .. Cardinality(Targets) -> Targets] :
                 \A i, j \in DOMAIN s : i < j => s[i] < s[j]
  IN  [i \in DOMAIN order |-> Request(BroadcastMac, order[i])]

\* The devices that `suspects` picks: known, and not confirmed in this cycle.
Suspects == DOMAIN knownIps \ DOMAIN confirmed

\* One request to each suspect alone, in the order of a hash map.
Retries ==
  SetToSeq(UNION {{Request(m, knownIps[d]) : m \in ParseMac(d)} : d \in Suspects})

\* send_arp_request for each of them.  A device that hears one and has the
\* address is asked, and the other socket of ours hears them all.
Send(requests) ==
  /\ asked' = asked \cup
       {d \in DeviceIds : \E i \in DOMAIN requests :
                            /\ requests[i].dst \in {BroadcastMac, MacOf[d]}
                            /\ requests[i].ip = lan[d]}
  /\ sniffSocket' = Receive(sniffSocket,
       [i \in DOMAIN requests |-> ArpRequest(OurMac, OurIp, requests[i].dst, requests[i].ip)])

Broadcast ==
  /\ pc = "asleep"
  /\ pc' = "firstWindow"
  /\ Send(Probes)
  /\ UNCHANGED <<lanVars, sweepSocket, confirmed, unsent, knownIps, reported, net, devices>>

\* A send fails after some of the targets: `?` ends the cycle.
BroadcastFails ==
  /\ pc = "asleep"
  /\ \E sent \in 0 .. Len(Probes) - 1 : Send(SubSeq(Probes, 1, sent))
  /\ UNCHANGED <<lanVars, sweepSocket, cycleVars, knownIps, reported, net, devices>>

Confirm(known, replies) ==
  [d \in DOMAIN known \cup {r.id : r \in replies} |->
     IF \E r \in replies : r.id = d THEN (CHOOSE r \in replies : r.id = d).ip
     ELSE known[d]]

\* collect_replies takes a frame; a reply confirms, whichever probe it answers.
Collect ==
  /\ pc \in {"firstWindow", "secondWindow"}
  /\ sweepSocket # <<>>
  /\ confirmed' = Confirm(confirmed, Confirmation(Head(sweepSocket), OurMac))
  /\ sweepSocket' = Tail(sweepSocket)
  /\ UNCHANGED <<lanVars, asked, sniffSocket, pc, unsent, knownIps, reported, net, devices>>

\* The first window closes, whatever is left in the socket, and each suspect is
\* asked directly at its last known address.
RetrySuspects ==
  /\ pc = "firstWindow"
  /\ pc' = "secondWindow"
  /\ Send(Retries)
  /\ UNCHANGED <<lanVars, sweepSocket, confirmed, unsent, knownIps, reported, net, devices>>

\* Reading the socket, or a send to a suspect, fails: `?` ends the cycle and
\* drops what it found.
CycleFails ==
  /\ \/ pc = "firstWindow" /\ \E sent \in 0 .. Len(Retries) : Send(SubSeq(Retries, 1, sent))
     \/ pc = "secondWindow" /\ Send(<<>>)
  /\ pc' = "asleep"
  /\ confirmed' = EmptyMap
  /\ UNCHANGED <<lanVars, sweepSocket, unsent, knownIps, reported, net, devices>>

\* Mutant of Remember: the memory of earlier cycles is replaced.
RememberOnlyThis(known, found) == found

\* known_ips.extend(confirmed)
Remember(known, found) ==
  [d \in DOMAIN known \cup DOMAIN found |-> IF d \in DOMAIN found THEN found[d] ELSE known[d]]

CloseSecondWindow ==
  /\ pc = "secondWindow"
  /\ pc' = "reporting"
  /\ knownIps' = Remember(knownIps, confirmed)
  /\ unsent' = DOMAIN confirmed
  /\ UNCHANGED <<lanVars, asked, socketVars, confirmed, reported, net, devices>>

\* Mutant of HasRoom: one event too many.
HasRoomForOneMore == Len(net) <= ChannelSize

HasRoom == Len(net) < ChannelSize

Report(d) ==
  /\ pc = "reporting" /\ d \in unsent /\ HasRoom
  /\ unsent' = unsent \ {d}
  /\ reported' = reported \cup {d}
  /\ net' = Append(net, SightingEvent(d, confirmed[d]))
  /\ UNCHANGED <<lanVars, asked, socketVars, pc, confirmed, knownIps, devices>>

\* Mutant of Complete: the end is told without waiting for the sightings.
CompleteEarly ==
  /\ pc = "reporting" /\ HasRoom
  /\ net' = Append(net, [kind |-> "sweep_complete", answered |-> DOMAIN confirmed])
  /\ pc' = "asleep" /\ confirmed' = EmptyMap /\ unsent' = {}
  /\ UNCHANGED <<lanVars, asked, socketVars, knownIps, reported, devices>>

\* SweepComplete, with the devices this cycle confirmed as history.
Complete ==
  /\ pc = "reporting" /\ unsent = {} /\ HasRoom
  /\ net' = Append(net, [kind |-> "sweep_complete", answered |-> DOMAIN confirmed])
  /\ pc' = "asleep" /\ confirmed' = EmptyMap
  /\ UNCHANGED <<lanVars, asked, socketVars, unsent, knownIps, reported, devices>>

-----------------------------------------------------------------------------
(* The passive sniffer and the engine *)

OrNone(ips) == IF ips = {} THEN None ELSE CHOOSE ip \in ips : TRUE

\* run_passive_sniffer: a frame that tells nothing is dropped.
Sniff ==
  /\ sniffSocket # <<>>
  /\ LET seen == PassiveSighting(Head(sniffSocket), OurMac)
     IN  \/ seen = {} /\ UNCHANGED net
         \/ \E s \in seen : HasRoom /\ net' = Append(net, SightingEvent(s.id, OrNone(s.ip)))
  /\ sniffSocket' = Tail(sniffSocket)
  /\ UNCHANGED <<lanVars, asked, sweepSocket, cycleVars, knownIps, reported, devices>>

TakeSighting(d) ==
  /\ net # <<>> /\ Head(net).kind = "sighting" /\ Head(net).id = d
  /\ net' = Tail(net)
  /\ devices' = OnSighting(devices, d, Head(net).ip, 0)
  /\ UNCHANGED <<lanVars, asked, socketVars, cycleVars, knownIps, reported>>

TakeSweepComplete ==
  /\ net # <<>> /\ Head(net).kind = "sweep_complete"
  /\ net' = Tail(net)
  /\ devices' = OnSweepComplete(devices)
  /\ UNCHANGED <<lanVars, asked, socketVars, cycleVars, knownIps, reported>>

-----------------------------------------------------------------------------
Next ==
  \/ \E d \in DeviceIds, place \in Leases \cup {None} : Move(d, place)
  \/ \E d \in DeviceIds : Reply(d)
  \/ \E d \in DeviceIds : Ignore(d)
  \/ \E d \in DeviceIds : Chatter(d)
  \/ \E d \in DeviceIds : Forward(d)
  \/ Broadcast
  \/ BroadcastFails
  \/ Collect
  \/ RetrySuspects
  \/ CycleFails
  \/ CloseSecondWindow
  \/ \E d \in DeviceIds : Report(d)
  \/ Complete
  \/ Sniff
  \/ \E d \in DeviceIds : TakeSighting(d)
  \/ TakeSweepComplete

Spec == Init /\ [][Next]_vars

\* run_arp_sweep starts a cycle after each pause, and its sends do not fail for
\* ever, though any later part of a cycle may; its windows have deadlines;
\* a sender waiting for room in the channel is served in turn, so it gets in
\* although the sniffer sends too; the engine loop takes every event.
FairSpec ==
  /\ Spec
  /\ WF_vars(Broadcast) /\ WF_vars(RetrySuspects) /\ WF_vars(CloseSecondWindow)
  /\ \A d \in DeviceIds : SF_vars(Report(d)) /\ WF_vars(TakeSighting(d))
  /\ SF_vars(Complete) /\ WF_vars(TakeSweepComplete)

-----------------------------------------------------------------------------
(* Everything is in its domain; outside a cycle nothing of one is left, and *)
(* the channel and the sockets never hold more than they can.               *)
TypeOK ==
  /\ lan \in [DeviceIds -> Leases \cup {None}]
  /\ moves \in 0 .. MaxMoves
  /\ asked \subseteq {d \in DeviceIds : lan[d] # None}
  /\ \A socket \in {sweepSocket, sniffSocket} :
       Len(socket) <= SocketSize /\ \A i \in DOMAIN socket : socket[i] \in Seq(Octet)
  /\ pc \in {"asleep", "firstWindow", "secondWindow", "reporting"}
  /\ IsTable(confirmed, Leases) /\ IsTable(knownIps, Leases)
  /\ pc = "asleep" => confirmed = EmptyMap
  /\ unsent \subseteq DOMAIN confirmed
  /\ net \in Seq(NetEvent) /\ Len(net) <= ChannelSize
  /\ IsTable(devices, Device)

\* The addresses a sweep is for: those of the configured subnet that a device
\* may have, but our own; none when the prefix is rejected.
Swept == IF Rejected(PrefixLen) THEN {} ELSE UsableHosts(Network, PrefixLen) \ {OurIp}

(* A pass of probes goes to exactly these addresses, to each of them once,  *)
(* although the network is given by one of its hosts, and so it reaches     *)
(* whoever is on one of them, known or not, and nobody else                 *)
(* (sweep.rs:110-114, subnet.rs:19).                                        *)
ProbesCoverTheSubnet ==
  [][Broadcast =>
       /\ {Probes[i].ip : i \in DOMAIN Probes} = Swept
       /\ \A i, j \in DOMAIN Probes : i # j => Probes[i].ip # Probes[j].ip
       /\ asked' = asked \cup {d \in DeviceIds : lan[d] \in Swept}]_vars

(* The Pi is not one of its own devices, although the sniffer hears every   *)
(* probe the sweep sends, a whole pass of them in one go (sniffer.rs:26).   *)
NeverSightsItself ==
  \A i \in DOMAIN net : net[i].kind = "sighting" => net[i].id # FormatMac(OurMac)

(* A device whose answer was read in either window of a cycle is Present    *)
(* after the SweepComplete of that cycle: the sightings are in the channel  *)
(* before it, whatever the sniffer sends in between and however far the     *)
(* sweep has gone on when the engine takes it (sweep.rs:128-140).           *)
AnsweringCostsNothing ==
  [][TakeSweepComplete =>
       \A d \in Head(net).answered :
         d \in DOMAIN devices' /\ devices'[d].presence = Present]_vars

(* Each device that a cycle has reported and this one has not confirmed in  *)
(* its first window is sent a request of its own before it can be charged a *)
(* miss, also after failed cycles (sweep.rs:30-32).                         *)
SuspectsAreRetried ==
  [][RetrySuspects =>
       \A d \in reported \ DOMAIN confirmed :
         \E i \in DOMAIN Retries : Retries[i] = Request(MacOf[d], knownIps[d])]_vars

(* A device that stays on a usable address of the subnet, known or not, is  *)
(* asked again and again, also when every cycle fails after its first pass. *)
(* A subnet whose prefix is rejected has no such address: it is never       *)
(* probed, and its cycles end all the same (sweep.rs:110).                  *)
ResidentsAreAsked ==
  \A d \in DeviceIds :
    \/ []<>(lan[d] \notin Swept)
    \/ []<>(d \in asked)

(* A device that has left for good is given up in the end, although frames  *)
(* it sent may wait in a socket or the channel and be read cycles later,    *)
(* unless cycles keep failing.                                              *)
LeaversGo ==
  \A d \in DeviceIds :
    \/ []<>(lan[d] # None)
    \/ []<><<CycleFails>>_vars
    \/ <>[](d \in DOMAIN devices => devices[d].presence = Gone)

(* The address the engine has for a device settles on where the device      *)
(* stays, although sweep and sniffer are read at different times and either *)
(* may bring an older address after a newer one.  A router is excepted for  *)
(* as long as it passes on packets: each gives it the address of whoever    *)
(* sent it, and so its own never settles (sniffer.rs:29).                   *)
HearsAddressOf(d) == TakeSighting(d) /\ Head(net).ip # None

AddressSettles ==
  \A d \in DeviceIds, place \in Leases :
    \/ []<>(lan[d] # place)
    \/ <>[][~HearsAddressOf(d)]_vars
    \/ []<><<Forward(d)>>_vars
    \/ <>[](d \in DOMAIN devices /\ devices[d].ip = place)
=============================================================================
