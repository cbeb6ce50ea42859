------------------------------- MODULE Subnet -------------------------------
(***************************************************************************)
(* The addresses an ARP sweep probes (axolotchi-net, subnet.rs), as        *)
(* operators without state.  An address is a number; AddressBits is 32 in  *)
(* the program and smaller for TLC.                                        *)
(***************************************************************************)
EXTENDS Integers

CONSTANTS AddressBits,
          MaxSweepHosts   \* MAX_SWEEP_HOSTS

ASSUME AddressBitsAssumption == AddressBits \in Nat
ASSUME PowersAssumption ==   \* laws that the provers do not know
  /\ 2 ^ 0 = 1 /\ 2 ^ 1 = 2
  /\ \A n \in 0 .. AddressBits : /\ 2 ^ n \in Nat \ {0} /\ (n > 1 => 2 ^ n > 2)
                                /\ 2 ^ n * 2 ^ (AddressBits - n) = 2 ^ AddressBits
ASSUME MaxSweepHostsAssumption == MaxSweepHosts \in Nat

Addresses == 0 .. 2 ^ AddressBits - 1

BlockSize(prefixLen) == 2 ^ (AddressBits - prefixLen)

\* InvalidPrefix or TooLarge
Rejected(prefixLen) ==
  prefixLen > AddressBits \/ BlockSize(prefixLen) > MaxSweepHosts

\* The offsets of usable hosts in a block: a block of one or two addresses has
\* no network and no broadcast address to leave out.
Offsets(total) == IF total <= 2 THEN 0 .. total - 1 ELSE 1 .. total - 2

\* Mutant of Hosts: the last usable address is left out.
HostsButLast(network, prefixLen) ==
  LET total == BlockSize(prefixLen)
      base  == network - (network % total)
  IN  {base + offset : offset \in Offsets(total) \ {total - 2}}

\* Mutant of Hosts: the block starts at the address given, not at its base.
HostsUnmasked(network, prefixLen) ==
  {network + offset : offset \in Offsets(BlockSize(prefixLen))}

\* What hosts returns for a prefix it does not reject.
Hosts(network, prefixLen) ==
  LET total == BlockSize(prefixLen)
      base  == network - (network % total)   \* network & mask
  IN  {base + offset : offset \in Offsets(total)}

\* unwrap_or_default: a rejected subnet is swept as one without addresses.
HostsOrNone(network, prefixLen) ==
  IF Rejected(prefixLen) THEN {} ELSE Hosts(network, prefixLen)

-----------------------------------------------------------------------------
\* The host bits of an address, and whether two addresses share the others.
HostPart(address, prefixLen) == address % BlockSize(prefixLen)
SameBlock(a, b, prefixLen)   == a \div BlockSize(prefixLen) = b \div BlockSize(prefixLen)

UsableHosts(network, prefixLen) ==
  {a \in Addresses :
     /\ SameBlock(a, network, prefixLen)
     /\ prefixLen < AddressBits - 1 =>
          HostPart(a, prefixLen) \notin {0, BlockSize(prefixLen) - 1}}
=============================================================================
