---------------------------- MODULE DeviceTable ----------------------------
(***************************************************************************)
(* The presence rules of axolotchi-core (presence.rs) and the image of a   *)
(* device in the SQLite table `devices` (axolotchi-store, devices.rs), as  *)
(* operators without state.                                                *)
(*                                                                         *)
(* A table of devices is a function whose domain is the set of known ids.  *)
(* `last_source` is left out: it is stored and never read by a decision.   *)
(***************************************************************************)
EXTENDS Integers

CONSTANTS DeviceIds,   \* MAC addresses, the ids of devices
          Ips,         \* IP addresses a sighting may carry
          None,        \* Option::None
          MissLimit    \* PresenceLimits::miss_limit

ASSUME MissLimitAssumption == MissLimit \in Nat \ {0}
ASSUME NoneAssumption == None \notin Ips \cup Int

(***************************************************************************)
(* Presence: Present, Missed(n) with 1 <= n < MissLimit, Gone.  The pair   *)
(* (tag, missed) is also what presence_to_row puts in a row.               *)
(***************************************************************************)
Present   == [tag |-> "present", missed |-> 0]
Missed(n) == [tag |-> "missed", missed |-> n]
Gone      == [tag |-> "gone", missed |-> 0]

Presence == {Present, Gone} \cup {Missed(n) : n \in 1 .. MissLimit - 1}

Row    == [presence : Presence, ip : Ips \cup {None}, lastSeen : Int]
Device == [presence : Presence, ip : Ips \cup {None}, lastSeen : Int,
           sightedThisSweep : BOOLEAN]

Hydrate(row) ==
  [presence |-> row.presence, ip |-> row.ip, lastSeen |-> row.lastSeen,
   sightedThisSweep |-> FALSE]

RowOf(device) ==
  [presence |-> device.presence, ip |-> device.ip, lastSeen |-> device.lastSeen]

-----------------------------------------------------------------------------
(* Event::Sighting *)

\* The sighting of d, with address newIp or None, changes what is worth storing.
SightingChanges(devices, d, newIp) ==
  \/ d \notin DOMAIN devices
  \/ devices[d].presence # Present
  \/ newIp \notin {None, devices[d].ip}

\* Mutant of Regrown: the sighting does not count for the sweep in progress.
RegrownUnsighted(devices, d, newIp, at) ==
  [presence |-> Present,
   ip |-> IF newIp = None /\ d \in DOMAIN devices THEN devices[d].ip ELSE newIp,
   lastSeen |-> at,
   sightedThisSweep |-> FALSE]

\* Mutant of Regrown: a known device keeps its first address.
RegrownWithOldIp(devices, d, newIp, at) ==
  [presence |-> Present,
   ip |-> IF d \in DOMAIN devices /\ devices[d].ip # None THEN devices[d].ip ELSE newIp,
   lastSeen |-> at,
   sightedThisSweep |-> TRUE]

\* What on_sighting makes of the entry of d.
Regrown(devices, d, newIp, at) ==
  [presence |-> Present,
   ip |-> IF newIp = None /\ d \in DOMAIN devices THEN devices[d].ip ELSE newIp,
   lastSeen |-> at,
   sightedThisSweep |-> TRUE]

OnSighting(devices, d, newIp, at) ==
  [x \in DOMAIN devices \cup {d} |->
     IF x = d THEN Regrown(devices, d, newIp, at) ELSE devices[x]]

SightingPersists(devices, d, newIp) ==
  IF SightingChanges(devices, d, newIp) THEN {d} ELSE {}

-----------------------------------------------------------------------------
(* Event::SweepComplete *)

TakesMiss(device) == ~device.sightedThisSweep /\ device.presence # Gone

\* Mutants of AfterMiss: one miss too many, and a count that never grows.
AfterMissOneLate(presence) ==
  IF presence.missed >= MissLimit THEN Gone ELSE Missed(presence.missed + 1)
AfterMissStuck(presence) == IF MissLimit = 1 THEN Gone ELSE Missed(1)

AfterMiss(presence) ==
  IF presence.missed + 1 >= MissLimit THEN Gone ELSE Missed(presence.missed + 1)

AfterSweep(device) ==
  [device EXCEPT !.presence = IF TakesMiss(device) THEN AfterMiss(@) ELSE @,
                 !.sightedThisSweep = FALSE]

OnSweepComplete(devices) == [d \in DOMAIN devices |-> AfterSweep(devices[d])]

\* Mutant of SweepPersists: only leaving Present is written.
SweepPersistsFirstMiss(devices) ==
  {d \in DOMAIN devices : TakesMiss(devices[d]) /\ devices[d].presence = Present}

\* A miss is persisted when it leaves Present or reaches Gone; one that only
\* counts further is not.
SweepPersists(devices) ==
  {d \in DOMAIN devices :
     /\ TakesMiss(devices[d])
     /\ \/ devices[d].presence = Present
        \/ AfterMiss(devices[d].presence) = Gone}

-----------------------------------------------------------------------------
(* The `devices` table of SQLite, a function from ids to rows *)

\* upsert_device for every id in ids, from the table in memory.
Upsert(rows, devices, ids) ==
  [d \in DOMAIN rows \cup ids |-> IF d \in ids THEN RowOf(devices[d]) ELSE rows[d]]

DeleteIds(f, ids) == [d \in DOMAIN f \ ids |-> f[d]]

LoadDevices(rows) == [d \in DOMAIN rows |-> Hydrate(rows[d])]

\* A row follows a device although only transitions are written: the miss count
\* it holds stays at 1, and last_seen, which resightings leave behind, is exact
\* once the device is not Present, the only time pruning looks at it.
RowTracks(row, device) ==
  /\ row.ip = device.ip
  /\ row.presence.tag = device.presence.tag
  /\ row.presence.missed <= 1
  /\ device.presence # Present => row.lastSeen = device.lastSeen

\* The misses a presence stands for.
Silence(presence) == IF presence = Gone THEN MissLimit ELSE presence.missed

\* f is a table of entries in S, over some set of known devices.
IsTable(f, S) == DOMAIN f \subseteq DeviceIds /\ f \in [DOMAIN f -> S]
=============================================================================
