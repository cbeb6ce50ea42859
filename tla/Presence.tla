------------------------------ MODULE Presence ------------------------------
(***************************************************************************)
(* The presence state machine together with the rows the daemon keeps of   *)
(* it: State::devices in memory, the `devices` table of SQLite, the two    *)
(* network events that drive them, and a restart that rebuilds the former  *)
(* from the latter.  Every write succeeds here; failed and interrupted     *)
(* writes are in Daemon.                                                   *)
(***************************************************************************)
EXTENDS DeviceTable

CONSTANT Timestamps   \* readings of the system clock, which may go backwards
ASSUME TimestampsAssumption == Timestamps \subseteq Int

VARIABLES devices,    \* State::devices
          rows        \* the `devices` table

vars == <<devices, rows>>

\* The daemon starts on whatever an earlier one left in the table.
Init ==
  /\ \E stored \in SUBSET DeviceIds :
       rows \in [stored -> [presence : Presence, ip : Ips \cup {None}, lastSeen : Timestamps]]
  /\ \A d \in DOMAIN rows : rows[d].presence.missed <= 1
  /\ devices = LoadDevices(rows)

Sighting(d, newIp, at) ==
  /\ devices' = OnSighting(devices, d, newIp, at)
  /\ rows' = Upsert(rows, devices', SightingPersists(devices, d, newIp))

SweepComplete ==
  /\ devices' = OnSweepComplete(devices)
  /\ rows' = Upsert(rows, devices', SweepPersists(devices))

Restart ==
  /\ devices' = LoadDevices(rows)
  /\ UNCHANGED rows

Next ==
  \/ \E d \in DeviceIds, newIp \in Ips \cup {None}, at \in Timestamps :
       Sighting(d, newIp, at)
  \/ SweepComplete
  \/ Restart

Spec == Init /\ [][Next]_vars

\* run_arp_sweep loops for ever, so sweeps keep completing; nothing makes a
\* device send, and nothing makes the daemon restart.
FairSpec == Spec /\ WF_vars(SweepComplete)

-----------------------------------------------------------------------------
(* Every device is a well-formed device: in particular no miss count ever   *)
(* reaches MissLimit, and a device sighted in this sweep is Present.        *)
TypeOK ==
  /\ IsTable(devices, Device)
  /\ IsTable(rows, Row)
  /\ \A d \in DOMAIN devices :
       devices[d].sightedThisSweep => devices[d].presence = Present

(* The table on disk follows memory although only transitions are written   *)
(* (the `changed` and `was_present` tests of presence.rs): same devices,    *)
(* same address, same presence up to the miss count, which stays at 1; and  *)
(* last_seen, which resightings leave behind, is exact for a device that is *)
(* not Present, the only kind pruning looks at.                             *)
RowsTrackMemory ==
  /\ DOMAIN rows = DOMAIN devices
  /\ \A d \in DOMAIN devices : RowTracks(rows[d], devices[d])

(* The presence states implement MissTracker, that is, a device goes Gone   *)
(* after exactly MissLimit completed sweeps without a sighting and any      *)
(* sighting brings it back, whatever the interleaving of sightings, sweeps  *)
(* and restarts.                                                            *)
Tracker == INSTANCE MissTracker WITH
  known  <- DOMAIN devices,
  silent <- [d \in DOMAIN devices |-> Silence(devices[d].presence)],
  heard  <- {d \in DOMAIN devices : devices[d].sightedThisSweep}

ImplementsTracker == Tracker!Spec

(* A device that stays silent is given up in the end, unless restarts keep  *)
(* forgetting its misses: a device heard only finitely often, with finitely *)
(* many restarts, ends up Gone and stays so.                                *)
Heard(d) == d \in DOMAIN devices /\ devices[d].sightedThisSweep

SilentDevicesGo ==
  \A d \in DeviceIds :
    \/ []<>Heard(d)
    \/ []<><<Restart>>_vars
    \/ <>[](d \in DOMAIN devices => devices[d].presence = Gone)
=============================================================================
