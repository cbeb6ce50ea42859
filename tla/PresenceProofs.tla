--------------------------- MODULE PresenceProofs ---------------------------
(***************************************************************************)
(* Proofs about Presence, for every set of devices and addresses, every    *)
(* clock and every miss limit: the type invariant, the agreement of the    *)
(* stored rows with memory, and the implementation of MissTracker.  The    *)
(* lemmas about single devices are in CoreProofs; the constants of Core,   *)
(* which come with them, play no part.                                     *)
(***************************************************************************)
EXTENDS Presence, CoreProofs

-----------------------------------------------------------------------------
(* Type correctness *)

LEMMA InitTypeOK == Init => TypeOK
<1> SUFFICES ASSUME Init PROVE TypeOK
  OBVIOUS
<1>1. IsTable(rows, Row)
  BY TimestampsAssumption DEF Init, IsTable, Row
<1>2. devices = LoadDevices(rows)
  BY DEF Init
<1>3. /\ IsTable(LoadDevices(rows), Device)
      /\ DOMAIN LoadDevices(rows) = DOMAIN rows
      /\ \A d \in DOMAIN rows : LoadDevices(rows)[d] = Hydrate(rows[d])
  BY <1>1, HydratedDevices
<1>4. \A d \in DOMAIN devices : ~devices[d].sightedThisSweep
  BY <1>2, <1>3 DEF Hydrate
<1>5. QED
  BY <1>1, <1>2, <1>3, <1>4 DEF TypeOK

LEMMA NextTypeOK == TypeOK /\ [Next]_vars => TypeOK'
<1> SUFFICES ASSUME TypeOK, [Next]_vars PROVE TypeOK'
  OBVIOUS
<1>0. /\ IsTable(devices, Device)
      /\ IsTable(rows, Row)
      /\ \A d \in DOMAIN devices :
           devices[d].sightedThisSweep => devices[d].presence = Present
  BY DEF TypeOK
<1>1. ASSUME NEW d \in DeviceIds, NEW newIp \in Ips \cup {None},
             NEW at \in Timestamps, Sighting(d, newIp, at)
      PROVE  TypeOK'
  <2> DEFINE sighted == OnSighting(devices, d, newIp, at)
             ids     == SightingPersists(devices, d, newIp)
  <2>1. devices' = sighted /\ rows' = Upsert(rows, devices', ids)
    BY <1>1 DEF Sighting
  <2>2. /\ IsTable(sighted, Device)
        /\ DOMAIN sighted = DOMAIN devices \cup {d}
        /\ sighted[d] = Regrown(devices, d, newIp, at)
        /\ \A x \in DOMAIN devices \ {d} : sighted[x] = devices[x]
    <3>1. IsTable(devices, Device) /\ at \in Int
      BY <1>0, TimestampsAssumption
    <3>2. QED
      BY <3>1, SightedDevice
  <2>3. ids \in SUBSET DOMAIN sighted
    BY <2>2 DEF SightingPersists
  <2> HIDE DEF sighted, ids
  <2>4. IsTable(Upsert(rows, sighted, ids), Row)
    BY <1>0, <2>2, <2>3, UpsertRows
  <2>5. \A x \in DOMAIN sighted :
          sighted[x].sightedThisSweep => sighted[x].presence = Present
    BY <1>0, <2>2 DEF Regrown
  <2>6. QED
    BY <2>1, <2>2, <2>4, <2>5 DEF TypeOK
<1>2. ASSUME SweepComplete PROVE TypeOK'
  <2> DEFINE swept == OnSweepComplete(devices)
             ids   == SweepPersists(devices)
  <2>1. devices' = swept /\ rows' = Upsert(rows, devices', ids)
    BY <1>2 DEF SweepComplete
  <2>2. \A d \in DOMAIN devices : /\ AfterSweep(devices[d]) \in Device
                                  /\ ~AfterSweep(devices[d]).sightedThisSweep
    <3>1. \A d \in DOMAIN devices : devices[d] \in Device
      BY <1>0 DEF IsTable
    <3>2. QED
      BY <1>0, <3>1, SweptDevice
  <2>3. /\ IsTable(swept, Device)
        /\ \A d \in DOMAIN swept : ~swept[d].sightedThisSweep
        /\ ids \in SUBSET DOMAIN swept
    BY <1>0, <2>2 DEF OnSweepComplete, SweepPersists, IsTable
  <2> HIDE DEF swept, ids
  <2>4. IsTable(Upsert(rows, swept, ids), Row)
    BY <1>0, <2>3, UpsertRows
  <2>5. QED
    BY <2>1, <2>3, <2>4 DEF TypeOK
<1>3. ASSUME Restart PROVE TypeOK'
  <2> DEFINE loaded == LoadDevices(rows)
  <2>1. devices' = loaded /\ rows' = rows
    BY <1>3 DEF Restart
  <2>2. /\ IsTable(loaded, Device)
        /\ DOMAIN loaded = DOMAIN rows
        /\ \A d \in DOMAIN rows : loaded[d] = Hydrate(rows[d])
    BY <1>0, HydratedDevices
  <2> HIDE DEF loaded
  <2>3. \A d \in DOMAIN loaded : ~loaded[d].sightedThisSweep
    BY <2>2 DEF Hydrate
  <2>4. QED
    BY <1>0, <2>1, <2>2, <2>3 DEF TypeOK
<1>4. CASE UNCHANGED vars
  BY <1>0, <1>4 DEF vars, TypeOK
<1>5. QED
  BY <1>1, <1>2, <1>3, <1>4 DEF Next

(* Every reachable table holds well-formed devices: for every miss limit no *)
(* miss count reaches it, and a device sighted in this sweep is Present.    *)
THEOREM TypeCorrect == Spec => []TypeOK
<1>1. QED
  BY InitTypeOK, NextTypeOK, PTL DEF Spec

-----------------------------------------------------------------------------
(* Agreement of the rows with memory *)

Tracking == TypeOK /\ RowsTrackMemory

LEMMA InitTracking == Init => Tracking
<1> SUFFICES ASSUME Init PROVE RowsTrackMemory
  BY InitTypeOK DEF Tracking
<1>1. /\ devices = LoadDevices(rows)
      /\ \A d \in DOMAIN rows : rows[d].presence.missed <= 1
      /\ IsTable(rows, Row)
  BY InitTypeOK DEF Init, TypeOK
<1>2. /\ DOMAIN devices = DOMAIN rows
      /\ \A d \in DOMAIN rows : devices[d] = Hydrate(rows[d])
  BY <1>1, HydratedDevices
<1>3. QED
  BY <1>1, <1>2, HydratedTracks DEF RowsTrackMemory

LEMMA NextTracking == Tracking /\ [Next]_vars => Tracking'
<1> SUFFICES ASSUME Tracking, [Next]_vars PROVE RowsTrackMemory'
  BY NextTypeOK DEF Tracking
<1>0. /\ IsTable(devices, Device)
      /\ IsTable(rows, Row)
      /\ \A d \in DOMAIN devices :
           devices[d].sightedThisSweep => devices[d].presence = Present
      /\ DOMAIN rows = DOMAIN devices
      /\ \A d \in DOMAIN devices : RowTracks(rows[d], devices[d])
  BY DEF Tracking, TypeOK, RowsTrackMemory
<1>1. ASSUME NEW d \in DeviceIds, NEW newIp \in Ips \cup {None},
             NEW at \in Timestamps, Sighting(d, newIp, at)
      PROVE  RowsTrackMemory'
  <2> DEFINE sighted == OnSighting(devices, d, newIp, at)
             ids     == SightingPersists(devices, d, newIp)
             stored  == Upsert(rows, sighted, ids)
  <2>1. devices' = sighted /\ rows' = stored
    BY <1>1 DEF Sighting
  <2>2. /\ IsTable(sighted, Device)
        /\ DOMAIN sighted = DOMAIN devices \cup {d}
        /\ sighted[d] = Regrown(devices, d, newIp, at)
        /\ \A x \in DOMAIN devices \ {d} : sighted[x] = devices[x]
    <3>1. IsTable(devices, Device) /\ at \in Int
      BY <1>0, TimestampsAssumption
    <3>2. QED
      BY <3>1, SightedDevice
  <2>3. /\ ids = IF SightingChanges(devices, d, newIp) THEN {d} ELSE {}
        /\ d \notin DOMAIN devices => d \in ids
        /\ ids \in SUBSET DOMAIN sighted
    BY <2>2 DEF SightingPersists, SightingChanges
  <2> HIDE DEF sighted, ids
  <2>4. /\ DOMAIN stored = DOMAIN rows \cup ids
        /\ \A x \in DOMAIN rows \cup ids :
             stored[x] = IF x \in ids THEN RowOf(sighted[x]) ELSE rows[x]
    <3>1. IsTable(rows, Row) /\ IsTable(sighted, Device) /\ ids \in SUBSET DOMAIN sighted
      BY <1>0, <2>2, <2>3
    <3>2. QED
      BY <3>1, UpsertRows
  <2> HIDE DEF stored
  <2>5. RowTracks(stored[d], sighted[d])
    <3>1. CASE SightingChanges(devices, d, newIp)
      <4>1. sighted[d].presence.missed <= 1
        BY <2>2 DEF Regrown, Present
      <4>2. QED
        BY <2>3, <2>4, <3>1, <4>1, OwnRowTracks
    <3>2. CASE ~SightingChanges(devices, d, newIp)
      <4>1. d \in DOMAIN devices /\ stored[d] = rows[d]
        BY <1>0, <2>3, <2>4, <3>2
      <4>2. QED
        BY <1>0, <2>2, <3>2, <4>1, UnchangedSightingTracks
    <3>3. QED
      BY <3>1, <3>2
  <2>6. \A x \in DOMAIN devices \ {d} : RowTracks(stored[x], sighted[x])
    BY <1>0, <2>2, <2>3, <2>4
  <2>7. DOMAIN stored = DOMAIN sighted
    BY <1>0, <2>2, <2>3, <2>4
  <2>8. QED
    BY <2>1, <2>2, <2>5, <2>6, <2>7 DEF RowsTrackMemory
<1>2. ASSUME SweepComplete PROVE RowsTrackMemory'
  <2> DEFINE swept  == OnSweepComplete(devices)
             ids    == SweepPersists(devices)
             stored == Upsert(rows, swept, ids)
  <2>1. devices' = swept /\ rows' = stored
    BY <1>2 DEF SweepComplete
  <2>2. \A d \in DOMAIN devices : devices[d] \in Device
    BY <1>0 DEF IsTable
  <2>3. /\ DOMAIN swept = DOMAIN devices
        /\ \A d \in DOMAIN devices : swept[d] = AfterSweep(devices[d])
        /\ ids \in SUBSET DOMAIN devices
        /\ \A d \in DOMAIN devices :
             d \in ids <=> /\ TakesMiss(devices[d])
                          /\ \/ devices[d].presence = Present
                             \/ AfterMiss(devices[d].presence) = Gone
    BY DEF OnSweepComplete, SweepPersists
  <2>4. \A d \in DOMAIN devices : AfterSweep(devices[d]) \in Device
    BY <1>0, <2>2, SweptDevice
  <2>5. IsTable(swept, Device)
    BY <1>0, <2>4 DEF IsTable, OnSweepComplete
  <2> HIDE DEF swept, ids
  <2>6. /\ DOMAIN stored = DOMAIN rows \cup ids
        /\ \A x \in DOMAIN rows \cup ids :
             stored[x] = IF x \in ids THEN RowOf(swept[x]) ELSE rows[x]
    BY <1>0, <2>3, <2>5, UpsertRows
  <2> HIDE DEF stored
  <2>7. ASSUME NEW d \in DOMAIN devices
        PROVE  RowTracks(stored[d], swept[d])
    <3>1. stored[d] = IF d \in ids THEN RowOf(AfterSweep(devices[d])) ELSE rows[d]
      BY <1>0, <2>3, <2>6
    <3>2. QED
      BY <1>0, <2>2, <2>3, <3>1, SweptTracks
  <2>8. QED
    BY <1>0, <2>1, <2>3, <2>6, <2>7 DEF RowsTrackMemory
<1>3. ASSUME Restart PROVE RowsTrackMemory'
  <2> DEFINE loaded == LoadDevices(rows)
  <2>1. devices' = loaded /\ rows' = rows
    BY <1>3 DEF Restart
  <2>2. /\ DOMAIN loaded = DOMAIN rows
        /\ \A d \in DOMAIN rows : loaded[d] = Hydrate(rows[d])
    BY <1>0, HydratedDevices
  <2> HIDE DEF loaded
  <2>3. \A d \in DOMAIN rows : rows[d].presence.missed <= 1
    BY <1>0 DEF RowTracks
  <2>4. QED
    BY <2>1, <2>2, <2>3, HydratedTracks DEF RowsTrackMemory
<1>4. CASE UNCHANGED vars
  BY <1>0, <1>4 DEF vars, RowsTrackMemory
<1>5. QED
  BY <1>1, <1>2, <1>3, <1>4 DEF Next

(* What is written, transitions and new addresses only, is enough for the   *)
(* stored table to know every device, its address and its presence, and the *)
(* last sighting of every device that is not Present.                       *)
THEOREM RowsFollowMemory == Spec => []RowsTrackMemory
<1>1. Tracking => RowsTrackMemory
  BY DEF Tracking
<1>2. QED
  BY <1>1, InitTracking, NextTracking, PTL DEF Spec

-----------------------------------------------------------------------------
(* Implementation of MissTracker *)

known  == DOMAIN devices
silent == [d \in known |-> Silence(devices[d].presence)]
heard  == {d \in known : devices[d].sightedThisSweep}

\* A sweep counts one more silent sweep for a device it has not heard, unless
\* it is gone, and none for the others.
LEMMA SweptSilence ==
  ASSUME NEW device \in Device,
         device.sightedThisSweep => device.presence = Present
  PROVE  Silence(AfterSweep(device).presence) =
           IF device.sightedThisSweep \/ Silence(device.presence) = MissLimit
           THEN Silence(device.presence)
           ELSE Silence(device.presence) + 1
<1>1. device.presence \in Presence
  BY DEF Device
<1>2. AfterSweep(device).presence =
        IF TakesMiss(device) THEN AfterMiss(device.presence) ELSE device.presence
  BY SweptDevice
<1>3. QED
  BY <1>1, <1>2, MissCounts, SilenceRange DEF TakesMiss

\* A row that tracks a device has no more misses than it, none exactly when it
\* is Present and all of them exactly when it is Gone.
LEMMA RowSilence ==
  ASSUME NEW row \in Row, NEW device \in Device, RowTracks(row, device)
  PROVE  /\ Silence(row.presence) <= Silence(device.presence)
         /\ Silence(row.presence) = 0 <=> Silence(device.presence) = 0
         /\ Silence(row.presence) = MissLimit <=> Silence(device.presence) = MissLimit
<1> DEFINE p == row.presence
           q == device.presence
<1>1. p \in Presence /\ q \in Presence
  BY DEF Row, Device
<1>2. p.tag = q.tag /\ p.missed <= 1
  BY DEF RowTracks
<1> HIDE DEF p, q
<1>3. /\ p = Present <=> q = Present
      /\ p = Gone <=> q = Gone
  BY <1>1, <1>2, MissLimitAssumption DEF Presence, Present, Missed, Gone
<1>4. Silence(p) <= Silence(q)
  BY <1>1, <1>2, <1>3, MissLimitAssumption DEF Silence, Presence, Present, Missed, Gone
<1>5. QED
  BY <1>1, <1>3, <1>4, SilenceRange DEF p, q

LEMMA SilentType ==
  ASSUME TypeOK
  PROVE  /\ known \in SUBSET DeviceIds
         /\ silent \in [known -> 0 .. MissLimit]
<1>1. \A d \in known : devices[d].presence \in Presence
  BY DEF TypeOK, IsTable, Device, known
<1>2. known \in SUBSET DeviceIds
  BY DEF TypeOK, IsTable, known
<1>3. QED
  BY <1>1, <1>2, SilenceRange DEF silent

LEMMA InitImplements == Init => Tracker!Init
<1> SUFFICES ASSUME Init PROVE Tracker!Init
  OBVIOUS
<1>1. TypeOK
  BY InitTypeOK
<1>2. heard = {}
  <2>1. devices = LoadDevices(rows) /\ IsTable(rows, Row)
    BY <1>1 DEF Init, TypeOK
  <2>2. \A d \in known : devices[d] = Hydrate(rows[d])
    BY <2>1, HydratedDevices DEF known
  <2>3. QED
    BY <2>2, HydratedFields DEF heard
<1>3. QED
  BY <1>1, <1>2, SilentType DEF Tracker!Init, known, silent, heard

LEMMA NextImplements == Tracking /\ [Next]_vars => [Tracker!Next]_(Tracker!vars)
<1> SUFFICES ASSUME Tracking, [Next]_vars PROVE [Tracker!Next]_(Tracker!vars)
  OBVIOUS
<1>0. /\ IsTable(devices, Device)
      /\ IsTable(rows, Row)
      /\ \A d \in DOMAIN devices : devices[d] \in Device
      /\ \A d \in DOMAIN devices :
           devices[d].sightedThisSweep => devices[d].presence = Present
      /\ DOMAIN rows = DOMAIN devices
      /\ \A d \in DOMAIN devices : RowTracks(rows[d], devices[d])
  BY DEF Tracking, TypeOK, RowsTrackMemory, IsTable
<1>1. ASSUME NEW d \in DeviceIds, NEW newIp \in Ips \cup {None},
             NEW at \in Timestamps, Sighting(d, newIp, at)
      PROVE  Tracker!Hear(d)
  <2>1. devices' = OnSighting(devices, d, newIp, at)
    BY <1>1 DEF Sighting
  <2>2. /\ known' = known \cup {d}
        /\ devices'[d].presence = Present
        /\ devices'[d].sightedThisSweep
        /\ \A x \in known \ {d} : devices'[x] = devices[x]
    BY <2>1 DEF known, OnSighting, Regrown
  <2>3. Silence(Present) = 0
    BY DEF Silence, Present, Gone
  <2>4. silent' = [x \in known' |-> IF x = d THEN 0 ELSE silent[x]]
    BY <2>2, <2>3 DEF silent
  <2>5. heard' = heard \cup {d}
    BY <2>2 DEF heard
  <2>6. QED
    BY <2>2, <2>4, <2>5 DEF Tracker!Hear, known, silent, heard
<1>2. ASSUME SweepComplete PROVE Tracker!EndSweep
  <2>1. /\ known' = known
        /\ \A d \in known : devices'[d] = AfterSweep(devices[d])
    BY <1>2 DEF SweepComplete, OnSweepComplete, known
  <2>2. \A d \in known : ~AfterSweep(devices[d]).sightedThisSweep
    BY <1>0, SweptDevice DEF known
  <2>3. heard' = {}
    BY <2>1, <2>2 DEF heard
  <2>4. \A d \in known :
          Silence(AfterSweep(devices[d]).presence) =
            IF d \in heard \/ silent[d] = MissLimit THEN silent[d] ELSE silent[d] + 1
    BY <1>0, SweptSilence DEF known, heard, silent
  <2>5. silent' = [x \in known |-> IF x \in heard \/ silent[x] = MissLimit
                                   THEN silent[x] ELSE silent[x] + 1]
    BY <2>1, <2>4 DEF silent
  <2>6. QED
    BY <2>1, <2>3, <2>5 DEF Tracker!EndSweep, known, silent, heard
<1>3. ASSUME Restart PROVE Tracker!Restart
  <2>1. devices' = LoadDevices(rows)
    BY <1>3 DEF Restart
  <2>2. /\ known' = known
        /\ \A d \in known : devices'[d] = Hydrate(rows[d])
    BY <1>0, <2>1, HydratedDevices DEF known
  <2>3. heard' = {}
    BY <2>2, HydratedFields DEF heard
  <2>4. \A d \in known : silent'[d] = Silence(rows[d].presence)
    BY <2>2, HydratedFields DEF silent
  <2>5. \A d \in known : rows[d] \in Row
    BY <1>0 DEF IsTable, known
  <2>6. \A d \in known : /\ silent'[d] <= silent[d]
                         /\ silent'[d] = 0 <=> silent[d] = 0
                         /\ silent'[d] = MissLimit <=> silent[d] = MissLimit
    BY <1>0, <2>4, <2>5, RowSilence DEF known, silent
  <2>7. silent' \in [known -> 0 .. MissLimit]
    <3>1. TypeOK'
      BY NextTypeOK DEF Tracking
    <3>2. \A d \in known : devices'[d].presence \in Presence
      BY <2>2, <3>1 DEF TypeOK, IsTable, Device, known
    <3>3. \A d \in known : Silence(devices'[d].presence) \in 0 .. MissLimit
      BY <3>2, SilenceRange
    <3>4. QED
      BY <2>2, <3>3 DEF silent
  <2>8. QED
    BY <2>2, <2>3, <2>6, <2>7 DEF Tracker!Restart, known, silent, heard
<1>4. ASSUME UNCHANGED vars PROVE UNCHANGED Tracker!vars
  BY <1>4 DEF vars, Tracker!vars
<1>5. QED
  BY <1>1, <1>2, <1>3, <1>4 DEF Next, Tracker!Next

(* The presence machine implements MissTracker for every miss limit: gone   *)
(* exactly after MissLimit silent sweeps in a row, back on any sighting,    *)
(* and a restart from the stored rows only ever forgets misses.             *)
THEOREM PresenceImplementsTracker == Spec => ImplementsTracker
<1>1. QED
  BY InitTracking, NextTracking, InitImplements, NextImplements, PTL
  DEF Spec, ImplementsTracker, Tracker!Spec
=============================================================================
