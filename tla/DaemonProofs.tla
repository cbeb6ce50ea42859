---------------------------- MODULE DaemonProofs ----------------------------
(***************************************************************************)
(* Proofs about Daemon and DaemonHistory, for every set of devices, users  *)
(* and labels, every table of numbers and every bound: the state is well   *)
(* formed, the table of rows follows memory, nobody is given up early,     *)
(* what is forgotten stays so, pruning spares who was heard, and a stale   *)
(* view has a render coming.  Each result names the faults that must not   *)
(* happen for it.                                                          *)
(***************************************************************************)
EXTENDS DaemonHistory, CoreProofs

\* The type invariant, with the clock made a number.
DInv == TypeOK /\ now \in Nat

\* persist_effects: some of the rows asked for are written, all without faults.
Stores(ids) ==
  \E written \in SUBSET ids :
    /\ "write" \notin Faults => written = ids
    /\ rows' = Upsert(rows, st'.devices, written)

-----------------------------------------------------------------------------
(* What each arm does *)

LEMMA PersistStores ==
  ASSUME NEW fx, NEW ids, PersistedIds(fx) = ids, PersistEffects(fx)
  PROVE  Stores(ids)
  BY DEF PersistEffects, Stores

LEMMA CarryDoes ==
  ASSUME NEW o, NEW ids, PersistedIds(o.effects) = ids, Carry(o)
  PROVE  /\ st' = o.state
         /\ Stores(ids)
         /\ renderPending' \in BOOLEAN
         /\ Render \in o.effects => renderPending'
         /\ renderPending => renderPending'
  BY PersistStores DEF Carry

LEMMA NetSightingDoes ==
  ASSUME DInv, NEW d \in DeviceIds, NEW ip \in Ips \cup {None}, NEW at \in Int,
         NetSighting(d, ip, at)
  PROVE  /\ IsState(st')
         /\ st'.devices = OnSighting(st.devices, d, ip, at)
         /\ st'.mood = SightedMood(st, d, ip) /\ st'.xp = SightedXp(st, d)
         /\ Stores(SightingPersists(st.devices, d, ip))
         /\ renderPending' \in BOOLEAN
         /\ SightingPersists(st.devices, d, ip) # {} => renderPending'
         /\ renderPending => renderPending'
<1> DEFINE o == StepSighting(st, d, ip, VendorOf[d], at)
<1>1. IsState(st) /\ VendorOf[d] \in Vendors \cup {None}
  BY DaemonAssumption DEF DInv, TypeOK
<1>2. Carry(o)
  BY DEF NetSighting
<1>3. /\ IsState(o.state)
      /\ o.state.devices = OnSighting(st.devices, d, ip, at)
      /\ o.state.mood = SightedMood(st, d, ip) /\ o.state.xp = SightedXp(st, d)
      /\ PersistedIds(o.effects) = SightingPersists(st.devices, d, ip)
  BY <1>1, StepSightingFields
<1>4. SightingPersists(st.devices, d, ip) # {} => Render \in o.effects
  BY <1>1, StepSightingFields
<1> HIDE DEF o
<1>5. QED
  BY <1>2, <1>3, <1>4, CarryDoes

LEMMA NetSweepDoes ==
  ASSUME DInv, NetSweepComplete
  PROVE  /\ IsState(st')
         /\ st'.devices = OnSweepComplete(st.devices)
         /\ st'.xp = st.xp
         /\ Stores(SweepPersists(st.devices))
         /\ renderPending' \in BOOLEAN
         /\ SweepPersists(st.devices) # {} \/ st'.mood.mood # st.mood.mood
              => renderPending'
         /\ renderPending => renderPending'
<1> DEFINE o == StepSweepComplete(st)
<1>1. /\ IsState(st)
      /\ \A d \in DOMAIN st.devices :
           st.devices[d].sightedThisSweep => st.devices[d].presence = Present
  BY DEF DInv, TypeOK
<1>2. Carry(o)
  BY DEF NetSweepComplete
<1>3. /\ IsState(o.state)
      /\ o.state.devices = OnSweepComplete(st.devices)
      /\ o.state.xp = st.xp
      /\ PersistedIds(o.effects) = SweepPersists(st.devices)
      /\ SweepPersists(st.devices) # {} \/ o.state.mood.mood # st.mood.mood
           => Render \in o.effects
  BY <1>1, StepSweepFields
<1> HIDE DEF o
<1>4. QED
  BY <1>2, <1>3, CarryDoes

\* What the sweep before the crash asked for, and what little was written.
LEMMA CrashDoes ==
  ASSUME DInv, CrashDuringPersist
  PROVE  \E written \in SUBSET SweepPersists(st.devices) :
           rows' = Upsert(rows, OnSweepComplete(st.devices), written)
<1> DEFINE o == StepSweepComplete(st)
<1>1. /\ IsState(st)
      /\ \A d \in DOMAIN st.devices :
           st.devices[d].sightedThisSweep => st.devices[d].presence = Present
  BY DEF DInv, TypeOK
<1>2. \E written \in SUBSET PersistedIds(o.effects) :
        rows' = Upsert(rows, o.state.devices, written)
  BY DEF CrashDuringPersist
<1>3. /\ o.state.devices = OnSweepComplete(st.devices)
      /\ PersistedIds(o.effects) = SweepPersists(st.devices)
  BY <1>1, StepSweepFields
<1> HIDE DEF o
<1>4. QED
  BY <1>2, <1>3

LEMMA UpsertNothing ==
  ASSUME NEW tbl, IsTable(tbl, Row), NEW devs
  PROVE  Upsert(tbl, devs, {}) = tbl
  BY DEF Upsert, IsTable

LEMMA CommandDoes ==
  ASSUME DInv, NEW command, Carry(StepSlashCommand(st, command, now))
  PROVE  /\ IsState(st')
         /\ st'.devices = st.devices
         /\ rows' = rows
         /\ renderPending' = TRUE
<1> DEFINE o == StepSlashCommand(st, command, now)
<1>1. IsState(st) /\ now \in Int /\ IsTable(rows, Row)
  BY DEF DInv, TypeOK
<1>2. /\ IsState(o.state) /\ o.state.devices = st.devices
      /\ PersistedIds(o.effects) = {} /\ Render \in o.effects
  BY <1>1, StepSlashFields
<1> HIDE DEF o
<1>3. Carry(o)
  BY DEF o
<1>4. st' = o.state /\ Stores({}) /\ renderPending' = TRUE
  BY <1>2, <1>3, CarryDoes
<1>5. rows' = rows
  BY <1>1, <1>4, UpsertNothing DEF Stores
<1>6. QED
  BY <1>2, <1>4, <1>5

-----------------------------------------------------------------------------
(* Type correctness *)

\* A process that does not run remembers a state like any other.
LEMMA NobodyKnown ==
  /\ IsState(FreshState(<<>>)) /\ DOMAIN FreshState(<<>>).devices = {}
  /\ IsTable(<<>>, Row) /\ IsTable(<<>>, Labels)
<1>1. IsTable(<<>>, Device) /\ IsTable(<<>>, Row) /\ IsTable(<<>>, Labels)
  BY DEF IsTable
<1>2. QED
  BY <1>1 DEF FreshState, IsState, MoodState, XpState, Moods, Stages

LEMMA HydratedState ==
  ASSUME NEW tbl, IsTable(tbl, Row)
  PROVE  LET fresh == FreshState(LoadDevices(tbl))
         IN  /\ IsState(fresh) /\ fresh.devices = LoadDevices(tbl)
             /\ \A d \in DOMAIN fresh.devices : ~fresh.devices[d].sightedThisSweep
<1> DEFINE devs == LoadDevices(tbl)
<1>1. /\ IsTable(devs, Device) /\ DOMAIN devs = DOMAIN tbl
      /\ \A d \in DOMAIN tbl : devs[d] = Hydrate(tbl[d])
  BY HydratedDevices
<1> HIDE DEF devs
<1>2. IsState(FreshState(devs)) /\ FreshState(devs).devices = devs
  BY <1>1 DEF FreshState, IsState, MoodState, XpState, Moods, Stages
<1>3. QED
  BY <1>1, <1>2, HydratedFields DEF devs

LEMMA DeletedTable ==
  ASSUME NEW f, NEW S, IsTable(f, S), NEW ids
  PROVE  /\ IsTable(DeleteIds(f, ids), S)
         /\ DOMAIN DeleteIds(f, ids) = DOMAIN f \ ids
         /\ \A d \in DOMAIN f \ ids : DeleteIds(f, ids)[d] = f[d]
  BY DEF DeleteIds, IsTable

\* Rows that were stored are rows.
LEMMA StoredRows ==
  ASSUME IsTable(rows, Row), IsTable(st'.devices, Device), NEW ids,
         ids \subseteq DOMAIN st'.devices, Stores(ids)
  PROVE  /\ IsTable(rows', Row)
         /\ \E written \in SUBSET ids :
              /\ "write" \notin Faults => written = ids
              /\ DOMAIN rows' = DOMAIN rows \cup written
              /\ \A d \in DOMAIN rows \cup written :
                   rows'[d] = IF d \in written THEN RowOf(st'.devices[d]) ELSE rows[d]
<1>1. PICK written \in SUBSET ids : /\ "write" \notin Faults => written = ids
                                    /\ rows' = Upsert(rows, st'.devices, written)
  BY DEF Stores
<1>2. PICK devs : devs = st'.devices
  OBVIOUS
<1>3. IsTable(devs, Device) /\ written \in SUBSET DOMAIN devs
  BY <1>2
<1>4. /\ IsTable(Upsert(rows, devs, written), Row)
      /\ DOMAIN Upsert(rows, devs, written) = DOMAIN rows \cup written
      /\ \A d \in DOMAIN rows \cup written :
           Upsert(rows, devs, written)[d] = IF d \in written THEN RowOf(devs[d]) ELSE rows[d]
  BY <1>3, UpsertRows
<1>5. QED
  BY <1>1, <1>2, <1>4

LEMMA InitDInv == Init => DInv
<1> SUFFICES ASSUME Init PROVE DInv
  OBVIOUS
<1>1. /\ st = FreshState(<<>>) /\ IsState(st) /\ DOMAIN st.devices = {}
      /\ IsTable(rows, Row) /\ IsTable(nicknames, Labels)
  BY NobodyKnown DEF Init
<1>2. up \in BOOLEAN /\ renderPending \in BOOLEAN /\ scannerStalled \in BOOLEAN
  BY DEF Init
<1>3. homeUsers \subseteq Users /\ met \subseteq DeviceIds
  BY DEF Init
<1>4. lastNetEventAt \in 0 .. now /\ now \in Nat
  BY DEF Init
<1>5. QED
  BY <1>1, <1>2, <1>3, <1>4 DEF DInv, TypeOK

LEMMA NextDInv == DInv /\ [Next]_vars => DInv'
<1> SUFFICES ASSUME DInv, [Next]_vars PROVE DInv'
  OBVIOUS
<1>0. /\ up \in BOOLEAN /\ IsState(st)
      /\ \A d \in DOMAIN st.devices :
           st.devices[d].sightedThisSweep => st.devices[d].presence = Present
      /\ IsTable(rows, Row) /\ IsTable(nicknames, Labels)
      /\ renderPending \in BOOLEAN /\ scannerStalled \in BOOLEAN
      /\ homeUsers \subseteq Users /\ met \subseteq DeviceIds
      /\ lastNetEventAt \in 0 .. now /\ now \in Nat
      /\ ~up => st = FreshState(<<>>)
  BY DEF DInv, TypeOK
<1>1. CASE Start
  <2>1. \E devices \in {LoadDevices(rows), <<>>} : st' = FreshState(devices)
    BY <1>1 DEF Start
  <2>2. /\ IsState(st')
        /\ \A d \in DOMAIN st'.devices : ~st'.devices[d].sightedThisSweep
    BY <1>0, <2>1, HydratedState, NobodyKnown
  <2>3. up' \in BOOLEAN /\ renderPending' \in BOOLEAN /\ scannerStalled' \in BOOLEAN
    BY <1>0, <1>1 DEF Start
  <2>4. homeUsers' \subseteq Users /\ met' \subseteq DeviceIds
    BY <1>0, <1>1 DEF Start
  <2>5. lastNetEventAt' \in 0 .. now' /\ now' \in Nat
    BY <1>0, <1>1 DEF Start
  <2>6. up' /\ rows' = rows /\ nicknames' = nicknames
    BY <1>1 DEF Start, store
  <2>7. QED
    BY <1>0, <2>2, <2>3, <2>4, <2>5, <2>6 DEF DInv, TypeOK
<1>2. CASE Stop
  <2>1. st' = FreshState(<<>>) /\ IsState(st') /\ DOMAIN st'.devices = {}
    BY <1>2, NobodyKnown DEF Stop, Idle
  <2>2. up' \in BOOLEAN /\ renderPending' \in BOOLEAN /\ scannerStalled' \in BOOLEAN
    BY <1>0, <1>2 DEF Stop, Idle
  <2>3. homeUsers' \subseteq Users /\ met' \subseteq DeviceIds
    BY <1>0, <1>2 DEF Stop, Idle
  <2>4. lastNetEventAt' \in 0 .. now' /\ now' \in Nat
    BY <1>0, <1>2 DEF Stop, Idle
  <2>5. rows' = rows /\ nicknames' = nicknames
    BY <1>2 DEF Stop, store
  <2>6. QED
    BY <1>0, <2>1, <2>2, <2>3, <2>4, <2>5 DEF DInv, TypeOK
<1>3. CASE CrashDuringPersist
  <2>1. PICK written \in SUBSET SweepPersists(st.devices) :
          rows' = Upsert(rows, OnSweepComplete(st.devices), written)
    BY <1>3, CrashDoes
  <2>2. IsTable(OnSweepComplete(st.devices), Device)
        /\ written \in SUBSET DOMAIN OnSweepComplete(st.devices)
    BY <1>0, SweptTable DEF IsState
  <2>3. IsTable(rows', Row)
    BY <1>0, <2>1, <2>2, UpsertRows
  <2>4. /\ st' = FreshState(<<>>) /\ IsState(st') /\ DOMAIN st'.devices = {}
        /\ nicknames' = nicknames
    BY <1>3, NobodyKnown DEF CrashDuringPersist, Idle
  <2>5. up' \in BOOLEAN /\ renderPending' \in BOOLEAN /\ scannerStalled' \in BOOLEAN
    BY <1>0, <1>3 DEF CrashDuringPersist, Idle
  <2>6. homeUsers' \subseteq Users /\ met' \subseteq DeviceIds
    BY <1>0, <1>3 DEF CrashDuringPersist, Idle
  <2>7. lastNetEventAt' \in 0 .. now' /\ now' \in Nat
    BY <1>0, <1>3 DEF CrashDuringPersist, Idle
  <2>8. QED
    BY <1>0, <2>3, <2>4, <2>5, <2>6, <2>7 DEF DInv, TypeOK
<1>4. ASSUME NEW d \in DeviceIds, NEW ip \in Ips \cup {None}, NEW at \in Int,
             NetSighting(d, ip, at)
      PROVE  DInv'
  <2>1. /\ IsState(st') /\ renderPending' \in BOOLEAN
        /\ st'.devices = OnSighting(st.devices, d, ip, at)
        /\ Stores(SightingPersists(st.devices, d, ip))
    BY <1>4, NetSightingDoes
  <2>2. /\ st'.devices[d].presence = Present
        /\ DOMAIN st'.devices = DOMAIN st.devices \cup {d}
        /\ \A x \in DOMAIN st.devices \ {d} : st'.devices[x] = st.devices[x]
    BY <2>1 DEF OnSighting, Regrown
  <2>3. IsTable(rows', Row)
    BY <1>0, <2>1, <2>2, StoredRows DEF IsState, SightingPersists
  <2>4. \A x \in DOMAIN st'.devices :
          st'.devices[x].sightedThisSweep => st'.devices[x].presence = Present
    BY <1>0, <2>2
  <2>5. up' /\ up' \in BOOLEAN /\ scannerStalled' \in BOOLEAN
    BY <1>0, <1>4 DEF NetSighting, NetEventSeen
  <2>6. /\ homeUsers' = homeUsers /\ nicknames' = nicknames /\ met' = met \cup {d}
        /\ lastNetEventAt' = now /\ now' = now
    BY <1>4 DEF NetSighting, NetEventSeen
  <2>7. lastNetEventAt' \in 0 .. now' /\ now' \in Nat
    BY <1>0, <2>6
  <2>8. QED
    BY <1>0, <2>1, <2>3, <2>4, <2>5, <2>6, <2>7 DEF DInv, TypeOK
<1>5. CASE NetSweepComplete
  <2>1. /\ IsState(st') /\ renderPending' \in BOOLEAN
        /\ st'.devices = OnSweepComplete(st.devices)
        /\ Stores(SweepPersists(st.devices))
    BY <1>5, NetSweepDoes
  <2>2. /\ DOMAIN st'.devices = DOMAIN st.devices
        /\ SweepPersists(st.devices) \subseteq DOMAIN st.devices
        /\ \A d \in DOMAIN st.devices : ~st'.devices[d].sightedThisSweep
    BY <1>0, <2>1, SweptTable DEF IsState
  <2>3. IsTable(rows', Row)
    BY <1>0, <2>1, <2>2, StoredRows DEF IsState
  <2>4. up' /\ up' \in BOOLEAN /\ scannerStalled' \in BOOLEAN
    BY <1>0, <1>5 DEF NetSweepComplete, NetEventSeen
  <2>5. /\ homeUsers' = homeUsers /\ nicknames' = nicknames /\ met' = met
        /\ lastNetEventAt' = now /\ now' = now
    BY <1>5 DEF NetSweepComplete, NetEventSeen
  <2>6. lastNetEventAt' \in 0 .. now' /\ now' \in Nat
    BY <1>0, <2>5
  <2>7. QED
    BY <1>0, <2>1, <2>2, <2>3, <2>4, <2>5, <2>6 DEF DInv, TypeOK
<1>6. ASSUME NEW command, Slash(command) \/ Reaction PROVE DInv'
  <2>1. /\ IsState(st') /\ st'.devices = st.devices
        /\ rows' = rows /\ renderPending' = TRUE
    BY <1>6, CommandDoes DEF Slash, Reaction
  <2>2. /\ up' = up /\ up
        /\ lastNetEventAt' = lastNetEventAt /\ now' = now
        /\ scannerStalled' = scannerStalled
        /\ homeUsers' = homeUsers /\ nicknames' = nicknames /\ met' = met
    BY <1>6 DEF Slash, Reaction
  <2>3. QED
    BY <1>0, <2>1, <2>2 DEF DInv, TypeOK
<1>7. ASSUME NEW user \in Users, HomeOpened(user) PROVE DInv'
  BY <1>0, <1>7 DEF HomeOpened, store, DInv, TypeOK
<1>8. ASSUME NEW d \in DeviceIds, NEW label \in Labels, Rename(d, label) PROVE DInv'
  <2>1. IsTable(nicknames', Labels)
    BY <1>0, <1>8 DEF Rename, IsTable
  <2>2. QED
    BY <1>0, <1>8, <2>1 DEF Rename, memory, DInv, TypeOK
<1>9. ASSUME NEW d \in DeviceIds, Forget(d) PROVE DInv'
  <2>1. /\ \E deleted \in {{d}, {}} : rows' = DeleteIds(rows, deleted)
        /\ st' = [st EXCEPT !.devices = DeleteIds(@, {d})]
    BY <1>9 DEF Forget, ForgetDevice
  <2>2. IsTable(rows', Row)
    <3>1. \A deleted : IsTable(DeleteIds(rows, deleted), Row)
      BY <1>0, DeletedTable
    <3>2. QED
      BY <2>1, <3>1
  <2>3. /\ IsState(st') /\ st'.devices = DeleteIds(st.devices, {d})
    BY <1>0, <2>1, DeletedTable DEF IsState
  <2>4. \A x \in DOMAIN st'.devices :
          x \in DOMAIN st.devices /\ st'.devices[x] = st.devices[x]
    BY <2>3 DEF DeleteIds
  <2>5. QED
    BY <1>0, <1>9, <2>2, <2>3, <2>4 DEF Forget, DInv, TypeOK
<1>10. CASE RenderTick
  BY <1>0, <1>10 DEF RenderTick, store, DInv, TypeOK
<1>11. CASE MaintenanceTick
  <2>1. IsTable(rows', Row)
    BY <1>0, <1>11, DeletedTable DEF MaintenanceTick
  <2>2. QED
    BY <1>0, <1>11, <2>1 DEF MaintenanceTick, memory, DInv, TypeOK
<1>12. CASE HeartbeatTick
  <2>1. IsState(st') /\ st'.devices = st.devices
    BY <1>0, <1>12 DEF HeartbeatTick, IsState, MoodState, Moods
  <2>2. QED
    BY <1>0, <1>12, <2>1 DEF HeartbeatTick, store, DInv, TypeOK
<1>13. CASE Tick
  BY <1>0, <1>13 DEF Tick, memory, store, DInv, TypeOK
<1>14. CASE UNCHANGED vars
  BY <1>0, <1>14 DEF vars, memory, store, DInv, TypeOK
<1>15. QED
  <2>1. ASSUME NEW d \in DeviceIds, NEW ip \in Ips \cup {None}, NEW lag \in 0 .. MaxLag,
               lag <= now, NetSighting(d, ip, now - lag)
        PROVE  DInv'
    <3>1. now - lag \in Int
      BY <1>0
    <3>2. QED
      BY <2>1, <3>1, <1>4
  <2>2. QED
    BY <2>1, <1>1, <1>2, <1>3, <1>5, <1>6, <1>7, <1>8, <1>9, <1>10, <1>11, <1>12,
       <1>13, <1>14 DEF Next

\* A step of DaemonHistory is a step of Daemon.
LEMMA HistoryOnlyWatches == [HNext]_hvars => [Next]_vars
  BY DEF HNext, Next, hvars

(* The state, the tables and the loop's variables stay well formed.         *)
THEOREM DaemonIsWellFormed == Spec => []TypeOK
<1>1. Spec => []DInv
  BY InitDInv, NextDInv, PTL DEF Spec
<1>2. QED
  BY <1>1, PTL DEF DInv

-----------------------------------------------------------------------------
(* The rows and memory *)

\* A row of a device that is known tracks it, and is fit to be read again.
RowsTrack ==
  /\ \A d \in DOMAIN rows : rows[d].presence.missed <= 1
  /\ \A d \in DOMAIN rows \cap DOMAIN st.devices : RowTracks(rows[d], st.devices[d])

\* The table has every device in memory but some Gone ones, and no others.
RowsCover ==
  up => /\ DOMAIN rows \subseteq DOMAIN st.devices
        /\ \A d \in DOMAIN st.devices \ DOMAIN rows : st.devices[d].presence = Gone

\* What the actions do to the devices and the rows, for the invariants that
\* relate the two.
StartDevices ==
  /\ ~up /\ rows' = rows
  /\ \/ st'.devices = LoadDevices(rows)
     \/ "load" \in Faults /\ DOMAIN st'.devices = {}

StopDevices ==
  /\ ~up' /\ DOMAIN st'.devices = {}
  /\ \E written \in SUBSET SweepPersists(st.devices) :
       /\ IsTable(rows', Row)
       /\ DOMAIN rows' = DOMAIN rows \cup written
       /\ \A d \in DOMAIN rows \cup written :
            rows'[d] = IF d \in written THEN RowOf(AfterSweep(st.devices[d])) ELSE rows[d]

StoredDevices(ids) ==
  \E written \in SUBSET ids :
    /\ "write" \notin Faults => written = ids
    /\ DOMAIN rows' = DOMAIN rows \cup written
    /\ \A x \in DOMAIN rows \cup written :
         rows'[x] = IF x \in written THEN RowOf(st'.devices[x]) ELSE rows[x]

SightDevice(d, ip, at) ==
  /\ up
  /\ DOMAIN st'.devices = DOMAIN st.devices \cup {d}
  /\ st'.devices[d] = Regrown(st.devices, d, ip, at)
  /\ \A x \in DOMAIN st.devices \ {d} : st'.devices[x] = st.devices[x]
  /\ StoredDevices(SightingPersists(st.devices, d, ip))

SweepDevices ==
  /\ up
  /\ DOMAIN st'.devices = DOMAIN st.devices
  /\ \A x \in DOMAIN st.devices : /\ st.devices[x] \in Device
                                  /\ st'.devices[x] = AfterSweep(st.devices[x])
  /\ StoredDevices(SweepPersists(st.devices))

DropDevice(d) ==
  /\ up
  /\ DOMAIN st'.devices = DOMAIN st.devices \ {d}
  /\ \A x \in DOMAIN st.devices \ {d} : st'.devices[x] = st.devices[x]
  /\ \/ DOMAIN rows' = DOMAIN rows \ {d}
     \/ "delete" \in Faults /\ DOMAIN rows' = DOMAIN rows
  /\ \A x \in DOMAIN rows' : rows'[x] = rows[x]

PruneDevices ==
  /\ up /\ st'.devices = st.devices
  /\ DOMAIN rows' = DOMAIN rows \ LongGone
  /\ \A x \in DOMAIN rows' : rows'[x] = rows[x]

LEMMA StartDoes ==
  ASSUME DInv, Start
  PROVE  StartDevices
<1>1. IsTable(rows, Row)
  BY DEF DInv, TypeOK
<1>2. \/ st' = FreshState(LoadDevices(rows))
      \/ "load" \in Faults /\ st' = FreshState(<<>>)
  BY DEF Start
<1>3. QED
  BY <1>1, <1>2, HydratedState, NobodyKnown DEF Start, store, StartDevices

LEMMA StopDoes ==
  ASSUME DInv, Stop \/ CrashDuringPersist
  PROVE  StopDevices
<1>1. /\ IsTable(rows, Row) /\ IsTable(st.devices, Device)
      /\ \A d \in DOMAIN st.devices :
           st.devices[d].sightedThisSweep => st.devices[d].presence = Present
  BY DEF DInv, TypeOK, IsState
<1>2. ~up' /\ DOMAIN st'.devices = {}
  BY NobodyKnown DEF Stop, CrashDuringPersist, Idle
<1>3. CASE Stop
  BY <1>1, <1>2, <1>3 DEF Stop, store, StopDevices
<1>4. CASE CrashDuringPersist
  <2>1. PICK written \in SUBSET SweepPersists(st.devices) :
          rows' = Upsert(rows, OnSweepComplete(st.devices), written)
    BY <1>4, CrashDoes
  <2>2. /\ IsTable(OnSweepComplete(st.devices), Device)
        /\ written \in SUBSET DOMAIN OnSweepComplete(st.devices)
        /\ \A d \in written : OnSweepComplete(st.devices)[d] = AfterSweep(st.devices[d])
    BY <1>1, SweptTable
  <2>3. /\ IsTable(rows', Row)
        /\ DOMAIN rows' = DOMAIN rows \cup written
        /\ \A d \in DOMAIN rows \cup written :
             rows'[d] = IF d \in written THEN RowOf(OnSweepComplete(st.devices)[d])
                        ELSE rows[d]
    BY <1>1, <2>1, <2>2, UpsertRows
  <2>4. QED
    BY <1>2, <2>2, <2>3 DEF StopDevices
<1>5. QED
  BY <1>3, <1>4

LEMMA SightingDoes ==
  ASSUME DInv, NEW d \in DeviceIds, NEW ip \in Ips \cup {None}, NEW at \in Int,
         NetSighting(d, ip, at)
  PROVE  SightDevice(d, ip, at)
<1>1. IsTable(rows, Row)
  BY DEF DInv, TypeOK
<1>2. /\ IsTable(st'.devices, Device)
      /\ st'.devices = OnSighting(st.devices, d, ip, at)
      /\ Stores(SightingPersists(st.devices, d, ip))
  BY NetSightingDoes DEF IsState
<1>3. /\ DOMAIN st'.devices = DOMAIN st.devices \cup {d}
      /\ st'.devices[d] = Regrown(st.devices, d, ip, at)
      /\ \A x \in DOMAIN st.devices \ {d} : st'.devices[x] = st.devices[x]
  BY <1>2 DEF OnSighting
<1>4. StoredDevices(SightingPersists(st.devices, d, ip))
  BY <1>1, <1>2, <1>3, StoredRows DEF SightingPersists, StoredDevices
<1>5. QED
  BY <1>3, <1>4 DEF SightDevice, NetSighting

LEMMA SweepDoes ==
  ASSUME DInv, NetSweepComplete
  PROVE  SweepDevices
<1>1. /\ IsTable(rows, Row) /\ IsTable(st.devices, Device)
      /\ \A d \in DOMAIN st.devices :
           st.devices[d].sightedThisSweep => st.devices[d].presence = Present
  BY DEF DInv, TypeOK, IsState
<1>2. /\ IsTable(st'.devices, Device)
      /\ st'.devices = OnSweepComplete(st.devices)
      /\ Stores(SweepPersists(st.devices))
  BY NetSweepDoes DEF IsState
<1>3. /\ DOMAIN st'.devices = DOMAIN st.devices
      /\ \A x \in DOMAIN st.devices : /\ st.devices[x] \in Device
                                      /\ st'.devices[x] = AfterSweep(st.devices[x])
      /\ SweepPersists(st.devices) \subseteq DOMAIN st'.devices
  BY <1>1, <1>2, SweptTable
<1>4. StoredDevices(SweepPersists(st.devices))
  BY <1>1, <1>2, <1>3, StoredRows DEF StoredDevices
<1>5. QED
  BY <1>3, <1>4 DEF SweepDevices, NetSweepComplete

LEMMA ForgetDoes ==
  ASSUME DInv, NEW d \in DeviceIds, Forget(d)
  PROVE  DropDevice(d)
<1>1. /\ \/ rows' = DeleteIds(rows, {d})
         \/ "delete" \in Faults /\ rows' = DeleteIds(rows, {})
      /\ st'.devices = DeleteIds(st.devices, {d})
      /\ up
  <2>1. /\ up /\ st' = [st EXCEPT !.devices = DeleteIds(@, {d})]
        /\ \E deleted \in {{d}} \cup (IF "delete" \in Faults THEN {{}} ELSE {}) :
             rows' = DeleteIds(rows, deleted)
    BY DEF Forget, ForgetDevice
  <2>2. st'.devices = DeleteIds(st.devices, {d})
    BY <2>1 DEF DInv, TypeOK, IsState
  <2>3. \/ rows' = DeleteIds(rows, {d})
        \/ "delete" \in Faults /\ rows' = DeleteIds(rows, {})
    BY <2>1
  <2>4. QED
    BY <2>1, <2>2, <2>3
<1>2. /\ DOMAIN st'.devices = DOMAIN st.devices \ {d}
      /\ \A x \in DOMAIN st.devices \ {d} : st'.devices[x] = st.devices[x]
  BY <1>1 DEF DeleteIds
<1>3. /\ \/ DOMAIN rows' = DOMAIN rows \ {d}
         \/ "delete" \in Faults /\ DOMAIN rows' = DOMAIN rows
      /\ \A x \in DOMAIN rows' : rows'[x] = rows[x]
  BY <1>1 DEF DeleteIds
<1>4. QED
  BY <1>1, <1>2, <1>3 DEF DropDevice

LEMMA PruneDoes ==
  ASSUME MaintenanceTick
  PROVE  PruneDevices
  BY DEF MaintenanceTick, memory, DeleteIds, PruneDevices

\* The other arms change neither the devices nor their rows.
QuietStep ==
  \/ Reaction \/ RenderTick \/ HeartbeatTick \/ Tick \/ UNCHANGED vars
  \/ \E command \in Commands : Slash(command)
  \/ \E user \in Users : HomeOpened(user)
  \/ \E d \in DeviceIds, label \in Labels : Rename(d, label)

LEMMA QuietDoes ==
  ASSUME DInv, QuietStep
  PROVE  up' = up /\ st'.devices = st.devices /\ rows' = rows
<1>1. CASE Reaction \/ \E command \in Commands : Slash(command)
  BY <1>1, CommandDoes DEF Reaction, Slash
<1>2. CASE RenderTick \/ Tick \/ UNCHANGED vars
  BY <1>2 DEF RenderTick, Tick, vars, memory, store
<1>3. CASE HeartbeatTick
  BY <1>3 DEF HeartbeatTick, store, DInv, TypeOK, IsState
<1>4. CASE \E user \in Users : HomeOpened(user)
  BY <1>4 DEF HomeOpened, store
<1>5. CASE \E d \in DeviceIds, label \in Labels : Rename(d, label)
  BY <1>5 DEF Rename, memory
<1>6. QED
  BY <1>1, <1>2, <1>3, <1>4, <1>5 DEF QuietStep

\* Every step is one of these.
LEMMA DeviceSteps ==
  ASSUME DInv, [Next]_vars
  PROVE  \/ StartDevices
         \/ StopDevices
         \/ \E d \in DeviceIds, ip \in Ips \cup {None}, at \in Int : SightDevice(d, ip, at)
         \/ SweepDevices
         \/ \E d \in DeviceIds : DropDevice(d)
         \/ PruneDevices
         \/ up' = up /\ st'.devices = st.devices /\ rows' = rows
<1>1. ASSUME NEW d \in DeviceIds, NEW ip \in Ips \cup {None}, NEW lag \in 0 .. MaxLag,
             NetSighting(d, ip, now - lag)
      PROVE  \E at \in Int : SightDevice(d, ip, at)
  <2>1. now - lag \in Int
    BY DEF DInv
  <2>2. QED
    BY <1>1, <2>1, SightingDoes
<1>2. \/ Start \/ Stop \/ CrashDuringPersist \/ NetSweepComplete \/ MaintenanceTick \/ QuietStep
      \/ \E d \in DeviceIds, ip \in Ips \cup {None}, lag \in 0 .. MaxLag :
           NetSighting(d, ip, now - lag)
      \/ \E d \in DeviceIds : Forget(d)
  BY DEF Next, QuietStep
<1>3. QED
  BY <1>1, <1>2, StartDoes, StopDoes, SweepDoes, ForgetDoes, PruneDoes, QuietDoes

LEMMA InitRows == Init => RowsTrack /\ RowsCover
<1> SUFFICES ASSUME Init PROVE RowsTrack /\ RowsCover
  OBVIOUS
<1>1. DOMAIN rows = {} /\ ~up
  BY DEF Init
<1>2. QED
  BY <1>1 DEF RowsTrack, RowsCover

LEMMA NextRowsTrack ==
  ASSUME "write" \notin Faults, DInv, RowsTrack, [Next]_vars
  PROVE  RowsTrack'
<1>0. /\ IsTable(st.devices, Device)
      /\ \A d \in DOMAIN st.devices :
           st.devices[d].sightedThisSweep => st.devices[d].presence = Present
  BY DEF DInv, TypeOK, IsState
<1>1. CASE StartDevices
  <2>1. IsTable(rows, Row)
    BY DEF DInv, TypeOK
  <2>2. \A d \in DOMAIN rows : RowTracks(rows[d], Hydrate(rows[d]))
    BY HydratedTracks DEF RowsTrack
  <2>3. QED
    BY <1>1, <2>1, <2>2, HydratedDevices DEF StartDevices, RowsTrack
<1>2. CASE StopDevices
  <2>1. PICK written \in SUBSET SweepPersists(st.devices) :
          /\ DOMAIN rows' = DOMAIN rows \cup written
          /\ \A d \in DOMAIN rows \cup written :
               rows'[d] = IF d \in written THEN RowOf(AfterSweep(st.devices[d])) ELSE rows[d]
    BY <1>2 DEF StopDevices
  <2>2. \A d \in written : RowOf(AfterSweep(st.devices[d])).presence.missed <= 1
    BY <1>0, PersistedTracks DEF SweepPersists, IsTable
  <2>3. \A d \in DOMAIN rows' : rows'[d].presence.missed <= 1
    BY <2>1, <2>2 DEF RowsTrack
  <2>4. DOMAIN st'.devices = {}
    BY <1>2 DEF StopDevices
  <2>5. QED
    BY <2>3, <2>4 DEF RowsTrack
<1>3. ASSUME NEW d \in DeviceIds, NEW ip \in Ips \cup {None}, NEW at \in Int,
             SightDevice(d, ip, at)
      PROVE  RowsTrack'
  <2>1. /\ DOMAIN st'.devices = DOMAIN st.devices \cup {d}
        /\ st'.devices[d] = Regrown(st.devices, d, ip, at)
        /\ \A x \in DOMAIN st.devices \ {d} : st'.devices[x] = st.devices[x]
    BY <1>3 DEF SightDevice
  <2>2. CASE SightingChanges(st.devices, d, ip)
    <3>1. /\ DOMAIN rows' = DOMAIN rows \cup {d}
          /\ rows'[d] = RowOf(st'.devices[d])
          /\ \A x \in DOMAIN rows \ {d} : rows'[x] = rows[x]
      BY <1>3, <2>2 DEF SightDevice, StoredDevices, SightingPersists
    <3>2. st'.devices[d].presence.missed <= 1
      BY <2>1 DEF Regrown, Present
    <3>3. RowTracks(rows'[d], st'.devices[d]) /\ rows'[d].presence.missed <= 1
      BY <3>1, <3>2, OwnRowTracks DEF RowOf
    <3>4. QED
      BY <2>1, <3>1, <3>3 DEF RowsTrack
  <2>3. CASE ~SightingChanges(st.devices, d, ip)
    <3>1. d \in DOMAIN st.devices /\ SightingPersists(st.devices, d, ip) = {}
      BY <2>3 DEF SightingChanges, SightingPersists
    <3>2. DOMAIN rows' = DOMAIN rows /\ \A x \in DOMAIN rows : rows'[x] = rows[x]
      BY <1>3, <3>1 DEF SightDevice, StoredDevices
    <3>3. d \in DOMAIN rows => RowTracks(rows[d], Regrown(st.devices, d, ip, at))
      BY <2>3, <3>1, UnchangedSightingTracks DEF RowsTrack
    <3>4. QED
      BY <2>1, <3>1, <3>2, <3>3 DEF RowsTrack
  <2>4. QED
    BY <2>2, <2>3
<1>4. CASE SweepDevices
  <2> DEFINE stored == SweepPersists(st.devices)
  <2>1. /\ DOMAIN st'.devices = DOMAIN st.devices
        /\ \A x \in DOMAIN st.devices : /\ st.devices[x] \in Device
                                        /\ st'.devices[x] = AfterSweep(st.devices[x])
        /\ DOMAIN rows' = DOMAIN rows \cup stored
        /\ \A x \in DOMAIN rows \cup stored :
             rows'[x] = IF x \in stored THEN RowOf(st'.devices[x]) ELSE rows[x]
    BY <1>4 DEF SweepDevices, StoredDevices
  <2>2. ASSUME NEW x \in stored
        PROVE  rows'[x].presence.missed <= 1 /\ RowTracks(rows'[x], st'.devices[x])
    <3>1. /\ x \in DOMAIN st.devices
          /\ TakesMiss(st.devices[x])
          /\ st.devices[x].presence = Present \/ AfterMiss(st.devices[x].presence) = Gone
      BY DEF SweepPersists
    <3>2. QED
      BY <1>0, <2>1, <3>1, PersistedTracks
  <2>3. ASSUME NEW x \in DOMAIN rows \cap DOMAIN st.devices, x \notin stored
        PROVE  RowTracks(rows'[x], st'.devices[x])
    <3>1. ~(/\ TakesMiss(st.devices[x])
            /\ \/ st.devices[x].presence = Present
               \/ AfterMiss(st.devices[x].presence) = Gone)
      BY <2>3 DEF SweepPersists
    <3>2. RowTracks(rows[x], AfterSweep(st.devices[x]))
      BY <1>0, <2>1, <3>1, SweptTracks DEF RowsTrack
    <3>3. QED
      BY <2>1, <2>3, <3>2
  <2> HIDE DEF stored
  <2>4. QED
    BY <2>1, <2>2, <2>3 DEF RowsTrack
<1>5. ASSUME NEW d \in DeviceIds, DropDevice(d) PROVE RowsTrack'
  BY <1>5 DEF DropDevice, RowsTrack
<1>6. CASE PruneDevices
  BY <1>6 DEF PruneDevices, RowsTrack
<1>7. CASE up' = up /\ st'.devices = st.devices /\ rows' = rows
  BY <1>7 DEF RowsTrack
<1>8. QED
  BY <1>1, <1>2, <1>3, <1>4, <1>5, <1>6, <1>7, DeviceSteps

LEMMA NextRowsCover ==
  ASSUME Faults \cap {"write", "delete", "load"} = {}, DInv, RowsTrack, RowsCover,
         [Next]_vars
  PROVE  RowsCover'
<1>1. CASE StartDevices
  <2>1. IsTable(rows, Row)
    BY DEF DInv, TypeOK
  <2>2. QED
    BY <1>1, <2>1, HydratedDevices DEF StartDevices, RowsCover
<1>2. CASE StopDevices
  BY <1>2 DEF StopDevices, RowsCover
<1>3. ASSUME NEW d \in DeviceIds, NEW ip \in Ips \cup {None}, NEW at \in Int,
             SightDevice(d, ip, at)
      PROVE  RowsCover'
  <2>1. /\ up /\ DOMAIN st'.devices = DOMAIN st.devices \cup {d}
        /\ \A x \in DOMAIN st.devices \ {d} : st'.devices[x] = st.devices[x]
        /\ DOMAIN rows' = DOMAIN rows \cup SightingPersists(st.devices, d, ip)
    BY <1>3 DEF SightDevice, StoredDevices
  <2>2. d \in DOMAIN rows'
    <3>1. CASE SightingChanges(st.devices, d, ip)
      BY <2>1, <3>1 DEF SightingPersists
    <3>2. CASE ~SightingChanges(st.devices, d, ip)
      <4>1. d \in DOMAIN st.devices /\ st.devices[d].presence # Gone
        BY <3>2 DEF SightingChanges, Present, Gone
      <4>2. QED
        BY <2>1, <4>1 DEF RowsCover
    <3>3. QED
      BY <3>1, <3>2
  <2>3. SightingPersists(st.devices, d, ip) \subseteq {d}
    BY DEF SightingPersists
  <2>4. QED
    BY <2>1, <2>2, <2>3 DEF RowsCover
<1>4. CASE SweepDevices
  <2>1. /\ up /\ DOMAIN st'.devices = DOMAIN st.devices
        /\ \A x \in DOMAIN st.devices : /\ st.devices[x] \in Device
                                        /\ st'.devices[x] = AfterSweep(st.devices[x])
        /\ DOMAIN rows' = DOMAIN rows \cup SweepPersists(st.devices)
    BY <1>4 DEF SweepDevices, StoredDevices
  <2>2. \A x \in DOMAIN st.devices :
          st.devices[x].presence = Gone => AfterSweep(st.devices[x]).presence = Gone
    BY <2>1, SweptDevice DEF TakesMiss, DInv, TypeOK
  <2>3. SweepPersists(st.devices) \subseteq DOMAIN st.devices
    BY DEF SweepPersists
  <2>4. QED
    BY <2>1, <2>2, <2>3 DEF RowsCover
<1>5. ASSUME NEW d \in DeviceIds, DropDevice(d) PROVE RowsCover'
  BY <1>5 DEF DropDevice, RowsCover
<1>6. CASE PruneDevices
  <2>1. /\ up /\ st'.devices = st.devices /\ DOMAIN rows' = DOMAIN rows \ LongGone
    BY <1>6 DEF PruneDevices
  <2>2. ASSUME NEW d \in LongGone PROVE st.devices[d].presence = Gone
    <3>1. d \in DOMAIN rows \cap DOMAIN st.devices /\ rows[d].presence = Gone
      BY <2>1 DEF LongGone, RowsCover
    <3>2. st.devices[d].presence \in Presence /\ st.devices[d].presence.tag = "gone"
      BY <3>1 DEF RowsTrack, RowTracks, Gone, DInv, TypeOK, IsState, IsTable, Device
    <3>3. QED
      BY <3>2 DEF Presence, Present, Missed, Gone
  <2>3. QED
    BY <2>1, <2>2 DEF RowsCover
<1>7. CASE up' = up /\ st'.devices = st.devices /\ rows' = rows
  BY <1>7 DEF RowsCover
<1>8. QED
  BY <1>1, <1>2, <1>3, <1>4, <1>5, <1>6, <1>7, DeviceSteps

(* While no write, delete or load fails, the table has every known device   *)
(* but pruned Gone ones, as it is, and no other.                            *)
THEOREM TableFollowsMemory ==
  ASSUME Faults \cap {"write", "delete", "load"} = {}
  PROVE  Spec => []RowsFollowMemory
<1>1. DInv /\ RowsTrack /\ [Next]_vars => RowsTrack'
  BY NextRowsTrack
<1>2. DInv /\ RowsTrack /\ RowsCover /\ [Next]_vars => RowsCover'
  BY NextRowsCover
<1>3. RowsTrack /\ RowsCover => RowsFollowMemory
  BY DEF RowsTrack, RowsCover, RowsFollowMemory
<1>4. QED
  BY <1>1, <1>2, <1>3, InitDInv, NextDInv, InitRows, PTL DEF Spec

-----------------------------------------------------------------------------
(* Histories *)

HistoryState ==
  [heardAt : [DeviceIds -> Int \cup {None}], heardThisRun : SUBSET DeviceIds,
   heard : SUBSET DeviceIds, silent : [DeviceIds -> 0 .. MissLimit],
   forgotten : SUBSET DeviceIds, calm : Int]

\* What a step does to the history, next to what it does to the devices.
HeardDevice(d, at) ==
  /\ history'.heardAt = [history.heardAt EXCEPT ![d] = at]
  /\ history'.heardThisRun = history.heardThisRun \cup {d}
  /\ history'.heard = history.heard \cup {d}
  /\ history'.silent = [history.silent EXCEPT ![d] = 0]
  /\ history'.forgotten = history.forgotten \ {d}

SweptHistory ==
  /\ history'.heardAt = history.heardAt
  /\ history'.heardThisRun = history.heardThisRun
  /\ history'.heard = {}
  /\ history'.silent =
       [d \in DeviceIds |-> IF d \in history.heard \/ history.silent[d] = MissLimit
                            THEN history.silent[d] ELSE history.silent[d] + 1]
  /\ history'.forgotten = history.forgotten

ForgottenDevice(d) ==
  /\ history'.heardAt = history.heardAt
  /\ history'.heardThisRun = history.heardThisRun
  /\ history'.heard = history.heard
  /\ history'.silent = history.silent
  /\ history'.forgotten = history.forgotten \cup {d}

StartedHistory ==
  /\ history'.heardAt = history.heardAt
  /\ history'.heardThisRun = {}
  /\ history'.heard = {}
  /\ history'.silent = history.silent
  /\ history'.forgotten = history.forgotten

LEMMA HeardDoes ==
  ASSUME history \in HistoryState, NEW d \in DeviceIds, NEW at \in Int, Heard(d, at)
  PROVE  HeardDevice(d, at) /\ history' \in HistoryState
<1>1. HeardDevice(d, at)
  BY DEF Heard, HeardDevice, HistoryState
<1>2. /\ history'.heardAt \in [DeviceIds -> Int \cup {None}]
      /\ history'.silent \in [DeviceIds -> 0 .. MissLimit]
  BY <1>1, MissLimitAssumption DEF HeardDevice, HistoryState
<1>3. history'.calm = history.calm
  BY DEF Heard, HistoryState
<1>4. QED
  BY <1>1, <1>2, <1>3 DEF Heard, HeardDevice, HistoryState

LEMMA SweepOverDoes ==
  ASSUME history \in HistoryState, NEW devices, SweepOver(devices)
  PROVE  SweptHistory /\ history' \in HistoryState
<1>1. SweptHistory
  BY DEF SweepOver, SweptHistory, HistoryState
<1>2. history'.silent \in [DeviceIds -> 0 .. MissLimit]
  BY <1>1, MissLimitAssumption DEF SweptHistory, HistoryState
<1>3. history'.calm \in Int
  BY DEF SweepOver, HistoryState
<1>4. QED
  BY <1>1, <1>2, <1>3 DEF SweepOver, SweptHistory, HistoryState

\* Every step of DaemonHistory, by what it does to the devices, the rows and
\* the history.
HistoryStep ==
  \/ StartDevices /\ StartedHistory
  \/ \E d \in DeviceIds, ip \in Ips \cup {None}, at \in Int :
       SightDevice(d, ip, at) /\ HeardDevice(d, at)
  \/ SweepDevices /\ SweptHistory
  \/ StopDevices /\ SweptHistory
  \/ StopDevices /\ rows' = rows /\ history' = history
  \/ \E d \in DeviceIds : DropDevice(d) /\ ForgottenDevice(d)
  \/ PruneDevices /\ history' = history
  \/ up' = up /\ st'.devices = st.devices /\ rows' = rows /\ history' = history

LEMMA HistoryDoes ==
  ASSUME DInv, history \in HistoryState, [HNext]_hvars
  PROVE  HistoryStep /\ history' \in HistoryState
<1>1. CASE Start /\ Started
  BY <1>1, StartDoes DEF Started, StartedHistory, HistoryState, HistoryStep
<1>2. ASSUME NEW d \in DeviceIds, NEW ip \in Ips \cup {None}, NEW lag \in 0 .. MaxLag,
             NetSighting(d, ip, now - lag), Heard(d, now - lag)
      PROVE  HistoryStep /\ history' \in HistoryState
  <2>1. now - lag \in Int
    BY DEF DInv
  <2>2. SightDevice(d, ip, now - lag)
    BY <1>2, <2>1, SightingDoes
  <2>3. HeardDevice(d, now - lag) /\ history' \in HistoryState
    BY <1>2, <2>1, HeardDoes
  <2>4. QED
    BY <2>1, <2>2, <2>3 DEF HistoryStep
<1>3. CASE NetSweepComplete /\ SweepOver(st'.devices)
  BY <1>3, SweepDoes, SweepOverDoes DEF HistoryStep
<1>4. CASE CrashDuringPersist /\ SweepOver(OnSweepComplete(st.devices))
  BY <1>4, StopDoes, SweepOverDoes DEF HistoryStep
<1>5. ASSUME NEW d \in DeviceIds, Forget(d), Forgotten(d)
      PROVE  HistoryStep /\ history' \in HistoryState
  <2>1. ForgottenDevice(d) /\ history' \in HistoryState
    BY <1>5 DEF Forgotten, ForgottenDevice, HistoryState
  <2>2. QED
    BY <1>5, <2>1, ForgetDoes DEF HistoryStep
<1>6. CASE Stop /\ UNCHANGED history
  BY <1>6, StopDoes DEF Stop, store, HistoryStep
<1>7. CASE MaintenanceTick /\ UNCHANGED history
  BY <1>7, PruneDoes DEF HistoryStep
<1>8. CASE QuietStep /\ UNCHANGED history
  BY <1>8, QuietDoes DEF HistoryStep
<1>9. QED
  BY <1>1, <1>2, <1>3, <1>4, <1>5, <1>6, <1>7, <1>8 DEF HNext, hvars, QuietStep

\* The invariant that every history below stands on.
HInv == DInv /\ history \in HistoryState

LEMMA InitHInv == HInit => HInv
<1> SUFFICES ASSUME HInit PROVE HInv
  OBVIOUS
<1>1. history \in HistoryState
  BY MissLimitAssumption DEF HInit, NoHistory, HistoryState
<1>2. QED
  BY <1>1, InitDInv DEF HInit, HInv

LEMMA NextHInv == HInv /\ [HNext]_hvars => HInv'
  BY NextDInv, HistoryOnlyWatches, HistoryDoes DEF HInv

-----------------------------------------------------------------------------
(* Forgetting *)

LEMMA NextForgotten ==
  ASSUME "delete" \notin Faults, HInv, ForgottenStaysForgotten, [HNext]_hvars
  PROVE  ForgottenStaysForgotten'
<1>0. HistoryStep
  BY HistoryDoes DEF HInv
<1>1. CASE StartDevices /\ StartedHistory
  <2>1. DOMAIN LoadDevices(rows) = DOMAIN rows
    BY DEF LoadDevices
  <2>2. QED
    BY <1>1, <2>1 DEF StartDevices, StartedHistory, ForgottenStaysForgotten
<1>2. ASSUME NEW d \in DeviceIds, NEW ip \in Ips \cup {None}, NEW at \in Int,
             SightDevice(d, ip, at), HeardDevice(d, at)
      PROVE  ForgottenStaysForgotten'
  <2>1. SightingPersists(st.devices, d, ip) \subseteq {d}
    BY DEF SightingPersists
  <2>2. /\ DOMAIN st'.devices = DOMAIN st.devices \cup {d}
        /\ DOMAIN rows' \subseteq DOMAIN rows \cup {d}
        /\ history'.forgotten = history.forgotten \ {d}
    BY <1>2, <2>1 DEF SightDevice, StoredDevices, HeardDevice
  <2>3. QED
    BY <2>2 DEF ForgottenStaysForgotten
<1>3. CASE (SweepDevices \/ StopDevices) /\ SweptHistory
  <2>1. SweepPersists(st.devices) \subseteq DOMAIN st.devices
    BY DEF SweepPersists
  <2>2. /\ DOMAIN st'.devices \subseteq DOMAIN st.devices
        /\ DOMAIN rows' \subseteq DOMAIN rows \cup DOMAIN st.devices
    BY <1>3, <2>1 DEF SweepDevices, StopDevices, StoredDevices
  <2>3. history'.forgotten = history.forgotten
    BY <1>3 DEF SweptHistory
  <2>4. QED
    BY <2>2, <2>3 DEF ForgottenStaysForgotten
<1>4. CASE StopDevices /\ rows' = rows /\ history' = history
  BY <1>4 DEF StopDevices, ForgottenStaysForgotten
<1>5. ASSUME NEW d \in DeviceIds, DropDevice(d), ForgottenDevice(d)
      PROVE  ForgottenStaysForgotten'
  BY <1>5 DEF DropDevice, ForgottenDevice, ForgottenStaysForgotten
<1>6. CASE PruneDevices /\ history' = history
  BY <1>6 DEF PruneDevices, ForgottenStaysForgotten
<1>7. CASE up' = up /\ st'.devices = st.devices /\ rows' = rows /\ history' = history
  BY <1>7 DEF ForgottenStaysForgotten
<1>8. QED
  BY <1>0, <1>1, <1>2, <1>3, <1>4, <1>5, <1>6, <1>7 DEF HistoryStep

(* While no delete fails, whatever else does, a forgotten device is known   *)
(* nowhere until it is heard again.                                         *)
THEOREM ForgettingIsPermanent ==
  ASSUME "delete" \notin Faults
  PROVE  HSpec => []ForgottenStaysForgotten
<1>1. HInit => ForgottenStaysForgotten
  BY DEF HInit, NoHistory, ForgottenStaysForgotten
<1>2. HInv /\ ForgottenStaysForgotten /\ [HNext]_hvars => ForgottenStaysForgotten'
  BY NextForgotten
<1>3. QED
  BY <1>1, <1>2, InitHInv, NextHInv, PTL DEF HSpec

-----------------------------------------------------------------------------
(* Giving up *)

\* A device heard in this sweep and still known has been counted as sighted.
HeardAreSighted ==
  \A d \in history.heard \cap DOMAIN st.devices : st.devices[d].sightedThisSweep

\* Nothing completed sweeps do lowers the count of silent ones.
LEMMA SilentGrows ==
  ASSUME HInv, SweptHistory, NEW d \in DeviceIds
  PROVE  /\ history.silent[d] \in 0 .. MissLimit
         /\ history'.silent[d] >= history.silent[d]
         /\ d \notin history.heard /\ history.silent[d] # MissLimit
              => history'.silent[d] = history.silent[d] + 1
  BY MissLimitAssumption DEF HInv, HistoryState, SweptHistory

\* A device that a sweep leaves in memory or writes has been silent as long.
LEMMA SweptNotEarly ==
  ASSUME HInv, NeverGoneEarly, HeardAreSighted, SweptHistory,
         NEW d \in DOMAIN st.devices
  PROVE  Silence(AfterSweep(st.devices[d]).presence) <= history'.silent[d]
<1> DEFINE device == st.devices[d]
<1>1. /\ device \in Device /\ d \in DeviceIds
      /\ device.sightedThisSweep => device.presence = Present
  BY DEF HInv, DInv, TypeOK, IsState, IsTable
<1>2. /\ Silence(device.presence) \in 0 .. MissLimit
      /\ Silence(AfterSweep(device).presence) \in 0 .. MissLimit
      /\ Silence(AfterSweep(device).presence) \in
           {Silence(device.presence), Silence(device.presence) + 1}
      /\ device.sightedThisSweep =>
           Silence(AfterSweep(device).presence) = Silence(device.presence)
  BY <1>1, SweepAddsOne
<1>3. Silence(device.presence) <= history.silent[d]
  BY DEF NeverGoneEarly
<1>4. d \in history.heard => device.sightedThisSweep
  BY DEF HeardAreSighted
<1>5. /\ history.silent[d] \in 0 .. MissLimit
      /\ history'.silent[d] \in Int
      /\ history'.silent[d] >= history.silent[d]
      /\ d \notin history.heard /\ history.silent[d] # MissLimit
           => history'.silent[d] = history.silent[d] + 1
  BY <1>1, SilentGrows, MissLimitAssumption DEF SweptHistory, HInv, HistoryState
<1> HIDE DEF device
<1>6. QED
  BY <1>2, <1>3, <1>4, <1>5, MissLimitAssumption DEF device

LEMMA NextNotEarly ==
  ASSUME "write" \notin Faults, HInv, RowsTrack, NeverGoneEarly, HeardAreSighted,
         [HNext]_hvars
  PROVE  NeverGoneEarly' /\ HeardAreSighted'
<1>0. /\ HistoryStep
      /\ IsTable(rows, Row) /\ DOMAIN rows \subseteq DeviceIds
      /\ DOMAIN st.devices \subseteq DeviceIds
      /\ history \in HistoryState
  BY HistoryDoes DEF HInv, DInv, TypeOK, IsState, IsTable
<1>1. CASE StartDevices /\ StartedHistory
  <2>1. /\ DOMAIN LoadDevices(rows) = DOMAIN rows
        /\ \A d \in DOMAIN rows : LoadDevices(rows)[d].presence = rows[d].presence
    BY <1>0, HydratedDevices, HydratedFields
  <2>2. QED
    BY <1>1, <2>1 DEF StartDevices, StartedHistory, NeverGoneEarly, HeardAreSighted
<1>2. ASSUME NEW d \in DeviceIds, NEW ip \in Ips \cup {None}, NEW at \in Int,
             SightDevice(d, ip, at), HeardDevice(d, at)
      PROVE  NeverGoneEarly' /\ HeardAreSighted'
  <2>1. /\ DOMAIN st'.devices = DOMAIN st.devices \cup {d}
        /\ st'.devices[d].presence = Present /\ st'.devices[d].sightedThisSweep
        /\ \A x \in DOMAIN st.devices \ {d} : st'.devices[x] = st.devices[x]
    BY <1>2 DEF SightDevice, Regrown
  <2>2. /\ history'.silent[d] = 0
        /\ \A x \in DeviceIds \ {d} : history'.silent[x] = history.silent[x]
        /\ history'.heard = history.heard \cup {d}
    BY <1>0, <1>2 DEF HeardDevice, HistoryState
  <2>3. Silence(Present) = 0
    BY MissLimitAssumption DEF Silence, Present, Gone
  <2>4. /\ DOMAIN rows' \subseteq DOMAIN rows \cup {d}
        /\ \A x \in DOMAIN rows' \ {d} : rows'[x] = rows[x]
        /\ d \in DOMAIN rows' => rows'[d].presence = Present
    <3>1. CASE SightingChanges(st.devices, d, ip)
      <4>1. /\ DOMAIN rows' = DOMAIN rows \cup {d}
            /\ rows'[d] = RowOf(st'.devices[d])
            /\ \A x \in DOMAIN rows \ {d} : rows'[x] = rows[x]
        BY <1>2, <3>1 DEF SightDevice, StoredDevices, SightingPersists
      <4>2. QED
        BY <2>1, <4>1 DEF RowOf
    <3>2. CASE ~SightingChanges(st.devices, d, ip)
      <4>1. DOMAIN rows' = DOMAIN rows /\ \A x \in DOMAIN rows : rows'[x] = rows[x]
        BY <1>2, <3>2 DEF SightDevice, StoredDevices, SightingPersists
      <4>2. d \in DOMAIN st.devices /\ st.devices[d].presence = Present
        BY <3>2 DEF SightingChanges
      <4>3. d \in DOMAIN rows => rows[d].presence \in Presence /\ rows[d].presence.tag = "present"
        BY <1>0, <4>2 DEF RowsTrack, RowTracks, Present, IsTable, Row
      <4>4. d \in DOMAIN rows => rows[d].presence = Present
        BY <4>3 DEF Presence, Present, Missed, Gone
      <4>5. QED
        BY <4>1, <4>4
    <3>3. QED
      BY <3>1, <3>2
  <2>5. NeverGoneEarly'
    BY <1>0, <2>1, <2>2, <2>3, <2>4 DEF NeverGoneEarly
  <2>6. HeardAreSighted'
    BY <2>1, <2>2 DEF HeardAreSighted
  <2>7. QED
    BY <2>5, <2>6
<1>3. CASE (SweepDevices \/ StopDevices) /\ SweptHistory
  <2>1. \A d \in DOMAIN st.devices :
          Silence(AfterSweep(st.devices[d]).presence) <= history'.silent[d]
    BY <1>3, SweptNotEarly
  <2>2. \A d \in DOMAIN rows : Silence(rows[d].presence) <= history'.silent[d]
    <3>1. ASSUME NEW d \in DOMAIN rows
          PROVE  Silence(rows[d].presence) <= history'.silent[d]
      <4>1. Silence(rows[d].presence) \in 0 .. MissLimit
        BY <1>0, SilenceRange DEF IsTable, Row
      <4>2. /\ history.silent[d] \in 0 .. MissLimit /\ history'.silent[d] \in Int
            /\ history'.silent[d] >= history.silent[d]
        BY <1>0, <1>3, SilentGrows, MissLimitAssumption DEF SweptHistory, HInv, HistoryState
      <4>3. QED
        BY <4>1, <4>2, MissLimitAssumption DEF NeverGoneEarly
    <3>2. QED
      BY <3>1
  <2>3. \A d \in DOMAIN st'.devices :
          d \in DOMAIN st.devices /\ st'.devices[d] = AfterSweep(st.devices[d])
    BY <1>3 DEF SweepDevices, StopDevices
  <2>4. \A d \in DOMAIN rows' :
          \/ d \in DOMAIN rows /\ rows'[d] = rows[d]
          \/ d \in DOMAIN st.devices /\ rows'[d] = RowOf(AfterSweep(st.devices[d]))
    BY <1>3, <2>3 DEF SweepDevices, StopDevices, StoredDevices, SweepPersists
  <2>5. NeverGoneEarly'
    BY <2>1, <2>2, <2>3, <2>4 DEF NeverGoneEarly, RowOf
  <2>6. HeardAreSighted'
    BY <1>3 DEF SweptHistory, HeardAreSighted
  <2>7. QED
    BY <2>5, <2>6
<1>4. CASE StopDevices /\ rows' = rows /\ history' = history
  BY <1>4 DEF StopDevices, NeverGoneEarly, HeardAreSighted
<1>5. ASSUME NEW d \in DeviceIds, DropDevice(d), ForgottenDevice(d)
      PROVE  NeverGoneEarly' /\ HeardAreSighted'
  BY <1>5 DEF DropDevice, ForgottenDevice, NeverGoneEarly, HeardAreSighted
<1>6. CASE PruneDevices /\ history' = history
  BY <1>6 DEF PruneDevices, NeverGoneEarly, HeardAreSighted
<1>7. CASE up' = up /\ st'.devices = st.devices /\ rows' = rows /\ history' = history
  BY <1>7 DEF NeverGoneEarly, HeardAreSighted
<1>8. QED
  BY <1>0, <1>1, <1>2, <1>3, <1>4, <1>5, <1>6, <1>7 DEF HistoryStep

\* The rows track the devices in DaemonHistory as they do in Daemon.
LEMMA HistoryRowsTrack ==
  ASSUME "write" \notin Faults
  PROVE  HSpec => [](HInv /\ RowsTrack)
<1>1. HInit => RowsTrack
  BY InitRows DEF HInit
<1>2. HInv /\ RowsTrack /\ [HNext]_hvars => RowsTrack'
  BY NextRowsTrack, HistoryOnlyWatches DEF HInv
<1>3. QED
  BY <1>1, <1>2, InitHInv, NextHInv, PTL DEF HSpec

(* While no write fails, and whatever restarts, crashes among writes and    *)
(* failed deletes and loads come between, no device is held to have missed  *)
(* more sweeps than completed since it was heard.                           *)
THEOREM NobodyIsGivenUpEarly ==
  ASSUME "write" \notin Faults
  PROVE  HSpec => []NeverGoneEarly
<1>1. HInit => NeverGoneEarly /\ HeardAreSighted
  BY NobodyKnown DEF HInit, Init, NoHistory, NeverGoneEarly, HeardAreSighted
<1>2. HInv /\ RowsTrack /\ NeverGoneEarly /\ HeardAreSighted /\ [HNext]_hvars
        => NeverGoneEarly' /\ HeardAreSighted'
  BY NextNotEarly
<1>3. QED
  BY <1>1, <1>2, HistoryRowsTrack, PTL DEF HSpec

-----------------------------------------------------------------------------
(* Pruning *)

\* Memory knows when a device was heard in this run of the daemon.
LastSeenIsHeard ==
  \A d \in history.heardThisRun \cap DOMAIN st.devices :
    st.devices[d].lastSeen = history.heardAt[d]

LEMMA NextLastSeen ==
  ASSUME HInv, LastSeenIsHeard, [HNext]_hvars
  PROVE  LastSeenIsHeard'
<1>0. HistoryStep /\ history \in HistoryState
  BY HistoryDoes DEF HInv
<1>1. CASE StartDevices /\ StartedHistory
  BY <1>1 DEF StartedHistory, LastSeenIsHeard
<1>2. ASSUME NEW d \in DeviceIds, NEW ip \in Ips \cup {None}, NEW at \in Int,
             SightDevice(d, ip, at), HeardDevice(d, at)
      PROVE  LastSeenIsHeard'
  <2>1. /\ DOMAIN st'.devices = DOMAIN st.devices \cup {d}
        /\ st'.devices[d].lastSeen = at
        /\ \A x \in DOMAIN st.devices \ {d} : st'.devices[x] = st.devices[x]
    BY <1>2 DEF SightDevice, Regrown
  <2>2. /\ history'.heardAt[d] = at
        /\ \A x \in DeviceIds \ {d} : history'.heardAt[x] = history.heardAt[x]
        /\ history'.heardThisRun = history.heardThisRun \cup {d}
    BY <1>0, <1>2 DEF HeardDevice, HistoryState
  <2>3. DOMAIN st.devices \subseteq DeviceIds
    BY DEF HInv, DInv, TypeOK, IsState, IsTable
  <2>4. QED
    BY <2>1, <2>2, <2>3 DEF LastSeenIsHeard
<1>3. CASE SweepDevices /\ SweptHistory
  <2>1. \A d \in DOMAIN st.devices :
          /\ st.devices[d] \in Device
          /\ st.devices[d].sightedThisSweep => st.devices[d].presence = Present
    BY <1>3 DEF SweepDevices, HInv, DInv, TypeOK
  <2>2. \A d \in DOMAIN st.devices : st'.devices[d].lastSeen = st.devices[d].lastSeen
    BY <1>3, <2>1, SweptDevice DEF SweepDevices
  <2>3. QED
    BY <1>3, <2>2 DEF SweepDevices, SweptHistory, LastSeenIsHeard
<1>4. CASE StopDevices
  BY <1>4 DEF StopDevices, LastSeenIsHeard
<1>5. ASSUME NEW d \in DeviceIds, DropDevice(d), ForgottenDevice(d)
      PROVE  LastSeenIsHeard'
  BY <1>5 DEF DropDevice, ForgottenDevice, LastSeenIsHeard
<1>6. CASE st'.devices = st.devices /\ history' = history
  BY <1>6 DEF LastSeenIsHeard
<1>7. QED
  BY <1>0, <1>1, <1>2, <1>3, <1>4, <1>5, <1>6 DEF HistoryStep, PruneDevices

\* A row that is Gone has the time at which its device was last heard.
LEMMA PrunedWasSilent ==
  ASSUME HInv, RowsTrack, LastSeenIsHeard,
         NEW d \in LongGone \cap history.heardThisRun, d \in DOMAIN st.devices
  PROVE  now - history.heardAt[d] > PruneGoneAfter
<1>1. /\ d \in DOMAIN rows /\ rows[d].presence = Gone
      /\ rows[d].lastSeen < now - PruneGoneAfter
  BY DEF LongGone
<1>2. RowTracks(rows[d], st.devices[d]) /\ st.devices[d].lastSeen = history.heardAt[d]
  BY <1>1 DEF RowsTrack, LastSeenIsHeard
<1>3. rows[d].lastSeen = st.devices[d].lastSeen
  BY <1>1, <1>2 DEF RowTracks, Present, Gone
<1>4. rows[d].lastSeen \in Int /\ now \in Nat /\ PruneGoneAfter \in Nat
  BY <1>1, DaemonAssumption DEF HInv, DInv, TypeOK, IsTable, Row
<1>5. QED
  BY <1>1, <1>2, <1>3, <1>4

LEMMA PruneStep ==
  ASSUME "write" \notin Faults, HInv, RowsTrack, LastSeenIsHeard, [HNext]_hvars,
         NEW d \in (DOMAIN rows \ DOMAIN rows') \cap history.heardThisRun,
         d \in DOMAIN st'.devices
  PROVE  now - history.heardAt[d] > PruneGoneAfter
<1>1. [Next]_vars /\ DInv
  BY HistoryOnlyWatches DEF HInv
<1>2. CASE PruneDevices
  BY <1>2, PrunedWasSilent DEF PruneDevices
<1>3. CASE \E x \in DeviceIds : DropDevice(x)
  BY <1>3 DEF DropDevice
<1>4. ~StartDevices /\ ~StopDevices /\ ~SweepDevices /\ rows' # rows
  BY DEF StartDevices, StopDevices, SweepDevices, StoredDevices
<1>5. ~\E x \in DeviceIds, ip \in Ips \cup {None}, at \in Int : SightDevice(x, ip, at)
  BY DEF SightDevice, StoredDevices
<1>6. QED
  BY <1>1, <1>2, <1>3, <1>4, <1>5, DeviceSteps

(* While no write fails, pruning takes none of the devices heard in this    *)
(* run before they have been silent for longer than PruneGoneAfter.         *)
THEOREM PruningWaits ==
  ASSUME "write" \notin Faults
  PROVE  HSpec => PruneSparesTheHeard
<1>1. HInit => LastSeenIsHeard
  <2>1. HInit => history.heardThisRun = {}
    BY DEF HInit, NoHistory
  <2>2. QED
    BY <2>1 DEF LastSeenIsHeard
<1>2. HInv /\ LastSeenIsHeard /\ [HNext]_hvars => LastSeenIsHeard'
  BY NextLastSeen
<1>3. HInv /\ RowsTrack /\ LastSeenIsHeard /\ [HNext]_hvars
        => \A d \in (DOMAIN rows \ DOMAIN rows') \cap history.heardThisRun :
             d \in DOMAIN st'.devices => now - history.heardAt[d] > PruneGoneAfter
  BY PruneStep
<1>4. QED
  BY <1>1, <1>2, <1>3, HistoryRowsTrack, PTL DEF HSpec, PruneSparesTheHeard

-----------------------------------------------------------------------------
(* Views *)

\* What makes HomeFreshOrPending inductive: the live tank has no view before
\* the first start, and any later start resumes it.
ViewsInv ==
  /\ HomeFreshOrPending
  /\ used \in [starts : Nat, forgets : Nat, renames : Nat]
  /\ used.starts = 0 => ~up /\ Tank \notin DOMAIN views

\* view draws the state s, as far as it is vital.
Shows(view, s) ==
  /\ view.mood = s.mood.mood /\ view.stage = s.xp.stage /\ view.xp = s.xp.xp
  /\ \A d \in DOMAIN s.devices :
       d \in DOMAIN view.devices /\ view.devices[d].presence = s.devices[d].presence.tag

LEMMA VitalMeans ==
  ASSUME NEW view, NEW s, NEW names
  PROVE  ( [mood     |-> view.mood,
            stage    |-> view.stage,
            xp       |-> view.xp,
            presence |-> [d \in DOMAIN view.devices \cap DOMAIN s.devices |->
                            view.devices[d].presence]]
           = [mood     |-> HomeView(s, names).mood,
              stage    |-> HomeView(s, names).stage,
              xp       |-> HomeView(s, names).xp,
              presence |-> [d \in DOMAIN HomeView(s, names).devices \cap DOMAIN s.devices |->
                              HomeView(s, names).devices[d].presence]] )
         <=> Shows(view, s)
<1> DEFINE drawn == [d \in DOMAIN view.devices \cap DOMAIN s.devices |->
                       view.devices[d].presence]
           there == [d \in DOMAIN s.devices |-> s.devices[d].presence.tag]
<1>1. /\ HomeView(s, names).mood = s.mood.mood
      /\ HomeView(s, names).stage = s.xp.stage /\ HomeView(s, names).xp = s.xp.xp
      /\ DOMAIN HomeView(s, names).devices = DOMAIN s.devices
      /\ \A d \in DOMAIN s.devices :
           HomeView(s, names).devices[d].presence = s.devices[d].presence.tag
  BY DEF HomeView
<1>2. [d \in DOMAIN HomeView(s, names).devices \cap DOMAIN s.devices |->
         HomeView(s, names).devices[d].presence] = there
  BY <1>1
<1>3. drawn = there <=>
        \A d \in DOMAIN s.devices :
          d \in DOMAIN view.devices /\ view.devices[d].presence = s.devices[d].presence.tag
  <2>1. ASSUME drawn = there, NEW d \in DOMAIN s.devices
        PROVE  d \in DOMAIN view.devices /\ view.devices[d].presence = s.devices[d].presence.tag
    <3>1. DOMAIN drawn = DOMAIN there /\ drawn[d] = there[d]
      BY <2>1
    <3>2. QED
      BY <3>1
  <2>2. ASSUME \A d \in DOMAIN s.devices :
                 /\ d \in DOMAIN view.devices
                 /\ view.devices[d].presence = s.devices[d].presence.tag
        PROVE  drawn = there
    BY <2>2
  <2>3. QED
    BY <2>1, <2>2
<1> HIDE DEF drawn, there
<1>4. QED
  BY <1>1, <1>2, <1>3 DEF Shows, drawn

LEMMA CurrentShows ==
  ASSUME NEW v
  PROVE  /\ IsCurrent(v) <=> v \in DOMAIN views /\ Shows(views[v], st)
         /\ IsCurrent(v)' <=> v \in DOMAIN views' /\ Shows(views'[v], st')
<1>1. PICK view, s, names : view = views[v] /\ s = st /\ names = nicknames
  OBVIOUS
<1>2. Vital(views[v]) = Vital(Current) <=> Shows(views[v], st)
  BY <1>1, VitalMeans DEF Vital, Current
<1>3. PICK view1, s1, names1 : view1 = views'[v] /\ s1 = st' /\ names1 = nicknames'
  OBVIOUS
<1>4. (Vital(views[v]) = Vital(Current))' <=> Shows(views'[v], st')
  BY <1>3, VitalMeans DEF Vital, Current
<1>5. QED
  BY <1>2, <1>4 DEF IsCurrent

\* A view of the state shows it.
LEMMA OwnViewShows ==
  ASSUME NEW s, NEW names
  PROVE  Shows(HomeView(s, names), s)
  BY DEF Shows, HomeView

\* Nothing a view draws has changed but that devices may have gone.
Undrawn ==
  /\ st'.mood.mood = st.mood.mood
  /\ st'.xp.xp = st.xp.xp /\ st'.xp.stage = st.xp.stage
  /\ DOMAIN st'.devices \subseteq DOMAIN st.devices
  /\ \A d \in DOMAIN st'.devices :
       st'.devices[d].presence.tag = st.devices[d].presence.tag

LEMMA FreshStaysFresh ==
  ASSUME Undrawn, NEW v, ~Stale(v),
         v \in DOMAIN views => v \in DOMAIN views' /\ views'[v] = views[v],
         used'.starts = used.starts
  PROVE  ~Stale(v)'
<1>1. CASE IsCurrent(v)
  <2>1. v \in DOMAIN views /\ Shows(views[v], st)
    BY <1>1, CurrentShows
  <2>2. Shows(views'[v], st')
    BY <2>1 DEF Shows, Undrawn
  <2>3. QED
    BY <2>1, <2>2, CurrentShows DEF Stale
<1>2. CASE v = Tank /\ Resumed
  <2>1. Resumed'
    BY <1>2 DEF Resumed, Undrawn
  <2>2. QED
    BY <1>2, <2>1 DEF Stale
<1>3. QED
  BY <1>1, <1>2 DEF Stale

\* A step that keeps the views and either asks for a render or draws nothing.
LEMMA FreshOrPendingKept ==
  ASSUME ViewsInv, up' = up, views' = views, homeUsers' = homeUsers,
         used' \in [starts : Nat, forgets : Nat, renames : Nat],
         used'.starts = used.starts,
         renderPending => renderPending',
         renderPending' \/ Undrawn
  PROVE  ViewsInv'
<1>1. Audience' = Audience
  BY DEF Audience
<1>2. HomeFreshOrPending'
  BY <1>1, FreshStaysFresh DEF ViewsInv, HomeFreshOrPending
<1>3. QED
  BY <1>2 DEF ViewsInv

\* What a sighting or a sweep changes that is drawn, it renders.
LEMMA SightingDraws ==
  ASSUME DInv, NEW d \in DeviceIds, NEW ip \in Ips \cup {None}, NEW at \in Int,
         NetSighting(d, ip, at)
  PROVE  renderPending' \/ Undrawn
<1>1. /\ st'.devices = OnSighting(st.devices, d, ip, at)
      /\ st'.mood = SightedMood(st, d, ip) /\ st'.xp = SightedXp(st, d)
      /\ SightingPersists(st.devices, d, ip) # {} => renderPending'
  BY NetSightingDoes
<1>2. CASE SightingChanges(st.devices, d, ip)
  BY <1>1, <1>2 DEF SightingPersists
<1>3. CASE ~SightingChanges(st.devices, d, ip)
  <2>1. d \in DOMAIN st.devices /\ st.devices[d].presence = Present
    BY <1>3 DEF SightingChanges
  <2>2. st'.mood = st.mood /\ st'.xp = st.xp
    BY <1>1, <1>3, <2>1 DEF SightedMood, SightedXp
  <2>3. /\ DOMAIN st'.devices = DOMAIN st.devices
        /\ \A x \in DOMAIN st.devices : st'.devices[x].presence = st.devices[x].presence
    BY <1>1, <2>1 DEF OnSighting, Regrown
  <2>4. QED
    BY <2>2, <2>3 DEF Undrawn
<1>4. QED
  BY <1>2, <1>3

LEMMA SweepDraws ==
  ASSUME DInv, NetSweepComplete
  PROVE  renderPending' \/ Undrawn
<1>1. /\ st'.xp = st.xp
      /\ SweepPersists(st.devices) # {} \/ st'.mood.mood # st.mood.mood => renderPending'
  BY NetSweepDoes
<1>2. SweepDevices
  BY SweepDoes
<1>3. ASSUME SweepPersists(st.devices) = {}, NEW d \in DOMAIN st.devices
      PROVE  st'.devices[d].presence.tag = st.devices[d].presence.tag
  <2>1. /\ st.devices[d] \in Device /\ st'.devices[d] = AfterSweep(st.devices[d])
        /\ st.devices[d].sightedThisSweep => st.devices[d].presence = Present
    BY <1>2 DEF SweepDevices, DInv, TypeOK
  <2>2. QED
    BY <1>3, <2>1, UnpersistedKeepsTag DEF SweepPersists
<1>4. QED
  BY <1>1, <1>2, <1>3 DEF SweepDevices, Undrawn

\* A publish that does not fail shows its viewers the state.
LEMMA PublishShows ==
  ASSUME "publish" \notin Faults, NEW viewers, PublishTo(viewers, st, nicknames),
         st' = st
  PROVE  /\ DOMAIN views' = DOMAIN views \cup viewers
         /\ \A v \in viewers : ~Stale(v)'
         /\ \A v \in DOMAIN views \ viewers : views'[v] = views[v]
<1>1. views' = [v \in DOMAIN views \cup viewers |->
                  IF v \in viewers THEN HomeView(st, nicknames) ELSE views[v]]
  BY DEF PublishTo
<1>2. ASSUME NEW v \in viewers PROVE ~Stale(v)'
  <2>1. v \in DOMAIN views' /\ Shows(views'[v], st')
    BY <1>1, OwnViewShows
  <2>2. QED
    BY <2>1, CurrentShows DEF Stale
<1>3. QED
  BY <1>1, <1>2

LEMMA NextViews ==
  ASSUME "publish" \notin Faults, DInv, ViewsInv, [Next]_vars
  PROVE  ViewsInv'
<1>0. /\ used \in [starts : Nat, forgets : Nat, renames : Nat]
      /\ IsState(st) /\ st.mood \in MoodState
  BY DEF ViewsInv, DInv, TypeOK, IsState
<1>1. CASE Start
  <2>1. /\ ~up /\ up' /\ homeUsers' = {} /\ nicknames' = nicknames
        /\ used' = [used EXCEPT !.starts = @ + 1]
    BY <1>1 DEF Start, store
  <2>2. /\ used' \in [starts : Nat, forgets : Nat, renames : Nat]
        /\ used'.starts = used.starts + 1
    BY <1>0, <2>1
  <2>3. st'.mood.mood = "Curious" /\ st'.xp.xp = 0
    BY <1>1 DEF Start, FreshState
  <2>4. ASSUME NEW v \in Audience' PROVE ~Stale(v)'
    <3>1. v = Tank /\ HasLiveTank
      BY <2>1 DEF Audience
    <3>2. CASE Tank \in DOMAIN views
      <4>1. used.starts # 0
        BY <3>2 DEF ViewsInv
      <4>2. Resumed'
        BY <1>0, <2>2, <2>3, <4>1 DEF Resumed
      <4>3. QED
        BY <3>1, <4>2 DEF Stale
    <3>3. CASE Tank \notin DOMAIN views
      <4>1. views' = [x \in DOMAIN views \cup {Tank} |->
                        IF x = Tank THEN HomeView(st', nicknames) ELSE views[x]]
        BY <1>1, <3>1, <3>3 DEF Start
      <4>2. Tank \in DOMAIN views' /\ Shows(views'[Tank], st')
        BY <4>1, OwnViewShows
      <4>3. QED
        BY <3>1, <4>2, CurrentShows DEF Stale
    <3>4. QED
      BY <3>2, <3>3
  <2>5. HomeFreshOrPending'
    BY <2>4 DEF HomeFreshOrPending
  <2>6. QED
    BY <1>0, <2>2, <2>5 DEF ViewsInv
<1>2. CASE Stop \/ CrashDuringPersist
  <2>1. ~up' /\ views' = views /\ used' = used /\ up
    BY <1>2 DEF Stop, CrashDuringPersist
  <2>2. QED
    BY <2>1 DEF ViewsInv, HomeFreshOrPending
<1>3. ASSUME NEW d \in DeviceIds, NEW ip \in Ips \cup {None}, NEW lag \in 0 .. MaxLag,
             NetSighting(d, ip, now - lag)
      PROVE  ViewsInv'
  <2>1. now - lag \in Int
    BY DEF DInv
  <2>2. (renderPending' \/ Undrawn) /\ (renderPending => renderPending')
    BY <1>3, <2>1, SightingDraws, NetSightingDoes
  <2>3. up' = up /\ views' = views /\ homeUsers' = homeUsers /\ used' = used
    BY <1>3 DEF NetSighting
  <2>4. QED
    BY <1>0, <2>2, <2>3, FreshOrPendingKept
<1>4. CASE NetSweepComplete
  <2>1. (renderPending' \/ Undrawn) /\ (renderPending => renderPending')
    BY <1>4, SweepDraws, NetSweepDoes
  <2>2. up' = up /\ views' = views /\ homeUsers' = homeUsers /\ used' = used
    BY <1>4 DEF NetSweepComplete
  <2>3. QED
    BY <1>0, <2>1, <2>2, FreshOrPendingKept
<1>5. ASSUME NEW command, Slash(command) \/ Reaction PROVE ViewsInv'
  <2>1. renderPending' = TRUE
    BY <1>5, CommandDoes DEF Slash, Reaction
  <2>2. up' = up /\ views' = views /\ homeUsers' = homeUsers /\ used' = used
    BY <1>5 DEF Slash, Reaction
  <2>3. QED
    BY <1>0, <2>1, <2>2, FreshOrPendingKept
<1>6. CASE HeartbeatTick
  <2>1. /\ renderPending' = TRUE
        /\ up' = up /\ views' = views /\ homeUsers' = homeUsers /\ used' = used
    BY <1>6 DEF HeartbeatTick
  <2>2. QED
    BY <1>0, <2>1, FreshOrPendingKept
<1>7. ASSUME NEW d \in DeviceIds, Forget(d) PROVE ViewsInv'
  <2>1. DropDevice(d)
    BY <1>7, ForgetDoes
  <2>2. st'.mood = st.mood /\ st'.xp = st.xp
    BY <1>0, <1>7 DEF Forget, ForgetDevice, IsState
  <2>3. Undrawn
    BY <2>1, <2>2 DEF DropDevice, Undrawn
  <2>4. /\ up' = up /\ views' = views /\ homeUsers' = homeUsers
        /\ renderPending' = renderPending
        /\ used' = [used EXCEPT !.forgets = @ + 1]
    BY <1>7 DEF Forget
  <2>5. /\ used' \in [starts : Nat, forgets : Nat, renames : Nat]
        /\ used'.starts = used.starts
    BY <1>0, <2>4
  <2>6. QED
    BY <2>3, <2>4, <2>5, FreshOrPendingKept
<1>8. ASSUME st' = st PROVE Undrawn
  BY <1>8 DEF Undrawn
<1>9. ASSUME NEW d \in DeviceIds, NEW label \in Labels, Rename(d, label) PROVE ViewsInv'
  <2>1. /\ up' = up /\ views' = views /\ homeUsers' = homeUsers /\ st' = st
        /\ renderPending' = renderPending
        /\ used' = [used EXCEPT !.renames = @ + 1]
    BY <1>9 DEF Rename, memory
  <2>2. /\ used' \in [starts : Nat, forgets : Nat, renames : Nat]
        /\ used'.starts = used.starts
    BY <1>0, <2>1
  <2>3. QED
    BY <1>8, <2>1, <2>2, FreshOrPendingKept
<1>10. CASE MaintenanceTick \/ Tick \/ UNCHANGED vars
  <2>1. /\ up' = up /\ views' = views /\ homeUsers' = homeUsers /\ st' = st
        /\ renderPending' = renderPending /\ used' = used
    BY <1>10 DEF MaintenanceTick, Tick, vars, memory
  <2>2. QED
    BY <1>0, <1>8, <2>1, FreshOrPendingKept
<1>11. ASSUME NEW user \in Users, HomeOpened(user) PROVE ViewsInv'
  <2>1. /\ up /\ up' = up /\ st' = st /\ used' = used
        /\ renderPending' = renderPending
        /\ homeUsers' = homeUsers \cup {user}
        /\ PublishTo({user}, st, nicknames)
    BY <1>11 DEF HomeOpened
  <2>2. /\ \A v \in {user} : ~Stale(v)'
        /\ \A v \in DOMAIN views \ {user} : v \in DOMAIN views' /\ views'[v] = views[v]
    BY <2>1, PublishShows
  <2>3. ASSUME NEW v, v # user, ~Stale(v) PROVE ~Stale(v)'
    BY <1>8, <2>1, <2>2, <2>3, FreshStaysFresh
  <2>4. Audience' = Audience \cup {user}
    BY <2>1 DEF Audience
  <2>5. HomeFreshOrPending'
    BY <2>1, <2>2, <2>3, <2>4 DEF ViewsInv, HomeFreshOrPending
  <2>6. QED
    BY <1>0, <2>1, <2>5 DEF ViewsInv
<1>12. CASE RenderTick
  <2>1. /\ up /\ st' = st /\ used' = used /\ homeUsers' = homeUsers
        /\ PublishTo(Audience, st, nicknames)
    BY <1>12 DEF RenderTick
  <2>2. \A v \in Audience : ~Stale(v)'
    BY <2>1, PublishShows
  <2>3. Audience' = Audience
    BY <2>1 DEF Audience
  <2>4. QED
    BY <1>0, <2>1, <2>2, <2>3 DEF ViewsInv, HomeFreshOrPending
<1>13. QED
  BY <1>1, <1>2, <1>3, <1>4, <1>5, <1>6, <1>7, <1>9, <1>10, <1>11, <1>12 DEF Next

(* While no publish fails, a view that is out of date has a render coming,  *)
(* or is the resumed live tank of a run in which nothing has moved yet.     *)
THEOREM StaleViewsAreRedrawn ==
  ASSUME "publish" \notin Faults
  PROVE  Spec => []HomeFreshOrPending
<1>1. Init => ViewsInv
  BY DEF Init, ViewsInv, HomeFreshOrPending
<1>2. DInv /\ ViewsInv /\ [Next]_vars => ViewsInv'
  BY NextViews
<1>3. ViewsInv => HomeFreshOrPending
  BY DEF ViewsInv
<1>4. QED
  BY <1>1, <1>2, <1>3, InitDInv, NextDInv, PTL DEF Spec
=============================================================================
