----------------------------- MODULE CoreProofs -----------------------------
(***************************************************************************)
(* Lemmas about the operators of DeviceTable and Core, for every set of    *)
(* devices and every table of numbers: what a sighting, a sweep, a hydrate *)
(* and an upsert make of a device and of a row, and what `step` makes of   *)
(* each part of the state and which effects it returns.  The theorems that *)
(* rest on them are in PresenceProofs, GameProofs and DaemonProofs.        *)
(***************************************************************************)
EXTENDS Core, FiniteSetTheorems, TLAPS

-----------------------------------------------------------------------------
(* One presence *)

\* A miss moves a presence that is not Gone to Gone or to a positive count.
LEMMA MissResult ==
  ASSUME NEW p \in Presence, p # Gone
  PROVE  /\ AfterMiss(p) \in Presence
         /\ AfterMiss(p) # Present
         /\ AfterMiss(p) = Gone <=> p.missed + 1 >= MissLimit
         /\ AfterMiss(p) # Gone => AfterMiss(p) = Missed(p.missed + 1)
  BY MissLimitAssumption DEF Presence, AfterMiss, Present, Missed, Gone

\* The silence of a presence orders it between Present and Gone.
LEMMA SilenceRange ==
  ASSUME NEW p \in Presence
  PROVE  /\ Silence(p) \in 0 .. MissLimit
         /\ Silence(p) = 0 <=> p = Present
         /\ Silence(p) = MissLimit <=> p = Gone
  BY MissLimitAssumption DEF Presence, Silence, Present, Missed, Gone

\* A miss that is not yet final counts one more silent sweep.
LEMMA MissCounts ==
  ASSUME NEW p \in Presence, p # Gone
  PROVE  Silence(AfterMiss(p)) = Silence(p) + 1
  BY MissLimitAssumption DEF Presence, AfterMiss, Silence, Present, Missed, Gone

-----------------------------------------------------------------------------
(* One device *)

\* A sweep keeps a device well formed, and a miss is all it can change.
LEMMA SweptDevice ==
  ASSUME NEW device \in Device,
         device.sightedThisSweep => device.presence = Present
  PROVE  /\ AfterSweep(device) \in Device
         /\ ~AfterSweep(device).sightedThisSweep
         /\ AfterSweep(device).ip = device.ip
         /\ AfterSweep(device).lastSeen = device.lastSeen
         /\ AfterSweep(device).presence =
              IF TakesMiss(device) THEN AfterMiss(device.presence)
              ELSE device.presence
<1>1. device.presence \in Presence
  BY DEF Device
<1>2. TakesMiss(device) => AfterMiss(device.presence) \in Presence
  BY <1>1, MissResult DEF TakesMiss
<1>3. QED
  BY <1>1, <1>2 DEF AfterSweep, Device

\* A sighted device is Present and well formed.
LEMMA SightedDevice ==
  ASSUME NEW devs, IsTable(devs, Device), NEW d \in DeviceIds,
         NEW newIp \in Ips \cup {None}, NEW at \in Int
  PROVE  LET table == OnSighting(devs, d, newIp, at)
         IN  /\ IsTable(table, Device)
             /\ DOMAIN table = DOMAIN devs \cup {d}
             /\ table[d] = Regrown(devs, d, newIp, at)
             /\ \A x \in DOMAIN devs \ {d} : table[x] = devs[x]
<1>1. Regrown(devs, d, newIp, at) \in Device
  BY DEF Regrown, Device, IsTable, Presence
<1>2. QED
  BY <1>1 DEF OnSighting, IsTable

\* A completed sweep keeps the table and leaves no device counted as sighted.
LEMMA SweptTable ==
  ASSUME NEW devs, IsTable(devs, Device),
         \A d \in DOMAIN devs : devs[d].sightedThisSweep => devs[d].presence = Present
  PROVE  LET swept == OnSweepComplete(devs)
         IN  /\ IsTable(swept, Device)
             /\ DOMAIN swept = DOMAIN devs
             /\ \A d \in DOMAIN devs : /\ devs[d] \in Device
                                       /\ swept[d] = AfterSweep(devs[d])
                                       /\ ~swept[d].sightedThisSweep
             /\ SweepPersists(devs) \in SUBSET DOMAIN devs
<1>1. \A d \in DOMAIN devs : devs[d] \in Device
  BY DEF IsTable
<1>2. \A d \in DOMAIN devs : /\ AfterSweep(devs[d]) \in Device
                            /\ ~AfterSweep(devs[d]).sightedThisSweep
  BY <1>1, SweptDevice
<1>3. QED
  BY <1>1, <1>2 DEF OnSweepComplete, SweepPersists, IsTable

\* A sweep adds one to the silence of a device that was not sighted in it, up
\* to MissLimit, and nothing to that of one that was.
LEMMA SweepAddsOne ==
  ASSUME NEW device \in Device,
         device.sightedThisSweep => device.presence = Present
  PROVE  LET before == Silence(device.presence)
             after  == Silence(AfterSweep(device).presence)
         IN  /\ before \in 0 .. MissLimit /\ after \in 0 .. MissLimit
             /\ after \in {before, before + 1}
             /\ device.sightedThisSweep => after = before
<1> DEFINE p == device.presence
           q == AfterSweep(device).presence
<1>1. /\ p \in Presence /\ q \in Presence
      /\ q = IF TakesMiss(device) THEN AfterMiss(p) ELSE p
  BY SweptDevice DEF Device
<1>2. TakesMiss(device) => p # Gone /\ ~device.sightedThisSweep
  BY DEF TakesMiss
<1> HIDE DEF p, q
<1>3. Silence(p) \in 0 .. MissLimit /\ Silence(q) \in 0 .. MissLimit
  BY <1>1, SilenceRange
<1>4. CASE TakesMiss(device)
  BY <1>1, <1>2, <1>3, <1>4, MissCounts DEF p, q
<1>5. CASE ~TakesMiss(device)
  BY <1>1, <1>3, <1>5 DEF p, q
<1>6. QED
  BY <1>4, <1>5

\* Rows written from a table of devices are rows.
LEMMA UpsertRows ==
  ASSUME NEW devs, IsTable(devs, Device), NEW tbl, IsTable(tbl, Row),
         NEW ids \in SUBSET DOMAIN devs
  PROVE  /\ IsTable(Upsert(tbl, devs, ids), Row)
         /\ DOMAIN Upsert(tbl, devs, ids) = DOMAIN tbl \cup ids
         /\ \A d \in DOMAIN tbl \cup ids :
              Upsert(tbl, devs, ids)[d] = IF d \in ids THEN RowOf(devs[d]) ELSE tbl[d]
<1>1. \A d \in DOMAIN devs : RowOf(devs[d]) \in Row
  BY DEF RowOf, Row, Device, IsTable
<1>2. QED
  BY <1>1 DEF Upsert, IsTable

\* A hydrated device keeps the presence of its row and counts as unsighted.
LEMMA HydratedFields ==
  ASSUME NEW row
  PROVE  Hydrate(row).presence = row.presence /\ ~Hydrate(row).sightedThisSweep
  BY DEF Hydrate

\* Rows hydrate to devices that have not been sighted yet.
LEMMA HydratedDevices ==
  ASSUME NEW tbl, IsTable(tbl, Row)
  PROVE  /\ IsTable(LoadDevices(tbl), Device)
         /\ DOMAIN LoadDevices(tbl) = DOMAIN tbl
         /\ \A d \in DOMAIN tbl : LoadDevices(tbl)[d] = Hydrate(tbl[d])
  BY DEF LoadDevices, Hydrate, Row, Device, IsTable

\* A device's own row tracks it.
LEMMA OwnRowTracks ==
  ASSUME NEW device, device.presence.missed <= 1
  PROVE  RowTracks(RowOf(device), device)
  BY DEF RowTracks, RowOf

\* A device hydrated from a row is tracked by it.
LEMMA HydratedTracks ==
  ASSUME NEW row, row.presence.missed <= 1
  PROVE  RowTracks(row, Hydrate(row))
  BY DEF RowTracks, Hydrate

\* A sighting that changes nothing worth storing leaves the row tracking.
LEMMA UnchangedSightingTracks ==
  ASSUME NEW devs, NEW d \in DOMAIN devs, NEW row, NEW at,
         NEW newIp \in Ips \cup {None},
         RowTracks(row, devs[d]),
         ~SightingChanges(devs, d, newIp)
  PROVE  RowTracks(row, Regrown(devs, d, newIp, at))
  BY DEF RowTracks, SightingChanges, Regrown

\* A sweep leaves the row of a device it does not persist tracking, and the
\* row it writes for one it does persist tracks as well.
LEMMA SweptTracks ==
  ASSUME NEW device \in Device,
         device.sightedThisSweep => device.presence = Present,
         NEW row, RowTracks(row, device)
  PROVE  LET after   == AfterSweep(device)
             written == /\ TakesMiss(device)
                        /\ \/ device.presence = Present
                           \/ AfterMiss(device.presence) = Gone
         IN  RowTracks(IF written THEN RowOf(after) ELSE row, after)
<1> DEFINE p     == device.presence
           after == AfterSweep(device)
<1>1. /\ after.ip = device.ip
      /\ after.lastSeen = device.lastSeen
      /\ after.presence = IF TakesMiss(device) THEN AfterMiss(p) ELSE p
  BY SweptDevice
<1>2. p \in Presence
  BY DEF Device
<1> HIDE DEF after
<1>3. CASE ~TakesMiss(device)
  BY <1>1, <1>3 DEF RowTracks, after
<1>4. CASE TakesMiss(device) /\ AfterMiss(p) = Gone
  <2>1. after.presence.missed <= 1
    BY <1>1, <1>4 DEF Gone
  <2>2. QED
    BY <1>4, <2>1, OwnRowTracks DEF after
<1>5. CASE TakesMiss(device) /\ p = Present /\ AfterMiss(p) # Gone
  <2>1. after.presence.missed <= 1
    BY <1>1, <1>2, <1>5, MissResult DEF TakesMiss, Present, Missed
  <2>2. QED
    BY <1>5, <2>1, OwnRowTracks DEF after
<1>6. CASE TakesMiss(device) /\ p # Present /\ AfterMiss(p) # Gone
  <2>1. p.tag = "missed" /\ after.presence.tag = "missed"
    BY <1>1, <1>2, <1>6, MissResult DEF TakesMiss, Presence, Present, Missed, Gone
  <2>2. QED
    BY <1>1, <1>6, <2>1 DEF RowTracks, after
<1>7. QED
  BY <1>3, <1>4, <1>5, <1>6

\* A row written by a sweep, before or after which the process may die, tracks.
LEMMA PersistedTracks ==
  ASSUME NEW device \in Device,
         device.sightedThisSweep => device.presence = Present,
         TakesMiss(device),
         device.presence = Present \/ AfterMiss(device.presence) = Gone
  PROVE  LET after == AfterSweep(device)
         IN  RowOf(after).presence.missed <= 1 /\ RowTracks(RowOf(after), after)
<1> DEFINE after == AfterSweep(device)
<1>1. device.presence \in Presence /\ after.presence = AfterMiss(device.presence)
  BY SweptDevice DEF Device
<1> HIDE DEF after
<1>2. after.presence.missed <= 1
  BY <1>1, MissResult DEF TakesMiss, Present, Missed, Gone
<1>3. QED
  BY <1>2, OwnRowTracks DEF after, RowOf

\* A sweep changes the tag of a device only when it persists the device.
LEMMA UnpersistedKeepsTag ==
  ASSUME NEW device \in Device,
         device.sightedThisSweep => device.presence = Present,
         ~(/\ TakesMiss(device)
           /\ \/ device.presence = Present
              \/ AfterMiss(device.presence) = Gone)
  PROVE  AfterSweep(device).presence.tag = device.presence.tag
<1>1. /\ device.presence \in Presence
      /\ AfterSweep(device).presence =
           IF TakesMiss(device) THEN AfterMiss(device.presence) ELSE device.presence
  BY SweptDevice DEF Device
<1>2. CASE ~TakesMiss(device)
  BY <1>1, <1>2
<1>3. CASE TakesMiss(device)
  BY <1>1, <1>3, MissResult DEF TakesMiss, Presence, Present, Missed, Gone
<1>4. QED
  BY <1>2, <1>3

-----------------------------------------------------------------------------
(* The parts of the state *)

\* The floors of the stages are in order, so each XP total has one stage.
LEMMA FromXpStage ==
  ASSUME NEW xp \in Nat
  PROVE  FromXp(xp) \in Stages
  BY CoreAssumption DEF FromXp, Stages

LEMMA GainFields ==
  ASSUME NEW x \in XpState, NEW amount \in Nat
  PROVE  /\ Gain(x, amount) \in XpState
         /\ Gain(x, amount).xp = x.xp + amount
         /\ Gain(x, amount).stage = FromXp(x.xp + amount)
         /\ Gain(x, amount).lastFed = x.lastFed
<1>1. x.xp + amount \in Nat /\ FromXp(x.xp + amount) \in Stages
  BY FromXpStage DEF XpState
<1>2. QED
  BY <1>1 DEF Gain, XpState

\* A feed that is accepted earns XpFeed and is remembered; another does nothing.
LEMMA FeedFields ==
  ASSUME NEW x \in XpState, NEW at \in Int
  PROVE  LET fed == OnFeed(x, at)
         IN  /\ fed \in XpState
             /\ ~FeedAccepted(x, at) => fed = x
             /\ FeedAccepted(x, at) => /\ fed.xp = x.xp + XpFeed
                                      /\ fed.stage = FromXp(x.xp + XpFeed)
                                      /\ fed.lastFed = at
<1> DEFINE y == [x EXCEPT !.lastFed = at]
<1>1. y \in XpState /\ y.xp = x.xp /\ y.lastFed = at
  BY DEF XpState
<1> HIDE DEF y
<1>2. /\ Gain(y, XpFeed) \in XpState
      /\ Gain(y, XpFeed).xp = x.xp + XpFeed
      /\ Gain(y, XpFeed).stage = FromXp(x.xp + XpFeed)
      /\ Gain(y, XpFeed).lastFed = at
  BY <1>1, GainFields, CoreAssumption
<1>3. QED
  BY <1>2 DEF OnFeed, y

LEMMA MoodTypes ==
  ASSUME NEW m \in MoodState
  PROVE  /\ OnDeviceJoinedOrReturned(m) \in MoodState
         /\ OnDeviceGone(m) \in MoodState
         /\ OnFed(m) \in MoodState
         /\ \A present, known : OnSweepSettled(m, present, known) \in MoodState
<1>1. /\ OnDeviceJoinedOrReturned(m) \in MoodState
      /\ OnDeviceGone(m) \in MoodState
      /\ OnFed(m) \in MoodState
  BY DEF OnDeviceJoinedOrReturned, OnDeviceGone, OnFed, MoodState, Moods
<1>2. ASSUME NEW present, NEW known PROVE OnSweepSettled(m, present, known) \in MoodState
  BY DEF OnSweepSettled, MoodState, Moods
<1>3. QED
  BY <1>1, <1>2

\* on_sweep_settled compares two counts, which says which devices are Present.
LEMMA SettledMood ==
  ASSUME NEW m \in MoodState, NEW known \in SUBSET DeviceIds, NEW present \in SUBSET known
  PROVE  LET mood == OnSweepSettled(m, Cardinality(present), Cardinality(known))
         IN  /\ present = {} => mood = [mood |-> "Lonely", idleSweeps |-> 0, contentStreak |-> 0]
             /\ present # {} /\ present # known => mood = m
             /\ present # {} /\ present = known =>
                  /\ mood.mood \in {"Content", "Sleepy"}
                  /\ mood.idleSweeps = m.idleSweeps + 1
                  /\ mood.contentStreak = m.contentStreak + 1
<1>1. IsFiniteSet(known) /\ IsFiniteSet(present)
  BY DeviceIdsAssumption, FS_Subset
<1>2. Cardinality(present) = 0 <=> present = {}
  BY <1>1, FS_EmptySet
<1>3. Cardinality(present) = Cardinality(known) <=> present = known
  BY <1>1, FS_Subset
<1>4. QED
  BY <1>2, <1>3 DEF OnSweepSettled

\* The achievements whose condition a state meets.
Earned(s) == {a \in Achievements : IsUnlocked(a, s)}

\* The end of `step` unlocks achievements, reports them, and leaves the rest.
LEMMA EvaluateFields ==
  ASSUME NEW s, IsState(s), NEW effects
  PROVE  LET o == Evaluate(s, effects)
         IN  /\ IsState(o.state)
             /\ o.state.devices = s.devices /\ o.state.mood = s.mood
             /\ o.state.xp = s.xp /\ o.state.vendors = s.vendors
             /\ o.state.achievements = s.achievements \cup Earned(o.state)
             /\ effects \subseteq o.effects
             /\ \A fx \in o.effects \ effects : fx.type = "AchievementUnlocked"
<1> DEFINE o == Evaluate(s, effects)
<1>1. /\ o.state = [s EXCEPT !.achievements =
                      @ \cup {a \in Achievements \ s.achievements : IsUnlocked(a, s)}]
      /\ effects \subseteq o.effects
      /\ \A fx \in o.effects \ effects : fx.type = "AchievementUnlocked"
  BY DEF Evaluate, AchievementUnlocked
<1> HIDE DEF o
<1>2. /\ IsState(o.state)
      /\ o.state.devices = s.devices /\ o.state.mood = s.mood
      /\ o.state.xp = s.xp /\ o.state.vendors = s.vendors
      /\ o.state.achievements = s.achievements \cup Earned(s)
  BY <1>1 DEF IsState, Earned
<1>3. Earned(s) = Earned(o.state)
  BY <1>2 DEF IsUnlocked, Earned
<1>4. QED
  BY <1>1, <1>2, <1>3 DEF o

-----------------------------------------------------------------------------
(* Effects *)

\* What one device's transition asks for: its row, and a render.
LEMMA EffectTypes ==
  /\ \A d : Persist(d).type = "Persist" /\ Persist(d).device = d
  /\ Render.type = "Render"
  /\ \A stage : Morph(stage).type = "Morph"
  BY DEF Persist, Render, Morph

LEMMA PresenceEffectsAsk ==
  ASSUME NEW ids
  PROVE  /\ Render \in PresenceEffects(ids) <=> ids # {}
         /\ \A fx \in PresenceEffects(ids) :
              fx.type = "Persist" => fx.device \in ids
         /\ \A d \in ids : Persist(d) \in PresenceEffects(ids)
<1>1. \A d : Persist(d) # Render
  BY EffectTypes
<1>2. QED
  BY <1>1, EffectTypes DEF PresenceEffects

\* The rows that a list of effects asks for, when nothing else in it does.
LEMMA PersistedFromPresence ==
  ASSUME NEW ids, NEW effects, PresenceEffects(ids) \subseteq effects,
         \A fx \in effects \ PresenceEffects(ids) : fx.type # "Persist"
  PROVE  PersistedIds(effects) = ids
<1>1. \A d \in ids : d \in PersistedIds(effects)
  BY PresenceEffectsAsk, EffectTypes DEF PersistedIds
<1>2. \A d \in PersistedIds(effects) : d \in ids
  BY PresenceEffectsAsk DEF PersistedIds
<1>3. QED
  BY <1>1, <1>2

-----------------------------------------------------------------------------
(* `step` *)

\* What a sighting makes of the mood and of the experience.
SightedMood(s, d, ip) ==
  IF SightingChanges(s.devices, d, ip) THEN OnDeviceJoinedOrReturned(s.mood) ELSE s.mood
SightedXp(s, d) ==
  IF d \in DOMAIN s.devices THEN s.xp ELSE Gain(s.xp, XpNewDevice)

\* What a sighting makes of the state, and what it asks for.
LEMMA StepSightingFields ==
  ASSUME NEW s, IsState(s), NEW d \in DeviceIds, NEW ip \in Ips \cup {None},
         NEW vendor \in Vendors \cup {None}, NEW at \in Int
  PROVE  LET o      == StepSighting(s, d, ip, vendor, at)
             stored == SightingPersists(s.devices, d, ip)
         IN  /\ IsState(o.state)
             /\ o.state.devices = OnSighting(s.devices, d, ip, at)
             /\ o.state.mood = SightedMood(s, d, ip)
             /\ o.state.xp = SightedXp(s, d)
             /\ o.state.achievements = s.achievements \cup Earned(o.state)
             /\ PersistedIds(o.effects) = stored
             /\ stored # {} => Render \in o.effects
<1> DEFINE stored  == SightingPersists(s.devices, d, ip)
           isNew   == IsNew(s.devices, d)
           xp      == IF isNew THEN Gain(s.xp, XpNewDevice) ELSE s.xp
           mood    == IF stored = {} THEN s.mood ELSE OnDeviceJoinedOrReturned(s.mood)
           vendors == IF isNew THEN s.vendors \cup ({vendor} \ {None}) ELSE s.vendors
           devices == OnSighting(s.devices, d, ip, at)
           t       == [s EXCEPT !.devices = devices, !.mood = mood, !.vendors = vendors, !.xp = xp]
           effects == PresenceEffects(stored) \cup MorphEffects(s.xp, xp)
<1>1. StepSighting(s, d, ip, vendor, at) = Evaluate(t, effects)
  BY DEF StepSighting, IsState
<1>2. /\ IsTable(devices, Device) /\ xp \in XpState /\ mood \in MoodState
      /\ vendors \subseteq Vendors
  BY SightedDevice, GainFields, MoodTypes, CoreAssumption DEF IsState
<1> HIDE DEF xp, mood, vendors, devices, effects
<1>3. /\ IsState(t)
      /\ t.devices = devices /\ t.mood = mood /\ t.xp = xp /\ t.achievements = s.achievements
  BY <1>2 DEF IsState
<1> HIDE DEF t
<1> DEFINE o == Evaluate(t, effects)
<1>4. /\ IsState(o.state)
      /\ o.state.devices = t.devices /\ o.state.mood = t.mood
      /\ o.state.xp = t.xp /\ o.state.vendors = t.vendors
      /\ o.state.achievements = t.achievements \cup Earned(o.state)
      /\ effects \subseteq o.effects
      /\ \A fx \in o.effects \ effects : fx.type = "AchievementUnlocked"
  BY <1>3, EvaluateFields
<1> HIDE DEF o
<1>5. /\ PresenceEffects(stored) \subseteq effects
      /\ \A fx \in effects \ PresenceEffects(stored) : fx.type = "Morph"
  BY EffectTypes DEF effects, MorphEffects
<1>6. PersistedIds(o.effects) = stored
  BY <1>4, <1>5, PersistedFromPresence
<1>7. stored # {} => Render \in o.effects
  BY <1>4, <1>5, PresenceEffectsAsk
<1>8. stored = {} <=> ~SightingChanges(s.devices, d, ip)
  BY DEF SightingPersists
<1>9. QED
  BY <1>1, <1>3, <1>4, <1>6, <1>7, <1>8 DEF o, devices, mood, xp, IsNew,
     SightedMood, SightedXp

\* What a completed sweep makes of the state.
LEMMA StepSweepFields ==
  ASSUME NEW s, IsState(s),
         \A d \in DOMAIN s.devices :
           s.devices[d].sightedThisSweep => s.devices[d].presence = Present
  PROVE  LET o       == StepSweepComplete(s)
             swept   == OnSweepComplete(s.devices)
             stored  == SweepPersists(s.devices)
             present == {d \in DOMAIN swept : swept[d].presence = Present}
         IN  /\ IsState(o.state)
             /\ o.state.devices = swept
             /\ o.state.mood =
                  IF \E d \in stored : swept[d].presence = Gone
                  THEN OnDeviceGone(s.mood)
                  ELSE OnSweepSettled(s.mood, Cardinality(present), Cardinality(DOMAIN swept))
             /\ o.state.xp = s.xp
             /\ o.state.achievements = s.achievements \cup Earned(o.state)
             /\ PersistedIds(o.effects) = stored
             /\ stored # {} \/ o.state.mood.mood # s.mood.mood => Render \in o.effects
<1> DEFINE swept   == OnSweepComplete(s.devices)
           stored  == SweepPersists(s.devices)
           present == {d \in DOMAIN swept : swept[d].presence = Present}
           mood    == IF \E d \in stored : swept[d].presence = Gone
                      THEN OnDeviceGone(s.mood)
                      ELSE OnSweepSettled(s.mood, Cardinality(present), Cardinality(DOMAIN swept))
           t       == [s EXCEPT !.devices = swept, !.mood = mood]
           effects == PresenceEffects(stored) \cup SettledRender(s.mood, mood)
<1>1. StepSweepComplete(s) = Evaluate(t, effects)
  BY DEF StepSweepComplete
<1>2. IsTable(swept, Device) /\ mood \in MoodState
  BY SweptTable, MoodTypes DEF IsState
<1> HIDE DEF mood, swept, stored, effects
<1>3. /\ IsState(t)
      /\ t.devices = swept /\ t.mood = mood /\ t.xp = s.xp /\ t.achievements = s.achievements
  BY <1>2 DEF IsState
<1> HIDE DEF t
<1> DEFINE o == Evaluate(t, effects)
<1>4. /\ IsState(o.state)
      /\ o.state.devices = t.devices /\ o.state.mood = t.mood
      /\ o.state.xp = t.xp /\ o.state.vendors = t.vendors
      /\ o.state.achievements = t.achievements \cup Earned(o.state)
      /\ effects \subseteq o.effects
      /\ \A fx \in o.effects \ effects : fx.type = "AchievementUnlocked"
  BY <1>3, EvaluateFields
<1> HIDE DEF o
<1>5. /\ PresenceEffects(stored) \subseteq effects
      /\ \A fx \in effects \ PresenceEffects(stored) : fx.type = "Render"
      /\ mood.mood # s.mood.mood => Render \in effects
  BY EffectTypes DEF effects, SettledRender
<1>6. PersistedIds(o.effects) = stored
  BY <1>4, <1>5, PersistedFromPresence
<1>7. stored # {} \/ mood.mood # s.mood.mood => Render \in o.effects
  BY <1>4, <1>5, PresenceEffectsAsk
<1>8. QED
  BY <1>1, <1>3, <1>4, <1>6, <1>7 DEF o, mood, swept, stored

\* A slash command leaves presence alone, always renders and persists nothing.
LEMMA StepSlashFields ==
  ASSUME NEW s, IsState(s), NEW command, NEW at \in Int
  PROVE  LET o   == StepSlashCommand(s, command, at)
             fed == command = "Feed" /\ FeedAccepted(s.xp, at)
         IN  /\ IsState(o.state)
             /\ o.state.devices = s.devices
             /\ o.state.mood = IF fed THEN OnFed(s.mood) ELSE s.mood
             /\ o.state.xp = IF fed THEN OnFeed(s.xp, at) ELSE s.xp
             /\ o.state.achievements = s.achievements \cup Earned(o.state)
             /\ PersistedIds(o.effects) = {}
             /\ Render \in o.effects
<1> DEFINE fed     == command = "Feed" /\ FeedAccepted(s.xp, at)
           xp      == IF command = "Feed" THEN OnFeed(s.xp, at) ELSE s.xp
           mood    == IF fed THEN OnFed(s.mood) ELSE s.mood
           t       == [s EXCEPT !.xp = xp, !.mood = mood]
           effects == {Render} \cup MorphEffects(s.xp, xp)
<1>1. StepSlashCommand(s, command, at) = Evaluate(t, effects)
  BY DEF StepSlashCommand, IsState
<1>2. /\ xp \in XpState /\ mood \in MoodState
      /\ xp = IF fed THEN OnFeed(s.xp, at) ELSE s.xp
  BY FeedFields, MoodTypes DEF IsState
<1> HIDE DEF mood, xp, effects, fed
<1>3. /\ IsState(t)
      /\ t.devices = s.devices /\ t.mood = mood /\ t.xp = xp /\ t.achievements = s.achievements
  BY <1>2 DEF IsState
<1> HIDE DEF t
<1> DEFINE o == Evaluate(t, effects)
<1>4. /\ IsState(o.state)
      /\ o.state.devices = t.devices /\ o.state.mood = t.mood
      /\ o.state.xp = t.xp /\ o.state.vendors = t.vendors
      /\ o.state.achievements = t.achievements \cup Earned(o.state)
      /\ effects \subseteq o.effects
      /\ \A fx \in o.effects \ effects : fx.type = "AchievementUnlocked"
  BY <1>3, EvaluateFields
<1> HIDE DEF o
<1>5. /\ Render \in effects
      /\ \A fx \in effects : fx.type # "Persist"
  BY EffectTypes DEF effects, MorphEffects
<1>6. PersistedIds(o.effects) = {}
  BY <1>4, <1>5 DEF PersistedIds
<1>7. QED
  BY <1>1, <1>2, <1>3, <1>4, <1>5, <1>6 DEF o, mood, fed
=============================================================================
