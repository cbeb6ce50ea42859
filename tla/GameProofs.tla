----------------------------- MODULE GameProofs -----------------------------
(***************************************************************************)
(* Proofs about Game, for every set of devices and every table of numbers: *)
(* any sequence of events keeps the state well formed, the mood in         *)
(* agreement with presence, the experience accounted for, Night Watch      *)
(* earned, and every change that is drawn rendered.                        *)
(***************************************************************************)
EXTENDS Game, CoreProofs

-----------------------------------------------------------------------------
(* What an event does to the state, from the lemmas about step *)

LEMMA SightingDoes ==
  ASSUME TypeOK, NEW d \in DeviceIds, NEW ip \in Ips \cup {None},
         NEW vendor \in Vendors \cup {None}, Sighting(d, ip, vendor)
  PROVE  /\ IsState(st')
         /\ DOMAIN st'.devices = DOMAIN st.devices \cup {d}
         /\ st'.devices[d].presence = Present /\ st'.devices[d].sightedThisSweep
         /\ \A x \in DOMAIN st.devices \ {d} : st'.devices[x] = st.devices[x]
         /\ IF d \in DOMAIN st.devices
            THEN st'.xp = st.xp ELSE st'.xp = Gain(st.xp, XpNewDevice)
         /\ \/ st'.mood = OnDeviceJoinedOrReturned(st.mood) /\ Render \in effects'
            \/ /\ d \in DOMAIN st.devices /\ st.devices[d].presence = Present
               /\ st'.mood = st.mood
         /\ st'.achievements = st.achievements \cup Earned(st)'
<1> DEFINE o == StepSighting(st, d, ip, vendor, now)
<1>1. IsState(st) /\ now \in Int
  BY DEF TypeOK
<1>2. st' = o.state /\ effects' = o.effects
  BY DEF Sighting, Apply
<1>3. /\ IsState(o.state)
      /\ o.state.devices = OnSighting(st.devices, d, ip, now)
      /\ o.state.achievements = st.achievements \cup Earned(o.state)
      /\ o.state.mood = SightedMood(st, d, ip)
      /\ o.state.xp = SightedXp(st, d)
  BY <1>1, StepSightingFields
<1>4. SightingPersists(st.devices, d, ip) # {} => Render \in o.effects
  BY <1>1, StepSightingFields
<1> HIDE DEF o
<1>7. /\ SightingPersists(st.devices, d, ip) # {} <=> SightingChanges(st.devices, d, ip)
      /\ ~SightingChanges(st.devices, d, ip) =>
           d \in DOMAIN st.devices /\ st.devices[d].presence = Present
  BY DEF SightingPersists, SightingChanges
<1>8. /\ DOMAIN st'.devices = DOMAIN st.devices \cup {d}
      /\ st'.devices[d] = Regrown(st.devices, d, ip, now)
      /\ \A x \in DOMAIN st.devices \ {d} : st'.devices[x] = st.devices[x]
  BY <1>2, <1>3 DEF OnSighting
<1>9. st'.devices[d].presence = Present /\ st'.devices[d].sightedThisSweep
  BY <1>8 DEF Regrown
<1>10. \/ st'.mood = OnDeviceJoinedOrReturned(st.mood) /\ Render \in effects'
       \/ /\ d \in DOMAIN st.devices /\ st.devices[d].presence = Present
          /\ st'.mood = st.mood
  BY <1>2, <1>3, <1>4, <1>7 DEF SightedMood
<1>11. QED
  BY <1>2, <1>3, <1>8, <1>9, <1>10 DEF SightedXp

LEMMA SweepDoes ==
  ASSUME TypeOK, SweepComplete
  PROVE  /\ IsState(st')
         /\ DOMAIN st'.devices = DOMAIN st.devices
         /\ \A d \in DOMAIN st.devices : /\ st.devices[d] \in Device
                                         /\ st'.devices[d] = AfterSweep(st.devices[d])
                                         /\ ~st'.devices[d].sightedThisSweep
         /\ st'.xp = st.xp
         /\ LET stored  == SweepPersists(st.devices)
                present == {d \in DOMAIN st'.devices : st'.devices[d].presence = Present}
            IN  /\ st'.mood = IF \E d \in stored : st'.devices[d].presence = Gone
                              THEN OnDeviceGone(st.mood)
                              ELSE OnSweepSettled(st.mood, Cardinality(present),
                                                  Cardinality(DOMAIN st'.devices))
                /\ stored # {} \/ st'.mood.mood # st.mood.mood => Render \in effects'
         /\ st'.achievements = st.achievements \cup Earned(st)'
<1> DEFINE o     == StepSweepComplete(st)
           swept == OnSweepComplete(st.devices)
<1>1. /\ IsState(st)
      /\ \A d \in DOMAIN st.devices :
           st.devices[d].sightedThisSweep => st.devices[d].presence = Present
  BY DEF TypeOK
<1>2. st' = o.state /\ effects' = o.effects
  BY DEF SweepComplete, Apply
<1>3. /\ DOMAIN swept = DOMAIN st.devices
      /\ \A d \in DOMAIN st.devices : /\ st.devices[d] \in Device
                                      /\ swept[d] = AfterSweep(st.devices[d])
                                      /\ ~swept[d].sightedThisSweep
  BY <1>1, SweptTable DEF IsState
<1> HIDE DEF o, swept
<1>4. o.state.devices = swept
  BY <1>1, StepSweepFields DEF o, swept
<1>5. QED
  BY <1>1, <1>2, <1>3, <1>4, StepSweepFields DEF o, swept

LEMMA SlashDoes ==
  ASSUME TypeOK, NEW command \in SlashCommands, Slash(command)
  PROVE  /\ IsState(st')
         /\ st'.devices = st.devices
         /\ Render \in effects'
         /\ \/ st'.xp = st.xp /\ st'.mood = st.mood
            \/ /\ FeedAccepted(st.xp, now)
               /\ st'.xp.xp = st.xp.xp + XpFeed
               /\ st'.xp.stage = FromXp(st'.xp.xp)
               /\ st'.xp.lastFed = now
               /\ st'.mood = OnFed(st.mood)
         /\ st'.achievements = st.achievements \cup Earned(st)'
<1> DEFINE o   == StepSlashCommand(st, command, now)
           fed == command = "Feed" /\ FeedAccepted(st.xp, now)
<1>1. IsState(st) /\ now \in Int /\ st.xp \in XpState
  BY DEF TypeOK, IsState
<1>2. st' = o.state /\ effects' = o.effects
  BY DEF Slash, Apply
<1>3. /\ IsState(o.state)
      /\ o.state.devices = st.devices
      /\ o.state.mood = IF fed THEN OnFed(st.mood) ELSE st.mood
      /\ o.state.xp = IF fed THEN OnFeed(st.xp, now) ELSE st.xp
      /\ o.state.achievements = st.achievements \cup Earned(o.state)
      /\ Render \in o.effects
  BY <1>1, StepSlashFields
<1>4. FeedAccepted(st.xp, now) => /\ OnFeed(st.xp, now).xp = st.xp.xp + XpFeed
                                  /\ OnFeed(st.xp, now).stage = FromXp(st.xp.xp + XpFeed)
                                  /\ OnFeed(st.xp, now).lastFed = now
  BY <1>1, FeedFields
<1> HIDE DEF o
<1>5. QED
  BY <1>2, <1>3, <1>4

-----------------------------------------------------------------------------
(* Type correctness *)

LEMMA InitState ==
  ASSUME Init
  PROVE  \E stored \in SUBSET DeviceIds :
           \E rows \in [stored -> Row] :
             /\ st = FreshState(LoadDevices(rows))
             /\ history = NoHistory(st.devices)
  BY DEF Init, Row

\* A fresh state is well formed, and no sweep has sighted anybody yet.
LEMMA FreshIsState ==
  ASSUME NEW stored \in SUBSET DeviceIds, NEW rows \in [stored -> Row]
  PROVE  LET devs  == LoadDevices(rows)
             fresh == FreshState(devs)
         IN  /\ IsState(fresh) /\ fresh.devices = devs /\ DOMAIN devs = stored
             /\ \A d \in stored : ~devs[d].sightedThisSweep
<1> DEFINE devs == LoadDevices(rows)
<1>1. IsTable(rows, Row)
  BY DEF IsTable
<1>2. /\ IsTable(devs, Device)
      /\ DOMAIN devs = stored
      /\ \A d \in stored : devs[d] = Hydrate(rows[d])
  BY <1>1, HydratedDevices
<1> HIDE DEF devs
<1>3. IsState(FreshState(devs)) /\ FreshState(devs).devices = devs
  BY <1>2 DEF FreshState, IsState, MoodState, XpState, Moods, Stages
<1>4. QED
  BY <1>2, <1>3, HydratedFields DEF devs

LEMMA InitTypeOK == Init => TypeOK
<1> SUFFICES ASSUME Init PROVE TypeOK
  OBVIOUS
<1>1. PICK stored \in SUBSET DeviceIds :
        \E rows \in [stored -> Row] : st = FreshState(LoadDevices(rows))
  BY InitState
<1>2. /\ IsState(st) /\ DOMAIN st.devices = stored
      /\ \A d \in stored : ~st.devices[d].sightedThisSweep
  BY <1>1, FreshIsState
<1>3. now \in 0 .. MaxTime
  BY GameAssumption DEF Init
<1>4. QED
  BY <1>2, <1>3 DEF TypeOK

LEMMA NextTypeOK == TypeOK /\ [Next]_vars => TypeOK'
<1> SUFFICES ASSUME TypeOK, [Next]_vars PROVE TypeOK'
  OBVIOUS
<1>1. ASSUME NEW d \in DeviceIds, NEW ip \in Ips \cup {None},
             NEW vendor \in Vendors \cup {None}, Sighting(d, ip, vendor)
      PROVE  TypeOK'
  <2>1. now' = now
    BY <1>1 DEF Sighting
  <2>2. QED
    BY <1>1, <2>1, SightingDoes DEF TypeOK
<1>2. CASE SweepComplete
  <2>1. now' = now
    BY <1>2 DEF SweepComplete
  <2>2. QED
    BY <1>2, <2>1, SweepDoes DEF TypeOK
<1>3. ASSUME NEW command \in SlashCommands, Slash(command) PROVE TypeOK'
  <2>1. now' = now
    BY <1>3 DEF Slash
  <2>2. QED
    BY <1>3, <2>1, SlashDoes DEF TypeOK
<1>4. CASE Tick
  BY <1>4, GameAssumption DEF Tick, TypeOK
<1>5. CASE UNCHANGED vars
  BY <1>5 DEF vars, TypeOK
<1>6. QED
  BY <1>1, <1>2, <1>3, <1>4, <1>5 DEF Next

(* The state stays well formed under every sequence of events.              *)
THEOREM StateIsWellFormed == Spec => []TypeOK
<1>1. QED
  BY InitTypeOK, NextTypeOK, PTL DEF Spec

-----------------------------------------------------------------------------
(* Mood and presence *)

\* A device that is Present after a sweep was Present before it.
LEMMA PresentWasPresent ==
  ASSUME TypeOK, SweepComplete, NEW d \in DOMAIN st.devices,
         st'.devices[d].presence = Present
  PROVE  st.devices[d].presence = Present
<1>1. /\ st.devices[d] \in Device
      /\ st.devices[d].sightedThisSweep => st.devices[d].presence = Present
      /\ AfterSweep(st.devices[d]).presence = Present
  BY SweepDoes DEF TypeOK
<1>2. QED
  BY <1>1, SweptDevice, MissResult DEF Device, TakesMiss

\* A device that a sweep makes Gone is one of those it persists.
LEMMA GoneIsPersisted ==
  ASSUME TypeOK, SweepComplete, NEW d \in DOMAIN st.devices,
         st'.devices[d].presence = Gone, st.devices[d].presence # Gone
  PROVE  d \in SweepPersists(st.devices)
<1>1. /\ st.devices[d] \in Device
      /\ st.devices[d].sightedThisSweep => st.devices[d].presence = Present
      /\ AfterSweep(st.devices[d]).presence = Gone
  BY SweepDoes DEF TypeOK
<1>2. QED
  BY <1>1, SweptDevice DEF SweepPersists

LEMMA InitMood == Init => MoodTellsPresence
<1> SUFFICES ASSUME Init PROVE MoodTellsPresence
  OBVIOUS
<1>1. st.mood = [mood |-> "Curious", idleSweeps |-> 0, contentStreak |-> 0]
  BY InitState DEF FreshState
<1>2. QED
  BY <1>1 DEF MoodTellsPresence

LEMMA NextMood == TypeOK /\ MoodTellsPresence /\ [Next]_vars => MoodTellsPresence'
<1> SUFFICES ASSUME TypeOK, MoodTellsPresence, [Next]_vars PROVE MoodTellsPresence'
  OBVIOUS
<1>1. ASSUME NEW d \in DeviceIds, NEW ip \in Ips \cup {None},
             NEW vendor \in Vendors \cup {None}, Sighting(d, ip, vendor)
      PROVE  MoodTellsPresence'
  <2>1. CASE st'.mood = OnDeviceJoinedOrReturned(st.mood)
    BY <2>1 DEF OnDeviceJoinedOrReturned, MoodTellsPresence
  <2>2. CASE /\ d \in DOMAIN st.devices /\ st.devices[d].presence = Present
             /\ st'.mood = st.mood
    <3>1. /\ DOMAIN st'.devices = DOMAIN st.devices
          /\ \A x \in DOMAIN st.devices : st'.devices[x].presence = st.devices[x].presence
      BY <1>1, <2>2, SightingDoes
    <3>2. QED
      BY <2>2, <3>1 DEF MoodTellsPresence
  <2>3. QED
    BY <1>1, <2>1, <2>2, SightingDoes
<1>2. CASE SweepComplete
  <2> DEFINE present == {d \in DOMAIN st'.devices : st'.devices[d].presence = Present}
             gone    == \E d \in SweepPersists(st.devices) : st'.devices[d].presence = Gone
             settled == OnSweepSettled(st.mood, Cardinality(present),
                                       Cardinality(DOMAIN st'.devices))
  <2>1. /\ DOMAIN st'.devices = DOMAIN st.devices
        /\ st'.mood = IF gone THEN OnDeviceGone(st.mood) ELSE settled
    BY <1>2, SweepDoes
  <2>2. /\ present \in SUBSET DOMAIN st'.devices /\ DOMAIN st'.devices \in SUBSET DeviceIds
        /\ st.mood \in MoodState
    BY <2>1 DEF TypeOK, IsState, IsTable
  <2>3. CASE gone
    BY <2>1, <2>3 DEF OnDeviceGone, MoodTellsPresence
  <2>4. CASE ~gone /\ present = {}
    <3>1. st'.mood = [mood |-> "Lonely", idleSweeps |-> 0, contentStreak |-> 0]
      BY <2>1, <2>2, <2>4, SettledMood
    <3>2. QED
      BY <2>4, <3>1 DEF MoodTellsPresence
  <2>5. CASE ~gone /\ present # {} /\ present # DOMAIN st'.devices
    <3>1. st'.mood = st.mood
      BY <2>1, <2>2, <2>5, SettledMood
    <3>2. st.mood.mood # "Lonely"
      BY <1>2, <2>1, <2>5, PresentWasPresent DEF MoodTellsPresence
    <3>3. (\A d \in DOMAIN st.devices : st.devices[d].presence # Gone) =>
             \A d \in DOMAIN st'.devices : st'.devices[d].presence # Gone
      BY <1>2, <2>1, <2>5, GoneIsPersisted
    <3>4. QED
      BY <2>1, <3>1, <3>2, <3>3 DEF MoodTellsPresence
  <2>6. CASE ~gone /\ present # {} /\ present = DOMAIN st'.devices
    <3>1. /\ st'.mood.mood \in {"Content", "Sleepy"}
          /\ st'.mood.idleSweeps = st.mood.idleSweeps + 1
          /\ st'.mood.contentStreak = st.mood.contentStreak + 1
      <4>1. st'.mood = settled
        BY <2>1, <2>6
      <4> HIDE DEF present
      <4>2. QED
        BY <2>2, <2>6, <4>1, SettledMood
    <3>2. \A d \in DOMAIN st'.devices : st'.devices[d].presence # Gone
      BY <2>6 DEF Present, Gone
    <3>3. QED
      BY <2>2, <2>6, <3>1, <3>2 DEF MoodTellsPresence, MoodState
  <2>7. QED
    BY <2>3, <2>4, <2>5, <2>6
<1>3. ASSUME NEW command \in SlashCommands, Slash(command) PROVE MoodTellsPresence'
  <2>1. st'.devices = st.devices /\ (st'.mood = st.mood \/ st'.mood = OnFed(st.mood))
    BY <1>3, SlashDoes
  <2>2. CASE st'.mood = st.mood
    BY <2>1, <2>2 DEF MoodTellsPresence
  <2>3. CASE st'.mood = OnFed(st.mood)
    <3>1. /\ st'.mood.mood = "Happy" /\ st'.mood.idleSweeps = 0
          /\ st'.mood.contentStreak = st.mood.contentStreak
          /\ st.mood.contentStreak \in Nat
      BY <2>3 DEF OnFed, MoodState, TypeOK, IsState
    <3>2. QED
      BY <2>1, <3>1 DEF MoodTellsPresence
  <2>4. QED
    BY <2>1, <2>2, <2>3
<1>4. CASE Tick
  BY <1>4 DEF Tick, MoodTellsPresence
<1>5. CASE UNCHANGED vars
  BY <1>5 DEF vars, MoodTellsPresence
<1>6. QED
  BY <1>1, <1>2, <1>3, <1>4, <1>5 DEF Next

(* The mood agrees with who is there, although it is only ever set by the   *)
(* last event and most events leave it alone.                               *)
THEOREM MoodAgreesWithPresence == Spec => []MoodTellsPresence
<1>1. QED
  BY StateIsWellFormed, InitMood, NextMood, PTL DEF Spec

-----------------------------------------------------------------------------
(* Experience *)

HistoryState ==
  [inherited : SUBSET DeviceIds, met : SUBSET DeviceIds,
   feeds : Nat, calm : 0 .. NightWatchStreak]

\* The feeds so far are spaced by the cooldown up to the last of them.
FeedsAreSpaced ==
  \/ st.xp.lastFed = None /\ history.feeds = 0
  \/ /\ st.xp.lastFed \in 0 .. now
     /\ (history.feeds - 1) * FeedCooldownSecs <= st.xp.lastFed

\* What makes XpIsEarned inductive: the devices met are the ones known, and
\* the bound on the feeds is kept relative to the last of them.
XpInv ==
  /\ history \in HistoryState
  /\ history.met = DOMAIN st.devices /\ history.inherited \subseteq history.met
  /\ st.xp.xp = XpNewDevice * Cardinality(history.met \ history.inherited)
                  + XpFeed * history.feeds
  /\ st.xp.stage = FromXp(st.xp.xp)
  /\ FeedsAreSpaced

\* Feeds that are at least c seconds apart and fit in a time.
LEMMA FeedsFitInTime ==
  ASSUME NEW feeds \in Nat, NEW time \in Nat, NEW c \in Nat \ {0},
         (feeds - 1) * c <= time
  PROVE  feeds <= 1 + time \div c
  OBVIOUS

LEMMA XpInvSuffices == TypeOK /\ XpInv => XpIsEarned
<1> SUFFICES ASSUME TypeOK, XpInv PROVE XpIsEarned
  OBVIOUS
<1>1. /\ history.feeds \in Nat /\ now \in Nat /\ FeedCooldownSecs \in Nat \ {0}
      /\ (history.feeds - 1) * FeedCooldownSecs <= now
  BY CoreAssumption, GameAssumption DEF TypeOK, XpInv, HistoryState, FeedsAreSpaced
<1>2. history.feeds <= 1 + now \div FeedCooldownSecs
  BY <1>1, FeedsFitInTime
<1>3. QED
  BY <1>2 DEF XpInv, XpIsEarned

LEMMA InitXp == Init => XpInv
<1> SUFFICES ASSUME Init PROVE XpInv
  OBVIOUS
<1>1. PICK stored \in SUBSET DeviceIds :
        \E rows \in [stored -> Row] : /\ st = FreshState(LoadDevices(rows))
                                     /\ history = NoHistory(st.devices)
  BY InitState
<1>2. DOMAIN st.devices = stored
  BY <1>1, FreshIsState
<1>3. st.xp = [xp |-> 0, stage |-> "Hatchling", lastFed |-> None]
  BY <1>1 DEF FreshState
<1>4. history = [inherited |-> stored, met |-> stored, feeds |-> 0, calm |-> 0]
  BY <1>1, <1>2 DEF NoHistory
<1>5. Cardinality(history.met \ history.inherited) = 0
  BY <1>4, FS_EmptySet
<1>6. FromXp(0) = "Hatchling" /\ history \in HistoryState
  BY <1>4, CoreAssumption DEF FromXp, HistoryState
<1>7. QED
  BY <1>2, <1>3, <1>4, <1>5, <1>6, CoreAssumption DEF XpInv, FeedsAreSpaced

LEMMA NextXp == TypeOK /\ XpInv /\ [Next]_vars => XpInv'
<1> SUFFICES ASSUME TypeOK, XpInv, [Next]_vars PROVE XpInv'
  OBVIOUS
<1>0. /\ st.xp \in XpState /\ now \in Nat
      /\ {XpNewDevice, XpFeed, FeedCooldownSecs} \subseteq Nat \ {0}
  BY CoreAssumption, GameAssumption DEF TypeOK, IsState
<1>1. ASSUME NEW d \in DeviceIds, NEW ip \in Ips \cup {None},
             NEW vendor \in Vendors \cup {None}, Sighting(d, ip, vendor)
      PROVE  XpInv'
  <2>1. /\ history' = [history EXCEPT !.met = @ \cup {d}] /\ now' = now
        /\ DOMAIN st'.devices = DOMAIN st.devices \cup {d}
        /\ IF d \in DOMAIN st.devices
           THEN st'.xp = st.xp ELSE st'.xp = Gain(st.xp, XpNewDevice)
    BY <1>1, SightingDoes DEF Sighting
  <2>2. /\ history' \in HistoryState
        /\ history'.met = history.met \cup {d} /\ history'.inherited = history.inherited
        /\ history'.feeds = history.feeds
    BY <2>1 DEF XpInv, HistoryState
  <2>3. CASE d \in DOMAIN st.devices
    <3>1. history.met \cup {d} = history.met
      BY <2>3 DEF XpInv
    <3>2. QED
      BY <2>1, <2>2, <2>3, <3>1 DEF XpInv, FeedsAreSpaced
  <2>4. CASE d \notin DOMAIN st.devices
    <3> DEFINE new == history.met \ history.inherited
    <3>1. /\ history'.met \ history'.inherited = new \cup {d} /\ d \notin new
          /\ IsFiniteSet(new)
      <4>1. d \notin history.met /\ history.inherited \subseteq history.met
        BY <2>4 DEF XpInv
      <4>2. new \subseteq DeviceIds
        BY DEF XpInv, HistoryState
      <4>3. QED
        BY <2>2, <4>1, <4>2, DeviceIdsAssumption, FS_Subset
    <3>2. /\ Cardinality(new) \in Nat
          /\ Cardinality(history'.met \ history'.inherited) = Cardinality(new) + 1
      BY <3>1, FS_AddElement, FS_CardinalityType
    <3>3. /\ st'.xp.xp = st.xp.xp + XpNewDevice /\ st'.xp.stage = FromXp(st'.xp.xp)
          /\ st'.xp.lastFed = st.xp.lastFed
      BY <1>0, <2>1, <2>4, GainFields
    <3>4. /\ history.feeds \in Nat
          /\ st.xp.xp = XpNewDevice * Cardinality(new) + XpFeed * history.feeds
      BY DEF XpInv, HistoryState
    <3>5. st'.xp.xp = XpNewDevice * Cardinality(history'.met \ history'.inherited)
                        + XpFeed * history'.feeds
      BY <1>0, <2>2, <3>2, <3>3, <3>4
    <3>6. QED
      BY <2>1, <2>2, <3>3, <3>5 DEF XpInv, FeedsAreSpaced
  <2>5. QED
    BY <2>3, <2>4
<1>2. CASE SweepComplete
  <2>1. /\ st'.xp = st.xp /\ now' = now /\ DOMAIN st'.devices = DOMAIN st.devices
        /\ history'.inherited = history.inherited /\ history'.met = history.met
        /\ history'.feeds = history.feeds
        /\ history' \in HistoryState
    BY <1>2, SweepDoes, CoreAssumption DEF SweepComplete, XpInv, HistoryState
  <2>2. QED
    BY <2>1 DEF XpInv, FeedsAreSpaced
<1>3. ASSUME NEW command \in SlashCommands, Slash(command) PROVE XpInv'
  <2>1. /\ st'.devices = st.devices /\ now' = now
        /\ history' = [history EXCEPT !.feeds = IF st'.xp.xp > st.xp.xp THEN @ + 1 ELSE @]
    BY <1>3, SlashDoes DEF Slash
  <2>2. CASE st'.xp = st.xp
    <3>1. history' = history
      BY <1>0, <2>1, <2>2 DEF XpState, XpInv, HistoryState
    <3>2. QED
      BY <2>1, <2>2, <3>1 DEF XpInv, FeedsAreSpaced
  <2>3. CASE /\ FeedAccepted(st.xp, now)
             /\ st'.xp.xp = st.xp.xp + XpFeed
             /\ st'.xp.stage = FromXp(st'.xp.xp)
             /\ st'.xp.lastFed = now
    <3>1. /\ history' \in HistoryState /\ history.feeds \in Nat
          /\ history'.feeds = history.feeds + 1
          /\ history'.met = history.met /\ history'.inherited = history.inherited
      BY <1>0, <2>1, <2>3 DEF XpState, XpInv, HistoryState
    <3>2. history.feeds * FeedCooldownSecs <= now
      BY <1>0, <2>3, <3>1, NoneAssumption DEF FeedAccepted, XpInv, FeedsAreSpaced
    <3>3. FeedsAreSpaced'
      BY <1>0, <2>1, <2>3, <3>1, <3>2 DEF FeedsAreSpaced
    <3>4. st'.xp.xp = XpNewDevice * Cardinality(history'.met \ history'.inherited)
                        + XpFeed * history'.feeds
      <4> DEFINE new == history.met \ history.inherited
      <4>1. Cardinality(new) \in Nat
        BY DeviceIdsAssumption, FS_Subset, FS_CardinalityType DEF XpInv, HistoryState
      <4>2. st.xp.xp = XpNewDevice * Cardinality(new) + XpFeed * history.feeds
        BY DEF XpInv
      <4>3. QED
        BY <1>0, <2>3, <3>1, <4>1, <4>2
    <3>5. QED
      BY <2>1, <2>3, <3>1, <3>3, <3>4 DEF XpInv
  <2>4. QED
    BY <1>3, <2>2, <2>3, SlashDoes
<1>4. CASE Tick
  <2>1. now' = now + 1 /\ st' = st /\ history' = history
    BY <1>4 DEF Tick
  <2>2. FeedsAreSpaced'
    BY <1>0, <2>1 DEF XpInv, FeedsAreSpaced
  <2>3. QED
    BY <2>1, <2>2 DEF XpInv
<1>5. CASE UNCHANGED vars
  BY <1>5 DEF vars, XpInv, FeedsAreSpaced
<1>6. QED
  BY <1>1, <1>2, <1>3, <1>4, <1>5 DEF Next

(* The experience is what the newcomers and the spaced feeds have earned,   *)
(* and the stage is the one it has reached.                                 *)
THEOREM ExperienceIsEarned == Spec => []XpIsEarned
<1>1. Spec => []XpInv
  BY StateIsWellFormed, InitXp, NextXp, PTL DEF Spec
<1>2. QED
  BY <1>1, StateIsWellFormed, XpInvSuffices, PTL

-----------------------------------------------------------------------------
(* Night Watch *)

\* What makes NightWatchEarned hold of every step: while everybody is Present
\* the streak has not outgrown the calm sweeps, and no streak that is long
\* enough has been left without its achievement.
NightInv ==
  /\ DOMAIN st.devices # {} /\ Everyone(st.devices, Present) =>
       history.calm = NightWatchStreak \/ st.mood.contentStreak <= history.calm
  /\ st.mood.contentStreak >= NightWatchStreak => "NightWatch" \in st.achievements

\* Every event ends by unlocking what its state has earned.
LEMMA StreakIsUnlocked ==
  ASSUME NEW s, s.mood.contentStreak >= NightWatchStreak
  PROVE  "NightWatch" \in Earned(s)
  BY DEF Earned, Achievements, IsUnlocked

LEMMA InitNight == Init => NightInv
<1> SUFFICES ASSUME Init PROVE NightInv
  OBVIOUS
<1>1. st.mood = [mood |-> "Curious", idleSweeps |-> 0, contentStreak |-> 0]
  BY InitState DEF FreshState
<1>2. history.calm = 0
  BY InitState DEF NoHistory
<1>3. QED
  BY <1>1, <1>2, CoreAssumption DEF NightInv

\* The streak of a sweep that leaves somebody not Present, or that nobody
\* attends, does not grow; that of one that everybody attends has a calm sweep
\* to show for it.
LEMMA CalmSweep ==
  ASSUME TypeOK, XpInv, NightInv, SweepComplete
  PROVE  \/ st'.mood.contentStreak \in {0, st.mood.contentStreak}
            /\ (DOMAIN st'.devices = {} \/ ~Everyone(st'.devices, Present))
         \/ /\ history'.calm \in 0 .. NightWatchStreak
            /\ history'.calm = NightWatchStreak \/ st'.mood.contentStreak <= history'.calm
<1> DEFINE present == {d \in DOMAIN st'.devices : st'.devices[d].presence = Present}
           gone    == \E d \in SweepPersists(st.devices) : st'.devices[d].presence = Gone
           settled == OnSweepSettled(st.mood, Cardinality(present),
                                     Cardinality(DOMAIN st'.devices))
           calm    == DOMAIN st'.devices # {} /\ Everyone(st'.devices, Present)
<1>1. /\ DOMAIN st'.devices = DOMAIN st.devices
      /\ st'.mood = IF gone THEN OnDeviceGone(st.mood) ELSE settled
  BY SweepDoes
<1>2. /\ present \in SUBSET DOMAIN st'.devices /\ DOMAIN st'.devices \in SUBSET DeviceIds
      /\ st.mood \in MoodState
  BY <1>1 DEF TypeOK, IsState, IsTable
<1>3. /\ history.calm \in 0 .. NightWatchStreak
      /\ history'.calm = IF ~calm THEN 0
                         ELSE IF history.calm = NightWatchStreak THEN history.calm
                         ELSE history.calm + 1
  BY DEF SweepComplete, XpInv, HistoryState
<1>4. CASE calm
  <2>1. present = DOMAIN st'.devices /\ present # {}
    BY <1>4 DEF Everyone
  <2>2. ~gone
    BY <1>1, <2>1 DEF SweepPersists, Present, Gone
  <2>3. st'.mood = settled
    BY <1>1, <2>2
  <2> HIDE DEF present
  <2>4. st'.mood.contentStreak = st.mood.contentStreak + 1
    BY <1>2, <2>1, <2>3, SettledMood
  <2>5. DOMAIN st.devices # {} /\ Everyone(st.devices, Present)
    BY <1>1, <1>4, PresentWasPresent DEF Everyone
  <2>6. /\ history.calm = NightWatchStreak \/ st.mood.contentStreak <= history.calm
        /\ st.mood.contentStreak \in Nat /\ NightWatchStreak \in Nat
    BY <1>2, <2>5, CoreAssumption DEF NightInv, MoodState
  <2>7. QED
    BY <1>3, <1>4, <2>4, <2>6
<1>5. CASE ~calm
  <2>1. CASE gone
    BY <1>1, <1>5, <2>1 DEF OnDeviceGone
  <2>2. CASE ~gone
    <3>1. st'.mood = settled
      BY <1>1, <2>2
    <3>2. present = {} \/ present # DOMAIN st'.devices
      BY <1>5 DEF Everyone
    <3> HIDE DEF present
    <3>3. st'.mood.contentStreak = 0 \/ st'.mood = st.mood
      BY <1>2, <3>1, <3>2, SettledMood
    <3>4. QED
      BY <1>5, <3>3
  <2>3. QED
    BY <2>1, <2>2
<1>6. QED
  BY <1>4, <1>5

LEMMA NextNight ==
  TypeOK /\ XpInv /\ NightInv /\ [Next]_vars
    => /\ NightInv'
       /\ "NightWatch" \in st'.achievements \ st.achievements
            => history'.calm >= NightWatchStreak
<1> DEFINE earned == "NightWatch" \in st'.achievements \ st.achievements
                       => history'.calm >= NightWatchStreak
<1> SUFFICES ASSUME TypeOK, XpInv, NightInv, [Next]_vars
             PROVE  NightInv' /\ earned
  OBVIOUS
<1>0. /\ st.mood \in MoodState /\ NightWatchStreak \in Nat \ {0}
      /\ history.calm \in 0 .. NightWatchStreak
  BY CoreAssumption DEF TypeOK, IsState, XpInv, HistoryState
<1>1. ASSUME st'.achievements = st.achievements \cup Earned(st)',
             st'.mood.contentStreak \in {0, st.mood.contentStreak}
      PROVE  earned /\ (st'.mood.contentStreak >= NightWatchStreak =>
                           "NightWatch" \in st'.achievements)
  BY <1>0, <1>1, StreakIsUnlocked DEF NightInv, Earned, IsUnlocked, MoodState
<1>2. ASSUME NEW d \in DeviceIds, NEW ip \in Ips \cup {None},
             NEW vendor \in Vendors \cup {None}, Sighting(d, ip, vendor)
      PROVE  NightInv' /\ earned
  <2>1. /\ st'.achievements = st.achievements \cup Earned(st)'
        /\ history'.calm = history.calm
    BY <1>2, SightingDoes DEF Sighting, XpInv, HistoryState
  <2>2. CASE st'.mood = OnDeviceJoinedOrReturned(st.mood)
    <3>1. st'.mood.contentStreak = 0
      BY <2>2 DEF OnDeviceJoinedOrReturned
    <3>2. QED
      BY <1>0, <1>1, <2>1, <3>1 DEF NightInv
  <2>3. CASE /\ d \in DOMAIN st.devices /\ st.devices[d].presence = Present
             /\ st'.mood = st.mood
    <3>1. /\ DOMAIN st'.devices = DOMAIN st.devices
          /\ \A x \in DOMAIN st.devices : st'.devices[x].presence = st.devices[x].presence
      BY <1>2, <2>3, SightingDoes
    <3>2. QED
      BY <1>1, <2>1, <2>3, <3>1 DEF NightInv, Everyone
  <2>4. QED
    BY <1>2, <2>2, <2>3, SightingDoes
<1>3. CASE SweepComplete
  <2>1. st'.achievements = st.achievements \cup Earned(st)' /\ st'.mood \in MoodState
    BY <1>3, SweepDoes DEF IsState
  <2>2. CASE /\ st'.mood.contentStreak \in {0, st.mood.contentStreak}
             /\ DOMAIN st'.devices = {} \/ ~Everyone(st'.devices, Present)
    BY <1>1, <2>1, <2>2 DEF NightInv
  <2>3. CASE /\ history'.calm \in 0 .. NightWatchStreak
             /\ history'.calm = NightWatchStreak \/ st'.mood.contentStreak <= history'.calm
    <3>1. "NightWatch" \in Earned(st)' => history'.calm >= NightWatchStreak
      BY <1>0, <2>1, <2>3 DEF Earned, IsUnlocked, MoodState
    <3>2. st'.mood.contentStreak >= NightWatchStreak => "NightWatch" \in st'.achievements
      BY <2>1, StreakIsUnlocked
    <3>3. QED
      BY <2>1, <2>3, <3>1, <3>2 DEF NightInv
  <2>4. QED
    BY <1>3, <2>2, <2>3, CalmSweep
<1>4. ASSUME NEW command \in SlashCommands, Slash(command) PROVE NightInv' /\ earned
  <2>1. /\ st'.achievements = st.achievements \cup Earned(st)'
        /\ st'.devices = st.devices /\ history'.calm = history.calm
        /\ st'.mood = st.mood \/ st'.mood = OnFed(st.mood)
    BY <1>4, SlashDoes DEF Slash, XpInv, HistoryState
  <2>2. st'.mood.contentStreak = st.mood.contentStreak
    BY <1>0, <2>1 DEF OnFed, MoodState
  <2>3. QED
    BY <1>1, <2>1, <2>2 DEF NightInv
<1>5. CASE Tick \/ UNCHANGED vars
  BY <1>5 DEF Tick, vars, NightInv
<1>6. QED
  BY <1>2, <1>3, <1>4, <1>5 DEF Next

(* Night Watch comes only after NightWatchStreak sweeps in a row that found *)
(* every known device Present.                                              *)
THEOREM NightWatchIsEarned == Spec => NightWatchEarned
<1>1. Spec => []XpInv
  BY StateIsWellFormed, InitXp, NextXp, PTL DEF Spec
<1>2. Spec => []NightInv
  BY <1>1, StateIsWellFormed, InitNight, NextNight, PTL DEF Spec
<1>3. QED
  BY <1>1, <1>2, StateIsWellFormed, NextNight, PTL DEF Spec, NightWatchEarned

-----------------------------------------------------------------------------
(* Rendering *)

LEMMA NextRendered ==
  TypeOK /\ [Next]_vars => (Drawn(st') # Drawn(st) => Render \in effects')
<1> SUFFICES ASSUME TypeOK, [Next]_vars, Render \notin effects'
             PROVE  Drawn(st') = Drawn(st)
  OBVIOUS
<1>1. ASSUME st'.mood.mood = st.mood.mood, st'.xp = st.xp,
             DOMAIN st'.devices = DOMAIN st.devices,
             \A d \in DOMAIN st.devices :
               st'.devices[d].presence.tag = st.devices[d].presence.tag
      PROVE  Drawn(st') = Drawn(st)
  BY <1>1 DEF Drawn
<1>2. ASSUME NEW d \in DeviceIds, NEW ip \in Ips \cup {None},
             NEW vendor \in Vendors \cup {None}, Sighting(d, ip, vendor)
      PROVE  Drawn(st') = Drawn(st)
  <2>1. /\ d \in DOMAIN st.devices /\ st.devices[d].presence = Present
        /\ st'.mood = st.mood
    BY <1>2, SightingDoes
  <2>2. /\ DOMAIN st'.devices = DOMAIN st.devices /\ st'.xp = st.xp
        /\ \A x \in DOMAIN st.devices : st'.devices[x].presence = st.devices[x].presence
    BY <1>2, <2>1, SightingDoes
  <2>3. QED
    BY <1>1, <2>1, <2>2
<1>3. CASE SweepComplete
  <2>1. /\ DOMAIN st'.devices = DOMAIN st.devices /\ st'.xp = st.xp
        /\ SweepPersists(st.devices) = {} /\ st'.mood.mood = st.mood.mood
        /\ \A d \in DOMAIN st.devices : /\ st.devices[d] \in Device
                                        /\ st'.devices[d] = AfterSweep(st.devices[d])
    BY <1>3, SweepDoes
  <2>2. ASSUME NEW d \in DOMAIN st.devices
        PROVE  st'.devices[d].presence.tag = st.devices[d].presence.tag
    BY <2>1, UnpersistedKeepsTag DEF SweepPersists, TypeOK
  <2>3. QED
    BY <1>1, <2>1, <2>2
<1>4. ASSUME NEW command \in SlashCommands, Slash(command) PROVE Drawn(st') = Drawn(st)
  BY <1>4, SlashDoes
<1>5. CASE Tick \/ UNCHANGED vars
  BY <1>5 DEF Tick, vars
<1>6. QED
  BY <1>2, <1>3, <1>4, <1>5 DEF Next

(* Whatever the Home tab draws of the state changes only with a render.     *)
THEOREM EveryChangeIsRendered == Spec => ChangesAreRendered
<1>1. QED
  BY StateIsWellFormed, NextRendered, PTL DEF Spec, ChangesAreRendered
=============================================================================
