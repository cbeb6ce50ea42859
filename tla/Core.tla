-------------------------------- MODULE Core --------------------------------
(***************************************************************************)
(* axolotchi_core::step: one event against the whole game state, giving    *)
(* the next state and the effects the caller has to carry out.  Operators  *)
(* only; Game drives them alone, Daemon from the engine loop.              *)
(*                                                                         *)
(* The table numbers (XP amounts, stage floors, cooldown, thresholds) are  *)
(* constants, so that an instance can reach what takes weeks on the Pi.    *)
(***************************************************************************)
EXTENDS DeviceTable, FiniteSets

CONSTANTS Vendors,                    \* vendor names a sighting may resolve to
          IdleSweepsUntilSleepy,
          XpNewDevice, XpFeed, FeedCooldownSecs,
          JuvenileXp, AdultXp, ElderXp,     \* the floors of from_xp
          NetworkDetectiveThreshold, NightWatchStreak

ASSUME CoreAssumption ==
  /\ {IdleSweepsUntilSleepy, XpNewDevice, XpFeed, FeedCooldownSecs} \subseteq Nat \ {0}
  /\ {NetworkDetectiveThreshold, NightWatchStreak} \subseteq Nat \ {0}
  /\ {JuvenileXp, AdultXp, ElderXp} \subseteq Nat
  /\ 0 < JuvenileXp /\ JuvenileXp < AdultXp /\ AdultXp < ElderXp
  /\ None \notin Vendors

ASSUME DeviceIdsAssumption == IsFiniteSet(DeviceIds)   \* 48 bits each

Moods        == {"Sleepy", "Alert", "Lonely", "Curious", "Happy", "Content"}
Stages       == {"Hatchling", "Juvenile", "Adult", "Elder"}
Achievements == {"FirstContact", "NetworkDetective", "Guardian", "NightWatch"}

MoodState == [mood : Moods, idleSweeps : Nat, contentStreak : Nat]
XpState   == [xp : Nat, stage : Stages, lastFed : Int \cup {None}]

IsState(st) ==
  /\ DOMAIN st = {"devices", "mood", "xp", "achievements", "vendors"}
  /\ IsTable(st.devices, Device)
  /\ st.mood \in MoodState
  /\ st.xp \in XpState
  /\ st.achievements \subseteq Achievements
  /\ st.vendors \subseteq Vendors

\* State::default, but for the devices.
FreshState(devices) ==
  [devices      |-> devices,
   mood         |-> [mood |-> "Curious", idleSweeps |-> 0, contentStreak |-> 0],
   xp           |-> [xp |-> 0, stage |-> "Hatchling", lastFed |-> None],
   achievements |-> {},
   vendors      |-> {}]

-----------------------------------------------------------------------------
(* Effects *)

Persist(d)             == [type |-> "Persist", device |-> d]
Render                 == [type |-> "Render"]
Morph(stage)           == [type |-> "Morph", stage |-> stage]
AchievementUnlocked(a) == [type |-> "AchievementUnlocked", achievement |-> a]

PresenceEffects(ids) ==
  {Persist(d) : d \in ids} \cup (IF ids = {} THEN {} ELSE {Render})

PersistedIds(effects) == {fx.device : fx \in {e \in effects : e.type = "Persist"}}

-----------------------------------------------------------------------------
(* Mood *)

\* Mutant of OnDeviceJoinedOrReturned: the streak survives a return.
ReturnKeepsStreak(m) == [m EXCEPT !.mood = "Curious", !.idleSweeps = 0]

OnDeviceJoinedOrReturned(m) ==
  [mood |-> "Curious", idleSweeps |-> 0, contentStreak |-> 0]

OnDeviceGone(m) == [mood |-> "Alert", idleSweeps |-> 0, contentStreak |-> 0]

OnFed(m) == [m EXCEPT !.mood = "Happy", !.idleSweeps = 0]

\* Mutant of OnSweepSettled: a missed check-in does not count as an absence.
SettledIgnoringMisses(m, present, known) ==
  IF present = 0
  THEN [mood |-> "Lonely", idleSweeps |-> 0, contentStreak |-> 0]
  ELSE [mood |-> IF m.idleSweeps + 1 >= IdleSweepsUntilSleepy THEN "Sleepy" ELSE "Content",
        idleSweeps |-> m.idleSweeps + 1,
        contentStreak |-> m.contentStreak + 1]

OnSweepSettled(m, present, known) ==
  IF present = 0
  THEN [mood |-> "Lonely", idleSweeps |-> 0, contentStreak |-> 0]
  ELSE IF present # known THEN m
  ELSE [mood |-> IF m.idleSweeps + 1 >= IdleSweepsUntilSleepy THEN "Sleepy" ELSE "Content",
        idleSweeps |-> m.idleSweeps + 1,
        contentStreak |-> m.contentStreak + 1]

-----------------------------------------------------------------------------
(* Experience *)

FromXp(xp) ==
  CASE xp < JuvenileXp                     -> "Hatchling"
    [] JuvenileXp <= xp /\ xp < AdultXp    -> "Juvenile"
    [] AdultXp <= xp /\ xp < ElderXp       -> "Adult"
    [] ElderXp <= xp                       -> "Elder"

Gain(x, amount) ==
  [x EXCEPT !.xp = @ + amount, !.stage = FromXp(x.xp + amount)]

MorphEffects(before, after) ==
  IF after.stage = before.stage THEN {} ELSE {Morph(after.stage)}

\* Mutant of FeedAccepted: any later second will do.
FeedAcceptedNextSecond(x, at) == x.lastFed = None \/ at > x.lastFed

FeedAccepted(x, at) == x.lastFed = None \/ at - x.lastFed >= FeedCooldownSecs

OnFeed(x, at) ==
  IF FeedAccepted(x, at) THEN Gain([x EXCEPT !.lastFed = at], XpFeed) ELSE x

-----------------------------------------------------------------------------
(* Achievements *)

IsUnlocked(a, st) ==
  CASE a = "FirstContact"     -> DOMAIN st.devices # {}
    [] a = "NetworkDetective" -> Cardinality(DOMAIN st.devices) >= NetworkDetectiveThreshold
    [] a = "Guardian"         -> st.xp.stage \in {"Adult", "Elder"}
    [] a = "NightWatch"       -> st.mood.contentStreak >= NightWatchStreak

\* The end of step: unlock what now holds and report it with the effects.
Evaluate(st, effects) ==
  LET unlocked == {a \in Achievements \ st.achievements : IsUnlocked(a, st)}
  IN  [state   |-> [st EXCEPT !.achievements = @ \cup unlocked],
       effects |-> effects \cup {AchievementUnlocked(a) : a \in unlocked}]

-----------------------------------------------------------------------------
(* step, by kind of event *)

\* Mutant of IsNew: a device is greeted again after it was gone.
IsNewAfterGone(devices, d) == d \notin DOMAIN devices \/ devices[d].presence = Gone

IsNew(devices, d) == d \notin DOMAIN devices

StepSighting(st, d, ip, vendor, at) ==
  LET isNew  == IsNew(st.devices, d)
      stored == SightingPersists(st.devices, d, ip)
      xp     == IF isNew THEN Gain(st.xp, XpNewDevice) ELSE st.xp
  IN  Evaluate(
        [st EXCEPT !.devices = OnSighting(@, d, ip, at),
                   !.mood    = IF stored = {} THEN @ ELSE OnDeviceJoinedOrReturned(@),
                   !.vendors = IF isNew THEN @ \cup ({vendor} \ {None}) ELSE @,
                   !.xp      = xp],
        PresenceEffects(stored) \cup MorphEffects(st.xp, xp))

\* Mutant of SettledRender: a mood that settles is not drawn.
SettledRenderNever(before, after) == {}

SettledRender(before, after) == IF after.mood = before.mood THEN {} ELSE {Render}

StepSweepComplete(st) ==
  LET swept   == OnSweepComplete(st.devices)
      stored  == SweepPersists(st.devices)
      present == {d \in DOMAIN swept : swept[d].presence = Present}
      mood    == IF \E d \in stored : swept[d].presence = Gone
                 THEN OnDeviceGone(st.mood)
                 ELSE OnSweepSettled(st.mood, Cardinality(present),
                                     Cardinality(DOMAIN swept))
  IN  Evaluate([st EXCEPT !.devices = swept, !.mood = mood],
               PresenceEffects(stored) \cup SettledRender(st.mood, mood))

\* who, stats and dex change nothing and render all the same.
SlashCommands == {"Who", "Feed", "Stats", "Dex"}

StepSlashCommand(st, command, at) ==
  LET fed == command = "Feed" /\ FeedAccepted(st.xp, at)
      xp  == IF command = "Feed" THEN OnFeed(st.xp, at) ELSE st.xp
  IN  Evaluate([st EXCEPT !.xp = xp, !.mood = IF fed THEN OnFed(@) ELSE @],
               {Render} \cup MorphEffects(st.xp, xp))
=============================================================================
