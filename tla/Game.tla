-------------------------------- MODULE Game --------------------------------
(***************************************************************************)
(* The game alone: axolotchi_core::step applied to any sequence of events, *)
(* starting from any hydrated device table, with nobody else touching the  *)
(* state.  What the doc comments of mood.rs, xp.rs and achievements.rs     *)
(* promise is stated here against histories the program does not keep.     *)
(***************************************************************************)
EXTENDS Core

CONSTANTS MaxTime,     \* the clock stops here
          MaxStreak    \* no further sweep completes at this content_streak

ASSUME GameAssumption == MaxTime \in Nat /\ MaxStreak \in Nat

VARIABLES st,          \* State
          effects,     \* the effects of the last event
          now,         \* the system clock
          history      \* for properties only, see below

vars == <<st, effects, now, history>>

\* inherited: devices known at the start; met: devices known so far; feeds:
\* feeds accepted so far; calm: completed sweeps in a row after which every
\* known device was Present, counted up to NightWatchStreak.
NoHistory(devices) ==
  [inherited |-> DOMAIN devices, met |-> DOMAIN devices, feeds |-> 0, calm |-> 0]

Everyone(devices, presence) == \A d \in DOMAIN devices : devices[d].presence = presence

Init ==
  /\ \E stored \in SUBSET DeviceIds :
       \E rows \in [stored -> [presence : Presence, ip : {None}, lastSeen : {0}]] :
         /\ \A d \in stored : rows[d].presence.missed <= 1
         /\ st = FreshState(LoadDevices(rows))
  /\ effects = {}
  /\ now = 0
  /\ history = NoHistory(st.devices)

Apply(outcome) == st' = outcome.state /\ effects' = outcome.effects

Sighting(d, ip, vendor) ==
  /\ Apply(StepSighting(st, d, ip, vendor, now))
  /\ history' = [history EXCEPT !.met = @ \cup {d}]
  /\ UNCHANGED now

SweepComplete ==
  /\ st.mood.contentStreak < MaxStreak
  /\ Apply(StepSweepComplete(st))
  /\ history' = [history EXCEPT !.calm =
       IF DOMAIN st'.devices = {} \/ ~Everyone(st'.devices, Present) THEN 0
       ELSE IF @ = NightWatchStreak THEN @ ELSE @ + 1]
  /\ UNCHANGED now

Slash(command) ==
  /\ Apply(StepSlashCommand(st, command, now))
  /\ history' = [history EXCEPT !.feeds = IF st'.xp.xp > st.xp.xp THEN @ + 1 ELSE @]
  /\ UNCHANGED now

Tick ==
  /\ now < MaxTime
  /\ now' = now + 1
  /\ effects' = {}
  /\ UNCHANGED <<st, history>>

Next ==
  \/ \E d \in DeviceIds, ip \in Ips \cup {None}, vendor \in Vendors \cup {None} :
       Sighting(d, ip, vendor)
  \/ SweepComplete
  \/ \E command \in SlashCommands : Slash(command)
  \/ Tick

Spec == Init /\ [][Next]_vars

-----------------------------------------------------------------------------
(* The state is well formed, and a sweep in progress has sighted only       *)
(* devices that are Present.                                                *)
TypeOK ==
  /\ IsState(st)
  /\ \A d \in DOMAIN st.devices :
       st.devices[d].sightedThisSweep => st.devices[d].presence = Present
  /\ now \in 0 .. MaxTime

(* "Everyone stayed present for 5 sweeps straight" (achievements.rs): Night *)
(* Watch is unlocked only when every known device was Present after each of *)
(* the last NightWatchStreak sweeps, however misses, returns, newcomers and *)
(* feeds fell between them.                                                 *)
NightWatchEarned ==
  [][ "NightWatch" \in st'.achievements \ st.achievements
        => history'.calm >= NightWatchStreak ]_vars

(* Experience comes from each device once, "never seen before", and from    *)
(* feeds spaced by the cooldown (xp.rs): the total is accounted for, the    *)
(* number of feeds is bounded by the time passed whatever the commands, and *)
(* the stage is the one the total has reached.                              *)
XpIsEarned ==
  /\ st.xp.xp = XpNewDevice * Cardinality(history.met \ history.inherited)
                  + XpFeed * history.feeds
  /\ history.feeds <= 1 + now \div FeedCooldownSecs
  /\ st.xp.stage = FromXp(st.xp.xp)

(* The mood agrees with who is there although it is only ever set by the    *)
(* last event (mood.rs): Lonely means nobody is Present, Content and Sleepy *)
(* that nobody is Gone and somebody is known, and a streak of calm sweeps   *)
(* is never shorter than the idle sweeps it contains.                       *)
MoodTellsPresence ==
  /\ st.mood.mood = "Lonely" =>
       \A d \in DOMAIN st.devices : st.devices[d].presence # Present
  /\ st.mood.mood \in {"Content", "Sleepy"} \/ st.mood.contentStreak > 0 =>
       /\ DOMAIN st.devices # {}
       /\ \A d \in DOMAIN st.devices : st.devices[d].presence # Gone
  /\ st.mood.idleSweeps <= st.mood.contentStreak

(* Every change of mood, stage, XP or presence, which is what the Home tab  *)
(* and the live tank draw besides the achievement count, comes with Render. *)
Drawn(s) ==
  <<s.mood.mood, s.xp.stage, s.xp.xp,
    [d \in DOMAIN s.devices |-> s.devices[d].presence.tag]>>

ChangesAreRendered == [][ Drawn(st') # Drawn(st) => Render \in effects' ]_vars
=============================================================================
