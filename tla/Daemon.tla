------------------------------- MODULE Daemon -------------------------------
(***************************************************************************)
(* axolotchid: the engine loop of main.rs around axolotchi_core::step, the *)
(* SQLite tables it keeps, the Home tabs and the live-tank message it      *)
(* draws, and the ways it stops and starts again.                          *)
(*                                                                         *)
(* The loop is one task: a select! arm runs to its end before another is   *)
(* chosen, whatever it awaits, so each arm is one action.  A crash falls   *)
(* between two arms, or between two writes of the same arm.  Time passes   *)
(* between arms only.  DaemonHistory adds what properties need to remember *)
(* and the program does not.                                               *)
(***************************************************************************)
EXTENDS Core

CONSTANTS
  Users,             \* Slack users who may open the Home tab
  Tank,              \* stands for the live-tank message among the views
  HasLiveTank,       \* whether home_channel is configured and was posted
  Labels,            \* nicknames a user may give
  VendorOf,          \* the OUI table: [DeviceIds -> Vendors \cup {None}]
  Catalogue,         \* the vendors that ENTRIES has flavor text for
  PruneGoneAfter,    \* PRUNE_GONE_AFTER_SECS
  HeartbeatTimeout,  \* HEARTBEAT_TIMEOUT_SECS
  Commands,          \* the slash commands users send
  Faults,            \* what may fail: "write", "delete", "load", "publish"
  MaxLag,            \* how old an event may be when the loop takes it
  MaxTime,           \* bounds: the clock stops here,
  MaxStreak,         \* no further sweep completes at this content_streak,
  MaxStarts,         \* the daemon is started so often,
  MaxForgets,        \* so many devices are forgotten
  MaxRenames         \* and so many nicknames given

ASSUME DaemonAssumption ==
  /\ Tank \notin Users
  /\ HasLiveTank \in BOOLEAN
  /\ VendorOf \in [DeviceIds -> Vendors \cup {None}]
  /\ Catalogue \subseteq Vendors
  /\ {PruneGoneAfter, HeartbeatTimeout} \subseteq Nat \ {0}
  /\ Commands \subseteq SlashCommands
  /\ Faults \subseteq {"write", "delete", "load", "publish"}
  /\ {MaxLag, MaxTime, MaxStreak, MaxStarts, MaxForgets, MaxRenames} \subseteq Nat

VARIABLES
  up,               \* the process runs
  st,               \* state, in memory
  renderPending, homeUsers, lastNetEventAt, scannerStalled,  \* the loop's locals
  rows, nicknames,  \* SQLite: `devices`, and the nickname:<id> keys of `kv`
  views,            \* what Slack shows: the last view published to each viewer, if any
  now,              \* the system clock
  met,              \* the devices ever heard, which a modal may be about
  used              \* how much of the bounds is used up

memory  == <<st, renderPending, homeUsers, lastNetEventAt, scannerStalled>>
store   == <<rows, nicknames>>
vars    == <<up, memory, store, views, now, met, used>>

Viewers == Users \cup (IF HasLiveTank THEN {Tank} ELSE {})

-----------------------------------------------------------------------------
(* Views *)

\* device_label: the nickname, or the MAC address for want of one.  A nickname
\* that cannot be read gives the MAC too (main.rs:240); no property of this
\* module looks at labels (Vital), and SlackApp has the reads that fail.
Label(names, d) == IF d \in DOMAIN names THEN names[d] ELSE None

\* netdex::lookup: a vendor's own entry, or the one for everybody else.
DexEntry(vendor) == IF vendor \in Catalogue THEN vendor ELSE None

\* The modal that /axo dex opens: which entries are no silhouettes.
NetdexView(state) == {vendor \in Catalogue : vendor \in state.vendors}

\* home_view_vm, as far as home.rs draws it.
HomeView(state, names) ==
  [mood         |-> state.mood.mood,
   stage        |-> state.xp.stage,
   xp           |-> state.xp.xp,
   devices      |-> [d \in DOMAIN state.devices |->
                       [presence |-> state.devices[d].presence.tag,
                        label    |-> Label(names, d),
                        flavor   |-> DexEntry(VendorOf[d])]],
   achievements |-> Cardinality(state.achievements)]

\* The viewers a debounced render reaches.
Audience == homeUsers \cup (IF HasLiveTank THEN {Tank} ELSE {})

\* A publish that fails is logged and leaves the old view standing.
PublishTo(viewers, state, names) ==
  \E reached \in (IF "publish" \in Faults THEN SUBSET viewers ELSE {viewers}) :
    views' = [v \in DOMAIN views \cup reached |->
                IF v \in reached THEN HomeView(state, names) ELSE views[v]]

-----------------------------------------------------------------------------
(* Start and stop *)

Idle ==   \* what is left of the loop's variables when the process is gone
  /\ st' = FreshState(<<>>)
  /\ renderPending' = FALSE
  /\ homeUsers' = {}
  /\ lastNetEventAt' = 0
  /\ scannerStalled' = FALSE

Init ==
  /\ up = FALSE
  /\ st = FreshState(<<>>)
  /\ renderPending = FALSE
  /\ homeUsers = {}
  /\ lastNetEventAt = 0
  /\ scannerStalled = FALSE
  /\ rows = <<>>
  /\ nicknames = <<>>
  /\ views = <<>>
  /\ now = 0
  /\ met = {}
  /\ used = [starts |-> 0, forgets |-> 0, renames |-> 0]

\* run up to the loop: hydrate, or start with nobody known if that fails, and
\* resume the live tank or, the first time, post it with the current view.
Start ==
  /\ ~up
  /\ used.starts < MaxStarts
  /\ up' = TRUE
  /\ used' = [used EXCEPT !.starts = @ + 1]
  /\ \E devices \in {LoadDevices(rows)} \cup (IF "load" \in Faults THEN {<<>>} ELSE {}) :
       st' = FreshState(devices)
  /\ renderPending' = FALSE
  /\ homeUsers' = {}
  /\ lastNetEventAt' = now
  /\ scannerStalled' = FALSE
  /\ IF HasLiveTank /\ Tank \notin DOMAIN views
     THEN views' = [v \in DOMAIN views \cup {Tank} |->
                      IF v = Tank THEN HomeView(st', nicknames) ELSE views[v]]
     ELSE UNCHANGED views
  /\ UNCHANGED <<store, now, met>>

\* SIGTERM, Ctrl+C or a crash between two arms; the checkpoint that the former
\* add changes no row.
Stop ==
  /\ up
  /\ up' = FALSE
  /\ Idle
  /\ UNCHANGED <<store, views, now, met, used>>

-----------------------------------------------------------------------------
(* The net arm *)

\* persist_effects: a failed upsert is logged and not tried again.
PersistEffects(effects) ==
  \E written \in (IF "write" \in Faults THEN SUBSET PersistedIds(effects)
                  ELSE {PersistedIds(effects)}) :
    rows' = Upsert(rows, st'.devices, written)

\* Mutant of Carry: `=` for `|=`.
CarryForgettingPending(outcome) ==
  /\ st' = outcome.state
  /\ renderPending' = (Render \in outcome.effects)
  /\ PersistEffects(outcome.effects)

\* step, then what every arm does with its outcome.
Carry(outcome) ==
  /\ st' = outcome.state
  /\ renderPending' = (renderPending \/ Render \in outcome.effects)
  /\ PersistEffects(outcome.effects)

NetEventSeen ==
  /\ lastNetEventAt' = now
  /\ scannerStalled' = FALSE

\* The event carries the reading of the clock taken when it was made.
NetSighting(d, ip, at) ==
  /\ up
  /\ NetEventSeen
  /\ Carry(StepSighting(st, d, ip, VendorOf[d], at))
  /\ met' = met \cup {d}
  /\ UNCHANGED <<up, homeUsers, nicknames, views, now, used>>

NetSweepComplete ==
  /\ up
  /\ st.mood.contentStreak < MaxStreak
  /\ NetEventSeen
  /\ Carry(StepSweepComplete(st))
  /\ UNCHANGED <<up, homeUsers, nicknames, views, now, met, used>>

\* The process dies among the upserts of one sweep: some rows are written.
CrashDuringPersist ==
  /\ up
  /\ LET outcome == StepSweepComplete(st)
     IN  \E written \in SUBSET PersistedIds(outcome.effects) :
           rows' = Upsert(rows, outcome.state.devices, written)
  /\ up' = FALSE
  /\ Idle
  /\ UNCHANGED <<nicknames, views, now, met, used>>

-----------------------------------------------------------------------------
(* The slash and interaction arms *)

Slash(command) ==
  /\ up
  /\ Carry(StepSlashCommand(st, command, now))
  /\ UNCHANGED <<up, homeUsers, lastNetEventAt, scannerStalled, nicknames, views, now, met, used>>

\* A fish reaction on the live-tank message feeds as /axo feed does.
Reaction ==
  /\ up /\ HasLiveTank
  /\ Carry(StepSlashCommand(st, "Feed", now))
  /\ UNCHANGED <<up, homeUsers, lastNetEventAt, scannerStalled, nicknames, views, now, met, used>>

HomeOpened(user) ==
  /\ up
  /\ homeUsers' = homeUsers \cup {user}
  /\ PublishTo({user}, st, nicknames)
  /\ UNCHANGED <<up, st, renderPending, lastNetEventAt, scannerStalled, store, now, met, used>>

\* The edit_device modal; it may have been opened before the device went.
Rename(d, label) ==
  /\ up
  /\ d \in met
  /\ used.renames < MaxRenames
  /\ used' = [used EXCEPT !.renames = @ + 1]
  /\ nicknames' = [x \in DOMAIN nicknames \cup {d} |-> IF x = d THEN label ELSE nicknames[x]]
  /\ UNCHANGED <<up, memory, rows, views, now, met>>

\* Mutants of ForgetDevice: only the row goes; only the entry in memory goes.
ForgetRowOnly(d) ==
  /\ rows' = DeleteIds(rows, {d})
  /\ UNCHANGED st
ForgetMemoryOnly(d) ==
  /\ st' = [st EXCEPT !.devices = DeleteIds(@, {d})]
  /\ UNCHANGED rows

\* The forget_device_confirm modal: the row, then the entry in memory.
ForgetDevice(d) ==
  /\ \E deleted \in {{d}} \cup (IF "delete" \in Faults THEN {{}} ELSE {}) :
       rows' = DeleteIds(rows, deleted)
  /\ st' = [st EXCEPT !.devices = DeleteIds(@, {d})]

Forget(d) ==
  /\ up
  /\ d \in met
  /\ used.forgets < MaxForgets
  /\ used' = [used EXCEPT !.forgets = @ + 1]
  /\ ForgetDevice(d)
  /\ UNCHANGED <<up, renderPending, homeUsers, lastNetEventAt, scannerStalled, nicknames, views, now, met>>

-----------------------------------------------------------------------------
(* The ticks *)

\* Mutant of RenderTick: the flag is cleared and only the live tank redrawn.
RenderTickTankOnly ==
  /\ up /\ renderPending
  /\ renderPending' = FALSE
  /\ PublishTo(Audience \ Users, st, nicknames)
  /\ UNCHANGED <<up, st, homeUsers, lastNetEventAt, scannerStalled, store, now, met, used>>

RenderTick ==
  /\ up /\ renderPending
  /\ renderPending' = FALSE
  /\ PublishTo(Audience, st, nicknames)
  /\ UNCHANGED <<up, st, homeUsers, lastNetEventAt, scannerStalled, store, now, met, used>>

\* Mutant of LongGone: any row not refreshed for long enough.
LongUnwritten == {d \in DOMAIN rows : rows[d].lastSeen < now - PruneGoneAfter}

LongGone ==
  {d \in DOMAIN rows : /\ rows[d].presence = Gone
                       /\ rows[d].lastSeen < now - PruneGoneAfter}

\* prune_gone_devices works on the table; memory keeps what it has.
MaintenanceTick ==
  /\ up
  /\ LongGone # {}
  /\ rows' = DeleteIds(rows, LongGone)
  /\ UNCHANGED <<up, memory, nicknames, views, now, met, used>>

HeartbeatTick ==
  /\ up
  /\ now - lastNetEventAt > HeartbeatTimeout
  /\ ~scannerStalled
  /\ scannerStalled' = TRUE
  /\ st' = [st EXCEPT !.mood.mood = "Sleepy"]
  /\ renderPending' = TRUE
  /\ UNCHANGED <<up, homeUsers, lastNetEventAt, store, views, now, met, used>>

Tick ==
  /\ now < MaxTime
  /\ now' = now + 1
  /\ UNCHANGED <<up, memory, store, views, met, used>>

-----------------------------------------------------------------------------

Next ==
  \/ Start \/ Stop \/ CrashDuringPersist
  \/ \E d \in DeviceIds, ip \in Ips \cup {None}, lag \in 0 .. MaxLag :
       lag <= now /\ NetSighting(d, ip, now - lag)
  \/ NetSweepComplete
  \/ \E command \in Commands : Slash(command)
  \/ Reaction
  \/ \E user \in Users : HomeOpened(user)
  \/ \E d \in DeviceIds, label \in Labels : Rename(d, label)
  \/ \E d \in DeviceIds : Forget(d)
  \/ RenderTick \/ MaintenanceTick \/ HeartbeatTick
  \/ Tick

Spec == Init /\ [][Next]_vars

\* The render interval keeps ticking and select! picks among the ready arms at
\* random, so a pending render is not put off for ever.
FairSpec == Spec /\ WF_vars(RenderTick)

-----------------------------------------------------------------------------
(* The state, the tables and the loop's variables are well formed, and a    *)
(* stopped process has nothing in memory.                                   *)
TypeOK ==
  /\ up \in BOOLEAN
  /\ IsState(st)
  /\ \A d \in DOMAIN st.devices :
       st.devices[d].sightedThisSweep => st.devices[d].presence = Present
  /\ IsTable(rows, Row)
  /\ IsTable(nicknames, Labels)
  /\ renderPending \in BOOLEAN /\ scannerStalled \in BOOLEAN
  /\ homeUsers \subseteq Users /\ met \subseteq DeviceIds
  /\ lastNetEventAt \in 0 .. now
  /\ ~up => st = FreshState(<<>>)

(* While every write succeeds, the table has each known device with its     *)
(* address, its presence and, once it is not Present, its last sighting;    *)
(* it lacks only Gone devices that pruning removed, and holds no other,     *)
(* through misses, forgetting, pruning, and crashes between the upserts of  *)
(* one sweep (persist_effects, prune_gone_devices, delete_device).          *)
RowsFollowMemory ==
  up => /\ DOMAIN rows \subseteq DOMAIN st.devices
        /\ \A d \in DOMAIN st.devices :
             IF d \in DOMAIN rows THEN RowTracks(rows[d], st.devices[d])
             ELSE st.devices[d].presence = Gone

(* Netdex progress is "lost across a restart, rebuilt as things happen      *)
(* again" (README.md): the flavor text that the Home tab gives a device     *)
(* sighted in this sweep is no silhouette in the Netdex.                    *)
NetdexRebuilt ==
  \A d \in DOMAIN st.devices :
    st.devices[d].sightedThisSweep
      => DexEntry(VendorOf[d]) \in NetdexView(st) \cup {None}

-----------------------------------------------------------------------------
Current == HomeView(st, nicknames)

(* What every event redraws.  Left out are the achievement count, as a      *)
(* sweep that leaves the mood at Sleepy may unlock Night Watch and renders  *)
(* nothing, and what a modal changes: labels, and devices that were         *)
(* forgotten.                                                               *)
Vital(view) ==
  [mood     |-> view.mood,
   stage    |-> view.stage,
   xp       |-> view.xp,
   presence |-> [d \in DOMAIN view.devices \cap DOMAIN st.devices |->
                   view.devices[d].presence]]

IsCurrent(v) == v \in DOMAIN views /\ Vital(views[v]) = Vital(Current)

(* A resumed live tank keeps the view of the previous run: starting again   *)
(* renders nothing (main.rs:392).                                           *)
Resumed == used.starts > 1 /\ st.mood.mood = "Curious" /\ st.xp.xp = 0

Stale(v) == ~IsCurrent(v) /\ ~(v = Tank /\ Resumed)

(* A view of the Home tab or the live tank that is out of date will be      *)
(* redrawn: whoever the debounced render reaches sees the present mood,     *)
(* stage, XP and presences, or a render is pending, whatever is fed,        *)
(* forgotten, opened or found stalled in between; but for a live tank after *)
(* a restart, which may lag until the mood or the XP moves.                 *)
HomeFreshOrPending ==
  up => renderPending \/ \A v \in Audience : ~Stale(v)

(* An out-of-date Home tab catches up, if the daemon keeps running.         *)
HomeCatchesUp ==
  \A v \in Viewers :
    (up /\ v \in Audience /\ Stale(v)) ~> (~up \/ IsCurrent(v))
=============================================================================
