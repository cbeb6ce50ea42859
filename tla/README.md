# A TLA+ model of axolotchi

axolotchi is a LAN pet. A daemon on a Raspberry Pi (`axolotchid`) watches which
devices are on the network, keeps them in SQLite, lets an axolotl's mood,
experience and achievements follow from what it sees, and shows all of it in
Slack: a Home tab per user and one pinned "live tank" message. This directory
has TLA+ modules of that program, TLC configurations that check them, and
theorems that TLAPS proves. Paths below are relative to the repository.

`core/presence.rs` is short for `crates/axolotchi-core/src/presence.rs`, and so
on; `main.rs` is `axolotchid/src/main.rs`.

## The system

| Part | State | Operations | Talks to |
|---|---|---|---|
| Presence (`core/presence.rs`) | `State::devices`: presence `Present / Missed(n) / Gone`, ip, last_seen, sighted_this_sweep | `on_sighting`, `on_sweep_complete`, `hydrate` | called by `step` |
| Game (`core/lib.rs`, `mood.rs`, `xp.rs`, `achievements.rs`) | mood with two counters, xp, stage, last_fed, achievements, vendors | `step` on a sighting, a completed sweep, a slash command | gives effects back to its caller |
| Store (`store/*.rs`) | tables `devices`, `kv`, `oui` | upsert, delete, load, prune, kv_get/set, import | called by the engine loop |
| Engine loop (`main.rs`) | the game state, `render_pending`, `known_home_users`, `last_net_event_at`, `scanner_stalled`, `live_tank` | one `select!` arm each for net events, slash commands, interactions, render tick, maintenance, heartbeat, signals | three bounded channels in; SQLite and the Slack Web API out |
| Live-tank set-up (`main.rs`) | kv keys `live_tank_channel`, `live_tank_ts` | resume, or post, pin and save, at each start | Slack |
| Net sources (`net/*.rs`) | `known_ips`, the frames in flight | ARP sweep cycles, passive sniffer, mock script | send events into the net channel (64) |
| Socket Mode (`slack/socket_mode.rs`, `interactions.rs`) | the connection | reconnect, acknowledge, parse, deliver | send into the slash and interaction channels (32 each) |
| Blocks and modals (`slack/blocks/*.rs`) | none; the values and ids they put into a view come back in interactions | state to JSON | called by the engine loop |
| Start and stop (`main.rs`, `store/lib.rs`, `migrations.rs`, `oui.rs`, `raw_socket.rs`, the systemd unit) | `user_version`, the tables, the open sockets | load_config, open and migrate, import, set-up, spawn; restart and give up | systemd |

The runtime has one thread. A `select!` arm runs to its end, whatever it
awaits, before another is chosen, so arms never interleave with each other; net
sources and Socket Mode run in tasks of their own and only send into channels.

What is hard here, and what the properties aim at (PROJECT.json lists each
hazard at its line):

* only *transitions* are written to disk, so rows lag behind memory on purpose;
  a restart, a crash between two writes or a prune acts on what lags;
* presence, mood, streaks and achievements are event-driven counters, right only
  if every event resets the right ones, in any order;
* views are redrawn by a debounced flag that several arms set and one clears;
* the live-tank message is created by four separate outside effects (post, pin,
  two writes), any of which can fail or be the last thing before a crash;
* a start is a dozen steps on files, tables, sockets and Slack, each of which may
  fail or be the last, under a supervisor that restarts and gives up;
* what users click on was drawn earlier: rows, cards and modals outlive the
  devices they are about, and each other;
* clocks, late events, failing writes and lost answers.

## Modules

| Module | What it is |
|---|---|
| `DeviceTable` | presence rules and device rows as operators (no state) |
| `MissTracker` | abstract specification: count missed sweeps, give up at `MissLimit` |
| `Presence` | memory and table under sightings, sweeps and restarts; refines `MissTracker` |
| `PresenceProofs` | theorems about `Presence` |
| `Core` | `step` with mood, experience, achievements, as operators |
| `CoreProofs` | lemmas about the operators of `DeviceTable` and `Core` that the two below share |
| `Game` | `step` driven by any sequence of events |
| `GameProofs` | theorems about `Game` |
| `Daemon` | the engine loop, the store, the views, stops and starts; uses `Core` |
| `DaemonHistory` | `Daemon` with a history variable that properties compare it with |
| `DaemonProofs` | theorems about both |
| `LiveTank` | `setup_live_tank`, one step per await and per write |
| `Startup` | the process under systemd, from the configuration file to the loop and out again; extends `LiveTank`, whose steps are a stage of a start |
| `StartupProofs` | theorems about `LiveTank`, and about `Startup` with those carried over |
| `SlackApp` | users, Home tabs, modals and interactions against the engine's tables |
| `SlackAppProofs` | theorems about `SlackApp` |
| `Subnet` | the addresses a sweep probes, as operators |
| `Frames` | Ethernet, ARP and IPv4 octet by octet, as operators |
| `Sweep` | the LAN, the ARP sweep, the sniffer, the net channel and the engine that takes from it; uses `Subnet`, `Frames` and `DeviceTable` |
| `SweepProofs` | theorems about `Sweep`, and lemmas about `Subnet` and `Frames` |
| `SocketMode` | connection, acknowledgement and the two Slack channels, between Slack and the engine |
| `SocketModeProofs` | theorems about `SocketMode` |
| `MC*` | instances for TLC: model values, and sets of them |

How they correspond to the code, definition by definition, is the `map` of
PROJECT.json. The conventions:

* A table of devices is a function whose domain is the known ids; a row is the
  record of the stored columns. `(tag, missed)` is both the enum `Presence` and
  the two columns that hold it, since `presence_to_row` and `presence_from_row`
  are inverse on what the daemon writes.
* `Vec<Effect>` becomes a set: the loop only asks which devices to persist and
  whether there is a `Render`, and a sweep has at most one effect per device.
* `last_source`, device ids inside devices, flavour texts, logging and replies
  to slash commands are left out: no decision depends on them.
* The numbers of the program (3 misses, 3 idle sweeps, 10 devices, 5 sweeps,
  10 and 5 XP, 50/200/500 XP, 30 minutes, 30 days, 5 minutes) are constants. The
  instances scale them down and keep their order where order matters: Sleepy
  comes no later than Night Watch, and pruning needs the clock to pass the limit.
* Each arm of the loop is one action with all its effects: `step`, the
  `render_pending` update, every upsert. `Stop` is any stop between arms;
  `CrashDuringPersist` is one among the upserts of a sweep, the only arm with
  more than one write to `devices`.
* An event carries the time at which its source read the clock; in the loop it
  may be up to `MaxLag` old.
* `views` is the last view that was published, for each viewer that one was ever
  published to. Slack shows that until the next publish, also over a restart of the
  daemon. The first start posts the live tank; a later one resumes its message
  without drawing it, so until something renders it may show the run before
  (`Resumed`), and only this excuses a view that is out of date.
* `met` stands for the modals that may still be open: one about any device that
  was ever heard may be submitted at any time, also after the device went.
* Variables `history`, `mishaps`, `misreads` and `effects` (in `Game`) exist for properties.
* A read of a key that fails counts as a key that is not there, `kv_get(..).ok()`: in
  `LiveTank` the pair saved is posted over, in `SlackApp` the MAC is drawn for the
  nickname. `Daemon` leaves it out, where no property looks at labels.
* In `Sweep` a pass of sends is one step, for it awaits nothing, and may stop after any
  of its frames; windows close at any time, whatever is left in the socket. Frames are
  the octets that the codecs of `Frames` make and take apart, and both sockets get every
  frame on the wire; the sweep's own probes in its own socket, which it skips, are left
  out. A device in `Routers` also passes on packets, with its own MAC and the address of
  somebody else (`Forward`). `SweepComplete` carries the devices confirmed, for a
  property; the engine does not look at it.
* In `SocketMode` an envelope is its id; what it holds is a constant, by kind. An
  acknowledgement that is written on a connection already broken at the other end may
  seem to succeed (`Accept`) or fail (`AckFails`). `hanging` says that the client waits
  for a peer that is gone, and may never learn of it (`Hang`). `accepted` is a history:
  what was acknowledged and parsed for each channel in this run, in order.
* In `SlackApp` a device id is the sequence of the parts between its colons, and a
  value `verb:id` the verb before it, so that where a value is split matters.
  Interactions carry `about`, the device of the row that was clicked, which the
  daemon does not see. Presence is reduced to present and gone, and the writes of
  `NetChange` to one; `Daemon` has them in full.
* In `Startup` a stage is left by its last step; `done` counts statements, lines or
  script events within one. The loop is reduced to what bears on the heartbeat
  and on stopping, an arm that awaits Slack being two steps; `Daemon` has what the
  arms do. A configuration file is valid or not. systemd counts starts of both kinds, its
  own and those by hand, and forgets them when the interval has passed or at a reset.
* A definition introduced by "Mutant of" is not part of the model: it is a
  plausible error in the definition that follows it, and the property that
  PROJECT.json pairs it with fails once it takes that definition's place.

## Runs

| Run | Properties | Instance and why it is enough |
|---|---|---|
| `presence` | `TypeOK`, `RowsTrackMemory`, `ImplementsTracker`, `SilentDevicesGo` | 2 devices, 2 addresses and none, 2 times, miss limit 3. Devices do not influence one another here; a limit of 3 has the miss that is not written. No other bound: the space is complete. |
| `game` | `TypeOK`, `XpIsEarned`, `MoodTellsPresence`, `NightWatchEarned`, `ChangesAreRendered` | 2 devices, all commands, 3 seconds with a cooldown of 2, streaks up to 4 with Night Watch at 3 and Sleepy at 2; all four stages are reached. |
| `store` | `TypeOK`, `RowsFollowMemory`, `NeverGoneEarly`, `ForgottenStaysForgotten`, `PruneSparesTheHeard` | 2 devices, miss limit 3, 3 starts, crashes, 1 forget, 1 rename, late events, pruning after 1 s within 2 s. Addresses play no part in these properties and are left out. |
| `home` | `HomeFreshOrPending`, `HomeCatchesUp` | 1 device, 1 user and the live tank, a feed, reactions, a forget, heartbeat, 2 starts (one that posts the live tank, one that resumes it), 2 seconds, streaks of 1 |
| `sweep` | `TypeOK`, `NeverSightsItself`, `ProbesCoverTheSubnet`, `AnsweringCostsNothing`, `SuspectsAreRetried`, `ResidentsAreAsked`, `LeaversGo`, `AddressSettles` | 1 device with 2 addresses that moves once and passes on packets of another host, a network given by one of its hosts, sends and reads that fail, channel and sockets of 1, miss limit 2; addresses of 4 bits, in octets of full width. With room for one, every sender has to wait and every straggler can meet a full buffer; devices meet only in the channel, where the sniffer competes with the sweep already, and the theorems of `SweepProofs` are about any number of them. One move is an arrival, a departure or a change of address, each from any state of sockets and cycle. |
| `socket` | `TypeOK`, `AckedIsKeptInOrder`, `SubmissionsAreHandled` | two envelopes for one channel, of which one may come twice, one for the other and an ignored one, channels of 1, 1 restart; a channel is full as soon as two for it have come |
| `startup` | `StartupOK`, `TankIsAtHome`, `RepostsHaveACause`, `LoopHasWhatItNeeds`, `GivesUpForAReason`, `MigrationsRunOnceUnlessTorn`, `StartsEnd`, `StallIsNoticed` | 3 tables, 2 lines of vendors, a script of 2 events, 2 faults of any kind and 1 stop at any step, starts by hand, 3 starts until systemd gives up, valid and invalid files of both modes, 2 channel ids of which one also by name, 1 change of `home_channel`, 1 failed read of the saved pair, 2 messages. Two faults and a stop are the three that the limit is about; fewer never are. A fault may fall on each pair of steps. |
| `slackapp` | `TypeOK`, `ForgottenStaysForgotten`, `TableTellsTheTruth`, `HomeIsCurrentOrExcused`, `ChangesAreAsked` | 2 users, 2 devices with ids equal up to a colon and a Home tab with room for 1, 6 clicks with 2 on their way at a time (enough to have a card and a modal on it open for a device while another user forgets it), 2 changes from the net, 2 starts, 1 fault of any kind |
| `prune_restart` | `PruneSparesTheLiving`, violated | see Findings |
| `netdex_restart` | `NetdexRebuilt`, violated | see Findings |
| `migration_crash` | `MigrationsRunOnce`, violated | see Findings |
| `forget_completely` | `ForgetsCompletely`, violated | see Findings |

The bounds are all constants: `MaxTime`, `MaxStreak` (no further sweep once
`content_streak` is there), `MaxStarts`, `MaxForgets`, `MaxRenames`, `MaxLag`,
`MaxMessages`, `MaxMisreads`, `MaxReconfigs`, `MaxMoves`, `MaxDeliveries`, `MaxRestarts`,
`MaxFaults`, `MaxStops`, `MaxNetChanges`, `MaxClicks`, `MaxInbox`. Deadlock is not
checked in `Daemon`, `Startup` and `SlackApp`: there the bounds on starts and time
let the model end, and a stopped daemon that nobody starts again is a legal end.

Further configurations, for a reader who wants another question answered:
`MCDaemonFaults.cfg` (module `MCDaemonHistory`) has `ForgottenStaysForgotten` with
failing upserts and loads, and passes; `MCLiveTank.cfg` has the set-up alone with
more messages and changes of channel, and passes. Three end in a counterexample
that is named under Findings: `MCDaemonNightWatch.cfg` (`MCDaemonHistory`),
`MCLiveTankMixed.cfg` (`MCLiveTank`) and `MCStartupQuiet.cfg` (`MCStartup`).

What the passing runs show:

* **Presence.** A device goes `Gone` after exactly `MissLimit` completed sweeps
  without a sighting, and any sighting brings it back (`ImplementsTracker`).
  Restarts may forget misses, never invent one. A device heard only finitely
  often is given up unless the daemon restarts again and again
  (`SilentDevicesGo`).
* **Rows.** Writing only transitions loses nothing a restart needs but the miss
  count beyond the first, and `last_seen` of devices that are `Present`
  (`RowsTrackMemory`, and with forgetting, pruning and half-written sweeps
  `RowsFollowMemory`). No crash makes a device `Gone` early (`NeverGoneEarly`).
  Pruning spares every device that the present run of the daemon heard lately.
* **Forgetting.** A forgotten device is back only when it is heard again, or at a
  start if the delete of its row failed, whatever cards and modals about it are
  still open and submitted by whomever (`ForgottenStaysForgotten`). Failed writes
  and deletes do not add up: the table differs from memory only for devices whose
  own last write failed (`TableTellsTheTruth`).
* **Modals.** No submission changes a device other than the one whose row was
  clicked, though ids contain the separator of values (`ChangesAreAsked`). Between
  renders a Home tab is out of date only by what a submission changed, by a nickname
  that could not be read, or by what a publish failed to show, since the last that
  reached its user (`HomeIsCurrentOrExcused`). None of these three asks for a render.
* **Game.** XP is exactly what new devices and spaced feeds earn; mood never
  contradicts presence, although only events set it; Night Watch needs the calm
  sweeps it names; every change that the Home tab draws comes with a `Render`,
  save the achievement count.
* **Views.** Whoever the render tick reaches sees the current mood, stage, XP
  and presences, or a render is pending, and then will see them.
* **Start.** Whatever earlier starts left, a process that gets past opening has the
  whole schema, one in the loop its vendors (unless this import failed) and both sockets
  (`LoopHasWhatItNeeds`). Every start ends in the loop or in being stopped, or systemd
  gives up (`StartsEnd`), and that has one of three reasons: a torn database, a start
  that cannot succeed, or as many processes ended by faults and stops as it allows
  starts, by hand or its own (`GivesUpForAReason`). A source that is silent for good,
  the mock source after its script included, is found out by the heartbeat
  (`StallIsNoticed`).
* **Live tank.** The message refreshed is in the configured channel; a second
  message always has one of the named causes, a saved pair that could not be read
  among them, over any restarts and reasons for them.
* **Sweep.** A device whose answer was read in either window is `Present` after
  the `SweepComplete` of that cycle, however the sniffer and a full channel
  interleave. Whoever stays on a usable address is asked again and again; whom a
  cycle reported once is never conceded without a direct retry. A device that
  left is given up although old frames of it are read cycles later, and its
  address settles although an older one may arrive after a newer one, unless it keeps
  passing on packets of others: the sniffer takes the source of any IPv4 packet for
  the address of whoever sent the frame, so a router has a new one with each. The
  claims about asking and leaving except an interface that keeps going down. A pass
  of probes goes to the usable addresses but the Pi's own, once each, and to none if
  the prefix is rejected (`ProbesCoverTheSubnet`).
* **Socket Mode.** What was acknowledged and parsed reaches the engine in order
  and unchanged in number within a run of the daemon; the client waiting for
  room in one channel and the engine waiting for anything never block each
  other for good. A submission is handled unless the daemon stops, Slack gives up on
  it, or the client is left hanging on a peer that is gone (`SubmissionsAreHandled`).

## Fairness

`Presence!FairSpec` has weak fairness of `SweepComplete`: `run_arp_sweep` is an
endless loop of cycles with a fixed pause, and a cycle that ends sends
`SweepComplete` (`net/sweep.rs`). Nothing makes a device send, so sightings have
none. `Daemon!FairSpec` has weak fairness of `RenderTick`: the interval ticks
every 3 s, stays ready until polled, and `select!` picks among ready arms at
random. Slack answering a publish is not assumed anywhere but in the `home` run,
where no publish fails; a publish that fails is not retried (see below).
`Sweep!FairSpec`: cycles start after each pause and windows have deadlines (weak
fairness), senders waiting for a channel are served in turn (strong fairness of
`Report` and `Complete`, as the sniffer can take the room in between), and the
loop takes every event. Cycles may fail at any point and for ever, except that
not every first pass does. Nothing makes a device answer.
`Startup!SFairSpec`: the steps of a start are not put off (weak fairness of
`Startable`; the calls of the set-up have no timeout, so this assumes that Slack
answers or the connection breaks), systemd does its part, a call that an arm
awaits ends (`Answered`), time passes, and `select!` picks the heartbeat's arm at
some time if it is ready again and again (strong fairness, as other arms come in
between; the arm is chosen at random).
`SocketMode!FairSpec`: the client's loop, the engine's arms, and Slack sending
what it has while a connection is open; connections may break at any moment, with a
close, an error, or in silence. `run_once` has no read timeout, no ping and no keepalive,
so nothing ends the wait for a peer that is gone: then the client hangs, perhaps for
ever, and `Connect` and `Close` are fair only while it does not.

## Proofs

Each theorem below holds for every value of the constants that the named
assumptions allow; TLC evaluates these on the instances of the runs. The proofs go
alike: type correctness first; then an invariant that is inductive, with a name,
one lemma for what each operator of the model returns, one step per action; then
temporal logic.

### Presence

`PresenceProofs` proves, for every set of devices, addresses and clock readings
and every miss limit of at least one:

* `TypeCorrect`: `Spec => []TypeOK`;
* `RowsFollowMemory`: `Spec => []RowsTrackMemory`;
* `PresenceImplementsTracker`: `Spec => ImplementsTracker`, a refinement.

Assumptions: `MissLimitAssumption`, `NoneAssumption` (`None` is neither an
address nor an integer) and `TimestampsAssumption`.

The inductive invariant is `Tracking`, the conjunction of `TypeOK` and
`RowsTrackMemory`: neither is inductive alone, for a restart builds memory
from the rows, which are well formed only as the image of well-formed devices,
and what an upsert leaves right depends on what memory was. For the refinement,
`silent` is read off the presence (`Missed(n)` is n, `Gone` is `MissLimit`) and
`heard` off the per-sweep flag. A sighting maps to `Hear`, a sweep to `EndSweep`
(or a stutter if nothing is known to miss), a restart to `Restart`: that it may
lower a miss count to 1 but not to 0, and not away from `MissLimit`, is what
`RowsTrackMemory` gives.

### Game

`GameProofs` proves, for any devices, vendors, thresholds and any order of events:

* `StateIsWellFormed`: `Spec => []TypeOK`;
* `MoodAgreesWithPresence`: `Spec => []MoodTellsPresence`;
* `ExperienceIsEarned`: `Spec => []XpIsEarned`;
* `NightWatchIsEarned`: `Spec => NightWatchEarned`;
* `EveryChangeIsRendered`: `Spec => ChangesAreRendered`.

`XpInv` makes the third inductive. `XpIsEarned` bounds the feeds by the whole time
that went by; what a feed preserves is the stronger `FeedsAreSpaced`, which has the
earlier feeds fit before `last_fed`. `NightInv` does so for the fourth: the streak
has not outgrown the calm sweeps *while everybody is `Present`* (a miss suspends it,
so the comparison fails in between), and a streak that is long enough has its
achievement, for otherwise an event of another kind could unlock it. Assumptions:
`CoreAssumption` (the numbers are positive and the stages ascend),
`DeviceIdsAssumption` (ids have 48 bits, so there are finitely many, without which
the devices that earned XP could not be counted) and `GameAssumption`.

### Daemon

`DaemonProofs` proves, for any number of devices, users, starts, crashes and
seconds, events as late as they like, and any bounds:

| Theorem | States | Unless there are faults of kind |
|---|---|---|
| `DaemonIsWellFormed` | `Spec => []TypeOK` | |
| `TableFollowsMemory` | `Spec => []RowsFollowMemory` | `write`, `delete`, `load` |
| `ForgettingIsPermanent` | `HSpec => []ForgottenStaysForgotten` | `delete` |
| `NobodyIsGivenUpEarly` | `HSpec => []NeverGoneEarly` | `write` |
| `PruningWaits` | `HSpec => PruneSparesTheHeard` | `write` |
| `StaleViewsAreRedrawn` | `Spec => []HomeFreshOrPending` | `publish` |

The right column is a hypothesis of the theorem on the constant `Faults`, the kinds
of calls that may fail; it excludes those that the code answers with a line in the
log, and no more. They cannot be dropped: a failed delete leaves the row that the
next start loads, a failed write leaves the row of a device at `Missed` that was
heard again, and the flag for a publish is cleared before it is tried. All other
kinds may happen at any time, and crashes always may.

`DInv` is the type invariant. `RowsTrack` relates each row to memory and `RowsCover`
the sets of both; the second holds only while the daemon is up, the first also in
between, where it says that a row is fit to be read again (a miss count of at most
one). For the properties with history, every step is first reduced to what it does
to devices, rows and history (`HistoryDoes`), whatever else the arm does. Then
`HeardAreSighted` ties the history of a sweep to the flag in memory, so that whoever
is charged a miss really was silent, and `LastSeenIsHeard` ties `last_seen` of this
run to the clock. `ViewsInv` adds to `HomeFreshOrPending` that the live tank has no
view before the first start; then, arm by arm, either nothing that a view draws
changes or a render is pending.

### SlackApp

`SlackAppProofs` proves, for any users, devices, labels, faults and bounds:

* `ForgettingLasts`: `Spec => []ForgottenStaysForgotten`;
* `TableIsTrue`: `Spec => []TableTellsTheTruth`;
* `OnlyWhatIsAsked`: `Spec => ChangesAreAsked`;
* `HomeIsCurrent`: `Spec => []HomeIsCurrentOrExcused`;
* `AppIsWellFormed`: `Spec => []TypeOK`.

The first two go together: `TablesOK` is their conjunction with what a stopped
process has in memory, and neither is inductive alone, as a start turns rows into
memory: it brings back a kept row only because the table has nothing of any other
forgotten device. `MessagesOK` says of every interaction on its way and every
modal on a screen that its id is that of the row clicked; it is inductive because
`SplitOnce` gives back the whole id for any value a row or card sends
(`ValueSplits`), which the assumption that ids are non-empty sequences gives.
`MapsOK` and `ViewsOK` are what the type invariant needs beyond these.

### LiveTank and Startup

`StartupProofs` first proves `TankStaysAtHome` and `NoCauselessRepost` of `LiveTank`
by itself, for any channels, names and failures. The invariant
`TankInv` adds to `TankIsAtHome` what the keys hold: the saved channel is an id,
not a name, and the saved pair is a message as long as there was no mishap
(`KeysOK`); and it counts messages against causes, failed reads among them, with one
to spare for the pair in hand or resumable (`CausesOK`), without which a post could not
be charged. A set-up that is about to post has spent the one to spare: it found no pair
to resume, or could not read it.

Then it proves of `Startup`, for any numbers of tables, seeds, script events, faults and
stops:

* `LoopIsEquipped`: `SSpec => []LoopHasWhatItNeeds`;
* `OnlyTornMigrationsRepeat`: `SSpec => MigrationsRunOnceUnlessTorn`;
* `GivingUpHasAReason`: `SSpec => []GivesUpForAReason`;
* `TankOutlivesTheProcess` and `RestartsPostNothing`: the two theorems of `LiveTank`
  within the whole life of the process;
* `StartupIsWellFormed`: `SSpec => []StartupOK`.

`IInv` relates stage, `done` and database: tables without a version come only from
the statements under way or from a torn migration (`DatabaseOK`), vendors from the
lines done (`VendorsOK`), sockets from the stage (`SocketsOK`); and the starts
that count, by systemd and by hand, are no more than the processes that faults and stops
have ended and the one that runs, unless the database is torn or a start was rejected
(`CountOK`). `EndsOK` is what is left of a process that has ended. For
the theorems about the live tank a step of `Startup` is a step of `LiveTank`, a
`Die` or a stutter (`TankStep`), and `TankInv` is preserved by each.

### SocketMode

`SocketModeProofs` proves, for any envelopes with any contents, delivered any number
of times, channels of any size and any restarts:

* `ClientIsSound`: `Spec => []TypeOK`;
* `NothingAckedIsLost`: `Spec => []AckedIsKeptInOrder`.

`IInv` joins `ClientOK` (the client waits exactly while it holds an envelope that
parses), `ChannelsOK` and `QueueOK`: what was accepted for a channel is what the
engine has taken, then what is in the channel, then what the client waits with,
element by element. The equality of sequences that the run checks follows from it.

### Sweep

`SweepProofs` proves, for any devices, subnet, leases, miss limit and sizes of the
channel and the sockets:

* `SweepIsWellFormed`: `Spec => []TypeOK`;
* `PiIsNoDevice`: `Spec => []NeverSightsItself`;
* `EverySuspectIsAsked`: `Spec => SuspectsAreRetried`;
* `AnswersAreCounted`: `Spec => AnsweringCostsNothing`;
* `SubnetIsProbed`: `Spec => ProbesCoverTheSubnet`.

All but the last rest on what the codecs make of octets. `EthernetRoundTrip` and
`ArpRoundTrip` say that decoding gives back what was encoded, for every MAC, address and
payload. With them `ReplyTells`, `PacketTells`, `CutTells` and `OursTell` say what the
sweep and the sniffer read in each kind of frame that can be on the wire, the cut ones
and our own included. `SInv` then says in `SocketsOK` that nothing else is in the
sockets, so whatever is confirmed or sighted is a device at one of its leases, never the
Pi (`WeAreNoDevice`: its MAC is none of theirs, and a MAC can be read back from its
text). `CycleOK` relates the memories of a cycle: what was ever reported is among
`knownIps`, so whoever is not confirmed is a suspect, and `RetriesReachSuspects` finds
its request in the list.

`AnsweringCostsNothing` spans sweep, sniffer, channel and engine. `HeardInv` says, of
each `SweepComplete` that waits in the channel and of the one a reporting cycle is to
send, that each device it counts on is `Heard` there: a sighting of it is in the channel
before that place with no other `SweepComplete` behind it, or the engine has taken one
since its last `SweepComplete`, and no other is in front. Appending keeps what is in
front; taking a sighting turns the first into the second; and taking a `SweepComplete`
finds nobody whom only the engine remembers, for that one is itself in front.

`SubnetIsProbed` is about the list of probes itself: the addresses in it are those of
`Swept`, and no two of them are equal. An offset below the size of a block is the
remainder of its address (`AddressesOfBlock`), and the network may be any address of the
block; the run has addresses of 4 bits, the program of 32.

Assumptions: `MacAssumption` (ids are the texts of the devices' MACs, and neither the
Pi's nor the broadcast address is one of them), `LeasesAssumption` (leases are addresses
and none is the Pi's), `SourcesAssumption` (what frames tell as their source has 32
bits, a router's packets included), `SweepAssumption`, and `PowersAssumption`: laws of
powers of two, true of any numbers, of which the provers know none.

### Assumptions, and what is only model-checked

All assumptions are the named ones on the constants, stated where these are
declared. The bounds of the model (`MaxTime`, `MaxFaults` and so on) occur in them as
any natural numbers: no theorem depends on how large they are.

Only model-checked are
* the liveness properties (`SilentDevicesGo`, `HomeCatchesUp`, `ResidentsAreAsked`,
  `LeaversGo`, `AddressSettles`, `SubmissionsAreHandled`, `StartsEnd`,
  `StallIsNoticed`), which are out of the prover's reach;
* the properties of the four runs that end in a counterexample, as they are false.

## Findings

Where the code does something else than a text of the repository says; each is
a run that ends in a counterexample.

1. `prune_restart`. A resighting of a `Present` device is not written, so its
   row keeps an old `last_seen`. After a restart the device, silent for
   `miss_limit` sweeps, is `Gone` with that old time, and the next maintenance
   tick deletes it, though it was heard shortly before the restart. The limit of
   30 days then counts from the last *transition*.
2. `netdex_restart`. A vendor is discovered only with a device new to memory;
   after a restart every hydrated device is old, so the Netdex is not "rebuilt as
   things happen again".
3. `migration_crash`. `execute_batch` commits each `CREATE TABLE` by itself and
   `user_version` is raised after the last one. A process that dies in between
   (power cut, `systemctl stop` at the first start) leaves a database that no
   later start can open: the migration runs again, finds its table, and the
   daemon exits until systemd gives up.
4. `forget_completely`. The confirmation promises to forget a device
   "completely"; its nickname stays in `kv` and labels it when it is seen again.

With a configuration of their own, outside the runs:

* `MCDaemonNightWatch.cfg`: a miss suspends the streak behind Night Watch without
  resetting it (a return resets it); forgetting the missing device resumes it,
  where `achievements.rs` says "Everyone stayed present for 5 sweeps straight."
* `MCLiveTankMixed.cfg`: channel and ts are two writes; a crash between them after
  a change of channel leaves a pair that names no message, resumed ever after.
* `MCStartupQuiet.cfg`: the mock source ends its script after seconds, so a demo is
  found stalled after five minutes, though the timeout is chosen "so normal quiet
  periods never trip it".

Seen while modelling, and left without a run: a submitted modal does not ask for
a render; a failed delete brings the device back at the next start; a failed
publish or upsert is not retried; calls to Slack have no timeout of their own,
and a Ctrl+C that comes while an arm awaits one is lost; the Socket Mode client has no
timeout either and may wait for ever on a connection dropped in silence; a read of the
saved pair that fails is taken for none saved, and the message is posted again; a
nickname that cannot be read shows as the MAC until the next render; a router that
passes on packets is shown at the address of whoever sent the last; a
`home_channel` given by name never matches the id saved, so each start posts
again (counted among `mishaps` in `LiveTank`); a device forgotten and seen again
grants its XP again; a sweep that leaves the mood at Sleepy draws nothing even
when it unlocks Night Watch; a subnet that `hosts` rejects is swept as an empty
one, so nobody is asked and everybody not overheard is charged a miss each
cycle; the direct retry knows only devices a sweep confirmed since the start; a
client that waits for room in a channel acknowledges nothing meanwhile, so
"Slack never times out the envelope waiting on us" holds only while neither
channel is full.

## Not modelled

* SQLite and Slack themselves, and the system calls of `raw_socket.rs`. SQLite's
  statements are atomic; Slack keeps the last view published. That a new raw
  socket takes frames of every interface until it is bound is left out with them.
* The lines of the OUI seed file: a constant map from devices to vendors. Importing
  them is in `Startup`, by number.
* Layout, wording and truncation of blocks and replies.
* Quiet hours (written by a handler whose modal nothing opens, and read by
  nothing), alerts (built, never posted), sprites, the sighting ring buffer
  (filled, never read). With no step of the program to set them off, an action
  for them could not be taken.
* The fields of the configuration but for `home_channel` and the mode: a file is
  valid or not.
* JSON: which payload parses into what is a constant of `SocketMode`, and the
  fields an interaction has are those of the record in `SlackApp`.
* In `Sweep`: ARP replies to other hosts' requests,
  a proxy or an unsolicited reply that names the Pi (the sweep skips frames by their
  source and reports the sender inside them), and a daemon that stops.

## Plan

Done: `DeviceTable`, `MissTracker`, `Presence`, `Core`, `Game`, `Daemon`,
`DaemonHistory`, `LiveTank`, `Startup`, `SlackApp`, `SocketMode`, `Subnet`, `Frames` and
`Sweep`, with proofs of every safety and action property that a passing run checks.

Next: that `SlackApp` is what `Daemon` does with interactions: a refinement mapping
that forgets mood, addresses and time.
