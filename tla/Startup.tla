------------------------------- MODULE Startup -------------------------------
(***************************************************************************)
(* The life of the axolotchid process under systemd: reading the           *)
(* configuration, opening and migrating the database, importing vendors,   *)
(* setting up the live tank (LiveTank, with all its steps), opening the    *)
(* net source, the engine loop with its heartbeat, and every way out       *)
(* (main.rs, axolotchi-store, raw_socket.rs, mock.rs, axolotchid.service). *)
(*                                                                         *)
(* A start goes through its stages one step at a time and may die in each. *)
(* Of the loop there is what bears on the heartbeat and on stopping: net   *)
(* events, arms that await Slack, and the signals.                         *)
(***************************************************************************)
EXTENDS LiveTank, Sequences

CONSTANTS
  Modes,             \* what net_mode, and the rest of the file, may be set to:
                     \* "mock", "hardware", or "invalid" for what is rejected
  InitialMode,       \* at the first start
  HasHardware,       \* built with the feature `hardware`
  Tables,            \* how many tables the migration creates
  Seeds,             \* how many lines of vendors are imported
  ScriptLength,      \* how many events the mock source plays
  StartLimitBurst,   \* of the unit file
  HeartbeatTimeout,  \* HEARTBEAT_TIMEOUT_SECS, in ticks of the heartbeat
  StartFaults,       \* what may go wrong: "open", "import", "socket", "crash"
  MaxFaults,         \* bounds: how often,
  MaxStops           \* and how often the administrator stops the unit

ASSUME StartupAssumption ==
  /\ InitialMode \in Modes /\ Modes \subseteq {"mock", "hardware", "invalid"}
  /\ HasHardware \in BOOLEAN
  /\ {Tables, Seeds, ScriptLength, MaxFaults, MaxStops} \subseteq Nat
  /\ {StartLimitBurst, HeartbeatTimeout} \subseteq Nat \ {0}
  /\ StartFaults \subseteq {"open", "import", "socket", "crash"}

VARIABLES
  unit,       \* systemd: "off", "running", "restarting", "failed", or "exited"
              \* after an exit nobody asked for and nobody calls a failure
  recent,     \* systemd: starts that count against StartLimitBurst
  mode,       \* the configuration file
  stage,      \* how far the process has come, or "down"
  done,       \* steps of this stage taken: statements, lines, script events
  tables, version,   \* the database: tables there are, and user_version
  vendors,    \* the database: lines of vendors it has
  sockets,    \* raw sockets that are open
  arm,        \* the loop is choosing, or an arm awaits Slack
  quiet,      \* ticks since the last net event was taken
  stalled,    \* scanner_stalled
  silent,     \* nothing comes from the LAN: the interface is down
  past        \* for properties: faults and stops so far; whether a process has
              \* died among the statements of the migration, and the last one gave
              \* up importing; of the starts that count, whether one was rejected,
              \* and how many processes a fault or a stop has ended

unitVars   == <<unit, recent>>
dbVars     == <<tables, version, vendors>>
loopVars   == <<arm, quiet, stalled>>
svars == <<vars, unitVars, mode, stage, done, dbVars, sockets, loopVars, silent, past>>

SInit ==
  /\ Init
  /\ unit = "off" /\ recent = 0
  /\ mode = InitialMode
  /\ stage = "down" /\ done = 0
  /\ tables = 0 /\ version = 0 /\ vendors = 0
  /\ sockets = {}
  /\ arm = "choosing" /\ quiet = 0 /\ stalled = FALSE
  /\ silent = FALSE
  /\ past = [faults |-> 0, stops |-> 0, torn |-> FALSE,
             unimported |-> FALSE, rejected |-> FALSE, ended |-> 0]

May(fault) == fault \in StartFaults /\ past.faults < MaxFaults

-----------------------------------------------------------------------------
(* systemd and the administrator *)

Launch(starts) ==
  /\ unit' = "running" /\ recent' = starts
  /\ stage' = "config"
  /\ UNCHANGED <<vars, mode, done, dbVars, sockets, loopVars, silent>>

\* systemctl start, and the start at boot: they count like any other start.
AdminStart ==
  /\ unit \in {"off", "exited"} /\ recent < StartLimitBurst
  /\ Launch(recent + 1)
  /\ UNCHANGED past

\* Restart=on-failure
Restart ==
  /\ unit = "restarting" /\ recent < StartLimitBurst
  /\ Launch(recent + 1)
  /\ UNCHANGED past

\* StartLimitBurst starts within StartLimitIntervalSec and no more.
TooManyStarts ==
  /\ recent = StartLimitBurst
  /\ unit' = "failed"
  /\ UNCHANGED <<vars, recent, mode, stage, done, dbVars, sockets, loopVars, silent, past>>

\* The restart is refused, or the start that the administrator asks for.
GiveUp       == unit = "restarting" /\ TooManyStarts
StartRefused == unit \in {"off", "exited"} /\ TooManyStarts

\* The starts so far no longer count.
StartsForgotten ==
  /\ recent' = 0
  /\ past' = [past EXCEPT !.rejected = FALSE, !.ended = 0]
  /\ UNCHANGED <<vars, mode, stage, done, dbVars, sockets, loopVars, silent>>

\* The interval is over.  Of the starts that end by themselves that takes one that
\* got to the loop: the others are over, and tried again, within the interval.
IntervalPasses ==
  /\ stage = "loop" \/ unit \in {"off", "exited"}
  /\ recent > 0
  /\ StartsForgotten
  /\ UNCHANGED unit

\* systemctl reset-failed, a reboot, or the end of the interval, after which a unit
\* that failed can be started like one that is off.
ResetFailed ==
  /\ unit = "failed"
  /\ unit' = "off"
  /\ StartsForgotten

\* The file is edited while the daemon is not running.
EditConfig ==
  /\ stage = "down"
  /\ \/ Reconfigure /\ UNCHANGED mode
     \/ mode' \in Modes \ {mode} /\ UNCHANGED vars
  /\ UNCHANGED <<unitVars, stage, done, dbVars, sockets, loopVars, silent, past>>

Flap ==
  /\ silent' = ~silent
  /\ UNCHANGED <<vars, unitVars, mode, stage, done, dbVars, sockets, loopVars, past>>

\* The end of the process: the kernel closes what it had open.
Exit(as) ==
  /\ unit' = as
  /\ Die
  /\ stage' = "down" /\ done' = 0
  /\ sockets' = {}
  /\ arm' = "choosing" /\ quiet' = 0 /\ stalled' = FALSE

\* Mutant of Fail: main returns, and systemd sees no failure.
FailAsSuccess == Exit("exited")

\* process::exit(1)
Fail == Exit("restarting")

-----------------------------------------------------------------------------
(* main and run, up to the loop *)

GoTo(next) == stage' = next /\ done' = 0 /\ UNCHANGED <<sockets, loopVars>>
Stay       == UNCHANGED <<stage, sockets, loopVars>>
Proceed    == UNCHANGED <<unitVars, mode, silent>>
Fault      == past' = [past EXCEPT !.faults = @ + 1, !.ended = @ + 1]
Rejected   == past' = [past EXCEPT !.rejected = TRUE]

\* load_config: a missing token, or hardware mode without its settings.
LoadConfig ==
  /\ stage = "config"
  /\ IF mode = "invalid" THEN Fail /\ Rejected
     ELSE GoTo("open") /\ UNCHANGED <<unit, vars, past>>
  /\ UNCHANGED <<recent, mode, dbVars, silent>>

\* Connection::open and the journal mode.
OpenDatabase ==
  /\ stage = "open"
  /\ \/ GoTo("migrate") /\ UNCHANGED <<unit, vars, past>>
     \/ May("open") /\ Fail /\ Fault
  /\ UNCHANGED <<recent, mode, dbVars, silent>>

\* Mutants of Migrated: every start runs the migration; a table is taken for the
\* whole schema.
MigratedNever == FALSE
MigratedIfAnyTable == tables > 0

\* apply has nothing to do.
Migrated == version = 1

SkipMigration ==
  /\ stage = "migrate" /\ Migrated
  /\ GoTo("import")
  /\ Proceed
  /\ UNCHANGED <<vars, dbVars, past>>

\* The next CREATE TABLE of execute_batch, which is committed by itself.
CreateTable ==
  /\ stage = "migrate" /\ ~Migrated
  /\ done < Tables /\ tables = done
  /\ tables' = tables + 1
  /\ done' = done + 1
  /\ Stay /\ Proceed
  /\ UNCHANGED <<vars, version, vendors, past>>

\* The table is there already: apply fails, and with it open.
TableExists ==
  /\ stage = "migrate" /\ ~Migrated
  /\ done < Tables /\ tables > done
  /\ Fail
  /\ UNCHANGED <<recent, mode, dbVars, silent, past>>

BumpVersion ==
  /\ stage = "migrate" /\ ~Migrated
  /\ done = Tables
  /\ version' = 1
  /\ GoTo("import") /\ Proceed
  /\ UNCHANGED <<vars, tables, vendors, past>>

\* import_oui: one upsert per line, from the first line at every start; a
\* failure ends the import and nothing else.
ImportLine ==
  /\ stage = "import" /\ done < Seeds
  /\ \/ /\ done' = done + 1
        /\ vendors' = IF vendors > done THEN vendors ELSE done + 1
        /\ Stay /\ UNCHANGED past
     \/ /\ May("import")
        /\ GoTo("tank")
        /\ past' = [past EXCEPT !.faults = @ + 1, !.unimported = TRUE]
        /\ UNCHANGED vendors
  /\ Proceed
  /\ UNCHANGED <<vars, tables, version>>

EndImport ==
  /\ stage = "import" /\ done = Seeds
  /\ GoTo("tank") /\ Proceed
  /\ past' = [past EXCEPT !.unimported = FALSE]
  /\ UNCHANGED <<vars, dbVars>>

\* setup_live_tank, from its first step to its last.
SetUpTank ==
  /\ stage = "tank"
  /\ Begin \/ Post \/ PostFails \/ Pin \/ SaveChannel \/ SaveTs
  /\ Stay /\ Proceed
  /\ UNCHANGED <<done, dbVars, past>>

\* spawn_net_source
SpawnSource ==
  /\ stage = "tank" /\ pc = "loop"
  /\ \/ mode = "mock" /\ GoTo("loop") /\ UNCHANGED <<unit, vars, past>>
     \/ mode = "hardware" /\ HasHardware /\ GoTo("sockets") /\ UNCHANGED <<unit, vars, past>>
     \/ mode = "hardware" /\ ~HasHardware /\ Fail /\ Rejected
  /\ UNCHANGED <<recent, mode, dbVars, silent>>

\* RawSocketTransport::open for the sweep, then for the sniffer: the socket, its
\* interface, its address, promiscuous mode, any of which may fail.
OpenSocket(s) ==
  /\ stage = "sockets"
  /\ sockets = IF s = "sweep" THEN {} ELSE {"sweep"}
  /\ \/ /\ sockets' = sockets \cup {s}
        /\ stage' = IF s = "sniff" THEN "loop" ELSE stage
        /\ UNCHANGED <<unit, vars, done, loopVars, past>>
     \/ May("socket") /\ Fail /\ Fault
  /\ UNCHANGED <<recent, mode, dbVars, silent>>

-----------------------------------------------------------------------------
(* The loop *)

\* The mock source plays its script and ends; on the LAN there is something to
\* hear, if only the ends of sweeps, while the interface is up.
Speaks == IF mode = "mock" THEN done < ScriptLength ELSE ~silent

\* The net arm.
NetEvent ==
  /\ stage = "loop" /\ arm = "choosing" /\ Speaks
  /\ quiet' = 0 /\ stalled' = FALSE
  /\ done' = IF mode = "mock" THEN done + 1 ELSE done
  /\ UNCHANGED <<vars, unitVars, mode, stage, dbVars, sockets, arm, silent, past>>

\* Mutant of Await: any arm counts as activity, and not the net arm alone.
AwaitAsActivity ==
  /\ stage = "loop" /\ arm = "choosing"
  /\ arm' = "awaiting"
  /\ quiet' = 0
  /\ UNCHANGED <<vars, unitVars, mode, stage, done, dbVars, sockets, stalled, silent, past>>

\* An arm that calls Slack, and its end.
Await ==
  /\ stage = "loop" /\ arm = "choosing"
  /\ arm' = "awaiting"
  /\ UNCHANGED <<vars, unitVars, mode, stage, done, dbVars, sockets, quiet, stalled, silent, past>>

Answered ==
  /\ arm = "awaiting"
  /\ arm' = "choosing"
  /\ UNCHANGED <<vars, unitVars, mode, stage, done, dbVars, sockets, quiet, stalled, silent, past>>

Tick ==
  /\ stage = "loop" /\ quiet <= HeartbeatTimeout
  /\ quiet' = quiet + 1
  /\ UNCHANGED <<vars, unitVars, mode, stage, done, dbVars, sockets, arm, stalled, silent, past>>

Heartbeat ==
  /\ stage = "loop" /\ arm = "choosing"
  /\ quiet > HeartbeatTimeout /\ ~stalled
  /\ stalled' = TRUE
  /\ UNCHANGED <<vars, unitVars, mode, stage, done, dbVars, sockets, arm, quiet, silent, past>>

\* systemctl stop.  The signal has its default action before the loop installs a
\* handler; an arm that is not over in TimeoutStopSec is killed.
AdminStop ==
  /\ unit = "running" /\ past.stops < MaxStops
  /\ Exit("off")
  /\ past' = [past EXCEPT !.stops = @ + 1, !.ended = @ + 1,
                           !.torn = @ \/ (stage = "migrate" /\ done > 0)]
  /\ UNCHANGED <<recent, mode, dbVars, silent>>

\* A crash, or a loss of power.
Crash ==
  /\ stage # "down" /\ May("crash")
  /\ Fail
  /\ past' = [past EXCEPT !.faults = @ + 1, !.ended = @ + 1,
                           !.torn = @ \/ (stage = "migrate" /\ done > 0)]
  /\ UNCHANGED <<recent, mode, dbVars, silent>>

-----------------------------------------------------------------------------
Startable == LoadConfig \/ OpenDatabase \/ SkipMigration \/ CreateTable \/ TableExists
             \/ BumpVersion \/ ImportLine \/ EndImport \/ SetUpTank \/ SpawnSource
             \/ \E s \in {"sweep", "sniff"} : OpenSocket(s)

SNext ==
  \/ AdminStart \/ Restart \/ GiveUp \/ StartRefused \/ IntervalPasses \/ ResetFailed
  \/ EditConfig \/ Flap
  \/ LoadConfig \/ OpenDatabase
  \/ SkipMigration \/ CreateTable \/ TableExists \/ BumpVersion
  \/ ImportLine \/ EndImport
  \/ SetUpTank
  \/ SpawnSource \/ \E s \in {"sweep", "sniff"} : OpenSocket(s)
  \/ NetEvent \/ Await \/ Answered \/ Tick \/ Heartbeat
  \/ AdminStop \/ Crash

SSpec == SInit /\ [][SNext]_svars

\* A start goes on, systemd restarts and gives up, calls to Slack end, time
\* passes, and select! picks among the ready arms at random.
SFairSpec ==
  /\ SSpec
  /\ WF_svars(Startable) /\ WF_svars(Restart \/ GiveUp)
  /\ WF_svars(Answered) /\ WF_svars(Tick) /\ SF_svars(Heartbeat)

-----------------------------------------------------------------------------
(* The stages, what is open in each, and the live tank of LiveTank.         *)
StartupOK ==
  /\ TypeOK
  /\ unit \in {"off", "running", "restarting", "failed", "exited"}
  /\ unit = "running" <=> stage # "down"
  /\ recent \in 0 .. StartLimitBurst
  /\ tables \in 0 .. Tables /\ version \in 0 .. 1 /\ vendors \in 0 .. Seeds
  /\ sockets \subseteq {"sweep", "sniff"}
  /\ stage = "down" => pc = "down" /\ sockets = {} /\ ~stalled

(* Whatever earlier starts left behind, a process that gets past opening    *)
(* the database has all its tables, one in the loop also the vendors of the *)
(* seed list, unless importing them failed in this start, and in hardware   *)
(* mode both its sockets (migrations.rs:30-40, main.rs:649-656).            *)
LoopHasWhatItNeeds ==
  /\ stage \in {"import", "tank", "sockets", "loop"} => version = 1 /\ tables = Tables
  /\ stage = "loop" => /\ past.unimported \/ vendors = Seeds
                       /\ mode = "hardware" => sockets = {"sweep", "sniff"}

(* "Applies any migrations in MIGRATIONS that haven't run against this      *)
(* connection yet" (migrations.rs): no start finds a table it is about to   *)
(* create.                                                                  *)
MigrationsRunOnce == [][~TableExists]_svars

(* The same as far as the code keeps it: a start that finds one comes after *)
(* a process that died between the tables and user_version.                 *)
MigrationsRunOnceUnlessTorn == [][TableExists => past.torn]_svars

(* systemd refuses to start the daemon for a reason: a torn database, a     *)
(* configuration or build that cannot start, or as many processes ended by  *)
(* a fault or a stop as the limit allows starts within its interval, where  *)
(* starts by hand count like restarts (axolotchid.service:6-7).  No process *)
(* ends in any other way, whatever it was doing when the end came.          *)
GivesUpForAReason ==
  unit = "failed" => past.torn \/ past.rejected \/ past.ended >= StartLimitBurst

(* Every start ends in the loop, by being stopped, or by systemd giving up: *)
(* failing calls, writes, opens and crashes on the way are survived, and no *)
(* failure is reported as success, which would end the restarts.            *)
StartsEnd ==
  unit \in {"running", "restarting"} ~> stage = "loop" \/ unit \in {"off", "failed"}

(* In the loop, a source that has gone silent for good is found out by the  *)
(* heartbeat, however busy the other arms are; that goes for the mock       *)
(* source too, once its script is over (main.rs:829-840).                   *)
StallIsNoticed ==
  <>[](stage = "loop") => []<><<NetEvent>>_svars \/ <>[]stalled

(* "so normal quiet periods never trip it" (main.rs): of the mock source,   *)
(* whose script is short, and over soon after every start.                  *)
QuietDemoIsNoStall == mode = "mock" => ~stalled
=============================================================================
