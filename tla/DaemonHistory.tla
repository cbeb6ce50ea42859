---------------------------- MODULE DaemonHistory ----------------------------
(***************************************************************************)
(* Daemon with a history variable: when each device was heard and missed   *)
(* over all runs of the daemon, which the program does not keep and the    *)
(* properties below compare it with.                                       *)
(***************************************************************************)
EXTENDS Daemon

\* heardAt: when each device was last heard, and heardThisRun those heard since
\* the last start; heard: the devices heard in the sweep in progress, which a
\* start begins anew; silent: the sweeps completed since a device was last heard
\* in one, up to MissLimit; forgotten: the devices forgotten and not heard since;
\* calm: the sweeps in a row after which every known device was Present, counted
\* up to NightWatchStreak.
VARIABLE history

hvars == <<vars, history>>

NoHistory ==
  [heardAt      |-> [d \in DeviceIds |-> None],
   heardThisRun |-> {},
   heard        |-> {},
   silent       |-> [d \in DeviceIds |-> 0],
   forgotten    |-> {},
   calm         |-> 0]

Heard(d, at) ==
  history' = [history EXCEPT !.heardAt[d] = at,
                             !.heardThisRun = @ \cup {d},
                             !.heard = @ \cup {d},
                             !.silent[d] = 0,
                             !.forgotten = @ \ {d}]

SweepOver(devices) ==
  history' = [history EXCEPT
    !.heard  = {},
    !.silent = [d \in DeviceIds |-> IF d \in history.heard \/ @[d] = MissLimit
                                    THEN @[d] ELSE @[d] + 1],
    !.calm   = IF \/ DOMAIN devices = {}
                  \/ \E d \in DOMAIN devices : devices[d].presence # Present
               THEN 0
               ELSE IF @ = NightWatchStreak THEN @ ELSE @ + 1]

Forgotten(d) == history' = [history EXCEPT !.forgotten = @ \cup {d}]

Started == history' = [history EXCEPT !.heard = {}, !.heardThisRun = {}]

HInit == Init /\ history = NoHistory

HNext ==
  \/ Start /\ Started
  \/ \E d \in DeviceIds, ip \in Ips \cup {None}, lag \in 0 .. MaxLag :
       lag <= now /\ NetSighting(d, ip, now - lag) /\ Heard(d, now - lag)
  \/ NetSweepComplete /\ SweepOver(st'.devices)
  \/ CrashDuringPersist /\ SweepOver(OnSweepComplete(st.devices))
  \/ \E d \in DeviceIds : Forget(d) /\ Forgotten(d)
  \/ /\ \/ Stop \/ Reaction \/ RenderTick \/ MaintenanceTick \/ HeartbeatTick \/ Tick
        \/ \E command \in Commands : Slash(command)
        \/ \E user \in Users : HomeOpened(user)
        \/ \E d \in DeviceIds, label \in Labels : Rename(d, label)
     /\ UNCHANGED history

HSpec == HInit /\ [][HNext]_hvars

-----------------------------------------------------------------------------
(* A device is never held to have missed more sweeps than completed since   *)
(* it was last heard, over restarts and half-written sweeps: in particular  *)
(* a restart never makes one Gone early, in memory or in the table.         *)
NeverGoneEarly ==
  /\ \A d \in DOMAIN st.devices :
       Silence(st.devices[d].presence) <= history.silent[d]
  /\ \A d \in DOMAIN rows : Silence(rows[d].presence) <= history.silent[d]

(* "Deletes devices that have been Gone for longer than older_than_secs"    *)
(* (maintenance.rs): a device that pruning removes, known as it is by still *)
(* being in memory, has not been heard for longer than PruneGoneAfter.      *)
PruneSparesTheLiving ==
  [][ \A d \in DOMAIN rows \ DOMAIN rows' :
        d \in DOMAIN st'.devices => now - history.heardAt[d] > PruneGoneAfter ]_hvars

(* The same for devices heard in this run of the daemon, whose last_seen    *)
(* the misses before Gone have brought to the table.                        *)
PruneSparesTheHeard ==
  [][ \A d \in (DOMAIN rows \ DOMAIN rows') \cap history.heardThisRun :
        d \in DOMAIN st'.devices => now - history.heardAt[d] > PruneGoneAfter ]_hvars

(* Forgetting is "permanent" (devices.rs): a forgotten device is known      *)
(* neither to the daemon nor to the table until it is heard again, whatever *)
(* modals, sweeps and restarts follow.                                      *)
ForgottenStaysForgotten ==
  history.forgotten \cap (DOMAIN st.devices \cup DOMAIN rows) = {}

(* "Everyone stayed present for 5 sweeps straight" (achievements.rs), as in *)
(* Game, now with devices that users forget in between.                     *)
NightWatchEarned ==
  [][ "NightWatch" \in st'.achievements \ st.achievements
        => history'.calm >= NightWatchStreak ]_hvars
==============================================================================
