---------------------------- MODULE MissTracker ----------------------------
(***************************************************************************)
(* What presence tracking promises, with no presence states and no         *)
(* storage: each known device has the number of completed sweeps since the *)
(* last one it was heard in, counted up to MissLimit, and is given up for  *)
(* gone exactly when that number reaches MissLimit.                        *)
(*                                                                         *)
(* A restart of the daemon may forget misses but never invents one, and    *)
(* neither loses a device nor brings one that is gone back.                *)
(***************************************************************************)
EXTENDS Integers

CONSTANTS DeviceIds, MissLimit

VARIABLES known,    \* the devices ever heard
          silent,   \* [known -> 0 .. MissLimit], missed sweeps in a row
          heard     \* the devices heard since the last completed sweep

vars == <<known, silent, heard>>

Init ==
  /\ known \in SUBSET DeviceIds
  /\ silent \in [known -> 0 .. MissLimit]
  /\ heard = {}

Hear(d) ==
  /\ known' = known \cup {d}
  /\ silent' = [x \in known' |-> IF x = d THEN 0 ELSE silent[x]]
  /\ heard' = heard \cup {d}

EndSweep ==
  /\ silent' = [x \in known |-> IF x \in heard \/ silent[x] = MissLimit
                                THEN silent[x] ELSE silent[x] + 1]
  /\ heard' = {}
  /\ UNCHANGED known

Restart ==
  /\ heard' = {}
  /\ silent' \in [known -> 0 .. MissLimit]
  /\ \A d \in known : /\ silent'[d] <= silent[d]
                      /\ silent'[d] = 0 <=> silent[d] = 0
                      /\ silent'[d] = MissLimit <=> silent[d] = MissLimit
  /\ UNCHANGED known

Next == (\E d \in DeviceIds : Hear(d)) \/ EndSweep \/ Restart

Spec == Init /\ [][Next]_vars
=============================================================================
