------------------------------ MODULE MCDaemon ------------------------------
(* Daemon for TLC. Each configuration opens the inputs its question needs   *)
(* and shuts the others, by giving them no users, commands, labels or       *)
(* faults; the table numbers are scaled down to what two devices reach.     *)
EXTENDS Daemon, TLC

CONSTANTS d1, d2, ip1, v1, user1, user2, nick1, tank, noValue

OneDevice   == {d1}
TwoDevices  == {d1, d2}
OneVendor   == [d \in DeviceIds |-> v1]
Symmetry    == Permutations(DeviceIds)
=============================================================================
