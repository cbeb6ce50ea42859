--------------------------- MODULE MCDaemonHistory ---------------------------
(* DaemonHistory for TLC, as MCDaemon.                                      *)
EXTENDS DaemonHistory, TLC

CONSTANTS d1, d2, ip1, v1, user1, user2, nick1, tank, noValue

OneDevice   == {d1}
TwoDevices  == {d1, d2}
OneVendor   == [d \in DeviceIds |-> v1]
Symmetry    == Permutations(DeviceIds)
==============================================================================
