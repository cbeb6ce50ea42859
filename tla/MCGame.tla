------------------------------- MODULE MCGame -------------------------------
(* Game for TLC: table numbers scaled down so that every stage, a second    *)
(* feed, Sleepy and Night Watch are all within reach of two devices.        *)
EXTENDS Game, TLC

CONSTANTS d1, d2, ip1, v1, noValue

MCDeviceIds == {d1, d2}
Symmetry    == Permutations(MCDeviceIds)
=============================================================================
