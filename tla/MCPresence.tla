----------------------------- MODULE MCPresence -----------------------------
(* Presence for TLC. The clock readings carry no order here, so two are     *)
(* enough to tell an old last_seen from a new one.                          *)
EXTENDS Presence

CONSTANTS d1, d2, ip1, ip2, noValue

MCDeviceIds  == {d1, d2}
MCIps        == {ip1, ip2}
MCTimestamps == {1, 2}
=============================================================================
