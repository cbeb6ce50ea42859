----------------------------- MODULE MCStartup -----------------------------
(* Startup for TLC: channels as in MCLiveTank, three tables, two lines of   *)
(* vendors, a script of two events, and fewer faults than systemd's starts. *)
EXTENDS Startup

CONSTANTS idA, idB, nameA, noValue

MCRefs == {idA, idB, nameA}
MCIdOf == [r \in Refs |-> IF r = nameA THEN idA ELSE r]
=============================================================================
