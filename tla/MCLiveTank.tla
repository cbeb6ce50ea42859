----------------------------- MODULE MCLiveTank -----------------------------
(* LiveTank for TLC: two channels given by id, one of them also by name.    *)
EXTENDS LiveTank

CONSTANTS idA, idB, nameA, noValue

MCRefs == {idA, idB, nameA}
MCIdOf == [r \in Refs |-> IF r = nameA THEN idA ELSE r]
=============================================================================
