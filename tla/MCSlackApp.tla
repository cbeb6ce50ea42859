----------------------------- MODULE MCSlackApp -----------------------------
(* SlackApp for TLC: two users and two devices, whose ids differ after the  *)
(* first colon and of which the Home tab has room for one; a nickname comes *)
(* before either id.                                                        *)
EXTENDS SlackApp, TLC

CONSTANTS user1, user2, noValue, nick1

MCDeviceIds == {<<"24", "6f">>, <<"24", "70">>}
MCRank == [label \in Labels \cup DeviceIds |->
             IF label = nick1 THEN 0 ELSE IF label = <<"24", "6f">> THEN 1 ELSE 2]
Symmetry == Permutations(Users)
=============================================================================
