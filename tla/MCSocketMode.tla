---------------------------- MODULE MCSocketMode ----------------------------
(* SocketMode for TLC: two envelopes for one channel, of which one may come *)
(* twice, one for the other, and one that is acknowledged and ignored.      *)
EXTENDS SocketMode

CONSTANTS command, home, reaction, file, noEnvelope

MCEnvelopes == {command, home, reaction, file}
MCContent   == [e \in MCEnvelopes |->
                  CASE e = command  -> "slash_command"
                    [] e = home     -> "app_home_opened"
                    [] e = reaction -> "reaction_to_message"
                    [] e = file     -> "reaction_to_file"]

MCMaxDeliveries == [e \in MCEnvelopes |-> IF e = reaction THEN 2 ELSE 1]
=============================================================================
