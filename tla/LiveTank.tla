------------------------------ MODULE LiveTank ------------------------------
(***************************************************************************)
(* setup_live_tank and refresh_live_tank (main.rs): the live-tank message  *)
(* in Slack, the two `kv` keys that remember it, and the daemon that posts *)
(* it once and resumes it after a restart.  Every await and every write of *)
(* the set-up is a step of its own, so the process may die between any two *)
(* of them; each call may also fail, or succeed with its answer lost.      *)
(***************************************************************************)
EXTENDS Integers, FiniteSets

CONSTANTS
  None,             \* Option::None
  Refs,             \* what home_channel may say: a channel id or its name
  IdOf,             \* the id Slack answers for each of them
  InitialRef,       \* home_channel at the first start
  Failures,         \* what may go wrong: "post", "answer", "kv", "crash"
  MaxMessages,      \* bounds: messages ever posted,
  MaxMisreads,      \* failures to read a pair that is saved,
  MaxReconfigs      \* and changes of home_channel

ASSUME LiveTankAssumption ==
  /\ IdOf \in [Refs -> Refs]
  /\ \A r \in Refs : IdOf[IdOf[r]] = IdOf[r]
  /\ None \notin Refs \cup Int \cup [channel : Refs, ts : Int]
  /\ InitialRef \in Refs
  /\ Failures \subseteq {"post", "answer", "kv", "crash"}
  /\ {MaxMessages, MaxMisreads, MaxReconfigs} \subseteq Nat

VARIABLES
  pc,             \* where run is: down, or a step of the set-up, or the loop
  homeChannel,    \* config.home_channel
  posted,         \* (channel, ts) of chat.postMessage, local to the set-up
  liveTank,       \* (channel, ts), or None
  kvChannel, kvTs,    \* live_tank_channel and live_tank_ts
  messages,       \* Slack: the live-tank messages there are
  reconfigs,      \* changes of home_channel so far
  mishaps,        \* for properties: messages posted whose pair was not saved,
                  \* or saved as one no later start takes for home_channel;
  misreads        \* and set-ups that could not read a pair they would resume

kv    == <<kvChannel, kvTs>>
vars  == <<pc, homeChannel, posted, liveTank, kv, messages, reconfigs, mishaps, misreads>>

Message(channel, ts) == [channel |-> channel, ts |-> ts]

Init ==
  /\ pc = "down"
  /\ homeChannel = InitialRef
  /\ posted = None
  /\ liveTank = None
  /\ kvChannel = None /\ kvTs = None
  /\ messages = {}
  /\ reconfigs = 0
  /\ mishaps = 0 /\ misreads = 0

\* The administrator edits config.toml, which a start reads.
Reconfigure ==
  /\ pc = "down"
  /\ reconfigs < MaxReconfigs
  /\ reconfigs' = reconfigs + 1
  /\ homeChannel' \in (Refs \cup {None}) \ {homeChannel}
  /\ UNCHANGED <<pc, posted, liveTank, kv, messages, mishaps, misreads>>

\* Mutants of Resumable: any saved pair will do; half of the pair will do.
ResumableAnywhere == kvChannel # None /\ kvTs # None
ResumableWithoutTs == kvChannel # None /\ kvChannel = homeChannel

Resumable == kvChannel # None /\ kvTs # None /\ kvChannel = homeChannel

\* From the start of setup_live_tank to its first await, or to its return.  Of
\* the two kv_get a failure is taken for a key that was never saved.
Begin ==
  /\ pc = "down"
  /\ \/ homeChannel = None /\ pc' = "loop" /\ UNCHANGED <<liveTank, misreads>>
     \/ /\ homeChannel # None /\ Resumable
        /\ liveTank' = Message(kvChannel, kvTs)
        /\ pc' = "loop"
        /\ UNCHANGED misreads
     \/ /\ homeChannel # None /\ ~Resumable
        /\ pc' = "post"
        /\ UNCHANGED <<liveTank, misreads>>
     \/ /\ homeChannel # None /\ Resumable /\ misreads < MaxMisreads
        /\ misreads' = misreads + 1
        /\ pc' = "post"
        /\ UNCHANGED liveTank
  /\ UNCHANGED <<homeChannel, posted, kv, messages, reconfigs, mishaps>>

\* chat.postMessage, answered.  Slack numbers the message and names the channel.
Post ==
  /\ pc = "post"
  /\ Cardinality(messages) < MaxMessages
  /\ posted' = Message(IdOf[homeChannel], Cardinality(messages) + 1)
  /\ messages' = messages \cup {posted'}
  /\ pc' = "pin"
  /\ UNCHANGED <<homeChannel, liveTank, kv, reconfigs, mishaps, misreads>>

\* The call fails and the daemon goes on without the feature; the message is
\* there nevertheless if it was the answer that got lost.
PostFails ==
  /\ pc = "post"
  /\ \/ "post" \in Failures /\ UNCHANGED <<messages, mishaps>>
     \/ /\ "answer" \in Failures
        /\ Cardinality(messages) < MaxMessages
        /\ messages' = messages \cup {Message(IdOf[homeChannel], Cardinality(messages) + 1)}
        /\ mishaps' = mishaps + 1
  /\ pc' = "loop"
  /\ UNCHANGED <<homeChannel, posted, liveTank, kv, reconfigs, misreads>>

\* pins.add; a failure is logged, and nothing depends on the pin.
Pin ==
  /\ pc = "pin"
  /\ pc' = "saveChannel"
  /\ UNCHANGED <<homeChannel, posted, liveTank, kv, messages, reconfigs, mishaps, misreads>>

\* The two kv_set calls, whose results are discarded.
SaveChannel ==
  /\ pc = "saveChannel"
  /\ \/ kvChannel' = posted.channel
     \/ "kv" \in Failures /\ UNCHANGED kvChannel
  /\ pc' = "saveTs"
  /\ UNCHANGED <<homeChannel, posted, liveTank, kvTs, messages, reconfigs, mishaps, misreads>>

\* Mutant of SaveTs: the pair is used and never saved in full.
SaveTsSkipped ==
  /\ pc = "saveTs"
  /\ liveTank' = posted
  /\ posted' = None
  /\ pc' = "loop"
  /\ UNCHANGED <<homeChannel, kv, messages, reconfigs, mishaps, misreads>>

SaveTs ==
  /\ pc = "saveTs"
  /\ \/ kvTs' = posted.ts
     \/ "kv" \in Failures /\ UNCHANGED kvTs
  /\ mishaps' = IF kvChannel = homeChannel /\ kvTs' = posted.ts
                THEN mishaps ELSE mishaps + 1
  /\ liveTank' = posted
  /\ posted' = None
  /\ pc' = "loop"
  /\ UNCHANGED <<homeChannel, kvChannel, messages, reconfigs, misreads>>

\* What is gone with the process.
Die ==
  /\ mishaps' = IF posted = None THEN mishaps ELSE mishaps + 1
  /\ pc' = "down"
  /\ posted' = None
  /\ liveTank' = None
  /\ UNCHANGED <<homeChannel, kv, messages, reconfigs, misreads>>

\* The process stops: in the loop for any reason, in the set-up by a crash.
Stop ==
  /\ pc # "down"
  /\ pc = "loop" \/ "crash" \in Failures
  /\ Die

Next ==
  \/ Reconfigure \/ Begin \/ Post \/ PostFails \/ Pin \/ SaveChannel \/ SaveTs
  \/ Stop

Spec == Init /\ [][Next]_vars

-----------------------------------------------------------------------------
(* The pair in use and the keys are of their types, and only a set-up that  *)
(* has posted holds a posted pair.                                          *)
Pairs == [channel : Refs, ts : 1 .. MaxMessages]

TypeOK ==
  /\ pc \in {"down", "post", "pin", "saveChannel", "saveTs", "loop"}
  /\ homeChannel \in Refs \cup {None}
  /\ liveTank \in Pairs \cup {None}
  /\ liveTank # None => pc = "loop"
  /\ posted \in Pairs \cup {None}
  /\ posted # None <=> pc \in {"pin", "saveChannel", "saveTs"}
  /\ kvChannel \in Refs \cup {None} /\ kvTs \in 1 .. MaxMessages \cup {None}
  /\ messages \subseteq Pairs

(* Set-up "resumes the one already posted ... if config.home_channel still  *)
(* matches, otherwise posts and pins a fresh one" (main.rs): the pair the   *)
(* loop refreshes is that of a live-tank message there is.                  *)
TankIsAMessage == liveTank # None => liveTank \in messages

(* The same as far as the code keeps it: the pair in use always names the   *)
(* configured channel, and it is that of a real message as long as every    *)
(* set-up that posted one saved a pair that matches home_channel.           *)
TankIsAtHome ==
  liveTank # None => /\ homeChannel # None
                     /\ liveTank.channel = IdOf[homeChannel]
                     /\ mishaps = 0 => liveTank \in messages

(* "a restart resumes updating the same message instead of posting a new    *)
(* one" (README.md), as far as the code does so: each message after the     *)
(* first is due to a change of home_channel; to a set-up that posted a      *)
(* message and did not save a pair that matches home_channel, because it    *)
(* did not get to, or because home_channel is a name and Slack answers ids; *)
(* or to one that could not read the pair saved, which it takes for none.   *)
RepostsHaveACause == Cardinality(messages) <= 1 + mishaps + reconfigs + misreads
=============================================================================
