----------------------------- MODULE SocketMode -----------------------------
(***************************************************************************)
(* The Socket Mode client of axolotchi-slack (socket_mode.rs and           *)
(* interactions.rs) between Slack, which sends envelopes over a connection *)
(* and sends an envelope again until it is acknowledged, and the engine,   *)
(* which takes commands and interactions from two bounded channels.        *)
(*                                                                         *)
(* The client acknowledges an envelope, then parses it, then waits for     *)
(* room in the channel; while it waits it reads nothing.                   *)
(***************************************************************************)
EXTENDS Integers, Sequences

CONSTANTS Envelopes,      \* envelope ids
          Content,        \* [Envelopes -> Contents]
          None,           \* no envelope
          ChannelSize,    \* of each channel
          MaxDeliveries,  \* [Envelopes -> Nat], bounds how often Slack sends each
          MaxRestarts     \* bound on restarts of the daemon

(***************************************************************************)
(* What an envelope holds, by its `type` and whether its payload parses.   *)
(***************************************************************************)
ParsedCommands     == {"slash_command"}
ParsedInteractions == {"block_actions", "view_submission"}
ParsedEvents       == {"app_home_opened", "reaction_to_message"}
Ignored            == {"slash_command_malformed", "interactive_malformed",
                       "reaction_to_file", "other_event", "disconnect"}
Contents == ParsedCommands \cup ParsedInteractions \cup ParsedEvents \cup Ignored

ASSUME ContentAssumption == Content \in [Envelopes -> Contents]
ASSUME SocketAssumption ==
  /\ None \notin Envelopes
  /\ ChannelSize \in Nat /\ MaxRestarts \in Nat
  /\ MaxDeliveries \in [Envelopes -> Nat]

Channels == {"slash", "interaction"}

Parses(e) == Content[e] \notin Ignored
RouteOf(e) == IF Content[e] \in ParsedCommands THEN "slash" ELSE "interaction"

VARIABLES
  submitted,   \* envelopes that users have caused
  acked,       \* those Slack has an acknowledgement for
  deliveries,  \* [Envelopes -> Nat], how often Slack sent each
  sentHere,    \* sent on this connection, and Slack still waits for the answer
  open,        \* whether the connection is open at Slack's end
  wire,        \* envelopes under way to the client
  ackWire,     \* acknowledgements under way to Slack
  hanging,     \* whether the client awaits an answer or a message from a peer
               \* that is gone and never said so
  pc,          \* the client: sleeping, reading, or waiting for room
  holding,     \* the envelope it waits with
  channel,     \* [Channels -> sequence of envelopes]
  restarts,
  accepted,    \* history of this run of the daemon: what was acknowledged and
               \* parsed for each channel, in order
  taken,       \* history of this run: how many the engine took from a channel
  handled      \* history over all runs: what the engine took

slackVars   == <<submitted, acked, deliveries, sentHere>>
netVars     == <<open, wire, ackWire, hanging>>
historyVars == <<accepted, taken, handled>>
vars == <<slackVars, netVars, pc, holding, channel, restarts, historyVars>>

Init ==
  /\ submitted = {} /\ acked = {} /\ sentHere = {}
  /\ deliveries = [e \in Envelopes |-> 0]
  /\ open = FALSE /\ wire = <<>> /\ ackWire = {} /\ hanging = FALSE
  /\ pc = "sleeping" /\ holding = None
  /\ channel = [c \in Channels |-> <<>>]
  /\ restarts = 0
  /\ accepted = [c \in Channels |-> <<>>] /\ taken = [c \in Channels |-> 0]
  /\ handled = {}

-----------------------------------------------------------------------------
(* Slack and the network *)

Submit(e) ==
  /\ e \notin submitted
  /\ submitted' = submitted \cup {e}
  /\ UNCHANGED <<acked, deliveries, sentHere, netVars, pc, holding, channel, restarts, historyVars>>

Deliver(e) ==
  /\ open
  /\ e \in submitted \ (acked \cup sentHere)
  /\ deliveries[e] < MaxDeliveries[e]
  /\ deliveries' = [deliveries EXCEPT ![e] = @ + 1]
  /\ sentHere' = sentHere \cup {e}
  /\ wire' = Append(wire, e)
  /\ UNCHANGED <<submitted, acked, open, ackWire, hanging, pc, holding, channel, restarts, historyVars>>

\* Slack waits no longer for an acknowledgement and will send again.
TimeOut(e) ==
  /\ e \in sentHere \ acked
  /\ deliveries[e] < MaxDeliveries[e]
  /\ sentHere' = sentHere \ {e}
  /\ UNCHANGED <<submitted, acked, deliveries, netVars, pc, holding, channel, restarts, historyVars>>

AckArrives(e) ==
  /\ e \in ackWire
  /\ ackWire' = ackWire \ {e}
  /\ acked' = acked \cup {e}
  /\ UNCHANGED <<submitted, deliveries, sentHere, open, wire, hanging, pc, holding, channel, restarts, historyVars>>

\* The connection ends; what the client had received it can still read, the rest
\* and the acknowledgements under way are lost.  Either the client is told, by a
\* close or an error, or the connection is dropped in silence.
Break ==
  /\ open
  /\ open' = FALSE
  /\ sentHere' = {}
  /\ \E n \in 0 .. Len(wire) : wire' = SubSeq(wire, 1, n)
  /\ ackWire' = {}
  /\ hanging' \in BOOLEAN
  /\ UNCHANGED <<submitted, acked, deliveries, pc, holding, channel, restarts, historyVars>>

-----------------------------------------------------------------------------
(* The client *)

\* After RECONNECT_DELAY: a URL, a connection, run_once from the start.
Connect ==
  /\ pc = "sleeping"
  /\ pc' = "reading"
  /\ open' = TRUE
  /\ hanging' = FALSE
  /\ UNCHANGED <<slackVars, wire, ackWire, holding, channel, restarts, historyVars>>

\* The request for a URL or the connection attempt gets no answer; neither has a
\* timeout.
Hang ==
  /\ pc = "sleeping" /\ ~hanging
  /\ hanging' = TRUE
  /\ UNCHANGED <<slackVars, open, wire, ackWire, pc, holding, channel, restarts, historyVars>>

\* The client gives up its end of the connection.
Disconnected ==
  /\ pc' = "sleeping"
  /\ open' = FALSE
  /\ wire' = <<>>
  /\ ackWire' = {}
  /\ sentHere' = {}
  /\ hanging' = FALSE

\* read.next() has no message left: an error or a close.  If the connection was
\* dropped in silence this may take for ever: nothing is ever sent to find out.
Close ==
  /\ pc = "reading" /\ ~open /\ wire = <<>>
  /\ Disconnected
  /\ UNCHANGED <<submitted, acked, deliveries, holding, channel, restarts, historyVars>>

\* An envelope is acknowledged, and kept until there is room if it parses.
Accept ==
  /\ pc = "reading" /\ wire # <<>>
  /\ LET e == Head(wire) IN
       /\ ackWire' = IF open THEN ackWire \cup {e} ELSE ackWire
       /\ IF Parses(e)
          THEN /\ pc' = "waiting" /\ holding' = e
               /\ accepted' = [accepted EXCEPT ![RouteOf(e)] = Append(@, e)]
          ELSE UNCHANGED <<pc, holding, accepted>>
  /\ wire' = Tail(wire)
  /\ UNCHANGED <<slackVars, open, hanging, channel, restarts, taken, handled>>

\* The acknowledgement cannot be written: `?` ends run_once before any parsing.
AckFails ==
  /\ pc = "reading" /\ wire # <<>> /\ ~open
  /\ Disconnected
  /\ UNCHANGED <<submitted, acked, deliveries, holding, channel, restarts, historyVars>>

\* Mutant of HasRoom: one message too many.
HasRoomForOneMore(c) == Len(channel[c]) <= ChannelSize

HasRoom(c) == Len(channel[c]) < ChannelSize

\* Mutant of Push: try_send in place of send.
PushOrDrop ==
  /\ pc = "waiting"
  /\ channel' = IF HasRoom(RouteOf(holding))
                THEN [channel EXCEPT ![RouteOf(holding)] = Append(@, holding)]
                ELSE channel
  /\ pc' = "reading" /\ holding' = None
  /\ UNCHANGED <<slackVars, netVars, restarts, historyVars>>

\* tx.send or interaction_tx.send gets its place in the channel.
Push ==
  /\ pc = "waiting" /\ HasRoom(RouteOf(holding))
  /\ channel' = [channel EXCEPT ![RouteOf(holding)] = Append(@, holding)]
  /\ pc' = "reading" /\ holding' = None
  /\ UNCHANGED <<slackVars, netVars, restarts, historyVars>>

-----------------------------------------------------------------------------
(* The engine *)

Take(c) ==
  /\ channel[c] # <<>>
  /\ channel' = [channel EXCEPT ![c] = Tail(@)]
  /\ taken' = [taken EXCEPT ![c] = @ + 1]
  /\ handled' = handled \cup {Head(channel[c])}
  /\ UNCHANGED <<slackVars, netVars, pc, holding, restarts, accepted>>

\* The daemon stops at any moment and is started again, with empty channels.
Restart ==
  /\ restarts < MaxRestarts
  /\ restarts' = restarts + 1
  /\ Disconnected
  /\ holding' = None
  /\ channel' = [c \in Channels |-> <<>>]
  /\ accepted' = [c \in Channels |-> <<>>] /\ taken' = [c \in Channels |-> 0]
  /\ UNCHANGED <<submitted, acked, deliveries, handled>>

-----------------------------------------------------------------------------
Next ==
  \/ \E e \in Envelopes : Submit(e)
  \/ \E e \in Envelopes : Deliver(e)
  \/ \E e \in Envelopes : TimeOut(e)
  \/ \E e \in Envelopes : AckArrives(e)
  \/ Break
  \/ Connect
  \/ Hang
  \/ Close
  \/ Accept
  \/ AckFails
  \/ Push
  \/ \E c \in Channels : Take(c)
  \/ Restart

Spec == Init /\ [][Next]_vars

\* The client loops for ever, its pause ends and a connection is made in the end;
\* it reads what it has received, and hears of an end that is not silent; the
\* engine takes from either channel when it is not empty, select! being fair
\* among ready arms; Slack sends what it has while a connection is open.  Nothing
\* is promised to a client that hangs: no read, and no call, has a deadline.
FairSpec ==
  /\ Spec
  /\ WF_vars(~hanging /\ Connect) /\ WF_vars(Push)
  /\ WF_vars(Accept \/ AckFails \/ (~hanging /\ Close))
  /\ \A c \in Channels : WF_vars(Take(c))
  /\ \A e \in Envelopes : SF_vars(Deliver(e))

-----------------------------------------------------------------------------
(* Everything is in its domain; the channels hold no more than they can and *)
(* the client holds an envelope exactly while it waits for room.            *)
TypeOK ==
  /\ acked \subseteq submitted /\ submitted \subseteq Envelopes
  /\ sentHere \subseteq submitted /\ ackWire \subseteq submitted
  /\ \A e \in Envelopes : deliveries[e] \in 0 .. MaxDeliveries[e]
  /\ open \in BOOLEAN /\ hanging \in BOOLEAN
  /\ hanging => ~open
  /\ wire \in Seq(Envelopes)
  /\ pc \in {"sleeping", "reading", "waiting"}
  /\ holding \in Envelopes \cup {None}
  /\ pc = "waiting" <=> holding # None
  /\ \A c \in Channels : channel[c] \in Seq(Envelopes) /\ Len(channel[c]) <= ChannelSize

(* Within a run of the daemon each channel brings the engine exactly the    *)
(* envelopes that were acknowledged and parsed for it, each as often as it  *)
(* was acknowledged and in that order, whatever becomes of the connection   *)
(* and however long the client waited (socket_mode.rs:117-171).             *)
Waiting(c) == IF holding # None /\ RouteOf(holding) = c THEN <<holding>> ELSE <<>>

AckedIsKeptInOrder ==
  \A c \in Channels :
    SubSeq(accepted[c], taken[c] + 1, Len(accepted[c])) = channel[c] \o Waiting(c)

(* What a user does reaches the engine, over broken connections and with    *)
(* full channels: a client that waits never keeps the engine from making    *)
(* room.  Excepted are a stop of the daemon, which loses what it had        *)
(* acknowledged, an envelope that Slack has sent as often as it does and    *)
(* never got an acknowledgement for, and a client that hangs for good: the  *)
(* loop has no ping, keepalive or timeout to end the wait for a peer that   *)
(* is gone (socket_mode.rs:95).                                             *)
SubmissionsAreHandled ==
  \A e \in Envelopes :
    \/ [](e \notin submitted \/ ~Parses(e))
    \/ <>(e \in handled)
    \/ <>(restarts = MaxRestarts)
    \/ <>[](deliveries[e] = MaxDeliveries[e] /\ e \notin acked)
    \/ <>[]hanging
=============================================================================
