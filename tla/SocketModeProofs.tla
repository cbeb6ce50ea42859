-------------------------- MODULE SocketModeProofs --------------------------
(***************************************************************************)
(* Proofs about SocketMode, for any envelopes, channels of any size and    *)
(* any number of deliveries, breaks and restarts: the type invariant, and  *)
(* that what was acknowledged and parsed reaches the engine in its order,  *)
(* none of it lost and none of it twice.                                   *)
(***************************************************************************)
EXTENDS SocketMode, SequenceTheorems, TLAPS

\* What is under way was submitted, and the client waits exactly while it holds
\* an envelope that parses.
ClientOK ==
  /\ submitted \subseteq Envelopes
  /\ acked \subseteq submitted /\ sentHere \subseteq submitted /\ ackWire \subseteq submitted
  /\ wire \in Seq(Envelopes)
  /\ \A i \in 1 .. Len(wire) : wire[i] \in submitted
  /\ deliveries \in [Envelopes -> Nat]
  /\ \A e \in Envelopes : deliveries[e] <= MaxDeliveries[e]
  /\ open \in BOOLEAN /\ hanging \in BOOLEAN
  /\ hanging \/ pc = "sleeping" => ~open
  /\ pc \in {"sleeping", "reading", "waiting"}
  /\ holding \in Envelopes \cup {None}
  /\ pc = "waiting" <=> holding # None

\* The channels are sequences of what the engine may find in them, and bounded.
ChannelsOK ==
  /\ channel \in [Channels -> Seq(Envelopes)]
  /\ \A c \in Channels : Len(channel[c]) <= ChannelSize

\* How many envelopes the client waits with for room in c.
Held(c) == IF holding # None /\ RouteOf(holding) = c THEN 1 ELSE 0

\* What was accepted for a channel is what the engine has taken, then what is in
\* the channel, then what the client waits with: element by element.
QueueOK ==
  /\ accepted \in [Channels -> Seq(Envelopes)]
  /\ taken \in [Channels -> Nat]
  /\ \A c \in Channels :
       /\ Len(accepted[c]) = taken[c] + Len(channel[c]) + Held(c)
       /\ \A i \in 1 .. Len(channel[c]) : accepted[c][taken[c] + i] = channel[c][i]
       /\ holding # None /\ RouteOf(holding) = c
            => accepted[c][taken[c] + Len(channel[c]) + 1] = holding

IInv == ClientOK /\ ChannelsOK /\ QueueOK

LEMMA RouteIsChannel == \A e : RouteOf(e) \in Channels
  BY DEF RouteOf, Channels

LEMMA InitIInv == Init => IInv
<1> SUFFICES ASSUME Init PROVE IInv
  OBVIOUS
<1>1. <<>> \in Seq(Envelopes) /\ Len(<<>>) = 0
  BY EmptySeq
<1>2. ClientOK
  <2>1. wire \in Seq(Envelopes) /\ \A i \in 1 .. Len(wire) : wire[i] \in submitted
    BY <1>1 DEF Init
  <2>2. deliveries \in [Envelopes -> Nat] /\ \A e \in Envelopes : deliveries[e] <= MaxDeliveries[e]
    BY SocketAssumption DEF Init
  <2> HIDE <1>1
  <2>3. QED
    BY <2>1, <2>2 DEF Init, ClientOK
<1>3. ChannelsOK
  BY <1>1, SocketAssumption DEF Init, ChannelsOK
<1>4. QueueOK
  BY <1>1 DEF Init, QueueOK, Held
<1>5. QED
  BY <1>2, <1>3, <1>4 DEF IInv

-----------------------------------------------------------------------------
(* What the actions leave of each part *)

LEMMA NextClient == IInv /\ Next => ClientOK'
<1> SUFFICES ASSUME IInv, Next PROVE ClientOK'
  OBVIOUS
<1>0. <<>> \in Seq(Envelopes) /\ Len(<<>>) = 0
  BY EmptySeq
<1> USE SocketAssumption DEF IInv, ClientOK, slackVars, netVars, historyVars
<1>14. ASSUME Disconnected, holding' = None, UNCHANGED <<submitted, acked, deliveries>>
       PROVE  ClientOK'
  <2>1. wire' \in Seq(Envelopes) /\ \A i \in 1 .. Len(wire') : wire'[i] \in submitted'
    BY <1>0, <1>14 DEF Disconnected
  <2>2. QED
    BY <1>14, <2>1 DEF Disconnected
<1>1. ASSUME NEW e \in Envelopes, Submit(e) PROVE ClientOK'
  BY <1>1 DEF Submit
<1>2. ASSUME NEW e \in Envelopes, Deliver(e) PROVE ClientOK'
  <2>1. /\ wire' \in Seq(Envelopes)
        /\ \A i \in 1 .. Len(wire') : wire'[i] \in submitted
    BY <1>2, AppendProperties, LenProperties DEF Deliver
  <2>2. QED
    BY <1>2, <2>1 DEF Deliver
<1>3. ASSUME NEW e \in Envelopes, TimeOut(e) PROVE ClientOK'
  BY <1>3 DEF TimeOut
<1>4. ASSUME NEW e \in Envelopes, AckArrives(e) PROVE ClientOK'
  BY <1>4 DEF AckArrives
<1>5. CASE Break
  <2>1. PICK n \in 0 .. Len(wire) : wire' = SubSeq(wire, 1, n)
    BY <1>5 DEF Break
  <2>2. n \in Int /\ Len(wire) \in Nat /\ \A i \in 1 .. n : wire[i] \in Envelopes
    BY LenProperties, ElementOfSeq
  <2>3. /\ wire' \in Seq(Envelopes)
        /\ Len(wire') = IF 1 <= n THEN n - 1 + 1 ELSE 0
        /\ \A i \in 1 .. n - 1 + 1 : wire'[i] = wire[1 + i - 1]
    BY <2>1, <2>2, SubSeqProperties
  <2>4. ASSUME NEW i \in 1 .. Len(wire') PROVE wire'[i] \in submitted
    <3>1. i \in 1 .. n - 1 + 1 /\ i \in 1 .. Len(wire) /\ 1 + i - 1 = i
      BY <2>2, <2>3
    <3>2. wire[i] \in submitted
      BY <3>1
    <3>3. QED
      BY <2>3, <3>1, <3>2
  <2>5. QED
    BY <1>5, <2>3, <2>4 DEF Break
<1>15. CASE Hang
  BY <1>15 DEF Hang
<1>6. CASE Connect
  BY <1>6 DEF Connect
<1>7. CASE Close
  BY <1>14, <1>7 DEF Close
<1>8. CASE Accept
  <2>1. /\ Head(wire) \in submitted
        /\ wire' \in Seq(Envelopes)
        /\ \A i \in 1 .. Len(wire') : wire'[i] \in submitted
    BY <1>8, HeadTailProperties DEF Accept
  <2>2. QED
    BY <1>8, <2>1 DEF Accept
<1>9. CASE AckFails
  BY <1>14, <1>9 DEF AckFails
<1>10. CASE Push
  BY <1>10 DEF Push
<1>11. ASSUME NEW c \in Channels, Take(c) PROVE ClientOK'
  BY <1>11 DEF Take
<1>12. CASE Restart
  BY <1>14, <1>12 DEF Restart
<1>13. QED
  BY <1>1, <1>2, <1>3, <1>4, <1>5, <1>6, <1>7, <1>8, <1>9, <1>10, <1>11, <1>12,
     <1>15 DEF Next

\* All but Push, Take and Restart leave the channels alone.
LEMMA NextChannels == IInv /\ Next => ChannelsOK'
<1> SUFFICES ASSUME IInv, Next PROVE ChannelsOK'
  OBVIOUS
<1>1. CASE UNCHANGED channel
  BY <1>1 DEF IInv, ChannelsOK
<1>2. CASE Push
  <2>1. /\ RouteOf(holding) \in Channels /\ holding \in Envelopes
        /\ Len(channel[RouteOf(holding)]) < ChannelSize
    BY <1>2, RouteIsChannel DEF Push, HasRoom, IInv, ClientOK
  <2>2. \A s \in Seq(Envelopes) : /\ Append(s, holding) \in Seq(Envelopes)
                                 /\ Len(Append(s, holding)) = Len(s) + 1
                                 /\ Len(s) \in Nat
    BY <2>1, AppendProperties, LenProperties
  <2>3. QED
    BY <1>2, <2>1, <2>2, SocketAssumption DEF Push, IInv, ChannelsOK
<1>3. ASSUME NEW c \in Channels, Take(c) PROVE ChannelsOK'
  <2>1. /\ Tail(channel[c]) \in Seq(Envelopes)
        /\ Len(Tail(channel[c])) = Len(channel[c]) - 1
        /\ Len(channel[c]) \in Nat
    BY <1>3, HeadTailProperties, LenProperties DEF Take, IInv, ChannelsOK
  <2>2. QED
    BY <1>3, <2>1, SocketAssumption DEF Take, IInv, ChannelsOK
<1>4. CASE Restart
  <2>1. <<>> \in Seq(Envelopes) /\ Len(<<>>) = 0
    BY EmptySeq
  <2>2. QED
    BY <1>4, <2>1, SocketAssumption DEF Restart, ChannelsOK
<1>5. QED
  BY <1>1, <1>2, <1>3, <1>4
  DEF Next, Submit, Deliver, TimeOut, AckArrives, Break, Hang, Connect, Close, Accept, AckFails

LEMMA NextQueue == IInv /\ Next => QueueOK'
<1> SUFFICES ASSUME IInv, Next PROVE QueueOK'
  OBVIOUS
<1>1. CASE UNCHANGED <<channel, holding, accepted, taken>>
  BY <1>1 DEF IInv, QueueOK, Held
<1>2. CASE Accept /\ Parses(Head(wire))
  <2>0. PICK e \in Envelopes : e = Head(wire)
    BY <1>2, HeadTailProperties DEF Accept, IInv, ClientOK
  <2> DEFINE r == RouteOf(e)
  <2>1. e \in Envelopes /\ r \in Channels /\ e # None
    BY <2>0, RouteIsChannel, SocketAssumption
  <2>2. holding = None /\ holding' = e /\ UNCHANGED <<channel, taken>>
    BY <1>2, <2>0 DEF Accept, IInv, ClientOK
  <2>3. accepted' = [accepted EXCEPT ![r] = Append(@, e)]
    BY <1>2, <2>0 DEF Accept
  <2> HIDE DEF r
  <2>4. \A s \in Seq(Envelopes) :
          /\ Append(s, e) \in Seq(Envelopes)
          /\ Len(s) \in Nat
          /\ Len(Append(s, e)) = Len(s) + 1
          /\ \A i \in 1 .. Len(s) : Append(s, e)[i] = s[i]
          /\ Append(s, e)[Len(s) + 1] = e
    BY <2>1, AppendProperties, LenProperties
  <2>5. \A c \in Channels : /\ Len(accepted[c]) = taken[c] + Len(channel[c])
                            /\ Len(channel[c]) \in Nat /\ taken[c] \in Nat
    BY <2>2, <2>4 DEF IInv, ChannelsOK, QueueOK, Held
  <2>6. accepted' \in [Channels -> Seq(Envelopes)] /\ taken' \in [Channels -> Nat]
    BY <2>1, <2>2, <2>3, <2>4 DEF IInv, QueueOK
  <2>7. ASSUME NEW c \in Channels, c # r
        PROVE  accepted'[c] = accepted[c] /\ Held(c) = 0 /\ Held(c)' = 0
    BY <2>1, <2>2, <2>3, <2>7 DEF IInv, QueueOK, Held, r
  <2>8. /\ accepted'[r] = Append(accepted[r], e)
        /\ accepted[r] \in Seq(Envelopes)
        /\ Held(r)' = 1
    <3>1. accepted'[r] = Append(accepted[r], e) /\ accepted[r] \in Seq(Envelopes)
      BY <2>1, <2>3 DEF IInv, QueueOK
    <3>2. RouteOf(holding') = r /\ holding' # None
      BY <2>1, <2>2 DEF r
    <3>3. Held(r)' = 1
      BY <3>2 DEF Held
    <3>4. QED
      BY <3>1, <3>3
  <2>9. ASSUME NEW c \in Channels
        PROVE  /\ Len(accepted'[c]) = taken'[c] + Len(channel'[c]) + Held(c)'
               /\ \A i \in 1 .. Len(channel'[c]) : accepted'[c][taken'[c] + i] = channel'[c][i]
               /\ holding' # None /\ RouteOf(holding') = c
                    => accepted'[c][taken'[c] + Len(channel'[c]) + 1] = holding'
    <3>1. CASE c = r
      <4>1. /\ Len(accepted[r]) = taken[r] + Len(channel[r])
            /\ Len(channel[r]) \in Nat /\ taken[r] \in Nat
            /\ UNCHANGED <<channel, taken>> /\ holding' = e
        BY <2>1, <2>2, <2>5
      <4>2. \A i \in 1 .. Len(channel[r]) : accepted[r][taken[r] + i] = channel[r][i]
        BY <2>1 DEF IInv, QueueOK
      <4>3. /\ Len(accepted'[r]) = Len(accepted[r]) + 1
            /\ \A i \in 1 .. Len(accepted[r]) : accepted'[r][i] = accepted[r][i]
            /\ accepted'[r][Len(accepted[r]) + 1] = e
        BY <2>4, <2>8
      <4>4. ASSUME NEW i \in 1 .. Len(channel[r])
            PROVE  accepted'[r][taken[r] + i] = channel[r][i]
        <5>1. taken[r] + i \in 1 .. Len(accepted[r])
          BY <4>1
        <5>2. QED
          BY <4>2, <4>3, <5>1
      <4>5. QED
        BY <2>8, <3>1, <4>1, <4>3, <4>4
    <3>2. CASE c # r
      BY <2>2, <2>5, <2>7, <3>2 DEF IInv, QueueOK, r
    <3>3. QED
      BY <3>1, <3>2
  <2>10. QED
    BY <2>6, <2>9 DEF QueueOK
<1>3. CASE Push
  <2> DEFINE r == RouteOf(holding)
  <2>1. holding \in Envelopes /\ r \in Channels /\ holding # None
    BY <1>3, RouteIsChannel, SocketAssumption DEF Push, IInv, ClientOK
  <2>2. /\ holding' = None /\ UNCHANGED <<accepted, taken>>
        /\ channel' = [channel EXCEPT ![r] = Append(@, holding)]
    BY <1>3 DEF Push, historyVars
  <2>3. \A s \in Seq(Envelopes) :
          /\ Append(s, holding) \in Seq(Envelopes)
          /\ Len(s) \in Nat
          /\ Len(Append(s, holding)) = Len(s) + 1
          /\ \A i \in 1 .. Len(s) : Append(s, holding)[i] = s[i]
          /\ Append(s, holding)[Len(s) + 1] = holding
    BY <2>1, AppendProperties, LenProperties
  <2> HIDE DEF r
  <2>4. QED
    BY <2>1, <2>2, <2>3 DEF IInv, ChannelsOK, QueueOK, Held, r
<1>4. ASSUME NEW c \in Channels, Take(c) PROVE QueueOK'
  <2>1. /\ channel' = [channel EXCEPT ![c] = Tail(@)]
        /\ taken' = [taken EXCEPT ![c] = @ + 1]
        /\ UNCHANGED <<holding, accepted>>
    BY <1>4 DEF Take
  <2>2. /\ Len(Tail(channel[c])) = Len(channel[c]) - 1
        /\ \A i \in 1 .. Len(Tail(channel[c])) : Tail(channel[c])[i] = channel[c][i + 1]
        /\ Len(channel[c]) \in Nat
    BY <1>4, HeadTailProperties, LenProperties DEF Take, IInv, ChannelsOK
  <2>3. /\ channel'[c] = Tail(channel[c]) /\ taken'[c] = taken[c] + 1
        /\ \A x \in Channels \ {c} : channel'[x] = channel[x] /\ taken'[x] = taken[x]
        /\ taken' \in [Channels -> Nat]
    BY <2>1 DEF IInv, ChannelsOK, QueueOK
  <2>4. \A i \in 1 .. Len(channel'[c]) : accepted[c][taken'[c] + i] = channel'[c][i]
    <3> SUFFICES ASSUME NEW i \in 1 .. Len(channel[c]) - 1
                 PROVE  accepted[c][taken[c] + 1 + i] = channel[c][i + 1]
      BY <2>2, <2>3
    <3>1. i + 1 \in 1 .. Len(channel[c]) /\ taken[c] + 1 + i = taken[c] + (i + 1)
      BY <2>2 DEF IInv, QueueOK
    <3>2. QED
      BY <3>1 DEF IInv, QueueOK
  <2>5. taken[c] \in Nat /\ Held(c) \in {0, 1} /\ Held(c)' = Held(c)
    BY <2>1 DEF IInv, QueueOK, Held
  <2>6. Len(accepted[c]) = taken'[c] + Len(channel'[c]) + Held(c)
    BY <2>2, <2>3, <2>5 DEF IInv, QueueOK
  <2>7. taken'[c] + Len(channel'[c]) + 1 = taken[c] + Len(channel[c]) + 1
    BY <2>2, <2>3, <2>5
  <2>8. ASSUME NEW x \in Channels
        PROVE  /\ Len(accepted'[x]) = taken'[x] + Len(channel'[x]) + Held(x)'
               /\ \A i \in 1 .. Len(channel'[x]) : accepted'[x][taken'[x] + i] = channel'[x][i]
               /\ holding' # None /\ RouteOf(holding') = x
                    => accepted'[x][taken'[x] + Len(channel'[x]) + 1] = holding'
    <3>1. CASE x = c
      BY <2>1, <2>4, <2>5, <2>6, <2>7, <3>1 DEF IInv, QueueOK
    <3>2. CASE x # c
      BY <2>1, <2>3, <3>2 DEF IInv, QueueOK, Held
    <3>3. QED
      BY <3>1, <3>2
  <2>9. QED
    BY <2>1, <2>3, <2>8 DEF IInv, QueueOK
<1>5. CASE Restart
  <2>1. <<>> \in Seq(Envelopes) /\ Len(<<>>) = 0
    BY EmptySeq
  <2>2. QED
    BY <1>5, <2>1 DEF Restart, QueueOK, Held
<1>6. CASE Accept /\ ~Parses(Head(wire))
  BY <1>1, <1>6 DEF Accept
<1>7. QED
  BY <1>1, <1>2, <1>3, <1>4, <1>5, <1>6
  DEF Next, Submit, Deliver, TimeOut, AckArrives, Break, Hang, Connect, Close, AckFails,
      historyVars

LEMMA NextIInv == IInv /\ [Next]_vars => IInv'
<1>1. IInv /\ UNCHANGED vars => IInv'
  BY DEF IInv, ClientOK, ChannelsOK, QueueOK, Held, vars, slackVars, netVars, historyVars
<1>2. QED
  BY <1>1, NextClient, NextChannels, NextQueue DEF IInv

-----------------------------------------------------------------------------
(* Whatever Slack sends and however connections break: nothing is           *)
(* acknowledged that nobody submitted, the channels stay within their size, *)
(* and the client holds an envelope exactly while it waits for room.        *)
THEOREM ClientIsSound == Spec => []TypeOK
<1>1. IInv => TypeOK
  BY DEF IInv, ClientOK, ChannelsOK, TypeOK
<1>2. QED
  BY <1>1, InitIInv, NextIInv, PTL DEF Spec

\* The part of a sequence after its first n elements, found element by element.
LEMMA Remainder ==
  ASSUME NEW S, NEW whole \in Seq(S), NEW rest \in Seq(S), NEW n \in Nat,
         Len(whole) = n + Len(rest),
         \A i \in 1 .. Len(rest) : whole[n + i] = rest[i]
  PROVE  SubSeq(whole, n + 1, Len(whole)) = rest
<1> DEFINE part == SubSeq(whole, n + 1, Len(whole))
<1>1. Len(whole) \in Nat /\ Len(rest) \in Nat
  BY LenProperties
<1>2. \A i \in n + 1 .. Len(whole) : whole[i] \in S
  BY <1>1, ElementOfSeq
<1>3. /\ part \in Seq(S)
      /\ Len(part) = IF n + 1 <= Len(whole) THEN Len(whole) - (n + 1) + 1 ELSE 0
      /\ \A i \in 1 .. Len(whole) - (n + 1) + 1 : part[i] = whole[n + 1 + i - 1]
  BY <1>1, <1>2, SubSeqProperties
<1>4. Len(part) = Len(rest) /\ \A i \in 1 .. Len(part) : part[i] = rest[i]
  BY <1>1, <1>3
<1>5. QED
  BY <1>3, <1>4, SeqEqual

(* Over broken connections, repeated deliveries and full channels of any    *)
(* size, each channel brings the engine what was acknowledged and parsed    *)
(* for it, in that order, nothing lost and nothing twice.                   *)
THEOREM NothingAckedIsLost == Spec => []AckedIsKeptInOrder
<1>1. IInv => AckedIsKeptInOrder
  <2> SUFFICES ASSUME IInv, NEW c \in Channels
               PROVE  SubSeq(accepted[c], taken[c] + 1, Len(accepted[c]))
                        = channel[c] \o Waiting(c)
    BY DEF AckedIsKeptInOrder
  <2> DEFINE queue == channel[c]
             held  == Waiting(c)
             rest  == queue \o held
  <2>1. /\ accepted[c] \in Seq(Envelopes) /\ queue \in Seq(Envelopes)
        /\ taken[c] \in Nat
        /\ Len(accepted[c]) = taken[c] + Len(queue) + Held(c)
        /\ \A i \in 1 .. Len(queue) : accepted[c][taken[c] + i] = queue[i]
        /\ Held(c) = 1 => accepted[c][taken[c] + Len(queue) + 1] = holding
    BY DEF IInv, ChannelsOK, QueueOK, Held
  <2>2. /\ held \in Seq(Envelopes)
        /\ Len(held) = Held(c) /\ Held(c) \in {0, 1}
        /\ Held(c) = 1 => held[1] = holding
    BY EmptySeq DEF Waiting, Held, IInv, ClientOK
  <2> HIDE DEF queue, held
  <2>3. /\ rest \in Seq(Envelopes)
        /\ Len(rest) = Len(queue) + Len(held)
        /\ \A i \in 1 .. Len(queue) + Len(held) :
             rest[i] = IF i <= Len(queue) THEN queue[i] ELSE held[i - Len(queue)]
    BY <2>1, <2>2, ConcatProperties
  <2>4. Len(queue) \in Nat
    BY <2>1, LenProperties
  <2> HIDE DEF rest
  <2>5. \A i \in 1 .. Len(rest) : accepted[c][taken[c] + i] = rest[i]
    <3> SUFFICES ASSUME NEW i \in 1 .. Len(rest) PROVE accepted[c][taken[c] + i] = rest[i]
      OBVIOUS
    <3>1. CASE i <= Len(queue)
      BY <2>1, <2>3, <2>4, <3>1
    <3>2. CASE i > Len(queue)
      <4>1. Held(c) = 1 /\ i = Len(queue) + 1
        BY <2>2, <2>3, <2>4, <3>2
      <4>2. accepted[c][taken[c] + i] = holding
        BY <2>1, <2>4, <4>1
      <4>3. rest[i] = held[1]
        BY <2>2, <2>3, <2>4, <4>1
      <4>4. QED
        BY <2>2, <4>1, <4>2, <4>3
    <3>3. QED
      BY <2>3, <2>4, <3>1, <3>2
  <2>6. Len(accepted[c]) = taken[c] + Len(rest)
    BY <2>1, <2>2, <2>3, <2>4
  <2>7. QED
    BY <2>1, <2>3, <2>5, <2>6, Remainder DEF rest, queue, held
<1>2. QED
  BY <1>1, InitIInv, NextIInv, PTL DEF Spec
=============================================================================
