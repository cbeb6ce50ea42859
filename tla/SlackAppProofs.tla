--------------------------- MODULE SlackAppProofs ---------------------------
(***************************************************************************)
(* Proofs about SlackApp, for any users, devices, labels, limits, bounds   *)
(* and faults: forgetting lasts, the table makes up for writes that        *)
(* failed, changes are only made where they were asked for, and Home tabs  *)
(* are current or about to be redrawn.                                     *)
(***************************************************************************)
EXTENDS SlackApp, SequenceTheorems, TLAPS

-----------------------------------------------------------------------------
(* Memory and table *)

\* What is inductive about them: they agree where they should, and a process
\* that is down knows nobody and has nobody to draw for.
TablesOK ==
  /\ ForgottenStaysForgotten
  /\ TableTellsTheTruth
  /\ ~up => DOMAIN known = {} /\ homeUsers = {}

\* Neither users, nor views, nor nicknames touch what TablesOK is about.
LEMMA TablesUntouched ==
  ASSUME TablesOK, UNCHANGED <<up, known, rows>>,
         past'.forgotten = past.forgotten, past'.kept = past.kept,
         past'.unwritten = past.unwritten,
         up \/ homeUsers' = homeUsers
  PROVE  TablesOK'
  BY DEF TablesOK, ForgottenStaysForgotten, TableTellsTheTruth

\* `past` keeps its fields; EXCEPT has to know them.
PastOK == past = [forgotten |-> past.forgotten, kept |-> past.kept,
                  unwritten |-> past.unwritten, excused |-> past.excused]

\* A device that joins, returns or goes is in both, or its write has failed.
LEMMA NetChangeTables ==
  ASSUME TablesOK, PastOK, NEW d \in DeviceIds, NEW presence, NetChange(d, presence)
  PROVE  TablesOK' /\ PastOK'
<1>1. PICK ok \in Outcomes("write") :
        /\ rows' = IF ok THEN Put(rows, d, presence) ELSE rows
        /\ past' = [past EXCEPT
             !.forgotten = @ \ {d},
             !.kept      = @ \ {d},
             !.unwritten = IF ok THEN @ \ {d} ELSE @ \cup {d}]
  BY DEF NetChange
<1>2. /\ known' = Put(known, d, presence)
      /\ up /\ up'
  BY DEF NetChange
<1>3. /\ past'.forgotten = past.forgotten \ {d}
      /\ past'.kept = past.kept \ {d}
      /\ past'.unwritten = IF ok THEN past.unwritten \ {d} ELSE past.unwritten \cup {d}
  BY <1>1 DEF PastOK
<1>4. ForgottenStaysForgotten'
  BY <1>1, <1>2, <1>3 DEF TablesOK, ForgottenStaysForgotten, Put
<1>5. TableTellsTheTruth'
  BY <1>1, <1>2, <1>3 DEF TablesOK, TableTellsTheTruth, Put
<1>6. PastOK'
  BY <1>1 DEF PastOK
<1>7. QED
  BY <1>2, <1>4, <1>5, <1>6 DEF TablesOK

\* Forgetting takes a device out of both, or its row is kept.
LEMMA ForgetTables ==
  ASSUME TablesOK, PastOK, Forget
  PROVE  TablesOK' /\ PastOK' /\ past'.excused = homeUsers
<1> DEFINE d == Head(inbox).metadata
<1>1. PICK ok \in Outcomes("delete") :
        /\ ForgetDevice(d, ok)
        /\ past' = [past EXCEPT
             !.forgotten = @ \cup {d},
             !.kept      = IF ok THEN @ \ {d} ELSE @ \cup ({d} \cap DOMAIN rows),
             !.unwritten = IF ok THEN @ \ {d} ELSE @ \cup {d},
             !.excused   = homeUsers]
  BY DEF Forget
<1>2. /\ past'.forgotten = past.forgotten \cup {d}
      /\ past'.kept = IF ok THEN past.kept \ {d} ELSE past.kept \cup ({d} \cap DOMAIN rows)
      /\ past'.unwritten = IF ok THEN past.unwritten \ {d} ELSE past.unwritten \cup {d}
  BY <1>1 DEF PastOK
<1>3. up /\ up'
  BY DEF Forget, Take
<1>4. /\ known' = Drop(known, d)
      /\ rows' = IF ok THEN Drop(rows, d) ELSE rows
  BY <1>1 DEF ForgetDevice
<1> HIDE DEF d
<1>5. ForgottenStaysForgotten'
  BY <1>2, <1>4 DEF TablesOK, ForgottenStaysForgotten, Drop
<1>6. TableTellsTheTruth'
  BY <1>2, <1>3, <1>4 DEF TablesOK, TableTellsTheTruth, Drop
<1>7. PastOK' /\ past'.excused = homeUsers
  BY <1>1 DEF PastOK
<1>8. QED
  BY <1>3, <1>5, <1>6, <1>7 DEF TablesOK

\* A start knows what the table has, or nobody.
LEMMA StartTables ==
  ASSUME TablesOK, Start
  PROVE  TablesOK'
<1>1. PICK ok \in Outcomes("load") :
        /\ known' = IF ok THEN rows ELSE <<>>
        /\ past' = [forgotten |-> IF ok THEN past.forgotten \ past.kept ELSE past.forgotten,
                    kept      |-> IF ok THEN {} ELSE past.kept,
                    unwritten |-> IF ok THEN {} ELSE DOMAIN rows,
                    excused   |-> {}]
  BY DEF Start
<1>2. up' /\ rows' = rows
  BY DEF Start, store
<1>3. ~ok => DOMAIN known' = {}
  BY <1>1
<1>4. ForgottenStaysForgotten'
  BY <1>1, <1>2, <1>3 DEF TablesOK, ForgottenStaysForgotten
<1>5. TableTellsTheTruth'
  BY <1>1, <1>2, <1>3 DEF TablesOK, TableTellsTheTruth
<1>6. QED
  BY <1>2, <1>4, <1>5 DEF TablesOK

\* What users do, and what the daemon does for them, leaves the tables alone.
LEMMA UserTables ==
  ASSUME TablesOK, NEW interaction, Click(interaction)
  PROVE  TablesOK'
  BY TablesUntouched DEF Click, engine, store

\* What a publish chooses, and what comes of it.
LEMMA PublishParts ==
  ASSUME NEW users, Publish(users)
  PROVE  \E reached, unread, view :
           /\ reached \subseteq users
           /\ \A u \in reached : view[u] \in ViewsWithout(unread[u])
           /\ home' = [u \in Users |-> IF u \in reached THEN view[u] ELSE home[u]]
           /\ past' = [past EXCEPT
                !.excused = (@ \ users) \cup (users \ reached)
                              \cup {u \in reached : unread[u] # {}}]
<1>1. PICK reached \in SUBSET users : \E unread \in Unreadable(reached) :
        /\ \E view \in [reached -> UNION {ViewsWithout(unread[u]) : u \in reached}] :
             /\ \A u \in reached : view[u] \in ViewsWithout(unread[u])
             /\ home' = [u \in Users |-> IF u \in reached THEN view[u] ELSE home[u]]
        /\ past' = [past EXCEPT
             !.excused = (@ \ users) \cup (users \ reached)
                           \cup {u \in reached : unread[u] # {}}]
  BY Zenon DEF Publish
<1>2. PICK unread \in Unreadable(reached) :
        /\ \E view \in [reached -> UNION {ViewsWithout(unread[u]) : u \in reached}] :
             /\ \A u \in reached : view[u] \in ViewsWithout(unread[u])
             /\ home' = [u \in Users |-> IF u \in reached THEN view[u] ELSE home[u]]
        /\ past' = [past EXCEPT
             !.excused = (@ \ users) \cup (users \ reached)
                           \cup {u \in reached : unread[u] # {}}]
  BY <1>1
<1>3. PICK view \in [reached -> UNION {ViewsWithout(unread[u]) : u \in reached}] :
        /\ \A u \in reached : view[u] \in ViewsWithout(unread[u])
        /\ home' = [u \in Users |-> IF u \in reached THEN view[u] ELSE home[u]]
  BY <1>2
<1>4. /\ reached \subseteq users
      /\ past' = [past EXCEPT
           !.excused = (@ \ users) \cup (users \ reached)
                         \cup {u \in reached : unread[u] # {}}]
  BY <1>2
<1>5. QED
  BY <1>3, <1>4

\* Publishing keeps the books of the tables.
LEMMA PublishPast ==
  ASSUME PastOK, NEW users, Publish(users)
  PROVE  /\ PastOK'
         /\ past'.forgotten = past.forgotten /\ past'.kept = past.kept
         /\ past'.unwritten = past.unwritten
<1>1. \E excused : past' = [past EXCEPT !.excused = excused]
  BY PublishParts
<1>2. QED
  BY <1>1 DEF PastOK

\* It redraws the Home tab of every user it is for who is not excused after it,
\* from all the nicknames, and leaves every other user as they were.
LEMMA PublishDraws ==
  ASSUME PastOK, NEW users \in SUBSET Users, Publish(users)
  PROVE  \A u \in Users :
           IF u \in users THEN u \notin past'.excused => home'[u] \in Current
           ELSE home'[u] = home[u] /\ (u \in past'.excused <=> u \in past.excused)
<1>1. PICK reached, unread, view :
        /\ reached \subseteq users
        /\ \A u \in reached : view[u] \in ViewsWithout(unread[u])
        /\ home' = [u \in Users |-> IF u \in reached THEN view[u] ELSE home[u]]
        /\ past' = [past EXCEPT
             !.excused = (@ \ users) \cup (users \ reached)
                           \cup {u \in reached : unread[u] # {}}]
  BY PublishParts
<1>2. past'.excused = (past.excused \ users) \cup (users \ reached)
                        \cup {u \in reached : unread[u] # {}}
  BY <1>1 DEF PastOK
<1>3. ASSUME NEW u \in Users, u \in users, u \notin past'.excused
      PROVE  home'[u] \in Current
  <2>1. u \in reached /\ unread[u] = {}
    BY <1>2, <1>3
  <2>2. view[u] \in ViewsWithout({})
    BY <1>1, <2>1
  <2>3. QED
    BY <1>1, <2>1, <2>2 DEF Current
<1>4. ASSUME NEW u \in Users, u \notin users
      PROVE  home'[u] = home[u] /\ (u \in past'.excused <=> u \in past.excused)
  BY <1>1, <1>2, <1>4
<1>5. QED
  BY <1>3, <1>4

LEMMA NextPast ==
  ASSUME TablesOK, PastOK, [Next]_vars
  PROVE  PastOK'
<1>1. CASE \E users : Publish(users)
  BY <1>1, PublishPast
<1>2. CASE \E d \in DeviceIds, presence \in {"present", "gone"} : NetChange(d, presence)
  BY <1>2, NetChangeTables
<1>3. CASE Rename
  <2>1. past' = [past EXCEPT !.excused = homeUsers]
    BY <1>3 DEF Rename
  <2>2. QED
    BY <2>1 DEF PastOK
<1>4. CASE Forget
  BY <1>4, ForgetTables
<1>5. CASE Start
  BY <1>5 DEF Start, PastOK
<1>6. CASE UNCHANGED past
  BY <1>6 DEF PastOK
<1>7. QED
  BY <1>1, <1>2, <1>3, <1>4, <1>5, <1>6
  DEF Next, OpenHome, ClickRow, ClickCard, Submit, Click, Cancel, HandleBlockAction,
      HomeOpened, RenderTick, Stop, vars

LEMMA NextTables ==
  ASSUME TablesOK, PastOK, [Next]_vars
  PROVE  TablesOK'
<1>1. CASE \E interaction : Click(interaction)
  BY <1>1, UserTables
<1>2. CASE (\E u \in Users : Cancel(u)) \/ HandleBlockAction
  BY <1>2, TablesUntouched DEF Cancel, HandleBlockAction, Take, engine, store
<1>3. CASE HomeOpened
  <2>1. UNCHANGED <<up, known, rows>> /\ up
    BY <1>3 DEF HomeOpened, Take, store
  <2>2. \E users : Publish(users)
    BY <1>3 DEF HomeOpened
  <2>3. QED
    BY <2>1, <2>2, PublishPast, TablesUntouched
<1>4. CASE Rename
  <2>1. past' = [past EXCEPT !.excused = homeUsers]
    BY <1>4 DEF Rename
  <2>2. /\ past'.forgotten = past.forgotten /\ past'.kept = past.kept
        /\ past'.unwritten = past.unwritten
    BY <2>1 DEF PastOK
  <2>3. QED
    BY <1>4, <2>2, TablesUntouched DEF Rename, Take, engine
<1>5. CASE Forget
  BY <1>5, ForgetTables
<1>6. CASE \E d \in DeviceIds, presence \in {"present", "gone"} : NetChange(d, presence)
  BY <1>6, NetChangeTables
<1>7. CASE RenderTick
  <2>1. UNCHANGED <<up, known, rows>> /\ up
    BY <1>7 DEF RenderTick, store
  <2>2. \E users : Publish(users)
    BY <1>7 DEF RenderTick
  <2>3. QED
    BY <2>1, <2>2, PublishPast, TablesUntouched
<1>8. CASE Stop
  <2>1. DOMAIN known' = {} /\ homeUsers' = {} /\ ~up' /\ rows' = rows /\ past' = past
    BY <1>8 DEF Stop, store
  <2>2. QED
    BY <2>1 DEF TablesOK, ForgottenStaysForgotten, TableTellsTheTruth
<1>9. CASE Start
  BY <1>9, StartTables
<1>10. CASE UNCHANGED vars
  BY <1>10, TablesUntouched DEF vars, engine, store
<1>11. QED
  BY <1>1, <1>2, <1>3, <1>4, <1>5, <1>6, <1>7, <1>8, <1>9, <1>10
  DEF Next, OpenHome, ClickRow, ClickCard, Submit

LEMMA InitTables == Init => TablesOK /\ PastOK
<1> SUFFICES ASSUME Init PROVE TablesOK /\ PastOK
  OBVIOUS
<1>1. DOMAIN known = {} /\ DOMAIN rows = {} /\ past.forgotten = {}
  BY DEF Init, NoPast
<1>2. QED
  BY <1>1 DEF Init, NoPast, TablesOK, PastOK, ForgottenStaysForgotten, TableTellsTheTruth

LEMMA AlwaysTables == Spec => [](TablesOK /\ PastOK)
<1>1. TablesOK /\ PastOK /\ [Next]_vars => (TablesOK /\ PastOK)'
  BY NextTables, NextPast
<1>2. QED
  BY InitTables, <1>1, PTL DEF Spec

(* A forgotten device is neither in memory nor in the table until it is     *)
(* heard again, save for a row that a failed delete left and a start has    *)
(* not brought back: for any number of users, modals, faults and restarts.  *)
THEOREM ForgettingLasts == Spec => []ForgottenStaysForgotten
  BY AlwaysTables, PTL DEF TablesOK

(* The table has what memory has, except for devices whose own last write   *)
(* failed, for any faults and restarts.                                     *)
THEOREM TableIsTrue == Spec => []TableTellsTheTruth
  BY AlwaysTables, PTL DEF TablesOK
-----------------------------------------------------------------------------
(* Clicks, modals and submissions *)

\* The part of a value after its verb is the id, with all the colons it has.
LEMMA ValueSplits ==
  ASSUME NEW S, NEW verb \in S, NEW id \in Seq(S)
  PROVE  SplitOnce(Value(verb, id)) = [verb |-> verb, id |-> id]
<1> DEFINE v == Value(verb, id)
<1>1. v \in Seq(S) /\ v # <<>> /\ Len(v) = Len(id) + 1 /\ Head(v) = verb
  <2>1. <<verb>> \in Seq(S) /\ Len(<<verb>>) = 1
    OBVIOUS
  <2>2. v \in Seq(S) /\ Len(v) = Len(id) + 1
    BY <2>1, ConcatProperties DEF Value
  <2>3. v[1] = verb
    BY <2>1 DEF Value
  <2>4. QED
    BY <2>2, <2>3
<1>2. \A i \in 1 .. Len(id) : v[i + 1] = id[i]
  BY DEF Value
<1> HIDE DEF v
<1>3. Tail(v) \in Seq(S) /\ Len(Tail(v)) = Len(id)
  BY <1>1, HeadTailProperties
<1>4. \A i \in 1 .. Len(Tail(v)) : Tail(v)[i] = id[i]
  <2> TAKE i \in 1 .. Len(Tail(v))
  <2>1. Tail(v)[i] = v[i + 1]
    BY <1>1
  <2>2. QED
    BY <1>2, <1>3, <2>1
<1>5. Tail(v) = id
  BY <1>3, <1>4, SeqEqual
<1>6. QED
  BY <1>1, <1>5 DEF SplitOnce, v

\* The modals there may be: one is about the device whose row was clicked.
Modals == {[kind |-> ModalOf[verb], id |-> d, about |-> d] :
             verb \in DOMAIN ModalOf, d \in DeviceIds}

\* What may be on its way to the daemon.
Opened == {[type |-> "app_home_opened", user |-> u] : u \in Users}
Acted ==
  {[type |-> "block_actions", user |-> u, action |-> action,
    value |-> Value(verb, d), about |-> d] :
     u \in Users, action \in {"device_overflow", "device_card_rename", "device_card_forget"},
     verb \in DOMAIN ModalOf, d \in DeviceIds}
Submitted ==
  {[type |-> "view_submission", user |-> u, callback |-> modal.kind,
    metadata |-> modal.id, label |-> label, about |-> modal.about] :
     u \in Users, modal \in Modals, label \in Labels}
Interactions == Opened \cup Acted \cup Submitted

MessagesOK ==
  /\ inbox \in Seq(Interactions)
  /\ screen \in [Users -> Seq(Modals)]
  /\ homeUsers \subseteq Users

\* What the loop takes is one of the interactions, and leaves the others.
LEMMA TakenMessage ==
  ASSUME MessagesOK, NEW type, Take(type)
  PROVE  /\ Head(inbox) \in Interactions
         /\ Head(inbox).type = type
         /\ inbox' \in Seq(Interactions)
  BY HeadTailProperties DEF MessagesOK, Take

\* The modal on top, and what is left without it.
LEMMA TopModal ==
  ASSUME MessagesOK, NEW u \in Users, screen[u] # <<>>
  PROVE  /\ Top(u) \in Modals
         /\ Pop(u) \in [Users -> Seq(Modals)]
<1>1. screen[u] \in Seq(Modals) /\ Len(screen[u]) \in Nat \ {0}
  BY DEF MessagesOK
<1>2. Top(u) \in Modals
  BY <1>1 DEF Top
<1>3. SubSeq(screen[u], 1, Len(screen[u]) - 1) \in Seq(Modals)
  BY <1>1
<1>4. Pop(u) \in [Users -> Seq(Modals)]
  BY <1>3 DEF Pop, MessagesOK
<1>5. QED
  BY <1>2, <1>4

\* A click adds an interaction to those there are.
LEMMA ClickMessages ==
  ASSUME MessagesOK, NEW interaction \in Interactions, Click(interaction),
         screen' \in [Users -> Seq(Modals)]
  PROVE  MessagesOK'
  BY DEF Click, MessagesOK, engine

\* What a row or a card sends, and the modal the daemon makes of it, are about
\* the device that the user clicked.
LEMMA ActedIsAbout ==
  ASSUME NEW x \in Acted
  PROVE  /\ x.type = "block_actions" /\ x.user \in Users
         /\ \A modal \in ViewFor(SplitOnce(x.value).verb, SplitOnce(x.value).id, x.about) :
              modal \in Modals
<1>1. PICK u \in Users, action \in {"device_overflow", "device_card_rename", "device_card_forget"},
           verb \in DOMAIN ModalOf, d \in DeviceIds :
        x = [type |-> "block_actions", user |-> u, action |-> action,
             value |-> Value(verb, d), about |-> d]
  BY DEF Acted
<1>2. d \in Seq(STRING)
  BY SlackAppAssumption
<1>3. d \in Seq(STRING \cup {verb}) /\ verb \in STRING \cup {verb}
  BY <1>2, SeqMonotonic
<1>4. SplitOnce(x.value) = [verb |-> verb, id |-> d]
  BY <1>1, <1>3, ValueSplits
<1>5. ViewFor(verb, d, d) \subseteq Modals
  BY DEF ViewFor, Modal, Modals
<1>6. QED
  BY <1>1, <1>4, <1>5

LEMMA SubmittedIsAbout ==
  ASSUME NEW x \in Submitted
  PROVE  /\ x.type = "view_submission"
         /\ x.metadata = x.about /\ x.metadata \in DeviceIds /\ x.label \in Labels
<1>1. PICK u \in Users, modal \in Modals, label \in Labels :
        x = [type |-> "view_submission", user |-> u, callback |-> modal.kind,
             metadata |-> modal.id, label |-> label, about |-> modal.about]
  BY DEF Submitted
<1>2. modal.id = modal.about /\ modal.id \in DeviceIds
  BY DEF Modals
<1>3. QED
  BY <1>1, <1>2

LEMMA InteractionTypes ==
  ASSUME NEW x \in Interactions
  PROVE  /\ x.type = "app_home_opened" => x.user \in Users
         /\ x.type = "block_actions" => x \in Acted
         /\ x.type = "view_submission" => x \in Submitted
<1>1. ASSUME x \in Opened PROVE x.type = "app_home_opened" /\ x.user \in Users
  BY <1>1 DEF Opened
<1>2. x \in Acted => x.type = "block_actions"
  BY ActedIsAbout
<1>3. x \in Submitted => x.type = "view_submission"
  BY SubmittedIsAbout
<1>4. QED
  BY <1>1, <1>2, <1>3 DEF Interactions

\* What users do.
LEMMA UserMessages ==
  ASSUME MessagesOK,
         \/ \E u \in Users : OpenHome(u) \/ Cancel(u)
         \/ \E u \in Users, d \in DeviceIds, verb \in DOMAIN ModalOf : ClickRow(u, d, verb)
         \/ \E u \in Users, verb \in {"rename", "forget"} : ClickCard(u, verb)
         \/ \E u \in Users, label \in Labels : Submit(u, label)
  PROVE  MessagesOK'
<1>1. CASE \E u \in Users : OpenHome(u)
  <2>1. PICK u \in Users : OpenHome(u)
    BY <1>1
  <2>2. [type |-> "app_home_opened", user |-> u] \in Interactions
    BY DEF Interactions, Opened
  <2>3. QED
    BY <2>1, <2>2, ClickMessages DEF OpenHome, MessagesOK
<1>2. CASE \E u \in Users : Cancel(u)
  BY <1>2, TopModal DEF Cancel, engine, MessagesOK
<1>3. CASE \E u \in Users, d \in DeviceIds, verb \in DOMAIN ModalOf : ClickRow(u, d, verb)
  <2>1. PICK u \in Users, d \in DeviceIds, verb \in DOMAIN ModalOf : ClickRow(u, d, verb)
    BY <1>3
  <2>2. [type |-> "block_actions", user |-> u, action |-> "device_overflow",
         value |-> Value(verb, d), about |-> d] \in Interactions
    BY DEF Interactions, Acted
  <2>3. QED
    BY <2>1, <2>2, ClickMessages DEF ClickRow, MessagesOK
<1>4. CASE \E u \in Users, verb \in {"rename", "forget"} : ClickCard(u, verb)
  <2>1. PICK u \in Users, verb \in {"rename", "forget"} : ClickCard(u, verb)
    BY <1>4
  <2> DEFINE action == IF verb = "rename" THEN "device_card_rename" ELSE "device_card_forget"
  <2>2. Top(u) \in Modals
    BY <2>1, TopModal DEF ClickCard
  <2>3. Top(u).id = Top(u).about /\ Top(u).id \in DeviceIds
    BY <2>2 DEF Modals
  <2>4. [type |-> "block_actions", user |-> u, action |-> action,
         value |-> Value(verb, Top(u).id), about |-> Top(u).about] \in Interactions
    BY <2>3 DEF Interactions, Acted, ModalOf
  <2>5. QED
    BY <2>1, <2>4, ClickMessages DEF ClickCard, MessagesOK
<1>5. CASE \E u \in Users, label \in Labels : Submit(u, label)
  <2>1. PICK u \in Users, label \in Labels : Submit(u, label)
    BY <1>5
  <2>2. Top(u) \in Modals /\ Pop(u) \in [Users -> Seq(Modals)]
    BY <2>1, TopModal DEF Submit
  <2>3. [type |-> "view_submission", user |-> u, callback |-> Top(u).kind,
         metadata |-> Top(u).id, label |-> label, about |-> Top(u).about] \in Interactions
    BY <2>2 DEF Interactions, Submitted
  <2>4. QED
    BY <2>1, <2>2, <2>3, ClickMessages DEF Submit
<1>6. QED
  BY <1>1, <1>2, <1>3, <1>4, <1>5

\* A modal that opens is about the device that was clicked.
LEMMA BlockActionMessages ==
  ASSUME MessagesOK, HandleBlockAction
  PROVE  MessagesOK'
<1> DEFINE x == Head(inbox)
           views == ViewFor(SplitOnce(x.value).verb, SplitOnce(x.value).id, x.about)
<1>1. x \in Acted /\ inbox' \in Seq(Interactions)
  BY TakenMessage, InteractionTypes DEF HandleBlockAction
<1>2. x.user \in Users /\ views \subseteq Modals
  BY <1>1, ActedIsAbout
<1>3. screen[x.user] \in Seq(Modals)
  BY <1>2 DEF MessagesOK
<1> HIDE DEF views
<1>4. \A view \in views : Shown(x.action, screen[x.user], view) \subseteq Seq(Modals)
  <2> TAKE view \in views
  <2>1. view \in Modals
    BY <1>2
  <2>2. <<view>> \in Seq(Modals) /\ Append(screen[x.user], view) \in Seq(Modals)
    BY <1>3, <2>1
  <2>3. QED
    BY <1>3, <2>2 DEF Shown
<1>5. CASE UNCHANGED screen
  BY <1>1, <1>5 DEF HandleBlockAction, MessagesOK, engine
<1>6. CASE \E view \in views : \E stack \in Shown(x.action, screen[x.user], view) :
             screen' = [screen EXCEPT ![x.user] = stack]
  <2>1. PICK stack \in Seq(Modals) : screen' = [screen EXCEPT ![x.user] = stack]
    BY <1>4, <1>6
  <2>2. screen' \in [Users -> Seq(Modals)]
    BY <2>1 DEF MessagesOK
  <2>3. QED
    BY <1>1, <2>2 DEF HandleBlockAction, MessagesOK, engine
<1>7. QED
  BY <1>5, <1>6 DEF HandleBlockAction, views

LEMMA NextMessages ==
  ASSUME MessagesOK, [Next]_vars
  PROVE  MessagesOK'
<1>1. CASE HomeOpened
  <2>1. Head(inbox).user \in Users /\ inbox' \in Seq(Interactions)
    BY <1>1, TakenMessage, InteractionTypes DEF HomeOpened
  <2>2. QED
    BY <1>1, <2>1 DEF HomeOpened, MessagesOK
<1>2. CASE Rename \/ Forget
  <2>1. inbox' \in Seq(Interactions)
    BY <1>2, TakenMessage DEF Rename, Forget
  <2>2. QED
    BY <1>2, <2>1 DEF Rename, Forget, MessagesOK, engine
<1>3. CASE Stop
  BY <1>3 DEF Stop, MessagesOK
<1>4. CASE \/ \E d \in DeviceIds, presence \in {"present", "gone"} : NetChange(d, presence)
           \/ RenderTick \/ Start \/ UNCHANGED vars
  BY <1>4 DEF NetChange, RenderTick, Start, vars, engine, slack, MessagesOK
<1>5. QED
  BY <1>1, <1>2, <1>3, <1>4, UserMessages, BlockActionMessages DEF Next

LEMMA InitMessages == Init => MessagesOK
  BY DEF Init, MessagesOK

-----------------------------------------------------------------------------
(* Changes are asked for *)

LEMMA NextAsks ==
  ASSUME TablesOK, MessagesOK, [Next]_vars,
         NEW d,
         \/ up' /\ d \in DOMAIN known \ DOMAIN known'
         \/ Label(nicknames', d) # Label(nicknames, d)
  PROVE  inbox # <<>> /\ Head(inbox).type = "view_submission" /\ Head(inbox).about = d
<1>1. ~UNCHANGED <<known, nicknames>>
  OBVIOUS
<1>2. ~Start
  <2>1. SUFFICES ASSUME Start PROVE FALSE
    OBVIOUS
  <2>2. nicknames' = nicknames /\ DOMAIN known = {}
    BY <2>1 DEF Start, store, TablesOK
  <2>3. QED
    BY <2>2
<1>3. ~Stop
  BY DEF Stop, store
<1>4. ~ \E e \in DeviceIds, presence \in {"present", "gone"} : NetChange(e, presence)
  BY DEF NetChange, Put
<1>5. Rename \/ Forget
  BY <1>1, <1>2, <1>3, <1>4
  DEF Next, OpenHome, ClickRow, ClickCard, Submit, Click, Cancel, HandleBlockAction,
      HomeOpened, RenderTick, vars, engine, store
<1>6. /\ inbox # <<>> /\ Head(inbox).type = "view_submission"
      /\ Head(inbox).metadata = Head(inbox).about
  BY <1>5, TakenMessage, InteractionTypes, SubmittedIsAbout DEF Rename, Forget, Take
<1>7. CASE Rename
  <2>1. known' = known
    BY <1>7 DEF Rename, engine
  <2>2. nicknames' \in {nicknames, Put(nicknames, Head(inbox).metadata, Head(inbox).label)}
    BY <1>7 DEF Rename
  <2>3. \A e : e # Head(inbox).metadata => Label(nicknames', e) = Label(nicknames, e)
    BY <2>2 DEF Label, Put
  <2>4. QED
    BY <1>6, <2>1, <2>3
<1>8. CASE Forget
  <2>1. nicknames' = nicknames
    BY <1>8 DEF Forget
  <2>2. known' = Drop(known, Head(inbox).metadata)
    BY <1>8 DEF Forget, ForgetDevice
  <2>3. QED
    BY <1>6, <2>1, <2>2 DEF Drop
<1>9. QED
  BY <1>5, <1>7, <1>8

LEMMA AlwaysMessages == Spec => [](TablesOK /\ PastOK /\ MessagesOK)
<1>1. TablesOK /\ PastOK /\ MessagesOK /\ [Next]_vars => (TablesOK /\ PastOK /\ MessagesOK)'
  BY NextTables, NextPast, NextMessages
<1>2. QED
  BY InitTables, InitMessages, <1>1, PTL DEF Spec

(* No device is removed and no label changes unless the user who submitted  *)
(* that had clicked on that very device, whatever ids devices have and      *)
(* however users stack, cancel and submit modals meanwhile.                 *)
THEOREM OnlyWhatIsAsked == Spec => ChangesAreAsked
<1> DEFINE Asked ==
      \A d \in UNION {DOMAIN known, DOMAIN nicknames, DOMAIN nicknames'} :
        \/ up' /\ d \in DOMAIN known \ DOMAIN known'
        \/ Label(nicknames', d) # Label(nicknames, d)
        => /\ inbox # <<>> /\ Head(inbox).type = "view_submission"
           /\ Head(inbox).about = d
<1>1. TablesOK /\ PastOK /\ MessagesOK /\ [Next]_vars => Asked
  BY NextAsks
<1>2. QED
  BY AlwaysMessages, <1>1, PTL DEF Spec, ChangesAreAsked

-----------------------------------------------------------------------------
(* Home tabs *)

\* Publishing leaves those it reaches with a current Home tab.
LEMMA PublishHome ==
  ASSUME MessagesOK, PastOK, HomeIsCurrentOrExcused,
         NEW users \in SUBSET Users, Publish(users),
         UNCHANGED <<up, known, nicknames>>,
         homeUsers' \subseteq homeUsers \cup users,
         ~renderPending \/ homeUsers \subseteq users,
         up
  PROVE  HomeIsCurrentOrExcused'
<1>1. Current' = Current
  BY DEF Current, ViewsWithout
<1>2. ASSUME NEW u \in homeUsers' \ past'.excused PROVE home'[u] \in Current
  <2>1. u \in Users
    BY DEF MessagesOK
  <2>2. CASE u \in users
    BY <1>2, <2>1, <2>2, PublishDraws
  <2>3. CASE u \notin users
    <3>1. home'[u] = home[u] /\ u \notin past.excused
      BY <1>2, <2>1, <2>3, PublishDraws
    <3>2. u \in homeUsers /\ ~renderPending
      BY <1>2, <2>3
    <3>3. QED
      BY <3>1, <3>2 DEF HomeIsCurrentOrExcused
  <2>4. QED
    BY <2>2, <2>3
<1>3. QED
  BY <1>1, <1>2 DEF HomeIsCurrentOrExcused

\* What leaves engine, nicknames and Home tabs alone.
LEMMA HomeUntouched ==
  ASSUME HomeIsCurrentOrExcused, UNCHANGED <<up, engine, nicknames, home, past>>
  PROVE  HomeIsCurrentOrExcused'
<1>1. Current' = Current
  BY DEF Current, ViewsWithout, engine
<1>2. QED
  BY <1>1 DEF HomeIsCurrentOrExcused, engine

LEMMA NextHome ==
  ASSUME TablesOK, PastOK, MessagesOK, HomeIsCurrentOrExcused, [Next]_vars
  PROVE  HomeIsCurrentOrExcused'
<1>1. CASE HomeOpened
  <2>1. Head(inbox).user \in Users
    BY <1>1, TakenMessage, InteractionTypes DEF HomeOpened
  <2> DEFINE user == Head(inbox).user
  <2>2. Publish({user})
    BY <1>1 DEF HomeOpened
  <2>3. /\ UNCHANGED <<up, known, nicknames, renderPending>> /\ up
        /\ homeUsers' = homeUsers \cup {user}
    BY <1>1 DEF HomeOpened, Take, store
  <2>4. CASE renderPending
    BY <2>3, <2>4 DEF HomeIsCurrentOrExcused
  <2>5. CASE ~renderPending
    BY <2>1, <2>2, <2>3, <2>5, PublishHome
  <2>6. QED
    BY <2>4, <2>5
<1>2. CASE RenderTick
  <2>1. Publish(homeUsers)
    BY <1>2 DEF RenderTick
  <2>2. UNCHANGED <<up, known, nicknames, homeUsers>> /\ up
    BY <1>2 DEF RenderTick, store
  <2>3. homeUsers \in SUBSET Users
    BY DEF MessagesOK
  <2>4. QED
    BY <2>1, <2>2, <2>3, PublishHome
<1>3. CASE Rename \/ Forget
  <2>1. CASE Rename
    <3>1. past' = [past EXCEPT !.excused = homeUsers]
      BY <2>1 DEF Rename
    <3>2. past'.excused = homeUsers
      BY <3>1 DEF PastOK
    <3>3. QED
      BY <2>1, <3>2 DEF Rename, engine, HomeIsCurrentOrExcused
  <2>2. CASE Forget
    BY <2>2, ForgetTables DEF Forget, HomeIsCurrentOrExcused
  <2>3. QED
    BY <1>3, <2>1, <2>2
<1>4. CASE \E d \in DeviceIds, presence \in {"present", "gone"} : NetChange(d, presence)
  BY <1>4 DEF NetChange, HomeIsCurrentOrExcused
<1>5. CASE Stop
  BY <1>5 DEF Stop, HomeIsCurrentOrExcused
<1>6. CASE Start
  BY <1>6 DEF Start, TablesOK, HomeIsCurrentOrExcused
<1>7. CASE UNCHANGED <<up, engine, nicknames, home, past>>
  BY <1>7, HomeUntouched
<1>8. QED
  BY <1>1, <1>2, <1>3, <1>4, <1>5, <1>6, <1>7
  DEF Next, OpenHome, ClickRow, ClickCard, Submit, Click, Cancel, HandleBlockAction,
      Take, vars, store, slack

(* Whoever has opened the Home tab sees who is there under the nicknames    *)
(* they have, or a render is pending, save for what a submission changed,   *)
(* what a publish failed to show, and what was drawn while a nickname could *)
(* not be read: for any number of users and devices, in any order of clicks *)
(* and failures.                                                            *)
THEOREM HomeIsCurrent == Spec => []HomeIsCurrentOrExcused
<1> DEFINE Inv == TablesOK /\ PastOK /\ MessagesOK /\ HomeIsCurrentOrExcused
<1>1. Init => Inv
  BY InitTables, InitMessages DEF Init, HomeIsCurrentOrExcused
<1>2. Inv /\ [Next]_vars => Inv'
  BY NextTables, NextPast, NextMessages, NextHome
<1>3. QED
  BY <1>1, <1>2, PTL DEF Spec
-----------------------------------------------------------------------------
(* Types *)

MapsOK == /\ IsMap(known, Presences) /\ IsMap(rows, Presences) /\ IsMap(nicknames, Labels)
          /\ ~up => known = <<>>

\* The empty map, and one with an entry more, less or replaced.
LEMMA EmptyMap == \A S : IsMap(<<>>, S)
  BY DEF IsMap

LEMMA PutMap ==
  ASSUME NEW S, NEW f, IsMap(f, S), NEW d \in DeviceIds, NEW y \in S
  PROVE  IsMap(Put(f, d, y), S)
  BY DEF IsMap, Put

LEMMA DropMap ==
  ASSUME NEW S, NEW f, IsMap(f, S), NEW d
  PROVE  IsMap(Drop(f, d), S)
  BY DEF IsMap, Drop

LEMMA NextMaps ==
  ASSUME MapsOK, MessagesOK, [Next]_vars
  PROVE  MapsOK'
<1>1. CASE Rename
  <2>1. Head(inbox).metadata \in DeviceIds /\ Head(inbox).label \in Labels
    BY <1>1, TakenMessage, InteractionTypes, SubmittedIsAbout DEF Rename
  <2>2. IsMap(Put(nicknames, Head(inbox).metadata, Head(inbox).label), Labels)
    BY <2>1, PutMap DEF MapsOK
  <2>3. IsMap(nicknames', Labels)
    BY <1>1, <2>2 DEF Rename, MapsOK
  <2>4. QED
    BY <1>1, <2>3 DEF Rename, Take, engine, MapsOK
<1>2. CASE Forget
  <2>1. PICK ok \in BOOLEAN : ForgetDevice(Head(inbox).metadata, ok)
    BY <1>2 DEF Forget, Outcomes
  <2>2. IsMap(known', Presences) /\ IsMap(rows', Presences)
    BY <2>1, DropMap DEF ForgetDevice, MapsOK
  <2>3. up /\ up' /\ nicknames' = nicknames
    BY <1>2 DEF Forget, Take
  <2>4. QED
    BY <2>2, <2>3 DEF MapsOK
<1>3. CASE \E d \in DeviceIds, presence \in {"present", "gone"} : NetChange(d, presence)
  <2>1. PICK d \in DeviceIds, presence \in {"present", "gone"} : NetChange(d, presence)
    BY <1>3
  <2>2. PICK ok \in BOOLEAN : rows' = IF ok THEN Put(rows, d, presence) ELSE rows
    BY <2>1 DEF NetChange, Outcomes
  <2>3. IsMap(Put(known, d, presence), Presences) /\ IsMap(Put(rows, d, presence), Presences)
    BY PutMap DEF MapsOK, Presences
  <2>4. IsMap(rows', Presences)
    BY <2>2, <2>3 DEF MapsOK
  <2>5. known' = Put(known, d, presence) /\ up' /\ nicknames' = nicknames
    BY <2>1 DEF NetChange
  <2>6. QED
    BY <2>3, <2>4, <2>5 DEF MapsOK
<1>4. CASE Start
  <2>1. known' \in {rows, <<>>} /\ up' /\ UNCHANGED <<rows, nicknames>>
    BY <1>4 DEF Start, store
  <2>2. QED
    BY <2>1, EmptyMap DEF MapsOK
<1>5. CASE Stop
  BY <1>5, EmptyMap DEF Stop, store, MapsOK
<1>6. CASE UNCHANGED <<up, known, rows, nicknames>>
  BY <1>6 DEF MapsOK
<1>7. QED
  BY <1>1, <1>2, <1>3, <1>4, <1>5, <1>6
  DEF Next, OpenHome, ClickRow, ClickCard, Submit, Click, Cancel, HandleBlockAction,
      HomeOpened, RenderTick, Take, vars, engine, store

\* A Home tab has rows of known devices; the inbox is as long as it may be.
ViewsOK == /\ \A u \in Users : home[u] = None \/ DOMAIN home[u].rows \subseteq DeviceIds
           /\ Len(inbox) <= MaxInbox
           /\ ~up => inbox = <<>>

LEMMA CurrentRows ==
  ASSUME MapsOK, NEW unread, NEW view \in ViewsWithout(unread)
  PROVE  DOMAIN view.rows \subseteq DeviceIds
<1>1. \E names : view \in HomeViews(known, names)
  BY DEF ViewsWithout
<1>2. PICK names : view \in HomeViews(known, names)
  BY <1>1
<1>3. PICK shown \in SUBSET DOMAIN known :
        view = [rows |-> [d \in shown |-> [label |-> Label(names, d), presence |-> known[d]]],
                more |-> Cardinality(DOMAIN known) - Cardinality(shown)]
  BY <1>2 DEF HomeViews
<1>4. DOMAIN view.rows = shown
  BY <1>3
<1>5. QED
  BY <1>4 DEF MapsOK, IsMap

\* Taking a message leaves one less.
LEMMA TakeShortens ==
  ASSUME MessagesOK, ViewsOK, NEW type, Take(type)
  PROVE  Len(inbox') <= MaxInbox /\ up'
<1>1. /\ inbox \in Seq(Interactions) /\ inbox # <<>> /\ inbox' = Tail(inbox)
      /\ up /\ up' = up
  BY DEF Take, MessagesOK
<1>2. Len(inbox') = Len(inbox) - 1 /\ Len(inbox) \in Nat
  BY <1>1
<1>3. QED
  BY <1>1, <1>2, SlackAppAssumption DEF ViewsOK

LEMMA PublishRows ==
  ASSUME MapsOK, ViewsOK, NEW users, Publish(users)
  PROVE  \A u \in Users : home'[u] = None \/ DOMAIN home'[u].rows \subseteq DeviceIds
<1>1. PICK reached, unread, view :
        /\ \A u \in reached : view[u] \in ViewsWithout(unread[u])
        /\ home' = [u \in Users |-> IF u \in reached THEN view[u] ELSE home[u]]
  BY PublishParts
<1>2. \A u \in reached : DOMAIN view[u].rows \subseteq DeviceIds
  BY <1>1, CurrentRows
<1>3. QED
  BY <1>1, <1>2 DEF ViewsOK

LEMMA NextViews ==
  ASSUME MapsOK, MessagesOK, ViewsOK, [Next]_vars
  PROVE  ViewsOK'
<1>1. CASE \E interaction : Click(interaction)
  <2>1. PICK interaction : Click(interaction)
    BY <1>1
  <2>2. /\ inbox \in Seq(Interactions) /\ Len(inbox) < MaxInbox
        /\ inbox' = Append(inbox, interaction) /\ home' = home /\ up /\ up' = up
    BY <2>1 DEF Click, MessagesOK
  <2>3. Len(inbox') = Len(inbox) + 1 /\ Len(inbox) \in Nat
    BY <2>2
  <2>4. QED
    BY <2>2, <2>3, SlackAppAssumption DEF ViewsOK
<1>2. CASE HandleBlockAction \/ Rename \/ Forget
  <2>1. home' = home /\ \E type : Take(type)
    BY <1>2 DEF HandleBlockAction, Rename, Forget
  <2>2. QED
    BY <2>1, TakeShortens DEF ViewsOK
<1>3. CASE HomeOpened
  <2>1. (\E type : Take(type)) /\ \E users : Publish(users)
    BY <1>3 DEF HomeOpened
  <2>2. QED
    BY <2>1, TakeShortens, PublishRows DEF ViewsOK
<1>4. CASE RenderTick
  <2>1. up' = up /\ inbox' = inbox /\ \E users : Publish(users)
    BY <1>4 DEF RenderTick
  <2>2. QED
    BY <2>1, PublishRows DEF ViewsOK
<1>5. CASE Stop
  BY <1>5, SlackAppAssumption DEF Stop, ViewsOK
<1>6. CASE home' = home /\ inbox' = inbox /\ (up' = up \/ up')
  BY <1>6 DEF ViewsOK
<1>7. QED
  BY <1>1, <1>2, <1>3, <1>4, <1>5, <1>6
  DEF Next, OpenHome, ClickRow, ClickCard, Submit, Cancel, NetChange, Start, vars, slack

(* Tables, Home tabs, modals and interactions are about devices there have  *)
(* been, and a stopped process has nothing in memory and nothing to take.   *)
THEOREM AppIsWellFormed == Spec => []TypeOK
<1> DEFINE Flags == up \in BOOLEAN /\ renderPending \in BOOLEAN
           Inv   == Flags /\ TablesOK /\ PastOK /\ MessagesOK /\ MapsOK /\ ViewsOK
<1>1. Init => Inv
  <2>1. Init => Flags /\ TablesOK /\ PastOK /\ MessagesOK
    BY InitTables, InitMessages DEF Init
  <2>2. Init => MapsOK
    BY EmptyMap DEF Init, MapsOK
  <2>3. Init => ViewsOK
    BY SlackAppAssumption DEF Init, ViewsOK
  <2>4. QED
    BY <2>1, <2>2, <2>3
<1>2. Flags /\ [Next]_vars => Flags'
  BY DEF Next, OpenHome, ClickRow, ClickCard, Submit, Click, Cancel, HandleBlockAction,
         HomeOpened, Rename, Forget, NetChange, RenderTick, Stop, Start, Take, vars, engine
<1>3. Inv /\ [Next]_vars => Inv'
  BY <1>2, NextTables, NextPast, NextMessages, NextMaps, NextViews
<1>4. Inv => TypeOK
  <2> SUFFICES ASSUME Inv PROVE TypeOK
    OBVIOUS
  <2>1. \A u \in Users : \A i \in DOMAIN screen[u] : screen[u][i].id \in DeviceIds
    <3> TAKE u \in Users
    <3> TAKE i \in DOMAIN screen[u]
    <3>1. screen[u][i] \in Modals
      BY DEF MessagesOK
    <3>2. QED
      BY <3>1 DEF Modals
  <2>2. QED
    BY <2>1 DEF TypeOK, MapsOK, ViewsOK, MessagesOK, TablesOK
<1>5. QED
  BY <1>1, <1>3, <1>4, PTL DEF Spec
=============================================================================
