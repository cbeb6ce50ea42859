------------------------------ MODULE SlackApp ------------------------------
(***************************************************************************)
(* What users do in Slack and axolotchid does about it: the Home tab with  *)
(* its overflow menus, the modals they open and stack, block actions and   *)
(* submissions (main.rs, axolotchi-slack), against devices that come and   *)
(* go, calls and writes that fail, and restarts.                           *)
(*                                                                         *)
(* An id is the sequence of what stands between the colons of a MAC        *)
(* address, and a value "verb:id" of an action is the verb before it.  The *)
(* engine's part of the state is that of Daemon, reduced to who is there;  *)
(* the loop runs one arm at a time, so an interaction is one action.       *)
(***************************************************************************)
EXTENDS Integers, FiniteSets, Sequences

CONSTANTS
  None,
  Users, DeviceIds, Labels,
  Rank,            \* the order of labels: [Labels \cup DeviceIds -> Nat]
  MaxHomeDevices,  \* MAX_HOME_DEVICES
  Faults,          \* what may fail: "write", "delete", "kv", "read", "load", "call"
  MaxFaults,       \* bounds: failures,
  MaxNetChanges,   \* devices coming and going,
  MaxStarts,       \* starts of the daemon,
  MaxClicks,       \* what users do that reaches the daemon,
  MaxInbox         \* interactions on their way at a time

ASSUME SlackAppAssumption ==
  /\ \A d \in DeviceIds : d \in Seq(STRING) /\ d # <<>>
  /\ None \notin Labels \cup DeviceIds
  /\ Rank \in [Labels \cup DeviceIds -> Nat]
  /\ MaxHomeDevices \in Nat \ {0}
  /\ Faults \subseteq {"write", "delete", "kv", "read", "load", "call"}
  /\ {MaxFaults, MaxNetChanges, MaxStarts, MaxClicks, MaxInbox} \subseteq Nat

VARIABLES
  up,                        \* the process runs
  known,                     \* state.devices: id -> "present" or "gone"
  renderPending, homeUsers,  \* locals of the loop
  rows, nicknames,           \* SQLite: `devices`, and nickname:<id> of `kv`
  inbox,                     \* interactions not yet taken by the loop
  home,                      \* Slack: the Home tab of each user, or None
  screen,                    \* Slack: the modals of each user, the last on top
  past,                      \* for properties, see NoPast
  used                       \* how much of the bounds is used up

engine == <<known, renderPending, homeUsers>>
store  == <<rows, nicknames>>
slack  == <<inbox, home, screen>>
vars   == <<up, engine, store, slack, past, used>>

\* forgotten: devices forgotten by a user and not heard since; kept: those of
\* them whose row outlived a failed delete; unwritten: devices whose last write
\* failed; excused: users whose Home tab something has changed that asks for no
\* render, or whose last publish failed, or drew an id for a nickname that could
\* not be read.
NoPast == [forgotten |-> {}, kept |-> {}, unwritten |-> {}, excused |-> {}]

Init ==
  /\ up = FALSE
  /\ known = <<>> /\ renderPending = FALSE /\ homeUsers = {}
  /\ rows = <<>> /\ nicknames = <<>>
  /\ inbox = <<>>
  /\ home = [u \in Users |-> None]
  /\ screen = [u \in Users |-> <<>>]
  /\ past = NoPast
  /\ used = [faults |-> 0, changes |-> 0, starts |-> 0, clicks |-> 0]

\* Whether a write or call succeeds, and what a failure uses up.
Outcomes(kind) ==
  {TRUE} \cup (IF kind \in Faults /\ used.faults < MaxFaults THEN {FALSE} ELSE {})
Spent(ok, what) ==
  used' = [used EXCEPT !.faults = IF ok THEN @ ELSE @ + 1, ![what] = @ + 1]

Put(f, x, y) == [z \in DOMAIN f \cup {x} |-> IF z = x THEN y ELSE f[z]]
Drop(f, x)   == [z \in DOMAIN f \ {x} |-> f[z]]

-----------------------------------------------------------------------------
(* Views *)

\* device_label, of the nicknames that can be read.
Label(names, d) == IF d \in DOMAIN names THEN names[d] ELSE d

\* home_view: the first MAX_HOME_DEVICES in the order of their labels, those
\* with the same label in any order, and how many more there are.
HomeViews(devices, names) ==
  {[rows |-> [d \in shown |-> [label |-> Label(names, d), presence |-> devices[d]]],
    more |-> Cardinality(DOMAIN devices) - Cardinality(shown)] :
     shown \in {s \in SUBSET DOMAIN devices :
       /\ Cardinality(s) <= MaxHomeDevices
       /\ s # DOMAIN devices => Cardinality(s) = MaxHomeDevices
       /\ \A d \in s, e \in DOMAIN devices \ s : Rank[Label(names, d)] <= Rank[Label(names, e)]}}

\* What is drawn when reading the nicknames of `unread` fails: kv_get(..).ok()
\* turns an error into what is not set.
ViewsWithout(unread) ==
  HomeViews(known, [d \in DOMAIN nicknames \ unread |-> nicknames[d]])

Current == ViewsWithout({})

\* For each of some users, the nicknames that cannot be read.
Unreadable(users) ==
  [users -> IF FALSE \in Outcomes("read") THEN SUBSET DOMAIN nicknames ELSE {{}}]

\* publish_home_for each of some users: a view drawn for that user alone, and
\* views_publish, which reaches some of them.
Publish(users) ==
  \E reached \in SUBSET users : \E unread \in Unreadable(reached) :
    LET misread == {u \in reached : unread[u] # {}} IN
    /\ (reached = users) \in Outcomes("call")
    /\ \E view \in [reached -> UNION {ViewsWithout(unread[u]) : u \in reached}] :
         /\ \A u \in reached : view[u] \in ViewsWithout(unread[u])
         /\ home' = [u \in Users |-> IF u \in reached THEN view[u] ELSE home[u]]
    /\ past' = [past EXCEPT !.excused = (@ \ users) \cup (users \ reached) \cup misread]
    /\ used' = [used EXCEPT !.faults = IF reached = users /\ misread = {} THEN @ ELSE @ + 1]

Value(verb, id) == <<verb>> \o id

\* Mutant of SplitOnce: the part after the next colon is lost.
SplitEverywhere(value) == [verb |-> value[1], id |-> <<value[2]>>]

\* action.value.split_once(':')
SplitOnce(value) == [verb |-> Head(value), id |-> Tail(value)]

\* The modal of each verb: device_card_modal, edit_modal, forget_confirm_modal.
ModalOf == [details |-> "device_card", rename |-> "edit_device",
            forget |-> "forget_device_confirm"]

\* `about` is the device whose row the user clicked, known to Slack only by the
\* value; the daemon does not see it.
Modal(verb, id, about) == [kind |-> ModalOf[verb], id |-> id, about |-> about]

\* The modal that handle_block_action makes, if any: no card of a device that
\* is not known, but a rename or forget modal of any.
ViewFor(verb, id, about) ==
  IF \/ verb \notin DOMAIN ModalOf
     \/ verb = "details" /\ id \notin DOMAIN known
  THEN {} ELSE {Modal(verb, id, about)}

-----------------------------------------------------------------------------
(* Users *)

Click(interaction) ==
  /\ up /\ used.clicks < MaxClicks /\ Len(inbox) < MaxInbox
  /\ inbox' = Append(inbox, interaction)
  /\ Spent(TRUE, "clicks")
  /\ UNCHANGED <<up, engine, store, home, past>>

Top(u) == screen[u][Len(screen[u])]
Pop(u) == [screen EXCEPT ![u] = SubSeq(@, 1, Len(@) - 1)]

OpenHome(u) ==
  /\ Click([type |-> "app_home_opened", user |-> u])
  /\ UNCHANGED screen

\* The overflow menu of a row of the Home tab, with no modal in front of it.
ClickRow(u, d, verb) ==
  /\ home[u] # None /\ d \in DOMAIN home[u].rows
  /\ screen[u] = <<>>
  /\ Click([type |-> "block_actions", user |-> u, action |-> "device_overflow",
            value |-> Value(verb, d), about |-> d])
  /\ UNCHANGED screen

\* The buttons of the device card.
ClickCard(u, verb) ==
  /\ screen[u] # <<>> /\ Top(u).kind = "device_card"
  /\ Click([type |-> "block_actions", user |-> u,
            action |-> IF verb = "rename" THEN "device_card_rename" ELSE "device_card_forget",
            value |-> Value(verb, Top(u).id), about |-> Top(u).about])
  /\ UNCHANGED screen

\* Save or Forget; the acknowledgement closes the modal and shows what is below.
Submit(u, label) ==
  /\ screen[u] # <<>> /\ Top(u).kind # "device_card"
  /\ Click([type |-> "view_submission", user |-> u, callback |-> Top(u).kind,
            metadata |-> Top(u).id, label |-> label, about |-> Top(u).about])
  /\ screen' = Pop(u)

Cancel(u) ==
  /\ screen[u] # <<>>
  /\ screen' = Pop(u)
  /\ UNCHANGED <<up, engine, store, inbox, home, past, used>>

-----------------------------------------------------------------------------
(* The interaction arm *)

Take(type) ==
  /\ up /\ inbox # <<>> /\ Head(inbox).type = type
  /\ inbox' = Tail(inbox)
  /\ UNCHANGED up

\* views.open puts a modal in the place of those there are, or on top of them
\* if another click has come first; views.push needs one to be on top of.
Shown(action, stack, view) ==
  IF action = "device_overflow" THEN {<<view>>, Append(stack, view)}
  ELSE IF stack = <<>> THEN {stack} ELSE {Append(stack, view)}

HandleBlockAction ==
  /\ Take("block_actions")
  /\ LET action == Head(inbox)
         split  == SplitOnce(action.value)
         views  == ViewFor(split.verb, split.id, action.about)
     IN  \/ views = {} /\ UNCHANGED <<screen, used>>
         \/ \E view \in views, ok \in Outcomes("call") :
              /\ used' = [used EXCEPT !.faults = IF ok THEN @ ELSE @ + 1]
              /\ IF ok
                 THEN \E stack \in Shown(action.action, screen[action.user], view) :
                        screen' = [screen EXCEPT ![action.user] = stack]
                 ELSE UNCHANGED screen
  /\ UNCHANGED <<engine, store, home, past>>

HomeOpened ==
  /\ Take("app_home_opened")
  /\ homeUsers' = homeUsers \cup {Head(inbox).user}
  /\ Publish({Head(inbox).user})
  /\ UNCHANGED <<known, renderPending, store, screen>>

\* handle_view_submission, edit_device
Rename ==
  /\ Take("view_submission") /\ Head(inbox).callback = "edit_device"
  /\ \E ok \in Outcomes("kv") :
       /\ nicknames' = IF ok THEN Put(nicknames, Head(inbox).metadata, Head(inbox).label)
                       ELSE nicknames
       /\ used' = [used EXCEPT !.faults = IF ok THEN @ ELSE @ + 1]
  /\ past' = [past EXCEPT !.excused = homeUsers]
  /\ UNCHANGED <<engine, rows, home, screen>>

\* Mutants of ForgetDevice: only the row goes; only the entry in memory goes.
ForgetRowOnly(d, deleted) ==
  rows' = (IF deleted THEN Drop(rows, d) ELSE rows) /\ UNCHANGED known
ForgetMemoryOnly(d, deleted) ==
  known' = Drop(known, d) /\ UNCHANGED rows

ForgetDevice(d, deleted) ==
  /\ rows' = IF deleted THEN Drop(rows, d) ELSE rows
  /\ known' = Drop(known, d)

\* handle_view_submission, forget_device_confirm
Forget ==
  /\ Take("view_submission") /\ Head(inbox).callback = "forget_device_confirm"
  /\ LET d == Head(inbox).metadata IN
     \E ok \in Outcomes("delete") :
       /\ ForgetDevice(d, ok)
       /\ used' = [used EXCEPT !.faults = IF ok THEN @ ELSE @ + 1]
       /\ past' = [past EXCEPT
            !.forgotten = @ \cup {d},
            !.kept      = IF ok THEN @ \ {d} ELSE @ \cup ({d} \cap DOMAIN rows),
            !.unwritten = IF ok THEN @ \ {d} ELSE @ \cup {d},
            !.excused   = homeUsers]
  /\ UNCHANGED <<renderPending, homeUsers, nicknames, home, screen>>

-----------------------------------------------------------------------------
(* The rest of the daemon *)

\* The net arm, with what is persisted and drawn of it: a device joins, returns
\* or goes.
NetChange(d, presence) ==
  /\ up /\ used.changes < MaxNetChanges
  /\ IF d \in DOMAIN known THEN known[d] # presence ELSE presence = "present"
  /\ known' = Put(known, d, presence)
  /\ renderPending' = TRUE
  /\ \E ok \in Outcomes("write") :
       /\ rows' = IF ok THEN Put(rows, d, presence) ELSE rows
       /\ Spent(ok, "changes")
       /\ past' = [past EXCEPT
            !.forgotten = @ \ {d},
            !.kept      = @ \ {d},
            !.unwritten = IF ok THEN @ \ {d} ELSE @ \cup {d}]
  /\ UNCHANGED <<up, homeUsers, nicknames, slack>>

\* Mutant of RenderTick: the flag is cleared and nobody's Home tab redrawn.
RenderTickNobody ==
  /\ up /\ renderPending
  /\ renderPending' = FALSE
  /\ UNCHANGED <<up, known, homeUsers, store, slack, past, used>>

RenderTick ==
  /\ up /\ renderPending
  /\ renderPending' = FALSE
  /\ Publish(homeUsers)
  /\ UNCHANGED <<up, known, homeUsers, store, inbox, screen>>

\* The process stops; what it had not taken is lost, and Slack keeps its views.
Stop ==
  /\ up
  /\ up' = FALSE
  /\ known' = <<>> /\ renderPending' = FALSE /\ homeUsers' = {}
  /\ inbox' = <<>>
  /\ UNCHANGED <<store, home, screen, past, used>>

Start ==
  /\ ~up /\ used.starts < MaxStarts
  /\ up' = TRUE
  /\ \E ok \in Outcomes("load") :
       /\ known' = IF ok THEN rows ELSE <<>>
       /\ Spent(ok, "starts")
       /\ past' = [forgotten |-> IF ok THEN past.forgotten \ past.kept ELSE past.forgotten,
                   kept      |-> IF ok THEN {} ELSE past.kept,
                   unwritten |-> IF ok THEN {} ELSE DOMAIN rows,
                   excused   |-> {}]
  /\ UNCHANGED <<renderPending, homeUsers, store, slack>>

Next ==
  \/ \E u \in Users : OpenHome(u)
  \/ \E u \in Users, d \in DeviceIds, verb \in DOMAIN ModalOf : ClickRow(u, d, verb)
  \/ \E u \in Users, verb \in {"rename", "forget"} : ClickCard(u, verb)
  \/ \E u \in Users, label \in Labels : Submit(u, label)
  \/ \E u \in Users : Cancel(u)
  \/ HandleBlockAction \/ HomeOpened \/ Rename \/ Forget
  \/ \E d \in DeviceIds, presence \in {"present", "gone"} : NetChange(d, presence)
  \/ RenderTick \/ Stop \/ Start

Spec == Init /\ [][Next]_vars

-----------------------------------------------------------------------------
(* Tables, views, modals and interactions are about devices there have      *)
(* been, and a stopped process has nothing in memory.                       *)
Presences == {"present", "gone"}
IsMap(f, S) == DOMAIN f \subseteq DeviceIds /\ f \in [DOMAIN f -> S]

TypeOK ==
  /\ up \in BOOLEAN /\ renderPending \in BOOLEAN /\ homeUsers \subseteq Users
  /\ IsMap(known, Presences) /\ IsMap(rows, Presences) /\ IsMap(nicknames, Labels)
  /\ \A u \in Users :
       /\ home[u] = None \/ DOMAIN home[u].rows \subseteq DeviceIds
       /\ \A i \in DOMAIN screen[u] : screen[u][i].id \in DeviceIds
  /\ Len(inbox) <= MaxInbox
  /\ ~up => known = <<>> /\ inbox = <<>> /\ homeUsers = {}

(* Only a submission removes a device from memory or changes a nickname,    *)
(* and only of the device in whose row the user who submits it clicked, on  *)
(* whatever Home tab, and through whatever card, they did so; an id has the *)
(* colons that also end the verb of a value (main.rs:492).                  *)
ChangesAreAsked ==
  [][\A d \in UNION {DOMAIN known, DOMAIN nicknames, DOMAIN nicknames'} :
       \/ up' /\ d \in DOMAIN known \ DOMAIN known'
       \/ Label(nicknames', d) # Label(nicknames, d)
       => /\ inbox # <<>> /\ Head(inbox).type = "view_submission"
          /\ Head(inbox).about = d]_vars

(* A device that a user has forgotten is neither in memory nor in the table *)
(* until it is heard again, whatever modals and cards of it are still open  *)
(* and submitted, and through restarts.  Only a delete that failed leaves   *)
(* its row, and only a start brings it back from there (main.rs:555).       *)
ForgottenStaysForgotten ==
  /\ past.forgotten \cap DOMAIN known = {}
  /\ (past.forgotten \ past.kept) \cap DOMAIN rows = {}

(* The table has just what memory has, save for the devices whose own last  *)
(* write failed: one write that succeeds makes up for all that failed       *)
(* before it (main.rs:221, main.rs:555).                                    *)
TableTellsTheTruth ==
  up => \A d \in DeviceIds \ past.unwritten :
          /\ d \in DOMAIN known <=> d \in DOMAIN rows
          /\ d \in DOMAIN known => known[d] = rows[d]

(* The Home tab of a user who has opened it in this run shows who is there, *)
(* by their labels, or a render is pending; save for what a submission has  *)
(* changed since the last publish that reached the user, or that one drew   *)
(* with a nickname it could not read, or what a later one failed to show    *)
(* (main.rs:239, main.rs:349, main.rs:782).                                 *)
HomeIsCurrentOrExcused ==
  up /\ ~renderPending =>
    \A u \in homeUsers \ past.excused : home[u] \in Current

(* "Axo will forget *{}* completely" (forget_confirm_modal.rs): nothing of  *)
(* a device is left in the tables once a user has had it forgotten, and it  *)
(* has not been heard since.                                                *)
ForgetsCompletely ==
  (past.forgotten \ past.kept) \cap (DOMAIN rows \cup DOMAIN nicknames) = {}
=============================================================================
