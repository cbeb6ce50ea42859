---------------------------- MODULE StartupProofs ----------------------------
(***************************************************************************)
(* Proofs about LiveTank, for any channels, failures and bounds: the pair  *)
(* in use is that of the configured channel, and no live-tank message is   *)
(* posted without a cause.  And about Startup, for any number of tables,   *)
(* vendor lines, faults, stops and starts of systemd: what the loop finds, *)
(* when the migration runs again, and why systemd gives up.                *)
(***************************************************************************)
EXTENDS Startup, FiniteSetTheorems, TLAPS

-----------------------------------------------------------------------------
(* The set-up of the live tank, by itself (LiveTank) *)

\* The set-up is where its variables say; what it has posted is in the channel
\* that home_channel names.
SetUpOK ==
  /\ homeChannel \in Refs \cup {None}
  /\ mishaps \in Nat /\ reconfigs \in Nat /\ misreads \in Nat
  /\ liveTank # None => pc = "loop"
  /\ posted # None <=> pc \in {"pin", "saveChannel", "saveTs"}
  /\ posted # None => /\ posted \in messages
                      /\ homeChannel # None
                      /\ posted = Message(IdOf[homeChannel], posted.ts)
                      /\ posted.ts \in Nat
  /\ pc = "post" => homeChannel # None

\* The keys name an id, and a message there is unless something went wrong.
KeysOK ==
  /\ kvChannel # None => kvChannel \in Refs /\ IdOf[kvChannel] = kvChannel
  /\ mishaps = 0 /\ posted = None /\ kvChannel # None /\ kvTs # None
       => Message(kvChannel, kvTs) \in messages

\* Each message but the one that would be resumed has its cause; a set-up that is
\* about to post resumes none.
CausesOK ==
  /\ IsFiniteSet(messages)
  /\ Cardinality(messages)
       <= mishaps + reconfigs + misreads
            + (IF pc # "post" /\ (posted # None \/ Resumable) THEN 1 ELSE 0)

TankInv == SetUpOK /\ KeysOK /\ CausesOK /\ TankIsAtHome

LEMMA InitTankInv == Init => TankInv
  BY LiveTankAssumption, FS_EmptySet
  DEF Init, TankInv, SetUpOK, KeysOK, CausesOK, TankIsAtHome, Resumable

-----------------------------------------------------------------------------

\* Adding a message to those there are.
LEMMA OneMore ==
  ASSUME CausesOK, NEW message
  PROVE  /\ IsFiniteSet(messages \cup {message})
         /\ Cardinality(messages) \in Nat
         /\ Cardinality(messages \cup {message}) \in Nat
         /\ Cardinality(messages \cup {message}) <= Cardinality(messages) + 1
<1>1. /\ IsFiniteSet(messages \cup {message})
      /\ Cardinality(messages \cup {message}) =
           IF message \in messages THEN Cardinality(messages) ELSE Cardinality(messages) + 1
  BY FS_AddElement DEF CausesOK
<1>2. Cardinality(messages) \in Nat
  BY FS_CardinalityType DEF CausesOK
<1>3. QED
  BY <1>1, <1>2

LEMMA BeginStep ==
  ASSUME TankInv, Reconfigure \/ Begin
  PROVE  TankInv'
<1>1. Cardinality(messages) \in Nat
  BY FS_CardinalityType DEF TankInv, CausesOK
<1>2. CASE Reconfigure
  BY <1>1, <1>2, LiveTankAssumption
  DEF Reconfigure, kv, TankInv, SetUpOK, KeysOK, CausesOK, TankIsAtHome, Resumable
<1>3. CASE Begin
  BY <1>1, <1>3, LiveTankAssumption
  DEF Begin, kv, TankInv, SetUpOK, KeysOK, CausesOK, TankIsAtHome, Resumable, Message
<1>4. QED
  BY <1>2, <1>3

LEMMA PostStep ==
  ASSUME TankInv, Post \/ PostFails
  PROVE  TankInv'
<1> DEFINE message == Message(IdOf[homeChannel], Cardinality(messages) + 1)
<1>1. /\ Cardinality(messages) \in Nat
      /\ IsFiniteSet(messages \cup {message})
      /\ Cardinality(messages \cup {message}) \in Nat
      /\ Cardinality(messages \cup {message}) <= Cardinality(messages) + 1
  BY OneMore DEF TankInv
<1>2. homeChannel \in Refs
  BY DEF TankInv, SetUpOK, Post, PostFails
<1>3. message # None /\ message.ts \in Nat /\ message = Message(IdOf[homeChannel], message.ts)
  BY <1>1, <1>2, LiveTankAssumption DEF Message
<1> HIDE DEF message
<1>4. CASE Post
  <2>1. /\ posted' = message /\ messages' = messages \cup {message} /\ pc = "post" /\ pc' = "pin"
        /\ UNCHANGED <<homeChannel, liveTank, kvChannel, kvTs, reconfigs, mishaps, misreads>>
    BY <1>4 DEF Post, kv, message
  <2>2. QED
    BY <1>1, <1>2, <1>3, <2>1, LiveTankAssumption
    DEF TankInv, SetUpOK, KeysOK, CausesOK, TankIsAtHome, Resumable
<1>5. CASE PostFails
  <2>1. /\ pc = "post" /\ pc' = "loop"
        /\ \/ UNCHANGED <<messages, mishaps>>
           \/ messages' = messages \cup {message} /\ mishaps' = mishaps + 1
        /\ UNCHANGED <<homeChannel, posted, liveTank, kvChannel, kvTs, reconfigs, misreads>>
    BY <1>5 DEF PostFails, kv, message
  <2>2. QED
    BY <1>1, <1>2, <1>3, <2>1, LiveTankAssumption
    DEF TankInv, SetUpOK, KeysOK, CausesOK, TankIsAtHome, Resumable
<1>6. QED
  BY <1>4, <1>5

LEMMA SaveStep ==
  ASSUME TankInv, Pin \/ SaveChannel \/ SaveTs
  PROVE  TankInv'
<1>1. Cardinality(messages) \in Nat
  BY FS_CardinalityType DEF TankInv, CausesOK
<1>2. CASE Pin
  BY <1>1, <1>2, LiveTankAssumption
  DEF Pin, kv, TankInv, SetUpOK, KeysOK, CausesOK, TankIsAtHome, Resumable
<1>3. CASE SaveChannel
  BY <1>1, <1>3, LiveTankAssumption
  DEF SaveChannel, TankInv, SetUpOK, KeysOK, CausesOK, TankIsAtHome, Resumable, Message
<1>4. CASE SaveTs
  BY <1>1, <1>4, LiveTankAssumption
  DEF SaveTs, TankInv, SetUpOK, KeysOK, CausesOK, TankIsAtHome, Resumable, Message
<1>5. QED
  BY <1>2, <1>3, <1>4

LEMMA DieStep ==
  ASSUME TankInv, Die \/ UNCHANGED vars
  PROVE  TankInv'
<1>1. Cardinality(messages) \in Nat
  BY FS_CardinalityType DEF TankInv, CausesOK
<1>2. CASE Die
  BY <1>1, <1>2
  DEF Die, kv, TankInv, SetUpOK, KeysOK, CausesOK, TankIsAtHome, Resumable
<1>3. CASE UNCHANGED vars
  BY <1>3
  DEF vars, kv, TankInv, SetUpOK, KeysOK, CausesOK, TankIsAtHome, Resumable
<1>4. QED
  BY <1>2, <1>3

-----------------------------------------------------------------------------
(* Types of the live tank *)

\* The number that Slack gives the next message is one of those there may be.
LEMMA NextMessage ==
  ASSUME TankInv, Cardinality(messages) < MaxMessages, homeChannel # None
  PROVE  Message(IdOf[homeChannel], Cardinality(messages) + 1) \in Pairs
<1>1. Cardinality(messages) \in Nat /\ homeChannel \in Refs
  BY FS_CardinalityType DEF TankInv, SetUpOK, CausesOK
<1>2. Cardinality(messages) + 1 \in 1 .. MaxMessages
  BY <1>1, LiveTankAssumption
<1>3. QED
  BY <1>1, <1>2, LiveTankAssumption DEF Message, Pairs

LEMMA PairsAreNotNone == None \notin Pairs /\ None \notin 1 .. MaxMessages /\ None \notin Refs
  BY LiveTankAssumption DEF Pairs

LEMMA TypeStep ==
  ASSUME TankInv, TypeOK,
         \/ Reconfigure \/ Begin \/ Post \/ PostFails \/ Pin \/ SaveChannel \/ SaveTs
         \/ Die \/ UNCHANGED vars
  PROVE  TypeOK'
<1>1. CASE Reconfigure
  BY <1>1 DEF Reconfigure, kv, TypeOK
<1>2. CASE Begin
  BY <1>2, PairsAreNotNone DEF Begin, kv, TypeOK, Resumable, Message, Pairs
<1>3. CASE Post
  <2>1. /\ pc = "post" /\ homeChannel # None
        /\ posted' = Message(IdOf[homeChannel], Cardinality(messages) + 1)
        /\ messages' = messages \cup {posted'} /\ pc' = "pin"
        /\ UNCHANGED <<homeChannel, liveTank, kvChannel, kvTs>>
    BY <1>3 DEF Post, kv, TankInv, SetUpOK
  <2>2. posted' \in Pairs
    BY <1>3, <2>1, NextMessage DEF Post
  <2>3. QED
    BY <2>1, <2>2, PairsAreNotNone DEF TypeOK
<1>4. CASE PostFails
  <2>1. /\ pc = "post" /\ pc' = "loop" /\ homeChannel # None
        /\ UNCHANGED <<homeChannel, posted, liveTank, kvChannel, kvTs>>
    BY <1>4 DEF PostFails, kv, TankInv, SetUpOK
  <2>2. messages' \subseteq Pairs
    BY <1>4, <2>1, NextMessage DEF PostFails, TypeOK
  <2>3. QED
    BY <2>1, <2>2 DEF TypeOK
<1>5. CASE Pin
  BY <1>5 DEF Pin, kv, TypeOK
<1>6. CASE SaveChannel
  BY <1>6 DEF SaveChannel, TypeOK, Pairs
<1>7. CASE SaveTs
  BY <1>7 DEF SaveTs, TypeOK, Pairs
<1>8. CASE Die
  BY <1>8 DEF Die, kv, TypeOK
<1>9. CASE UNCHANGED vars
  BY <1>9 DEF vars, kv, TypeOK
<1>10. QED
  BY <1>1, <1>2, <1>3, <1>4, <1>5, <1>6, <1>7, <1>8, <1>9

LEMMA InitTypeOK == Init => TypeOK
  BY LiveTankAssumption DEF Init, TypeOK

-----------------------------------------------------------------------------
(* The theorems about LiveTank *)

LEMMA AlwaysTankInv == Spec => []TankInv
<1>1. TankInv /\ [Next]_vars => TankInv'
  BY BeginStep, PostStep, SaveStep, DieStep DEF Next, Stop
<1>2. QED
  BY InitTankInv, <1>1, PTL DEF Spec

(* The pair in use names the configured channel, and it is that of a        *)
(* message there is as long as every set-up that posted one saved it whole. *)
THEOREM TankStaysAtHome == Spec => []TankIsAtHome
  BY AlwaysTankInv, PTL DEF TankInv

\* What the count says without its case distinction.
LEMMA CountCauses == TankInv => RepostsHaveACause
<1>1. TankInv => Cardinality(messages) \in Nat
  BY FS_CardinalityType DEF TankInv, CausesOK
<1>2. QED
  BY <1>1 DEF TankInv, SetUpOK, CausesOK, RepostsHaveACause

(* Every message after the first is due to a change of home_channel, to a   *)
(* set-up whose pair was not saved as one that a start resumes, or to one   *)
(* that could not read the pair saved: however calls, reads and writes fail *)
(* and wherever the process dies.                                           *)
THEOREM NoCauselessRepost == Spec => []RepostsHaveACause
  BY AlwaysTankInv, CountCauses, PTL

-----------------------------------------------------------------------------
(* The invariant of Startup *)

\* `past` keeps its fields; EXCEPT has to know them.
PastOK == past = [faults |-> past.faults, stops |-> past.stops, torn |-> past.torn,
                  unimported |-> past.unimported, rejected |-> past.rejected,
                  ended |-> past.ended]

\* Types, and what each stage says about the unit.
StagesOK ==
  /\ unit \in {"off", "running", "restarting", "failed", "exited"}
  /\ stage \in {"down", "config", "open", "migrate", "import", "tank", "sockets", "loop"}
  /\ unit = "running" <=> stage # "down"
  /\ recent \in Nat /\ done \in Nat
  /\ past.ended \in Nat /\ PastOK

\* The database: its version tells the truth, and so does the stage about it.
\* Without a death among the statements, a migration starts from nothing.
DatabaseOK ==
  /\ tables \in 0 .. Tables /\ version \in {0, 1}
  /\ version = 1 => tables = Tables
  /\ version = 0 => stage \in {"down", "config", "open", "migrate"}
  /\ stage = "migrate" /\ version = 0 => done <= tables
  /\ version = 0 /\ ~past.torn => tables = (IF stage = "migrate" THEN done ELSE 0)

\* The import counts up to the lines there are.
VendorsOK ==
  /\ vendors \in 0 .. Seeds
  /\ stage = "import" => done <= vendors
  /\ stage \in {"tank", "sockets", "loop"} => past.unimported \/ vendors = Seeds

SocketsOK ==
  /\ stage = "sockets" => mode = "hardware"
  /\ stage = "loop" /\ mode = "hardware" => sockets = {"sweep", "sniff"}

\* Each start that systemd counts, but for the process that runs, was ended by a fault
\* or a stop, unless it was rejected or met a torn database.
CountOK ==
  \/ past.torn \/ past.rejected
  \/ /\ recent <= past.ended + (IF unit = "running" THEN 1 ELSE 0)
     /\ unit = "failed" => past.ended >= StartLimitBurst

IInv == StagesOK /\ DatabaseOK /\ VendorsOK /\ SocketsOK /\ CountOK

LEMMA InitIInv == SInit => IInv
  BY StartupAssumption
  DEF SInit, IInv, StagesOK, DatabaseOK, VendorsOK, SocketsOK, CountOK, PastOK

\* What becomes of `past` in the ways it changes.
Keeps(fields) == \A f \in fields : past'[f] = past[f]

LEMMA PastFields ==
  ASSUME PastOK, NEW b
  PROVE  /\ past' = [past EXCEPT !.rejected = FALSE, !.ended = 0]
              => /\ PastOK' /\ Keeps({"torn", "unimported"})
                 /\ past'.rejected = FALSE /\ past'.ended = 0
         /\ past' = [past EXCEPT !.unimported = b]
              => PastOK' /\ Keeps({"ended", "torn", "rejected"}) /\ past'.unimported = b
         /\ past' = [past EXCEPT !.faults = @ + 1, !.unimported = b]
              => PastOK' /\ Keeps({"ended", "torn", "rejected"}) /\ past'.unimported = b
         /\ past' = [past EXCEPT !.faults = @ + 1, !.ended = @ + 1]
              => /\ PastOK' /\ Keeps({"torn", "unimported", "rejected"})
                 /\ past'.ended = past.ended + 1
         /\ past' = [past EXCEPT !.faults = @ + 1, !.ended = @ + 1, !.torn = b]
              => /\ PastOK' /\ Keeps({"unimported", "rejected"}) /\ past'.torn = b
                 /\ past'.ended = past.ended + 1
         /\ past' = [past EXCEPT !.stops = @ + 1, !.ended = @ + 1, !.torn = b]
              => /\ PastOK' /\ Keeps({"unimported", "rejected"}) /\ past'.torn = b
                 /\ past'.ended = past.ended + 1
<1>1. past' = [past EXCEPT !.rejected = FALSE, !.ended = 0]
        => /\ PastOK' /\ Keeps({"torn", "unimported"})
           /\ past'.rejected = FALSE /\ past'.ended = 0
  BY DEF PastOK, Keeps
<1>2. past' = [past EXCEPT !.unimported = b]
        => PastOK' /\ Keeps({"ended", "torn", "rejected"}) /\ past'.unimported = b
  BY DEF PastOK, Keeps
<1>3. past' = [past EXCEPT !.faults = @ + 1, !.unimported = b]
        => PastOK' /\ Keeps({"ended", "torn", "rejected"}) /\ past'.unimported = b
  BY DEF PastOK, Keeps
<1>4. past' = [past EXCEPT !.faults = @ + 1, !.ended = @ + 1]
        => /\ PastOK' /\ Keeps({"torn", "unimported", "rejected"})
           /\ past'.ended = past.ended + 1
  BY DEF PastOK, Keeps
<1>5. past' = [past EXCEPT !.faults = @ + 1, !.ended = @ + 1, !.torn = b]
        => /\ PastOK' /\ Keeps({"unimported", "rejected"}) /\ past'.torn = b
           /\ past'.ended = past.ended + 1
  BY DEF PastOK, Keeps
<1>6. past' = [past EXCEPT !.stops = @ + 1, !.ended = @ + 1, !.torn = b]
        => /\ PastOK' /\ Keeps({"unimported", "rejected"}) /\ past'.torn = b
           /\ past'.ended = past.ended + 1
  BY DEF PastOK, Keeps
<1>7. QED
  BY <1>1, <1>2, <1>3, <1>4, <1>5, <1>6

-----------------------------------------------------------------------------
(* systemd *)

\* Starts that no longer count leave no reason to give up.
LEMMA ForgottenStep ==
  ASSUME IInv, IntervalPasses \/ ResetFailed
  PROVE  IInv'
<1>1. past' = [past EXCEPT !.rejected = FALSE, !.ended = 0] /\ PastOK
  BY DEF IntervalPasses, ResetFailed, StartsForgotten, IInv, StagesOK
<1>2. /\ PastOK' /\ past'.rejected = FALSE /\ past'.ended = 0
      /\ past'.torn = past.torn /\ past'.unimported = past.unimported
  BY <1>1, PastFields DEF Keeps
<1>3. /\ recent' = 0 /\ unit' # "failed"
      /\ unit' \in {"off", "running", "exited"} /\ (unit' = "running" <=> unit = "running")
      /\ UNCHANGED <<mode, stage, done, dbVars, sockets>>
  BY DEF IntervalPasses, ResetFailed, StartsForgotten, IInv, StagesOK
<1>4. QED
  BY <1>2, <1>3 DEF IInv, StagesOK, DatabaseOK, VendorsOK, SocketsOK, CountOK, dbVars

LEMMA SystemdStep ==
  ASSUME IInv, AdminStart \/ Restart \/ GiveUp \/ StartRefused \/ EditConfig
  PROVE  IInv'
<1>1. CASE AdminStart \/ Restart
  BY <1>1, StartupAssumption
  DEF AdminStart, Restart, Launch,
      IInv, StagesOK, DatabaseOK, VendorsOK, SocketsOK, CountOK, dbVars, PastOK
<1>2. CASE GiveUp \/ StartRefused
  BY <1>2, StartupAssumption
  DEF GiveUp, StartRefused, TooManyStarts,
      IInv, StagesOK, DatabaseOK, VendorsOK, SocketsOK, CountOK, dbVars, PastOK
<1>3. CASE EditConfig
  BY <1>3
  DEF EditConfig, IInv, StagesOK, DatabaseOK, VendorsOK, SocketsOK, CountOK, dbVars, PastOK, unitVars
<1>4. QED
  BY <1>1, <1>2, <1>3

-----------------------------------------------------------------------------
(* Up to the loop *)

\* A fault that ends the process, where the database is left as it is.
LEMMA FaultStep ==
  ASSUME IInv, stage \in {"open", "sockets"}, Fail, Fault,
         UNCHANGED <<recent, mode, tables, version, vendors>>
  PROVE  IInv'
<1>1. past' = [past EXCEPT !.faults = @ + 1, !.ended = @ + 1] /\ PastOK
  BY DEF Fault, IInv, StagesOK
<1>2. /\ PastOK' /\ past'.ended = past.ended + 1 /\ past'.torn = past.torn
      /\ past'.rejected = past.rejected /\ past'.unimported = past.unimported
  BY <1>1, PastFields DEF Keeps
<1>3. stage' = "down" /\ done' = 0 /\ unit' = "restarting"
  BY DEF Fail, Exit
<1>4. QED
  BY <1>2, <1>3 DEF IInv, StagesOK, DatabaseOK, VendorsOK, SocketsOK, CountOK

LEMMA OpeningStep ==
  ASSUME IInv, LoadConfig \/ OpenDatabase
  PROVE  IInv'
<1>1. CASE LoadConfig
  BY <1>1, StartupAssumption
  DEF LoadConfig, Fail, Exit, GoTo, Rejected, loopVars,
      IInv, StagesOK, DatabaseOK, VendorsOK, SocketsOK, CountOK, dbVars, PastOK
<1>2. CASE OpenDatabase
  <2>1. stage = "open" /\ UNCHANGED <<recent, mode, tables, version, vendors>>
    BY <1>2 DEF OpenDatabase, dbVars
  <2>2. CASE GoTo("migrate") /\ UNCHANGED <<unit, past>>
    BY <2>1, <2>2, StartupAssumption
    DEF GoTo, IInv, StagesOK, DatabaseOK, VendorsOK, SocketsOK, CountOK, PastOK
  <2>3. CASE Fail /\ Fault
    BY <2>1, <2>3, FaultStep
  <2>4. QED
    BY <1>2, <2>2, <2>3 DEF OpenDatabase
<1>3. QED
  BY <1>1, <1>2

\* apply, a statement at a time.
LEMMA MigrationStep ==
  ASSUME IInv, SkipMigration \/ CreateTable \/ TableExists \/ BumpVersion
  PROVE  IInv'
<1>1. CASE SkipMigration
  BY <1>1, StartupAssumption
  DEF SkipMigration, Migrated, GoTo, Proceed, loopVars, unitVars,
      IInv, StagesOK, DatabaseOK, VendorsOK, SocketsOK, CountOK, dbVars, PastOK
<1>2. CASE CreateTable
  BY <1>2, StartupAssumption
  DEF CreateTable, Migrated, Stay, Proceed, loopVars, unitVars,
      IInv, StagesOK, DatabaseOK, VendorsOK, SocketsOK, CountOK, dbVars, PastOK
<1>3. CASE TableExists
  BY <1>3, StartupAssumption
  DEF TableExists, Migrated, Fail, Exit,
      IInv, StagesOK, DatabaseOK, VendorsOK, SocketsOK, CountOK, dbVars, PastOK
<1>4. CASE BumpVersion
  BY <1>4, StartupAssumption
  DEF BumpVersion, Migrated, GoTo, Proceed, loopVars, unitVars,
      IInv, StagesOK, DatabaseOK, VendorsOK, SocketsOK, CountOK, dbVars, PastOK
<1>5. QED
  BY <1>1, <1>2, <1>3, <1>4

\* import_oui, a line at a time.
LEMMA ImportStep ==
  ASSUME IInv, ImportLine \/ EndImport
  PROVE  IInv'
<1>1. CASE ImportLine
  <2>1. CASE /\ done' = done + 1
             /\ vendors' = IF vendors > done THEN vendors ELSE done + 1
             /\ Stay /\ UNCHANGED past
    <3>1. done < Seeds /\ UNCHANGED <<unit, recent, mode, tables, version>> /\ stage = "import"
      BY <1>1 DEF ImportLine, Proceed, unitVars
    <3>2. QED
      BY <2>1, <3>1, StartupAssumption
      DEF Stay, IInv, StagesOK, DatabaseOK, VendorsOK, SocketsOK, CountOK, PastOK
  <2>2. CASE /\ GoTo("tank")
             /\ past' = [past EXCEPT !.faults = @ + 1, !.unimported = TRUE]
             /\ UNCHANGED vendors
    <3>1. /\ PastOK' /\ past'.torn = past.torn /\ past'.rejected = past.rejected
          /\ past'.unimported = TRUE /\ past'.ended = past.ended
      BY <2>2, PastFields DEF Keeps, IInv, StagesOK
    <3>2. past'.unimported
      BY <3>1
    <3>3. UNCHANGED <<unit, recent, mode, tables, version>> /\ stage = "import"
      BY <1>1 DEF ImportLine, Proceed, unitVars
    <3>4. QED
      BY <2>2, <3>1, <3>2, <3>3
      DEF GoTo, IInv, StagesOK, DatabaseOK, VendorsOK, SocketsOK, CountOK
  <2>3. QED
    BY <1>1, <2>1, <2>2 DEF ImportLine
<1>2. CASE EndImport
  <2>1. past' = [past EXCEPT !.unimported = FALSE]
    BY <1>2 DEF EndImport
  <2>2. /\ PastOK' /\ past'.torn = past.torn /\ past'.rejected = past.rejected
        /\ past'.ended = past.ended
    BY <2>1, PastFields DEF Keeps, IInv, StagesOK
  <2>3. QED
    BY <1>2, <2>2, StartupAssumption
    DEF EndImport, GoTo, Proceed, loopVars, unitVars, dbVars,
        IInv, StagesOK, DatabaseOK, VendorsOK, SocketsOK, CountOK
<1>3. QED
  BY <1>1, <1>2

\* The live tank, and the net source.
LEMMA SourceStep ==
  ASSUME IInv, SetUpTank \/ SpawnSource \/ (\E s \in {"sweep", "sniff"} : OpenSocket(s))
  PROVE  IInv'
<1>1. CASE SetUpTank
  BY <1>1, StartupAssumption
  DEF SetUpTank, Stay, Proceed, loopVars, unitVars,
      IInv, StagesOK, DatabaseOK, VendorsOK, SocketsOK, CountOK, dbVars, PastOK
<1>2. CASE SpawnSource
  BY <1>2, StartupAssumption
  DEF SpawnSource, GoTo, Rejected, Fail, Exit, loopVars,
      IInv, StagesOK, DatabaseOK, VendorsOK, SocketsOK, CountOK, dbVars, PastOK
<1>3. ASSUME NEW s \in {"sweep", "sniff"}, OpenSocket(s) PROVE IInv'
  <2>1. stage = "sockets" /\ UNCHANGED <<recent, mode, tables, version, vendors>>
    BY <1>3 DEF OpenSocket, dbVars
  <2>2. CASE ~(Fail /\ Fault)
    BY <1>3, <2>1, <2>2, StartupAssumption
    DEF OpenSocket, IInv, StagesOK, DatabaseOK, VendorsOK, SocketsOK, CountOK, PastOK
  <2>3. CASE Fail /\ Fault
    BY <2>1, <2>3, FaultStep
  <2>4. QED
    BY <2>2, <2>3
<1>4. QED
  BY <1>1, <1>2, <1>3

-----------------------------------------------------------------------------
(* The loop, and the end *)

\* Nothing that the invariant is about changes in the loop.
LEMMA LoopStep ==
  ASSUME IInv, NetEvent \/ Await \/ Answered \/ Tick \/ Heartbeat \/ Flap \/ UNCHANGED svars
  PROVE  IInv'
<1>1. CASE NetEvent
  BY <1>1, StartupAssumption
  DEF NetEvent, unitVars,
      IInv, StagesOK, DatabaseOK, VendorsOK, SocketsOK, CountOK, dbVars, PastOK
<1>2. CASE Await
  BY <1>2, StartupAssumption
  DEF Await, unitVars,
      IInv, StagesOK, DatabaseOK, VendorsOK, SocketsOK, CountOK, dbVars, PastOK
<1>3. CASE Answered
  BY <1>3, StartupAssumption
  DEF Answered, unitVars,
      IInv, StagesOK, DatabaseOK, VendorsOK, SocketsOK, CountOK, dbVars, PastOK
<1>4. CASE Tick
  BY <1>4, StartupAssumption
  DEF Tick, unitVars,
      IInv, StagesOK, DatabaseOK, VendorsOK, SocketsOK, CountOK, dbVars, PastOK
<1>5. CASE Heartbeat
  BY <1>5, StartupAssumption
  DEF Heartbeat, unitVars,
      IInv, StagesOK, DatabaseOK, VendorsOK, SocketsOK, CountOK, dbVars, PastOK
<1>6. CASE Flap
  BY <1>6, StartupAssumption
  DEF Flap, unitVars,
      IInv, StagesOK, DatabaseOK, VendorsOK, SocketsOK, CountOK, dbVars, PastOK
<1>7. CASE UNCHANGED svars
  BY <1>7, StartupAssumption
  DEF svars, unitVars,
      IInv, StagesOK, DatabaseOK, VendorsOK, SocketsOK, CountOK, dbVars, PastOK
<1>8. QED
  BY <1>1, <1>2, <1>3, <1>4, <1>5, <1>6, <1>7

\* A stop or a crash among the statements of the migration tears the database.
LEMMA EndStep ==
  ASSUME IInv, AdminStop \/ Crash
  PROVE  IInv'
<1>1. CASE AdminStop
  <2> DEFINE torn == past.torn \/ (stage = "migrate" /\ done > 0)
  <2>1. past' = [past EXCEPT !.stops = @ + 1, !.ended = @ + 1, !.torn = torn]
    BY <1>1 DEF AdminStop
  <2>2. /\ PastOK' /\ past'.torn = torn /\ past'.ended = past.ended + 1
        /\ past'.unimported = past.unimported /\ past'.rejected = past.rejected
    BY <2>1, PastFields DEF Keeps, IInv, StagesOK
  <2>3. /\ stage' = "down" /\ done' = 0 /\ unit' = "off"
        /\ UNCHANGED <<recent, mode, tables, version, vendors>>
    BY <1>1 DEF AdminStop, Exit, dbVars
  <2> HIDE DEF torn
  <2>4. StagesOK' /\ VendorsOK' /\ SocketsOK'
    BY <2>2, <2>3 DEF IInv, StagesOK, VendorsOK, SocketsOK
  <2>5. /\ past.torn => past'.torn
        /\ stage = "migrate" /\ done > 0 => past'.torn
    BY <2>2, Zenon DEF torn
  <2>6. DatabaseOK'
    BY <2>3, <2>5 DEF IInv, StagesOK, DatabaseOK
  <2>7. CountOK'
    BY <2>2, <2>3, <2>5 DEF IInv, StagesOK, CountOK
  <2>8. QED
    BY <2>4, <2>6, <2>7 DEF IInv
<1>2. CASE Crash
  <2> DEFINE torn == past.torn \/ (stage = "migrate" /\ done > 0)
  <2>1. past' = [past EXCEPT !.faults = @ + 1, !.ended = @ + 1, !.torn = torn]
    BY <1>2 DEF Crash
  <2>2. /\ PastOK' /\ past'.torn = torn /\ past'.ended = past.ended + 1
        /\ past'.unimported = past.unimported /\ past'.rejected = past.rejected
    BY <2>1, PastFields DEF Keeps, IInv, StagesOK
  <2>3. /\ stage' = "down" /\ done' = 0 /\ unit' = "restarting"
        /\ UNCHANGED <<recent, mode, tables, version, vendors>>
    BY <1>2 DEF Crash, Fail, Exit, dbVars
  <2> HIDE DEF torn
  <2>4. StagesOK' /\ VendorsOK' /\ SocketsOK'
    BY <2>2, <2>3 DEF IInv, StagesOK, VendorsOK, SocketsOK
  <2>5. /\ past.torn => past'.torn
        /\ stage = "migrate" /\ done > 0 => past'.torn
    BY <2>2, Zenon DEF torn
  <2>6. DatabaseOK'
    BY <2>3, <2>5 DEF IInv, StagesOK, DatabaseOK
  <2>7. CountOK'
    BY <2>2, <2>3, <2>5 DEF IInv, StagesOK, CountOK
  <2>8. QED
    BY <2>4, <2>6, <2>7 DEF IInv
<1>3. QED
  BY <1>1, <1>2

-----------------------------------------------------------------------------
(* The theorems *)

LEMMA NextIInv == IInv /\ [SNext]_svars => IInv'
  BY SystemdStep, ForgottenStep, OpeningStep, MigrationStep, ImportStep, SourceStep, LoopStep, EndStep
  DEF SNext

LEMMA AlwaysIInv == SSpec => []IInv
  BY InitIInv, NextIInv, PTL DEF SSpec

(* A process past opening the database has all its tables, one in the loop  *)
(* its vendors and sockets too, whatever earlier starts left behind.        *)
THEOREM LoopIsEquipped == SSpec => []LoopHasWhatItNeeds
<1>1. IInv => LoopHasWhatItNeeds
  BY DEF IInv, StagesOK, DatabaseOK, VendorsOK, SocketsOK, LoopHasWhatItNeeds
<1>2. QED
  BY AlwaysIInv, <1>1, PTL

(* A migration only finds tables that a process which died in one has left. *)
THEOREM OnlyTornMigrationsRepeat == SSpec => MigrationsRunOnceUnlessTorn
<1>1. IInv => (TableExists => past.torn)
  BY DEF IInv, DatabaseOK, StagesOK, TableExists, Migrated
<1>2. QED
  BY AlwaysIInv, <1>1, PTL DEF SSpec, MigrationsRunOnceUnlessTorn

(* systemd refuses to start the daemon for a torn database, a configuration *)
(* or build that cannot start, or as many processes ended by faults and     *)
(* stops as it allows starts, and nothing else: starts by hand count too.   *)
THEOREM GivingUpHasAReason == SSpec => []GivesUpForAReason
<1>1. IInv => GivesUpForAReason
  BY DEF IInv, CountOK, GivesUpForAReason
<1>2. QED
  BY AlwaysIInv, <1>1, PTL

-----------------------------------------------------------------------------
(* The live tank within the life of the process *)

\* To LiveTank, a step is one of its own, the end of the process, or nothing.
LEMMA TankStep ==
  ASSUME [SNext]_svars
  PROVE  \/ Reconfigure \/ Begin \/ Post \/ PostFails \/ Pin \/ SaveChannel \/ SaveTs
         \/ Die \/ UNCHANGED vars
<1>1. CASE AdminStart \/ Restart \/ GiveUp \/ StartRefused \/ EditConfig \/ Flap
  BY <1>1 DEF AdminStart, Restart, Launch, GiveUp, StartRefused, TooManyStarts, EditConfig, Flap
<1>2. CASE LoadConfig \/ OpenDatabase \/ TableExists
  BY <1>2 DEF LoadConfig, OpenDatabase, TableExists, Fail, Exit
<1>3. CASE SkipMigration \/ CreateTable \/ BumpVersion \/ ImportLine \/ EndImport
  BY <1>3 DEF SkipMigration, CreateTable, BumpVersion, ImportLine, EndImport
<1>4. CASE SetUpTank
  BY <1>4 DEF SetUpTank
<1>5. CASE SpawnSource \/ \E s \in {"sweep", "sniff"} : OpenSocket(s)
  BY <1>5 DEF SpawnSource, OpenSocket, Fail, Exit
<1>6. CASE NetEvent \/ Await \/ Answered \/ Tick \/ Heartbeat \/ UNCHANGED svars
  BY <1>6 DEF NetEvent, Await, Answered, Tick, Heartbeat, svars
<1>7. CASE AdminStop \/ Crash
  BY <1>7 DEF AdminStop, Crash, Fail, Exit
<1>8. CASE IntervalPasses \/ ResetFailed
  BY <1>8 DEF IntervalPasses, ResetFailed, StartsForgotten
<1>9. QED
  BY <1>1, <1>2, <1>3, <1>4, <1>5, <1>6, <1>7, <1>8 DEF SNext

LEMMA AlwaysTank == SSpec => []TankInv
<1>1. SInit => TankInv
  BY InitTankInv DEF SInit
<1>2. TankInv /\ [SNext]_svars => TankInv'
  BY TankStep, BeginStep, PostStep, SaveStep, DieStep
<1>3. QED
  BY <1>1, <1>2, PTL DEF SSpec

(* Also with every way the process may end and be started again, the pair   *)
(* in use names the configured channel and a message there is.              *)
THEOREM TankOutlivesTheProcess == SSpec => []TankIsAtHome
  BY AlwaysTank, PTL DEF TankInv

(* Nor do starts, by systemd or by hand, post a live-tank message that has  *)
(* none of those causes.                                                    *)
THEOREM RestartsPostNothing == SSpec => []RepostsHaveACause
  BY AlwaysTank, CountCauses, PTL
-----------------------------------------------------------------------------
(* Types, and what is left of a process that has ended *)

\* Nothing outlives a process, and systemd counts no further than it allows.
EndsOK ==
  /\ recent <= StartLimitBurst
  /\ sockets \subseteq {"sweep", "sniff"}
  /\ stage = "down" => pc = "down" /\ sockets = {} /\ ~stalled

\* Each way to end a process leaves none of it; each other step leaves it running.
LEMMA EndsStep ==
  ASSUME IInv, EndsOK, [SNext]_svars
  PROVE  EndsOK'
<1>1. CASE AdminStart \/ Restart \/ GiveUp \/ StartRefused \/ IntervalPasses \/ ResetFailed \/ Flap
  BY <1>1, StartupAssumption
  DEF AdminStart, Restart, Launch, GiveUp, StartRefused, TooManyStarts, IntervalPasses,
      ResetFailed, StartsForgotten, Flap, unitVars, loopVars, vars, EndsOK, IInv, StagesOK
<1>2. CASE EditConfig
  BY <1>2 DEF EditConfig, Reconfigure, unitVars, loopVars, vars, EndsOK
<1>3. CASE LoadConfig \/ OpenDatabase \/ TableExists \/ AdminStop \/ Crash
  <2>1. recent' = recent
    BY <1>3 DEF LoadConfig, OpenDatabase, TableExists, AdminStop, Crash
  <2>2. CASE pc' = "down" /\ sockets' = {} /\ ~stalled'
    BY <2>1, <2>2 DEF EndsOK
  <2>3. CASE stage' # "down" /\ UNCHANGED sockets
    BY <2>1, <2>3 DEF EndsOK
  <2>4. QED
    BY <1>3, <2>2, <2>3
    DEF LoadConfig, OpenDatabase, TableExists, AdminStop, Crash, Fail, Exit, Die, GoTo
<1>4. CASE SkipMigration \/ CreateTable \/ BumpVersion \/ ImportLine \/ EndImport \/ SetUpTank
  <2>1. UNCHANGED <<recent, sockets>> /\ stage' # "down"
    BY <1>4
    DEF SkipMigration, CreateTable, BumpVersion, ImportLine, EndImport, SetUpTank,
        GoTo, Stay, Proceed, unitVars
  <2>2. QED
    BY <2>1 DEF EndsOK
<1>5. CASE SpawnSource
  BY <1>5 DEF SpawnSource, GoTo, Fail, Exit, Die, EndsOK
<1>6. CASE (\E s \in {"sweep", "sniff"} : OpenSocket(s))
  BY <1>6 DEF OpenSocket, Fail, Exit, Die, EndsOK
<1>7. CASE NetEvent \/ Await \/ Heartbeat
  BY <1>7 DEF NetEvent, Await, Heartbeat, unitVars, EndsOK
<1>8. CASE Answered \/ Tick \/ UNCHANGED svars
  <2>1. UNCHANGED <<recent, stage, pc, sockets, stalled>>
    BY <1>8 DEF Answered, Tick, svars, unitVars, loopVars, vars
  <2>2. QED
    BY <2>1 DEF EndsOK
<1>9. QED
  BY <1>1, <1>2, <1>3, <1>4, <1>5, <1>6, <1>7, <1>8 DEF SNext

(* Types, of the live tank too: a unit runs just when a process is in some  *)
(* stage, a process that has ended leaves no socket, no set-up and no       *)
(* stall, and the version of the database is one the code knows.            *)
THEOREM StartupIsWellFormed == SSpec => []StartupOK
<1>1. SInit => EndsOK /\ TypeOK
  BY InitTypeOK, StartupAssumption DEF SInit, Init, EndsOK
<1>2. IInv /\ EndsOK /\ [SNext]_svars => EndsOK'
  BY EndsStep
<1>3. TankInv /\ TypeOK /\ [SNext]_svars => TypeOK'
  BY TankStep, TypeStep
<1>4. IInv /\ EndsOK /\ TypeOK => StartupOK
  BY StartupAssumption DEF IInv, StagesOK, DatabaseOK, VendorsOK, EndsOK, StartupOK
<1>5. QED
  BY AlwaysIInv, AlwaysTank, <1>1, <1>2, <1>3, <1>4, PTL DEF SSpec
=============================================================================
