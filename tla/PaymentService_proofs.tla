------------------------ MODULE PaymentService_proofs -----------------------
(***************************************************************************)
(* Proofs about the composed service, for any number of replicas and any   *)
(* log: it implements each of its components, so what is proved of them    *)
(* holds of it, and the three together lose no message.                    *)
(***************************************************************************)
EXTENDS PaymentService, PaymentAccount_proofs

----------------------------------------------------------------------------
(* The components' steps. *)

\* A command's transaction adds at most one row to the outbox.
LEMMA HandleAppends ==
    ASSUME NEW i \in Instance, Handle(i)
    PROVE  /\ calm' = calm
           /\ outbox' = outbox \/ \E e : outbox' = Append(outbox, e)
<1>1. calm' = calm
  BY DEF Handle, Fetch, PrepareCharge, PrepareRefund, CallProcessor,
         CommitCharge, CommitRefund, Commit, recordDeadLetter, NewDeadLetter,
         DeadLetterRaises,
         Acknowledge
<1>2. outbox' = outbox \/ \E e : outbox' = Append(outbox, e)
  BY DEF Handle, Fetch, PrepareCharge, PrepareRefund, CallProcessor,
         CommitCharge, CommitRefund, Commit, recordDeadLetter, NewDeadLetter,
         DeadLetterRaises,
         Acknowledge, database, Completes, publishResult
<1> QED
  BY <1>1, <1>2

\* The faults of a handler leave the database alone.
LEMMA HandleFailsQuietly ==
    ASSUME NEW i \in Instance,
           CallProcessorFails(i) \/ TransactionAborts(i) \/ AcknowledgeFails(i)
    PROVE  UNCHANGED database /\ calm' = calm
BY DEF CallProcessorFails, TransactionAborts, AcknowledgeFails

LEMMA BootCalm ==
    ASSUME NEW i \in Instance, Boot!Boot(i) \/ Boot!MigratedElsewhere(i)
                               \/ Boot!Close(i) \/ Boot!Closed(i) \/ Boot!Crash(i)
    PROVE  calm' = calm
BY DEF Boot!Boot, Boot!startApiGateway, Boot!createService, Boot!RunMigrations,
       Boot!MigrationRaises, Boot!MigratedElsewhere, Boot!Close, Boot!Closed,
       Boot!Crash

LEMMA RelayCalm ==
    ASSUME NEW i \in Instance,
           \/ Relay!Drain(i) \/ Relay!TriggerWhilePublishing(i)
           \/ Relay!ClaimFails(i) \/ Relay!SendFails(i)
           \/ Relay!MarkFails(i) \/ Relay!ReleaseFails(i)
           \/ Relay!DrainAwaited(i) \/ Relay!releaseAllOutboxClaims(i)
           \/ Relay!Tick
    PROVE  calm' = calm
BY DEF Relay!Drain, Relay!TriggerPublish, Relay!claimUnpublishedOutbox,
       Relay!Send, Relay!markOutboxPublished, Relay!releaseOutboxClaim,
       Relay!TriggerWhilePublishing, Relay!ClaimFails, Relay!SendFails,
       Relay!MarkFails, Relay!ReleaseFails, Relay!DrainAwaited,
       Relay!releaseAllOutboxClaims, Relay!Tick

\* Every step is a step of the command handlers, or none of theirs.
LEMMA CommandsStep == [ServiceNext]_all => [Next]_vars
<1> SUFFICES ASSUME [ServiceNext]_all
             PROVE  [Next]_vars
  OBVIOUS
<1>1. ASSUME NEW i \in Instance, HandleCommand(i) \/ HandleFails(i)
      PROVE  Next
  BY <1>1 DEF HandleCommand, HandleFails, Next, Fault
<1>2. ASSUME NEW i \in Instance, Exit(i) \/ Die(i)
      PROVE  Next
  BY <1>2 DEF Exit, Die, Next, Fault
<1>3. Assign => Next
  BY DEF Assign, Next
<1>4. Calm => Next
  BY DEF Calm, Boot!Stabilise, Stabilise, commands, Next
<1>5. ASSUME UNCHANGED commands, calm' = calm
      PROVE  UNCHANGED vars
  BY <1>5 DEF commands, vars
<1>6. ASSUME NEW i \in Instance,
             \/ DrainOutbox(i) \/ Start(i) \/ Stopping(i)
             \/ DrainFails(i) \/ MigratedElsewhere(i) \/ Stop(i) \/ Tick
      PROVE  UNCHANGED vars
  BY <1>5, <1>6, BootCalm, RelayCalm
     DEF DrainOutbox, Start, Stopping, DrainFails, MigratedElsewhere, Stop, Tick
<1>7. UNCHANGED all => UNCHANGED vars
  BY <1>5 DEF all
<1>8. Tick => UNCHANGED vars
  BY <1>5 DEF Tick, Relay!Tick
<1> QED
  BY <1>1, <1>2, <1>3, <1>4, <1>6, <1>7, <1>8 DEF ServiceNext, Run, Interfere

\* Every step is a step of the relay, or none of its.
LEMMA RelayStep == TypeOK /\ [ServiceNext]_all => [Relay!Next]_(Relay!vars)
<1> SUFFICES ASSUME TypeOK, [ServiceNext]_all
             PROVE  [Relay!Next]_(Relay!vars)
  OBVIOUS
<1>1. ASSUME UNCHANGED database, UNCHANGED relay, calm' = calm
      PROVE  UNCHANGED Relay!vars
  BY <1>1 DEF database, relay, Relay!vars
<1>2. ASSUME NEW i \in Instance, HandleCommand(i)
      PROVE  [Relay!Next]_(Relay!vars)
  <2>1. /\ Handle(i) /\ Len(outbox') <= MaxRows
        /\ UNCHANGED relay
    BY <1>2 DEF HandleCommand
  <2>2. CASE outbox' = outbox
    BY <2>1, <2>2, HandleAppends DEF relay, Relay!vars
  <2>3. CASE outbox' # outbox
    <3>1. Len(outbox') = Len(outbox) + 1
      BY <2>1, <2>3, HandleAppends DEF TypeOK
    <3>2. Len(outbox) < MaxRows
      BY <2>1, <3>1, ServiceAssumption DEF TypeOK
    <3> QED
      BY <2>1, <3>1, <3>2, HandleAppends DEF relay, Relay!Next, Relay!Insert
  <2> QED
    BY <2>2, <2>3
<1>3. ASSUME NEW i \in Instance, HandleFails(i)
      PROVE  UNCHANGED Relay!vars
  BY <1>1, <1>3, HandleFailsQuietly DEF HandleFails
<1>4. Assign => UNCHANGED Relay!vars
  BY <1>1 DEF Assign, Rebalance
<1>5. ASSUME NEW i \in Instance, Start(i) \/ MigratedElsewhere(i)
      PROVE  UNCHANGED Relay!vars
  BY <1>1, <1>5, BootCalm DEF Start, MigratedElsewhere, commands
<1>6. ASSUME NEW i \in Instance,
             \/ DrainOutbox(i) \/ Stopping(i) \/ DrainFails(i)
             \/ Stop(i) \/ Exit(i) \/ Die(i)
      PROVE  Relay!Next
  BY <1>6 DEF DrainOutbox, Stopping, DrainFails, Stop, Exit, Die,
              Relay!Next, Relay!Shutdown, Relay!Fault
<1>7. Tick => Relay!Next
  BY DEF Tick, Relay!Next
<1>8. Calm => Relay!Next
  BY DEF Calm, commands, database, relay, Boot!Stabilise, Relay!Stabilise,
         Relay!Next
<1>9. UNCHANGED all => UNCHANGED Relay!vars
  BY <1>1 DEF all, commands
<1> QED
  BY <1>2, <1>3, <1>4, <1>5, <1>6, <1>7, <1>8, <1>9
     DEF ServiceNext, Run, Interfere

\* Every step is a step of the processes, or none of theirs.
LEMMA BootStep == [ServiceNext]_all => [Boot!BootNext]_<<boot, calm>>
<1> SUFFICES ASSUME [ServiceNext]_all
             PROVE  [Boot!BootNext]_<<boot, calm>>
  OBVIOUS
<1>1. ASSUME NEW i \in Instance, Start(i) \/ MigratedElsewhere(i) \/ Stop(i)
                                 \/ Exit(i) \/ Die(i)
      PROVE  Boot!BootNext
  BY <1>1 DEF Start, MigratedElsewhere, Stop, Exit, Die, Boot!BootNext
<1>2. Calm => Boot!BootNext
  BY DEF Calm, Boot!BootNext
<1>3. ASSUME NEW i \in Instance,
             \/ HandleCommand(i) \/ HandleFails(i) \/ DrainOutbox(i)
             \/ DrainFails(i) \/ Stopping(i)
      PROVE  UNCHANGED <<boot, calm>>
  BY <1>3, HandleAppends, HandleFailsQuietly, RelayCalm
     DEF HandleCommand, HandleFails, DrainOutbox, DrainFails, Stopping
<1>4. Assign \/ Tick \/ UNCHANGED all => UNCHANGED <<boot, calm>>
  BY DEF Assign, Rebalance, Tick, Relay!Tick, all
<1> QED
  BY <1>1, <1>2, <1>3, <1>4 DEF ServiceNext, Run, Interfere

----------------------------------------------------------------------------
(* The service implements its components. *)

\* What the replicas do to their commands is what PaymentCommands allows.
THEOREM ServiceImplementsCommands == ServiceSpec => ImplementsCommands
<1>1. ServiceInit => Init
  BY DEF ServiceInit
<1> QED
  BY <1>1, CommandsStep, PTL DEF ServiceSpec, ImplementsCommands, Spec

\* The composed service, whose replicas start, migrate, close and publish in
\* the middle of all this, is still the one atomic ledger.
THEOREM ServiceImplementsLedger == ServiceSpec => ImplementsLedger
BY ServiceImplementsCommands, CommandsImplementLedger, PTL DEF ImplementsCommands

\* What the command handlers promise, in the composed service: one result for
\* a command, at most one dead letter for a message that can be told from
\* others, nothing recorded or announced that the provider did not do, no money
\* taken that nothing accounts for, attempts that agree with the payments, one
\* payment for an order, and a history that makes sense to who reads the topic.
THEOREM ServiceKeepsPromises ==
    ASSUME KeyedByOrder
    PROVE  ServiceSpec => [](/\ OneResultPerCommand /\ OneDeadLetterPerMessage
                             /\ MoneyMoved /\ CapturedIsAccounted /\ AttemptTrail
                             /\ OneRowPerOrder /\ ResultHistory)
<1> QED
  BY ServiceImplementsCommands, EachCommandHasOneResult, MessagesDieOnce,
     ReportsMatchTheProvider, CapturedMoneyIsAccounted, AttemptsMatchTheRows,
     OrdersHaveOneRow, HistoriesMakeSense, PTL
     DEF ImplementsCommands

\* A type that both parts of the service share.
LEMMA ServiceCommandsTyped == ServiceSpec => []TypeOK
<1> QED
  BY ServiceImplementsCommands, CommandsTypeCorrect, PTL DEF ImplementsCommands

\* The rows the commands append are the rows OutboxRelay publishes.
THEOREM ServiceImplementsRelay == ServiceSpec => ImplementsRelay
<1>1. ServiceInit => Relay!Init
  BY DEF ServiceInit
<1> QED
  BY <1>1, RelayStep, ServiceCommandsTyped, PTL
     DEF ServiceSpec, ImplementsRelay, Relay!Spec

\* The replicas start and end as Startup says.
LEMMA ServiceImplementsBoot == ServiceSpec => Boot!BootSpec
<1>1. ServiceInit => Boot!BootInit
  BY DEF ServiceInit
<1>2. [ServiceNext]_all => [Boot!BootNext]_<<Boot!boot, calm>>
  BY BootStep DEF boot, Boot!boot
<1> QED
  BY <1>1, <1>2, PTL DEF ServiceSpec, Boot!BootSpec

----------------------------------------------------------------------------
(* What follows for the service. *)

RP == INSTANCE OutboxRelay_proofs WITH
    inserted <- Len(outbox),
    KeyOf    <- [k \in 1..MaxRows |-> k]

\* The module of the proofs about the relay has the relay's actions.
LEMMA SameRelay == Relay!Spec => RP!Spec
<1>1. Relay!Init => RP!Init
  BY DEF Relay!Init, RP!Init, Relay!RowId, RP!RowId, Relay!Free, RP!Free,
         Relay!Resting, RP!Resting
<1>2. [Relay!Next]_(Relay!vars) => [RP!Next]_(RP!vars)
  <2> USE DEF Relay!RowId, RP!RowId, Relay!Free, RP!Free, Relay!Resting,
              RP!Resting, Relay!Finish, RP!Finish, Relay!Goto, RP!Goto,
              Relay!Publishing, RP!Publishing, Relay!Owns, RP!Owns,
              Relay!MarkPublished, RP!MarkPublished, Relay!Published, RP!Published,
              Relay!ReleaseClaim, RP!ReleaseClaim, Relay!Restart, RP!Restart,
              Relay!Aged, RP!Aged
  <2>1. ASSUME NEW k
        PROVE  Relay!Locked(k) <=> RP!Locked(k)
    BY DEF Relay!Locked, RP!Locked
  <2>2. ASSUME NEW k
        PROVE  Relay!Claimable(k) <=> RP!Claimable(k)
    BY <2>1 DEF Relay!Claimable, RP!Claimable
  <2>3. ASSUME NEW i
        PROVE  Relay!Current(i) = RP!Current(i)
    BY DEF Relay!Current, RP!Current
  <2>4. Relay!FirstClaimable = RP!FirstClaimable
    <3>1. ASSUME NEW k
          PROVE  {l \in 1..(k - 1) : Relay!Claimable(l)}
                 = {l \in 1..(k - 1) : RP!Claimable(l)}
      BY <2>2
    <3>2. ASSUME NEW S
          PROVE  Relay!Cardinality(S) = RP!Cardinality(S)
      BY DEF Relay!Cardinality, RP!Cardinality
    <3> QED
      BY <2>2, <3>1, <3>2 DEF Relay!FirstClaimable, RP!FirstClaimable
  <2>5. ASSUME NEW i \in Instance
        PROVE  Relay!TriggerPublish(i) => RP!TriggerPublish(i)
    BY <2>4 DEF Relay!TriggerPublish, RP!TriggerPublish
  <2>6. ASSUME NEW i \in Instance
        PROVE  /\ Relay!claimUnpublishedOutbox(i) => RP!claimUnpublishedOutbox(i)
               /\ Relay!Send(i) => RP!Send(i)
               /\ Relay!markOutboxPublished(i) => RP!markOutboxPublished(i)
               /\ Relay!releaseOutboxClaim(i) => RP!releaseOutboxClaim(i)
               /\ Relay!DrainAwaited(i) => RP!DrainAwaited(i)
               /\ Relay!releaseAllOutboxClaims(i) => RP!releaseAllOutboxClaims(i)
               /\ Relay!Exit(i) => RP!Exit(i)
               /\ Relay!ClaimFails(i) => RP!ClaimFails(i)
               /\ Relay!SendFails(i) => RP!SendFails(i)
               /\ Relay!MarkFails(i) => RP!MarkFails(i)
               /\ Relay!ReleaseFails(i) => RP!ReleaseFails(i)
               /\ Relay!Stop(i) => RP!Stop(i)
               /\ Relay!Crash(i) => RP!Crash(i)
               /\ Relay!TriggerWhilePublishing(i) => RP!TriggerWhilePublishing(i)
    BY <2>1, <2>3
       DEF Relay!claimUnpublishedOutbox, RP!claimUnpublishedOutbox,
           Relay!Send, RP!Send, Relay!markOutboxPublished,
           RP!markOutboxPublished, Relay!releaseOutboxClaim,
           RP!releaseOutboxClaim, Relay!DrainAwaited, RP!DrainAwaited,
           Relay!releaseAllOutboxClaims, RP!releaseAllOutboxClaims,
           Relay!Exit, RP!Exit, Relay!ClaimFails, RP!ClaimFails,
           Relay!SendFails, RP!SendFails, Relay!MarkFails, RP!MarkFails,
           Relay!ReleaseFails, RP!ReleaseFails, Relay!Stop, RP!Stop,
           Relay!Crash, RP!Crash, Relay!TriggerWhilePublishing,
           RP!TriggerWhilePublishing
  <2>7. /\ Relay!Insert => RP!Insert
        /\ Relay!Tick => RP!Tick
        /\ Relay!Stabilise => RP!Stabilise
    BY DEF Relay!Insert, RP!Insert, Relay!Tick, RP!Tick, Relay!Stabilise,
           RP!Stabilise
  <2>8. UNCHANGED Relay!vars => UNCHANGED RP!vars
    BY DEF Relay!vars, RP!vars
  <2> QED
    BY <2>5, <2>6, <2>7, <2>8
       DEF Relay!Next, RP!Next, Relay!Drain, RP!Drain, Relay!Shutdown,
           RP!Shutdown, Relay!Fault, RP!Fault
<1> QED
  BY <1>1, <1>2, PTL DEF Relay!Spec, RP!Spec

\* What is proved of the relay, about the composed service.
LEMMA ServiceDelivers ==
    ServiceSpec => [](RP!TypeOK /\ RP!PublishedIsDelivered)
<1>1. RP!RelayAssumption
  BY ConstantsAssumption, ServiceAssumption DEF RP!RelayAssumption
<1>2. RP!Spec => []RP!TypeOK
  BY <1>1, RP!RelayTypeCorrect
<1>3. RP!Spec => []RP!PublishedIsDelivered
  BY <1>1, RP!PublishedEventsAreDelivered
<1> QED
  BY <1>2, <1>3, ServiceImplementsRelay, SameRelay, PTL DEF ImplementsRelay

\* The saga hears of nothing that a transaction did not commit, and what a
\* transaction recorded stays in the outbox until the topic has it, whichever
\* replicas start, migrate, crash or close in between.
THEOREM ServiceImplementsOutbox == ServiceSpec => ImplementsOutbox
<1>1. RP!RelayAssumption
  BY ConstantsAssumption, ServiceAssumption DEF RP!RelayAssumption
<1>2. RP!Spec => RP!Outbox!Spec
  BY <1>1, RP!RelayImplementsOutbox DEF RP!ImplementsOutbox
<1>3. TypeOK => DOMAIN outbox = 1..Len(outbox)
  BY DEF TypeOK
<1>4. ASSUME TypeOK, RP!Outbox!Init
      PROVE  Outbox!Init
  BY <1>3, <1>4 DEF RP!Outbox!Init, Outbox!Init, RP!RowId
<1>5. ASSUME TypeOK, TypeOK', [RP!Outbox!Next]_(RP!Outbox!vars)
      PROVE  [Outbox!Next]_(Outbox!vars)
  <2>1. DOMAIN outbox = 1..Len(outbox) /\ DOMAIN outbox' = 1..Len(outbox')
    BY <1>3, <1>5 DEF TypeOK
  <2>2. ASSUME NEW e \in RP!RowId
        PROVE  /\ RP!Outbox!Record(e) => Outbox!Record(e)
               /\ RP!Outbox!Publish(e) => Outbox!Publish(e)
               /\ RP!Outbox!Retire(e) => Outbox!Retire(e)
    BY <2>1 DEF RP!Outbox!Record, Outbox!Record, RP!Outbox!Publish,
                Outbox!Publish, RP!Outbox!Retire, Outbox!Retire, RP!RowId
  <2>3. RP!Outbox!Next => Outbox!Next
    BY <2>2 DEF RP!Outbox!Next, Outbox!Next, RP!RowId
  <2>4. UNCHANGED RP!Outbox!vars => UNCHANGED Outbox!vars
    BY <2>1 DEF RP!Outbox!vars, Outbox!vars, RP!RowId
  <2> QED
    BY <1>5, <2>3, <2>4
<1> QED
  BY <1>2, <1>4, <1>5, ServiceImplementsRelay, SameRelay, ServiceCommandsTyped, PTL
     DEF ImplementsRelay, RP!Outbox!Spec, Outbox!Spec, ImplementsOutbox

\* The inductive invariants of the three components together: a message whose
\* offset is committed has its event in the outbox, or if it has no messageId
\* perhaps that of another such message (handlers), and a row that is marked
\* published is on the topic (relay).
THEOREM ServiceLosesNothing == ServiceSpec => []NothingLost
<1>1. ASSUME OffsetSafety, OneResultPerCommand, DeadLetterInv, TypeOK,
             RP!TypeOK, RP!PublishedIsDelivered
      PROVE  NothingLost
  <2> SUFFICES ASSUME NEW p \in Partition, NEW o \in 1..committed[p]
               PROVE  \E m \in Namesakes(Log[p][o]) : OnItsWay(m)
    BY DEF NothingLost
  <2>1. Handled(Log[p][o])
    BY <1>1 DEF OffsetSafety, HandledUpTo
  <2>2. Log[p][o] \in Message
    BY <1>1, ConstantsAssumption DEF OffsetSafety, HandledUpTo, TypeOK
  <2>3. PICK m \in Namesakes(Log[p][o]) : m \in inbox \/ deadLetters[m] > 0
    BY <2>1, <2>2, NamesakesOf DEF Handled
  <2>4. m \in Message
    BY <2>2, <2>3, NamesakesOf
  <2>5. PICK k \in DOMAIN outbox : outbox[k].cause = m
    BY <1>1, <2>3, <2>4 DEF OneResultPerCommand, DeadLetterInv, Told
  <2>6. k \in 1..MaxRows
    BY <1>1, ServiceAssumption DEF RP!TypeOK, TypeOK
  <2>7. rows[k].published => k \in delivered
    BY <1>1, <2>6 DEF RP!PublishedIsDelivered, RP!RowId
  <2> QED
    BY <2>3, <2>5, <2>7 DEF OnItsWay
<1> QED
  BY <1>1, ServiceImplementsCommands, ServiceCommandsTyped, ServiceDelivers,
     OffsetsAreSafe, EachCommandHasOneResult, DeadLettersKnown, PTL
     DEF ImplementsCommands

SP == INSTANCE Startup_proofs WITH
    Service    <- [i \in Instance |-> "payment-service"],
    Database   <- {"platform"},
    DatabaseOf <- [i \in Instance |-> "platform"],
    Folder     <- [s \in {"api-gateway", "order-service", "payment-service"} |->
                      IF s = "payment-service" THEN Migration ELSE {}]

\* The module of the proofs about the processes has the actions of Startup.
LEMMA SameBoot == Boot!BootSpec => SP!BootSpec
<1>1. Boot!BootInit => SP!BootInit
  BY DEF Boot!BootInit, SP!BootInit
<1>2. [Boot!BootNext]_<<Boot!boot, calm>> => [SP!BootNext]_<<SP!boot, calm>>
  <2> USE DEF Boot!Goto, SP!Goto, Boot!Stateless, SP!Stateless, Boot!boot, SP!boot
  <2>1. \A env : /\ Boot!loadServiceConfig(env) <=> SP!loadServiceConfig(env)
                 /\ Boot!loadGatewayConfig(env) <=> SP!loadGatewayConfig(env)
    BY DEF Boot!loadServiceConfig, SP!loadServiceConfig,
           Boot!loadGatewayConfig, SP!loadGatewayConfig,
           Boot!loadEdgeServiceConfig, SP!loadEdgeServiceConfig,
           Boot!readRequiredString, SP!readRequiredString,
           Boot!readPort, SP!readPort, Boot!readWellFormed, SP!readWellFormed,
           Boot!readOptionalPositiveInt, SP!readOptionalPositiveInt
  <2>2. \A i, known : Boot!Newer(i, known) = SP!Newer(i, known)
    BY DEF Boot!Newer, SP!Newer
  <2>3. ASSUME NEW i \in Instance
        PROVE  /\ Boot!PendingMigrations(i) = SP!PendingMigrations(i)
               /\ Boot!Conflict(i) = SP!Conflict(i)
    BY <2>2 DEF Boot!PendingMigrations, SP!PendingMigrations, Boot!Conflict,
                SP!Conflict
  <2>4. ASSUME NEW i \in Instance
        PROVE  /\ Boot!startApiGateway(i) => SP!startApiGateway(i)
               /\ Boot!createService(i) => SP!createService(i)
               /\ Boot!RunMigrations(i) => SP!RunMigrations(i)
               /\ Boot!MigrationRaises(i) => SP!MigrationRaises(i)
               /\ Boot!MigratedElsewhere(i) => SP!MigratedElsewhere(i)
    BY <2>1, <2>2, <2>3
       DEF Boot!startApiGateway, SP!startApiGateway,
           Boot!createService, SP!createService,
           Boot!RunMigrations, SP!RunMigrations,
           Boot!MigrationRaises, SP!MigrationRaises,
           Boot!MigratedElsewhere, SP!MigratedElsewhere
  <2>5. ASSUME NEW i \in Instance
        PROVE  /\ Boot!Close(i) => SP!Close(i)
               /\ Boot!Closed(i) => SP!Closed(i)
               /\ Boot!Crash(i) => SP!Crash(i)
    BY DEF Boot!Close, SP!Close, Boot!Closed, SP!Closed, Boot!Crash, SP!Crash
  <2>6. Boot!Stabilise => SP!Stabilise
    BY DEF Boot!Stabilise, SP!Stabilise
  <2> QED
    BY <2>4, <2>5, <2>6 DEF Boot!BootNext, SP!BootNext, Boot!Boot, SP!Boot
<1> QED
  BY <1>1, <1>2, PTL DEF Boot!BootSpec, SP!BootSpec

\* A replica serves only when its tables exist, whichever replicas migrated,
\* crashed or closed before.
THEOREM ReplicasServeMigrated == ServiceSpec => []ServingMeansMigrated
<1>1. SP!StartupAssumption
  BY ServiceAssumption
     DEF SP!StartupAssumption, SP!ServiceName, Boot!Variable, Boot!Value,
         SP!Variable, SP!Value
<1>2. SP!SeparateDatabases
  BY DEF SP!SeparateDatabases
<1>3. SP!BootSpec => []SP!ServingMeansMigrated
  BY <1>1, <1>2, SP!SeparateServicesMigrate
<1>4. SP!ServingMeansMigrated => ServingMeansMigrated
  BY DEF SP!ServingMeansMigrated, ServingMeansMigrated,
         Boot!ServingMeansMigrated, SP!Migrated, Boot!Migrated,
         SP!Stateless, Boot!Stateless
<1> QED
  BY <1>3, <1>4, ServiceImplementsBoot, SameBoot, PTL

----------------------------------------------------------------------------
(* Types, and the connections. *)

\* A replica without connections runs no handler and owns no partition.
Disconnected ==
    \A i \in Instance : ~Connected(i) =>
        /\ job[i].pc = "idle"
        /\ \A p \in Partition : owner[p] # i

\* A step of a handler is its own: it moves no other, and no partition.
LEMMA HandlesOwnJob ==
    ASSUME TypeOK, NEW i \in Instance,
           \/ Handle(i) \/ CallProcessorFails(i)
           \/ TransactionAborts(i) \/ AcknowledgeFails(i)
    PROVE  owner' = owner /\ \A j \in Instance \ {i} : job'[j] = job[j]
<1>1. owner' = owner
  BY DEF Handle, Fetch, PrepareCharge, PrepareRefund, CallProcessor,
         CommitCharge, CommitRefund, Commit, recordDeadLetter, NewDeadLetter,
         DeadLetterRaises,
         Acknowledge, CallProcessorFails, TransactionAborts, AcknowledgeFails, kafka
<1>2. \E k : job' = [job EXCEPT ![i] = k]
  BY DEF Handle, Fetch, PrepareCharge, PrepareRefund, CallProcessor,
         CommitCharge, CommitRefund, Commit, recordDeadLetter, NewDeadLetter,
         DeadLetterRaises,
         Acknowledge, CallProcessorFails, TransactionAborts, AcknowledgeFails,
         Replies
<1> QED
  BY <1>1, <1>2 DEF TypeOK

\* What starting and closing do to the phase of a replica.
LEMMA PhaseMoves ==
    ASSUME Boot!BootTypeOK, NEW i \in Instance,
           \/ Boot!Boot(i) \/ Boot!MigratedElsewhere(i) \/ Boot!Close(i)
           \/ Boot!Closed(i) \/ Boot!Crash(i)
    PROVE  /\ \A j \in Instance \ {i} : phase'[j] = phase[j]
           /\ Boot!Boot(i) \/ Boot!MigratedElsewhere(i) \/ Boot!Close(i) =>
                 (Connected(i) => Connected(i)')
<1>1. phase \in [Instance -> Boot!Phase]
  BY DEF Boot!BootTypeOK
<1>2. phase' = phase \/ \E p : phase' = [phase EXCEPT ![i] = p]
  BY DEF Boot!Boot, Boot!startApiGateway, Boot!createService, Boot!RunMigrations,
         Boot!MigrationRaises, Boot!MigratedElsewhere, Boot!Close, Boot!Closed,
         Boot!Crash, Boot!Goto
<1>3. Boot!Boot(i) => phase[i] \in {"down", "migrating"}
  BY DEF Boot!Boot, Boot!startApiGateway, Boot!createService, Boot!RunMigrations,
         Boot!MigrationRaises
<1>4. Boot!MigratedElsewhere(i) => phase' = phase
  BY DEF Boot!MigratedElsewhere
<1>5. Boot!Close(i) => phase' = [phase EXCEPT ![i] = "closing"]
  BY DEF Boot!Close, Boot!Goto
<1> QED
  BY <1>1, <1>2, <1>3, <1>4, <1>5 DEF Connected

\* Every step keeps the replicas without connections at rest.
LEMMA DisconnectedStep ==
    TypeOK /\ Boot!BootTypeOK /\ Disconnected /\ [ServiceNext]_all => Disconnected'
<1> SUFFICES ASSUME TypeOK, Boot!BootTypeOK, Disconnected, [ServiceNext]_all
             PROVE  Disconnected'
  OBVIOUS
<1>1. ASSUME UNCHANGED commands, \A j \in Instance : Connected(j) => Connected(j)'
      PROVE  Disconnected'
  BY <1>1 DEF Disconnected, commands, kafka
<1>2. ASSUME NEW i \in Instance, HandleCommand(i) \/ HandleFails(i)
      PROVE  Disconnected'
  <2>1. owner' = owner /\ \A j \in Instance \ {i} : job'[j] = job[j]
    BY <1>2, HandlesOwnJob DEF HandleCommand, HandleFails
  <2>2. Connected(i) /\ \A j \in Instance : Connected(j)' <=> Connected(j)
    BY <1>2 DEF HandleCommand, HandleFails, boot, Connected
  <2> QED
    BY <2>1, <2>2 DEF Disconnected
<1>3. CASE Assign
  <2>1. /\ job' = job /\ \A p \in Partition : Connected(owner'[p])
        /\ phase' = phase
    BY <1>3 DEF Assign, Rebalance, boot
  <2> QED
    BY <2>1 DEF Disconnected, Connected
<1>4. ASSUME NEW i \in Instance, Start(i) \/ MigratedElsewhere(i) \/ Stop(i)
      PROVE  Disconnected'
  <2>1. UNCHANGED commands
    BY <1>4 DEF Start, MigratedElsewhere, Stop
  <2>2. /\ \A j \in Instance \ {i} : phase'[j] = phase[j]
        /\ Connected(i) => Connected(i)'
    BY <1>4, PhaseMoves DEF Start, MigratedElsewhere, Stop
  <2>3. \A j \in Instance : Connected(j) => Connected(j)'
    BY <2>2 DEF Connected
  <2> QED
    BY <1>1, <2>1, <2>3
<1>5. ASSUME NEW i \in Instance, Exit(i) \/ Die(i)
      PROVE  Disconnected'
  <2>1. /\ job' = [job EXCEPT ![i] = Idle]
        /\ owner' = [p \in Partition |-> IF owner[p] = i THEN Nobody ELSE owner[p]]
    BY <1>5 DEF Exit, Die, Crash
  <2>2. \A j \in Instance \ {i} : phase'[j] = phase[j]
    BY <1>5, PhaseMoves DEF Exit, Die
  <2>3. job'[i].pc = "idle" /\ \A j \in Instance \ {i} : job'[j] = job[j]
    BY <2>1, IdleState DEF TypeOK
  <2>4. \A p \in Partition : owner'[p] # i
    BY <2>1, ConstantsAssumption
  <2>5. \A j \in Instance \ {i}, p \in Partition : owner'[p] = j => owner[p] = j
    BY <2>1, ConstantsAssumption
  <2> QED
    BY <2>2, <2>3, <2>4, <2>5 DEF Disconnected, Connected
<1>6. ASSUME NEW i \in Instance,
             DrainOutbox(i) \/ DrainFails(i) \/ Stopping(i)
      PROVE  Disconnected'
  BY <1>1, <1>6 DEF DrainOutbox, DrainFails, Stopping, boot, Connected
<1>7. CASE Tick \/ Calm
  BY <1>1, <1>7 DEF Tick, Calm, Boot!Stabilise, boot, Boot!boot, Connected
<1>8. CASE UNCHANGED all
  BY <1>1, <1>8 DEF all, boot, Connected
<1> QED
  BY <1>2, <1>3, <1>4, <1>5, <1>6, <1>7, <1>8 DEF ServiceNext, Run, Interfere

\* The processes keep their types in the composed service.
LEMMA ServiceBootTyped == ServiceSpec => []Boot!BootTypeOK
<1>1. SP!StartupAssumption
  BY ServiceAssumption
     DEF SP!StartupAssumption, SP!ServiceName, Boot!Variable, Boot!Value,
         SP!Variable, SP!Value
<1>2. SP!BootSpec => []SP!BootTypeOK
  BY <1>1, SP!ProcessesTypeCorrect
<1>3. SP!BootTypeOK => Boot!BootTypeOK
  BY DEF SP!BootTypeOK, Boot!BootTypeOK, SP!Phase, Boot!Phase
<1> QED
  BY <1>2, <1>3, ServiceImplementsBoot, SameBoot, PTL

\* Every variable of the service stays in its range, and a replica that is not
\* connected runs no handler and owns no partition.
THEOREM ServiceTypeCorrect == ServiceSpec => []ServiceTypeOK
<1>1. ServiceInit => Disconnected
  BY IdleState, ConstantsAssumption DEF ServiceInit, Init, Disconnected
<1>2. RP!TypeOK => Relay!TypeOK
  BY DEF RP!TypeOK, Relay!TypeOK, RP!RowId, Relay!RowId, RP!OutboxRow,
         Relay!OutboxRow, RP!Poller, Relay!Poller, RP!Publishing, Relay!Publishing
<1>3. TypeOK /\ Relay!TypeOK /\ Boot!BootTypeOK /\ Disconnected => ServiceTypeOK
  BY DEF ServiceTypeOK, Disconnected
<1> QED
  BY <1>1, <1>2, <1>3, DisconnectedStep, ServiceCommandsTyped, ServiceBootTyped,
     ServiceDelivers, PTL DEF ServiceSpec
=============================================================================
