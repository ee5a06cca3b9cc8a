--------------------------- MODULE PaymentService --------------------------
(***************************************************************************)
(* The payment service as it is deployed: replicas that start and migrate  *)
(* (module Startup), handle commands (PaymentCommands) and relay their     *)
(* outbox (OutboxRelay), all on one database, and that close in the order  *)
(* of close() and stop(): the relay's timer, the running drain, the        *)
(* claims, the consumer, the producer, the pool.                           *)
(*                                                                         *)
(* An action joins the actions of the components it is a step of.  The row *)
(* that a command's transaction appends to the outbox is the row that the  *)
(* relay publishes, and one crash takes a replica's handler, its drain and *)
(* its migrator at once.                                                   *)
(*                                                                         *)
(* The operators marked "Mutant" are explained in PaymentCommands.         *)
(***************************************************************************)
EXTENDS PaymentCommands

CONSTANTS
    MaxRows,       \* bound: outbox rows
    Limit,         \* rows claimed at once
    LeaseTicks,    \* length of a lease
    Gone,          \* claimed_by names a process that has died
    Env,           \* replica -> its environment variables
    Migration,     \* the migrations in the service's folder
    When,          \* migration -> its timestamp
    Idempotent     \* migrations that may run again

VARIABLES
    rows, delivered, poller, inFlight, life,    \* see OutboxRelay
    phase, seen, journal, schema                \* see Startup

Relay == INSTANCE OutboxRelay WITH
    inserted <- Len(outbox),
    KeyOf    <- [k \in 1..MaxRows |-> k]

Boot == INSTANCE Startup WITH
    Service    <- [i \in Instance |-> "payment-service"],
    Database   <- {"platform"},
    DatabaseOf <- [i \in Instance |-> "platform"],
    Folder     <- [s \in {"api-gateway", "order-service", "payment-service"} |->
                      IF s = "payment-service" THEN Migration ELSE {}]

\* What the components assume of the constants they do not share.
ASSUME ServiceAssumption ==
    /\ Gone \notin Instance \cup {Nobody}
    /\ MaxRows \in Nat
    /\ Limit \in Nat \ {0}
    /\ LeaseTicks \in Nat \ {0}
    /\ \A i \in Instance : /\ Env[i].text \in [Boot!Variable -> Boot!Value]
                           /\ Env[i].port \in Int
    /\ When \in [Migration -> Int]
    /\ Idempotent \subseteq Migration

commands == <<database, provider, kafka, job>>
relay    == <<rows, delivered, poller, inFlight, life>>
boot     == <<phase, seen, journal, schema>>
all      == <<commands, relay, boot, calm>>

Serving(i) == phase[i] = "serving"

\* The consumer and the producer are connected until stop() has released the
\* claims.
Connected(i) == phase[i] \in {"serving", "closing"}

----------------------------------------------------------------------------
(* Serving.  The handler and the drain of a replica interleave. *)

\* Mutant: the handler produces its event itself.
HandlerProduces(i) ==
    /\ Connected(i)
    /\ Handle(i)
    /\ Len(outbox') <= MaxRows
    /\ delivered' = delivered \cup DOMAIN outbox'
    /\ UNCHANGED <<rows, poller, inFlight, life, boot>>

\* Also while stop() waits for the drain and releases the claims.
HandleCommand(i) ==
    /\ Connected(i)
    /\ Handle(i)
    /\ Len(outbox') <= MaxRows
    /\ UNCHANGED <<relay, boot>>

HandleFails(i) ==
    /\ Connected(i)
    /\ CallProcessorFails(i) \/ TransactionAborts(i) \/ AcknowledgeFails(i)
    /\ UNCHANGED <<relay, boot>>

\* Only a replica that has subscribed is assigned partitions.
Assign ==
    /\ Rebalance
    /\ \A p \in Partition : Connected(owner'[p])
    /\ UNCHANGED <<relay, boot>>

\* A drain that stop() did not wait for goes on until the process ends.
DrainOutbox(i) ==
    /\ UNCHANGED <<commands, boot>>
    /\ Connected(i)
    /\ Relay!Drain(i) \/ Relay!TriggerWhilePublishing(i)

DrainFails(i) ==
    /\ UNCHANGED <<commands, boot>>
    /\ \/ Relay!ClaimFails(i)
       \/ Relay!SendFails(i)
       \/ Relay!MarkFails(i)
       \/ Relay!ReleaseFails(i)

Tick ==
    /\ UNCHANGED <<commands, boot>>
    /\ Relay!Tick

----------------------------------------------------------------------------
(* Starting and closing. *)

Start(i) ==
    /\ Boot!Boot(i)
    /\ UNCHANGED <<commands, relay>>

MigratedElsewhere(i) ==
    /\ Boot!MigratedElsewhere(i)
    /\ UNCHANGED <<commands, relay>>

\* SIGTERM: clear the timer, wait for the drain, release the claims.
Stop(i) ==
    /\ UNCHANGED commands
    /\ Boot!Close(i)
    /\ Relay!Stop(i)

Stopping(i) ==
    /\ UNCHANGED <<commands, boot>>
    /\ Relay!DrainAwaited(i) \/ Relay!releaseAllOutboxClaims(i)

\* Mutant: the consumer is not disconnected.
ExitWithoutLeaving(i) ==
    /\ job[i].pc = "idle"
    /\ UNCHANGED commands
    /\ Boot!Closed(i)
    /\ Relay!Exit(i)

\* Mutant: the consumer does not wait for its handler, and commits the offset.
ExitCommits(i) ==
    /\ committed' = [p \in Partition |->
          IF owner[p] = i /\ job[i].part = p THEN job[i].off ELSE committed[p]]
    /\ job' = [job EXCEPT ![i] = Idle]
    /\ owner' = [p \in Partition |-> IF owner[p] = i THEN Nobody ELSE owner[p]]
    /\ UNCHANGED <<database, provider, position>>
    /\ Boot!Closed(i)
    /\ Relay!Exit(i)

\* consumer.disconnect waits for the handler that runs, and leaves the group,
\* to which it is as if the replica crashed between two messages; then
\* producer.disconnect, app.close, pool.end, process.exit.
Exit(i) ==
    /\ job[i].pc = "idle"
    /\ Crash(i)
    /\ Boot!Closed(i)
    /\ Relay!Exit(i)

Die(i) ==
    /\ Boot!Crash(i)
    /\ Crash(i)
    /\ Relay!Crash(i)

\* Faults end, and no replica is being shut down.
Calm ==
    /\ \A i \in Instance : life[i] = "running"
    /\ Boot!Stabilise
    /\ UNCHANGED <<commands, relay>>

----------------------------------------------------------------------------
ServiceInit == Init /\ Relay!Init /\ Boot!BootInit

Run(i) ==
    \/ Start(i)
    \/ Stopping(i)
    \/ Exit(i)

Interfere(i) ==
    \/ HandleFails(i)
    \/ DrainFails(i)
    \/ MigratedElsewhere(i)
    \/ Stop(i)
    \/ Die(i)

ServiceNext ==
    \/ \E i \in Instance :
          \/ HandleCommand(i)
          \/ DrainOutbox(i)
          \/ Run(i)
          \/ Interfere(i)
    \/ Assign
    \/ Tick
    \/ Calm

ServiceSpec == ServiceInit /\ [][ServiceNext]_all

\* The processes run and are started again when they have ended, the group
\* finishes the rebalances it must make, time passes, and faults end.
ServiceFairness ==
    /\ \A i \in Instance : /\ WF_all(HandleCommand(i))
                           /\ WF_all(DrainOutbox(i))
                           /\ WF_all(Run(i))
    /\ WF_all(Assign /\ \E p \in Partition : owner[p] = Nobody)
    /\ WF_all(Tick)
    /\ <>calm

FairServiceSpec == ServiceSpec /\ ServiceFairness

----------------------------------------------------------------------------
(* Properties. *)

\* Every variable of every component stays in its range; a replica without
\* connections runs no handler and owns no partition.
ServiceTypeOK ==
    /\ TypeOK
    /\ Relay!TypeOK
    /\ Boot!BootTypeOK
    /\ \A i \in Instance : ~Connected(i) =>
          /\ job[i].pc = "idle"
          /\ \A p \in Partition : owner[p] # i

\* The event of message m: on the topic, or in the outbox and not yet marked.
OnItsWay(m) ==
    \E k \in DOMAIN outbox :
        /\ outbox[k].cause = m
        /\ k \in delivered \/ ~rows[k].published

\* A message whose offset is committed is never without its event: the topic
\* has it, or some relay will still find it in the outbox, whichever replica
\* crashed or closed between the two.  For one without a messageId the event
\* may be that of another such message (PaymentCommands!EveryPoisonIsFiled).
NothingLost ==
    \A p \in Partition : \A o \in 1..committed[p] :
        \E m \in Namesakes(Log[p][o]) : OnItsWay(m)

\* The composition implements its components: each goes through steps of its
\* own specification, so that what holds of them holds here.
ImplementsCommands == Spec
ImplementsRelay    == Relay!Spec

\* ADR 0002, of the whole service: the saga only hears of what a transaction
\* has committed, and what it is to hear is in the outbox until it has.
Outbox == INSTANCE TransactionalOutbox WITH
    Event    <- 1..MaxRows,
    recorded <- DOMAIN outbox,
    topic    <- delivered,
    retired  <- {k \in 1..MaxRows : rows[k].published}

ImplementsOutbox == Outbox!Spec

\* Once the faults end, the saga has an answer to every message on the topic,
\* for one without a messageId perhaps that to another such message.
EveryMessageAnswered ==
    <>[](\A p \in Partition : \A o \in DOMAIN Log[p] :
            \E k \in delivered : outbox[k].cause \in Namesakes(Log[p][o]))

\* Service building guide, line 38: a replica that serves has its tables,
\* whatever the other replicas did to the journal, and whoever crashed when.
ServingMeansMigrated == Boot!ServingMeansMigrated

\* Once the faults end every replica serves.
EveryReplicaServes == <>[](\A i \in Instance : Serving(i))
============================================================================
