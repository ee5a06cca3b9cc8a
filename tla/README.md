# Models and proofs of dist-services

This directory keeps TLA+ models of the repository, the TLC configurations that
check them on small instances, and TLAPS proofs of what must hold for every
size. Paths are relative to the repository's root; `payment/` abbreviates
`apps/payment-service/src/`.

## 1. The system

dist-services is an order platform under construction. At this commit three
services run; the others (inventory, shipping, saga orchestrator, notification,
reporting, packages/database) are READMEs.

| Component | State | Operations | Talks to |
|---|---|---|---|
| payment-service, domain (`payment/domain/`) | none, pure | planCharge, decideCharge, planRefund, decideRefund | called inside the two transactions |
| payment-service, command handling (`payment/messaging/command-handler.ts`, `backoff.ts`, `payment/db/payments-repository.ts`) | tables payments, payment_attempts, inbox_events, outbox_events, dead_letter_events; per delivery: retry counters and the provider's answer | prepare, provider call, complete, dead-letter, commit the offset | Kafka topic `dist.command.payments`, PostgreSQL, provider |
| payment-service, outbox relay (`payment/messaging/kafka-runtime.ts`) | published_at, claimed_by, lease_until of outbox rows; per replica: publishing, inFlight, timer | poll, claim, send, mark, release, stop | PostgreSQL, Kafka event and dead-letter topics |
| payment-service, server (`payment/server.ts`) | runtime handles | start (migrations, routes, messaging), close | all of the above |
| migrations (`*/db/migrate.ts`, drizzle-orm) | the journal and the schema of a database | read the journal, migrate in one transaction | PostgreSQL; called by both services at start |
| order-service (`apps/order-service/src/`) | tables orders, order_items, order_status_history | POST /orders (one transaction), GET /orders/:id (three reads) | PostgreSQL; called by the gateway |
| api-gateway (`apps/api-gateway/src/`) | none, one abort timer per request | POST and GET /orders, mapping of downstream answers | order-service over HTTP |
| packages/contracts | none | envelope and order validation, totals, follow-up envelopes | used by all |
| packages/config | none | which environments a process accepts | used by all |
| packages/kafka, telemetry | none | topic tables, logging | used by all |

### What is hard, and what makes each part correct

**Command handling.** Kafka delivers at least once; a rebalance moves a
partition while the old owner's handler keeps running, so two replicas may be
inside one command. The handler takes two transactions with a provider call
between them, and anything can happen in the gaps: crash, lost reply, retry of
either of two nested loops, another command of the same payment. Correct means:
one result per command, no message acknowledged before it is handled, what is
recorded and announced agrees with what the provider did, money taken is never
forgotten, the attempts table agrees with the payments table, the published
history makes sense, poison is dead-lettered and does not block a partition.

**Outbox relay.** Replicas compete for rows through leases; a lease may expire in
the middle of a drain, any statement may fail with or without effect, a replica
may stop or die holding claims. Correct means: no event lost, exclusive claims
while leases are valid, every row published in the end, an orderly shutdown, and
the order of an order's events.

**Payment service as a whole.** Handlers and relay of a replica run between each
other's steps and end in a fixed order, in the middle of which the process may
die. Correct means: both halves behave as they do alone, and between a committed
offset and the topic no event is lost.

**Order flow.** The gateway's abort timer races order-service's answer, and the
abort does not reach the handler, which goes on; a commit may take effect and be
reported as a failure; totals meet int4. Correct means:
what a client is told agrees with what is stored, for every answer that promises
something (201, 200, 404, and that nothing was stored: 400, 503), orders are
stored whole or not at all, and every request is answered.

**Starting.** Every service migrates its database itself. The migrator compares
its folder with the newest journal row only and reads that row outside its
transaction. Correct means: a service that serves has its tables, and replicas
that start at once all serve in the end.

The full list of what is hard to test, each at its line, is `hazards` in
PROJECT.json.

## 2. Modules

| Module | Models | Notes |
|---|---|---|
| `PaymentDomain` | `payment/domain/charge-payment.ts`, `refund-payment.ts` | pure operators; a row is its status and whether charged_at is set, "NONE" is no row |
| `PaymentCommands` | `command-handler.ts`, `backoff.ts`, `processor-commit.ts`, the command side of `payments-repository.ts`, the consumer in `kafka-runtime.ts` | extends PaymentDomain |
| `OutboxRelay` | the outbox side of `payments-repository.ts`, `drainClaimedOutbox`, `publishOutbox`, `triggerPublish`, `stop` | |
| `PaymentLedger` | what the payment service promises: money moves, each command is answered once and atomically | abstract, models no file; PaymentCommands implements it (`ImplementsLedger`) |
| `TransactionalOutbox` | what ADR 0002 wants of the outbox: an event is recorded, reaches the topic, is retired | abstract, models no file; OutboxRelay and PaymentService implement it (`ImplementsOutbox`) |
| `Startup` | `packages/config`, `db/migrate.ts` and the start and end of `server.ts` and `index.ts` of all three services | the migrator is external |
| `PaymentService` | `payment/server.ts`, start and stop of `kafka-runtime.ts` | extends PaymentCommands, instantiates OutboxRelay and Startup |
| `OrderContract` | `packages/contracts/http/create-order.ts` | pure operators |
| `OrderFlow` | routes, HTTP client and response mapping of `apps/api-gateway`, routes and repository of `apps/order-service` | extends OrderContract and Startup |
| `MCPaymentCommands`, `MCOutboxRelay`, `MCPaymentService`, `MCOrderFlow` | instances for TLC | |
| `PaymentCommands_proofs`, `PaymentMoney_proofs`, `PaymentLedger_proofs`, `PaymentAccount_proofs` | theorems about PaymentCommands, each extending the one before | types and offsets; the provider, the rows and the attempts; dead letters, the refinement and the history; captured money |
| `OutboxRelay_proofs`, `Startup_proofs` | theorems about these modules | |
| `OrderFlow_proofs` | theorems about OrderFlow, extending those about Startup | |
| `PaymentService_proofs` | theorems about PaymentService, from those about its parts | |

Operators whose comment begins with "Mutant" are not part of a model. Each is a
mistake the code could contain; putting it in the place of the operator that
follows it makes one of the properties fail (`mutants` in PROJECT.json).

### PaymentCommands

`payments`, `attempts`, `inbox`, `deadLetters`, `outbox` are the five tables.
`answer`, `captured`, `returned` are the provider. `committed`, `position`,
`owner` are the consumer group: committed offset, how far the owner has read, and
the owner. `job[i]` is replica i's `eachMessage` invocation.

| Action | Code |
|---|---|
| `Fetch` | eachMessage starts; parsing and the type, version and payload checks decide whether the handler goes to `prepare` or straight to its catch block |
| `PrepareCharge`, `PrepareRefund` | the first transaction |
| `CallProcessor`, `CallProcessorFails` | processor.charge, processor.refund |
| `CommitCharge`, `CommitRefund` | the second transaction: duplicate, completed, or raised |
| `recordDeadLetter`, `DeadLetterRaises` | the catch block |
| `Acknowledge`, `AcknowledgeFails` | heartbeat and commitOffsets |
| `TransactionAborts`, `Crash`, `Rebalance` | faults |

A transaction that committed may lose its reply (`Replies`), in which case the
handler behaves as after an abort. `OnError` is what an error leads to in each
step: the inner loop around the completion, the outer loop around everything,
the dead letter when both are exhausted, and leaving the handler when
dead-lettering fails, so that the message is read again.

Abstractions, and why they are sound:

- A transaction is one step. `findPayment` locks the row it finds and the unique
  keys on payments.id, payments.order_id, inbox_events.message_id and
  dead_letter_events.message_id make one of two colliding inserts fail, so two
  transactions on one payment appear in some order or one of them aborts, and
  aborts are modelled. One race is outside this argument: two commands of one
  order and different payment ids, neither row existing, in different
  partitions. Producers key commands by orderId
  (`docs/kafka-topic-conventions.md`), so they are in one partition.
- Waiting times of the back-off are left out: any step of anyone may come
  between two attempts.
- A message is a model value with a kind: charge, refund, poison (refused, with a
  messageId), garbage (no messageId), null (the JSON document null, or any other
  value without a messageId that the database refuses, such as text with U+0000).
  Messages with a messageId, and commands, are taken to be storable; one that is
  not would be fetched for ever as null is.
- A message without a messageId is dead-lettered under `unparseable-` and the
  millisecond (`payments-repository.ts:203-211`). Time is not counted, so the id
  is that of any earlier row of such a message, or a fresh one (`Namesakes`,
  `DeadLetterExists`, `DeadLetterIsNew`): two replicas, or one whose clock is set
  back, can meet in a millisecond. A row under the id makes the message a
  duplicate, and nothing is stored for it.
- The provider honours idempotency keys (`charge:<paymentId>`,
  `refund:<paymentId>`): a request repeated for a message is answered as before,
  an approved key stays approved, a refusal does not bind a later command. It may
  act although the call raises. The simulated processor is a special case.
- `MaxRetries` bounds both loops. In the code the inner loop always uses the
  default delays and the outer one those it is given; both default to two retries.
- The relay does not change anything a handler reads, so the two are modelled
  apart, and PaymentService joins them. `outbox` is a sequence in commit order.

### OutboxRelay

`rows` has published_at, claimed_by and the time the lease has left; `poller[i]`
is replica i's drain; `inFlight[i]` says that the variable inFlight holds the
promise of the running drain; `life[i]` is the progress of stop(). The claim
transaction takes two steps, `TriggerPublish` (select for update skip locked) and
`claimUnpublishedOutbox` (update and commit), since others skip the locked rows.
`TriggerWhilePublishing` is the timer firing during a drain. A process that ends
comes back under a new instance id, its claims staying under the name `Gone`.
Rows are numbered in the order of created_at; `delivered` is a set because
downstream consumers deduplicate by messageId.

`Outbox` is `INSTANCE TransactionalOutbox` with `recorded` the rows inserted,
`topic` those delivered and `retired` those with published_at set. A send is
`Publish`, the update of markOutboxPublished is `Retire` when the row is still the
caller's and a stutter when it is not; claims, releases, leases, failed calls,
stop() and crashes change nothing the outbox shows. Sending a row again is a
stutter, so "at least once" is all that is promised, as ADR 0002:42 says.
PaymentService instantiates the same module with its own outbox table.

### PaymentLedger and the refinement

`Ledger` in PaymentCommands is `INSTANCE PaymentLedger` with `status` the status
column, `answered` the inbox and `events` the outbox. A completion is one answer
of the ledger (`Charged`, `Failed`, `Refunded` or `RefundFailed`), the first
prepare of a charge is `Open`, a first answer of the provider is `Capture` or
`Return`, a dead letter is `DeadLetter`; deliveries, retries, replies that are
lost, rebalances and crashes change nothing the ledger shows. The ledger's guards
hold the promises: a charge is announced of captured payments only, a refund only
of a charged payment whose order got its money back, "not found" only when the
order has no payment, and what is charged never fails.

A command that is in the inbox and delivered once more still reaches the provider
(prepare does not look in the inbox, whatever ADR 0002:25 says of side effects).
It is the refinement that shows this to be harmless under the idempotency keys:
to the ledger the delivery is a stutter.

### Startup

| Action | Code |
|---|---|
| `startApiGateway`, `createService` | load*Config; for the services the pool, and the journal read by the migrator |
| `RunMigrations`, `MigrationRaises` | the migrator's transaction, which commits or meets tables that another replica has made |
| `MigratedElsewhere` | the same by replicas that are not in `Instance` |
| `Close`, `Closed`, `Crash`, `Stabilise` | SIGTERM, the end of close(), death, and the end of faults |

An environment holds for each variable whether its text is absent, blank,
malformed or valid, and the port's number. The journal belongs to the database:
both services call the migrator without naming a table of their own.

### PaymentService

An action is the conjunction of the actions of the components it is a step of,
for example `Die` = a crash of the process, its handler and its drain. `Exit` is
the second half of stop(): consumer.disconnect waits for the running handler
(idle) and leaves the group, to which this looks like a crash between two
messages; then the producer, the app and the pool end. `Connected` holds until
then, so the consumer goes on handling while the drain is awaited and the claims
are released, as the order of calls in stop() has it. `inserted` of OutboxRelay is
`Len(outbox)`: the relay's `Insert` is not an action here, but what a handler's
transaction is in the eyes of the relay.

### OrderFlow

| Action | Code |
|---|---|
| `Receive` | the gateway's route until its fetch |
| `ReceiveHeaders`, `ReceiveBody` | fetch resolves; the body is parsed and mapped |
| `TimerFires`, `ConnectionLost` | the abort of the HTTP client, a broken connection, before the headers (504, 502) or in the body (the status kept, the body lost) |
| `Arrive`, `Refused` | order-service's route until its first statement, also when the gateway has given up; nobody listens |
| `InsertOrder`, `InsertItems`, `InsertHistory`, `Commit` | the transaction of createOrder |
| `ReadOrder`, `ReadItems`, `ReadHistory` | the three selects of findById |
| `StatementFails`, `Disconnect`, `CrashOf` | a statement raises (a commit possibly after it took effect), the connection breaks, a process dies |

An order is named by the request that creates it (ids are random UUIDs, one per
handler). `draft` is what a transaction has written and not committed, or what a
reader has read so far. A body's texts are absent, blank, padded or plain, its
numbers positive or 0 for what is no positive integer.

## 3. Runs

Passing runs (the figures are for the configurations here):

| Run | Instance | Distinct states | Shows |
|---|---|---|---|
| `commands_one_order` | 2 replicas, one partition with charge, refund, charge of one payment, 1 retry in each loop | 800,000 | OneResultPerCommand, CommittedMeansHandled, MoneyMoved, CapturedIsAccounted, AttemptTrail, ResultHistory, PaymentLifecycle, ApprovedChargeStands, TypeOK |
| `commands_two_payments` | 2 replicas, poison, two payment ids of one order, one message produced twice, a null message, no retry | 658,000 | OneDeadLetterPerMessage, MoneyMoved, CapturedIsAccounted, AttemptTrail, OneRowPerOrder, ImplementsLedger |
| `commands_drain` | 2 replicas, 2 partitions with garbage and charge, and other garbage, 1 retry, with fairness | 333,000 | CommittedMeansHandled, EveryPartitionDrains |
| `relay_publish` | 2 replicas, 2 rows, batches of 2, lease of 1 tick, with fairness | 479,000 | PublishedIsDelivered, PublishedIsUnclaimed, LeaseExclusive, ImplementsOutbox, EveryRowPublished, TypeOK |
| `payment_service` | 1 replica in the composed service and others that migrate, 1 charge, 2 rows, 2 migrations, with fairness | 177,000 | ServiceTypeOK, NothingLost, ServingMeansMigrated, ImplementsCommands, ImplementsRelay, ImplementsOutbox, EveryMessageAnswered, EveryReplicaServes |
| `order_flow` | 1 POST with three possible bodies, 1 GET, a gateway, a second one with a bad environment, order-service, others that migrate, totals up to 7, with fairness | 134,000 | StoredIsWhole, CreatedIsStored, RefusedIsNotStored, ReadsMatchStore, ForwardedIsValid, EveryRequestAnswered, EveryReplicaServes, ValidOrderConfirmed, TypeOK |

Bounds, and why they suffice. Two replicas are what every race here needs: an
evicted handler and the new owner, or two pollers. Three commands give each order
in which a refund can fall between, before or after two charges. One retry has
both loops entered, exhausted, and the inner one started again by the outer one;
without retries (`commands_two_payments`) every failure goes straight to the
dead letter. `MaxGarbage` stops faults once there are two dead letters of messages
without an id, since each delivery adds one. The safety runs stop at `calm` states
(`NotCalm`): calm only takes steps away. They use symmetry of the replicas; the
runs with liveness do not. Deadlock is not checked: a drained topic and an empty
outbox are where the system rests.

In `payment_service` one replica is enough for what is new there, the interleaving
of one process's handler, drain, stop() and death; what two replicas do to each
other is checked in the runs of the parts, and the theorems of section 4 cover any
number. `MigratedElsewhere` stands for the migrators of the other replicas.
`MaxRows` bounds the outbox in the guard of `HandleCommand`; two rows are a result
and a dead letter. `Exit` shares the bound `MaxGarbage` with the crash it looks
like.

In `order_flow` one creation and one query suffice, since two creations share
nothing (each has its own id). Ids are random UUIDs, so a client asks only for an
order it was told of: a query comes after the creation of its order was
answered, and no read runs beside it. What `ReadsMatchStore` exercises is that an
answer given before the commit, or a row changed later, would be seen. The limit
7 stands for int4's largest value, with one body whose two items fill it exactly,
one that exceeds it by one, and one with an item that is not valid. The second
gateway has a malformed LOG_LEVEL and never starts.

Violation runs. Each checks one sentence of the documents, and TLC finds a
behaviour of the code that contradicts it:

| Run | Sentence | What happens |
|---|---|---|
| `commands_stale_decision` | ADR 0002:54, same-payment work is serialized | a refund that one replica completes between the two transactions of a charge in another, one of the two being fenced, turns the approved charge into payment.failed, the money taken |
| `commands_null_poison` | ADR 0002:16, poison is dead-lettered so that the offset can be committed | the document `null` violates NOT NULL of dead_letter_events.envelope, at every delivery |
| `commands_same_millisecond` | ADR 0002:64, the dead letter and its event are written, then the offset is committed | two messages without a messageId that two replicas dead-letter in one millisecond share the id: the second finds the row of the first, and its offset is committed with neither row nor event. No fault is needed (`NoFault`) |
| `relay_shutdown` | ADR 0002:40, shutdown waits for the in-flight drain | a poll during a drain replaces it in inFlight |
| `relay_order` | topic conventions:56, records of an order preserve order | disjoint batches of two pollers are sent in either order |
| `startup_shared` | service-building-guide:38, migrate "before accepting traffic" | order-service and payment-service on one database, as `apps/order-service/README.md:25` and `apps/payment-service/README.md:29` configure them: the journal's newest row is payment-service's, order-service's older migration is skipped, and it serves without its tables |

`ApprovedChargeStands` states how far the code keeps the promise of
`commands_stale_decision`, and that run is why `CapturedIsAccounted` accepts a
dead letter of any command of the order as the place where someone will look.
Because of `commands_same_millisecond`, `CommittedMeansHandled`, `NothingLost` and
`EveryMessageAnswered` hold each message with a messageId to its own dead letter
or result, and the messages without one only to there being one for some such
message. `commands_drain` has two of them, so both outcomes occur in it.

A further sentence is kept in effect and not to the letter, and has no run: ADR
0002:52 has a failed completion retried without calling the processor again. The
inner loop does so, but when its retries are spent the outer one
(`command-handler.ts:61`) starts again at prepare and asks the provider again,
under the same idempotency key. `MoneyMoved`, `AttemptTrail` and
`ImplementsLedger` show that no money moves twice and no attempt is lost by it.

### Fairness

`PaymentCommands!FairSpec`: a replica that can take a step of its handler takes
one (the event loop runs, calls return or fail), an unassigned partition is
assigned (the group coordinator), and faults end at some point (`Stabilise`).
Nothing is assumed about which replica gets a partition or how often rebalances
happen before that point. `OutboxRelay!FairSpec`: timers fire and calls return,
stop() proceeds, time passes, faults end. A send that can never succeed, of an
event larger than the broker takes, is outside this assumption. After that point drains finish within
their lease (30 s for at most a batch): `Tick` waits for running drains. Without
this two pollers can take expired leases from each other for ever, which is a
property of the protocol and not of its implementation.

`PaymentService!FairServiceSpec`: a replica's handler, its drain and its process
each run; a process that has ended is started again (the repository deploys only
the infrastructure, with `restart: unless-stopped`; whoever deploys the services
must do the same, and the models of the parts assume it too); the group makes the
rebalances it must; time passes; and faults end, `<>calm`. `Calm` is taken only
while no replica is in stop(), since a shutdown that goes on is not yet the
restart that follows it.

`OrderFlow!FairSpec`: the handlers of both processes run, the timer among the
gateway's steps, and processes are started again. That a broken connection is
noticed is not assumed: this is what the timer is for, and `EveryRequestAnswered`
fails when the timer does not cover the body. In a calm system the timer fires
only for an answer that will not come (`Late`), which `ValidOrderConfirmed` needs.

## 4. Proofs

TLAPS checks these for every value of the constants, from the assumptions the
modules name (`ConstantsAssumption`, `RelayAssumption`, `StartupAssumption`,
`ServiceAssumption`, `FlowAssumption`: ranges of the constants, and that
placeholders such as `Nobody` are no replica, partition or request). Three
theorems need more and say so in their hypotheses:

- `KeyedByOrder`: the commands of an order are in one partition of the topic, as
  `TOPIC_PARTITION_KEYS` (`packages/kafka/index.ts:45`) and
  `docs/kafka-topic-conventions.md:27` have it. The sender does not exist yet.
  Every log that TLC is given has this property (`LogsAreKeyed`).
  `CapturedIsAccounted` is false without it: let a first charge be declined and
  the row be FAILED, a second charge be captured, and a refund of the order, from
  another partition, complete as REFUND_FAILED before that charge completes; the
  charge then ends as payment.failed, with no attempt, no dead letter and no
  charged_at. The service takes no measure of its own against this.
- `SeparateDatabases`: processes that share a database are replicas of one
  service. `startup_shared` shows what happens otherwise.
- `TotalsAreSums`: the fold in calculateTotalAmountCents returns the sum over the
  items. It is true of every body, but its proof is an induction over the items,
  which is out of the prover's reach; TLC evaluates it for all bodies of up to
  three items of small numbers and for those of the run (`SmallTotals`).

| Theorem | Says |
|---|---|
| `CommandsTypeCorrect`, `RelayTypeCorrect`, `ProcessesTypeCorrect` | type correctness of PaymentCommands, OutboxRelay and Startup |
| `ServiceTypeCorrect` | ServiceTypeOK |
| `FlowTypeCorrect` | TypeOK of OrderFlow, under TotalsAreSums |
| `EachCommandHasOneResult` | OneResultPerCommand |
| `NoMessageIsLost` | CommittedMeansHandled: no message with a messageId is lost; of those without one, the first to be committed is not |
| `ReportsMatchTheProvider` | MoneyMoved |
| `OrdersHaveOneRow` | OneRowPerOrder |
| `StatusFollowsLifecycle` | PaymentLifecycle, an action property |
| `AttemptsMatchTheRows` | AttemptTrail |
| `HistoriesMakeSense` | ResultHistory |
| `CapturedMoneyIsAccounted` | CapturedIsAccounted, under KeyedByOrder |
| `ApprovedChargesStand` | ApprovedChargeStands, under KeyedByOrder |
| `PublishedEventsAreDelivered` | PublishedIsDelivered |
| `LeasesExclude`, `PublishedRowsAreUnclaimed` | LeaseExclusive, PublishedIsUnclaimed |
| `RelayImplementsOutbox`, `ServiceImplementsOutbox` | OutboxRelay and PaymentService implement TransactionalOutbox |
| `MessagesDieOnce` | OneDeadLetterPerMessage |
| `CommandsImplementLedger` | PaymentCommands implements PaymentLedger |
| `ServiceImplementsCommands`, `ServiceImplementsRelay` | PaymentService implements PaymentCommands and OutboxRelay |
| `ServiceImplementsLedger` | PaymentService implements PaymentLedger |
| `ServiceKeepsPromises` | what is proved of the handlers, in PaymentService; under KeyedByOrder |
| `ServiceLosesNothing` | NothingLost, with the same distinction |
| `FlowImplementsStartup` | OrderFlow implements Startup |
| `SeparateServicesMigrate`, `FlowServesMigrated` | ServingMeansMigrated in Startup and in OrderFlow, under SeparateDatabases |
| `ReplicasServeMigrated` | ServingMeansMigrated in PaymentService, whose processes are replicas of one service |
| `ConfirmedOrdersExist` | CreatedIsStored |
| `RefusalsAreFinal` | RefusedIsNotStored |
| `ReadsAgreeWithOrders` | ReadsMatchStore |
| `StoredOrdersAreWhole` | StoredIsWhole, under TotalsAreSums |
| `GatewayValidates` | ForwardedIsValid |

The arguments:

- *One result.* OneResultPerCommand is inductive with the types: an event with a
  result is only appended together with its messageId entering the inbox, by a
  transaction that saw it absent.
- *No message lost.* Handled means the message is in the inbox or a message it may
  share its dead-letter id with has a row; that is the message itself if it has a
  messageId (`NamesakesOf`). The strengthening is that every message before the
  read position of a partition is handled as well, that a handler about to
  acknowledge is at a handled message, and that a busy replica which still owns
  its partition is at the message after the read position. The last is what makes
  the jump of the offset in `Acknowledge` move over one message only, and holds
  because a rebalance hands partitions to idle replicas only.
- *Money.* CHARGED or chargedAt needs a capture, REFUNDED a return for the order,
  and so for events. A completion is sound because the answer its handler carries
  was given for its message (`HandlerInv`), and because a handler past the prepare
  step of a charge has a row for its order. The row found by order id may be
  another payment's, which is why refunds are matched by order.
- *Lifecycle.* Completions never insert rows (a prepared charge's order has one
  already), so only prepare creates PENDING and the pairs of `Transition` are all
  there are.
- *Attempts.* A decision adds a successful attempt exactly when it sets charged_at
  or REFUNDED on a row that had not (`DecideRecords`); replays add none. `TrailInv`
  adds that a row without a charge has no charged_at, and says "exactly one" with a
  witness (`Exactly`), from which the cardinality follows in one place.
- *History.* Proved over the steps of PaymentLedger, where it is shorter, and carried
  over by the refinement. A charged or refunded status was announced as charged; an
  announced charge stays on the row until a refund, made or refused, which is
  announced later (`HistoryInv`). So a payment.failed after a payment.charged finds
  a refund's event in between, and a refund finds the charge.
- *Captured money.* The obstacle is a refund that completes between the capture and
  the completion of a charge: it leaves the row in a status in which the completion
  answers "failed" and keeps no trace. Handlers and answers of the provider are for
  messages whose predecessors in the partition are all handled (`AnswerInv`), also
  after a rebalance, since an evicted handler was at the front when it began. So of
  the commands of an order that are neither answered nor dead-lettered only one can
  be there (`Serialized`; here `KeyedByOrder` is used), and while a charge is open
  that the provider was asked for, no other command settles the order (`AccountInv`).
  `ApprovedIsCharged` therefore fails only after a command of the order has been
  dead-lettered (in `commands_stale_decision` the charge, by the new owner of the
  partition), and that dead letter is what accounts for the money. The theorem
  `ApprovedChargesStand` says so for every run: otherwise the completion, by
  whichever delivery of the charge, finds the order unsettled and announces
  payment.charged.
- *Delivery.* A poller in the mark step has just sent its current row.
- *Leases.* While the lease of a draining poller lives, each row it still has to
  publish is either published already or claimed in the table by that poller for
  exactly the time the poller has left (`DrainClaim`); the rows under the locks of
  claim transactions are unpublished, have no valid lease and are disjoint
  (`ClaimLock`). So a claim never takes a row from a live drain. Only stop() with a
  drain running does, which the property names.
- *Outbox.* A batch holds rows that have been inserted (`BatchInserted`), so a send
  is of a recorded event; the row that is marked has just been delivered
  (`MarkingIsDelivered`); no statement clears published_at (`ClaimRows`, `MarkedKept`).
  In the service the same follows through `RelayStep`.
- *Dead letters.* A message with an id has its row in dead_letter_events exactly
  when its event is in the outbox, and then one event (`DeadLetterInv`).
- *Ledger.* Step simulation under the types, `HandlerInv`, `MoneyInv` and
  `DeadLetterInv`. The work is in `ChargeAnswers` and `RefundAnswers`: a decision
  is made on the row found by payment or order id, and each of its branches is an
  answer the ledger allows for that row's status.
- *Composition.* Every step of PaymentService is a step or a stutter of each part
  (`CommandsStep`, `RelayStep`, `BootStep`). What is proved of a part then holds in
  the service: the proofs of OutboxRelay and Startup are instantiated with the
  service's state (`RP`, `SP`) and their assumptions follow from
  `ServiceAssumption`. `SameRelay` and `SameBoot` bridge the two instances of a
  module, which the prover takes for different.
- *Nothing lost.* A committed offset means a handled message, a handled message, or
  the one whose dead letter it shares, has its event in the outbox
  (`OneResultPerCommand`, `DeadLetterInv`), and a row marked
  published is on the topic (`PublishedIsDelivered`).
- *Composed types.* A replica that is not connected (starting, exiting or down) has
  left the group: only a crash or `Exit` ends a connection, both empty the job and
  give up the partitions, and a handler step or a rebalance towards a replica needs
  the connection (`DisconnectedStep`).
- *Starting.* With one service per database the journal holds all of the folder or
  nothing, also as a stale migrator remembers it, and is contained in the schema;
  so nothing that is skipped is missing. The journal of two services is neither,
  which is the counterexample of `startup_shared`.
- *What clients are told.* Before its answer a handler has stored nothing
  (`WorkInv`), an answer is made with what has been stored by then (`ReplyInv`), and
  the gateway passes on the status it got or one that promises nothing
  (`ClientInv`). An aborted request may still be handled, which is why 400 and 503
  must come from places no handler follows.
- *Stored orders.* A draft agrees with the prepared body in the columns its
  statements have written so far, and is committed after the last one (`WholeInv`,
  `DraftIsWhole`). Validating twice cleans the body once and leaves its total alone (`OrderedItems`, `OrderedTotal`). An input
  is set before the handler exists and never again, so a stored order stays the
  order of its request.
- *Reads.* A stored order never changes (`StoredIsFrozen`), so what each of the
  three selects has read is part of the stored order until the answer (`ReadInv`).
  Clients ask for orders they were told of, and those are stored.
- *Validation.* `ValidatedIsValid`: trimming leaves valid texts valid.

The inductive invariants were checked by TLC on the instances of section 3 before
they were proved.

Only model-checked are the liveness properties (`EveryPartitionDrains`,
`EveryRowPublished`, `EveryMessageAnswered`, `EveryReplicaServes`,
`EveryRequestAnswered`, `ValidOrderConfirmed`), since liveness under fairness is out
of the prover's reach, and that the totals are sums (`SmallTotals`). Every invariant
and every action property of a passing run is a theorem.

## 5. Not modelled

- Amounts, currencies, provider references and reasons of payments: no decision
  reads them. The total of an order is modelled, the currency only as what
  validation makes of it.
- Logging, tracing and request ids (packages/telemetry); the health routes, whose
  SELECT 1 nothing depends on; packages/kafka, tables of names. The key convention
  of the topics is an assumption named in section 2.
- `messages/order-service-workflow.ts` in packages/contracts: types of messages
  that no running service sends or reads.
- Fields of an envelope beyond what decides a message's kind.
- Texts and sizes that validation lets pass and PostgreSQL refuses: an order with
  U+0000 in a text, or with more items than the parameters of one insert allow,
  is answered 500 at every attempt, as one whose total exceeds int4 is
  (`OrderRaises`). `ValidOrderConfirmed` is for orders without them.
- The placeholder services, which have no code.
- Retries by clients. A client that repeats a POST creates a second order; no
  document promises otherwise. What it may rely on is `RefusedIsNotStored`.
- The gateway answers 201 with an error body when order-service's 201 lost its
  body. `docs/api-contracts.md` describes 201 with the order only and passes error
  bodies through for 4xx and 5xx; `CreatedIsStored` states what still holds.
- A provider that forgets a refusal under its idempotency key, and orders' events
  (order-service publishes none yet).

## 6. Plan

Done: command handling, the relay, the abstract ledger and outbox and their
refinements, the composed payment service, start and migrations, the order flow,
and the proofs of section 4, which state every safety property of the passing runs. Left:

1. Safety of shutdown in the order flow and in the payment service: no statement of
   a request, and no step of a handler, after its process has ended its pool.
2. `EveryMessageAnswered` from the liveness of the parts, for TLC with a poison
   message in the service's log.
