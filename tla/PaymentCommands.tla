-------------------------- MODULE PaymentCommands --------------------------
(***************************************************************************)
(* The command side of the payment service: replicas of one Kafka consumer *)
(* group handle charge and refund commands.  A handler prepares in one     *)
(* database transaction, calls the payment provider with none open,        *)
(* completes in a second transaction (inbox, payment, attempt, outbox),    *)
(* and then commits the offset; failures go through two nested retry loops *)
(* and end in a dead letter.                                               *)
(*                                                                         *)
(* A database transaction is one step: the row locks and unique keys it    *)
(* takes make concurrent ones appear in some order, or abort.  Between two *)
(* steps of a handler anything may happen: another replica's steps, a      *)
(* rebalance that takes the partition away while the handler keeps         *)
(* running, or a crash.                                                    *)
(*                                                                         *)
(* An operator marked "Mutant" is no part of the model: it is a mistake    *)
(* the code could contain, and a property must tell it from the operator   *)
(* that follows it.                                                        *)
(***************************************************************************)
EXTENDS PaymentDomain, Integers, Sequences, FiniteSets

CONSTANTS
    Instance,      \* replicas of the service (members of the consumer group)
    Partition,     \* partitions of dist.command.payments
    Message,       \* messages by messageId
    PaymentId,
    OrderId,
    Log,           \* partition -> the messages in it; a messageId may recur
    Kind,          \* message -> what the handler makes of it, see MessageKind
    PaymentOf,     \* command -> its paymentId
    OrderOf,       \* payment id -> the orderId its commands carry
    MaxRetries,    \* retryDelaysMs.length: retries after the first attempt
    MaxGarbage,    \* bound: dead letters without an id before faults end
    Nobody,        \* "no owner"
    Unset          \* "no partition"

\* charge, refund: valid commands.  poison: refused before any transaction
\* (envelope, type, version or payload) but with a messageId.  garbage: no
\* messageId can be read from it.  null: the JSON document null, or another
\* without a messageId that the database refuses (text with U+0000).
MessageKind == {"charge", "refund", "poison", "garbage", "null"}

ASSUME ConstantsAssumption ==
    /\ Nobody \notin Instance
    /\ Unset \notin Partition
    /\ Log \in [Partition -> Seq(Message)]
    /\ Kind \in [Message -> MessageKind]
    /\ PaymentOf \in [Message -> PaymentId]
    /\ OrderOf \in [PaymentId -> OrderId]
    /\ MaxRetries \in Nat
    /\ MaxGarbage \in Nat

VARIABLES
    (* PostgreSQL, shared by the replicas. *)
    payments,      \* payment id -> row
    attempts,      \* payment_attempts, in order of insertion
    inbox,         \* messageIds in inbox_events
    deadLetters,   \* message -> number of its rows in dead_letter_events
    outbox,        \* outbox_events, in order of insertion
    (* The payment provider. *)
    answer,        \* message -> what the provider answered when asked for it
    captured,      \* payment ids it took money for
    returned,      \* payment ids it gave money back for
    (* Kafka: the group's committed offset, the owner's read position. *)
    committed,     \* partition -> number of messages committed
    position,      \* partition -> number of messages its owner has passed
    owner,         \* partition -> replica
    (* The replicas' memory, and the environment. *)
    job,           \* replica -> the handler invocation it runs
    calm           \* no more crashes, rebalances or failed calls

database == <<payments, attempts, inbox, deadLetters, outbox>>
provider == <<answer, captured, returned>>
kafka    == <<committed, position, owner>>
vars     == <<database, provider, kafka, job, calm>>

----------------------------------------------------------------------------
(* The state of a handler. *)

Pc == {"idle", "prepare", "provider", "commit", "deadletter", "ack"}

\* outer, inner: attempts used of the handler's and of the commit's retry loop;
\* result: what the provider answered.
Job == [pc : Pc, part : Partition \cup {Unset}, off : Nat,
        outer : Nat, inner : Nat, result : ProcessorResult]

Idle == [pc |-> "idle", part |-> Unset, off |-> 0,
         outer |-> 0, inner |-> 0, result |-> "none"]

\* A step forgets what only the earlier steps used.
At(j, pc) ==
    IF pc \in {"deadletter", "ack"}
    THEN [Idle EXCEPT !.pc = pc, !.part = j.part, !.off = j.off]
    ELSE [j EXCEPT !.pc = pc]

MessageOf(j) == Log[j.part][j.off]
Msg(i)       == MessageOf(job[i])
Command(m)   == Kind[m] \in {"charge", "refund"}

HasMessageId(m) == Kind[m] \in {"charge", "refund", "poison"}

\* Mutant: the retry starts from an empty invocation.
RetryForgetsMessage(j) == [Idle EXCEPT !.pc = "prepare"]

\* Mutant: a command out of retries is dropped instead of dead-lettered.
RetryGivesUp(j) ==
    IF j.outer < MaxRetries
    THEN [At(j, "prepare") EXCEPT !.outer = j.outer + 1, !.inner = 0,
                                  !.result = "none"]
    ELSE At(j, "ack")

\* withBoundedBackoff around the whole operation ...
RetryHandler(j) ==
    IF j.outer < MaxRetries
    THEN [At(j, "prepare") EXCEPT !.outer = j.outer + 1, !.inner = 0,
                                  !.result = "none"]
    ELSE At(j, "deadletter")

\* ... and, inside it, around the completion transaction alone.
RetryCommit(j) ==
    IF j.inner < MaxRetries
    THEN [j EXCEPT !.inner = j.inner + 1]
    ELSE RetryHandler(j)

\* Mutant: a failure to dead-letter is logged and swallowed.
OnErrorSwallowed(j) ==
    CASE j.pc \in {"prepare", "provider"} -> RetryHandler(j)
      [] j.pc = "commit"                  -> RetryCommit(j)
      [] OTHER                            -> At(j, "ack")

\* What a failed call leads to: a transient error is retried; an error while
\* dead-lettering leaves the handler, and the message will be fetched again.
OnError(j) ==
    CASE j.pc \in {"prepare", "provider"} -> RetryHandler(j)
      [] j.pc = "commit"                  -> RetryCommit(j)
      [] OTHER                            -> Idle

Unidentified == {k \in DOMAIN outbox :
                    /\ outbox[k].type = "payment.deadlettered"
                    /\ ~HasMessageId(outbox[k].cause)}

\* Faults may happen.  A message without id adds a dead letter per delivery:
\* faults stop when there are more than MaxGarbage, to explore finitely many.
Disturbed == ~calm /\ Cardinality(Unidentified) <= MaxGarbage

\* A transaction that took effect: its reply arrives, or is lost.
Replies(i, pc) ==
    \/ job' = [job EXCEPT ![i] = At(@, pc)]
    \/ Disturbed /\ job' = [job EXCEPT ![i] = OnError(@)]

----------------------------------------------------------------------------
(* Consuming. *)

\* A group with an unassigned partition is rebalancing: nobody fetches.  The
\* message is parsed before the first transaction.
Fetch(i, p) ==
    /\ job[i].pc = "idle"
    /\ owner[p] = i
    /\ \A q \in Partition : owner[q] # Nobody
    /\ position[p] < Len(Log[p])
    /\ job' = [job EXCEPT ![i] =
          [Idle EXCEPT !.part = p, !.off = position[p] + 1,
                       !.pc = IF Command(Log[p][position[p] + 1])
                              THEN "prepare" ELSE "deadletter"]]
    /\ UNCHANGED <<database, provider, kafka, calm>>

\* The offset commit of the partition's owner; a replica whose partition was
\* taken away is refused (heartbeat or commit raises) and drops the message.
Acknowledge(i) ==
    /\ job[i].pc = "ack"
    /\ IF owner[job[i].part] = i
       THEN /\ committed' = [committed EXCEPT ![job[i].part] = job[i].off]
            /\ position'  = [position EXCEPT ![job[i].part] = job[i].off]
       ELSE UNCHANGED <<committed, position>>
    /\ job' = [job EXCEPT ![i] = Idle]
    /\ UNCHANGED <<database, provider, owner, calm>>

\* The owner's commit fails, before or after the broker stored the offset.
\* The owner will read the message again.
AcknowledgeFails(i) ==
    /\ Disturbed
    /\ job[i].pc = "ack"
    /\ owner[job[i].part] = i
    /\ \/ committed' = [committed EXCEPT ![job[i].part] = job[i].off]
       \/ UNCHANGED committed
    /\ job' = [job EXCEPT ![i] = Idle]
    /\ UNCHANGED <<database, provider, position, owner, calm>>

----------------------------------------------------------------------------
(* Preparing: the first transaction. *)

Exists(p) == payments[p].status # "NONE"

\* The row found by payment id, else by order id; p itself when there is none.
findPayment(p) ==
    IF \/ Exists(p)
       \/ \A q \in PaymentId : OrderOf[q] = OrderOf[p] => ~Exists(q)
    THEN p
    ELSE CHOOSE q \in PaymentId : OrderOf[q] = OrderOf[p] /\ Exists(q)

\* Mutant: the inbox is claimed before the provider is called.
PrepareClaimsInbox(i) ==
    LET p        == PaymentOf[Msg(i)]
        existing == payments[findPayment(p)]
        plan     == planCharge(existing)
    IN  /\ job[i].pc = "prepare"
        /\ Kind[Msg(i)] = "charge"
        /\ inbox' = inbox \cup {Msg(i)}
        /\ payments' =
              IF plan = "call_processor" /\ existing.status = "NONE"
              THEN [payments EXCEPT ![p] = createPendingChargePayment]
              ELSE payments
        /\ Replies(i, IF plan = "call_processor" THEN "provider" ELSE "commit")
        /\ UNCHANGED <<attempts, deadLetters, outbox, provider, kafka, calm>>

PrepareCharge(i) ==
    LET p        == PaymentOf[Msg(i)]
        existing == payments[findPayment(p)]
        plan     == planCharge(existing)
    IN  /\ job[i].pc = "prepare"
        /\ Kind[Msg(i)] = "charge"
        /\ payments' =
              IF plan = "call_processor" /\ existing.status = "NONE"
              THEN [payments EXCEPT ![p] = createPendingChargePayment]
              ELSE payments
        /\ Replies(i, IF plan = "call_processor" THEN "provider" ELSE "commit")
        /\ UNCHANGED <<attempts, inbox, deadLetters, outbox, provider, kafka,
                       calm>>

PrepareRefund(i) ==
    LET plan == planRefund(payments[findPayment(PaymentOf[Msg(i)])])
    IN  /\ job[i].pc = "prepare"
        /\ Kind[Msg(i)] = "refund"
        /\ Replies(i, IF plan = "call_processor" THEN "provider" ELSE "commit")
        /\ UNCHANGED <<database, provider, kafka, calm>>

----------------------------------------------------------------------------
(* The provider. *)

\* The idempotency key, kind and payment id, was approved before.
Approved(m) == \/ Kind[m] = "charge" /\ PaymentOf[m] \in captured
               \/ Kind[m] = "refund" /\ PaymentOf[m] \in returned

\* A request sent again for a message is answered as before; a key once
\* approved stays approved; a refusal does not bind a later command.
Answer(m) ==
    IF answer[m] # "none" THEN {answer[m]}
    ELSE IF Approved(m) THEN {"ok"} ELSE {"ok", "declined"}

Request(m, result) ==
    /\ result \in Answer(m)
    /\ answer' = [answer EXCEPT ![m] = result]
    /\ captured' = IF result = "ok" /\ Kind[m] = "charge"
                   THEN captured \cup {PaymentOf[m]} ELSE captured
    /\ returned' = IF result = "ok" /\ Kind[m] = "refund"
                   THEN returned \cup {PaymentOf[m]} ELSE returned

CallProcessor(i) ==
    /\ job[i].pc = "provider"
    /\ \E result \in {"ok", "declined"} :
          /\ Request(Msg(i), result)
          /\ job' = [job EXCEPT ![i] = [At(@, "commit") EXCEPT
                                           !.result = result]]
    /\ UNCHANGED <<database, kafka, calm>>

\* The call raises: the provider may or may not have acted.
CallProcessorFails(i) ==
    /\ Disturbed
    /\ job[i].pc = "provider"
    /\ \/ \E result \in {"ok", "declined"} : Request(Msg(i), result)
       \/ UNCHANGED provider
    /\ job' = [job EXCEPT ![i] = OnError(@)]
    /\ UNCHANGED <<database, kafka, calm>>

----------------------------------------------------------------------------
(* Completing: the second transaction. *)

\* Mutant: the inbox is not consulted.
InboxIgnored(m) == FALSE

\* claimInbox: the message was completed before.
Duplicate(m) == m \in inbox

Plan(m) ==
    LET existing == payments[findPayment(PaymentOf[m])]
    IN  IF Kind[m] = "charge" THEN planCharge(existing) ELSE planRefund(existing)

Decide(m, result) ==
    LET p == PaymentOf[m]
        e == findPayment(p)
    IN  IF Kind[m] = "charge"
        THEN decideCharge(p, e, payments[e], result)
        ELSE decideRefund(p, e, payments[e], result)

\* Mutant: there is no unique key on order_id.
OrderNeverTaken(d) == FALSE

\* The unique key on order_id refuses a second row for an order.
OrderTaken(d) ==
    /\ d.row.status # "NONE"
    /\ ~Exists(d.id)
    /\ \E q \in PaymentId : OrderOf[q] = OrderOf[d.id] /\ Exists(q)

\* The transaction raises: the state it finds needs a provider answer this
\* handler does not have, or the payment cannot be inserted.
Raises(m, result) ==
    \/ Plan(m) = "call_processor" /\ result = "none"
    \/ OrderTaken(Decide(m, result))

upsertPayment(d) ==
    payments' = IF d.row.status = "NONE" THEN payments
                ELSE [payments EXCEPT ![d.id] = d.row]

\* Mutant: the attempt is recorded under the command's payment id.
recordAttemptOfCommand(m, d) ==
    attempts' = IF d.attempt = "none" THEN attempts
                ELSE Append(attempts, [payment |-> PaymentOf[m],
                                       type |-> Kind[m], status |-> d.attempt])

recordAttempt(m, d) ==
    attempts' = IF d.attempt = "none" THEN attempts
                ELSE Append(attempts, [payment |-> d.id, type |-> Kind[m],
                                       status |-> d.attempt])

publishResult(m, d) ==
    outbox' = Append(outbox, [cause |-> m, type |-> d.event, payment |-> d.id])

Completes(m, result) ==
    LET d == Decide(m, result)
    IN  /\ inbox' = inbox \cup {m}
        /\ upsertPayment(d)
        /\ recordAttempt(m, d)
        /\ publishResult(m, d)
        /\ UNCHANGED deadLetters

Commit(i, kind) ==
    /\ job[i].pc = "commit"
    /\ Kind[Msg(i)] = kind
    /\ \/ /\ Duplicate(Msg(i))
          /\ UNCHANGED database
          /\ Replies(i, "ack")
       \/ /\ ~Duplicate(Msg(i))
          /\ ~Raises(Msg(i), job[i].result)
          /\ Completes(Msg(i), job[i].result)
          /\ Replies(i, "ack")
       \/ /\ ~Duplicate(Msg(i))
          /\ Raises(Msg(i), job[i].result)
          /\ UNCHANGED database
          /\ job' = [job EXCEPT ![i] = OnError(@)]
    /\ UNCHANGED <<provider, kafka, calm>>

CommitCharge(i) == Commit(i, "charge")
CommitRefund(i) == Commit(i, "refund")

----------------------------------------------------------------------------
(* Dead-lettering. *)

\* Whose row a message may find under its id.  Without a messageId the id is
\* the millisecond of the dead-lettering, on the clock of whichever replica:
\* that of any other such message, at this grain of time.
Namesakes(m) == IF HasMessageId(m) THEN {m}
                ELSE {n \in Message : ~HasMessageId(n)}

\* Mutant: a second dead letter for a message is not noticed.
DeadLetterNeverExists(m) == FALSE

\* The id has a row, or may have one; a fresh millisecond has none.
DeadLetterExists(m) == \E n \in Namesakes(m) : deadLetters[n] > 0
DeadLetterIsNew(m)  == DeadLetterExists(m) => ~HasMessageId(m)

\* The envelope column refuses the document null, stored as SQL NULL.
NewDeadLetter(m) ==
    /\ DeadLetterIsNew(m)
    /\ Kind[m] # "null"
    /\ deadLetters' = [deadLetters EXCEPT ![m] = @ + 1]
    /\ outbox' = Append(outbox, [cause |-> m, type |-> "payment.deadlettered",
                                 payment |-> PaymentOf[m]])

\* Mutant: a dead letter that exists is a unique key violation.
recordDeadLetterTwiceFails(i) ==
    /\ job[i].pc = "deadletter"
    /\ \/ /\ DeadLetterExists(Msg(i))
          /\ job' = [job EXCEPT ![i] = OnError(@)]
          /\ UNCHANGED <<deadLetters, outbox>>
       \/ NewDeadLetter(Msg(i)) /\ Replies(i, "ack")
    /\ UNCHANGED <<payments, attempts, inbox, provider, kafka, calm>>

\* A row under the id makes the message a duplicate, whatever it was filed for.
recordDeadLetter(i) ==
    /\ job[i].pc = "deadletter"
    /\ \/ DeadLetterExists(Msg(i)) /\ UNCHANGED <<deadLetters, outbox>>
       \/ NewDeadLetter(Msg(i))
    /\ Replies(i, "ack")
    /\ UNCHANGED <<payments, attempts, inbox, provider, kafka, calm>>

\* The insert raises.
DeadLetterRaises(i) ==
    /\ job[i].pc = "deadletter"
    /\ Kind[Msg(i)] = "null"
    /\ job' = [job EXCEPT ![i] = OnError(@)]
    /\ UNCHANGED <<database, provider, kafka, calm>>

----------------------------------------------------------------------------
(* Faults and the consumer group. *)

\* A transaction is rolled back (connection lost, deadlock, lock timeout).
TransactionAborts(i) ==
    /\ Disturbed
    /\ job[i].pc \in {"prepare", "commit", "deadletter"}
    /\ job' = [job EXCEPT ![i] = OnError(@)]
    /\ UNCHANGED <<database, provider, kafka, calm>>

\* The process dies and is replaced; its partitions wait for a rebalance.
Crash(i) ==
    /\ Disturbed
    /\ job' = [job EXCEPT ![i] = Idle]
    /\ owner' = [p \in Partition |-> IF owner[p] = i THEN Nobody ELSE owner[p]]
    /\ UNCHANGED <<database, provider, committed, position, calm>>

\* Replicas between two messages join; a busy one is evicted but runs on.
\* The new owners read from the committed offsets.
Rebalance ==
    /\ Disturbed \/ \E p \in Partition : owner[p] = Nobody
    /\ owner' \in [Partition -> {i \in Instance : job[i].pc = "idle"}]
    /\ position' = committed
    /\ UNCHANGED <<database, provider, committed, job, calm>>

Stabilise ==
    /\ ~calm
    /\ calm' = TRUE
    /\ UNCHANGED <<database, provider, kafka, job>>

----------------------------------------------------------------------------
Init ==
    /\ payments    = [p \in PaymentId |-> NoRow]
    /\ attempts    = << >>
    /\ inbox       = {}
    /\ deadLetters = [m \in Message |-> 0]
    /\ outbox      = << >>
    /\ answer      = [m \in Message |-> "none"]
    /\ captured    = {}
    /\ returned    = {}
    /\ committed   = [p \in Partition |-> 0]
    /\ position    = [p \in Partition |-> 0]
    /\ owner       = [p \in Partition |-> Nobody]
    /\ job         = [i \in Instance |-> Idle]
    /\ calm        = FALSE

\* A step of replica i's own program.
Handle(i) ==
    \/ \E p \in Partition : Fetch(i, p)
    \/ PrepareCharge(i)
    \/ PrepareRefund(i)
    \/ CallProcessor(i)
    \/ CommitCharge(i)
    \/ CommitRefund(i)
    \/ recordDeadLetter(i)
    \/ DeadLetterRaises(i)
    \/ Acknowledge(i)

Fault(i) ==
    \/ CallProcessorFails(i)
    \/ TransactionAborts(i)
    \/ AcknowledgeFails(i)
    \/ Crash(i)

Next ==
    \/ \E i \in Instance : Handle(i) \/ Fault(i)
    \/ Rebalance
    \/ Stabilise

Spec == Init /\ [][Next]_vars

\* Every replica keeps running, the group finishes the rebalances it must
\* make, and the faults end at some point.
Fairness ==
    /\ \A i \in Instance : WF_vars(Handle(i))
    /\ WF_vars(Rebalance /\ \E p \in Partition : owner[p] = Nobody)
    /\ WF_vars(Stabilise)

FairSpec == Spec /\ Fairness

----------------------------------------------------------------------------
(* Properties. *)

EventType == ResultType \cup {"payment.deadlettered"}
Event     == [cause : Message, type : EventType, payment : PaymentId]
Attempt   == [payment : PaymentId, type : AttemptType, status : AttemptStatus]

\* Every variable stays in its range, and a busy handler is at a message of
\* the log whose kind its step can handle.
TypeOK ==
    /\ payments    \in [PaymentId -> Row]
    /\ attempts    \in Seq(Attempt)
    /\ inbox       \subseteq Message
    /\ deadLetters \in [Message -> Nat]
    /\ outbox      \in Seq(Event)
    /\ answer      \in [Message -> ProcessorResult]
    /\ captured    \subseteq PaymentId
    /\ returned    \subseteq PaymentId
    /\ committed   \in [Partition -> Nat]
    /\ position    \in [Partition -> Nat]
    /\ owner       \in [Partition -> Instance \cup {Nobody}]
    /\ job         \in [Instance -> Job]
    /\ calm        \in BOOLEAN
    /\ \A i \in Instance : job[i].pc # "idle" =>
          /\ job[i].part \in Partition
          /\ job[i].off \in DOMAIN Log[job[i].part]
          /\ job[i].pc \in {"prepare", "provider", "commit"} => Command(Msg(i))

Result(k)     == outbox[k].type \in ResultType
DeadLetter(k) == outbox[k].type = "payment.deadlettered"

\* A command has exactly one result event once it is in the inbox and none
\* before, however often it is delivered, retried or handled by two replicas.
OneResultPerCommand ==
    /\ \A k \in DOMAIN outbox : Result(k) => outbox[k].cause \in inbox
    /\ \A m \in inbox :
          \E k \in DOMAIN outbox : Result(k) /\ outbox[k].cause = m
    /\ \A k, l \in DOMAIN outbox :
          Result(k) /\ Result(l) /\ outbox[k].cause = outbox[l].cause => k = l

\* A message with an id is dead-lettered at most once: one row, one event.
OneDeadLetterPerMessage ==
    /\ \A m \in Message : HasMessageId(m) => deadLetters[m] <= 1
    /\ \A k, l \in DOMAIN outbox :
          /\ DeadLetter(k) /\ DeadLetter(l)
          /\ outbox[k].cause = outbox[l].cause
          /\ HasMessageId(outbox[k].cause)
          => k = l

Handled(m) == m \in inbox \/ \E n \in Namesakes(m) : deadLetters[n] > 0

\* The offset of a message is committed only after its result or its dead
\* letter is in the database: no crash, rebalance or fenced commit loses one.
\* Messages without a messageId are held to less, see EveryPoisonIsFiled: when
\* the offset of one is committed, it or another such message is dead-lettered.
CommittedMeansHandled ==
    \A p \in Partition : \A o \in 1..committed[p] : Handled(Log[p][o])

\* ADR 0002, line 64: for a permanent error "the service writes
\* dead_letter_events and an outbox row ... then commits the source Kafka
\* offset".  A message that is no valid command has a dead letter of its own
\* before its offset is committed.
EveryPoisonIsFiled ==
    \A p \in Partition : \A o \in 1..committed[p] :
        ~Command(Log[p][o]) => deadLetters[Log[p][o]] > 0

\* What the service reports is what the provider did: a payment is recorded
\* or announced as charged only if money was taken for it, and as refunded
\* only if money was given back for its order.
MoneyMoved ==
    /\ \A p \in PaymentId : payments[p].chargedAt => p \in captured
    /\ \A k \in DOMAIN outbox :
          outbox[k].type = "payment.charged" => outbox[k].payment \in captured
    /\ \A p \in PaymentId : payments[p].status = "REFUNDED" =>
          \E q \in returned : OrderOf[q] = OrderOf[p]
    /\ \A k \in DOMAIN outbox : outbox[k].type = "payment.refunded" =>
          \E q \in returned : OrderOf[q] = OrderOf[outbox[k].payment]

Pending(m) == \E p \in Partition : \E o \in DOMAIN Log[p] :
                  o > committed[p] /\ Log[p][o] = m

OrderOfCommand(m) == OrderOf[PaymentOf[m]]

\* The sender keys commands by orderId (TOPIC_PARTITION_KEYS in packages/kafka,
\* docs/kafka-topic-conventions.md, line 27), which puts those of one order in
\* one partition.
KeyedByOrder ==
    \A p, q \in Partition : \A k \in DOMAIN Log[p], l \in DOMAIN Log[q] :
        /\ Command(Log[p][k]) /\ Command(Log[q][l])
        /\ OrderOfCommand(Log[p][k]) = OrderOfCommand(Log[q][l])
        => p = q

\* Money the provider took is on the payment's row, or a charge command for it
\* will be delivered again, or a command of its order is in the dead letters,
\* where someone will look.  (Why any command: see ApprovedIsCharged.)  It
\* rests on KeyedByOrder: with two partitions, a refund of the order may be
\* completed between the capture and the completion of a charge.
CapturedIsAccounted ==
    \A p \in captured :
        \/ payments[p].chargedAt
        \/ \E m \in Message : /\ Kind[m] = "charge"
                             /\ PaymentOf[m] = p
                             /\ Pending(m)
        \/ \E m \in Message : /\ Command(m)
                             /\ OrderOfCommand(m) = OrderOf[p]
                             /\ deadLetters[m] > 0

Successes(p, type) ==
    {k \in DOMAIN attempts : attempts[k] =
        [payment |-> p, type |-> type, status |-> "SUCCEEDED"]}

\* The attempts table agrees with the payments table: a charged payment has
\* exactly one successful charge attempt, a refunded one exactly one
\* successful refund attempt, however the commands raced.
AttemptTrail ==
    \A p \in PaymentId :
        /\ Cardinality(Successes(p, "charge")) =
              IF payments[p].chargedAt THEN 1 ELSE 0
        /\ Cardinality(Successes(p, "refund")) =
              IF payments[p].status = "REFUNDED" THEN 1 ELSE 0

\* The published history of a payment makes sense to the saga: it is refunded
\* only after it was charged, and a charge once announced is contradicted by
\* payment.failed only after a refund was attempted.
ResultHistory ==
    \A k \in DOMAIN outbox :
        /\ outbox[k].type = "payment.refunded" =>
              \E j \in 1..(k - 1) : /\ outbox[j].type = "payment.charged"
                                    /\ outbox[j].payment = outbox[k].payment
        /\ outbox[k].type = "payment.failed" =>
              \A j \in 1..(k - 1) :
                  /\ outbox[j].type = "payment.charged"
                  /\ outbox[j].payment = outbox[k].payment
                  => \E r \in j..k :
                        /\ outbox[r].type \in {"payment.refunded",
                                               "payment.refund.failed"}
                        /\ outbox[r].payment = outbox[k].payment

Transition ==
    {<<"NONE", "PENDING">>, <<"PENDING", "CHARGED">>, <<"PENDING", "FAILED">>,
     <<"FAILED", "CHARGED">>, <<"CHARGED", "REFUNDED">>,
     <<"PENDING", "REFUND_FAILED">>, <<"FAILED", "REFUND_FAILED">>,
     <<"CHARGED", "REFUND_FAILED">>}

\* A row is created PENDING, is charged from PENDING or FAILED, leaves CHARGED
\* only by a refund, and never leaves REFUNDED or REFUND_FAILED.
PaymentLifecycle ==
    [][\A p \in PaymentId :
          payments'[p].status # payments[p].status =>
             <<payments[p].status, payments'[p].status>> \in Transition]_vars

\* An order has one row, whatever payment ids its commands carry.
OneRowPerOrder ==
    \A p, q \in PaymentId :
        OrderOf[p] = OrderOf[q] /\ Exists(p) /\ Exists(q) => p = q

\* Once the faults end, every message of every partition is handled and its
\* offset committed.
EveryPartitionDrains ==
    <>[](\A p \in Partition : committed[p] = Len(Log[p]))

\* What the replicas do together is what one atomic ledger may do: whatever is
\* retried, delivered again or cut off by a crash, a command is answered in one
\* step, once, after the money has moved.
Ledger == INSTANCE PaymentLedger WITH
    Identified <- {m \in Message : HasMessageId(m)},
    status     <- [p \in PaymentId |-> payments[p].status],
    answered   <- inbox,
    events     <- outbox

ImplementsLedger == Ledger!Spec

\* Replica i is at a charge that the provider approved, and which is completed.
ApprovedCompletes(i) ==
    /\ job[i].pc = "commit"
    /\ job[i].result = "ok"
    /\ Kind[Msg(i)] = "charge"
    /\ Msg(i) \in inbox' \ inbox

SaysCharged == outbox'[Len(outbox')].type = "payment.charged"

\* ADR 0002, line 54: "Same-paymentId work is serialized".  A charge that the
\* provider approved is completed as charged: no other command changes the
\* payment between the preparation and the completion of the charge.
ApprovedIsCharged ==
    [][\A i \in Instance : ApprovedCompletes(i) => SaysCharged]_vars

\* What is true of it: an approved charge is completed as charged unless a
\* command of its order was dead-lettered before, which lets the partition go
\* on while a fenced handler is still at the charge.  It rests on KeyedByOrder.
ApprovedChargeStands ==
    [][\A i \in Instance : ApprovedCompletes(i) =>
          \/ SaysCharged
          \/ \E m \in Message : /\ Command(m)
                                /\ OrderOfCommand(m) = OrderOfCommand(Msg(i))
                                /\ deadLetters[m] > 0]_vars
============================================================================
