----------------------- MODULE PaymentCommands_proofs -----------------------
(***************************************************************************)
(* Proofs about PaymentCommands, for any number of replicas, partitions,   *)
(* messages and retries: types, one result for a command, and no offset    *)
(* committed too early.                                                    *)
(***************************************************************************)
EXTENDS PaymentCommands, TLAPS

----------------------------------------------------------------------------
(* The handlers. *)

\* A handler's state is in range, and it is at a message its step can handle.
Sound(j) ==
    /\ j \in Job
    /\ j.pc # "idle" =>
          /\ j.part \in Partition
          /\ j.off \in DOMAIN Log[j.part]
          /\ j.pc \in {"prepare", "provider", "commit"} => Command(MessageOf(j))

\* k is a later state of the delivery j is at.
SameDelivery(j, k) == k.part = j.part /\ k.off = j.off

\* The initial handler state is a handler state without a result.
LEMMA IdleState ==
    /\ Idle \in Job
    /\ Idle.pc = "idle"
    /\ Idle.result = "none"
BY DEF Idle, Job, Pc, ProcessorResult

\* Moving to a step keeps the delivery and, while working, the result.
LEMMA AtState ==
    ASSUME NEW j, j \in Job, NEW pc \in Pc
    PROVE  /\ At(j, pc) \in Job
           /\ At(j, pc).pc = pc
           /\ SameDelivery(j, At(j, pc))
           /\ pc \notin {"deadletter", "ack"} => At(j, pc).result = j.result
BY IdleState DEF At, Job, SameDelivery

\* The update of a retry keeps the step and the delivery.
LEMMA RetriedState ==
    ASSUME NEW j \in Job, NEW n \in Nat
    PROVE  LET k == [j EXCEPT !.outer = n, !.inner = 0, !.result = "none"]
           IN  k \in Job /\ k.pc = j.pc /\ k.result = "none" /\ SameDelivery(j, k)
<1> DEFINE k == [j EXCEPT !.outer = n, !.inner = 0, !.result = "none"]
<1>1. "none" \in ProcessorResult
  BY DEF ProcessorResult
<1>2. k \in Job
  BY <1>1 DEF Job
<1>3. k.pc = j.pc /\ k.part = j.part /\ k.off = j.off /\ k.result = "none"
  BY <1>1 DEF Job
<1> QED
  BY <1>2, <1>3 DEF SameDelivery

\* The outer retry loop prepares again without a result, or dead-letters.
LEMMA RetryHandlerState ==
    ASSUME NEW j, j \in Job
    PROVE  /\ RetryHandler(j) \in Job
           /\ RetryHandler(j).pc \in {"prepare", "deadletter"}
           /\ RetryHandler(j).pc = "prepare" => RetryHandler(j).result = "none"
           /\ SameDelivery(j, RetryHandler(j))
<1>1. "prepare" \in Pc /\ "deadletter" \in Pc /\ "none" \in ProcessorResult
  BY DEF Pc, ProcessorResult
<1>2. At(j, "prepare") \in Job /\ At(j, "deadletter") \in Job
  BY <1>1, AtState
<1>3. CASE j.outer < MaxRetries
  <2>1. RetryHandler(j) =
          [At(j, "prepare") EXCEPT !.outer = j.outer + 1, !.inner = 0,
                                   !.result = "none"]
    BY <1>3 DEF RetryHandler
  <2>2. j.outer + 1 \in Nat
    BY DEF Job
  <2>3. /\ RetryHandler(j) \in Job
        /\ RetryHandler(j).pc = At(j, "prepare").pc
        /\ RetryHandler(j).result = "none"
        /\ SameDelivery(At(j, "prepare"), RetryHandler(j))
    <3> DEFINE k == At(j, "prepare")
    <3>1. k \in Job
      BY <1>2
    <3> HIDE DEF k
    <3>2. LET r == [k EXCEPT !.outer = j.outer + 1, !.inner = 0,
                             !.result = "none"]
          IN  /\ r \in Job /\ r.pc = k.pc /\ r.result = "none"
              /\ SameDelivery(k, r)
      BY <2>2, <3>1, RetriedState
    <3> QED
      BY <2>1, <3>2 DEF k
  <2> QED
    BY <1>1, <2>3, AtState DEF SameDelivery
<1>4. CASE ~(j.outer < MaxRetries)
  BY <1>1, <1>4, AtState DEF RetryHandler
<1> QED
  BY <1>3, <1>4

\* An error leads a handler to another attempt, to the dead letters or out of
\* the handler, and never to the commit of the offset.
LEMMA OnErrorState ==
    ASSUME NEW j, Sound(j), j.pc # "idle"
    PROVE  /\ Sound(OnError(j))
           /\ \/ OnError(j) = Idle
              \/ SameDelivery(j, OnError(j))
           /\ OnError(j).pc \in {"idle", "prepare", "commit", "deadletter"}
           /\ OnError(j).pc = "prepare" => OnError(j).result = "none"
           /\ OnError(j).pc = "commit" =>
                 j.pc = "commit" /\ OnError(j).result = j.result
<1>1. j \in Job
  BY DEF Sound
<1>2. CASE OnError(j) = Idle
  BY <1>2, IdleState DEF Sound
<1>3. CASE OnError(j) = RetryHandler(j) /\ j.pc \in {"prepare", "provider", "commit"}
  BY <1>1, <1>3, RetryHandlerState DEF Sound, SameDelivery, MessageOf
<1>4. CASE OnError(j) = [j EXCEPT !.inner = j.inner + 1] /\ j.pc = "commit"
  <2>1. /\ OnError(j) \in Job /\ OnError(j).pc = "commit"
        /\ SameDelivery(j, OnError(j)) /\ OnError(j).result = j.result
    BY <1>1, <1>4 DEF Job, SameDelivery
  <2> QED
    BY <1>4, <2>1 DEF Sound, SameDelivery, MessageOf
<1> QED
  BY <1>2, <1>3, <1>4 DEF OnError, RetryCommit

----------------------------------------------------------------------------
(* The decisions. *)

\* The lookup returns a payment id.
LEMMA FindPaymentType ==
    ASSUME NEW p \in PaymentId
    PROVE  findPayment(p) \in PaymentId
BY DEF findPayment

\* A decision is a row, an attempt and an event for some payment id.
LEMMA DecideType ==
    ASSUME payments \in [PaymentId -> Row],
           NEW m \in Message, Command(m), NEW result \in ProcessorResult
    PROVE  /\ Decide(m, result).id \in PaymentId
           /\ Decide(m, result).row \in Row
           /\ Decide(m, result).attempt \in AttemptStatus \cup {"none"}
           /\ Decide(m, result).event \in ResultType
<1> DEFINE p == PaymentOf[m]
           e == findPayment(p)
<1>1. p \in PaymentId /\ e \in PaymentId
  BY ConstantsAssumption, FindPaymentType
<1>2. payments[e] \in Row
  BY <1>1
<1> HIDE DEF e, p
<1>3. Decide(m, result) \in
          {decideCharge(p, e, payments[e], result),
           decideRefund(p, e, payments[e], result)}
  BY DEF Decide, p, e
<1>4. CASE Decide(m, result) = decideCharge(p, e, payments[e], result)
  BY <1>1, <1>2, <1>4
     DEF decideCharge, decisionFromChargeResult, replayCharged,
         rejectIllegalChargeStatus, Decision, Row, PaymentStatus, ResultType,
         AttemptStatus
<1>5. CASE Decide(m, result) = decideRefund(p, e, payments[e], result)
  BY <1>1, <1>2, <1>5
     DEF decideRefund, decisionFromRefundResult, replayRefunded, refundNotFound,
         rejectIllegalRefundStatus, Decision, Row, NoRow, PaymentStatus,
         ResultType, AttemptStatus
<1> QED
  BY <1>3, <1>4, <1>5

----------------------------------------------------------------------------
(* Type correctness. *)

Handlers == job \in [Instance -> Job] /\ \A i \in Instance : Sound(job[i])

Data ==
    /\ payments    \in [PaymentId -> Row]
    /\ attempts    \in Seq(Attempt)
    /\ inbox       \subseteq Message
    /\ deadLetters \in [Message -> Nat]
    /\ outbox      \in Seq(Event)

World ==
    /\ answer      \in [Message -> ProcessorResult]
    /\ captured    \subseteq PaymentId
    /\ returned    \subseteq PaymentId
    /\ committed   \in [Partition -> Nat]
    /\ position    \in [Partition -> Nat]
    /\ owner       \in [Partition -> Instance \cup {Nobody}]
    /\ calm        \in BOOLEAN

\* The type invariant in the three parts the steps disturb separately.
LEMMA TypeParts == TypeOK <=> Data /\ World /\ Handlers
BY DEF TypeOK, Data, World, Handlers, Sound, Msg

\* An offset of a log is a positive number and leads to a message.
LEMMA LogMessage ==
    ASSUME NEW p \in Partition, NEW o \in DOMAIN Log[p]
    PROVE  Log[p][o] \in Message /\ o \in Nat /\ o > 0 /\ o <= Len(Log[p])
<1>1. Log[p] \in Seq(Message)
  BY ConstantsAssumption
<1> QED
  BY <1>1

\* The message of a busy handler.
LEMMA BusyMessage ==
    ASSUME Handlers, NEW i \in Instance, job[i].pc # "idle"
    PROVE  /\ job[i] \in Job /\ Sound(job[i])
           /\ job[i].part \in Partition
           /\ job[i].off \in DOMAIN Log[job[i].part]
           /\ Msg(i) \in Message
           /\ job[i].pc \in {"prepare", "provider", "commit"} => Command(Msg(i))
BY LogMessage DEF Handlers, Sound, Msg, MessageOf

\* A step that moves one handler to a sound state keeps all sound.
LEMMA HandlersSet ==
    ASSUME Handlers, NEW i \in Instance, NEW k, Sound(k),
           job' = [job EXCEPT ![i] = k]
    PROVE  /\ Handlers'
           /\ job'[i] = k
           /\ \A j \in Instance : j # i => job'[j] = job[j]
<1>1. k \in Job
  BY DEF Sound
<1>2. /\ job' \in [Instance -> Job]
      /\ job'[i] = k
      /\ \A j \in Instance : j # i => job'[j] = job[j]
  BY <1>1 DEF Handlers
<1>3. \A j \in Instance : Sound(job'[j])
  BY <1>2 DEF Handlers
<1> QED
  BY <1>2, <1>3 DEF Handlers, Sound, Command, MessageOf

\* A step that fails keeps the handlers sound.
LEMMA HandlersOnError ==
    ASSUME Handlers, NEW i \in Instance, job[i].pc # "idle",
           job' = [job EXCEPT ![i] = OnError(@)]
    PROVE  /\ Handlers'
           /\ job'[i] = OnError(job[i])
           /\ \A j \in Instance : j # i => job'[j] = job[j]
<1>1. Sound(OnError(job[i]))
  BY OnErrorState DEF Handlers
<1>2. job' = [job EXCEPT ![i] = OnError(job[i])]
  OBVIOUS
<1> QED
  BY <1>1, <1>2, HandlersSet

\* A step that goes on keeps the handlers sound.
LEMMA HandlersAt ==
    ASSUME Handlers, NEW i \in Instance, job[i].pc # "idle", NEW pc \in Pc,
           pc \in {"prepare", "provider", "commit"} => Command(Msg(i)),
           job' = [job EXCEPT ![i] = At(@, pc)]
    PROVE  /\ Handlers'
           /\ job'[i] = At(job[i], pc)
           /\ \A j \in Instance : j # i => job'[j] = job[j]
<1>1. Sound(At(job[i], pc))
  BY AtState DEF Handlers, Sound, SameDelivery, MessageOf, Msg
<1>2. job' = [job EXCEPT ![i] = At(job[i], pc)]
  OBVIOUS
<1> QED
  BY <1>1, <1>2, HandlersSet

\* A transaction whose reply arrives or is lost keeps the handlers sound.
LEMMA HandlersReplies ==
    ASSUME Handlers, NEW i \in Instance, job[i].pc # "idle", NEW pc \in Pc,
           pc \in {"prepare", "provider", "commit"} => Command(Msg(i)),
           Replies(i, pc)
    PROVE  /\ Handlers'
           /\ job'[i] = At(job[i], pc) \/ job'[i] = OnError(job[i])
           /\ \A j \in Instance : j # i => job'[j] = job[j]
BY HandlersAt, HandlersOnError DEF Replies

\* What the provider does to its own state.
LEMMA RequestType ==
    ASSUME World, NEW m \in Message, NEW result \in {"ok", "declined"},
           Request(m, result)
    PROVE  /\ answer' \in [Message -> ProcessorResult]
           /\ captured' \subseteq PaymentId
           /\ returned' \subseteq PaymentId
<1>1. PaymentOf[m] \in PaymentId
  BY ConstantsAssumption
<1> QED
  BY <1>1 DEF World, Request, ProcessorResult

\* What the completing transaction writes.
LEMMA CompletesType ==
    ASSUME Data, NEW m \in Message, Command(m), NEW result \in ProcessorResult,
           Completes(m, result)
    PROVE  Data'
<1> DEFINE d == Decide(m, result)
<1>1. /\ d.id \in PaymentId /\ d.row \in Row
      /\ d.attempt \in AttemptStatus \cup {"none"} /\ d.event \in ResultType
  BY DecideType DEF Data
<1>2. /\ inbox' = inbox \cup {m} /\ deadLetters' = deadLetters
      /\ upsertPayment(d) /\ recordAttempt(m, d) /\ publishResult(m, d)
  BY DEF Completes
<1> HIDE DEF d
<1>3. payments' \in [PaymentId -> Row]
  BY <1>1, <1>2 DEF upsertPayment, Data
<1>4. attempts' \in Seq(Attempt)
  <2>1. d.attempt # "none" =>
          [payment |-> d.id, type |-> Kind[m], status |-> d.attempt] \in Attempt
    BY <1>1 DEF Attempt, AttemptType, Command
  <2> QED
    BY <1>2, <2>1 DEF recordAttempt, Data
<1>5. outbox' \in Seq(Event)
  <2>1. [cause |-> m, type |-> d.event, payment |-> d.id] \in Event
    BY <1>1 DEF Event, EventType
  <2> QED
    BY <1>2, <2>1 DEF publishResult, Data
<1> QED
  BY <1>2, <1>3, <1>4, <1>5 DEF Data

\* The initial state has its types.
LEMMA TypeInit == Init => TypeOK
<1> SUFFICES ASSUME Init PROVE Data /\ World /\ Handlers
  BY TypeParts
<1>1. Data
  <2>1. NoRow \in Row
    BY DEF NoRow, Row, PaymentStatus
  <2> QED
    BY <2>1 DEF Init, Data
<1>2. World
  BY DEF Init, World, ProcessorResult
<1>3. Handlers
  BY IdleState DEF Init, Handlers, Sound
<1> QED
  BY <1>1, <1>2, <1>3

\* Every step keeps the types.
LEMMA TypeStep == TypeOK /\ [Next]_vars => TypeOK'
<1> SUFFICES ASSUME Data, World, Handlers, [Next]_vars
             PROVE  Data' /\ World' /\ Handlers'
  <2>1. Data' /\ World' /\ Handlers' => TypeOK'
    BY DEF TypeOK, Data, World, Handlers, Sound, Msg
  <2> QED
    BY <2>1, TypeParts
<1>1. ASSUME NEW i \in Instance, NEW p \in Partition, Fetch(i, p)
      PROVE  Data' /\ World' /\ Handlers'
  <2> DEFINE o == position[p] + 1
             k == [Idle EXCEPT !.part = p, !.off = o,
                      !.pc = IF Command(Log[p][o]) THEN "prepare" ELSE "deadletter"]
  <2>1. o \in DOMAIN Log[p] /\ o \in Nat
    <3>1. Log[p] \in Seq(Message) /\ position[p] \in Nat
      BY ConstantsAssumption DEF World
    <3>2. position[p] < Len(Log[p])
      BY <1>1 DEF Fetch
    <3> QED
      BY <3>1, <3>2
  <2>2. job' = [job EXCEPT ![i] = k]
    BY <1>1 DEF Fetch
  <2>3. Sound(k)
    <3>1. /\ k \in Job /\ k.part = p /\ k.off = o
          /\ k.pc = IF Command(Log[p][o]) THEN "prepare" ELSE "deadletter"
      <4> DEFINE idle == Idle
      <4>1. idle \in Job
        BY IdleState
      <4> HIDE DEF idle
      <4>2. ASSUME NEW pc \in Pc, NEW n \in Nat
            PROVE  LET h == [idle EXCEPT !.part = p, !.off = n, !.pc = pc]
                   IN  h \in Job /\ h.part = p /\ h.off = n /\ h.pc = pc
        BY <4>1 DEF Job
      <4>3. "prepare" \in Pc /\ "deadletter" \in Pc
        BY DEF Pc
      <4> DEFINE pc == IF Command(Log[p][o]) THEN "prepare" ELSE "deadletter"
      <4>4. pc \in Pc
        BY <4>3
      <4> HIDE DEF pc, o
      <4>5. LET h == [idle EXCEPT !.part = p, !.off = o, !.pc = pc]
            IN  h \in Job /\ h.part = p /\ h.off = o /\ h.pc = pc
        BY <2>1, <4>2, <4>4
      <4> QED
        BY <4>5 DEF idle, pc, o
    <3> HIDE DEF k
    <3> QED
      BY <2>1, <3>1 DEF Sound, MessageOf
  <2> HIDE DEF k
  <2>4. Handlers'
    BY <2>2, <2>3, HandlersSet
  <2> QED
    BY <1>1, <2>4 DEF Fetch, database, provider, kafka, Data, World
<1>2. ASSUME NEW i \in Instance, PrepareCharge(i)
      PROVE  Data' /\ World' /\ Handlers'
  <2>1. /\ job[i].pc # "idle" /\ Command(Msg(i))
        /\ \E pc \in Pc : Replies(i, pc)
        /\ UNCHANGED <<attempts, inbox, deadLetters, outbox, provider, kafka, calm>>
    BY <1>2 DEF PrepareCharge, Command, Pc
  <2>2. createPendingChargePayment \in Row /\ PaymentOf[Msg(i)] \in PaymentId
    BY <2>1, BusyMessage, ConstantsAssumption
       DEF createPendingChargePayment, Row, PaymentStatus
  <2>3. payments' \in [PaymentId -> Row]
    <3>1. \/ payments' = payments
          \/ payments' = [payments EXCEPT ![PaymentOf[Msg(i)]] =
                                               createPendingChargePayment]
      BY <1>2 DEF PrepareCharge
    <3> QED
      BY <2>2, <3>1 DEF Data
  <2> QED
    BY <2>1, <2>3, HandlersReplies DEF provider, kafka, Data, World
<1>3. ASSUME NEW i \in Instance, PrepareRefund(i)
      PROVE  Data' /\ World' /\ Handlers'
  <2>1. /\ job[i].pc # "idle" /\ Command(Msg(i))
        /\ \E pc \in Pc : Replies(i, pc)
        /\ UNCHANGED <<database, provider, kafka, calm>>
    BY <1>3 DEF PrepareRefund, Command, Pc
  <2> QED
    BY <2>1, HandlersReplies DEF database, provider, kafka, Data, World
<1>4. ASSUME NEW i \in Instance, CallProcessor(i)
      PROVE  Data' /\ World' /\ Handlers'
  <2>1. job[i].pc = "provider" /\ UNCHANGED <<database, kafka, calm>>
    BY <1>4 DEF CallProcessor
  <2>2. PICK result \in {"ok", "declined"} :
          /\ Request(Msg(i), result)
          /\ job' = [job EXCEPT ![i] = [At(@, "commit") EXCEPT
                                           !.result = result]]
    BY <1>4 DEF CallProcessor
  <2>3. Handlers'
    <3> DEFINE k == At(job[i], "commit")
    <3>1. k \in Job /\ k.pc = "commit" /\ SameDelivery(job[i], k)
      BY <2>1, BusyMessage, AtState DEF Pc
    <3> HIDE DEF k
    <3> DEFINE r == [k EXCEPT !.result = result]
    <3>2. /\ r \in Job /\ r.pc = "commit"
          /\ r.part = job[i].part /\ r.off = job[i].off
      BY <3>1 DEF Job, SameDelivery, ProcessorResult
    <3>3. job' = [job EXCEPT ![i] = r]
      BY <2>2 DEF k
    <3> HIDE DEF r
    <3>4. Sound(r)
      BY <2>1, <3>2, BusyMessage DEF Sound, MessageOf, Msg
    <3> QED
      BY <3>3, <3>4, HandlersSet
  <2> QED
    BY <2>1, <2>2, <2>3, BusyMessage, RequestType DEF database, kafka, Data, World
<1>5. ASSUME NEW i \in Instance, NEW kind \in {"charge", "refund"},
             Commit(i, kind)
      PROVE  Data' /\ World' /\ Handlers'
  <2>1. job[i].pc = "commit" /\ UNCHANGED <<provider, kafka, calm>>
    BY <1>5 DEF Commit
  <2>2. /\ Msg(i) \in Message /\ Command(Msg(i))
        /\ job[i].result \in ProcessorResult
    BY <2>1, BusyMessage DEF Job
  <2>3. Data'
    <3>1. UNCHANGED database \/ Completes(Msg(i), job[i].result)
      BY <1>5 DEF Commit
    <3>2. CASE UNCHANGED database
      BY <3>2 DEF database, Data
    <3> QED
      BY <2>2, <3>1, <3>2, CompletesType
  <2>4. Handlers'
    <3>1. Replies(i, "ack") \/ job' = [job EXCEPT ![i] = OnError(@)]
      BY <1>5 DEF Commit
    <3> QED
      BY <2>1, <3>1, HandlersReplies, HandlersOnError DEF Pc
  <2> QED
    BY <2>1, <2>3, <2>4 DEF provider, kafka, World
<1>6. ASSUME NEW i \in Instance, recordDeadLetter(i)
      PROVE  Data' /\ World' /\ Handlers'
  <2>1. /\ job[i].pc = "deadletter" /\ Replies(i, "ack")
        /\ UNCHANGED <<payments, attempts, inbox, provider, kafka, calm>>
    BY <1>6 DEF recordDeadLetter
  <2>2. Handlers'
    BY <2>1, HandlersReplies DEF Pc
  <2>3. Msg(i) \in Message /\ PaymentOf[Msg(i)] \in PaymentId
    BY <2>1, BusyMessage, ConstantsAssumption
  <2> DEFINE e == [cause   |-> Msg(i),
                   type    |-> "payment.deadlettered",
                   payment |-> PaymentOf[Msg(i)]]
  <2>4. e \in Event
    BY <2>3 DEF Event, EventType
  <2>5. \/ UNCHANGED <<deadLetters, outbox>>
        \/ /\ deadLetters' = [deadLetters EXCEPT ![Msg(i)] = @ + 1]
           /\ outbox' = Append(outbox, e)
    BY <1>6 DEF recordDeadLetter, NewDeadLetter
  <2> HIDE DEF e
  <2>6. outbox' \in Seq(Event)
    <3>1. outbox \in Seq(Event)
      BY DEF Data
    <3>2. Append(outbox, e) \in Seq(Event)
      BY <2>4, <3>1
    <3> QED
      BY <2>5, <3>1, <3>2
  <2>7. deadLetters' \in [Message -> Nat]
    <3>1. deadLetters \in [Message -> Nat] /\ deadLetters[Msg(i)] + 1 \in Nat
      BY <2>3 DEF Data
    <3> QED
      BY <2>3, <2>5, <3>1
  <2> QED
    BY <2>1, <2>2, <2>6, <2>7 DEF provider, kafka, Data, World
<1>7. ASSUME NEW i \in Instance, DeadLetterRaises(i) \/ TransactionAborts(i)
      PROVE  Data' /\ World' /\ Handlers'
  <2>1. /\ job[i].pc # "idle"
        /\ job' = [job EXCEPT ![i] = OnError(@)]
        /\ UNCHANGED <<database, provider, kafka, calm>>
    BY <1>7 DEF DeadLetterRaises, TransactionAborts
  <2> QED
    BY <2>1, HandlersOnError DEF database, provider, kafka, Data, World
<1>8. ASSUME NEW i \in Instance, CallProcessorFails(i)
      PROVE  Data' /\ World' /\ Handlers'
  <2>1. /\ job[i].pc = "provider"
        /\ job' = [job EXCEPT ![i] = OnError(@)]
        /\ UNCHANGED <<database, kafka, calm>>
        /\ \/ \E result \in {"ok", "declined"} : Request(Msg(i), result)
           \/ UNCHANGED provider
    BY <1>8 DEF CallProcessorFails
  <2>2. Handlers'
    BY <2>1, HandlersOnError
  <2>3. /\ answer' \in [Message -> ProcessorResult]
        /\ captured' \subseteq PaymentId
        /\ returned' \subseteq PaymentId
    BY <2>1, BusyMessage, RequestType DEF provider, World
  <2> QED
    BY <2>1, <2>2, <2>3 DEF database, kafka, Data, World
<1>9. ASSUME NEW i \in Instance, Acknowledge(i) \/ AcknowledgeFails(i)
      PROVE  Data' /\ World' /\ Handlers'
  <2>1. /\ job[i].pc = "ack"
        /\ job' = [job EXCEPT ![i] = Idle]
        /\ UNCHANGED <<database, provider, owner, calm>>
    BY <1>9 DEF Acknowledge, AcknowledgeFails
  <2>2. Handlers'
    BY <2>1, IdleState, HandlersSet DEF Sound
  <2>3. job[i].part \in Partition /\ job[i].off \in Nat
    BY <2>1, BusyMessage, LogMessage
  <2>4. committed' \in [Partition -> Nat] /\ position' \in [Partition -> Nat]
    BY <1>9, <2>3 DEF Acknowledge, AcknowledgeFails, World
  <2> QED
    BY <2>1, <2>2, <2>4 DEF database, provider, Data, World
<1>10. ASSUME NEW i \in Instance, Crash(i)
       PROVE  Data' /\ World' /\ Handlers'
  <2>1. Handlers'
    BY <1>10, IdleState, HandlersSet DEF Sound, Crash
  <2> QED
    BY <1>10, <2>1 DEF Crash, database, provider, Data, World
<1>11. CASE Rebalance
  <2>1. Handlers'
    BY <1>11 DEF Rebalance, Handlers, Sound, Command, MessageOf
  <2>2. owner' \in [Partition -> Instance \cup {Nobody}]
    BY <1>11 DEF Rebalance
  <2> QED
    BY <1>11, <2>1, <2>2 DEF Rebalance, database, provider, Data, World
<1>12. CASE Stabilise \/ UNCHANGED vars
  BY <1>12 DEF Stabilise, vars, database, provider, kafka, Data, World, Handlers,
               Sound, Command, MessageOf
<1> QED
  BY <1>1, <1>2, <1>3, <1>4, <1>5, <1>6, <1>7, <1>8, <1>9, <1>10, <1>11, <1>12
     DEF Next, Handle, Fault, CommitCharge, CommitRefund

\* Every variable of the command side stays in its range.
THEOREM CommandsTypeCorrect == Spec => []TypeOK
<1> QED
  BY TypeInit, TypeStep, PTL DEF Spec

----------------------------------------------------------------------------
(* What a step can do to the database. *)

Completing(i) ==
    /\ job[i].pc = "commit"
    /\ ~Duplicate(Msg(i))
    /\ ~Raises(Msg(i), job[i].result)
    /\ Completes(Msg(i), job[i].result)

DeadLettering(i) ==
    /\ job[i].pc = "deadletter"
    /\ DeadLetterIsNew(Msg(i))
    /\ deadLetters' = [deadLetters EXCEPT ![Msg(i)] = @ + 1]
    /\ outbox' = Append(outbox, [cause   |-> Msg(i),
                                 type    |-> "payment.deadlettered",
                                 payment |-> PaymentOf[Msg(i)]])
    /\ UNCHANGED <<payments, attempts, inbox>>

\* A step leaves the database alone, prepares a charge, completes a command
\* or dead-letters a message.
LEMMA DatabaseStep ==
    ASSUME [Next]_vars
    PROVE  \/ UNCHANGED database
           \/ \E i \in Instance : \/ PrepareCharge(i)
                                  \/ Completing(i)
                                  \/ DeadLettering(i)
<1>1. ASSUME NEW i \in Instance, NEW p \in Partition, Fetch(i, p)
      PROVE  UNCHANGED database
  BY <1>1 DEF Fetch
<1>2. ASSUME NEW i \in Instance,
             \/ PrepareRefund(i) \/ CallProcessor(i) \/ DeadLetterRaises(i)
             \/ Acknowledge(i) \/ Fault(i)
      PROVE  UNCHANGED database
  BY <1>2 DEF PrepareRefund, CallProcessor, DeadLetterRaises, Acknowledge, Fault,
              CallProcessorFails, TransactionAborts, AcknowledgeFails, Crash
<1>3. ASSUME NEW i \in Instance, CommitCharge(i) \/ CommitRefund(i)
      PROVE  UNCHANGED database \/ Completing(i)
  BY <1>3 DEF CommitCharge, CommitRefund, Commit, Completing
<1>4. ASSUME NEW i \in Instance, recordDeadLetter(i)
      PROVE  UNCHANGED database \/ DeadLettering(i)
  BY <1>4 DEF recordDeadLetter, NewDeadLetter, DeadLettering, database
<1>5. Rebalance \/ Stabilise \/ UNCHANGED vars => UNCHANGED database
  BY DEF Rebalance, Stabilise, vars
<1> QED
  BY <1>1, <1>2, <1>3, <1>4, <1>5 DEF Next, Handle

\* The outbox only grows, by one event at a time.
LEMMA Appended ==
    ASSUME outbox \in Seq(Event), NEW e \in Event, outbox' = Append(outbox, e)
    PROVE  LET n == Len(outbox) + 1
           IN  /\ DOMAIN outbox' = DOMAIN outbox \cup {n}
               /\ n \notin DOMAIN outbox
               /\ outbox'[n] = e
               /\ \A k \in DOMAIN outbox : outbox'[k] = outbox[k] /\ k < n
<1>1. /\ Len(outbox') = Len(outbox) + 1 /\ Len(outbox) \in Nat
      /\ outbox'[Len(outbox) + 1] = e
      /\ \A k \in 1..Len(outbox) : outbox'[k] = outbox[k]
      /\ DOMAIN outbox = 1..Len(outbox)
      /\ DOMAIN outbox' = 1..(Len(outbox) + 1)
  OBVIOUS
<1> QED
  BY <1>1

\* The event of a completion.
LEMMA CompletionEvent ==
    ASSUME TypeOK, NEW i \in Instance, Completing(i)
    PROVE  LET d == Decide(Msg(i), job[i].result)
               e == [cause |-> Msg(i), type |-> d.event, payment |-> d.id]
           IN  /\ outbox' = Append(outbox, e)
               /\ e \in Event
               /\ e.cause = Msg(i)
               /\ e.type \in ResultType
               /\ d.id \in PaymentId
               /\ inbox' = inbox \cup {Msg(i)}
               /\ Msg(i) \in Message
               /\ Command(Msg(i))
               /\ job[i].result \in ProcessorResult
<1> DEFINE d == Decide(Msg(i), job[i].result)
<1>1. /\ Msg(i) \in Message /\ Command(Msg(i))
      /\ job[i].result \in ProcessorResult
  BY TypeParts, BusyMessage DEF Completing, Job
<1>2. d.id \in PaymentId /\ d.event \in ResultType
  BY <1>1, TypeParts, DecideType DEF Data
<1>3. /\ outbox' = Append(outbox, [cause |-> Msg(i), type |-> d.event,
                                   payment |-> d.id])
      /\ inbox' = inbox \cup {Msg(i)}
  BY DEF Completing, Completes, publishResult
<1> HIDE DEF d
<1>4. /\ [cause |-> Msg(i), type |-> d.event, payment |-> d.id] \in Event
      /\ [cause |-> Msg(i), type |-> d.event, payment |-> d.id].cause = Msg(i)
      /\ [cause |-> Msg(i), type |-> d.event, payment |-> d.id].type = d.event
  BY <1>1, <1>2 DEF Event, EventType
<1> QED
  BY <1>1, <1>2, <1>3, <1>4 DEF d

\* The event of a dead letter.
LEMMA DeadLetterEvent ==
    ASSUME TypeOK, NEW i \in Instance, DeadLettering(i)
    PROVE  LET e == [cause |-> Msg(i), type |-> "payment.deadlettered",
                     payment |-> PaymentOf[Msg(i)]]
           IN  /\ outbox' = Append(outbox, e)
               /\ e \in Event
               /\ e.type = "payment.deadlettered"
               /\ e.type \notin ResultType
               /\ Msg(i) \in Message
<1>1. Msg(i) \in Message /\ PaymentOf[Msg(i)] \in PaymentId
  BY TypeParts, BusyMessage, ConstantsAssumption DEF DeadLettering
<1> QED
  BY <1>1 DEF DeadLettering, Event, EventType, ResultType

----------------------------------------------------------------------------
(* One result per command. *)

\* Every step keeps one result per command.
LEMMA OneResultStep ==
    TypeOK /\ OneResultPerCommand /\ [Next]_vars => OneResultPerCommand'
<1> SUFFICES ASSUME TypeOK, OneResultPerCommand, [Next]_vars
             PROVE  OneResultPerCommand'
  OBVIOUS
<1>0. outbox \in Seq(Event)
  BY DEF TypeOK
<1>1. ASSUME inbox' = inbox, outbox' = outbox
      PROVE  OneResultPerCommand'
  BY <1>1 DEF OneResultPerCommand, Result
<1>2. ASSUME NEW i \in Instance, Completing(i)
      PROVE  OneResultPerCommand'
  <2>1. PICK e \in Event : /\ outbox' = Append(outbox, e)
                           /\ e.cause = Msg(i) /\ e.type \in ResultType
                           /\ inbox' = inbox \cup {Msg(i)}
    BY <1>2, CompletionEvent
  <2>2. Msg(i) \notin inbox
    BY <1>2 DEF Completing, Duplicate
  <2> QED
    BY <1>0, <2>1, <2>2, Appended DEF OneResultPerCommand, Result
<1>3. ASSUME NEW i \in Instance, DeadLettering(i)
      PROVE  OneResultPerCommand'
  <2>1. PICK e \in Event : /\ outbox' = Append(outbox, e)
                           /\ e.type \notin ResultType
    BY <1>3, DeadLetterEvent
  <2>2. inbox' = inbox
    BY <1>3 DEF DeadLettering
  <2> QED
    BY <1>0, <2>1, <2>2, Appended DEF OneResultPerCommand, Result
<1> QED
  BY <1>1, <1>2, <1>3, DatabaseStep DEF database, PrepareCharge

\* Every command the inbox knows has exactly one result event, and a command
\* it does not know has none.
THEOREM EachCommandHasOneResult == Spec => []OneResultPerCommand
<1>1. Init => OneResultPerCommand
  BY DEF Init, OneResultPerCommand
<1> QED
  BY <1>1, OneResultStep, CommandsTypeCorrect, PTL DEF Spec

----------------------------------------------------------------------------
(* No message is lost. *)

HandledUpTo(p, n) ==
    n <= Len(Log[p]) /\ \A o \in 1..n : Handled(Log[p][o])

\* A handler that goes on to commit the offset has put its message in the
\* database.
AckIsHandled ==
    \A i \in Instance : job[i].pc = "ack" => Handled(Msg(i))

\* A handler whose partition was not taken away works on the message after the
\* position.
InOrder ==
    \A i \in Instance : job[i].pc # "idle" /\ owner[job[i].part] = i =>
        job[i].off = position[job[i].part] + 1

OffsetSafety ==
    /\ \A p \in Partition : HandledUpTo(p, committed[p])
    /\ \A p \in Partition : HandledUpTo(p, position[p])
    /\ AckIsHandled
    /\ InOrder

\* A message finds the rows filed under its own id; one with a messageId no
\* other.
LEMMA NamesakesOf ==
    ASSUME NEW m \in Message
    PROVE  /\ m \in Namesakes(m) /\ Namesakes(m) \subseteq Message
           /\ HasMessageId(m) => Namesakes(m) = {m}
BY DEF Namesakes

\* A handled message stays handled.
LEMMA HandledStays ==
    ASSUME TypeOK, [Next]_vars, NEW m \in Message, Handled(m)
    PROVE  Handled(m)'
<1>1. ASSUME NEW i \in Instance, DeadLettering(i)
      PROVE  Handled(m)'
  <2>1. Msg(i) \in Message
    BY <1>1, DeadLetterEvent
  <2>2. deadLetters \in [Message -> Nat] /\ inbox' = inbox
    BY <1>1 DEF TypeOK, DeadLettering
  <2>3. deadLetters' = [deadLetters EXCEPT ![Msg(i)] = deadLetters[Msg(i)] + 1]
    BY <1>1 DEF DeadLettering
  <2>4. \A n \in Message : deadLetters[n] > 0 => deadLetters'[n] > 0
    BY <2>1, <2>2, <2>3
  <2> QED
    BY <2>2, <2>4, NamesakesOf DEF Handled
<1>2. ASSUME NEW i \in Instance, Completing(i)
      PROVE  Handled(m)'
  BY <1>2 DEF Completing, Completes, Handled
<1> QED
  BY <1>1, <1>2, DatabaseStep DEF database, PrepareCharge, Handled

\* A handled prefix of a log stays handled.
LEMMA HandledUpToStays ==
    ASSUME TypeOK, [Next]_vars, NEW p \in Partition, NEW n \in Nat,
           HandledUpTo(p, n)
    PROVE  HandledUpTo(p, n)'
<1>1. ASSUME NEW o \in 1..n
      PROVE  Handled(Log[p][o])'
  <2>1. Log[p] \in Seq(Message)
    BY ConstantsAssumption
  <2>2. o \in DOMAIN Log[p]
    BY <2>1 DEF HandledUpTo
  <2> QED
    BY <2>2, LogMessage, HandledStays DEF HandledUpTo
<1> QED
  BY <1>1 DEF HandledUpTo

\* Steps that end or continue a delivery: the handlers stay where they are in
\* the log.
SameOrIdle(i) ==
    \/ job'[i] = job[i]
    \/ job'[i].pc = "idle"
    \/ job[i].pc # "idle" /\ SameDelivery(job[i], job'[i])

\* The one step that begins a delivery, at the position of the partition.
Begins(i) ==
    \E p \in Partition : job'[i].part = p /\ job'[i].off = position[p] + 1

\* A reply that lets the handler go on to the offset follows a transaction
\* that knows the message.
LEMMA RepliesHandled ==
    ASSUME TypeOK, NEW i \in Instance, job[i].pc # "idle", NEW pc \in Pc,
           pc \in {"prepare", "provider", "commit"} => Command(Msg(i)),
           Replies(i, pc),
           pc = "ack" =>
               \/ Msg(i) \in inbox'
               \/ \E n \in Namesakes(Msg(i)) : deadLetters'[n] > 0
    PROVE  /\ \A j \in Instance : SameOrIdle(j)
           /\ \A j \in Instance : job'[j].pc = "ack" =>
                  job'[j] = job[j] \/ Handled(Msg(j))'
<1>1. Handlers
  BY TypeParts
<1>2. /\ job'[i] = At(job[i], pc) \/ job'[i] = OnError(job[i])
      /\ \A j \in Instance : j # i => job'[j] = job[j]
  BY <1>1, HandlersReplies
<1>3. Sound(job[i]) /\ job[i] \in Job
  BY <1>1, BusyMessage
<1>4. CASE job'[i] = At(job[i], pc)
  <2>1. SameDelivery(job[i], job'[i]) /\ job'[i].pc = pc
    BY <1>3, <1>4, AtState
  <2>2. \A j \in Instance : SameOrIdle(j)
    BY <1>2, <2>1 DEF SameOrIdle
  <2>3. job'[i].pc = "ack" => Handled(Msg(i))'
    BY <2>1 DEF SameDelivery, Msg, MessageOf, Handled
  <2> QED
    BY <1>2, <2>2, <2>3
<1>5. CASE job'[i] = OnError(job[i])
  BY <1>2, <1>3, <1>5, OnErrorState, IdleState DEF SameOrIdle
<1> QED
  BY <1>2, <1>4, <1>5

\* What a step can do to the handlers and the offsets: a new delivery starts
\* at the position, an offset moves past a handled message, a rebalance gives
\* partitions to idle replicas; otherwise handlers only continue or end.
LEMMA DeliveryStep ==
    ASSUME TypeOK, AckIsHandled, InOrder, [Next]_vars
    PROVE  /\ \A j \in Instance : job'[j].pc = "ack" =>
                  job'[j] = job[j] \/ Handled(Msg(j))'
           /\ InOrder'
           /\ \A j \in Instance : SameOrIdle(j) \/ Begins(j)
           /\ \A p \in Partition :
                 \/ committed'[p] = committed[p]
                 \/ \E i \in Instance : /\ job[i].pc = "ack" /\ job[i].part = p
                                       /\ committed'[p] = job[i].off
                                       /\ job[i].off = position[p] + 1
           /\ \A p \in Partition :
                 \/ position'[p] = position[p]
                 \/ position'[p] = committed[p]
                 \/ \E i \in Instance : /\ job[i].pc = "ack" /\ job[i].part = p
                                       /\ position'[p] = job[i].off
                                       /\ job[i].off = position[p] + 1
<1> DEFINE Acked == \A j \in Instance : job'[j].pc = "ack" =>
                       job'[j] = job[j] \/ Handled(Msg(j))'
           Step  == /\ \A j \in Instance : SameOrIdle(j)
                    /\ Acked
<1>0. World /\ Handlers /\ Data
  BY TypeParts
<1>1. ASSUME UNCHANGED kafka, \A j \in Instance : SameOrIdle(j)
      PROVE  InOrder' /\ committed' = committed /\ position' = position
  BY <1>1 DEF kafka, InOrder, SameOrIdle, SameDelivery
<1>2. ASSUME NEW i \in Instance, NEW p \in Partition, Fetch(i, p)
      PROVE  /\ Acked /\ InOrder' /\ UNCHANGED kafka
             /\ \A j \in Instance : SameOrIdle(j) \/ Begins(j)
  <2>1. /\ job'[i].pc \in {"prepare", "deadletter"}
        /\ job'[i].part = p /\ job'[i].off = position[p] + 1
        /\ \A j \in Instance : j # i => job'[j] = job[j]
    BY <1>0, <1>2, IdleState DEF Fetch, Handlers, Job
  <2> QED
    BY <1>2, <2>1 DEF Fetch, InOrder, kafka, SameOrIdle, Begins
<1>3. ASSUME NEW i \in Instance, PrepareCharge(i) \/ PrepareRefund(i)
      PROVE  Step /\ UNCHANGED kafka
  <2>1. /\ job[i].pc # "idle" /\ Command(Msg(i)) /\ UNCHANGED kafka
        /\ \E pc \in Pc \ {"ack"} : Replies(i, pc)
    BY <1>3 DEF PrepareCharge, PrepareRefund, Command, Pc
  <2> QED
    BY <2>1, RepliesHandled
<1>4. ASSUME NEW i \in Instance, CallProcessor(i)
      PROVE  Step /\ UNCHANGED kafka
  <2>1. job[i].pc = "provider" /\ UNCHANGED kafka
    BY <1>4 DEF CallProcessor
  <2>2. PICK result \in {"ok", "declined"} :
          job' = [job EXCEPT ![i] = [At(@, "commit") EXCEPT
                                           !.result = result]]
    BY <1>4 DEF CallProcessor
  <2> DEFINE k == At(job[i], "commit")
  <2>3. k \in Job /\ k.pc = "commit" /\ SameDelivery(job[i], k)
    BY <1>0, <2>1, BusyMessage, AtState DEF Pc
  <2>4. job' = [job EXCEPT ![i] = [k EXCEPT !.result = result]]
    BY <2>2
  <2> HIDE DEF k
  <2>5. /\ job'[i].pc = "commit" /\ SameDelivery(job[i], job'[i])
        /\ \A j \in Instance : j # i => job'[j] = job[j]
    BY <1>0, <2>3, <2>4 DEF Handlers, Job, SameDelivery
  <2> QED
    BY <2>1, <2>5 DEF SameOrIdle
<1>5. ASSUME NEW i \in Instance, CommitCharge(i) \/ CommitRefund(i)
      PROVE  Step /\ UNCHANGED kafka
  <2>1. /\ job[i].pc = "commit" /\ UNCHANGED kafka
        /\ \/ /\ Duplicate(Msg(i)) \/ Completes(Msg(i), job[i].result)
              /\ Duplicate(Msg(i)) => inbox' = inbox
              /\ Replies(i, "ack")
           \/ job' = [job EXCEPT ![i] = OnError(@)]
    BY <1>5 DEF CommitCharge, CommitRefund, Commit, database
  <2>2. CASE job' = [job EXCEPT ![i] = OnError(@)]
    BY <1>0, <2>1, <2>2, HandlersOnError, OnErrorState, BusyMessage, IdleState
       DEF SameOrIdle
  <2>3. CASE Replies(i, "ack") /\ Msg(i) \in inbox'
    BY <1>0, <2>1, <2>3, RepliesHandled, BusyMessage DEF Pc
  <2> QED
    BY <2>1, <2>2, <2>3 DEF Duplicate, Completes
<1>6. ASSUME NEW i \in Instance, recordDeadLetter(i)
      PROVE  Step /\ UNCHANGED kafka
  <2>1. /\ job[i].pc = "deadletter" /\ UNCHANGED kafka /\ Replies(i, "ack")
        /\ \/ DeadLetterExists(Msg(i)) /\ deadLetters' = deadLetters
           \/ deadLetters' = [deadLetters EXCEPT ![Msg(i)] = @ + 1]
    BY <1>6 DEF recordDeadLetter, NewDeadLetter
  <2>2. \E n \in Namesakes(Msg(i)) : deadLetters'[n] > 0
    <3>1. Msg(i) \in Message /\ deadLetters[Msg(i)] \in Nat
      BY <1>0, <2>1, BusyMessage DEF Data
    <3>2. CASE DeadLetterExists(Msg(i)) /\ deadLetters' = deadLetters
      BY <3>2 DEF DeadLetterExists
    <3>3. CASE deadLetters' = [deadLetters EXCEPT ![Msg(i)] = @ + 1]
      BY <1>0, <3>1, <3>3, NamesakesOf DEF Data
    <3> QED
      BY <2>1, <3>2, <3>3
  <2> QED
    BY <1>0, <2>1, <2>2, RepliesHandled DEF Pc
<1>7. ASSUME NEW i \in Instance,
             DeadLetterRaises(i) \/ TransactionAborts(i) \/ CallProcessorFails(i)
      PROVE  Step /\ UNCHANGED kafka
  <2>1. /\ job[i].pc # "idle" /\ UNCHANGED kafka
        /\ job' = [job EXCEPT ![i] = OnError(@)]
    BY <1>7 DEF DeadLetterRaises, TransactionAborts, CallProcessorFails
  <2> QED
    BY <1>0, <2>1, HandlersOnError, OnErrorState, BusyMessage, IdleState
       DEF SameOrIdle
<1>8. ASSUME NEW i \in Instance, job' = [job EXCEPT ![i] = Idle]
      PROVE  Step
  BY <1>0, <1>8, IdleState DEF Handlers, SameOrIdle
<1>9. ASSUME NEW i \in Instance, Crash(i)
      PROVE  Step /\ InOrder' /\ committed' = committed /\ position' = position
  <2>1. /\ job' = [job EXCEPT ![i] = Idle]
        /\ committed' = committed /\ position' = position
        /\ \A p \in Partition : owner'[p] = owner[p] \/ owner'[p] = Nobody
    BY <1>9 DEF Crash
  <2>2. job'[i].pc = "idle" /\ \A j \in Instance : j # i => job'[j] = job[j]
    BY <1>0, <2>1, IdleState DEF Handlers
  <2>3. \A j \in Instance : job[j].pc # "idle" => job[j].part \in Partition
    BY <1>0 DEF Handlers, Sound
  <2>4. InOrder'
    <3> SUFFICES ASSUME NEW j \in Instance, job'[j].pc # "idle",
                        owner'[job'[j].part] = j
                 PROVE  job'[j].off = position[job'[j].part] + 1
      BY <2>1 DEF InOrder
    <3>1. job'[j] = job[j] /\ job[j].part \in Partition
      BY <2>2, <2>3
    <3>2. owner[job[j].part] = j
      BY <2>1, <3>1, ConstantsAssumption
    <3> QED
      BY <3>1, <3>2 DEF InOrder
  <2> QED
    BY <1>8, <2>1, <2>4
<1>10. CASE Rebalance
  <2>1. /\ job' = job /\ committed' = committed /\ position' = committed
        /\ owner' \in [Partition -> {i \in Instance : job[i].pc = "idle"}]
    BY <1>10 DEF Rebalance
  <2>2. \A i \in Instance : job[i].pc # "idle" => job[i].part \in Partition
    BY <1>0 DEF Handlers, Sound
  <2>3. InOrder'
    BY <2>1, <2>2 DEF InOrder
  <2> QED
    BY <2>1, <2>3 DEF SameOrIdle
<1>11. CASE Stabilise \/ UNCHANGED vars
  BY <1>11 DEF Stabilise, vars, kafka, InOrder, SameOrIdle
<1>12. ASSUME NEW i \in Instance, Acknowledge(i) \/ AcknowledgeFails(i)
       PROVE  /\ Step /\ InOrder'
              /\ \A p \in Partition :
                    \/ committed'[p] = committed[p] /\ position'[p] = position[p]
                    \/ /\ job[i].pc = "ack" /\ job[i].part = p
                       /\ job[i].off = position[p] + 1
                       /\ committed'[p] \in {committed[p], job[i].off}
                       /\ position'[p] \in {position[p], job[i].off}
  <2>1. job[i].pc = "ack" /\ job' = [job EXCEPT ![i] = Idle] /\ owner' = owner
    BY <1>12 DEF Acknowledge, AcknowledgeFails
  <2>2. Step
    BY <2>1, <1>8
  <2>3. job[i].part \in Partition
    BY <1>0, <2>1, BusyMessage
  <2>4. /\ \A p \in Partition : p # job[i].part \/ owner[p] # i =>
              committed'[p] = committed[p] /\ position'[p] = position[p]
        /\ committed'[job[i].part] \in {committed[job[i].part], job[i].off}
        /\ position'[job[i].part] \in {position[job[i].part], job[i].off}
    BY <1>0, <1>12, <2>3 DEF Acknowledge, AcknowledgeFails, World
  <2>5. owner[job[i].part] = i => job[i].off = position[job[i].part] + 1
    BY <2>1 DEF InOrder
  <2>6. InOrder'
    <3>1. \A j \in Instance : job[j].pc # "idle" => job[j].part \in Partition
      BY <1>0 DEF Handlers, Sound
    <3>2. job'[i].pc = "idle" /\ \A j \in Instance : j # i => job'[j] = job[j]
      BY <1>0, <2>1, IdleState DEF Handlers
    <3> QED
      BY <2>1, <2>4, <3>1, <3>2 DEF InOrder
  <2> QED
    BY <2>1, <2>2, <2>4, <2>5, <2>6
<1> QED
  BY <1>1, <1>2, <1>3, <1>4, <1>5, <1>6, <1>7, <1>9, <1>10, <1>11, <1>12
     DEF Next, Handle, Fault, kafka

\* Every step keeps the offsets behind the handled messages.
LEMMA OffsetStep == TypeOK /\ OffsetSafety /\ [Next]_vars => OffsetSafety'
<1> SUFFICES ASSUME TypeOK, OffsetSafety, [Next]_vars
             PROVE  OffsetSafety'
  OBVIOUS
<1>0. World /\ Handlers /\ AckIsHandled /\ InOrder
  BY TypeParts DEF OffsetSafety
<1>1. AckIsHandled'
  <2> SUFFICES ASSUME NEW i \in Instance, job'[i].pc = "ack"
               PROVE  Handled(Msg(i))'
    BY DEF AckIsHandled
  <2>1. CASE job'[i] = job[i]
    <3>1. Msg(i) \in Message /\ Handled(Msg(i))
      BY <1>0, <2>1, BusyMessage DEF AckIsHandled
    <3> QED
      BY <2>1, <3>1, HandledStays DEF Msg, Handled
  <2> QED
    BY <1>0, <2>1, DeliveryStep
\* The offset after a handled message.
<1>2. ASSUME NEW p \in Partition, NEW i \in Instance,
             job[i].pc = "ack", job[i].part = p, job[i].off = position[p] + 1
      PROVE  HandledUpTo(p, job[i].off)
  <2>1. /\ position[p] \in Nat /\ job[i].off \in DOMAIN Log[p]
        /\ Handled(Log[p][job[i].off]) /\ HandledUpTo(p, position[p])
    BY <1>0, <1>2, BusyMessage
       DEF OffsetSafety, AckIsHandled, Msg, MessageOf, World
  <2>2. job[i].off <= Len(Log[p])
    BY <2>1, LogMessage
  <2>3. \A o \in 1..job[i].off : o \in 1..position[p] \/ o = job[i].off
    BY <1>2, <2>1
  <2> QED
    BY <2>1, <2>2, <2>3 DEF HandledUpTo
<1>3. ASSUME NEW p \in Partition,
             NEW n \in {committed[p], position[p]}
      PROVE  n \in Nat /\ HandledUpTo(p, n)
  BY <1>0 DEF World, OffsetSafety
<1>4. ASSUME NEW p \in Partition,
             NEW n \in {committed'[p], position'[p]}
      PROVE  n \in Nat /\ HandledUpTo(p, n)
  BY <1>0, <1>2, <1>3, DeliveryStep, BusyMessage, LogMessage
<1>5. ASSUME NEW p \in Partition
      PROVE  HandledUpTo(p, committed[p])' /\ HandledUpTo(p, position[p])'
  <2>1. /\ committed'[p] \in Nat /\ HandledUpTo(p, committed'[p])
        /\ position'[p] \in Nat /\ HandledUpTo(p, position'[p])
    BY <1>4
  <2>2. \A n \in Nat : HandledUpTo(p, n) => HandledUpTo(p, n)'
    BY HandledUpToStays
  <2> QED
    BY <2>1, <2>2 DEF HandledUpTo, Handled
<1> QED
  BY <1>0, <1>1, <1>5, DeliveryStep DEF OffsetSafety

\* The offsets stay behind the handled messages in every reachable state.
LEMMA OffsetsAreSafe == Spec => []OffsetSafety
<1>1. Init => OffsetSafety
  <2> SUFFICES ASSUME Init PROVE OffsetSafety
    OBVIOUS
  <2>1. /\ \A p \in Partition : /\ committed[p] = 0 /\ position[p] = 0
                                /\ 0 <= Len(Log[p])
        /\ \A i \in Instance : job[i].pc = "idle"
    BY IdleState, ConstantsAssumption DEF Init
  <2> QED
    BY <2>1 DEF OffsetSafety, HandledUpTo, AckIsHandled, InOrder
<1> QED
  BY <1>1, OffsetStep, CommandsTypeCorrect, PTL DEF Spec

\* No message with a messageId is lost: before its offset is committed, its
\* result or its dead letter is in the database.  Of the messages without one,
\* the first whose offset is committed is dead-lettered; the run
\* commands_same_millisecond shows that a second one may not be.
THEOREM NoMessageIsLost == Spec => []CommittedMeansHandled
<1>1. OffsetSafety => CommittedMeansHandled
  BY DEF OffsetSafety, HandledUpTo, CommittedMeansHandled
<1> QED
  BY <1>1, OffsetsAreSafe, PTL
============================================================================
