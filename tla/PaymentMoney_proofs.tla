------------------------- MODULE PaymentMoney_proofs -------------------------
(***************************************************************************)
(* Proofs about the payments of PaymentCommands: what the service reports  *)
(* is what the provider did, an order has one row, a row's status follows  *)
(* the transitions of the lifecycle, and the attempts agree with the rows. *)
(***************************************************************************)
EXTENDS PaymentCommands_proofs, FiniteSetTheorems

----------------------------------------------------------------------------
(* What the handlers know. *)

Working == {"prepare", "provider", "commit"}

\* A handler has an answer of the provider only once it completes.
NoResultYet ==
    \A i \in Instance :
        job[i].pc \in {"prepare", "provider"} => job[i].result = "none"

\* The money of an approved command has moved.
Moved(m) == IF Kind[m] = "charge" THEN PaymentOf[m] \in captured
                                  ELSE PaymentOf[m] \in returned

ApprovedMoved ==
    \A i \in Instance :
        job[i].pc = "commit" /\ job[i].result = "ok" => Moved(Msg(i))

\* A charge goes past its first transaction only when its order has a row.
OrderHasRow(m) ==
    \E q \in PaymentId : OrderOf[q] = OrderOf[PaymentOf[m]] /\ Exists(q)

ChargePrepared ==
    \A i \in Instance :
        job[i].pc \in {"provider", "commit"} /\ Kind[Msg(i)] = "charge"
        => OrderHasRow(Msg(i))

HandlerInv == NoResultYet /\ ApprovedMoved /\ ChargePrepared

\* How a handler comes to be working on a command: it stays where it is,
\* starts (again), has prepared, has an answer, or retries its completion.
WorksBecause(i) ==
    \/ job'[i] = job[i]
    \/ job'[i].pc = "prepare" /\ job'[i].result = "none"
    \/ /\ job[i].pc = "prepare" /\ SameDelivery(job[i], job'[i])
       /\ job'[i].result = "none"
       /\ PrepareCharge(i) \/ PrepareRefund(i)
    \/ /\ job[i].pc = "provider" /\ SameDelivery(job[i], job'[i])
       /\ job'[i].pc = "commit"
       /\ Request(Msg(i), job'[i].result)
    \/ /\ job[i].pc = "commit" /\ SameDelivery(job[i], job'[i])
       /\ job'[i].pc = "commit" /\ job'[i].result = job[i].result

\* No other step makes a handler work on a command.
LEMMA WorkStep ==
    ASSUME TypeOK, NoResultYet, [Next]_vars,
           NEW i \in Instance, job'[i].pc \in Working
    PROVE  WorksBecause(i)
<1> USE DEF WorksBecause
<1>0. Handlers
  BY TypeParts
<1>1. ASSUME job[i].pc # "idle", job'[i] = OnError(job[i])
      PROVE  WorksBecause(i)
  BY <1>0, <1>1, BusyMessage, OnErrorState, IdleState DEF Working
<1>2. ASSUME NEW j \in Instance, job[j].pc # "idle",
             job' = [job EXCEPT ![j] = OnError(@)]
      PROVE  WorksBecause(i)
  BY <1>0, <1>1, <1>2, HandlersOnError
<1>3. ASSUME NEW j \in Instance, PrepareCharge(j) \/ PrepareRefund(j)
      PROVE  WorksBecause(i)
  <2>1. PICK pc \in {"provider", "commit"} : Replies(j, pc)
    BY <1>3 DEF PrepareCharge, PrepareRefund
  <2>2. /\ job[j].pc = "prepare" /\ Command(Msg(j)) /\ pc \in Pc
        /\ job[j] \in Job /\ job[j].result = "none"
    BY <1>0, <1>3, BusyMessage
       DEF PrepareCharge, PrepareRefund, Command, Pc, NoResultYet
  <2>3. /\ job'[j] = At(job[j], pc) \/ job'[j] = OnError(job[j])
        /\ \A h \in Instance : h # j => job'[h] = job[h]
    BY <1>0, <2>1, <2>2, HandlersReplies
  <2>4. ASSUME job'[j] = At(job[j], pc)
        PROVE  SameDelivery(job[j], job'[j]) /\ job'[j].result = "none"
    BY <2>1, <2>2, <2>4, AtState
  <2> QED
    BY <1>1, <1>3, <2>2, <2>3, <2>4
<1>4. ASSUME NEW j \in Instance, CallProcessor(j)
      PROVE  WorksBecause(i)
  <2>1. job[j].pc = "provider"
    BY <1>4 DEF CallProcessor
  <2>2. PICK result \in {"ok", "declined"} :
          /\ Request(Msg(j), result)
          /\ job' = [job EXCEPT ![j] = [At(@, "commit") EXCEPT
                                           !.result = result]]
    BY <1>4 DEF CallProcessor
  <2> DEFINE k == At(job[j], "commit")
  <2>3. k \in Job /\ k.pc = "commit" /\ SameDelivery(job[j], k)
    BY <1>0, <2>1, BusyMessage, AtState DEF Pc
  <2>4. job' = [job EXCEPT ![j] = [k EXCEPT !.result = result]]
    BY <2>2
  <2> HIDE DEF k
  <2>5. /\ job'[j].pc = "commit" /\ SameDelivery(job[j], job'[j])
        /\ job'[j].result = result
        /\ \A h \in Instance : h # j => job'[h] = job[h]
    BY <1>0, <2>3, <2>4 DEF Handlers, Job, SameDelivery
  <2> QED
    BY <2>1, <2>2, <2>5
<1>5. ASSUME NEW j \in Instance, CommitCharge(j) \/ CommitRefund(j)
      PROVE  WorksBecause(i)
  <2>1. /\ job[j].pc = "commit"
        /\ Replies(j, "ack") \/ job' = [job EXCEPT ![j] = OnError(@)]
    BY <1>5 DEF CommitCharge, CommitRefund, Commit
  <2>2. CASE Replies(j, "ack")
    <3>1. /\ job'[j] = At(job[j], "ack") \/ job'[j] = OnError(job[j])
          /\ \A h \in Instance : h # j => job'[h] = job[h]
      BY <1>0, <2>1, <2>2, HandlersReplies DEF Pc
    <3>2. At(job[j], "ack").pc = "ack"
      BY <1>0, <2>1, BusyMessage, AtState DEF Pc
    <3> QED
      BY <1>1, <2>1, <3>1, <3>2 DEF Working
  <2> QED
    BY <1>2, <2>1, <2>2
<1>6. ASSUME NEW j \in Instance, recordDeadLetter(j)
      PROVE  WorksBecause(i)
  <2>1. job[j].pc = "deadletter" /\ Replies(j, "ack")
    BY <1>6 DEF recordDeadLetter, NewDeadLetter
  <2>2. /\ job'[j] = At(job[j], "ack") \/ job'[j] = OnError(job[j])
        /\ \A h \in Instance : h # j => job'[h] = job[h]
    BY <1>0, <2>1, HandlersReplies DEF Pc
  <2>3. At(job[j], "ack").pc = "ack"
    BY <1>0, <2>1, BusyMessage, AtState DEF Pc
  <2> QED
    BY <1>1, <2>1, <2>2, <2>3 DEF Working
<1>7. ASSUME NEW j \in Instance,
             \/ DeadLetterRaises(j) \/ TransactionAborts(j)
             \/ CallProcessorFails(j)
      PROVE  WorksBecause(i)
  BY <1>2, <1>7 DEF DeadLetterRaises, TransactionAborts, CallProcessorFails
<1>8. ASSUME NEW j \in Instance,
             Acknowledge(j) \/ AcknowledgeFails(j) \/ Crash(j)
      PROVE  WorksBecause(i)
  <2>1. job' = [job EXCEPT ![j] = Idle]
    BY <1>8 DEF Acknowledge, AcknowledgeFails, Crash
  <2> QED
    BY <1>0, <2>1, IdleState DEF Handlers, Working
<1>9. ASSUME NEW j \in Instance, NEW p \in Partition, Fetch(j, p)
      PROVE  WorksBecause(i)
  <2>1. /\ job'[j].pc \in {"prepare", "deadletter"} /\ job'[j].result = "none"
        /\ \A h \in Instance : h # j => job'[h] = job[h]
    BY <1>0, <1>9, IdleState DEF Fetch, Handlers, Job
  <2> QED
    BY <2>1 DEF Working
<1>10. ASSUME Rebalance \/ Stabilise \/ UNCHANGED vars
       PROVE  WorksBecause(i)
  BY <1>10 DEF Rebalance, Stabilise, vars
<1> HIDE DEF WorksBecause
<1> QED
  BY <1>2, <1>3, <1>4, <1>5, <1>6, <1>7, <1>8, <1>9, <1>10
     DEF Next, Handle, Fault

----------------------------------------------------------------------------
(* What only grows. *)

\* The provider forgets no movement of money.
LEMMA MoneyStays ==
    ASSUME [Next]_vars
    PROVE  captured \subseteq captured' /\ returned \subseteq returned'
<1>1. ASSUME NEW m, NEW result, Request(m, result)
      PROVE  captured \subseteq captured' /\ returned \subseteq returned'
  BY <1>1 DEF Request
<1>2. ASSUME UNCHANGED provider
      PROVE  captured \subseteq captured' /\ returned \subseteq returned'
  BY <1>2 DEF provider
<1>3. \/ UNCHANGED provider
      \/ \E i \in Instance, result \in {"ok", "declined"} : Request(Msg(i), result)
  BY DEF Next, Handle, Fault, Fetch, PrepareCharge, PrepareRefund, CallProcessor,
         CommitCharge, CommitRefund, Commit, recordDeadLetter, NewDeadLetter,
         DeadLetterRaises,
         Acknowledge, CallProcessorFails, TransactionAborts, AcknowledgeFails,
         Crash, Rebalance, Stabilise, vars
<1> QED
  BY <1>1, <1>2, <1>3

\* What the lookup returns: the row of the payment id, or of the order.
LEMMA FindPaymentFacts ==
    ASSUME NEW p \in PaymentId
    PROVE  /\ findPayment(p) \in PaymentId
           /\ OrderOf[findPayment(p)] = OrderOf[p]
           /\ Exists(p) => findPayment(p) = p
           /\ \A q \in PaymentId : OrderOf[q] = OrderOf[p] /\ Exists(q) =>
                 Exists(findPayment(p))
BY DEF findPayment

\* What a completion saves, under which id, and what it announces.
LEMMA CompletionPayments ==
    ASSUME TypeOK, NEW i \in Instance, Completing(i)
    PROVE  LET m == Msg(i)
               d == Decide(m, job[i].result)
           IN  /\ m \in Message /\ Command(m) /\ job[i].result \in ProcessorResult
               /\ PaymentOf[m] \in PaymentId
               /\ d.id \in PaymentId /\ d.row \in Row
               /\ ~OrderTaken(d)
               /\ \A p \in PaymentId :
                     payments'[p] = IF p = d.id /\ d.row.status # "NONE"
                                    THEN d.row ELSE payments[p]
<1> DEFINE m == Msg(i)
           d == Decide(m, job[i].result)
<1>1. m \in Message /\ Command(m) /\ job[i].result \in ProcessorResult
  BY CompletionEvent
<1>2. d.id \in PaymentId /\ d.row \in Row
  BY <1>1, TypeParts, DecideType DEF Data
<1>3. PaymentOf[m] \in PaymentId
  BY <1>1, ConstantsAssumption
<1>4. ~OrderTaken(d) /\ upsertPayment(d)
  BY DEF Completing, Raises, Completes
<1> HIDE DEF d, m
<1>5. \A p \in PaymentId :
          payments'[p] = IF p = d.id /\ d.row.status # "NONE"
                         THEN d.row ELSE payments[p]
  BY <1>2, <1>4 DEF upsertPayment, TypeOK
<1> QED
  BY <1>1, <1>2, <1>3, <1>4, <1>5 DEF d, m

\* A first charge of an order inserts its row, and changes no other.
LEMMA PreparePayments ==
    ASSUME TypeOK, NEW i \in Instance, PrepareCharge(i)
    PROVE  LET p == PaymentOf[Msg(i)]
           IN  /\ Msg(i) \in Message /\ p \in PaymentId
               /\ \/ payments' = payments /\ OrderHasRow(Msg(i))
                  \/ /\ \A q \in PaymentId : OrderOf[q] = OrderOf[p] => ~Exists(q)
                     /\ payments'[p] = createPendingChargePayment
                     /\ \A q \in PaymentId : q # p => payments'[q] = payments[q]
<1> DEFINE p == PaymentOf[Msg(i)]
           e == findPayment(p)
<1>1. Msg(i) \in Message /\ p \in PaymentId
  BY TypeParts, BusyMessage, ConstantsAssumption DEF PrepareCharge
<1> HIDE DEF p
<1>2. /\ e \in PaymentId /\ OrderOf[e] = OrderOf[p]
      /\ \A q \in PaymentId : OrderOf[q] = OrderOf[p] /\ Exists(q) => Exists(e)
  BY <1>1, FindPaymentFacts
<1>3. payments' = IF /\ planCharge(payments[e]) = "call_processor"
                     /\ payments[e].status = "NONE"
                  THEN [payments EXCEPT ![p] = createPendingChargePayment]
                  ELSE payments
  BY DEF PrepareCharge, p
<1> HIDE DEF e
<1>4. CASE payments[e].status = "NONE"
  <2>1. payments' = [payments EXCEPT ![p] = createPendingChargePayment]
    BY <1>3, <1>4 DEF planCharge
  <2>2. \A q \in PaymentId : OrderOf[q] = OrderOf[p] => ~Exists(q)
    BY <1>2, <1>4 DEF Exists
  <2> QED
    BY <1>1, <2>1, <2>2 DEF TypeOK, p
<1>5. CASE payments[e].status # "NONE"
  BY <1>1, <1>2, <1>3, <1>5 DEF OrderHasRow, Exists, p
<1> QED
  BY <1>4, <1>5

\* No step deletes a row.
LEMMA ExistsStays ==
    ASSUME TypeOK, [Next]_vars, NEW p \in PaymentId, Exists(p)
    PROVE  Exists(p)'
<1>1. ASSUME NEW i \in Instance, PrepareCharge(i)
      PROVE  Exists(p)'
  BY <1>1, PreparePayments DEF Exists
<1>2. ASSUME NEW i \in Instance, Completing(i)
      PROVE  Exists(p)'
  BY <1>2, CompletionPayments DEF Exists
<1> QED
  BY <1>1, <1>2, DatabaseStep DEF database, DeadLettering, Exists

\* Every step keeps what the handlers know.
LEMMA HandlerInvStep == TypeOK /\ HandlerInv /\ [Next]_vars => HandlerInv'
<1> SUFFICES ASSUME TypeOK, HandlerInv, [Next]_vars
             PROVE  HandlerInv'
  OBVIOUS
<1>0. NoResultYet /\ ApprovedMoved /\ ChargePrepared /\ Handlers
  BY TypeParts DEF HandlerInv
<1>1. NoResultYet'
  BY <1>0, WorkStep DEF NoResultYet, Working, WorksBecause
<1>2. ASSUME NEW i \in Instance, SameDelivery(job[i], job'[i]) \/ job'[i] = job[i]
      PROVE  Msg(i)' = Msg(i)
  BY <1>2 DEF Msg, MessageOf, SameDelivery
<1>3. ApprovedMoved'
  <2> SUFFICES ASSUME NEW i \in Instance, job'[i].pc = "commit",
                      job'[i].result = "ok"
               PROVE  Moved(Msg(i))'
    BY DEF ApprovedMoved
  <2>1. \/ job[i].pc = "commit" /\ job[i].result = "ok" /\ Msg(i)' = Msg(i)
        \/ /\ job[i].pc = "provider" /\ Request(Msg(i), "ok")
           /\ Msg(i)' = Msg(i)
    BY <1>0, <1>2, WorkStep DEF Working, WorksBecause
  <2>2. CASE job[i].pc = "commit" /\ job[i].result = "ok" /\ Msg(i)' = Msg(i)
    BY <1>0, <2>2, MoneyStays DEF ApprovedMoved, Moved
  <2>3. CASE /\ job[i].pc = "provider" /\ Request(Msg(i), "ok")
             /\ Msg(i)' = Msg(i)
    <3>1. Command(Msg(i))
      BY <1>0, <2>3, BusyMessage
    <3> QED
      BY <2>3, <3>1 DEF Request, Moved, Command
  <2> QED
    BY <2>1, <2>2, <2>3
<1>4. ChargePrepared'
  <2> SUFFICES ASSUME NEW i \in Instance, job'[i].pc \in {"provider", "commit"},
                      Kind[Msg(i)'] = "charge"
               PROVE  OrderHasRow(Msg(i))'
    BY DEF ChargePrepared
  <2>1. \/ /\ Msg(i)' = Msg(i) /\ job[i].pc \in {"provider", "commit"}
        \/ /\ Msg(i)' = Msg(i)
           /\ PrepareCharge(i) \/ PrepareRefund(i)
    BY <1>0, <1>2, WorkStep DEF Working, WorksBecause
  <2>2. CASE Msg(i)' = Msg(i) /\ job[i].pc \in {"provider", "commit"}
    BY <1>0, <2>2, ExistsStays DEF ChargePrepared, OrderHasRow
  <2>3. CASE Msg(i)' = Msg(i) /\ PrepareCharge(i)
    <3>1. CASE OrderHasRow(Msg(i))
      BY <2>3, <3>1, ExistsStays DEF OrderHasRow
    <3>2. CASE payments'[PaymentOf[Msg(i)]] = createPendingChargePayment
      BY <2>3, <3>2, PreparePayments
         DEF OrderHasRow, Exists, createPendingChargePayment
    <3> QED
      BY <2>3, <3>1, <3>2, PreparePayments
  <2>4. Msg(i)' = Msg(i) => ~PrepareRefund(i)
    BY DEF PrepareRefund
  <2> QED
    BY <2>1, <2>2, <2>3, <2>4
<1> QED
  BY <1>1, <1>3, <1>4 DEF HandlerInv

\* What the handlers know holds in every reachable state.
LEMMA HandlersKnow == Spec => [](TypeOK /\ HandlerInv)
<1>1. Init => HandlerInv
  BY IdleState DEF Init, HandlerInv, NoResultYet, ApprovedMoved, ChargePrepared
<1> QED
  BY <1>1, HandlerInvStep, CommandsTypeCorrect, PTL DEF Spec

----------------------------------------------------------------------------
(* Reports agree with the provider. *)

ChargedHasTime ==
    \A p \in PaymentId : payments[p].status = "CHARGED" => payments[p].chargedAt

RefundedOf(p) == \E q \in returned : OrderOf[q] = OrderOf[p]

RowBacked(p, row) ==
    /\ row.status = "CHARGED" => row.chargedAt
    /\ row.chargedAt => p \in captured
    /\ row.status = "REFUNDED" => RefundedOf(p)

EventBacked(p, type) ==
    /\ type = "payment.charged" => p \in captured
    /\ type = "payment.refunded" => RefundedOf(p)

MoneyInv ==
    /\ \A p \in PaymentId : RowBacked(p, payments[p])
    /\ \A k \in DOMAIN outbox : EventBacked(outbox[k].payment, outbox[k].type)

\* A decision saves and announces a movement of money only if it happened,
\* given that the result it rests on is the provider's.
LEMMA DecideBacked ==
    ASSUME TypeOK, MoneyInv,
           NEW m \in Message, Command(m), NEW result \in ProcessorResult,
           result = "ok" => Moved(m)
    PROVE  LET d == Decide(m, result)
           IN  RowBacked(d.id, d.row) /\ EventBacked(d.id, d.event)
<1> DEFINE p == PaymentOf[m]
           e == findPayment(p)
<1>1. p \in PaymentId
  BY ConstantsAssumption
<1> HIDE DEF p
<1>2. e \in PaymentId /\ OrderOf[e] = OrderOf[p]
  BY <1>1, FindPaymentFacts
<1> HIDE DEF e
<1>3. payments[e] \in Row /\ RowBacked(e, payments[e])
  BY <1>2 DEF TypeOK, MoneyInv
<1>4. CASE Kind[m] = "charge"
  <2>1. Decide(m, result) = decideCharge(p, e, payments[e], result)
    BY <1>4 DEF Decide, p, e
  <2>2. result = "ok" => p \in captured
    BY <1>4 DEF Moved, p
  <2> QED
    BY <1>2, <1>3, <2>1, <2>2
       DEF decideCharge, decisionFromChargeResult, replayCharged,
           rejectIllegalChargeStatus, Decision, RowBacked, EventBacked, planCharge
<1>5. CASE Kind[m] = "refund"
  <2>1. Decide(m, result) = decideRefund(p, e, payments[e], result)
    BY <1>5 DEF Decide, p, e
  <2>2. result = "ok" => RefundedOf(e)
    BY <1>2, <1>5 DEF Moved, RefundedOf, p
  <2>3. CASE planRefund(payments[e]) = "call_processor"
    BY <1>2, <1>3, <2>1, <2>2, <2>3
       DEF decideRefund, decisionFromRefundResult, Decision, RowBacked,
           EventBacked, Row
  <2>4. CASE planRefund(payments[e]) # "call_processor"
    BY <1>2, <1>3, <2>1, <2>4
       DEF decideRefund, refundNotFound, replayRefunded,
           rejectIllegalRefundStatus, Decision, RowBacked, EventBacked, Row, NoRow
  <2> QED
    BY <2>3, <2>4
<1> QED
  BY <1>4, <1>5 DEF Command

\* Every step keeps the rows and the events backed by the provider.
LEMMA MoneyStep == TypeOK /\ HandlerInv /\ MoneyInv /\ [Next]_vars => MoneyInv'
<1> SUFFICES ASSUME TypeOK, HandlerInv, MoneyInv, [Next]_vars
             PROVE  MoneyInv'
  OBVIOUS
<1>0. outbox \in Seq(Event) /\ payments \in [PaymentId -> Row]
  BY DEF TypeOK
<1> USE DEF RowBacked, EventBacked, RefundedOf
<1>1. ASSUME NEW p \in PaymentId, payments'[p] = payments[p]
      PROVE  RowBacked(p, payments[p])'
  BY <1>1, MoneyStays DEF MoneyInv
<1>2. ASSUME NEW k \in DOMAIN outbox, outbox'[k] = outbox[k]
      PROVE  EventBacked(outbox[k].payment, outbox[k].type)'
  BY <1>2, MoneyStays DEF MoneyInv
<1>3. CASE payments' = payments /\ outbox' = outbox
  BY <1>1, <1>2, <1>3 DEF MoneyInv
<1>4. ASSUME NEW i \in Instance, PrepareCharge(i)
      PROVE  MoneyInv'
  <2>1. outbox' = outbox
    BY <1>4 DEF PrepareCharge
  <2>2. ASSUME NEW p \in PaymentId
        PROVE  RowBacked(p, payments[p])'
    <3>1. payments'[p] \in {payments[p], createPendingChargePayment}
      BY <1>4, PreparePayments
    <3> QED
      BY <1>1, <3>1 DEF createPendingChargePayment
  <2> QED
    BY <1>2, <2>1, <2>2 DEF MoneyInv
<1>5. ASSUME NEW i \in Instance, Completing(i)
      PROVE  MoneyInv'
  <2> DEFINE d == Decide(Msg(i), job[i].result)
             e == [cause |-> Msg(i), type |-> d.event, payment |-> d.id]
  <2>1. job[i].pc = "commit" /\ job[i].result = "ok" => Moved(Msg(i))
    BY <1>5 DEF HandlerInv, ApprovedMoved, Completing
  <2>2. job[i].pc = "commit"
    BY <1>5 DEF Completing
  <2>3. RowBacked(d.id, d.row) /\ EventBacked(d.id, d.event)
    BY <1>5, <2>1, <2>2, CompletionEvent, DecideBacked
  <2>4. /\ outbox' = Append(outbox, e) /\ e \in Event
        /\ e.type = d.event /\ e.payment = d.id
    BY <1>5, CompletionEvent
  <2>5. \A p \in PaymentId :
            payments'[p] = IF p = d.id /\ d.row.status # "NONE"
                           THEN d.row ELSE payments[p]
    BY <1>5, CompletionPayments
  <2> HIDE DEF d, e
  <2>6. ASSUME NEW p \in PaymentId
        PROVE  RowBacked(p, payments[p])'
    BY <1>1, <2>3, <2>5, <2>6, MoneyStays
  <2>7. ASSUME NEW k \in DOMAIN outbox'
        PROVE  EventBacked(outbox[k].payment, outbox[k].type)'
    <3>1. \/ k \in DOMAIN outbox /\ outbox'[k] = outbox[k]
          \/ outbox'[k] = e
      BY <1>0, <2>4, <2>7, Appended
    <3> QED
      BY <1>2, <2>3, <2>4, <3>1, MoneyStays
  <2> QED
    BY <2>6, <2>7 DEF MoneyInv
<1>6. ASSUME NEW i \in Instance, DeadLettering(i)
      PROVE  MoneyInv'
  <2>1. PICK e \in Event : /\ outbox' = Append(outbox, e)
                           /\ e.type = "payment.deadlettered"
    BY <1>6, DeadLetterEvent
  <2>2. payments' = payments
    BY <1>6 DEF DeadLettering
  <2>3. ASSUME NEW k \in DOMAIN outbox'
        PROVE  EventBacked(outbox[k].payment, outbox[k].type)'
    <3>1. \/ k \in DOMAIN outbox /\ outbox'[k] = outbox[k]
          \/ outbox'[k] = e
      BY <1>0, <2>1, <2>3, Appended
    <3> QED
      BY <1>2, <2>1, <3>1
  <2> QED
    BY <1>1, <2>2, <2>3 DEF MoneyInv
<1> QED
  BY <1>3, <1>4, <1>5, <1>6, DatabaseStep DEF database

\* The service reports a charge or a refund only if the provider took or gave
\* back the money.
THEOREM ReportsMatchTheProvider == Spec => []MoneyMoved
<1>1. Init => MoneyInv
  BY DEF Init, MoneyInv, RowBacked, EventBacked, NoRow
<1>2. MoneyInv => MoneyMoved
  BY DEF MoneyInv, RowBacked, EventBacked, RefundedOf, MoneyMoved
<1> QED
  BY <1>1, <1>2, MoneyStep, HandlersKnow, PTL DEF Spec

----------------------------------------------------------------------------
(* The lifecycle of a payment. *)

\* Every step keeps one row per order.
LEMMA OneRowStep == TypeOK /\ OneRowPerOrder /\ [Next]_vars => OneRowPerOrder'
<1> SUFFICES ASSUME TypeOK, OneRowPerOrder, [Next]_vars
             PROVE  OneRowPerOrder'
  OBVIOUS
<1>1. ASSUME NEW i \in Instance, PrepareCharge(i)
      PROVE  OneRowPerOrder'
  BY <1>1, PreparePayments DEF OneRowPerOrder, Exists
<1>2. ASSUME NEW i \in Instance, Completing(i)
      PROVE  OneRowPerOrder'
  <2> DEFINE d == Decide(Msg(i), job[i].result)
  <2>1. /\ d.id \in PaymentId /\ ~OrderTaken(d)
        /\ \A p \in PaymentId :
              payments'[p] = IF p = d.id /\ d.row.status # "NONE"
                             THEN d.row ELSE payments[p]
    BY <1>2, CompletionPayments
  <2> HIDE DEF d
  <2> QED
    BY <2>1 DEF OneRowPerOrder, OrderTaken, Exists
<1> QED
  BY <1>1, <1>2, DatabaseStep DEF database, DeadLettering, OneRowPerOrder, Exists

\* An order has one row.
THEOREM OrdersHaveOneRow == Spec => []OneRowPerOrder
<1>1. Init => OneRowPerOrder
  BY DEF Init, OneRowPerOrder, Exists, NoRow
<1> QED
  BY <1>1, OneRowStep, CommandsTypeCorrect, PTL DEF Spec

\* A completion changes the status of a row along the lifecycle, and inserts
\* no row.
LEMMA DecideFollows ==
    ASSUME TypeOK, NEW m \in Message, Command(m), NEW result \in ProcessorResult,
           ~Raises(m, result), Kind[m] = "charge" => OrderHasRow(m),
           Decide(m, result).row.status # "NONE"
    PROVE  LET d == Decide(m, result)
           IN  \/ d.row.status = payments[d.id].status
               \/ <<payments[d.id].status, d.row.status>> \in Transition
<1> DEFINE p == PaymentOf[m]
           e == findPayment(p)
           d == Decide(m, result)
<1>1. p \in PaymentId
  BY ConstantsAssumption
<1>2. /\ Plan(m) = "call_processor" => result # "none"
      /\ ~OrderTaken(d)
  BY DEF Raises
<1>3. /\ Kind[m] = "charge" => /\ Plan(m) = planCharge(payments[e])
                               /\ d = decideCharge(p, e, payments[e], result)
      /\ Kind[m] = "refund" => /\ Plan(m) = planRefund(payments[e])
                               /\ d = decideRefund(p, e, payments[e], result)
  BY DEF Plan, Decide
<1>4. Kind[m] = "charge" =>
          \E q \in PaymentId : OrderOf[q] = OrderOf[p] /\ Exists(q)
  BY DEF OrderHasRow
<1>5. d.row.status # "NONE"
  OBVIOUS
<1> HIDE DEF d, p
<1>6. /\ e \in PaymentId
      /\ Exists(p) => e = p
  BY <1>1, FindPaymentFacts
<1> HIDE DEF e
<1>7. payments[e] \in Row
  BY <1>6 DEF TypeOK
<1>8. CASE Kind[m] = "charge" /\ planCharge(payments[e]) = "call_processor"
  <2>1. /\ d.id = p /\ d.row.status \in {"CHARGED", "FAILED"}
        /\ payments[e].status \in {"NONE", "PENDING", "FAILED"}
    BY <1>3, <1>8
       DEF decideCharge, decisionFromChargeResult, Decision, planCharge
  <2>2. Exists(p)
    BY <1>2, <1>4, <1>8, <2>1 DEF OrderTaken
  <2>3. payments[p].status \in {"PENDING", "FAILED"}
    BY <1>6, <2>1, <2>2 DEF Exists
  <2>4. \/ d.row.status = payments[d.id].status
        \/ <<payments[d.id].status, d.row.status>> \in Transition
    BY <2>1, <2>3 DEF Transition
  <2> QED
    BY <2>4 DEF d
<1>9. CASE Kind[m] = "charge" /\ planCharge(payments[e]) # "call_processor"
  <2>1. d.id = e /\ d.row = payments[e]
    BY <1>3, <1>9
       DEF decideCharge, replayCharged, rejectIllegalChargeStatus, Decision
  <2> QED
    BY <2>1 DEF d
<1>10. CASE Kind[m] = "refund"
  <2>1. /\ d.id = e
        /\ \/ d.row.status = payments[e].status
           \/ /\ payments[e].status = "CHARGED"
              /\ d.row.status \in {"REFUNDED", "REFUND_FAILED"}
           \/ /\ payments[e].status \in {"PENDING", "FAILED", "REFUND_FAILED"}
              /\ d.row.status = "REFUND_FAILED"
    BY <1>3, <1>5, <1>7, <1>10
       DEF decideRefund, planRefund, decisionFromRefundResult, refundNotFound,
           replayRefunded, rejectIllegalRefundStatus, Decision, Row,
           PaymentStatus, NoRow
  <2>2. \/ d.row.status = payments[d.id].status
        \/ <<payments[d.id].status, d.row.status>> \in Transition
    BY <2>1 DEF Transition
  <2> QED
    BY <2>2 DEF d
<1> QED
  BY <1>8, <1>9, <1>10 DEF Command

\* A step that changes a status follows the lifecycle.
LEMMA LifecycleStep ==
    ASSUME TypeOK, HandlerInv, [Next]_vars, NEW p \in PaymentId,
           payments'[p].status # payments[p].status
    PROVE  <<payments[p].status, payments'[p].status>> \in Transition
<1>1. ASSUME NEW i \in Instance, PrepareCharge(i)
      PROVE  <<payments[p].status, payments'[p].status>> \in Transition
  <2>1. payments[p].status = "NONE" /\ payments'[p] = createPendingChargePayment
    BY <1>1, PreparePayments DEF Exists
  <2> QED
    BY <2>1 DEF createPendingChargePayment, Transition
<1>2. ASSUME NEW i \in Instance, Completing(i)
      PROVE  <<payments[p].status, payments'[p].status>> \in Transition
  <2> DEFINE d == Decide(Msg(i), job[i].result)
  <2>1. /\ Msg(i) \in Message /\ Command(Msg(i))
        /\ job[i].result \in ProcessorResult
        /\ p = d.id /\ d.row.status # "NONE" /\ payments'[p] = d.row
    BY <1>2, CompletionPayments
  <2>2. ~Raises(Msg(i), job[i].result)
    BY <1>2 DEF Completing
  <2>3. Kind[Msg(i)] = "charge" => OrderHasRow(Msg(i))
    BY <1>2 DEF Completing, HandlerInv, ChargePrepared
  <2> QED
    BY <2>1, <2>2, <2>3, DecideFollows
<1> QED
  BY <1>1, <1>2, DatabaseStep DEF database, DeadLettering

\* The status of a payment moves only along the lifecycle.
THEOREM StatusFollowsLifecycle == Spec => PaymentLifecycle
<1>1. TypeOK /\ HandlerInv /\ [Next]_vars =>
        [\A p \in PaymentId :
           payments'[p].status # payments[p].status =>
              <<payments[p].status, payments'[p].status>> \in Transition]_vars
  BY LifecycleStep
<1> QED
  BY <1>1, HandlersKnow, PTL DEF Spec, PaymentLifecycle
----------------------------------------------------------------------------
(* The attempts of a payment. *)

\* S has one element when it should have one, and none otherwise.
Exactly(S, one) == IF one THEN \E k : S = {k} ELSE S = {}

\* The attempts that succeeded are those the rows tell of.  The time of a
\* charge is set with the status and no retry or failure keeps it.
TrailInv ==
    \A p \in PaymentId :
        /\ payments[p].status \in {"NONE", "PENDING", "FAILED"} =>
              ~payments[p].chargedAt
        /\ Exactly(Successes(p, "charge"), payments[p].chargedAt)
        /\ Exactly(Successes(p, "refund"), payments[p].status = "REFUNDED")

\* A decision records a success with the change of the row it stands for, and
\* makes that change in no other way.
LEMMA DecideRecords ==
    ASSUME TypeOK, MoneyInv, TrailInv,
           NEW m \in Message, Command(m), NEW result \in ProcessorResult,
           ~Raises(m, result), Kind[m] = "charge" => OrderHasRow(m)
    PROVE  LET d   == Decide(m, result)
               old == payments[d.id]
               new == IF d.row.status = "NONE" THEN old ELSE d.row
           IN  /\ new.status \in {"NONE", "PENDING", "FAILED"} => ~new.chargedAt
               /\ IF d.attempt = "SUCCEEDED" /\ Kind[m] = "charge"
                  THEN ~old.chargedAt /\ new.chargedAt
                  ELSE new.chargedAt = old.chargedAt
               /\ IF d.attempt = "SUCCEEDED" /\ Kind[m] = "refund"
                  THEN old.status # "REFUNDED" /\ new.status = "REFUNDED"
                  ELSE new.status = "REFUNDED" <=> old.status = "REFUNDED"
<1> DEFINE p == PaymentOf[m]
           e == findPayment(p)
           d == Decide(m, result)
<1> DEFINE Recorded(b, h) ==
              LET old == payments[b.id]
                  new == IF b.row.status = "NONE" THEN old ELSE b.row
              IN  /\ new.status \in {"NONE", "PENDING", "FAILED"} => ~new.chargedAt
                  /\ IF b.attempt = "SUCCEEDED" /\ h = "charge"
                     THEN ~old.chargedAt /\ new.chargedAt
                     ELSE new.chargedAt = old.chargedAt
                  /\ IF b.attempt = "SUCCEEDED" /\ h = "refund"
                     THEN old.status # "REFUNDED" /\ new.status = "REFUNDED"
                     ELSE new.status = "REFUNDED" <=> old.status = "REFUNDED"
<1> SUFFICES Recorded(d, Kind[m])
  OBVIOUS
<1>1. p \in PaymentId
  BY ConstantsAssumption
<1>2. /\ Plan(m) = "call_processor" => result # "none"
      /\ ~OrderTaken(d)
  BY DEF Raises
<1>3. /\ Kind[m] = "charge" => /\ Plan(m) = planCharge(payments[e])
                               /\ d = decideCharge(p, e, payments[e], result)
      /\ Kind[m] = "refund" => /\ Plan(m) = planRefund(payments[e])
                               /\ d = decideRefund(p, e, payments[e], result)
  BY DEF Plan, Decide
<1>4. Kind[m] = "charge" =>
          \E q \in PaymentId : OrderOf[q] = OrderOf[p] /\ Exists(q)
  BY DEF OrderHasRow
<1> HIDE DEF d, p
<1>6. /\ e \in PaymentId
      /\ Exists(p) => e = p
      /\ ~Exists(e) => ~Exists(p)
  BY <1>1, FindPaymentFacts
<1> HIDE DEF e
<1>7. /\ payments[e] \in Row
      /\ payments[e].status \in {"NONE", "PENDING", "FAILED"} =>
            ~payments[e].chargedAt
      /\ payments[e].status = "CHARGED" => payments[e].chargedAt
  BY <1>6 DEF TypeOK, TrailInv, MoneyInv, RowBacked
<1>8. CASE Kind[m] = "charge" /\ planCharge(payments[e]) = "call_processor"
  <2>1. /\ d.id = p
        /\ payments[e].status \in {"NONE", "PENDING", "FAILED"}
        /\ \/ /\ d.attempt = "SUCCEEDED" /\ d.row.status = "CHARGED"
              /\ d.row.chargedAt = TRUE
           \/ /\ d.attempt = "FAILED" /\ d.row.status = "FAILED"
              /\ d.row.chargedAt = FALSE
    <3>1. d = decisionFromChargeResult(p, result)
      BY <1>3, <1>8 DEF decideCharge
    <3>2. payments[e].status \in {"NONE", "PENDING", "FAILED"}
      BY <1>8 DEF planCharge
    <3>3. CASE result = "ok"
      BY <3>1, <3>2, <3>3 DEF decisionFromChargeResult, Decision
    <3>4. CASE result # "ok"
      BY <3>1, <3>2, <3>4 DEF decisionFromChargeResult, Decision
    <3> QED
      BY <3>3, <3>4
  <2>2. Exists(p)
    BY <1>2, <1>4, <1>8, <2>1 DEF OrderTaken
  <2>3. payments[p].chargedAt = FALSE /\ payments[p].status \in {"PENDING", "FAILED"}
    BY <1>6, <1>7, <2>1, <2>2 DEF Row, Exists
  <2> QED
    BY <1>8, <2>1, <2>3
<1>9. CASE Kind[m] = "charge" /\ planCharge(payments[e]) # "call_processor"
  <2>1. d.id = e /\ d.row = payments[e] /\ d.attempt \in {"none", "FAILED"}
    BY <1>3, <1>9
       DEF decideCharge, replayCharged, rejectIllegalChargeStatus, Decision
  <2> QED
    BY <1>7, <1>9, <2>1
<1>10. CASE Kind[m] = "refund" /\ payments[e].status = "NONE"
  <2>1. d.id = p /\ d.row.status = "NONE" /\ d.attempt = "none"
    BY <1>3, <1>10
       DEF decideRefund, planRefund, refundNotFound, Decision, NoRow
  <2>2. payments[p].status = "NONE"
    BY <1>6, <1>10 DEF Exists
  <2>3. ~payments[p].chargedAt
    BY <1>1, <2>2 DEF TrailInv
  <2> QED
    BY <1>10, <2>1, <2>2, <2>3
<1>11. CASE Kind[m] = "refund" /\ payments[e].status # "NONE"
  <2>1. /\ d.id = e
        /\ d.row.chargedAt = payments[e].chargedAt
        /\ \/ /\ d.attempt = "SUCCEEDED" /\ d.row.status = "REFUNDED"
              /\ payments[e].status = "CHARGED"
           \/ /\ d.attempt = "FAILED" /\ d.row.status = "REFUND_FAILED"
              /\ payments[e].status # "REFUNDED"
           \/ /\ d.attempt = "none" /\ d.row.status = "REFUNDED"
              /\ payments[e].status = "REFUNDED"
    BY <1>3, <1>7, <1>11
       DEF decideRefund, planRefund, decisionFromRefundResult, replayRefunded,
           rejectIllegalRefundStatus, Decision, Row
  <2> QED
    BY <1>11, <2>1
<1> QED
  BY <1>8, <1>9, <1>10, <1>11 DEF Command

\* An attempt that is added is one more success of its own payment and type,
\* or of none.
LEMMA SuccessAdded ==
    ASSUME attempts \in Seq(Attempt), NEW a \in Attempt,
           attempts' = Append(attempts, a), NEW p, NEW type
    PROVE  LET this == a = [payment |-> p, type |-> type, status |-> "SUCCEEDED"]
           IN  /\ ~this => Successes(p, type)' = Successes(p, type)
               /\ this /\ Successes(p, type) = {} =>
                     \E k : Successes(p, type)' = {k}
<1> DEFINE n == Len(attempts) + 1
<1>1. /\ DOMAIN attempts' = DOMAIN attempts \cup {n}
      /\ n \notin DOMAIN attempts
      /\ attempts'[n] = a
      /\ \A k \in DOMAIN attempts : attempts'[k] = attempts[k]
  <2>1. /\ DOMAIN attempts = 1..Len(attempts) /\ Len(attempts) \in Nat
        /\ DOMAIN attempts' = 1..n
        /\ attempts'[n] = a
        /\ \A k \in 1..Len(attempts) : attempts'[k] = attempts[k]
    OBVIOUS
  <2> QED
    BY <2>1
<1> DEFINE this == [payment |-> p, type |-> type, status |-> "SUCCEEDED"]
<1>2. /\ Successes(p, type) = {k \in DOMAIN attempts : attempts[k] = this}
      /\ Successes(p, type)' = {k \in DOMAIN attempts' : attempts'[k] = this}
  BY DEF Successes
<1> HIDE DEF n, this
<1>3. a # this => Successes(p, type)' = Successes(p, type)
  BY <1>1, <1>2
<1>4. a = this /\ Successes(p, type) = {} => Successes(p, type)' = {n}
  BY <1>1, <1>2
<1> QED
  BY <1>3, <1>4 DEF this

\* Every step keeps the attempts in agreement with the rows.
LEMMA TrailStep ==
    TypeOK /\ HandlerInv /\ MoneyInv /\ TrailInv /\ [Next]_vars => TrailInv'
<1> SUFFICES ASSUME TypeOK, HandlerInv, MoneyInv, TrailInv, [Next]_vars
             PROVE  TrailInv'
  OBVIOUS
<1>0. attempts \in Seq(Attempt) /\ payments \in [PaymentId -> Row]
  BY DEF TypeOK
<1>1. ASSUME payments' = payments, attempts' = attempts
      PROVE  TrailInv'
  BY <1>1 DEF TrailInv, Successes
<1>2. ASSUME NEW i \in Instance, PrepareCharge(i)
      PROVE  TrailInv'
  <2>1. attempts' = attempts
    BY <1>2 DEF PrepareCharge
  <2>2. \A p \in PaymentId :
            \/ payments'[p] = payments[p]
            \/ /\ payments[p].status = "NONE"
               /\ payments'[p] = createPendingChargePayment
    BY <1>2, PreparePayments DEF Exists
  <2>3. \A p, type : Successes(p, type)' = Successes(p, type)
    BY <2>1 DEF Successes
  <2>4. \A p \in PaymentId :
            /\ payments'[p].chargedAt = payments[p].chargedAt
            /\ payments'[p].status = "REFUNDED" <=> payments[p].status = "REFUNDED"
            /\ payments'[p].status \in {"NONE", "PENDING", "FAILED"} =>
                  payments[p].status \in {"NONE", "PENDING", "FAILED"}
    <3>1. ASSUME NEW p \in PaymentId, payments[p].status = "NONE",
                 payments'[p] = createPendingChargePayment
          PROVE  /\ payments[p].chargedAt = FALSE
                 /\ payments'[p].chargedAt = FALSE
                 /\ payments'[p].status = "PENDING"
      BY <1>0, <3>1 DEF TrailInv, createPendingChargePayment, Row
    <3> QED
      BY <2>2, <3>1
  <2> QED
    BY <2>3, <2>4 DEF TrailInv, Exactly
<1>3. ASSUME NEW i \in Instance, Completing(i)
      PROVE  TrailInv'
  <2> DEFINE m == Msg(i)
             d == Decide(m, job[i].result)
             a == [payment |-> d.id, type |-> Kind[m], status |-> d.attempt]
             old == payments[d.id]
             new == IF d.row.status = "NONE" THEN old ELSE d.row
  <2>1. /\ m \in Message /\ Command(m) /\ job[i].result \in ProcessorResult
        /\ d.id \in PaymentId
        /\ \A p \in PaymentId :
              payments'[p] = IF p = d.id /\ d.row.status # "NONE"
                             THEN d.row ELSE payments[p]
    BY <1>3, CompletionPayments
  <2>2. ~Raises(m, job[i].result) /\ recordAttempt(m, d)
    BY <1>3 DEF Completing, Completes
  <2>3. Kind[m] = "charge" => OrderHasRow(m)
    BY <1>3 DEF Completing, HandlerInv, ChargePrepared
  <2>4. /\ new.status \in {"NONE", "PENDING", "FAILED"} => ~new.chargedAt
        /\ IF d.attempt = "SUCCEEDED" /\ Kind[m] = "charge"
           THEN ~old.chargedAt /\ new.chargedAt
           ELSE new.chargedAt = old.chargedAt
        /\ IF d.attempt = "SUCCEEDED" /\ Kind[m] = "refund"
           THEN old.status # "REFUNDED" /\ new.status = "REFUNDED"
           ELSE new.status = "REFUNDED" <=> old.status = "REFUNDED"
    BY <2>1, <2>2, <2>3, DecideRecords
  <2>5. d.attempt \in AttemptStatus \cup {"none"}
    BY <2>1, <1>0, DecideType
  <2>6. attempts' = IF d.attempt = "none" THEN attempts ELSE Append(attempts, a)
    BY <2>2 DEF recordAttempt
  <2>7. d.attempt # "none" => a \in Attempt
    BY <2>1, <2>5 DEF Attempt, AttemptType, Command
  <2>8. \A p, type :
           LET this == a = [payment |-> p, type |-> type, status |-> "SUCCEEDED"]
           IN  this <=> p = d.id /\ type = Kind[m] /\ d.attempt = "SUCCEEDED"
    <3> HIDE DEF d, m
    <3> QED
      OBVIOUS
  <2> HIDE DEF a
  <2>9. ASSUME NEW p \in PaymentId, NEW type \in AttemptType
        PROVE  LET this == p = d.id /\ type = Kind[m] /\ d.attempt = "SUCCEEDED"
               IN  /\ ~this => Successes(p, type)' = Successes(p, type)
                   /\ this /\ Successes(p, type) = {} =>
                         \E k : Successes(p, type)' = {k}
    <3>1. CASE d.attempt = "none"
      BY <2>6, <3>1 DEF Successes
    <3>2. CASE d.attempt # "none"
      <4>1. a \in Attempt /\ attempts' = Append(attempts, a)
        BY <2>6, <2>7, <3>2
      <4>2. LET this == a = [payment |-> p, type |-> type, status |-> "SUCCEEDED"]
            IN  /\ ~this => Successes(p, type)' = Successes(p, type)
                /\ this /\ Successes(p, type) = {} =>
                      \E k : Successes(p, type)' = {k}
        BY <1>0, <4>1, SuccessAdded
      <4> QED
        BY <2>8, <4>2
    <3> QED
      BY <3>1, <3>2
  <2> HIDE DEF d, m
  <2>10. \A p \in PaymentId : payments'[p] = IF p = d.id THEN new ELSE payments[p]
    BY <2>1
  <2>11. /\ Exactly(Successes(d.id, "charge"), old.chargedAt)
         /\ Exactly(Successes(d.id, "refund"), old.status = "REFUNDED")
    BY <2>1 DEF TrailInv
  <2> HIDE DEF old, new
  <2>12. ASSUME NEW p \in PaymentId
         PROVE  /\ payments'[p].status \in {"NONE", "PENDING", "FAILED"} =>
                      ~payments'[p].chargedAt
                /\ Exactly(Successes(p, "charge")', payments'[p].chargedAt)
                /\ Exactly(Successes(p, "refund")', payments'[p].status = "REFUNDED")
    <3>1. CASE p # d.id
      BY <2>9, <2>10, <3>1 DEF TrailInv, AttemptType
    <3>2. CASE p = d.id
      <4>1. Exactly(Successes(p, "charge")', new.chargedAt)
        BY <2>4, <2>9, <2>11, <3>2 DEF Exactly, AttemptType
      <4>2. Exactly(Successes(p, "refund")', new.status = "REFUNDED")
        BY <2>4, <2>9, <2>11, <3>2 DEF Exactly, AttemptType
      <4> QED
        BY <2>4, <2>10, <3>2, <4>1, <4>2
    <3> QED
      BY <3>1, <3>2
  <2> QED
    BY <2>12 DEF TrailInv, Exactly
<1> QED
  BY <1>1, <1>2, <1>3, DatabaseStep DEF database, DeadLettering

\* The attempts table agrees with the payments table, however the commands
\* raced: a success is recorded once, in the transaction that changes the row.
THEOREM AttemptsMatchTheRows == Spec => []AttemptTrail
<1>1. Init => TrailInv
  BY DEF Init, TrailInv, Exactly, Successes, NoRow
<1>2. Init => MoneyInv
  BY DEF Init, MoneyInv, RowBacked, EventBacked, NoRow
<1>3. TrailInv => AttemptTrail
  BY FS_EmptySet, FS_Singleton DEF TrailInv, Exactly, AttemptTrail
<1> QED
  BY <1>1, <1>2, <1>3, TrailStep, MoneyStep, HandlersKnow, PTL DEF Spec
============================================================================
