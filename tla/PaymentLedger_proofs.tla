------------------------ MODULE PaymentLedger_proofs ------------------------
(***************************************************************************)
(* Proofs that PaymentCommands implements PaymentLedger, and about what    *)
(* the saga reads in the outbox: one dead letter per message, and a        *)
(* history of each payment that makes sense.                               *)
(***************************************************************************)
EXTENDS PaymentMoney_proofs

----------------------------------------------------------------------------
(* Dead letters. *)

Told(m) == \E k \in DOMAIN outbox : DeadLetter(k) /\ outbox[k].cause = m

\* The dead letters in the outbox are those of the table.
DeadLetterInv ==
    /\ OneDeadLetterPerMessage
    /\ \A m \in Message : Told(m) <=> deadLetters[m] > 0

\* Every step adds the row of a dead letter and its event together.
LEMMA DeadLetterStep ==
    TypeOK /\ DeadLetterInv /\ [Next]_vars => DeadLetterInv'
<1> SUFFICES ASSUME TypeOK, DeadLetterInv, [Next]_vars
             PROVE  DeadLetterInv'
  OBVIOUS
<1>0. outbox \in Seq(Event) /\ deadLetters \in [Message -> Nat]
  BY DEF TypeOK
<1> USE DEF Told, DeadLetter
<1>1. ASSUME outbox' = outbox, deadLetters' = deadLetters
      PROVE  DeadLetterInv'
  BY <1>1 DEF DeadLetterInv, OneDeadLetterPerMessage
<1>2. ASSUME NEW i \in Instance, Completing(i)
      PROVE  DeadLetterInv'
  <2>1. PICK e \in Event : /\ outbox' = Append(outbox, e)
                           /\ e.type # "payment.deadlettered"
    BY <1>2, CompletionEvent DEF ResultType
  <2>2. deadLetters' = deadLetters
    BY <1>2 DEF Completing, Completes
  <2> QED
    BY <1>0, <2>1, <2>2, Appended DEF DeadLetterInv, OneDeadLetterPerMessage
<1>3. ASSUME NEW i \in Instance, DeadLettering(i)
      PROVE  DeadLetterInv'
  <2> DEFINE m == Msg(i)
  <2>1. PICK e \in Event : /\ outbox' = Append(outbox, e)
                           /\ e.type = "payment.deadlettered"
                           /\ e.cause = m
    BY <1>3, DeadLetterEvent
  <2>2. m \in Message
    BY <1>3, DeadLetterEvent
  <2>3. /\ HasMessageId(m) => ~(deadLetters[m] > 0)
        /\ deadLetters' = [deadLetters EXCEPT ![m] = @ + 1]
    BY <1>3 DEF DeadLettering, DeadLetterIsNew, DeadLetterExists, Namesakes
  <2> HIDE DEF m
  <2>4. \A n \in Message : deadLetters'[n] =
                              IF n = m THEN deadLetters[m] + 1 ELSE deadLetters[n]
    BY <1>0, <2>2, <2>3
  <2>5. /\ deadLetters[m] \in Nat
        /\ HasMessageId(m) => deadLetters[m] = 0 /\ ~Told(m)
    BY <1>0, <2>2, <2>3 DEF DeadLetterInv
  <2>6. \A n \in Message : Told(n)' <=> n = m \/ Told(n)
    BY <1>0, <2>1, Appended
  <2>7. \A n \in Message : Told(n)' <=> deadLetters'[n] > 0
    BY <2>4, <2>5, <2>6 DEF DeadLetterInv
  <2>8. \A n \in Message : HasMessageId(n) => deadLetters'[n] <= 1
    BY <2>4, <2>5 DEF DeadLetterInv, OneDeadLetterPerMessage
  <2>9. ASSUME NEW k \in DOMAIN outbox', NEW l \in DOMAIN outbox',
               DeadLetter(k)', DeadLetter(l)',
               outbox'[k].cause = outbox'[l].cause,
               HasMessageId(outbox'[k].cause)
        PROVE  k = l
    BY <1>0, <2>1, <2>5, <2>9, Appended DEF DeadLetterInv, OneDeadLetterPerMessage
  <2> QED
    BY <2>7, <2>8, <2>9 DEF DeadLetterInv, OneDeadLetterPerMessage
<1> QED
  BY <1>1, <1>2, <1>3, DatabaseStep DEF database, PrepareCharge

\* The outbox has the dead letters of the table in every reachable state.
LEMMA DeadLettersKnown == Spec => []DeadLetterInv
<1>1. Init => DeadLetterInv
  BY DEF Init, DeadLetterInv, OneDeadLetterPerMessage, Told
<1> QED
  BY <1>1, DeadLetterStep, CommandsTypeCorrect, PTL DEF Spec

\* A message with an id has at most one dead letter, as a row and as an event,
\* however often it is delivered.
THEOREM MessagesDieOnce == Spec => []OneDeadLetterPerMessage
<1>1. DeadLetterInv => OneDeadLetterPerMessage
  BY DEF DeadLetterInv
<1> QED
  BY <1>1, DeadLettersKnown, PTL

----------------------------------------------------------------------------
(* The replicas implement the ledger. *)

Asked(i) ==
    /\ job[i].pc = "provider"
    /\ \E result \in {"ok", "declined"} : Request(Msg(i), result)

\* A step moves money, or changes the database, or does neither.
LEMMA StepKinds ==
    ASSUME [Next]_vars
    PROVE  \/ UNCHANGED <<database, provider>>
           \/ UNCHANGED database /\ \E i \in Instance : Asked(i)
           \/ /\ UNCHANGED provider
              /\ \E i \in Instance : \/ PrepareCharge(i)
                                     \/ Completing(i)
                                     \/ DeadLettering(i)
<1>1. ASSUME NEW i \in Instance, CallProcessor(i) \/ CallProcessorFails(i)
      PROVE  UNCHANGED database /\ (UNCHANGED provider \/ Asked(i))
  BY <1>1 DEF CallProcessor, CallProcessorFails, Asked
<1>2. \/ UNCHANGED provider
      \/ \E i \in Instance : CallProcessor(i) \/ CallProcessorFails(i)
  BY DEF Next, Handle, Fault, Fetch, PrepareCharge, PrepareRefund,
         CommitCharge, CommitRefund, Commit, recordDeadLetter, NewDeadLetter,
         DeadLetterRaises,
         Acknowledge, TransactionAborts, AcknowledgeFails,
         Crash, Rebalance, Stabilise, vars
<1> QED
  BY <1>1, <1>2, DatabaseStep

\* What a completed charge says: the ledger's Charged or Failed, at the payment
\* it names.
LEMMA ChargeAnswers ==
    ASSUME TypeOK, MoneyInv, NEW m \in Message, Kind[m] = "charge",
           NEW result \in ProcessorResult, ~Raises(m, result),
           result = "ok" => Moved(m), OrderHasRow(m)
    PROVE  LET d   == Decide(m, result)
               old == payments[d.id].status
               new == d.row.status
           IN  /\ OrderOf[d.id] = OrderOf[PaymentOf[m]]
               /\ new # "NONE"
               /\ \/ /\ d.event = "payment.charged"
                     /\ old \in {"NONE", "PENDING", "FAILED", "CHARGED"}
                     /\ new = "CHARGED"
                     /\ d.id \in captured
                  \/ /\ d.event = "payment.failed"
                     /\ old \in {"NONE", "PENDING", "FAILED"}
                     /\ new = "FAILED"
                  \/ /\ d.event = "payment.failed"
                     /\ old \in {"REFUNDED", "REFUND_FAILED"}
                     /\ new = old
<1> DEFINE p == PaymentOf[m]
           e == findPayment(p)
           d == Decide(m, result)
<1>1. p \in PaymentId
  BY ConstantsAssumption
<1>2. d = decideCharge(p, e, payments[e], result)
  BY DEF Decide
<1>3. /\ planCharge(payments[e]) = "call_processor" => result # "none"
      /\ ~OrderTaken(d)
  BY DEF Raises, Plan
<1>4. \E q \in PaymentId : OrderOf[q] = OrderOf[p] /\ Exists(q)
  BY DEF OrderHasRow
<1>5. result = "ok" => p \in captured
  BY DEF Moved
<1> HIDE DEF d, p
<1>6. /\ e \in PaymentId /\ OrderOf[e] = OrderOf[p] /\ Exists(e)
      /\ Exists(p) => e = p
  BY <1>1, <1>4, FindPaymentFacts
<1> HIDE DEF e
<1>7. payments[e] \in Row /\ RowBacked(e, payments[e])
  BY <1>6 DEF TypeOK, MoneyInv
<1>8. CASE planCharge(payments[e]) = "call_processor"
  <2>1. /\ d.id = p
        /\ payments[e].status \in {"PENDING", "FAILED"}
        /\ \/ result = "ok" /\ d.row.status = "CHARGED" /\ d.event = "payment.charged"
           \/ d.row.status = "FAILED" /\ d.event = "payment.failed"
    BY <1>2, <1>6, <1>8
       DEF decideCharge, decisionFromChargeResult, Decision, planCharge, Exists
  <2>2. Exists(p)
    BY <1>3, <1>4, <2>1 DEF OrderTaken
  <2> QED
    BY <1>5, <1>6, <2>1, <2>2 DEF d, p
<1>9. CASE payments[e].status = "CHARGED"
  <2>1. d = [id |-> e, row |-> payments[e], attempt |-> "none",
             event |-> "payment.charged"]
    BY <1>2, <1>9 DEF decideCharge, planCharge, replayCharged, Decision
  <2> QED
    BY <1>6, <1>7, <1>9, <2>1 DEF RowBacked, d, p
<1>10. CASE payments[e].status \in {"REFUNDED", "REFUND_FAILED"}
  <2>1. d = [id |-> e, row |-> payments[e], attempt |-> "FAILED",
             event |-> "payment.failed"]
    BY <1>2, <1>10
       DEF decideCharge, planCharge, rejectIllegalChargeStatus, Decision
  <2> QED
    BY <1>6, <1>10, <2>1 DEF d, p
<1> QED
  BY <1>6, <1>7, <1>8, <1>9, <1>10 DEF planCharge, Row, PaymentStatus, Exists

\* What a completed refund says: the ledger's Refunded or RefundFailed.
LEMMA RefundAnswers ==
    ASSUME TypeOK, MoneyInv, NEW m \in Message, Kind[m] = "refund",
           NEW result \in ProcessorResult, ~Raises(m, result),
           result = "ok" => Moved(m)
    PROVE  LET d   == Decide(m, result)
               old == payments[d.id].status
               new == d.row.status
           IN  /\ OrderOf[d.id] = OrderOf[PaymentOf[m]]
               /\ \/ /\ d.event = "payment.refunded"
                     /\ old \in {"CHARGED", "REFUNDED"}
                     /\ new = "REFUNDED"
                     /\ RefundedOf(d.id)
                  \/ /\ d.event = "payment.refund.failed"
                     /\ old \in {"PENDING", "FAILED", "CHARGED", "REFUND_FAILED"}
                     /\ new = "REFUND_FAILED"
                  \/ /\ d.event = "payment.refund.failed"
                     /\ \A q \in PaymentId : OrderOf[q] = OrderOf[d.id] => ~Exists(q)
                     /\ new = "NONE"
<1> DEFINE p == PaymentOf[m]
           e == findPayment(p)
           d == Decide(m, result)
<1>1. p \in PaymentId
  BY ConstantsAssumption
<1>2. d = decideRefund(p, e, payments[e], result)
  BY DEF Decide
<1>3. planRefund(payments[e]) = "call_processor" => result # "none"
  BY DEF Raises, Plan
<1>4. result = "ok" => p \in returned
  BY DEF Moved
<1> HIDE DEF d, p
<1>5. /\ e \in PaymentId /\ OrderOf[e] = OrderOf[p]
      /\ \A q \in PaymentId : OrderOf[q] = OrderOf[p] /\ Exists(q) => Exists(e)
  BY <1>1, FindPaymentFacts
<1> HIDE DEF e
<1>6. payments[e] \in Row /\ RowBacked(e, payments[e])
  BY <1>5 DEF TypeOK, MoneyInv
<1>7. CASE payments[e].status = "NONE"
  <2>1. d = [id |-> p, row |-> NoRow, attempt |-> "none",
             event |-> "payment.refund.failed"]
    BY <1>2, <1>7 DEF decideRefund, planRefund, refundNotFound, Decision
  <2>2. \A q \in PaymentId : OrderOf[q] = OrderOf[p] => ~Exists(q)
    BY <1>5, <1>7 DEF Exists
  <2> QED
    BY <2>1, <2>2 DEF NoRow, d, p
<1>8. CASE payments[e].status = "REFUNDED"
  <2>1. d = [id |-> e, row |-> payments[e], attempt |-> "none",
             event |-> "payment.refunded"]
    BY <1>2, <1>8 DEF decideRefund, planRefund, replayRefunded, Decision
  <2> QED
    BY <1>5, <1>6, <1>8, <2>1 DEF RowBacked, d, p
<1>9. CASE payments[e].status = "CHARGED"
  <2>1. /\ d.id = e
        /\ \/ /\ result = "ok" /\ d.row.status = "REFUNDED"
              /\ d.event = "payment.refunded"
           \/ d.row.status = "REFUND_FAILED" /\ d.event = "payment.refund.failed"
    BY <1>2, <1>6, <1>9
       DEF decideRefund, decisionFromRefundResult, Decision, planRefund, Row
  <2>2. result = "ok" => RefundedOf(e)
    BY <1>4, <1>5 DEF RefundedOf
  <2> QED
    BY <1>5, <1>9, <2>1, <2>2 DEF d, p
<1>10. CASE payments[e].status \in {"PENDING", "FAILED", "REFUND_FAILED"}
  <2>1. /\ d.id = e /\ d.row.status = "REFUND_FAILED"
        /\ d.event = "payment.refund.failed"
    BY <1>2, <1>6, <1>10
       DEF decideRefund, rejectIllegalRefundStatus, Decision, planRefund, Row
  <2> QED
    BY <1>5, <1>10, <2>1 DEF d, p
<1> QED
  BY <1>6, <1>7, <1>8, <1>9, <1>10 DEF Row, PaymentStatus

\* The ledger's view of the rows.
statuses == [p \in PaymentId |-> payments[p].status]

\* A completion is an answer of the ledger.
LEMMA CompletingAnswers ==
    ASSUME TypeOK, HandlerInv, MoneyInv, UNCHANGED provider,
           NEW i \in Instance, Completing(i)
    PROVE  Ledger!Next
<1> DEFINE m == Msg(i)
           d == Decide(m, job[i].result)
<1>1. /\ m \in Message /\ Command(m) /\ job[i].result \in ProcessorResult
      /\ d.id \in PaymentId /\ d.row \in Row
      /\ \A p \in PaymentId :
            payments'[p] = IF p = d.id /\ d.row.status # "NONE"
                           THEN d.row ELSE payments[p]
  BY CompletionPayments
<1>2. /\ outbox' = Append(outbox, [cause |-> m, type |-> d.event, payment |-> d.id])
      /\ inbox' = inbox \cup {m}
      /\ m \notin inbox
  BY CompletionEvent DEF Completing, Duplicate
<1>3. captured' = captured /\ returned' = returned
  BY DEF provider
<1>4. /\ ~Raises(m, job[i].result)
      /\ job[i].result = "ok" => Moved(m)
      /\ Kind[m] = "charge" => OrderHasRow(m)
  BY DEF Completing, HandlerInv, ApprovedMoved, ChargePrepared
<1> DEFINE old == payments[d.id].status
           new == d.row.status
<1>5. Kind[m] = "charge" =>
        /\ OrderOf[d.id] = OrderOf[PaymentOf[m]]
        /\ new # "NONE"
        /\ \/ /\ d.event = "payment.charged"
              /\ old \in {"NONE", "PENDING", "FAILED", "CHARGED"}
              /\ new = "CHARGED"
              /\ d.id \in captured
           \/ /\ d.event = "payment.failed"
              /\ old \in {"NONE", "PENDING", "FAILED"}
              /\ new = "FAILED"
           \/ /\ d.event = "payment.failed"
              /\ old \in {"REFUNDED", "REFUND_FAILED"}
              /\ new = old
  BY <1>1, <1>4, ChargeAnswers
<1>6. Kind[m] = "refund" =>
        /\ OrderOf[d.id] = OrderOf[PaymentOf[m]]
        /\ \/ /\ d.event = "payment.refunded"
              /\ old \in {"CHARGED", "REFUNDED"}
              /\ new = "REFUNDED"
              /\ RefundedOf(d.id)
           \/ /\ d.event = "payment.refund.failed"
              /\ old \in {"PENDING", "FAILED", "CHARGED", "REFUND_FAILED"}
              /\ new = "REFUND_FAILED"
           \/ /\ d.event = "payment.refund.failed"
              /\ \A q \in PaymentId : OrderOf[q] = OrderOf[d.id] => ~Exists(q)
              /\ new = "NONE"
  BY <1>1, <1>4, RefundAnswers
<1> HIDE DEF d, m
<1>n. PICK n \in Message : n = m
  BY <1>1
<1>t. PICK t \in PaymentId : t = d.id
  BY <1>1
<1>7. /\ statuses[d.id] = old
      /\ new # "NONE" => statuses' = [statuses EXCEPT ![d.id] = new]
      /\ new = "NONE" \/ new = old => statuses' = statuses
  BY <1>1 DEF statuses
<1>8. \A q \in PaymentId : Exists(q) <=> statuses[q] # "NONE"
  BY DEF Exists, statuses
<1>9. RefundedOf(d.id) =>
        \E q \in returned : OrderOf[q] = OrderOf[d.id]
  BY DEF RefundedOf
<1> HIDE DEF old, new
<1> USE DEF Ledger!Answer, Ledger!Tell, Ledger!Becomes
<1>10. CASE Kind[m] = "charge"
  <2>1. CASE d.event = "payment.charged"
    <3>1. Ledger!Charged(n, t)
      BY <1>n, <1>t, <1>2, <1>3, <1>5, <1>7, <1>10, <2>1 DEF Ledger!Charged, statuses
    <3> QED
      BY <3>1 DEF Ledger!Next
  <2>2. CASE d.event = "payment.failed"
    <3>1. Ledger!Failed(n, t)
      BY <1>n, <1>t, <1>2, <1>3, <1>5, <1>7, <1>10, <2>2 DEF Ledger!Failed, statuses
    <3> QED
      BY <3>1 DEF Ledger!Next
  <2> QED
    BY <1>5, <1>10, <2>1, <2>2
<1>11. CASE Kind[m] = "refund"
  <2>1. CASE d.event = "payment.refunded"
    <3>1. Ledger!Refunded(n, t)
      BY <1>n, <1>t, <1>2, <1>3, <1>6, <1>7, <1>9, <1>11, <2>1 DEF Ledger!Refunded, statuses
    <3> QED
      BY <3>1 DEF Ledger!Next
  <2>2. CASE d.event = "payment.refund.failed"
    <3>1. Ledger!RefundFailed(n, t)
      BY <1>n, <1>t, <1>2, <1>3, <1>6, <1>7, <1>8, <1>11, <2>2
         DEF Ledger!RefundFailed, statuses
    <3> QED
      BY <3>1 DEF Ledger!Next
  <2> QED
    BY <1>6, <1>11, <2>1, <2>2
<1> QED
  BY <1>1, <1>10, <1>11 DEF Command

\* Every step of the replicas is a step of the ledger, or changes nothing it
\* shows.
LEMMA LedgerStep ==
    TypeOK /\ HandlerInv /\ MoneyInv /\ DeadLetterInv /\ [Next]_vars
    => [Ledger!Next]_(Ledger!vars)
<1> SUFFICES ASSUME TypeOK, HandlerInv, MoneyInv, DeadLetterInv, [Next]_vars
             PROVE  [Ledger!Next]_(Ledger!vars)
  OBVIOUS
<1>1. CASE UNCHANGED <<database, provider>>
  BY <1>1 DEF database, provider, Ledger!vars
<1>2. ASSUME UNCHANGED database, NEW i \in Instance, Asked(i)
      PROVE  [Ledger!Next]_(Ledger!vars)
  <2>1. PICK result \in {"ok", "declined"} : Request(Msg(i), result)
    BY <1>2 DEF Asked
  <2> DEFINE m == Msg(i)
  <2>2. m \in Message /\ Command(m) /\ PaymentOf[m] \in PaymentId
    BY <1>2, TypeParts, BusyMessage, ConstantsAssumption DEF Asked
  <2>3. /\ captured' = IF result = "ok" /\ Kind[m] = "charge"
                       THEN captured \cup {PaymentOf[m]} ELSE captured
        /\ returned' = IF result = "ok" /\ Kind[m] = "refund"
                       THEN returned \cup {PaymentOf[m]} ELSE returned
    BY <2>1 DEF Request
  <2> HIDE DEF m
  <2>4. statuses' = statuses /\ inbox' = inbox /\ outbox' = outbox
    BY <1>2 DEF database, statuses
  <2>5. CASE result = "ok" /\ Kind[m] = "charge"
    <3>1. Ledger!Capture(PaymentOf[m])
      BY <2>2, <2>3, <2>4, <2>5 DEF Ledger!Capture, Ledger!Commands, statuses
    <3> QED
      BY <2>2, <3>1 DEF Ledger!Next
  <2>6. CASE result = "ok" /\ Kind[m] = "refund"
    <3>1. Ledger!Return(PaymentOf[m])
      BY <2>2, <2>3, <2>4, <2>6 DEF Ledger!Return, Ledger!Commands, statuses
    <3> QED
      BY <2>2, <3>1 DEF Ledger!Next
  <2>7. CASE result # "ok"
    BY <2>3, <2>4, <2>7 DEF Ledger!vars, statuses
  <2> QED
    BY <2>2, <2>5, <2>6, <2>7 DEF Command
<1>3. ASSUME UNCHANGED provider, NEW i \in Instance, PrepareCharge(i)
      PROVE  [Ledger!Next]_(Ledger!vars)
  <2> DEFINE m == Msg(i)
             p == PaymentOf[m]
  <2>1. /\ m \in Message /\ p \in PaymentId
        /\ \/ payments' = payments
           \/ /\ payments[p].status = "NONE"
              /\ payments'[p] = createPendingChargePayment
              /\ \A q \in PaymentId : q # p => payments'[q] = payments[q]
    BY <1>3, PreparePayments DEF Exists
  <2>2. /\ Kind[m] = "charge" /\ inbox' = inbox /\ outbox' = outbox
        /\ captured' = captured /\ returned' = returned
    BY <1>3 DEF PrepareCharge, provider
  <2>3. CASE payments' = payments
    BY <2>2, <2>3 DEF Ledger!vars
  <2>4. CASE payments' # payments
    <3>1. /\ statuses[p] = "NONE"
          /\ statuses' = [statuses EXCEPT ![p] = "PENDING"]
      BY <2>1, <2>4 DEF statuses, createPendingChargePayment
    <3>2. PICK q \in PaymentId : q = p
      BY <2>1
    <3>3. Ledger!Open(q)
      BY <2>1, <2>2, <3>1, <3>2
         DEF Ledger!Open, Ledger!Commands, Ledger!Becomes, statuses
    <3> QED
      BY <3>3 DEF Ledger!Next
  <2> QED
    BY <2>3, <2>4
<1>4. ASSUME UNCHANGED provider, NEW i \in Instance, DeadLettering(i)
      PROVE  [Ledger!Next]_(Ledger!vars)
  <2> DEFINE m == Msg(i)
  <2>1. m \in Message
    BY <1>4, DeadLetterEvent
  <2>2. /\ HasMessageId(m) => ~(deadLetters[m] > 0)
        /\ outbox' = Append(outbox, [cause   |-> m,
                                     type    |-> "payment.deadlettered",
                                     payment |-> PaymentOf[m]])
        /\ UNCHANGED <<payments, inbox, captured, returned>>
    BY <1>4 DEF DeadLettering, DeadLetterIsNew, DeadLetterExists, Namesakes, provider
  <2> HIDE DEF m
  <2>3. HasMessageId(m) => ~Told(m)
    BY <2>1, <2>2 DEF DeadLetterInv
  <2>4. Ledger!DeadLetter(m)
    BY <2>1, <2>2, <2>3
       DEF Ledger!DeadLetter, Ledger!Dead, Ledger!Tell, Told, DeadLetter
  <2> QED
    BY <2>1, <2>4 DEF Ledger!Next
<1> QED
  BY <1>1, <1>2, <1>3, <1>4, CompletingAnswers, StepKinds

\* For any replicas, partitions and log, and whatever is retried, delivered
\* again or cut off, the service does what one atomic ledger may do.
THEOREM CommandsImplementLedger == Spec => ImplementsLedger
<1>1. Init => Ledger!Init
  BY DEF Init, Ledger!Init, NoRow
<1>2. Init => MoneyInv
  BY DEF Init, MoneyInv, RowBacked, EventBacked, NoRow
<1>3. Spec => []MoneyInv
  BY <1>2, MoneyStep, HandlersKnow, PTL DEF Spec
<1> QED
  BY <1>1, <1>3, LedgerStep, HandlersKnow, DeadLettersKnown, PTL
     DEF Spec, Ledger!Spec, ImplementsLedger
----------------------------------------------------------------------------
(* The history of a payment.  This needs nothing but the ledger: the       *)
(* invariant is inductive over its steps, and the replicas inherit it.     *)

Says(k, type, p) == outbox[k].type = type /\ outbox[k].payment = p

\* The event at k reports a refund of p, made or refused.
Settles(k, p) == \/ Says(k, "payment.refunded", p)
                 \/ Says(k, "payment.refund.failed", p)

\* A charged row was announced; an announced charge is on the row until a
\* refund, made or refused, which is then announced as well.
HistoryInv ==
    /\ ResultHistory
    /\ \A p \in PaymentId : statuses[p] \in {"CHARGED", "REFUNDED"} =>
          \E k \in DOMAIN outbox : Says(k, "payment.charged", p)
    /\ \A p \in PaymentId, k \in DOMAIN outbox : Says(k, "payment.charged", p) =>
          /\ statuses[p] \in {"CHARGED", "REFUNDED", "REFUND_FAILED"}
          /\ statuses[p] \in {"REFUNDED", "REFUND_FAILED"} =>
                \E r \in DOMAIN outbox : r >= k /\ Settles(r, p)

\* The history goes on to make sense when the event that is added does.
LEMMA HistoryGrows ==
    ASSUME outbox \in Seq(Event), ResultHistory, NEW e \in Event,
           outbox' = Append(outbox, e),
           e.type = "payment.refunded" =>
              \E j \in DOMAIN outbox : Says(j, "payment.charged", e.payment),
           e.type = "payment.failed" =>
              \A j \in DOMAIN outbox : Says(j, "payment.charged", e.payment) =>
                 \E r \in DOMAIN outbox : r >= j /\ Settles(r, e.payment)
    PROVE  ResultHistory'
<1> DEFINE n == Len(outbox) + 1
<1>1. /\ DOMAIN outbox = 1..Len(outbox) /\ Len(outbox) \in Nat
      /\ DOMAIN outbox' = 1..n
      /\ outbox'[n] = e
      /\ \A k \in 1..Len(outbox) : outbox'[k] = outbox[k]
  OBVIOUS
<1> USE DEF Says, Settles
<1>2. ASSUME NEW k \in DOMAIN outbox', outbox'[k].type = "payment.refunded"
      PROVE  \E j \in 1..(k - 1) : /\ outbox'[j].type = "payment.charged"
                                   /\ outbox'[j].payment = outbox'[k].payment
  <2>1. CASE k = n
    BY <1>1, <1>2, <2>1
  <2>2. CASE k # n
    <3>1. k \in DOMAIN outbox /\ outbox'[k] = outbox[k]
      BY <1>1, <1>2, <2>2
    <3>2. PICK j \in 1..(k - 1) : /\ outbox[j].type = "payment.charged"
                                  /\ outbox[j].payment = outbox[k].payment
      BY <1>2, <3>1 DEF ResultHistory
    <3> QED
      BY <1>1, <3>1, <3>2
  <2> QED
    BY <2>1, <2>2
<1>3. ASSUME NEW k \in DOMAIN outbox', outbox'[k].type = "payment.failed",
             NEW j \in 1..(k - 1), outbox'[j].type = "payment.charged",
             outbox'[j].payment = outbox'[k].payment
      PROVE  \E r \in j..k : /\ outbox'[r].type \in {"payment.refunded",
                                                    "payment.refund.failed"}
                             /\ outbox'[r].payment = outbox'[k].payment
  <2>0. j \in DOMAIN outbox /\ outbox'[j] = outbox[j]
    BY <1>1, <1>3
  <2>1. CASE k = n
    <3>1. PICK r \in DOMAIN outbox : r >= j /\ Settles(r, e.payment)
      BY <1>1, <1>3, <2>0, <2>1
    <3> QED
      BY <1>1, <2>0, <2>1, <3>1
  <2>2. CASE k # n
    <3>1. k \in DOMAIN outbox /\ outbox'[k] = outbox[k]
      BY <1>1, <1>3, <2>2
    <3>2. PICK r \in j..k : /\ outbox[r].type \in {"payment.refunded",
                                                  "payment.refund.failed"}
                            /\ outbox[r].payment = outbox[k].payment
      BY <1>3, <2>0, <3>1 DEF ResultHistory
    <3> QED
      BY <1>1, <2>0, <3>1, <3>2
  <2> QED
    BY <2>1, <2>2
<1> QED
  BY <1>2, <1>3 DEF ResultHistory

\* A step of the ledger keeps the history.
LEMMA HistoryStep ==
    TypeOK /\ HistoryInv /\ [Ledger!Next]_(Ledger!vars) => HistoryInv'
<1> SUFFICES ASSUME TypeOK, HistoryInv, [Ledger!Next]_(Ledger!vars)
             PROVE  HistoryInv'
  OBVIOUS
<1>0. outbox \in Seq(Event) /\ statuses \in [PaymentId -> PaymentStatus]
  BY DEF TypeOK, statuses, Row
<1>1. ASSUME outbox' = outbox, statuses' = statuses
      PROVE  HistoryInv'
  BY <1>1 DEF HistoryInv, ResultHistory, Says, Settles
<1>2. ASSUME NEW p \in PaymentId, Ledger!Open(p)
      PROVE  HistoryInv'
  <2>1. /\ outbox' = outbox /\ statuses[p] = "NONE"
        /\ statuses' = [statuses EXCEPT ![p] = "PENDING"]
    BY <1>2 DEF Ledger!Open, Ledger!Becomes, statuses
  <2> QED
    BY <1>0, <2>1 DEF HistoryInv, ResultHistory, Says, Settles
<1>3. ASSUME NEW m \in Message, NEW p \in PaymentId, NEW type \in EventType,
             Ledger!Tell(m, type, p)
      PROVE  \E e \in Event : /\ e.type = type /\ e.payment = p
                              /\ outbox' = Append(outbox, e)
  <2> DEFINE e == [cause |-> m, type |-> type, payment |-> p]
  <2>1. e \in Event /\ e.type = type /\ e.payment = p
    BY DEF Event
  <2>2. outbox' = Append(outbox, e)
    BY <1>3 DEF Ledger!Tell
  <2> QED
    BY <2>1, <2>2
<1>4. ASSUME NEW m \in Message, NEW p \in PaymentId, Ledger!Charged(m, p)
      PROVE  HistoryInv'
  <2>1. PICK e \in Event : /\ e.type = "payment.charged" /\ e.payment = p
                           /\ outbox' = Append(outbox, e)
    <3>1. "payment.charged" \in EventType
      BY DEF EventType, ResultType
    <3>2. Ledger!Tell(m, "payment.charged", p)
      BY <1>4 DEF Ledger!Charged, Ledger!Answer
    <3> QED
      BY <1>3, <3>1, <3>2
  <2>2. /\ statuses[p] \in {"NONE", "PENDING", "FAILED", "CHARGED"}
        /\ statuses' = [statuses EXCEPT ![p] = "CHARGED"]
    BY <1>4 DEF Ledger!Charged, Ledger!Becomes, statuses
  <2>3. ResultHistory'
    BY <1>0, <2>1, HistoryGrows DEF HistoryInv
  <2> QED
    BY <1>0, <2>1, <2>2, <2>3, Appended DEF HistoryInv, Says, Settles
<1>5. ASSUME NEW m \in Message, NEW p \in PaymentId, Ledger!Failed(m, p)
      PROVE  HistoryInv'
  <2>1. PICK e \in Event : /\ e.type = "payment.failed" /\ e.payment = p
                           /\ outbox' = Append(outbox, e)
    <3>1. "payment.failed" \in EventType
      BY DEF EventType, ResultType
    <3>2. Ledger!Tell(m, "payment.failed", p)
      BY <1>5 DEF Ledger!Failed, Ledger!Answer
    <3> QED
      BY <1>3, <3>1, <3>2
  <2>2. \/ /\ statuses[p] \in {"NONE", "PENDING", "FAILED"}
           /\ statuses' = [statuses EXCEPT ![p] = "FAILED"]
        \/ /\ statuses[p] \in {"REFUNDED", "REFUND_FAILED"}
           /\ statuses' = statuses
    BY <1>5 DEF Ledger!Failed, Ledger!Becomes, statuses
  <2>3. ResultHistory'
    BY <1>0, <2>1, <2>2, HistoryGrows DEF HistoryInv
  <2> QED
    BY <1>0, <2>1, <2>2, <2>3, Appended DEF HistoryInv, Says, Settles
<1>6. ASSUME NEW m \in Message, NEW p \in PaymentId, Ledger!Refunded(m, p)
      PROVE  HistoryInv'
  <2>1. PICK e \in Event : /\ e.type = "payment.refunded" /\ e.payment = p
                           /\ outbox' = Append(outbox, e)
    <3>1. "payment.refunded" \in EventType
      BY DEF EventType, ResultType
    <3>2. Ledger!Tell(m, "payment.refunded", p)
      BY <1>6 DEF Ledger!Refunded, Ledger!Answer
    <3> QED
      BY <1>3, <3>1, <3>2
  <2>2. /\ statuses[p] \in {"CHARGED", "REFUNDED"}
        /\ statuses' = [statuses EXCEPT ![p] = "REFUNDED"]
    BY <1>6 DEF Ledger!Refunded, Ledger!Becomes, statuses
  <2>3. ResultHistory'
    BY <1>0, <2>1, <2>2, HistoryGrows DEF HistoryInv
  <2> QED
    BY <1>0, <2>1, <2>2, <2>3, Appended DEF HistoryInv, Says, Settles
<1>7. ASSUME NEW m \in Message, NEW p \in PaymentId, Ledger!RefundFailed(m, p)
      PROVE  HistoryInv'
  <2>1. PICK e \in Event : /\ e.type = "payment.refund.failed" /\ e.payment = p
                           /\ outbox' = Append(outbox, e)
    <3>1. "payment.refund.failed" \in EventType
      BY DEF EventType, ResultType
    <3>2. Ledger!Tell(m, "payment.refund.failed", p)
      BY <1>7 DEF Ledger!RefundFailed, Ledger!Answer
    <3> QED
      BY <1>3, <3>1, <3>2
  <2>2. \/ statuses' = [statuses EXCEPT ![p] = "REFUND_FAILED"]
        \/ statuses[p] = "NONE" /\ statuses' = statuses
    BY <1>7 DEF Ledger!RefundFailed, Ledger!Becomes, statuses
  <2>3. ResultHistory'
    BY <1>0, <2>1, HistoryGrows DEF HistoryInv
  <2> QED
    BY <1>0, <2>1, <2>2, <2>3, Appended DEF HistoryInv, Says, Settles
<1>8. ASSUME NEW m \in Message, Ledger!DeadLetter(m)
      PROVE  HistoryInv'
  <2>1. PaymentOf[m] \in PaymentId
    BY ConstantsAssumption
  <2>2. PICK e \in Event : /\ e.type = "payment.deadlettered"
                           /\ outbox' = Append(outbox, e)
    <3>1. "payment.deadlettered" \in EventType
      BY DEF EventType
    <3>2. Ledger!Tell(m, "payment.deadlettered", PaymentOf[m])
      BY <1>8 DEF Ledger!DeadLetter
    <3> QED
      BY <1>3, <2>1, <3>1, <3>2
  <2>3. statuses' = statuses
    BY <1>8 DEF Ledger!DeadLetter, statuses
  <2>4. ResultHistory'
    BY <1>0, <2>2, HistoryGrows DEF HistoryInv
  <2> QED
    BY <1>0, <2>2, <2>3, <2>4, Appended DEF HistoryInv, Says, Settles
<1>9. ASSUME NEW p \in PaymentId, Ledger!Capture(p) \/ Ledger!Return(p)
      PROVE  HistoryInv'
  BY <1>1, <1>9 DEF Ledger!Capture, Ledger!Return, statuses
<1>10. Ledger!Next \/ UNCHANGED Ledger!vars
  OBVIOUS
<1> QED
  BY <1>1, <1>2, <1>4, <1>5, <1>6, <1>7, <1>8, <1>9, <1>10
     DEF Ledger!Next, Ledger!vars, statuses

\* What the saga reads of a payment makes sense: refunded only after it was
\* charged, and a charge contradicted by payment.failed only after a refund.
THEOREM HistoriesMakeSense == Spec => []ResultHistory
<1>1. Init => HistoryInv
  BY DEF Init, HistoryInv, ResultHistory, statuses, NoRow, Says
<1>2. HistoryInv => ResultHistory
  BY DEF HistoryInv
<1>3. ImplementsLedger => [][Ledger!Next]_(Ledger!vars)
  BY PTL DEF ImplementsLedger, Ledger!Spec
<1> QED
  BY <1>1, <1>2, <1>3, HistoryStep, CommandsImplementLedger,
     CommandsTypeCorrect, PTL DEF Spec
=============================================================================
