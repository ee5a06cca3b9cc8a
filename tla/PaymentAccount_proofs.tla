------------------------ MODULE PaymentAccount_proofs ------------------------
(***************************************************************************)
(* Proof that PaymentCommands loses no money: what the provider captured   *)
(* is on a payment's row, or is still to be completed, or its order is in  *)
(* the dead letters.                                                       *)
(***************************************************************************)
EXTENDS PaymentLedger_proofs

----------------------------------------------------------------------------
(* The front of a partition. *)

\* No command of the order is in the dead letters.
Alive(o) ==
    \A m \in Message : Command(m) /\ OrderOfCommand(m) = o => deadLetters[m] = 0

\* Everything before an occurrence of m in the log is handled.
Reached(m) ==
    \E p \in Partition : \E o \in DOMAIN Log[p] :
        Log[p][o] = m /\ HandledUpTo(p, o - 1)

\* A handler is at the front of its partition, wherever the offsets are.
InFront ==
    \A i \in Instance : job[i].pc # "idle" =>
        HandledUpTo(job[i].part, job[i].off - 1)

\* The provider is asked for messages at the front only, and what a handler
\* holds as its answer is its answer.
AnswerInv ==
    /\ InFront
    /\ \A m \in Message : answer[m] # "none" => Reached(m)
    /\ \A i \in Instance : job[i].pc = "commit" /\ job[i].result # "none" =>
          job[i].result = answer[Msg(i)]
    /\ \A m \in Message : Kind[m] = "charge" /\ answer[m] = "ok" =>
          PaymentOf[m] \in captured

\* No payment of the order is charged or refunded.
Unsettled(o) ==
    \A q \in PaymentId : OrderOf[q] = o =>
        payments[q].status \in {"NONE", "PENDING", "FAILED"}

Asking(m) == \E i \in Instance : job[i].pc = "provider" /\ Msg(i) = m

\* While a charge is open that the provider is or was asked for, nothing else
\* settles its order.  A charge that was completed without an answer found its
\* order settled, and the provider is not asked for it any more.  So captured
\* money is on the row, or its charge is open.
AccountInv ==
    /\ \A m \in Message :
          /\ Kind[m] = "charge" /\ Alive(OrderOfCommand(m))
          /\ m \notin inbox /\ (Asking(m) \/ answer[m] # "none")
          => Unsettled(OrderOfCommand(m))
    /\ \A m \in Message :
          /\ Kind[m] = "charge" /\ Alive(OrderOfCommand(m))
          /\ m \in inbox /\ answer[m] = "none"
          => ~Unsettled(OrderOfCommand(m)) /\ ~Asking(m)
    /\ \A p \in captured : Alive(OrderOf[p]) =>
          \/ payments[p].chargedAt
          \/ \E m \in Message : /\ Kind[m] = "charge" /\ PaymentOf[m] = p
                                /\ m \notin inbox /\ answer[m] = "ok"

\* Of the commands of an order that are not dead-lettered, one at most is at
\* the front and open.
LEMMA Serialized ==
    ASSUME KeyedByOrder, NEW m \in Message, NEW n \in Message,
           Command(m), Command(n), OrderOfCommand(m) = OrderOfCommand(n),
           Reached(m), Reached(n), m \notin inbox, n \notin inbox,
           Alive(OrderOfCommand(m))
    PROVE  m = n
<1>1. PICK p \in Partition : \E o \in DOMAIN Log[p] :
             Log[p][o] = m /\ HandledUpTo(p, o - 1)
  BY DEF Reached
<1>2. PICK o \in DOMAIN Log[p] : Log[p][o] = m /\ HandledUpTo(p, o - 1)
  BY <1>1
<1>3. PICK q \in Partition : \E l \in DOMAIN Log[q] :
             Log[q][l] = n /\ HandledUpTo(q, l - 1)
  BY DEF Reached
<1>4. PICK l \in DOMAIN Log[q] : Log[q][l] = n /\ HandledUpTo(q, l - 1)
  BY <1>3
<1>5. p = q
  BY <1>2, <1>4 DEF KeyedByOrder
<1>6. ~Handled(m) /\ ~Handled(n)
  BY DEF Alive, Handled, Namesakes, HasMessageId, Command
<1>7. o \in Nat /\ o > 0 /\ l \in Nat /\ l > 0
  BY LogMessage
<1>8. ~(o < l)
  BY <1>2, <1>4, <1>5, <1>6, <1>7 DEF HandledUpTo
<1>9. ~(l < o)
  BY <1>2, <1>4, <1>5, <1>6, <1>7 DEF HandledUpTo
<1> QED
  BY <1>2, <1>4, <1>5, <1>7, <1>8, <1>9

\* A message that was reached stays reached.
LEMMA ReachedStays ==
    ASSUME TypeOK, [Next]_vars, NEW m, Reached(m)
    PROVE  Reached(m)'
<1>1. PICK p \in Partition : \E o \in DOMAIN Log[p] :
             Log[p][o] = m /\ HandledUpTo(p, o - 1)
  BY DEF Reached
<1>2. PICK o \in DOMAIN Log[p] : Log[p][o] = m /\ HandledUpTo(p, o - 1)
  BY <1>1
<1>3. o - 1 \in Nat
  BY LogMessage
<1>4. HandledUpTo(p, o - 1)'
  BY <1>2, <1>3, HandledUpToStays
<1> QED
  BY <1>2, <1>4 DEF Reached, HandledUpTo, Handled

\* The provider does not change an answer, and answers only who asks.
LEMMA AnswerStays ==
    ASSUME TypeOK, [Next]_vars, NEW m \in Message
    PROVE  \/ answer'[m] = answer[m]
           \/ answer[m] = "none" /\ Asking(m)
<1>1. ASSUME NEW i \in Instance, Asked(i)
      PROVE  \/ answer'[m] = answer[m]
             \/ answer[m] = "none" /\ Asking(m)
  <2>1. PICK result \in {"ok", "declined"} : Request(Msg(i), result)
    BY <1>1 DEF Asked
  <2>2. /\ answer' = [answer EXCEPT ![Msg(i)] = result]
        /\ result \in Answer(Msg(i))
    BY <2>1 DEF Request
  <2>3. Asking(Msg(i))
    BY <1>1 DEF Asked, Asking
  <2> QED
    BY <2>2, <2>3 DEF Answer, TypeOK
<1> QED
  BY <1>1, StepKinds DEF provider

\* A busy handler has reached its message.
LEMMA BusyReached ==
    ASSUME TypeOK, InFront, NEW i \in Instance, job[i].pc # "idle"
    PROVE  Reached(Msg(i)) /\ Msg(i) \in Message
BY TypeParts, BusyMessage DEF InFront, Reached, Msg, MessageOf

\* Every step keeps what is known of the answers.
LEMMA AnswerInvStep ==
    TypeOK /\ HandlerInv /\ OffsetSafety /\ AnswerInv /\ [Next]_vars => AnswerInv'
<1> SUFFICES ASSUME TypeOK, HandlerInv, OffsetSafety, AnswerInv, [Next]_vars
             PROVE  AnswerInv'
  OBVIOUS
<1>0. /\ NoResultYet /\ AckIsHandled /\ InOrder /\ InFront
      /\ position \in [Partition -> Nat] /\ Handlers
  BY TypeParts DEF HandlerInv, OffsetSafety, AnswerInv, World
<1>1. ASSUME NEW i \in Instance, job'[i].pc # "idle"
      PROVE  HandledUpTo(job[i].part, job[i].off - 1)'
  <2>1. PICK p \in Partition, n \in Nat :
           job'[i].part = p /\ job'[i].off - 1 = n /\ HandledUpTo(p, n)
    <3>1. CASE Begins(i)
      <4>1. PICK p \in Partition : job'[i].part = p /\ job'[i].off = position[p] + 1
        BY <3>1 DEF Begins
      <4> QED
        BY <1>0, <4>1 DEF OffsetSafety
    <3>2. CASE job[i].pc # "idle" /\ SameDelivery(job[i], job'[i])
      <4>1. /\ job[i].part \in Partition /\ job[i].off - 1 \in Nat
            /\ HandledUpTo(job[i].part, job[i].off - 1)
        BY <1>0, <3>2, BusyMessage, LogMessage DEF InFront
      <4> QED
        BY <3>2, <4>1 DEF SameDelivery
    <3> QED
      BY <1>0, <1>1, <3>1, <3>2, DeliveryStep DEF SameOrIdle, SameDelivery
  <2>2. HandledUpTo(p, n)'
    BY <2>1, HandledUpToStays
  <2> QED
    BY <2>1, <2>2 DEF HandledUpTo, Handled
<1>2. ASSUME NEW m \in Message, answer'[m] # "none"
      PROVE  Reached(m)'
  <2>1. Reached(m)
    <3>1. Asking(m) => Reached(m)
      BY <1>0, BusyReached DEF Asking
    <3> QED
      BY <1>2, <3>1, AnswerStays DEF AnswerInv
  <2> QED
    BY <2>1, ReachedStays
<1>3. ASSUME NEW i \in Instance, job'[i].pc = "commit", job'[i].result # "none"
      PROVE  job'[i].result = answer'[Msg(i)']
  <2>1. \/ /\ job[i].pc = "commit" /\ Msg(i)' = Msg(i)
           /\ job'[i].result = job[i].result
        \/ /\ job[i].pc = "provider" /\ Msg(i)' = Msg(i)
           /\ Request(Msg(i), job'[i].result)
    <3>1. ASSUME SameDelivery(job[i], job'[i]) \/ job'[i] = job[i]
          PROVE  Msg(i)' = Msg(i)
      BY <3>1 DEF Msg, MessageOf, SameDelivery
    <3>2. WorksBecause(i)
      BY <1>0, <1>3, WorkStep DEF Working
    <3> QED
      BY <1>3, <3>1, <3>2 DEF WorksBecause
  <2>2. Msg(i) \in Message
    BY <1>0, <2>1, BusyMessage
  <2>3. CASE job[i].pc = "commit" /\ job'[i].result = job[i].result
    <3>1. answer[Msg(i)] = job[i].result
      BY <1>3, <2>3 DEF AnswerInv
    <3> QED
      BY <1>3, <2>1, <2>2, <2>3, <3>1, AnswerStays
  <2>4. CASE job[i].pc = "provider" /\ Request(Msg(i), job'[i].result)
    BY <2>1, <2>2, <2>4 DEF Request, TypeOK
  <2> QED
    BY <2>1, <2>3, <2>4
<1>4. ASSUME NEW m \in Message, Kind[m] = "charge", answer'[m] = "ok"
      PROVE  PaymentOf[m] \in captured'
  <2>1. CASE answer'[m] = answer[m]
    BY <1>4, <2>1, MoneyStays DEF AnswerInv
  <2>2. CASE answer'[m] # answer[m]
    <3>1. PICK i \in Instance : Asked(i)
      BY <2>2, StepKinds DEF provider
    <3>2. PICK result \in {"ok", "declined"} : Request(Msg(i), result)
      BY <3>1 DEF Asked
    <3>3. m = Msg(i) /\ result = "ok"
      BY <1>4, <2>2, <3>2 DEF Request, TypeOK
    <3> QED
      BY <1>4, <3>2, <3>3 DEF Request
  <2> QED
    BY <2>1, <2>2
<1> QED
  BY <1>1, <1>2, <1>3, <1>4 DEF AnswerInv, InFront

----------------------------------------------------------------------------
(* What the steps do to an order. *)

\* The second transaction looks at the row the first one decided on.
LEMMA PlanOfCharge ==
    ASSUME TypeOK, OneRowPerOrder, NEW m \in Message, Kind[m] = "charge"
    PROVE  Plan(m) = "call_processor" <=> Unsettled(OrderOfCommand(m))
<1> DEFINE p == PaymentOf[m]
           e == findPayment(p)
<1>1. p \in PaymentId
  BY ConstantsAssumption
<1>2. Plan(m) = planCharge(payments[e])
  BY DEF Plan
<1>3. OrderOfCommand(m) = OrderOf[p]
  BY DEF OrderOfCommand
<1> HIDE DEF p
<1>4. /\ e \in PaymentId /\ OrderOf[e] = OrderOf[p]
      /\ \A q \in PaymentId : OrderOf[q] = OrderOf[p] /\ Exists(q) => Exists(e)
  BY <1>1, FindPaymentFacts
<1> HIDE DEF e
<1>5. payments[e].status \in PaymentStatus
  BY <1>4 DEF TypeOK, Row
<1>6. \A q \in PaymentId : OrderOf[q] = OrderOf[p] /\ q # e => ~Exists(q)
  BY <1>4 DEF OneRowPerOrder
<1>7. Plan(m) = "call_processor" <=>
          payments[e].status \in {"NONE", "PENDING", "FAILED"}
  BY <1>2 DEF planCharge
<1> QED
  BY <1>3, <1>4, <1>6, <1>7 DEF Unsettled, Exists

\* A handler asks the provider because it did, or has found the order unsettled.
LEMMA AskingBecause ==
    ASSUME TypeOK, NoResultYet, [Next]_vars, NEW m \in Message,
           Kind[m] = "charge", Asking(m)'
    PROVE  \/ Asking(m)
           \/ /\ Plan(m) = "call_processor"
              /\ \E i \in Instance : job[i].pc = "prepare" /\ Msg(i) = m
<1>1. PICK i \in Instance : job'[i].pc = "provider" /\ Msg(i)' = m
  BY DEF Asking
<1>2. ASSUME SameDelivery(job[i], job'[i]) \/ job'[i] = job[i]
      PROVE  Msg(i)' = Msg(i)
  BY <1>2 DEF Msg, MessageOf, SameDelivery
<1>3. \/ job'[i] = job[i]
      \/ /\ job[i].pc = "prepare" /\ Msg(i) = m
         /\ PrepareCharge(i) \/ PrepareRefund(i)
  BY <1>1, <1>2, WorkStep DEF WorksBecause, Working
<1>4. CASE job'[i] = job[i]
  BY <1>1, <1>2, <1>4 DEF Asking
<1>5. CASE job[i].pc = "prepare" /\ Msg(i) = m /\ PrepareCharge(i)
  <2> DEFINE pc == IF Plan(m) = "call_processor" THEN "provider" ELSE "commit"
  <2>1. Replies(i, pc) /\ Command(m)
    BY <1>5 DEF PrepareCharge, Plan, Command
  <2>2. pc \in Pc /\ pc \in {"provider", "commit"} /\ Handlers
    BY TypeParts DEF Pc
  <2> HIDE DEF pc
  <2>3. job'[i] = At(job[i], pc) \/ job'[i] = OnError(job[i])
    BY <1>5, <2>1, <2>2, HandlersReplies
  <2>4. job[i] \in Job /\ Sound(job[i])
    BY <1>5, <2>2, BusyMessage
  <2>5. job'[i] = At(job[i], pc)
    BY <1>1, <1>5, <2>3, <2>4, OnErrorState
  <2>6. pc = "provider"
    BY <1>1, <2>2, <2>4, <2>5, AtState
  <2> QED
    BY <1>5, <2>6 DEF pc
<1>6. ~(Msg(i) = m /\ PrepareRefund(i))
  BY DEF PrepareRefund
<1> QED
  BY <1>3, <1>4, <1>5, <1>6

\* A completion writes the row of its command's order.
LEMMA CompletionInOrder ==
    ASSUME TypeOK, HandlerInv, MoneyInv, NEW i \in Instance, Completing(i),
           NEW q \in PaymentId, payments'[q] # payments[q]
    PROVE  OrderOf[q] = OrderOfCommand(Msg(i))
<1> DEFINE m == Msg(i)
           d == Decide(m, job[i].result)
<1>1. /\ m \in Message /\ Command(m) /\ job[i].result \in ProcessorResult
      /\ q = d.id
  BY CompletionPayments
<1>2. /\ ~Raises(m, job[i].result)
      /\ job[i].result = "ok" => Moved(m)
      /\ Kind[m] = "charge" => OrderHasRow(m)
  BY DEF Completing, HandlerInv, ApprovedMoved, ChargePrepared
<1>3. Kind[m] = "charge" => OrderOf[d.id] = OrderOf[PaymentOf[m]]
  BY <1>1, <1>2, ChargeAnswers
<1>4. Kind[m] = "refund" => OrderOf[d.id] = OrderOf[PaymentOf[m]]
  BY <1>1, <1>2, RefundAnswers
<1> QED
  BY <1>1, <1>3, <1>4 DEF Command, OrderOfCommand

\* While an open command is at the front of its order, no other command
\* settles the order.
LEMMA UnsettledStays ==
    ASSUME KeyedByOrder, TypeOK, HandlerInv, MoneyInv, InFront, [Next]_vars,
           NEW m \in Message, Command(m), Alive(OrderOfCommand(m)),
           Reached(m), m \notin inbox, m \notin inbox',
           Unsettled(OrderOfCommand(m))
    PROVE  Unsettled(OrderOfCommand(m))'
<1>1. ASSUME NEW i \in Instance, PrepareCharge(i)
      PROVE  Unsettled(OrderOfCommand(m))'
  BY <1>1, PreparePayments
     DEF Unsettled, createPendingChargePayment, OrderOfCommand
<1>2. ASSUME NEW i \in Instance, Completing(i)
      PROVE  Unsettled(OrderOfCommand(m))'
  <2>1. /\ Msg(i) \in Message /\ Command(Msg(i)) /\ Msg(i) \notin inbox
        /\ inbox' = inbox \cup {Msg(i)}
    BY <1>2, CompletionEvent DEF Completing, Duplicate
  <2>2. Reached(Msg(i))
    BY <1>2, BusyReached DEF Completing
  <2>3. OrderOfCommand(Msg(i)) # OrderOfCommand(m)
    BY <2>1, <2>2, Serialized
  <2>4. \A q \in PaymentId : OrderOf[q] = OrderOfCommand(m) =>
            payments'[q] = payments[q]
    BY <1>2, <2>3, CompletionInOrder
  <2> QED
    BY <2>4 DEF Unsettled, OrderOfCommand
<1> QED
  BY <1>1, <1>2, DatabaseStep
     DEF database, DeadLettering, Unsettled, OrderOfCommand

\* An order that is settled stays settled.
LEMMA SettledStays ==
    ASSUME TypeOK, HandlerInv, [Next]_vars, NEW o, ~Unsettled(o)
    PROVE  ~Unsettled(o)'
<1>1. PICK q \in PaymentId :
          /\ OrderOf[q] = o
          /\ payments[q].status \notin {"NONE", "PENDING", "FAILED"}
  BY DEF Unsettled
<1>2. payments'[q].status \notin {"NONE", "PENDING", "FAILED"}
  BY <1>1, LifecycleStep DEF Transition
<1> QED
  BY <1>1, <1>2 DEF Unsettled

\* The time of a charge is never taken from a row.
LEMMA ChargedAtStays ==
    ASSUME TypeOK, HandlerInv, MoneyInv, TrailInv, [Next]_vars,
           NEW p \in PaymentId, payments[p].chargedAt
    PROVE  payments'[p].chargedAt
<1>1. ASSUME NEW i \in Instance, PrepareCharge(i)
      PROVE  payments'[p].chargedAt
  BY <1>1, PreparePayments DEF TrailInv, Exists
<1>2. ASSUME NEW i \in Instance, Completing(i)
      PROVE  payments'[p].chargedAt
  <2> DEFINE m == Msg(i)
             d == Decide(m, job[i].result)
  <2>1. /\ m \in Message /\ Command(m) /\ job[i].result \in ProcessorResult
        /\ d.id \in PaymentId
        /\ payments'[p] = IF p = d.id /\ d.row.status # "NONE"
                          THEN d.row ELSE payments[p]
    BY <1>2, CompletionPayments
  <2>2. /\ ~Raises(m, job[i].result)
        /\ Kind[m] = "charge" => OrderHasRow(m)
    BY <1>2 DEF Completing, HandlerInv, ChargePrepared
  <2>3. LET old == payments[d.id]
            new == IF d.row.status = "NONE" THEN old ELSE d.row
        IN  IF d.attempt = "SUCCEEDED" /\ Kind[m] = "charge"
            THEN ~old.chargedAt /\ new.chargedAt
            ELSE new.chargedAt = old.chargedAt
    BY <2>1, <2>2, DecideRecords
  <2> HIDE DEF d, m
  <2> QED
    BY <2>1, <2>3
<1> QED
  BY <1>1, <1>2, DatabaseStep DEF database, DeadLettering
\* A completion of a charge in an unsettled order writes its answer.
LEMMA CompletesAnswer ==
    ASSUME TypeOK, AnswerInv, OneRowPerOrder, NEW i \in Instance, Completing(i),
           Kind[Msg(i)] = "charge", Unsettled(OrderOfCommand(Msg(i)))
    PROVE  /\ answer[Msg(i)] # "none"
           /\ answer[Msg(i)] = "ok" =>
                 /\ payments'[PaymentOf[Msg(i)]].chargedAt
                 /\ Decide(Msg(i), job[i].result).event = "payment.charged"
<1> DEFINE m == Msg(i)
           p == PaymentOf[m]
           e == findPayment(p)
           d == Decide(m, job[i].result)
<1>1. /\ m \in Message /\ p \in PaymentId
      /\ \A q \in PaymentId :
            payments'[q] = IF q = d.id /\ d.row.status # "NONE"
                           THEN d.row ELSE payments[q]
  BY CompletionPayments
<1>2. Plan(m) = "call_processor"
  BY <1>1, PlanOfCharge
<1>3. job[i].pc = "commit" /\ job[i].result # "none"
  BY <1>2 DEF Completing, Raises
<1>4. job[i].result = answer[m]
  BY <1>3 DEF AnswerInv
<1>5. d = decideCharge(p, e, payments[e], job[i].result)
  BY DEF Decide
<1>6. planCharge(payments[e]) = "call_processor"
  BY <1>2 DEF Plan
<1> HIDE DEF d, p, m, e
<1>7. answer[m] = "ok" =>
          /\ d.id = p /\ d.row.status = "CHARGED" /\ d.row.chargedAt = TRUE
          /\ d.event = "payment.charged"
  <2>1. d = decisionFromChargeResult(p, job[i].result)
    BY <1>5, <1>6 DEF decideCharge
  <2> QED
    BY <1>4, <2>1 DEF decisionFromChargeResult, Decision
<1>8. answer[m] = "ok" => payments'[p].chargedAt
  BY <1>1, <1>7
<1> QED
  BY <1>3, <1>4, <1>7, <1>8 DEF d, m, p

\* What is needed of the other invariants.
AllInv ==
    /\ TypeOK /\ HandlerInv /\ MoneyInv /\ TrailInv /\ OneRowPerOrder
    /\ OffsetSafety /\ AnswerInv

\* Every step keeps the captured money accounted for.
LEMMA AccountStep ==
    KeyedByOrder /\ AllInv /\ AccountInv /\ [Next]_vars => AccountInv'
<1> SUFFICES ASSUME KeyedByOrder, AllInv, AccountInv, [Next]_vars
             PROVE  AccountInv'
  OBVIOUS
<1>0. /\ TypeOK /\ HandlerInv /\ MoneyInv /\ TrailInv /\ OneRowPerOrder
      /\ AnswerInv /\ InFront /\ NoResultYet
  BY DEF AllInv, AnswerInv, HandlerInv
<1>1. inbox \subseteq inbox'
  BY DatabaseStep
     DEF database, PrepareCharge, Completing, Completes, DeadLettering
<1>2. ASSUME NEW o, Alive(o)'
      PROVE  Alive(o)
  <2> SUFFICES ASSUME NEW m \in Message, deadLetters'[m] = 0
               PROVE  deadLetters[m] = 0
    BY <1>2 DEF Alive, OrderOfCommand
  <2>1. deadLetters \in [Message -> Nat]
    BY <1>0 DEF TypeOK
  <2>2. \/ deadLetters' = deadLetters
        \/ \E n \in Message : deadLetters' = [deadLetters EXCEPT ![n] = @ + 1]
    BY <1>0, DatabaseStep, DeadLetterEvent
       DEF database, PrepareCharge, Completing, Completes, DeadLettering
  <2> QED
    BY <2>1, <2>2
\* A command enters the inbox when it is completed.
<1>3. ASSUME NEW m \in inbox', m \notin inbox
      PROVE  \E i \in Instance : Completing(i) /\ Msg(i) = m
  BY <1>0, <1>3, DatabaseStep, CompletionEvent
     DEF database, PrepareCharge, DeadLettering
<1>4. ASSUME NEW m \in Message, Kind[m] = "charge"
      PROVE  /\ m \in Message /\ Command(m) /\ PaymentOf[m] \in PaymentId
             /\ OrderOfCommand(m) = OrderOf[PaymentOf[m]]
  BY <1>4, ConstantsAssumption DEF Command, OrderOfCommand
<1>5. ASSUME NEW m \in Message, Kind[m] = "charge", Asking(m)'
      PROVE  \/ Asking(m)
             \/ Unsettled(OrderOfCommand(m)) /\ Reached(m)
  BY <1>0, <1>5, AskingBecause, PlanOfCharge, BusyReached
\* The charges that are open.
<1>6. ASSUME NEW m \in Message, Kind[m] = "charge",
             Alive(OrderOfCommand(m))', m \notin inbox',
             Asking(m)' \/ answer'[m] # "none"
      PROVE  Unsettled(OrderOfCommand(m))'
  <2>1. Alive(OrderOfCommand(m)) /\ m \notin inbox
    BY <1>1, <1>2, <1>6 DEF OrderOfCommand
  <2>2. Unsettled(OrderOfCommand(m)) /\ Reached(m)
    <3>1. Asking(m) => Reached(m)
      BY <1>0, BusyReached DEF Asking
    <3>2. answer[m] # "none" => Reached(m)
      BY <1>0 DEF AnswerInv
    <3>3. \/ Asking(m) \/ answer[m] # "none"
          \/ Unsettled(OrderOfCommand(m)) /\ Reached(m)
      BY <1>0, <1>5, <1>6, AnswerStays
    <3> QED
      BY <1>6, <2>1, <3>1, <3>2, <3>3 DEF AccountInv
  <2> QED
    BY <1>0, <1>4, <1>6, <2>1, <2>2, UnsettledStays
\* The charges that were completed without an answer.
<1>7. ASSUME NEW m \in Message, Kind[m] = "charge",
             Alive(OrderOfCommand(m))', m \in inbox', answer'[m] = "none"
      PROVE  ~Unsettled(OrderOfCommand(m))' /\ ~Asking(m)'
  <2>1. Alive(OrderOfCommand(m)) /\ answer[m] = "none"
    <3>1. answer[m] = "none"
      BY <1>0, <1>7, AnswerStays
    <3> QED
      BY <1>2, <1>7, <3>1 DEF OrderOfCommand
  <2>2. ~Unsettled(OrderOfCommand(m))
    <3>1. CASE m \in inbox
      BY <1>7, <2>1, <3>1 DEF AccountInv
    <3>2. CASE m \notin inbox
      BY <1>0, <1>3, <1>7, <2>1, <3>2, CompletesAnswer
    <3> QED
      BY <3>1, <3>2
  <2>3. ~Asking(m)
    BY <1>7, <2>1, <2>2 DEF AccountInv
  <2>4. ~Asking(m)'
    BY <1>5, <1>7, <2>2, <2>3
  <2>5. PICK o : o = OrderOfCommand(m)
    OBVIOUS
  <2>6. ~Unsettled(o)'
    BY <1>0, <2>2, <2>5, SettledStays
  <2> QED
    BY <2>4, <2>5, <2>6 DEF OrderOfCommand, Unsettled
\* The money.
<1>8. ASSUME NEW p \in captured', Alive(OrderOf[p])'
      PROVE  \/ payments'[p].chargedAt
             \/ \E m \in Message : /\ Kind[m] = "charge" /\ PaymentOf[m] = p
                                   /\ m \notin inbox' /\ answer'[m] = "ok"
  <2>1. Alive(OrderOf[p])
    BY <1>2, <1>8
  <2>2. CASE p \in captured /\ payments[p].chargedAt
    BY <1>0, <2>2, ChargedAtStays DEF TypeOK
  <2>3. ASSUME NEW m \in Message, Kind[m] = "charge", PaymentOf[m] = p,
               m \notin inbox, answer[m] = "ok"
        PROVE  \/ payments'[p].chargedAt
               \/ m \notin inbox' /\ answer'[m] = "ok"
    <3>1. answer'[m] = "ok"
      BY <1>0, <2>3, AnswerStays
    <3>2. CASE m \notin inbox'
      BY <3>1, <3>2
    <3>3. CASE m \in inbox'
      <4>1. PICK i \in Instance : Completing(i) /\ Msg(i) = m
        BY <1>3, <2>3, <3>3
      <4>2. Unsettled(OrderOfCommand(m))
        BY <2>1, <2>3 DEF AccountInv, OrderOfCommand
      <4> QED
        BY <1>0, <2>3, <4>1, <4>2, CompletesAnswer
    <3> QED
      BY <3>2, <3>3
  <2>4. CASE p \notin captured
    <3>1. PICK i \in Instance : Asked(i) /\ UNCHANGED database
      BY <1>8, <2>4, StepKinds DEF provider
    <3>2. PICK result \in {"ok", "declined"} : Request(Msg(i), result)
      BY <3>1 DEF Asked
    <3>3. PICK m \in Message : m = Msg(i)
      BY <1>0, <3>1, BusyReached DEF Asked
    <3>4. /\ Kind[m] = "charge" /\ PaymentOf[m] = p /\ result = "ok"
          /\ answer'[m] = "ok" /\ result \in Answer(m)
          /\ Asking(m) /\ inbox' = inbox
      BY <1>0, <1>8, <2>4, <3>1, <3>2, <3>3
         DEF Request, TypeOK, Asked, Asking, database
    <3>5. m \notin inbox
      <4>1. SUFFICES ASSUME m \in inbox
                     PROVE  FALSE
        OBVIOUS
      <4>2. answer[m] # "none"
        BY <2>1, <3>4, <4>1 DEF AccountInv, OrderOfCommand
      <4>3. answer[m] = "ok"
        BY <3>4, <4>2 DEF Answer
      <4> QED
        BY <1>0, <2>4, <3>4, <4>3 DEF AnswerInv
    <3> QED
      BY <3>4, <3>5
  <2> QED
    BY <2>1, <2>2, <2>3, <2>4 DEF AccountInv
<1> QED
  BY <1>6, <1>7, <1>8 DEF AccountInv, OrderOfCommand

\* Captured money is accounted for: while no command of its order is in the
\* dead letters, an open charge that is not on the row is delivered again.
LEMMA Accounted ==
    TypeOK /\ AnswerInv /\ OffsetSafety /\ AccountInv => CapturedIsAccounted
<1> SUFFICES ASSUME TypeOK, AnswerInv, OffsetSafety, AccountInv,
                    NEW p \in captured, Alive(OrderOf[p]), ~payments[p].chargedAt
             PROVE  \E m \in Message : /\ Kind[m] = "charge"
                                       /\ PaymentOf[m] = p
                                       /\ Pending(m)
  BY DEF CapturedIsAccounted, Alive, OrderOfCommand, TypeOK
<1>1. PICK m \in Message : /\ Kind[m] = "charge" /\ PaymentOf[m] = p
                           /\ m \notin inbox /\ answer[m] = "ok"
  BY DEF AccountInv
<1>2. deadLetters[m] = 0
  BY <1>1 DEF Alive, OrderOfCommand, Command
<1>3. PICK q \in Partition : \E o \in DOMAIN Log[q] : Log[q][o] = m
  BY <1>1 DEF AnswerInv, Reached
<1>4. PICK o \in DOMAIN Log[q] : Log[q][o] = m
  BY <1>3
<1>5. ~Handled(m)
  BY <1>1, <1>2 DEF Handled, Namesakes, HasMessageId
<1>6. o > committed[q]
  <2>1. o \in Nat /\ o > 0 /\ committed[q] \in Nat
    BY LogMessage DEF TypeOK
  <2>2. \A k \in 1..committed[q] : Handled(Log[q][k])
    BY DEF OffsetSafety, HandledUpTo
  <2> QED
    BY <1>4, <1>5, <2>1, <2>2
<1> QED
  BY <1>1, <1>4, <1>6 DEF Pending

LEMMA AccountIsInvariant ==
    ASSUME KeyedByOrder
    PROVE  Spec => [](AllInv /\ AccountInv)
<1>1. Init => MoneyInv /\ TrailInv /\ OneRowPerOrder
  BY DEF Init, MoneyInv, RowBacked, EventBacked, NoRow, TrailInv, Exactly,
         Successes, OneRowPerOrder, Exists
<1>2. Init => AnswerInv /\ AccountInv
  BY IdleState DEF Init, AnswerInv, InFront, AccountInv, Asking
<1>3. KeyedByOrder
  OBVIOUS
<1>4. AllInv /\ AccountInv /\ [Next]_vars => AccountInv'
  BY <1>3, AccountStep
<1>5. Spec => []AllInv
  <2>1. TypeOK /\ HandlerInv /\ MoneyInv /\ TrailInv /\ OneRowPerOrder
        /\ OffsetSafety /\ AnswerInv <=> AllInv
    BY DEF AllInv
  <2> QED
    BY <1>1, <1>2, <2>1, MoneyStep, TrailStep, OneRowStep, AnswerInvStep,
       HandlersKnow, OffsetsAreSafe, PTL DEF Spec
<1> QED
  BY <1>2, <1>4, <1>5, PTL DEF Spec

\* Money the provider took is on the payment's row, or its charge is delivered
\* again, or a command of its order is in the dead letters.  No crash, retry or
\* rebalance between the capture and the completion loses it.
THEOREM CapturedMoneyIsAccounted ==
    ASSUME KeyedByOrder
    PROVE  Spec => []CapturedIsAccounted
<1>1. AllInv /\ AccountInv => CapturedIsAccounted
  BY Accounted DEF AllInv
<1> QED
  BY <1>1, AccountIsInvariant, PTL

\* A completion of an approved charge, by whichever handler, finds its order
\* unsettled while no command of the order is in the dead letters.
LEMMA ApprovedStep ==
    ASSUME AllInv, AccountInv, [Next]_vars, NEW i \in Instance,
           ApprovedCompletes(i), Alive(OrderOfCommand(Msg(i)))
    PROVE  SaysCharged
<1> DEFINE m == Msg(i)
<1>0. TypeOK /\ HandlerInv /\ AnswerInv /\ OneRowPerOrder
  BY DEF AllInv
<1>1. m \in Message /\ Kind[m] = "charge" /\ m \notin inbox /\ m \in inbox'
  BY <1>0, BusyReached DEF ApprovedCompletes, AnswerInv
<1>2. answer[m] = "ok"
  BY <1>0 DEF ApprovedCompletes, AnswerInv
<1>3. Unsettled(OrderOfCommand(m))
  BY <1>1, <1>2 DEF AccountInv
<1> HIDE DEF m
<1>4. PICK j \in Instance : Completing(j) /\ Msg(j) = m
  BY <1>0, <1>1, DatabaseStep, CompletionEvent
     DEF database, PrepareCharge, DeadLettering
<1>5. Decide(m, job[j].result).event = "payment.charged"
  BY <1>0, <1>1, <1>2, <1>3, <1>4, CompletesAnswer
<1>6. outbox' = Append(outbox, [cause |-> m, payment |-> Decide(m, job[j].result).id,
                                type |-> Decide(m, job[j].result).event])
  BY <1>4 DEF Completing, Completes, publishResult
<1>7. outbox \in Seq(Event)
  BY <1>0 DEF TypeOK
<1> QED
  BY <1>5, <1>6, <1>7 DEF SaysCharged

\* A charge that the provider approved is announced as charged, whatever other
\* deliveries, refunds and rebalances run beside it, unless a command of its
\* order was dead-lettered before: the precise extent of what ADR 0002 says of
\* the serialization of a payment's commands.
THEOREM ApprovedChargesStand ==
    ASSUME KeyedByOrder
    PROVE  Spec => ApprovedChargeStands
<1>1. AllInv /\ AccountInv /\ [Next]_vars =>
        [\A i \in Instance : ApprovedCompletes(i) =>
            \/ SaysCharged
            \/ \E m \in Message : /\ Command(m)
                                  /\ OrderOfCommand(m) = OrderOfCommand(Msg(i))
                                  /\ deadLetters[m] > 0]_vars
  BY ApprovedStep DEF Alive, AllInv, TypeOK
<1> QED
  BY <1>1, AccountIsInvariant, PTL DEF Spec, ApprovedChargeStands
=============================================================================
