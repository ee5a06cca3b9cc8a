---------------------------- MODULE PaymentLedger ---------------------------
(***************************************************************************)
(* What the payment service promises to the saga that sends it commands,   *)
(* with no replicas, transactions, deliveries or retries in sight: money   *)
(* moves at the provider; then a command is answered, once, in one step    *)
(* that changes the payment's status and adds the event.  A message may    *)
(* instead, or as well, be dead-lettered.  PaymentCommands implements it.  *)
(***************************************************************************)
EXTENDS Sequences, Naturals

CONSTANTS
    Message, PaymentId,
    Kind,          \* message -> charge, refund, or something else
    PaymentOf,     \* message -> its payment id
    OrderOf,       \* payment id -> its order
    Identified     \* the messages that have a messageId

VARIABLES
    status,        \* payment id -> its status
    captured,      \* payment ids the provider took money for
    returned,      \* payment ids it gave money back for
    answered,      \* commands that have their result
    events         \* what the saga is told, in order

vars == <<status, captured, returned, answered, events>>

Commands(kind, p) == {m \in Message : Kind[m] = kind /\ PaymentOf[m] = p}

Tell(m, type, p) ==
    events' = Append(events, [cause |-> m, type |-> type, payment |-> p])

Becomes(p, new) == status' = [status EXCEPT ![p] = new]

----------------------------------------------------------------------------
(* The provider, and the row that is made before it is called. *)

Capture(p) ==
    /\ Commands("charge", p) # {}
    /\ captured' = captured \cup {p}
    /\ UNCHANGED <<status, returned, answered, events>>

Return(p) ==
    /\ Commands("refund", p) # {}
    /\ returned' = returned \cup {p}
    /\ UNCHANGED <<status, captured, answered, events>>

Open(p) ==
    /\ status[p] = "NONE"
    /\ Commands("charge", p) # {}
    /\ Becomes(p, "PENDING")
    /\ UNCHANGED <<captured, returned, answered, events>>

----------------------------------------------------------------------------
(* Answers.  The payment told about belongs to the command's order. *)

Answer(m, kind, type, p) ==
    /\ Kind[m] = kind
    /\ m \notin answered
    /\ OrderOf[p] = OrderOf[PaymentOf[m]]
    /\ answered' = answered \cup {m}
    /\ Tell(m, type, p)
    /\ UNCHANGED <<captured, returned>>

\* Only a payment that was captured.
Charged(m, p) ==
    /\ status[p] \in {"NONE", "PENDING", "FAILED", "CHARGED"}
    /\ p \in captured
    /\ Becomes(p, "CHARGED")
    /\ Answer(m, "charge", "payment.charged", p)

\* A charged payment never fails; a payment that a refund has settled stays.
Failed(m, p) ==
    /\ \/ status[p] \in {"NONE", "PENDING", "FAILED"} /\ Becomes(p, "FAILED")
       \/ status[p] \in {"REFUNDED", "REFUND_FAILED"} /\ UNCHANGED status
    /\ Answer(m, "charge", "payment.failed", p)

\* Only a payment that was charged, and whose order got its money back.
Refunded(m, p) ==
    /\ status[p] \in {"CHARGED", "REFUNDED"}
    /\ \E q \in returned : OrderOf[q] = OrderOf[p]
    /\ Becomes(p, "REFUNDED")
    /\ Answer(m, "refund", "payment.refunded", p)

\* What is refunded stays refunded.
RefundFailed(m, p) ==
    /\ \/ /\ status[p] \in {"PENDING", "FAILED", "CHARGED", "REFUND_FAILED"}
          /\ Becomes(p, "REFUND_FAILED")
       \/ /\ \A q \in PaymentId : OrderOf[q] = OrderOf[p] => status[q] = "NONE"
          /\ UNCHANGED status
    /\ Answer(m, "refund", "payment.refund.failed", p)

Dead(m) == \E k \in DOMAIN events : /\ events[k].cause = m
                                    /\ events[k].type = "payment.deadlettered"

DeadLetter(m) ==
    /\ m \in Identified => ~Dead(m)
    /\ Tell(m, "payment.deadlettered", PaymentOf[m])
    /\ UNCHANGED <<status, captured, returned, answered>>

----------------------------------------------------------------------------
Init ==
    /\ status   = [p \in PaymentId |-> "NONE"]
    /\ captured = {}
    /\ returned = {}
    /\ answered = {}
    /\ events   = << >>

Next ==
    \/ \E p \in PaymentId : Capture(p) \/ Return(p) \/ Open(p)
    \/ \E m \in Message, p \in PaymentId : \/ Charged(m, p)
                                           \/ Failed(m, p)
                                           \/ Refunded(m, p)
                                           \/ RefundFailed(m, p)
    \/ \E m \in Message : DeadLetter(m)

Spec == Init /\ [][Next]_vars
============================================================================
