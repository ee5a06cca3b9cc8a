--------------------------- MODULE PaymentDomain ---------------------------
(***************************************************************************)
(* The pure rules of the payment service: what a charge or a refund        *)
(* command decides about a payment row.  A row keeps its status and        *)
(* whether charged_at is set; amounts, currencies, provider references and *)
(* reasons do not influence any decision and are left out.  A row with     *)
(* status "NONE" stands for "no such row" (null in the code).              *)
(*                                                                         *)
(* An operator marked "Mutant" is no part of the model: it is a mistake    *)
(* the code could contain, and a property must tell it from the operator   *)
(* that follows it.                                                        *)
(***************************************************************************)

PaymentStatus ==
    {"NONE", "PENDING", "CHARGED", "FAILED", "REFUNDED", "REFUND_FAILED"}

Row == [status : PaymentStatus, chargedAt : BOOLEAN]

NoRow == [status |-> "NONE", chargedAt |-> FALSE]

\* What the provider answered: no answer was needed, approved, refused.
ProcessorResult == {"none", "ok", "declined"}

AttemptType   == {"charge", "refund"}
AttemptStatus == {"SUCCEEDED", "FAILED"}
ResultType    == {"payment.charged", "payment.failed",
                  "payment.refunded", "payment.refund.failed"}

\* A decision: the row to save for payment id, the attempt to record
\* ("none": no attempt row) and the type of the result event.
Decision(id, row, attempt, event) ==
    [id |-> id, row |-> row, attempt |-> attempt, event |-> event]

----------------------------------------------------------------------------
(* Charge. *)

createPendingChargePayment == [status |-> "PENDING", chargedAt |-> FALSE]

\* Mutant: a charged payment may be charged again.
planChargesAgain(existing) ==
    IF existing.status \in {"NONE", "PENDING", "FAILED", "CHARGED"}
    THEN "call_processor" ELSE "skip_processor"

planCharge(existing) ==
    IF existing.status \in {"NONE", "PENDING", "FAILED"}
    THEN "call_processor" ELSE "skip_processor"

\* Mutant: the replay of a charge records another attempt.
replayRecordsAttempt(id, existing) ==
    Decision(id, existing, "SUCCEEDED", "payment.charged")

replayCharged(id, existing) ==
    Decision(id, existing, "none", "payment.charged")

\* Mutant: a refused command also fails the payment.
rejectFailsPayment(id, existing) ==
    Decision(id, [existing EXCEPT !.status = "FAILED"],
             "FAILED", "payment.failed")

\* The row keeps its status: only its failure reason changes.
rejectIllegalChargeStatus(id, existing) ==
    Decision(id, existing, "FAILED", "payment.failed")

\* Mutant: the provider's refusal is not looked at.
decisionIgnoresRefusal(command, result) ==
    Decision(command, [status |-> "CHARGED", chargedAt |-> TRUE],
             "SUCCEEDED", "payment.charged")

\* The row is rebuilt from the command, under the command's payment id.
decisionFromChargeResult(command, result) ==
    IF result = "ok"
    THEN Decision(command, [status |-> "CHARGED", chargedAt |-> TRUE],
                  "SUCCEEDED", "payment.charged")
    ELSE Decision(command, [status |-> "FAILED", chargedAt |-> FALSE],
                  "FAILED", "payment.failed")

decideCharge(command, id, existing, result) ==
    IF planCharge(existing) = "call_processor"
    THEN decisionFromChargeResult(command, result)
    ELSE IF existing.status = "CHARGED"
         THEN replayCharged(id, existing)
         ELSE rejectIllegalChargeStatus(id, existing)

----------------------------------------------------------------------------
(* Refund. *)

planRefund(existing) ==
    IF existing.status = "CHARGED" THEN "call_processor" ELSE "skip_processor"

\* There is no payment to save and no attempt to record.
refundNotFound(command) ==
    Decision(command, NoRow, "none", "payment.refund.failed")

replayRefunded(id, existing) ==
    Decision(id, existing, "none", "payment.refunded")

rejectIllegalRefundStatus(id, existing) ==
    Decision(id, [existing EXCEPT !.status = "REFUND_FAILED"],
             "FAILED", "payment.refund.failed")

\* Mutant: a refused refund is recorded as made.
refundIgnoresRefusal(id, existing, result) ==
    Decision(id, [existing EXCEPT !.status = "REFUNDED"],
             "SUCCEEDED", "payment.refunded")

decisionFromRefundResult(id, existing, result) ==
    IF result = "ok"
    THEN Decision(id, [existing EXCEPT !.status = "REFUNDED"],
                  "SUCCEEDED", "payment.refunded")
    ELSE Decision(id, [existing EXCEPT !.status = "REFUND_FAILED"],
                  "FAILED", "payment.refund.failed")

decideRefund(command, id, existing, result) ==
    IF planRefund(existing) = "call_processor"
    THEN decisionFromRefundResult(id, existing, result)
    ELSE IF existing.status = "NONE" THEN refundNotFound(command)
    ELSE IF existing.status = "REFUNDED" THEN replayRefunded(id, existing)
    ELSE rejectIllegalRefundStatus(id, existing)
============================================================================
