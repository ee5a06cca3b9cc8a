--------------------------- MODULE OrderContract ---------------------------
(***************************************************************************)
(* The create-order contract that api-gateway and order-service share:     *)
(* which request bodies are orders, what the validated order is, and its   *)
(* total.  A text is absent (or no string), blank, padded with white space *)
(* or plain; a number that is no positive integer is 0; a list that is     *)
(* missing is empty.                                                       *)
(*                                                                         *)
(* An operator marked "Mutant" is no part of the model: it is a mistake    *)
(* the code could contain, and a property must tell it from the operator   *)
(* that follows it.                                                        *)
(***************************************************************************)
EXTENDS Integers, Sequences
LOCAL INSTANCE SequencesExt

Text == {"absent", "blank", "padded", "plain"}

\* A currency is supported only as it is written, without padding.
Currency == {"absent", "blank", "padded", "USD", "other"}

Item == [productId : Text, quantity : Nat, unitPriceCents : Nat]

CreateOrderRequest == [customerId : Text, currency : Currency, items : Seq(Item)]

isNonEmptyString(text) == text \in {"padded", "plain"}

isPositiveInteger(n) == n > 0

Trimmed(text) == IF text = "padded" THEN "plain" ELSE text

isValidItem(item) ==
    /\ isNonEmptyString(item.productId)
    /\ isPositiveInteger(item.quantity)
    /\ isPositiveInteger(item.unitPriceCents)

\* The body is refused unless all of this holds (the code reports the first
\* that does not).
isValidCreateOrder(body) ==
    /\ isNonEmptyString(body.customerId)
    /\ body.currency = "USD"
    /\ Len(body.items) > 0
    /\ \A k \in DOMAIN body.items : isValidItem(body.items[k])

\* Mutant: the items that are not valid are left out of the order.
validatedWithoutItems(body) ==
    [customerId |-> Trimmed(body.customerId),
     currency   |-> body.currency,
     items      |-> << >>]

\* What validateCreateOrder returns for a body it does not refuse.
validateCreateOrder(body) ==
    [customerId |-> Trimmed(body.customerId),
     currency   |-> body.currency,
     items      |-> [k \in DOMAIN body.items |->
                       [body.items[k] EXCEPT !.productId = Trimmed(@)]]]

calculateTotalAmountCents(items) ==
    FoldSeq(LAMBDA item, total : total + item.quantity * item.unitPriceCents,
            0, items)
============================================================================
