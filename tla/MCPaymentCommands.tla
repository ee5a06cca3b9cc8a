------------------------- MODULE MCPaymentCommands -------------------------
(* Small instances of PaymentCommands for TLC. *)
EXTENDS PaymentCommands, TLC

CONSTANTS i1, i2, c1, c2, r1, g1, g2, x1, n1, p1, p2, o1, t1, t2

\* A calm state allows no behaviour that a disturbed one does not: the safety
\* runs do not look beyond it.
NotCalm == ~calm

Symmetry == Permutations(Instance)

\* One order, one payment: a charge, a refund, a second charge.
OneOrderLog == [p \in Partition |-> <<c1, r1, c2>>]
OneOrderKind == (c1 :> "charge") @@ (c2 :> "charge") @@ (r1 :> "refund")
OneOrderPayment == [m \in Message |-> p1]
OneOrderOf == [p \in PaymentId |-> o1]

\* A refused message; an order that gets a second payment id: charge p1, charge
\* p2, refund p2; the first charge, produced a second time; a message that cannot
\* be dead-lettered.
TwoPaymentsLog == [p \in Partition |-> <<x1, c1, c2, r1, c1, n1>>]
TwoPaymentsKind == OneOrderKind @@ (x1 :> "poison") @@ (n1 :> "null")
TwoPaymentsOf == [m \in Message |-> IF m \in {c2, r1} THEN p2 ELSE p1]

\* A message the service cannot dead-letter, before a charge.
NullLog == [p \in Partition |-> <<n1, c1>>]
NullKind == (c1 :> "charge") @@ (n1 :> "null")

\* Two partitions: each begins with a message without a messageId; a charge.
PartitionsLog == (t1 :> <<g1, c1>>) @@ (t2 :> <<g2>>)
PartitionsKind == [m \in Message |-> IF m = c1 THEN "charge" ELSE "garbage"]

\* Two messages without a messageId, in two partitions.
UnreadableLog == (t1 :> <<g1>>) @@ (t2 :> <<g2>>)
UnreadableKind == [m \in Message |-> "garbage"]

\* The faults are over before the first delivery.
NoFault == calm'

\* Every log here is one that a sender can produce.
ASSUME LogsAreKeyed == KeyedByOrder
============================================================================
