---------------------------- MODULE MCOrderFlow ----------------------------
(* A small instance of OrderFlow for TLC. *)
EXTENDS OrderFlow, TLC

CONSTANTS gw, gw2, os, ps, db1, db2, m1, m2, m3, a, g

Processes == (gw :> "api-gateway") @@ (gw2 :> "api-gateway") @@ (os :> "order-service")
             @@ (ps :> "payment-service")
Good == [text |-> [v \in Variable |-> "valid"], port |-> 65535]
Environments == [i \in Instance |->
    IF i = gw2 THEN [Good EXCEPT !.text["LOG_LEVEL"] = "malformed"] ELSE Good]
ServiceOf == [i \in Instance |-> Processes[i]]
OwnDatabase == [i \in Instance |-> IF i = ps THEN db2 ELSE db1]
OneDatabase == [i \in Instance |-> db1]
Folders == [s \in ServiceName |->
    CASE s = "order-service" -> {m1}
      [] s = "payment-service" -> {m2, m3}
      [] OTHER -> {}]
Timestamps == (m1 :> 1) @@ (m2 :> 2) @@ (m3 :> 3)

Entry(product, quantity, price) ==
    [productId |-> product, quantity |-> quantity, unitPriceCents |-> price]
Purchase(items) ==
    [customerId |-> "padded", currency |-> "USD", items |-> items]

\* Two items, filling the total's column; one cent too much; not valid.
Bodies == {Purchase(<<Entry("padded", 2, 3), Entry("plain", 1, 1)>>),
           Purchase(<<Entry("plain", 8, 1)>>),
           Purchase(<<Entry("plain", 1, 1), Entry("plain", 0, 1)>>)}

\* Bodies with up to three items, of small numbers.
SmallItems == {Entry(product, n, price) :
                  product \in {"padded", "plain"}, n \in 0..2, price \in 0..2}
SmallBodies == {Purchase(items) : items \in UNION {[1..n -> SmallItems] : n \in 0..3}}

\* The total that the code computes, against the sum over the items.
ASSUME SmallTotals == \A body \in SmallBodies \cup Body : TotalIsSum(body)
============================================================================
