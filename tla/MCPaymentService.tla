-------------------------- MODULE MCPaymentService -------------------------
(* A small instance of PaymentService for TLC. *)
EXTENDS PaymentService, TLC

CONSTANTS i1, c1, p1, o1, t1, m2, m3

OneCharge == [p \in Partition |-> <<c1>>]
Kinds == [m \in Message |-> "charge"]
OnePayment == [m \in Message |-> p1]
OneOrder == [p \in PaymentId |-> o1]
Variables == {"SERVICE_NAME", "DATABASE_URL", "KAFKA_BOOTSTRAP_SERVERS",
              "OTEL_EXPORTER_OTLP_ENDPOINT", "LOG_LEVEL",
              "ORDER_SERVICE_BASE_URL", "ORDER_SERVICE_TIMEOUT_MS"}
Good == [i \in Instance |->
    [text |-> [v \in Variables |-> "valid"], port |-> 3002]]
Timestamps == (m2 :> 2) @@ (m3 :> 3)
============================================================================
