------------------------- MODULE TransactionalOutbox ------------------------
(***************************************************************************)
(* What ADR 0002 wants of the outbox, with no pollers, claims or leases:   *)
(* a transaction records an event; a recorded event is published, once or  *)
(* more often; an event that the topic has is retired from the outbox.     *)
(* Nothing is taken back.  That every event is published in the end is     *)
(* EveryRowPublished of OutboxRelay, which implements this module.         *)
(***************************************************************************)
CONSTANT Event

VARIABLES
    recorded,      \* the events that transactions have committed
    topic,         \* those that a reader of the topic has been sent
    retired        \* those that the outbox holds as sent

vars == <<recorded, topic, retired>>

Record(e) ==
    /\ recorded' = recorded \cup {e}
    /\ UNCHANGED <<topic, retired>>

\* No event without its transaction.
Publish(e) ==
    /\ e \in recorded
    /\ topic' = topic \cup {e}
    /\ UNCHANGED <<recorded, retired>>

\* No transaction without its event.
Retire(e) ==
    /\ e \in topic
    /\ retired' = retired \cup {e}
    /\ UNCHANGED <<recorded, topic>>

Init ==
    /\ recorded = {}
    /\ topic    = {}
    /\ retired  = {}

Next == \E e \in Event : Record(e) \/ Publish(e) \/ Retire(e)

Spec == Init /\ [][Next]_vars
=============================================================================
