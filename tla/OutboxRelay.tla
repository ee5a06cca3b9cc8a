---------------------------- MODULE OutboxRelay ----------------------------
(***************************************************************************)
(* The publishing side of the payment service: every replica polls the     *)
(* outbox, claims a batch of unpublished rows for the length of a lease,   *)
(* produces them to Kafka one by one and marks each published.             *)
(*                                                                         *)
(* A lease is kept as the time it has left; 0 stands for no lease and for  *)
(* an expired one, which the claim query does not distinguish.  The claim  *)
(* transaction is two steps, because its row locks make others skip rows   *)
(* and wait; every other statement is one step.                            *)
(*                                                                         *)
(* An operator marked "Mutant" is no part of the model: it is a mistake    *)
(* the code could contain, and a property must tell it from the operator   *)
(* that follows it.                                                        *)
(***************************************************************************)
EXTENDS Integers, FiniteSets

CONSTANTS
    Instance,     \* replicas of the service
    MaxRows,      \* bound: outbox rows, numbered in the order of created_at
    KeyOf,        \* row -> its partition key, the order's id
    Limit,        \* rows claimed at once
    LeaseTicks,   \* length of a lease
    Nobody,       \* claimed_by is null
    Gone          \* claimed_by names a process that has died

RowId == 1..MaxRows

ASSUME RelayAssumption ==
    /\ Nobody \notin Instance
    /\ Gone \notin Instance
    /\ Nobody # Gone
    /\ MaxRows \in Nat
    /\ Limit \in Nat \ {0}
    /\ LeaseTicks \in Nat \ {0}

VARIABLES
    inserted,     \* number of rows in outbox_events
    rows,         \* row -> published_at set, claimed_by, lease time left
    delivered,    \* rows the topic has received at least once
    poller,       \* replica -> its drain: step, rows left, lease time left
    inFlight,     \* replica -> the variable inFlight holds the running drain
    life,         \* replica -> progress of stop()
    calm          \* no more crashes, stops, failed calls or slow drains

vars == <<inserted, rows, delivered, poller, inFlight, life, calm>>

----------------------------------------------------------------------------
OutboxRow == [published : BOOLEAN, claimedBy : Instance \cup {Nobody, Gone},
              lease : 0..LeaseTicks]

Free      == [published |-> FALSE, claimedBy |-> Nobody, lease |-> 0]
Published == [published |-> TRUE, claimedBy |-> Nobody, lease |-> 0]

Poller == [pc : {"idle", "claim", "send", "mark", "release"},
           batch : SUBSET RowId, lease : 0..LeaseTicks]

Resting == [pc |-> "idle", batch |-> {}, lease |-> 0]

Publishing(i) == poller[i].pc # "idle"

\* The record the loop is at: the batch is in the order of created_at.
Current(i) == CHOOSE k \in poller[i].batch :
                 \A l \in poller[i].batch : k <= l

\* Rows under the row lock of a claim transaction.
Locked(k) == \E i \in Instance : poller[i].pc = "claim" /\ k \in poller[i].batch

\* Mutant: an expired lease does not free the row.
ClaimableIfUnclaimed(k) ==
    /\ k <= inserted
    /\ ~rows[k].published
    /\ rows[k].claimedBy = Nobody
    /\ ~Locked(k)

\* Unpublished, lease null or expired; SKIP LOCKED.
Claimable(k) ==
    /\ k <= inserted
    /\ ~rows[k].published
    /\ rows[k].lease = 0
    /\ ~Locked(k)

FirstClaimable ==
    {k \in RowId : /\ Claimable(k)
                   /\ Cardinality({l \in 1..(k - 1) : Claimable(l)}) < Limit}

\* The drain ends: publishing = false, and the promise of this run resolves.
Finish(i) ==
    /\ poller' = [poller EXCEPT ![i] = Resting]
    /\ inFlight' = [inFlight EXCEPT ![i] = FALSE]

Goto(i, pc) ==
    /\ poller' = [poller EXCEPT ![i].pc = pc]
    /\ UNCHANGED inFlight

----------------------------------------------------------------------------
(* Draining. *)

\* A command handler commits a transaction with an outbox row.
Insert ==
    /\ inserted < MaxRows
    /\ inserted' = inserted + 1
    /\ UNCHANGED <<rows, delivered, poller, inFlight, life, calm>>

\* The timer starts a drain, which selects and locks its batch; the lease
\* runs from the start of the transaction.
TriggerPublish(i) ==
    /\ life[i] = "running"
    /\ ~Publishing(i)
    /\ FirstClaimable # {}
    /\ poller' = [poller EXCEPT ![i] = [pc |-> "claim", lease |-> LeaseTicks,
                                        batch |-> FirstClaimable]]
    /\ inFlight' = [inFlight EXCEPT ![i] = TRUE]
    /\ UNCHANGED <<inserted, rows, delivered, life, calm>>

\* The timer fires during a drain: the new run returns at once, but it has
\* replaced the running one in inFlight, and clears it.
TriggerWhilePublishing(i) ==
    /\ life[i] = "running"
    /\ Publishing(i)
    /\ inFlight' = [inFlight EXCEPT ![i] = FALSE]
    /\ UNCHANGED <<inserted, rows, delivered, poller, life, calm>>

claimUnpublishedOutbox(i) ==
    /\ poller[i].pc = "claim"
    /\ rows' = [k \in RowId |->
          IF k \in poller[i].batch
          THEN [rows[k] EXCEPT !.claimedBy = i, !.lease = poller[i].lease]
          ELSE rows[k]]
    /\ Goto(i, "send")
    /\ UNCHANGED <<inserted, delivered, life, calm>>

ClaimFails(i) ==
    /\ ~calm
    /\ poller[i].pc = "claim"
    /\ Finish(i)
    /\ UNCHANGED <<inserted, rows, delivered, life, calm>>

Send(i) ==
    /\ poller[i].pc = "send"
    /\ delivered' = delivered \cup {Current(i)}
    /\ Goto(i, "mark")
    /\ UNCHANGED <<inserted, rows, life, calm>>

\* Mutant: a failed send is treated as a successful one.
SendFailureIgnored(i) ==
    /\ ~calm
    /\ poller[i].pc = "send"
    /\ \/ delivered' = delivered \cup {Current(i)}
       \/ UNCHANGED delivered
    /\ Goto(i, "mark")
    /\ UNCHANGED <<inserted, rows, life, calm>>

\* producer.send raises; the record may have reached the topic.
SendFails(i) ==
    /\ ~calm
    /\ poller[i].pc = "send"
    /\ \/ delivered' = delivered \cup {Current(i)}
       \/ UNCHANGED delivered
    /\ Goto(i, "release")
    /\ UNCHANGED <<inserted, rows, life, calm>>

\* UPDATE ... WHERE id = k AND claimed_by = i AND published_at IS NULL.
Owns(i, k) == rows[k].claimedBy = i /\ ~rows[k].published

\* Mutant: the update leaves the claim in place.
MarkKeepsClaim(i, k) ==
    rows' = IF Owns(i, k)
            THEN [rows EXCEPT ![k].published = TRUE] ELSE rows

\* Mutant: one update marks all rows of the batch.
MarkBatch(i, k) ==
    rows' = [l \in RowId |-> IF l \in poller[i].batch /\ Owns(i, l)
                             THEN Published ELSE rows[l]]

MarkPublished(i, k) ==
    rows' = IF Owns(i, k) THEN [rows EXCEPT ![k] = Published] ELSE rows

\* Mutant: the owner is not compared.
ReleaseAnyClaim(i, k) ==
    rows' = IF ~rows[k].published THEN [rows EXCEPT ![k] = Free] ELSE rows

ReleaseClaim(i, k) ==
    rows' = IF Owns(i, k) THEN [rows EXCEPT ![k] = Free] ELSE rows

\* Mutant: the loop does not notice the end of the batch.
markWithoutEnd(i) ==
    /\ poller[i].pc = "mark"
    /\ ~Locked(Current(i))
    /\ MarkPublished(i, Current(i))
    /\ poller' = [poller EXCEPT ![i].pc = "send",
                               ![i].batch = @ \ {Current(i)}]
    /\ UNCHANGED <<inserted, delivered, inFlight, life, calm>>

markOutboxPublished(i) ==
    /\ poller[i].pc = "mark"
    /\ ~Locked(Current(i))
    /\ MarkPublished(i, Current(i))
    /\ IF poller[i].batch = {Current(i)}
       THEN Finish(i)
       ELSE /\ poller' = [poller EXCEPT ![i].pc = "send",
                                        ![i].batch = @ \ {Current(i)}]
            /\ UNCHANGED inFlight
    /\ UNCHANGED <<inserted, delivered, life, calm>>

\* The update raises, with or without effect.
MarkFails(i) ==
    /\ ~calm
    /\ poller[i].pc = "mark"
    /\ \/ ~Locked(Current(i)) /\ MarkPublished(i, Current(i))
       \/ UNCHANGED rows
    /\ Goto(i, "release")
    /\ UNCHANGED <<inserted, delivered, life, calm>>

\* After a failure the loop releases this record and breaks: the claims of
\* the rest of the batch stay until they expire.
releaseOutboxClaim(i) ==
    /\ poller[i].pc = "release"
    /\ ~Locked(Current(i))
    /\ ReleaseClaim(i, Current(i))
    /\ Finish(i)
    /\ UNCHANGED <<inserted, delivered, life, calm>>

ReleaseFails(i) ==
    /\ ~calm
    /\ poller[i].pc = "release"
    /\ Finish(i)
    /\ UNCHANGED <<inserted, rows, delivered, life, calm>>

----------------------------------------------------------------------------
(* Time, shutdown and crashes. *)

Aged(lease) == IF lease > 0 THEN lease - 1 ELSE 0

\* Time passes for the leases in the table and for the pollers' own.  A drain
\* may outlive its lease, except in a calm system.
Tick ==
    /\ calm => \A i \in Instance : ~Publishing(i)
    /\ \/ \E k \in RowId : rows[k].lease > 0
       \/ \E i \in Instance : poller[i].lease > 0
    /\ rows' = [k \in RowId |-> [rows[k] EXCEPT !.lease = Aged(@)]]
    /\ poller' = [i \in Instance |-> [poller[i] EXCEPT !.lease = Aged(@)]]
    /\ UNCHANGED <<inserted, delivered, inFlight, life, calm>>

\* stop(): the timer is cleared, a drain found in inFlight is awaited.
Stop(i) ==
    /\ ~calm
    /\ life[i] = "running"
    /\ life' = [life EXCEPT ![i] =
                  IF inFlight[i] THEN "waiting" ELSE "releasing"]
    /\ UNCHANGED <<inserted, rows, delivered, poller, inFlight, calm>>

DrainAwaited(i) ==
    /\ life[i] = "waiting"
    /\ ~Publishing(i)
    /\ life' = [life EXCEPT ![i] = "releasing"]
    /\ UNCHANGED <<inserted, rows, delivered, poller, inFlight, calm>>

releaseAllOutboxClaims(i) ==
    /\ life[i] = "releasing"
    /\ \A k \in RowId : Owns(i, k) => ~Locked(k)
    /\ rows' = [k \in RowId |-> IF Owns(i, k) THEN Free ELSE rows[k]]
    /\ life' = [life EXCEPT ![i] = "stopped"]
    /\ UNCHANGED <<inserted, delivered, poller, inFlight, calm>>

\* The process ends, and another with a new instance id takes its place.
Restart(i) ==
    /\ rows' = [k \in RowId |-> IF rows[k].claimedBy = i
                                THEN [rows[k] EXCEPT !.claimedBy = Gone]
                                ELSE rows[k]]
    /\ life' = [life EXCEPT ![i] = "running"]
    /\ Finish(i)
    /\ UNCHANGED <<inserted, delivered, calm>>

Exit(i)  == life[i] = "stopped" /\ Restart(i)
Crash(i) == ~calm /\ Restart(i)

Stabilise ==
    /\ ~calm
    /\ calm' = TRUE
    /\ UNCHANGED <<inserted, rows, delivered, poller, inFlight, life>>

----------------------------------------------------------------------------
Init ==
    /\ inserted  = 0
    /\ rows      = [k \in RowId |-> Free]
    /\ delivered = {}
    /\ poller    = [i \in Instance |-> Resting]
    /\ inFlight  = [i \in Instance |-> FALSE]
    /\ life      = [i \in Instance |-> "running"]
    /\ calm      = FALSE

Drain(i) ==
    \/ TriggerPublish(i)
    \/ claimUnpublishedOutbox(i)
    \/ Send(i)
    \/ markOutboxPublished(i)
    \/ releaseOutboxClaim(i)

Shutdown(i) ==
    \/ DrainAwaited(i)
    \/ releaseAllOutboxClaims(i)
    \/ Exit(i)

Fault(i) ==
    \/ ClaimFails(i)
    \/ SendFails(i)
    \/ MarkFails(i)
    \/ ReleaseFails(i)
    \/ Stop(i)
    \/ Crash(i)

Next ==
    \/ \E i \in Instance :
          Drain(i) \/ Shutdown(i) \/ Fault(i) \/ TriggerWhilePublishing(i)
    \/ Insert
    \/ Tick
    \/ Stabilise

Spec == Init /\ [][Next]_vars

\* Drains and shutdowns make progress, time passes, faults end.
Fairness ==
    /\ \A i \in Instance : WF_vars(Drain(i)) /\ WF_vars(Shutdown(i))
    /\ WF_vars(Tick)
    /\ WF_vars(Stabilise)

FairSpec == Spec /\ Fairness

----------------------------------------------------------------------------
(* Properties. *)

\* Every variable stays in its range, and a working poller has rows to work on.
TypeOK ==
    /\ inserted  \in 0..MaxRows
    /\ rows      \in [RowId -> OutboxRow]
    /\ delivered \subseteq RowId
    /\ poller    \in [Instance -> Poller]
    /\ inFlight  \in [Instance -> BOOLEAN]
    /\ life      \in [Instance -> {"running", "waiting", "releasing", "stopped"}]
    /\ calm      \in BOOLEAN
    /\ \A i \in Instance : Publishing(i) <=> poller[i].batch # {}

\* No event is lost: a row is marked published only when the topic has it.
PublishedIsDelivered ==
    \A k \in RowId : rows[k].published => k \in delivered

\* A published row carries no claim, so that nothing can claim or lease it.
PublishedIsUnclaimed ==
    \A k \in RowId : rows[k].published =>
        rows[k].claimedBy = Nobody /\ rows[k].lease = 0

\* Two pollers hold the same row only after the lease of one ran out, or one
\* of them has released its claims in stop().
LeaseExclusive ==
    \A i, j \in Instance : \A k \in poller[i].batch \cap poller[j].batch :
        \/ i = j
        \/ poller[i].lease = 0 \/ poller[j].lease = 0
        \/ life[i] = "stopped" \/ life[j] = "stopped"

\* ADR 0002: a row is recorded, then sent, then marked, and none of it is ever
\* undone: whatever the claims and crashes of the replicas, a row that no
\* transaction inserted is not on the topic, and a marked row never reappears.
Outbox == INSTANCE TransactionalOutbox WITH
    Event    <- RowId,
    recorded <- 1..inserted,
    topic    <- delivered,
    retired  <- {k \in RowId : rows[k].published}

ImplementsOutbox == Outbox!Spec

\* Once the faults end every row is published, whatever state the failed,
\* crashed and stopped drains left the claims in.
EveryRowPublished ==
    <>[](\A k \in 1..inserted : rows[k].published)

\* ADR 0002, line 40: "On shutdown, wait for the in-flight drain, then release
\* remaining claims for this instance."
ShutdownWaitsForDrain ==
    \A i \in Instance :
        life[i] \in {"releasing", "stopped"} => ~Publishing(i)

\* Topic conventions, line 56: the records of an order "preserve order".
OrderPreserved ==
    \A k \in delivered : \A l \in 1..(k - 1) :
        KeyOf[l] = KeyOf[k] => l \in delivered
============================================================================
