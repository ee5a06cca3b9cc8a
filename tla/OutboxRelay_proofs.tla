------------------------- MODULE OutboxRelay_proofs -------------------------
(***************************************************************************)
(* Proofs about OutboxRelay, for any number of replicas and rows and any   *)
(* lease: type correctness, no event marked published before the topic has *)
(* it, and leases that exclude each other.                                 *)
(***************************************************************************)
EXTENDS OutboxRelay, TLAPS, WellFoundedInduction

\* A non-empty set of naturals has a least element, so the loop of a drain
\* always has a record to go to.
LEMMA HasLeast ==
    ASSUME NEW T, T \subseteq Nat, T # {}
    PROVE  \E x \in T : \A y \in T : x <= y
<1> DEFINE R == OpToRel(<, Nat)
<1>1. IsWellFoundedOn(R, Nat)
  BY NatLessThanWellFounded
<1>2. \A x, y \in Nat : <<y, x>> \in R <=> y < x
  BY DEF OpToRel
<1> HIDE DEF R
<1>3. \E x \in T : \A y \in T : ~ (<<y, x>> \in R)
  BY <1>1, WFMin
<1>4. PICK x \in T : \A y \in T : ~ (<<y, x>> \in R)
  BY <1>3
<1>5. ASSUME NEW y \in T
      PROVE  x <= y
  <2>1. x \in Nat /\ y \in Nat
    OBVIOUS
  <2>2. ~ (y < x)
    BY <1>2, <1>4, <2>1
  <2> QED
    BY <2>1, <2>2
<1> QED
  BY <1>5

\* The current record of a working poller is a row of its batch.
LEMMA CurrentInBatch ==
    ASSUME TypeOK, NEW i \in Instance, Publishing(i)
    PROVE  Current(i) \in poller[i].batch /\ Current(i) \in RowId
<1>1. poller[i].batch # {} /\ poller[i].batch \subseteq RowId
  BY DEF TypeOK, Poller
<1>2. RowId \subseteq Nat
  BY RelayAssumption DEF RowId
<1>3. \E k \in poller[i].batch : \A l \in poller[i].batch : k <= l
  BY <1>1, <1>2, HasLeast
<1> QED
  BY <1>1, <1>3 DEF Current

----------------------------------------------------------------------------
(* What a tick does to one row and to one poller. *)

\* Ageing keeps a lease in range.
LEMMA AgedLease ==
    ASSUME NEW l \in 0..LeaseTicks
    PROVE  Aged(l) \in 0..LeaseTicks
BY RelayAssumption DEF Aged

\* A tick ages the lease of a row and nothing else of it.
LEMMA TickRows ==
    ASSUME TypeOK, Tick, NEW k \in RowId
    PROVE  /\ rows'[k].published = rows[k].published
           /\ rows'[k].claimedBy = rows[k].claimedBy
           /\ rows'[k].lease = Aged(rows[k].lease)
           /\ rows'[k] \in OutboxRow
<1>1. rows[k] \in OutboxRow
  BY DEF TypeOK
<1>2. Aged(rows[k].lease) \in 0..LeaseTicks
  BY <1>1, AgedLease DEF OutboxRow
<1>3. rows'[k] = [rows[k] EXCEPT !.lease = Aged(rows[k].lease)]
  BY DEF Tick
<1> QED
  BY <1>1, <1>2, <1>3 DEF OutboxRow

\* A claim writes the owner and the lease of the rows of its batch.
LEMMA ClaimRows ==
    ASSUME TypeOK, NEW i \in Instance, claimUnpublishedOutbox(i), NEW k \in RowId
    PROVE  /\ rows'[k].published = rows[k].published
           /\ k \in poller[i].batch => /\ rows'[k].claimedBy = i
                                       /\ rows'[k].lease = poller[i].lease
           /\ k \notin poller[i].batch => rows'[k] = rows[k]
<1>1. rows[k] \in OutboxRow
  BY DEF TypeOK
<1>2. rows'[k] = IF k \in poller[i].batch
                 THEN [rows[k] EXCEPT !.claimedBy = i, !.lease = poller[i].lease]
                 ELSE rows[k]
  BY DEF claimUnpublishedOutbox
<1> QED
  BY <1>1, <1>2 DEF OutboxRow

\* A tick ages the lease of a poller and nothing else of it.
LEMMA TickPollers ==
    ASSUME TypeOK, Tick, NEW i \in Instance
    PROVE  /\ poller'[i].pc = poller[i].pc
           /\ poller'[i].batch = poller[i].batch
           /\ poller'[i].lease = Aged(poller[i].lease)
           /\ poller'[i] \in Poller
<1>1. poller[i] \in Poller
  BY DEF TypeOK
<1>2. Aged(poller[i].lease) \in 0..LeaseTicks
  BY <1>1, AgedLease DEF Poller
<1>3. poller'[i] = [poller[i] EXCEPT !.lease = Aged(poller[i].lease)]
  BY DEF Tick
<1> QED
  BY <1>1, <1>2, <1>3 DEF Poller

----------------------------------------------------------------------------
(* Type correctness. *)

\* The constant records are in their types.
LEMMA Values ==
    /\ Resting \in Poller /\ Resting.pc = "idle" /\ Resting.batch = {}
    /\ Free \in OutboxRow
    /\ Published \in OutboxRow
<1>1. 0 \in 0..LeaseTicks
  BY RelayAssumption
<1>2. Published \in OutboxRow
  BY <1>1 DEF Published, OutboxRow
<1>3. Resting \in Poller
  <2>1. {} \in SUBSET RowId
    OBVIOUS
  <2> QED
    BY <1>1, <2>1 DEF Resting, Poller
<1>4. Free \in OutboxRow
  BY <1>1 DEF Free, OutboxRow
<1>5. Resting.pc = "idle" /\ Resting.batch = {}
  BY DEF Resting
<1> QED
  BY <1>2, <1>3, <1>4, <1>5

\* The end of a drain keeps the types of the replica's memory.
LEMMA FinishType ==
    ASSUME TypeOK, NEW i \in Instance, Finish(i)
    PROVE  /\ poller' \in [Instance -> Poller]
           /\ inFlight' \in [Instance -> BOOLEAN]
           /\ \A j \in Instance :
                 poller'[j].pc # "idle" <=> poller'[j].batch # {}
<1>1. poller' = [poller EXCEPT ![i] = Resting]
  BY DEF Finish
<1> QED
  BY <1>1, Values DEF Finish, TypeOK, Publishing

\* The initial state has its types.
LEMMA TypeInit == Init => TypeOK
<1> SUFFICES ASSUME Init PROVE TypeOK
  OBVIOUS
<1>1. \A i \in Instance : Publishing(i) <=> poller[i].batch # {}
  BY Values DEF Init, Publishing
<1>2. inserted \in 0..MaxRows
  BY RelayAssumption DEF Init
<1>3. rows \in [RowId -> OutboxRow] /\ poller \in [Instance -> Poller]
  BY Values DEF Init
<1> QED
  BY <1>1, <1>2, <1>3 DEF Init, TypeOK

\* Every step keeps the types.
LEMMA TypeStep == TypeOK /\ [Next]_vars => TypeOK'
<1> SUFFICES ASSUME TypeOK, [Next]_vars
             PROVE  TypeOK'
  OBVIOUS
<1> USE RelayAssumption
<1>1. ASSUME NEW i \in Instance, TriggerPublish(i)
      PROVE  TypeOK'
  <2>1. FirstClaimable \subseteq RowId
    BY DEF FirstClaimable
  <2> QED
    BY <1>1, <2>1 DEF TriggerPublish, TypeOK, Poller, Publishing
<1>2. ASSUME NEW i \in Instance, claimUnpublishedOutbox(i)
      PROVE  TypeOK'
  BY <1>2 DEF claimUnpublishedOutbox, Goto, TypeOK, Poller, OutboxRow, Publishing
<1>3. ASSUME NEW i \in Instance, Send(i)
      PROVE  TypeOK'
  <2>1. Current(i) \in RowId
    BY <1>3, CurrentInBatch DEF Send, Publishing
  <2> QED
    BY <1>3, <2>1 DEF Send, Goto, TypeOK, Poller, Publishing
<1>4. ASSUME NEW i \in Instance, markOutboxPublished(i)
      PROVE  TypeOK'
  <2>1. Current(i) \in RowId /\ Current(i) \in poller[i].batch
    BY <1>4, CurrentInBatch DEF markOutboxPublished, Publishing
  <2>2. rows' \in [RowId -> OutboxRow]
    BY <1>4, <2>1, Values DEF markOutboxPublished, MarkPublished, TypeOK
  <2>3. CASE poller[i].batch = {Current(i)}
    BY <1>4, <2>2, <2>3, FinishType DEF markOutboxPublished, TypeOK, Publishing
  <2>4. CASE poller[i].batch # {Current(i)}
    <3>1. poller[i].batch \ {Current(i)} # {}
      BY <2>1, <2>4
    <3>2. poller' = [poller EXCEPT ![i] =
             [pc |-> "send", batch |-> poller[i].batch \ {Current(i)},
              lease |-> poller[i].lease]]
      BY <1>4, <2>4 DEF markOutboxPublished, TypeOK, Poller
    <3> QED
      BY <1>4, <2>2, <2>4, <3>1, <3>2
         DEF markOutboxPublished, TypeOK, Poller, Publishing
  <2> QED
    BY <2>3, <2>4
<1>5. ASSUME NEW i \in Instance, releaseOutboxClaim(i)
      PROVE  TypeOK'
  <2>1. Current(i) \in RowId
    BY <1>5, CurrentInBatch DEF releaseOutboxClaim, Publishing
  <2> QED
    BY <1>5, <2>1, Values, FinishType
       DEF releaseOutboxClaim, ReleaseClaim, TypeOK, Publishing
<1>6. ASSUME NEW i \in Instance, Shutdown(i) \/ Stop(i) \/ Crash(i)
      PROVE  TypeOK'
  <2>1. CASE DrainAwaited(i) \/ Stop(i)
    BY <2>1 DEF DrainAwaited, Stop, TypeOK, Publishing
  <2>2. CASE releaseAllOutboxClaims(i)
    BY <2>2, Values DEF releaseAllOutboxClaims, TypeOK, Publishing
  <2>3. CASE Exit(i) \/ Crash(i)
    <3>1. Restart(i)
      BY <2>3 DEF Exit, Crash
    <3>2. rows' \in [RowId -> OutboxRow]
      BY <3>1 DEF Restart, TypeOK, OutboxRow
    <3> QED
      BY <3>1, <3>2, FinishType DEF Restart, TypeOK, Publishing
  <2> QED
    BY <1>6, <2>1, <2>2, <2>3 DEF Shutdown
<1>7. ASSUME NEW i \in Instance, ClaimFails(i) \/ ReleaseFails(i)
      PROVE  TypeOK'
  BY <1>7, FinishType DEF ClaimFails, ReleaseFails, TypeOK, Publishing
<1>8. ASSUME NEW i \in Instance, SendFails(i)
      PROVE  TypeOK'
  <2>1. Current(i) \in RowId
    BY <1>8, CurrentInBatch DEF SendFails, Publishing
  <2> QED
    BY <1>8, <2>1 DEF SendFails, Goto, TypeOK, Poller, Publishing
<1>9. ASSUME NEW i \in Instance, MarkFails(i)
      PROVE  TypeOK'
  <2>1. Current(i) \in RowId
    BY <1>9, CurrentInBatch DEF MarkFails, Publishing
  <2>2. rows' \in [RowId -> OutboxRow]
    BY <1>9, <2>1, Values DEF MarkFails, MarkPublished, TypeOK
  <2> QED
    BY <1>9, <2>2 DEF MarkFails, Goto, TypeOK, Poller, Publishing
<1>10. ASSUME NEW i \in Instance, TriggerWhilePublishing(i)
       PROVE  TypeOK'
  BY <1>10 DEF TriggerWhilePublishing, TypeOK, Publishing
<1>11. CASE Insert
  BY <1>11 DEF Insert, TypeOK, Publishing
<1>12. CASE Tick
  <2>1. \A k \in RowId : rows'[k] \in OutboxRow
    BY <1>12, TickRows DEF TypeOK, OutboxRow
  <2>2. \A i \in Instance : /\ poller'[i] \in Poller
                            /\ poller'[i].pc = poller[i].pc
                            /\ poller'[i].batch = poller[i].batch
    BY <1>12, TickPollers DEF TypeOK, Poller
  <2> QED
    BY <1>12, <2>1, <2>2 DEF Tick, TypeOK, Publishing
<1>13. CASE Stabilise \/ UNCHANGED vars
  BY <1>13 DEF Stabilise, vars, TypeOK, Publishing
<1> QED
  BY <1>1, <1>2, <1>3, <1>4, <1>5, <1>6, <1>7, <1>8, <1>9, <1>10, <1>11, <1>12,
     <1>13 DEF Next, Drain, Fault

\* Every variable of the relay stays in its range.
THEOREM RelayTypeCorrect == Spec => []TypeOK
<1> QED
  BY TypeInit, TypeStep, PTL DEF Spec

----------------------------------------------------------------------------
(* No event is lost. *)

\* A poller about to mark its record has produced it.
MarkingIsDelivered ==
    \A i \in Instance : poller[i].pc = "mark" => Current(i) \in delivered

DeliveryInv == TypeOK /\ PublishedIsDelivered /\ MarkingIsDelivered

\* What a poller's current record is depends on its batch alone.
LEMMA SameCurrent ==
    ASSUME NEW i \in Instance, poller'[i].batch = poller[i].batch
    PROVE  Current(i)' = Current(i)
BY DEF Current

\* Steps that change no row's published flag, and make no poller start to mark,
\* keep the delivery invariant.
LEMMA DeliveryKept ==
    ASSUME DeliveryInv,
           delivered \subseteq delivered',
           \A k \in RowId : rows'[k].published => rows[k].published,
           \A i \in Instance : poller'[i].pc = "mark" =>
               poller[i].pc = "mark" /\ poller'[i].batch = poller[i].batch
    PROVE  PublishedIsDelivered' /\ MarkingIsDelivered'
<1>1. PublishedIsDelivered'
  BY DEF DeliveryInv, PublishedIsDelivered
<1>2. ASSUME NEW i \in Instance, poller'[i].pc = "mark"
      PROVE  Current(i)' \in delivered'
  BY <1>2, SameCurrent DEF DeliveryInv, MarkingIsDelivered
<1> QED
  BY <1>1, <1>2 DEF MarkingIsDelivered

\* Every step keeps the delivery invariant.
LEMMA DeliveryStep == DeliveryInv /\ [Next]_vars => DeliveryInv'
<1> SUFFICES ASSUME DeliveryInv, [Next]_vars
             PROVE  PublishedIsDelivered' /\ MarkingIsDelivered'
  BY TypeStep DEF DeliveryInv
<1>0. TypeOK
  BY DEF DeliveryInv
<1>1. ASSUME NEW i \in Instance, TriggerPublish(i)
      PROVE  PublishedIsDelivered' /\ MarkingIsDelivered'
  BY <1>0, <1>1, DeliveryKept DEF TriggerPublish, TypeOK
<1>2. ASSUME NEW i \in Instance, claimUnpublishedOutbox(i)
      PROVE  PublishedIsDelivered' /\ MarkingIsDelivered'
  <2>1. \A k \in RowId : rows'[k].published = rows[k].published
    BY <1>0, <1>2, ClaimRows
  <2>2. \A j \in Instance : poller'[j].pc = "mark" =>
            poller[j].pc = "mark" /\ poller'[j].batch = poller[j].batch
    BY <1>0, <1>2 DEF claimUnpublishedOutbox, Goto, TypeOK, Poller
  <2> QED
    BY <1>2, <2>1, <2>2, DeliveryKept DEF claimUnpublishedOutbox
<1>3. ASSUME NEW i \in Instance, Send(i)
      PROVE  PublishedIsDelivered' /\ MarkingIsDelivered'
  <2>1. PublishedIsDelivered'
    BY <1>3 DEF Send, DeliveryInv, PublishedIsDelivered
  <2>2. ASSUME NEW j \in Instance, poller'[j].pc = "mark"
        PROVE  Current(j)' \in delivered'
    <3>1. poller'[j].batch = poller[j].batch
      BY <1>0, <1>3 DEF Send, Goto, TypeOK, Poller
    <3>2. CASE j = i
      BY <1>3, <3>1, <3>2, SameCurrent DEF Send
    <3>3. CASE j # i
      <4>1. poller[j].pc = "mark"
        BY <1>0, <1>3, <2>2, <3>3 DEF Send, Goto, TypeOK, Poller
      <4> QED
        BY <1>3, <3>1, <4>1, SameCurrent
           DEF Send, DeliveryInv, MarkingIsDelivered
    <3> QED
      BY <3>2, <3>3
  <2> QED
    BY <2>1, <2>2 DEF MarkingIsDelivered
<1>4. ASSUME NEW i \in Instance,
             poller[i].pc = "mark",
             rows' = rows \/ MarkPublished(i, Current(i)),
             delivered' = delivered,
             poller'[i].pc # "mark",
             \A j \in Instance : j # i => poller'[j] = poller[j]
      PROVE  PublishedIsDelivered' /\ MarkingIsDelivered'
  <2>1. Current(i) \in delivered /\ Current(i) \in RowId
    BY <1>0, <1>4, CurrentInBatch
       DEF DeliveryInv, MarkingIsDelivered, Publishing
  <2>2. PublishedIsDelivered'
    BY <1>0, <1>4, <2>1
       DEF MarkPublished, DeliveryInv, PublishedIsDelivered, TypeOK, Published
  <2>3. ASSUME NEW j \in Instance, poller'[j].pc = "mark"
        PROVE  Current(j)' \in delivered'
    BY <1>4, <2>3, SameCurrent DEF DeliveryInv, MarkingIsDelivered
  <2> QED
    BY <2>2, <2>3 DEF MarkingIsDelivered
<1>5. ASSUME NEW i \in Instance, markOutboxPublished(i)
      PROVE  PublishedIsDelivered' /\ MarkingIsDelivered'
  <2>1. poller'[i].pc # "mark" /\ \A j \in Instance : j # i => poller'[j] = poller[j]
    BY <1>0, <1>5, Values DEF markOutboxPublished, Finish, TypeOK, Poller
  <2> QED
    BY <1>4, <1>5, <2>1 DEF markOutboxPublished
<1>6. ASSUME NEW i \in Instance, MarkFails(i)
      PROVE  PublishedIsDelivered' /\ MarkingIsDelivered'
  <2>1. poller'[i].pc # "mark" /\ \A j \in Instance : j # i => poller'[j] = poller[j]
    BY <1>0, <1>6 DEF MarkFails, Goto, TypeOK, Poller
  <2> QED
    BY <1>4, <1>6, <2>1 DEF MarkFails
<1>7. ASSUME NEW i \in Instance, Finish(i),
             delivered' = delivered,
             \A k \in RowId : rows'[k].published => rows[k].published
      PROVE  PublishedIsDelivered' /\ MarkingIsDelivered'
  BY <1>0, <1>7, DeliveryKept, Values DEF Finish, TypeOK
<1>8. ASSUME NEW i \in Instance, releaseOutboxClaim(i)
      PROVE  PublishedIsDelivered' /\ MarkingIsDelivered'
  <2>1. \A k \in RowId : rows'[k].published => rows[k].published
    BY <1>0, <1>8 DEF releaseOutboxClaim, ReleaseClaim, Free, TypeOK
  <2> QED
    BY <1>7, <1>8, <2>1 DEF releaseOutboxClaim
<1>9. ASSUME NEW i \in Instance, SendFails(i)
      PROVE  PublishedIsDelivered' /\ MarkingIsDelivered'
  BY <1>0, <1>9, DeliveryKept DEF SendFails, Goto, TypeOK, Poller
<1>10. ASSUME NEW i \in Instance, ClaimFails(i) \/ ReleaseFails(i)
       PROVE  PublishedIsDelivered' /\ MarkingIsDelivered'
  BY <1>7, <1>10 DEF ClaimFails, ReleaseFails
<1>11. ASSUME NEW i \in Instance, Exit(i) \/ Crash(i)
       PROVE  PublishedIsDelivered' /\ MarkingIsDelivered'
  <2>1. Restart(i)
    BY <1>11 DEF Exit, Crash
  <2>2. \A k \in RowId : rows'[k].published => rows[k].published
    BY <1>0, <2>1 DEF Restart, TypeOK, OutboxRow
  <2> QED
    BY <1>7, <2>1, <2>2 DEF Restart
<1>12. ASSUME NEW i \in Instance, releaseAllOutboxClaims(i)
       PROVE  PublishedIsDelivered' /\ MarkingIsDelivered'
  BY <1>0, <1>12, DeliveryKept DEF releaseAllOutboxClaims, Free, TypeOK
<1>13. ASSUME NEW i \in Instance,
              DrainAwaited(i) \/ Stop(i) \/ TriggerWhilePublishing(i)
       PROVE  PublishedIsDelivered' /\ MarkingIsDelivered'
  BY <1>13, DeliveryKept DEF DrainAwaited, Stop, TriggerWhilePublishing
<1>14. CASE Tick
  BY <1>0, <1>14, DeliveryKept, TickRows, TickPollers DEF Tick
<1>15. CASE Insert \/ Stabilise \/ UNCHANGED vars
  BY <1>15, DeliveryKept DEF Insert, Stabilise, vars
<1> QED
  BY <1>1, <1>2, <1>3, <1>5, <1>6, <1>8, <1>9, <1>10, <1>11, <1>12, <1>13, <1>14,
     <1>15 DEF Next, Drain, Shutdown, Fault

\* No event is lost: the outbox never records as published, and so never stops
\* retrying, an event the topic does not have.
THEOREM PublishedEventsAreDelivered == Spec => []PublishedIsDelivered
<1>1. Init => DeliveryInv
  <2> SUFFICES ASSUME Init PROVE PublishedIsDelivered /\ MarkingIsDelivered
    BY TypeInit DEF DeliveryInv
  <2> QED
    BY Values DEF Init, PublishedIsDelivered, MarkingIsDelivered, Free
<1> QED
  BY <1>1, DeliveryStep, PTL DEF Spec, DeliveryInv

----------------------------------------------------------------------------
(* Leases exclude each other. *)

Draining(i) == poller[i].pc \in {"send", "mark", "release"}

\* The claim of i has not run out and was not given back by stop().
Live(i) == poller[i].lease > 0 /\ life[i] # "stopped"

\* The rows a claim transaction has locked are free, and locked by it alone.
ClaimLock ==
    \A i \in Instance : poller[i].pc = "claim" =>
        \A k \in poller[i].batch :
            /\ ~rows[k].published
            /\ rows[k].lease = 0
            /\ \A j \in Instance :
                  poller[j].pc = "claim" /\ k \in poller[j].batch => j = i

\* While the claim of a draining poller lives, the table knows it as the owner
\* of the rows it still has to publish.
DrainClaim ==
    \A i \in Instance : Draining(i) /\ Live(i) =>
        \A k \in poller[i].batch :
            \/ rows[k].published
            \/ rows[k].claimedBy = i /\ rows[k].lease = poller[i].lease

LeaseSafety == PublishedIsUnclaimed /\ ClaimLock /\ DrainClaim /\ LeaseExclusive

LeaseInv == TypeOK /\ LeaseSafety

\* A poller with rows is claiming or draining them.
LEMMA Phases ==
    ASSUME TypeOK, NEW i \in Instance, NEW k \in poller[i].batch
    PROVE  (poller[i].pc = "claim" \/ Draining(i)) /\ k \in RowId
BY DEF TypeOK, Poller, Publishing, Draining

\* Steps that start no claim keep the lease invariant when they leave each row
\* alone, or publish it while no claim transaction locks it, or take it from
\* an owner that has ended its drain or stopped.
LEMMA LeaseKept ==
    ASSUME LeaseInv,
           \A j \in Instance :
              \/ poller'[j] = Resting
              \/ /\ poller'[j].pc = "claim" => poller[j].pc = "claim"
                 /\ Draining(j)' => Draining(j)
                 /\ poller'[j].batch \subseteq poller[j].batch
                 /\ poller'[j].lease = poller[j].lease
                 /\ life'[j] # "stopped" => life[j] # "stopped",
           \A k \in RowId :
              \/ rows'[k] = rows[k]
              \/ rows'[k] = Published /\ ~Locked(k)
              \/ \E i \in Instance :
                    /\ Owns(i, k)
                    /\ poller'[i].batch = {} \/ life'[i] = "stopped"
                    /\ ~rows'[k].published
                    /\ rows'[k].lease = 0 \/ rows'[k].lease = rows[k].lease
    PROVE  LeaseSafety'
<1>1. PublishedIsUnclaimed'
  BY DEF LeaseInv, LeaseSafety, PublishedIsUnclaimed, Published
<1>2. ClaimLock'
  <2> SUFFICES ASSUME NEW i \in Instance, poller'[i].pc = "claim",
                      NEW k \in poller'[i].batch
               PROVE  /\ ~rows'[k].published
                      /\ rows'[k].lease = 0
                      /\ \A j \in Instance :
                            poller'[j].pc = "claim" /\ k \in poller'[j].batch
                            => j = i
    BY DEF ClaimLock
  <2>1. poller[i].pc = "claim" /\ k \in poller[i].batch /\ k \in RowId
    BY Values, Phases DEF LeaseInv
  <2>2. ~rows[k].published /\ rows[k].lease = 0 /\ Locked(k)
    BY <2>1 DEF LeaseInv, LeaseSafety, ClaimLock, Locked
  <2>3. ~rows'[k].published /\ rows'[k].lease = 0
    BY <2>1, <2>2
  <2>4. ASSUME NEW j \in Instance, poller'[j].pc = "claim",
               k \in poller'[j].batch
        PROVE  j = i
    BY <2>1, <2>4, Values DEF LeaseInv, LeaseSafety, ClaimLock
  <2> QED
    BY <2>3, <2>4
<1>3. DrainClaim'
  <2> SUFFICES ASSUME NEW i \in Instance, Draining(i)', Live(i)',
                      NEW k \in poller'[i].batch
               PROVE  \/ rows'[k].published
                      \/ /\ rows'[k].claimedBy = i
                         /\ rows'[k].lease = poller'[i].lease
    BY DEF DrainClaim
  <2>1. /\ Draining(i) /\ Live(i) /\ k \in poller[i].batch /\ k \in RowId
        /\ poller'[i].lease = poller[i].lease
    BY Values, Phases DEF LeaseInv, Live
  <2>2. \/ rows[k].published
        \/ rows[k].claimedBy = i /\ rows[k].lease = poller[i].lease
    BY <2>1 DEF LeaseInv, LeaseSafety, DrainClaim
  <2>3. CASE rows'[k] = rows[k]
    BY <2>1, <2>2, <2>3
  <2>4. CASE rows'[k] = Published
    BY <2>4 DEF Published
  <2>5. ASSUME NEW j \in Instance, Owns(j, k),
               poller'[j].batch = {} \/ life'[j] = "stopped"
        PROVE  FALSE
    BY <2>2, <2>5 DEF Owns, Live
  <2> QED
    BY <2>1, <2>3, <2>4, <2>5
<1>4. LeaseExclusive'
  BY Values DEF LeaseInv, LeaseSafety, LeaseExclusive
<1> QED
  BY <1>1, <1>2, <1>3, <1>4 DEF LeaseSafety
\* Every step keeps the lease invariant.
LEMMA LeaseStep == LeaseInv /\ [Next]_vars => LeaseInv'
<1> SUFFICES ASSUME LeaseInv, [Next]_vars
             PROVE  LeaseSafety'
  BY TypeStep DEF LeaseInv
<1>0. TypeOK /\ LeaseSafety
  BY DEF LeaseInv
<1>1. ASSUME NEW i \in Instance, TriggerPublish(i)
      PROVE  LeaseSafety'
  <2>1. /\ poller'[i].pc = "claim"
        /\ poller'[i].batch = FirstClaimable
        /\ \A j \in Instance : j # i => poller'[j] = poller[j]
        /\ rows' = rows /\ life' = life
    BY <1>0, <1>1 DEF TriggerPublish, TypeOK
  <2>2. \A k \in FirstClaimable :
            ~rows[k].published /\ rows[k].lease = 0 /\ ~Locked(k)
    BY DEF FirstClaimable, Claimable
  <2>3. PublishedIsUnclaimed'
    BY <1>0, <2>1 DEF LeaseSafety, PublishedIsUnclaimed
  <2>4. ClaimLock'
    BY <1>0, <2>1, <2>2 DEF LeaseSafety, ClaimLock, Locked
  <2>5. DrainClaim'
    BY <1>0, <2>1 DEF LeaseSafety, DrainClaim, Draining, Live
  <2>6. ASSUME NEW j \in Instance, j # i,
               NEW k \in FirstClaimable, k \in poller[j].batch
        PROVE  poller[j].lease = 0 \/ life[j] = "stopped"
    <3>1. Draining(j) /\ k \in RowId
      BY <1>0, <2>2, <2>6, Phases DEF Locked
    <3>2. rows[k].lease = 0 /\ ~rows[k].published
      BY <2>2
    <3>3. poller[j].lease \in 0..LeaseTicks
      BY <1>0 DEF TypeOK, Poller
    <3> QED
      BY <1>0, <2>6, <3>1, <3>2, <3>3, RelayAssumption
         DEF LeaseSafety, DrainClaim, Live
  <2>7. LeaseExclusive'
    BY <1>0, <2>1, <2>6 DEF LeaseSafety, LeaseExclusive
  <2> QED
    BY <2>3, <2>4, <2>5, <2>7 DEF LeaseSafety
<1>2. ASSUME NEW i \in Instance, claimUnpublishedOutbox(i)
      PROVE  LeaseSafety'
  <2>1. /\ poller[i].pc = "claim" /\ poller'[i].pc = "send"
        /\ poller'[i].batch = poller[i].batch
        /\ poller'[i].lease = poller[i].lease
        /\ \A j \in Instance : j # i => poller'[j] = poller[j]
        /\ life' = life
    BY <1>0, <1>2 DEF claimUnpublishedOutbox, Goto, TypeOK, Poller
  <2>2. \A k \in RowId : k \notin poller[i].batch => rows'[k] = rows[k]
    BY <1>2 DEF claimUnpublishedOutbox
  <2>3. \A k \in poller[i].batch :
            /\ ~rows'[k].published
            /\ rows'[k].claimedBy = i
            /\ rows'[k].lease = poller[i].lease
    BY <1>0, <1>2, <2>1, Phases, ClaimRows DEF LeaseSafety, ClaimLock
  <2>4. PublishedIsUnclaimed'
    BY <1>0, <2>2, <2>3 DEF LeaseSafety, PublishedIsUnclaimed
  <2>5. ASSUME NEW j \in Instance, j # i, NEW k \in RowId,
               k \in poller[j].batch, k \in poller[i].batch
        PROVE  ~(poller[j].pc = "claim") /\ ~(Draining(j) /\ Live(j))
    <3>1. /\ ~rows[k].published /\ rows[k].lease = 0
          /\ poller[j].pc # "claim"
      BY <1>0, <2>1, <2>5 DEF LeaseSafety, ClaimLock
    <3>2. ~(Draining(j) /\ Live(j))
      BY <1>0, <2>5, <3>1 DEF LeaseSafety, DrainClaim, Live, TypeOK, Poller
    <3> QED
      BY <3>1, <3>2
  <2>6. ClaimLock'
    <3> SUFFICES ASSUME NEW j \in Instance, poller'[j].pc = "claim",
                        NEW k \in poller'[j].batch
                 PROVE  /\ ~rows'[k].published
                        /\ rows'[k].lease = 0
                        /\ \A h \in Instance :
                              poller'[h].pc = "claim" /\ k \in poller'[h].batch
                              => h = j
      BY DEF ClaimLock
    <3>1. j # i /\ poller[j].pc = "claim" /\ k \in poller[j].batch
      BY <2>1
    <3>2. k \in RowId
      BY <1>0, <3>1, Phases
    <3>3. k \notin poller[i].batch
      BY <2>5, <3>1, <3>2
    <3> QED
      BY <1>0, <2>1, <2>2, <3>1, <3>2, <3>3 DEF LeaseSafety, ClaimLock
  <2>7. DrainClaim'
    <3> SUFFICES ASSUME NEW j \in Instance, Draining(j)', Live(j)',
                        NEW k \in poller'[j].batch
                 PROVE  \/ rows'[k].published
                        \/ /\ rows'[k].claimedBy = j
                           /\ rows'[k].lease = poller'[j].lease
      BY DEF DrainClaim
    <3>1. CASE j = i
      BY <2>1, <2>3, <3>1
    <3>2. CASE j # i
      <4>1. Draining(j) /\ Live(j) /\ k \in poller[j].batch
        BY <2>1, <3>2 DEF Draining, Live
      <4>2. k \in RowId
        BY <1>0, <4>1, Phases
      <4>3. k \notin poller[i].batch
        BY <2>5, <3>2, <4>1, <4>2
      <4> QED
        BY <1>0, <2>1, <2>2, <3>2, <4>1, <4>2, <4>3
           DEF LeaseSafety, DrainClaim
    <3> QED
      BY <3>1, <3>2
  <2>8. LeaseExclusive'
    <3>1. \A j \in Instance : /\ poller'[j].batch = poller[j].batch
                              /\ poller'[j].lease = poller[j].lease
                              /\ life'[j] = life[j]
      BY <2>1
    <3>2. LeaseExclusive
      BY <1>0 DEF LeaseSafety
    <3> QED
      BY <3>1, <3>2 DEF LeaseExclusive
  <2> QED
    BY <2>4, <2>6, <2>7, <2>8 DEF LeaseSafety
<1>3. ASSUME NEW i \in Instance,
             Send(i) \/ SendFails(i) \/ ReleaseFails(i) \/ ClaimFails(i)
      PROVE  LeaseSafety'
  <2>1. /\ rows' = rows /\ life' = life
        /\ poller[i].pc # "idle"
        /\ \/ poller'[i] = Resting
           \/ /\ Draining(i) /\ poller'[i].pc \in {"mark", "release"}
              /\ poller'[i].batch = poller[i].batch
              /\ poller'[i].lease = poller[i].lease
        /\ \A j \in Instance : j # i => poller'[j] = poller[j]
    BY <1>0, <1>3 DEF Send, SendFails, ReleaseFails, ClaimFails, Goto, Finish,
                      TypeOK, Poller, Draining
  <2> QED
    BY <2>1, LeaseKept DEF Draining
\* The poller of i goes on, or ends; its current row is published or freed.
<1>4. ASSUME NEW i \in Instance, Publishing(i),
             Draining(i),
             \/ rows' = rows
             \/ ~Locked(Current(i)) /\ MarkPublished(i, Current(i))
             \/ ReleaseClaim(i, Current(i)) /\ poller'[i] = Resting,
             life' = life,
             \/ poller'[i] = Resting
             \/ /\ poller'[i].pc \in {"send", "release"}
                /\ poller'[i].batch \subseteq poller[i].batch
                /\ poller'[i].lease = poller[i].lease,
             \A j \in Instance : j # i => poller'[j] = poller[j]
      PROVE  LeaseSafety'
  <2>1. Current(i) \in RowId
    BY <1>0, <1>4, CurrentInBatch
  <2>2. ASSUME NEW k \in RowId
        PROVE  \/ rows'[k] = rows[k]
               \/ rows'[k] = Published /\ ~Locked(k)
               \/ Owns(i, k) /\ rows'[k] = Free /\ poller'[i] = Resting
    BY <1>0, <1>4, <2>1 DEF MarkPublished, ReleaseClaim, TypeOK
  <2>3. ~Free.published /\ Free.lease = 0
    BY DEF Free
  <2>4. \A j \in Instance :
          \/ poller'[j] = Resting
          \/ /\ poller'[j].pc = "claim" => poller[j].pc = "claim"
             /\ Draining(j)' => Draining(j)
             /\ poller'[j].batch \subseteq poller[j].batch
             /\ poller'[j].lease = poller[j].lease
             /\ life'[j] # "stopped" => life[j] # "stopped"
    BY <1>4 DEF Draining
  <2> QED
    BY <2>2, <2>3, <2>4, Values, LeaseKept
<1>5. ASSUME NEW i \in Instance,
             markOutboxPublished(i) \/ MarkFails(i) \/ releaseOutboxClaim(i)
      PROVE  LeaseSafety'
  <2>1. /\ Publishing(i) /\ Draining(i)
        /\ life' = life
        /\ \/ poller'[i] = Resting
           \/ /\ poller'[i].pc \in {"send", "release"}
              /\ poller'[i].batch \subseteq poller[i].batch
              /\ poller'[i].lease = poller[i].lease
        /\ \A j \in Instance : j # i => poller'[j] = poller[j]
    BY <1>0, <1>5 DEF markOutboxPublished, MarkFails, releaseOutboxClaim, Goto,
                      Finish, TypeOK, Poller, Draining, Publishing
  <2>2. \/ rows' = rows
        \/ ~Locked(Current(i)) /\ MarkPublished(i, Current(i))
        \/ ReleaseClaim(i, Current(i)) /\ poller'[i] = Resting
    BY <1>0, <1>5 DEF markOutboxPublished, MarkFails, releaseOutboxClaim, Finish,
                      TypeOK
  <2> QED
    BY <1>4, <2>1, <2>2
<1>6. ASSUME NEW i \in Instance, Exit(i) \/ Crash(i)
      PROVE  LeaseSafety'
  <2>1. /\ poller'[i] = Resting
        /\ \A j \in Instance : j # i => poller'[j] = poller[j]
                                       /\ life'[j] = life[j]
    BY <1>0, <1>6 DEF Exit, Crash, Restart, Finish, TypeOK
  <2>2. ASSUME NEW k \in RowId
        PROVE  \/ rows'[k] = rows[k]
               \/ /\ Owns(i, k)
                  /\ ~rows'[k].published
                  /\ rows'[k].lease = rows[k].lease
    <3>1. rows[k].claimedBy = i => ~rows[k].published
      BY <1>0, RelayAssumption DEF LeaseSafety, PublishedIsUnclaimed
    <3>2. rows[k] \in OutboxRow
      BY <1>0 DEF TypeOK
    <3>3. rows'[k] = IF rows[k].claimedBy = i
                     THEN [rows[k] EXCEPT !.claimedBy = Gone] ELSE rows[k]
      BY <1>6 DEF Exit, Crash, Restart
    <3> QED
      BY <3>1, <3>2, <3>3 DEF Owns, OutboxRow
  <2>3. poller'[i].batch = {}
    BY <2>1, Values
  <2>4. \A j \in Instance :
          \/ poller'[j] = Resting
          \/ /\ poller'[j].pc = "claim" => poller[j].pc = "claim"
             /\ Draining(j)' => Draining(j)
             /\ poller'[j].batch \subseteq poller[j].batch
             /\ poller'[j].lease = poller[j].lease
             /\ life'[j] # "stopped" => life[j] # "stopped"
    BY <2>1 DEF Draining
  <2> QED
    BY <2>2, <2>3, <2>4, LeaseKept
<1>7. ASSUME NEW i \in Instance, releaseAllOutboxClaims(i)
      PROVE  LeaseSafety'
  <2>1. /\ poller' = poller /\ life'[i] = "stopped"
        /\ \A j \in Instance : j # i => life'[j] = life[j]
    BY <1>0, <1>7 DEF releaseAllOutboxClaims, TypeOK
  <2>2. \A k \in RowId : \/ rows'[k] = rows[k]
                         \/ Owns(i, k) /\ rows'[k] = Free
    BY <1>7 DEF releaseAllOutboxClaims
  <2>3. ~Free.published /\ Free.lease = 0
    BY DEF Free
  <2> QED
    BY <2>1, <2>2, <2>3, LeaseKept DEF Draining
<1>8. ASSUME NEW i \in Instance,
             DrainAwaited(i) \/ Stop(i) \/ TriggerWhilePublishing(i)
      PROVE  LeaseSafety'
  <2>1. /\ poller' = poller /\ rows' = rows
        /\ \A j \in Instance : life'[j] # "stopped" => life[j] # "stopped"
    BY <1>0, <1>8 DEF DrainAwaited, Stop, TriggerWhilePublishing, TypeOK
  <2> QED
    BY <2>1, LeaseKept DEF Draining
<1>9. CASE Insert \/ Stabilise \/ UNCHANGED vars
  <2>1. poller' = poller /\ rows' = rows /\ life' = life
    BY <1>9 DEF Insert, Stabilise, vars
  <2> QED
    BY <2>1, LeaseKept DEF Draining
<1>10. CASE Tick
  <2>1. life' = life
    BY <1>10 DEF Tick
  <2>2. Aged(0) = 0 /\ \A l \in 0..LeaseTicks : Aged(l) > 0 => l > 0
    BY RelayAssumption DEF Aged
  <2>3. \A j \in Instance : poller[j].lease \in 0..LeaseTicks
    BY <1>0 DEF TypeOK, Poller
  <2>4. PublishedIsUnclaimed'
    BY <1>0, <1>10, <2>2, TickRows DEF LeaseSafety, PublishedIsUnclaimed
  <2>5. ClaimLock'
    <3> SUFFICES ASSUME NEW i \in Instance, poller'[i].pc = "claim",
                        NEW k \in poller'[i].batch
                 PROVE  /\ ~rows'[k].published
                        /\ rows'[k].lease = 0
                        /\ \A j \in Instance :
                              poller'[j].pc = "claim" /\ k \in poller'[j].batch
                              => j = i
      BY DEF ClaimLock
    <3>1. poller[i].pc = "claim" /\ k \in poller[i].batch /\ k \in RowId
      BY <1>0, <1>10, TickPollers, Phases
    <3>2. \A j \in Instance : /\ poller'[j].pc = poller[j].pc
                              /\ poller'[j].batch = poller[j].batch
      BY <1>0, <1>10, TickPollers
    <3>3. /\ ~rows[k].published /\ rows[k].lease = 0
          /\ \A j \in Instance :
                poller[j].pc = "claim" /\ k \in poller[j].batch => j = i
      BY <1>0, <3>1 DEF LeaseSafety, ClaimLock
    <3>4. ~rows'[k].published /\ rows'[k].lease = 0
      BY <1>0, <1>10, <2>2, <3>1, <3>3, TickRows
    <3> QED
      BY <3>2, <3>3, <3>4
  <2>6. DrainClaim'
    <3> SUFFICES ASSUME NEW i \in Instance, Draining(i)', Live(i)',
                        NEW k \in poller'[i].batch
                 PROVE  \/ rows'[k].published
                        \/ /\ rows'[k].claimedBy = i
                           /\ rows'[k].lease = poller'[i].lease
      BY DEF DrainClaim
    <3>1. /\ poller'[i].pc = poller[i].pc
          /\ poller'[i].batch = poller[i].batch
          /\ poller'[i].lease = Aged(poller[i].lease)
      BY <1>0, <1>10, TickPollers
    <3>2. Draining(i) /\ Live(i)
      BY <2>1, <2>2, <2>3, <3>1 DEF Draining, Live
    <3>3. k \in poller[i].batch /\ k \in RowId
      BY <1>0, <3>1, Phases
    <3>4. \/ rows[k].published
          \/ rows[k].claimedBy = i /\ rows[k].lease = poller[i].lease
      BY <1>0, <3>2, <3>3 DEF LeaseSafety, DrainClaim
    <3>5. /\ rows'[k].published = rows[k].published
          /\ rows'[k].claimedBy = rows[k].claimedBy
          /\ rows'[k].lease = Aged(rows[k].lease)
      BY <1>0, <1>10, <3>3, TickRows
    <3> QED
      BY <3>1, <3>4, <3>5
  <2>7. LeaseExclusive'
    <3>1. \A j \in Instance :
            /\ poller'[j].batch = poller[j].batch
            /\ poller[j].lease = 0 => poller'[j].lease = 0
            /\ life'[j] = life[j]
      BY <1>0, <1>10, <2>1, <2>2, TickPollers
    <3>2. LeaseExclusive
      BY <1>0 DEF LeaseSafety
    <3> QED
      BY <3>1, <3>2 DEF LeaseExclusive
  <2> QED
    BY <2>4, <2>5, <2>6, <2>7 DEF LeaseSafety
<1> QED
  BY <1>1, <1>2, <1>3, <1>5, <1>6, <1>7, <1>8, <1>9, <1>10
     DEF Next, Drain, Shutdown, Fault

\* The lease invariant holds in every reachable state.
LEMMA LeaseAlways == Spec => []LeaseInv
<1>1. Init => LeaseInv
  <2> SUFFICES ASSUME Init PROVE LeaseSafety
    BY TypeInit DEF LeaseInv
  <2>1. /\ \A i \in Instance : poller[i].pc = "idle" /\ poller[i].batch = {}
        /\ \A k \in RowId : ~rows[k].published
    BY Values DEF Init, Free
  <2> QED
    BY <2>1 DEF LeaseSafety, PublishedIsUnclaimed, ClaimLock, DrainClaim,
                Draining, LeaseExclusive
<1> QED
  BY <1>1, LeaseStep, PTL DEF Spec

\* Two drains work on one row only after a lease ran out or stop() gave the
\* claims back: within a lease, a row is published by one replica.
THEOREM LeasesExclude == Spec => []LeaseExclusive
<1> QED
  BY LeaseAlways, PTL DEF LeaseInv, LeaseSafety

\* No claim survives the publication of its row.
THEOREM PublishedRowsAreUnclaimed == Spec => []PublishedIsUnclaimed
<1> QED
  BY LeaseAlways, PTL DEF LeaseInv, LeaseSafety

----------------------------------------------------------------------------
(* The relay implements the outbox. *)

\* A poller works on rows that transactions have inserted.
BatchInserted == \A i \in Instance : poller[i].batch \subseteq 1..inserted

OutboxInv == DeliveryInv /\ BatchInserted

\* Rows are only added to a batch when a drain starts, from those inserted.
LEMMA BatchStep == TypeOK /\ BatchInserted /\ [Next]_vars => BatchInserted'
<1> SUFFICES ASSUME TypeOK, BatchInserted, [Next]_vars
             PROVE  BatchInserted'
  OBVIOUS
<1> USE RelayAssumption DEF TypeOK, BatchInserted
<1>1. ASSUME NEW i \in Instance, TriggerPublish(i)
      PROVE  BatchInserted'
  <2>1. FirstClaimable \subseteq 1..inserted
    BY DEF FirstClaimable, Claimable, RowId
  <2> QED
    BY <1>1, <2>1 DEF TriggerPublish
<1>2. ASSUME inserted' = inserted,
             \A i \in Instance : poller'[i].batch \subseteq poller[i].batch
      PROVE  BatchInserted'
  BY <1>2
<1>3. ASSUME NEW i \in Instance, Finish(i)
      PROVE  \A j \in Instance : poller'[j].batch \subseteq poller[j].batch
  BY <1>3, Values DEF Finish
<1>4. ASSUME NEW i \in Instance, NEW pc, Goto(i, pc)
      PROVE  \A j \in Instance : poller'[j].batch \subseteq poller[j].batch
  BY <1>4 DEF Goto, Poller
<1>5. ASSUME NEW i \in Instance, markOutboxPublished(i)
      PROVE  BatchInserted'
  <2>1. CASE poller[i].batch = {Current(i)}
    BY <1>2, <1>3, <1>5, <2>1 DEF markOutboxPublished
  <2>2. CASE poller[i].batch # {Current(i)}
    <3>1. \A j \in Instance : poller'[j].batch \subseteq poller[j].batch
      BY <1>5, <2>2 DEF markOutboxPublished, Poller
    <3> QED
      BY <1>2, <1>5, <3>1 DEF markOutboxPublished
  <2> QED
    BY <2>1, <2>2
<1>6. ASSUME NEW i \in Instance,
             \/ claimUnpublishedOutbox(i) \/ Send(i) \/ SendFails(i) \/ MarkFails(i)
      PROVE  BatchInserted'
  BY <1>2, <1>4, <1>6 DEF claimUnpublishedOutbox, Send, SendFails, MarkFails
<1>7. ASSUME NEW i \in Instance,
             \/ releaseOutboxClaim(i) \/ ClaimFails(i) \/ ReleaseFails(i)
             \/ Exit(i) \/ Crash(i)
      PROVE  BatchInserted'
  BY <1>2, <1>3, <1>7
     DEF releaseOutboxClaim, ClaimFails, ReleaseFails, Exit, Crash, Restart
<1>8. ASSUME NEW i \in Instance,
             \/ DrainAwaited(i) \/ releaseAllOutboxClaims(i) \/ Stop(i)
             \/ TriggerWhilePublishing(i)
      PROVE  BatchInserted'
  BY <1>2, <1>8
     DEF DrainAwaited, releaseAllOutboxClaims, Stop, TriggerWhilePublishing
<1>9. CASE Insert
  <2>1. 1..inserted \subseteq 1..inserted'
    BY <1>9 DEF Insert
  <2> QED
    BY <1>9, <2>1 DEF Insert
<1>10. CASE Tick
  BY <1>2, <1>10, TickPollers DEF Tick
<1>11. CASE Stabilise \/ UNCHANGED vars
  BY <1>2, <1>11 DEF Stabilise, vars
<1> QED
  BY <1>1, <1>5, <1>6, <1>7, <1>8, <1>9, <1>10, <1>11
     DEF Next, Drain, Shutdown, Fault

\* The outbox invariant holds in every reachable state.
LEMMA OutboxAlways == Spec => []OutboxInv
<1>1. Init => OutboxInv
  <2> SUFFICES ASSUME Init PROVE OutboxInv
    OBVIOUS
  <2>1. TypeOK
    BY TypeInit
  <2> QED
    BY <2>1, Values DEF Init, OutboxInv, DeliveryInv, PublishedIsDelivered,
       MarkingIsDelivered, BatchInserted, Free
<1>2. OutboxInv /\ [Next]_vars => OutboxInv'
  BY DeliveryStep, BatchStep DEF OutboxInv, DeliveryInv
<1> QED
  BY <1>1, <1>2, PTL DEF Spec

\* The rows that are marked published: what the outbox calls retired.
Marked == {k \in RowId : rows[k].published}

\* An update of rows that flips no published flag retires nothing.
LEMMA MarkedKept ==
    ASSUME \A k \in RowId : rows'[k].published <=> rows[k].published
    PROVE  Marked' = Marked
BY DEF Marked, RowId

\* The update of markOutboxPublished marks the one row, or finds it is not
\* the caller's any more.
LEMMA MarkOne ==
    ASSUME TypeOK, NEW i \in Instance, NEW k \in RowId, MarkPublished(i, k)
    PROVE  Marked' = Marked \/ Marked' = Marked \cup {k}
<1>1. CASE Owns(i, k)
  <2>1. rows' = [rows EXCEPT ![k] = Published]
    BY <1>1 DEF MarkPublished
  <2>2. \A l \in RowId : rows'[l].published <=> rows[l].published \/ l = k
    BY <2>1 DEF TypeOK, Published
  <2> QED
    BY <2>2 DEF Marked, RowId
<1>2. CASE ~Owns(i, k)
  BY <1>2 DEF MarkPublished, Marked
<1> QED
  BY <1>1, <1>2

\* Every step of the relay is a step of the outbox or none of its.
LEMMA OutboxStep == OutboxInv /\ [Next]_vars => [Outbox!Next]_(Outbox!vars)
<1> SUFFICES ASSUME OutboxInv, [Next]_vars
             PROVE  [Outbox!Next]_(Outbox!vars)
  OBVIOUS
<1>0. TypeOK /\ MarkingIsDelivered /\ BatchInserted
  BY DEF OutboxInv, DeliveryInv
<1>1. ASSUME inserted' = inserted, delivered' = delivered, Marked' = Marked
      PROVE  UNCHANGED Outbox!vars
  BY <1>1 DEF Outbox!vars, Marked
<1>2. ASSUME NEW i \in Instance,
             \/ TriggerPublish(i) \/ ClaimFails(i) \/ ReleaseFails(i)
             \/ DrainAwaited(i) \/ Stop(i) \/ TriggerWhilePublishing(i)
      PROVE  UNCHANGED Outbox!vars
  BY <1>1, <1>2 DEF TriggerPublish, ClaimFails, ReleaseFails, DrainAwaited, Stop,
                    TriggerWhilePublishing, Marked
<1>3. ASSUME NEW i \in Instance,
             \/ claimUnpublishedOutbox(i) \/ releaseOutboxClaim(i)
             \/ releaseAllOutboxClaims(i) \/ Exit(i) \/ Crash(i)
      PROVE  UNCHANGED Outbox!vars
  <2> SUFFICES \A k \in RowId : rows'[k].published <=> rows[k].published
    BY <1>1, <1>3, MarkedKept
       DEF claimUnpublishedOutbox, releaseOutboxClaim, releaseAllOutboxClaims,
           Exit, Crash, Restart
  <2>1. CASE claimUnpublishedOutbox(i)
    BY <1>0, <2>1, ClaimRows
  <2>2. CASE releaseOutboxClaim(i) \/ releaseAllOutboxClaims(i)
    BY <1>0, <2>2 DEF releaseOutboxClaim, ReleaseClaim, releaseAllOutboxClaims,
                      Owns, Free, TypeOK
  <2>3. CASE Exit(i) \/ Crash(i)
    BY <1>0, <2>3 DEF Exit, Crash, Restart, TypeOK, OutboxRow
  <2> QED
    BY <1>3, <2>1, <2>2, <2>3
<1>4. ASSUME NEW i \in Instance, Send(i) \/ SendFails(i)
      PROVE  [Outbox!Next]_(Outbox!vars)
  <2>1. Current(i) \in 1..inserted /\ Current(i) \in RowId
    BY <1>0, <1>4, CurrentInBatch DEF Send, SendFails, Publishing, BatchInserted
  <2>2. /\ inserted' = inserted /\ Marked' = Marked
        /\ delivered' = delivered \/ delivered' = delivered \cup {Current(i)}
    BY <1>4 DEF Send, SendFails, Marked
  <2>3. CASE delivered' = delivered
    BY <1>1, <2>2, <2>3
  <2>4. CASE delivered' = delivered \cup {Current(i)}
    <3>1. PICK k \in RowId : k = Current(i)
      BY <2>1
    <3>2. Outbox!Publish(k)
      BY <2>1, <2>2, <2>4, <3>1 DEF Outbox!Publish, Marked
    <3> QED
      BY <3>2 DEF Outbox!Next
  <2> QED
    BY <2>2, <2>3, <2>4
<1>5. ASSUME NEW i \in Instance, markOutboxPublished(i) \/ MarkFails(i)
      PROVE  [Outbox!Next]_(Outbox!vars)
  <2>1. Current(i) \in delivered /\ Current(i) \in RowId
    BY <1>0, <1>5, CurrentInBatch
       DEF markOutboxPublished, MarkFails, Publishing, MarkingIsDelivered
  <2>2. inserted' = inserted /\ delivered' = delivered
    BY <1>5 DEF markOutboxPublished, MarkFails
  <2>3. Marked' = Marked \/ Marked' = Marked \cup {Current(i)}
    BY <1>0, <1>5, <2>1, MarkOne DEF markOutboxPublished, MarkFails, Marked
  <2>4. CASE Marked' = Marked
    BY <1>1, <2>2, <2>4
  <2>5. CASE Marked' = Marked \cup {Current(i)}
    <3>1. PICK k \in RowId : k = Current(i)
      BY <2>1
    <3>2. Outbox!Retire(k)
      BY <2>1, <2>2, <2>5, <3>1 DEF Outbox!Retire, Marked
    <3> QED
      BY <3>2 DEF Outbox!Next
  <2> QED
    BY <2>3, <2>4, <2>5
<1>6. CASE Insert
  <2>1. 1..inserted' = (1..inserted) \cup {inserted'} /\ inserted' \in RowId
    BY <1>0, <1>6, RelayAssumption DEF Insert, TypeOK, RowId
  <2>2. Outbox!Record(inserted')
    BY <1>6, <2>1 DEF Insert, Outbox!Record
  <2> QED
    BY <2>1, <2>2 DEF Outbox!Next
<1>7. CASE Tick
  <2>1. \A k \in RowId : rows'[k].published <=> rows[k].published
    BY <1>0, <1>7, TickRows
  <2> QED
    BY <1>1, <1>7, <2>1, MarkedKept DEF Tick
<1>8. CASE Stabilise \/ UNCHANGED vars
  BY <1>1, <1>8 DEF Stabilise, vars, Marked
<1> QED
  BY <1>2, <1>3, <1>4, <1>5, <1>6, <1>7, <1>8 DEF Next, Drain, Shutdown, Fault

\* A row reaches the topic only after its transaction, is marked only after it
\* reached the topic, and no claim, release, failure, stop or crash takes any
\* of it back, for any number of replicas and rows and any lease.
THEOREM RelayImplementsOutbox == Spec => ImplementsOutbox
<1>1. Init => Outbox!Init
  <2> SUFFICES ASSUME Init PROVE Outbox!Init
    OBVIOUS
  <2>1. 1..inserted = {} /\ {k \in RowId : rows[k].published} = {}
    BY DEF Init, Free
  <2> QED
    BY <2>1 DEF Init, Outbox!Init
<1> QED
  BY <1>1, OutboxStep, OutboxAlways, PTL DEF Spec, ImplementsOutbox, Outbox!Spec
=============================================================================
