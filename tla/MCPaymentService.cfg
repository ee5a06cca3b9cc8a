SPECIFICATION FairServiceSpec
CONSTANTS
    i1 = i1  c1 = c1  p1 = p1  o1 = o1  t1 = t1  m2 = m2  m3 = m3
    Instance = {i1}
    Partition = {t1}
    Message = {c1}
    PaymentId = {p1}
    OrderId = {o1}
    Log <- OneCharge
    Kind <- Kinds
    PaymentOf <- OnePayment
    OrderOf <- OneOrder
    MaxRetries = 0
    MaxGarbage = 1
    Nobody = Nobody
    Unset = Unset
    MaxRows = 2
    Limit = 1
    LeaseTicks = 1
    Gone = Gone
    Env <- Good
    Migration = {m2, m3}
    When <- Timestamps
    Idempotent = {}
INVARIANTS
    ServiceTypeOK
    NothingLost
    ServingMeansMigrated
PROPERTIES
    ImplementsCommands
    ImplementsRelay
    ImplementsOutbox
    EveryMessageAnswered
    EveryReplicaServes
CHECK_DEADLOCK FALSE
