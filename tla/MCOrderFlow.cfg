SPECIFICATION FairSpec
CONSTANTS
    gw = gw  gw2 = gw2  os = os  ps = ps  db1 = db1  db2 = db2
    m1 = m1  m2 = m2  m3 = m3  a = a  g = g
    Instance = {gw, gw2, os}
    Service <- ServiceOf
    Env <- Environments
    Database = {db1, db2}
    DatabaseOf <- OwnDatabase
    Migration = {m1, m2, m3}
    Folder <- Folders
    When <- Timestamps
    Idempotent = {m1}
    Creation = {a}
    Query = {g}
    Body <- Bodies
    Unsaid = Unsaid
    NoSuchOrder = NoSuchOrder
    NotAnId = NotAnId
    Gateway = gw
    Orders = os
    MaxInt4 = 7
INVARIANTS
    TypeOK
    StoredIsWhole
    CreatedIsStored
    RefusedIsNotStored
    ReadsMatchStore
    ForwardedIsValid
PROPERTIES
    EveryRequestAnswered
    EveryReplicaServes
    ValidOrderConfirmed
CHECK_DEADLOCK FALSE
