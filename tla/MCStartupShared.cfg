SPECIFICATION Spec
CONSTANTS
    gw = gw  gw2 = gw2  os = os  ps = ps  db1 = db1  db2 = db2
    m1 = m1  m2 = m2  m3 = m3  a = a  g = g
    Instance = {gw, os, ps}
    Service <- ServiceOf
    Env <- Environments
    Database = {db1, db2}
    DatabaseOf <- OneDatabase
    Migration = {m1, m2, m3}
    Folder <- Folders
    When <- Timestamps
    Idempotent = {m1}
    Creation = {}
    Query = {}
    Body <- Bodies
    Unsaid = Unsaid
    NoSuchOrder = NoSuchOrder
    NotAnId = NotAnId
    Gateway = gw
    Orders = os
    MaxInt4 = 7
INVARIANTS
    ServingMeansMigrated
CHECK_DEADLOCK FALSE
