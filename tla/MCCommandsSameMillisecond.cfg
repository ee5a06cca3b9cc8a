SPECIFICATION Spec
CONSTANTS
    i1 = i1  i2 = i2
    c1 = c1  c2 = c2  r1 = r1  g1 = g1  g2 = g2  x1 = x1  n1 = n1
    p1 = p1  p2 = p2  o1 = o1  t1 = t1  t2 = t2
    Instance = {i1, i2}
    Partition = {t1, t2}
    Message = {g1, g2}
    PaymentId = {p1}
    OrderId = {o1}
    Log <- UnreadableLog
    Kind <- UnreadableKind
    PaymentOf <- OneOrderPayment
    OrderOf <- OneOrderOf
    MaxRetries = 0
    MaxGarbage = 1
    Nobody = Nobody
    Unset = Unset
ACTION_CONSTRAINT NoFault
INVARIANTS
    EveryPoisonIsFiled
CHECK_DEADLOCK FALSE
