SPECIFICATION Spec
CONSTANTS
    i1 = i1  i2 = i2
    o1 = o1  o2 = o2
    Instance = {i1, i2}
    MaxRows = 3
    KeyOf <- Keys
    Limit = 2
    LeaseTicks = 1
    Nobody = Nobody
    Gone = Gone
SYMMETRY Symmetry
INVARIANTS
    OrderPreserved
CHECK_DEADLOCK FALSE
