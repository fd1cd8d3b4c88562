SPECIFICATION Spec
CONSTANTS
    i1 = i1  i2 = i2  f1 = f1  f2 = f2
    none = none
    Irps = {i1, i2}
    Files = {f1, f2}
    NoIrp = none
    NoFile = none
    EarlyUnbind = FALSE
CHECK_DEADLOCK FALSE
SYMMETRY Symmetry
INVARIANTS
    BindingHeld
    OneOwner
