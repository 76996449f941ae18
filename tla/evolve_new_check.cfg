SPECIFICATION Spec
CONSTANT
    Families <- NewCheck
INVARIANT Materialised
CHECK_DEADLOCK FALSE
