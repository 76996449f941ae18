SPECIFICATION Spec
CONSTANT
    Families <- EveryEngine
INVARIANT TypeOK NeverRefused Materialised RolledBack
CHECK_DEADLOCK FALSE
