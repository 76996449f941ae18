SPECIFICATION Spec
CONSTANTS
    Engine = "postgres"
    Models <- MCModels
    Clock = {1, 2}
    MaxFiles = 3
    MaxKills = 1
INVARIANT TypeOK RebuildIsEquivalent FreshApplies RollsBack
PROPERTY UndoneComesBack
