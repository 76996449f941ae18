SPECIFICATION Spec
CONSTANTS
    Families <- MCFamilies
    TableOrder <- MCTableOrder
    MaxSeen = 2
INVARIANT TypeOK DriftIsDifference ReportsWhatWas PullSettles
