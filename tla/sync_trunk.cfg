SPECIFICATION FairSpec
CONSTANTS
    Starts <- MCStarts
    Migrations <- MCMigrations
    OwnWork <- MCOwnWork
    Needs <- MCNeeds
    Own = 9
INVARIANT TypeOK Delivered RowsHold
PROPERTY Additive ScriptAccepted Heals
