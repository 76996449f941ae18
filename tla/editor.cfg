SPECIFICATION FairSpec
CONSTANTS
    Corpora <- MCCorpora
    MaxSent = 2
    MaxReplies = 1
INVARIANT TypeOK DocumentsFollow NavigationHolds
PROPERTY MeaningKept DiagnosticsArrive
