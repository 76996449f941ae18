SPECIFICATION Spec
CONSTANTS
    Corpora <- ViewCorpora
    MaxSent = 1
    MaxReplies = 1
PROPERTY MeaningKept
