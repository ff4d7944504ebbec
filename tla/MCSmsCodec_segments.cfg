SPECIFICATION CodecSpec
CONSTANTS
    Alphabet <- Chars
    Unknown <- Replacement
    Texts <- LimitTexts
    Phones <- SomePhones
    Refs <- TwoRefs
    MaxSends = 2
    MaxFlushes = 1
INVARIANT Fits
INVARIANT WholeIsAsSent
INVARIANT ArrivedIsPublished
CHECK_DEADLOCK FALSE
