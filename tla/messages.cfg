SPECIFICATION Spec
CONSTANTS
    Short = 4
    Word = 8
    Long = 16
    NoNumber = NoNumber
    Nothing = Nothing
    MaxArgs = 2
    Samples <- MCSamples
INVARIANTS
    TypeOK
    IteratorKnown
    SameBack
    NumbersKept
    ErrorsThrow
