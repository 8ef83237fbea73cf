\* Two runs over a table of two read batches (one of them two POSTs), a table that
\* shares its collection and an empty one; every nature of every text; any
\* number of faults, counted up to two.
CONSTANTS
    statutes = statutes
    articles = articles
    cards = cards
    law = law
    patterns = patterns
    s1 = s1
    s2 = s2
    s3 = s3
    s4 = s4
    a1 = a1
    Texts <- MCTexts
    Tables <- MCTables
    Specs <- MCSpecs
    CollectionOf <- MCCollectionOf
    RowsIn <- MCRowsIn
    BatchSize = 2
    ReadBatch = 3
    MaxRetries = 2
    NoVector = NoVector
    MaxRuns = 2
    MaxFaults = 2
SPECIFICATION Spec
CHECK_DEADLOCK FALSE
INVARIANTS
    IndexSound
    RowsAccounted
    OnlyRefusedSkip
PROPERTIES
    PointsKept
    RunsEnd
