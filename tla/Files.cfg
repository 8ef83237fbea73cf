\* Texts of five pieces that are blank, short or over hard_max: two short ones fit a
\* window, three are a paragraph over hard_max.  Three indexing runs and two edits.
\* Three dataset files, built by the entrypoint and by hand again and again, and two
\* processes that read.  Three changes of the directory.  Three revoke commands and
\* one tick.
CONSTANTS
    Parts = {"chunking", "indexer", "dataset", "documents", "revocation"}
    Nothing = Nothing
    Unread = Unread
    Target = 6
    HardMax = 7
    MaxLines = 2
    Lengths = {0, 2, 8}
    MaxPieces = 5
    SourceFiles = {"note", "mail"}
    Order <- MCOrder
    Contents <- MCContents
    Limits = {0, 1, 3}
    UpsertBatch = 2
    MaxRuns = 3
    MaxEdits = 2
    Builders = {"entry", "hand"}
    entry = "entry"
    Processes = {"web", "mcp"}
    Versions = {"v1", "v2"}
    Tables = 2
    MaxFiles = 3
    Paths = {"note", "thread", "truth"}
    Globs = 2
    GlobOf <- MCGlobOf
    Threads = {"thread"}
    Names = {"note", "thread", "notes/../truth"}
    Resolved <- MCResolved
    MaxChanges = 3
    Subjects = {"ann", "ben"}
    Commands = {"c1", "c2", "c3"}
    Ends <- MCEnds
    MaxTime = 1
SPECIFICATION FilesSpec
INVARIANTS
    ChunksRight
    WindowsTight
    IndexRight
    DatasetSound
    DocumentsServed
    RevocationsHold
PROPERTIES
    DroppedOnlyToRebuild
    ViewsSettle
    StartServes
