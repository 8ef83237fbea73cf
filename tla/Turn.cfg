\* Three streams and five requests; limits of 3 and 2 among 4 points; three people
\* and events; two turns of two calls and two markers, a restart; two questions,
\* two clicks, a conversation for each, and one fault.
CONSTANTS
    Parts = {"channel", "lookups", "queries", "citations", "page"}
    None = None
    NoName = NoName
    Streams = {s1, s2, s3}
    NoStream = NoStream
    MaxRequests = 5
    Points = {1, 2, 3, 4}
    Groups = {"g1", "g2"}
    Regions = {1, 2}
    MaxIndex = 3
    Jurisdictions = {"ar", "mo", "federal"}
    active = "ar"
    federal = "federal"
    Layouts <- MCLayouts
    PassageLimit = 3
    VerseLimit = 3
    Limit = 2
    IdText <- MCIdText
    Truths <- MCTruths
    Texts <- MCTexts
    Dates = {0, 1, 2}
    Limits = {1, 2}
    Sources = {"statute", "email", "thread", "kjv", "web", "overview", "person"}
    Kind <- MCKind
    Id <- MCId
    Title <- MCTitle
    Edition <- MCEdition
    Standing <- MCStanding
    Tools = {"kb_law_search", "kb_law_lookup", "kb_scripture_lookup", "corpus_search", "case_overview", "case_entity"}
    Finds <- MCFinds
    overview = "overview"
    Names = {"acact", "ctitle", "path1", "path2", "subject", "named", "record", "blurb", "verse", "e001"}
    Long = {"acact", "ctitle", "path1", "path2", "subject", "named", "record", "blurb"}
    Middling = {"acact", "ctitle", "path1", "path2", "subject", "named", "record", "blurb"}
    Contained <- MCContained
    Markers = {"subject", "verse", "blurb"}
    MaxTurns = 2
    MaxCalls = 2
    MaxMarkers = 2
    MaxRestarts = 1
    Questions = {"q1", "q2"}
    MaxChats = 4
    MaxClicks = 2
    MaxFaults = 1
SPECIFICATION TurnSpec
INVARIANTS
    CallsSerialized
    LookupsRight
    CaseAnswersRight
    CitationsSound
    TokensNameSources
    QuestionsPlaced
    QuietLogIsTranscript
PROPERTIES
    WaitersServed
    ResolutionStable
