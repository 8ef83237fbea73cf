\* Two subjects, two conversations, two questions in every assignment, one
\* source, one call of the store that raises and one restart, in either order:
\* two streams of one conversation or of two, a delete by either subject at any
\* point, pending statements that a later commit writes, that are rolled back or
\* that a restart loses.
CONSTANTS
    alice = alice
    bob = bob
    c1 = c1
    c2 = c2
    r1 = r1
    r2 = r2
    s1 = s1
    s2 = s2
    NoOne = NoOne
    NoSession = NoSession
    Convs <- MCConvs
    Subjects <- MCSubjects
    Bodies <- MCBodies
    Requests <- MCRequests
    Sources <- MCSources
    Roster <- MCRoster
    MaxIterations = 1
    MaxCalls <- MCMaxCalls
    MaxFailures = 1
    MaxCrashes = 1
SPECIFICATION Spec
SYMMETRY MCSymmetry
INVARIANTS
    AskedIsSaved
    SavedIsRemembered
    NoQuestionTwice
    TranscriptIsOwners
    SessionsIsolated
    SourcesWereRetrieved
    AnswersFollowQuestions
PROPERTIES
    TranscriptsGrow
    ImplementsTranscripts
