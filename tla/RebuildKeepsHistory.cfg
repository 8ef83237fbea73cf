\* What a rebuilt session replays is not what the running one held.
CONSTANTS
    alice = alice
    bob = bob
    c1 = c1
    c2 = c2
    r1 = r1
    r2 = r2
    s1 = s1
    s2 = s2
    NoOne = NoOne
    NoSession = NoSession
    Convs <- MCConvs
    Subjects <- MCSubjects
    Bodies <- MCBodies
    Requests <- MCRequests
    Sources <- MCSources
    Roster <- MCRoster
    MaxIterations = 2
    MaxCalls <- MCMaxCalls
    MaxFailures = 0
    MaxCrashes = 1
SPECIFICATION Spec
SYMMETRY MCSymmetry
INVARIANTS
    RebuildKeepsHistory
