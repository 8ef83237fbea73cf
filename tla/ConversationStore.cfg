\* Two conversations of two subjects and three turns: a turn that fails, a turn
\* whose commit writes what was pending, and a turn after a delete.
CONSTANTS
    alice = alice
    bob = bob
    c1 = c1
    c2 = c2
    b1 = b1
    b2 = b2
    b3 = b3
    NoOne = NoOne
    Convs <- MCConvs
    Subjects <- MCSubjects
    Bodies <- MCBodies
    Creator <- MCCreator
SPECIFICATION Spec
SYMMETRY MCSymmetry
INVARIANTS
    NoOrphans
    TranscriptsOrdered
    PendingExtendsSaved
    SavedIsDurable
    SavedIsListed
