----------------------------- MODULE SharedFiles -----------------------------
(***************************************************************************)
(* The components that share files and no process, side by side: the       *)
(* loaders (Chunking), the indexer, the case dataset, the document viewer  *)
(* and the list of revoked subjects.  One at a time moves, `part` says     *)
(* which, while the others rest in an initial state.                       *)
(***************************************************************************)
EXTENDS Revocation

CONSTANTS
    Parts,                                              \* the components of a run
    Target, HardMax, MaxLines, Lengths, MaxPieces,      \* Chunking
    SourceFiles, Order, Contents, Limits, UpsertBatch,  \* Indexer
    MaxRuns, MaxEdits,
    Builders, entry, Processes, Versions, Tables,       \* CaseDataset
    MaxFiles, Unread,
    Paths, Globs, GlobOf, Threads, Names, Resolved,     \* Documents
    MaxChanges,
    Nothing                                             \* no point, no data, no request

VARIABLES
    part,
    kind, text, read, from, turns, split, base, chunks, done,           \* Chunking
    sources, exists, points, phase, recreate, limit, todo, collected,   \* Indexer
    upserted, edited, runs, edits,
    truth, path, files, made, pc, inode, mine, rows, service, conn,     \* CaseDataset
    names,
    corpus, allowed, request, reply, changes, since, during, ever       \* Documents

C == INSTANCE Chunking WITH at <- read
I == INSTANCE Indexer WITH Files <- SourceFiles, NoPoint <- Nothing,
        corpus <- sources, chunks <- collected, at <- upserted
D == INSTANCE CaseDataset WITH NoData <- Nothing, loaded <- rows
V == INSTANCE Documents WITH Files <- Paths

ASSUME SharedFilesAssumption ==
    /\ C!ChunkingAssumption /\ I!IndexerAssumption /\ D!DatasetAssumption /\ V!DocumentsAssumption
    /\ <<>> \in Contents /\ Parts \subseteq {"chunking", "indexer", "dataset", "documents", "revocation"}

\* The one state a component that is not chosen rests in.
Rests(p, state) == IF part = p THEN TRUE ELSE state

FilesInit ==
    /\ part \in Parts
    /\ Rests("chunking", kind = "prose" /\ text = <<>>) /\ C!Init
    /\ Rests("indexer", sources = [f \in SourceFiles |-> <<>>]) /\ I!Init
    /\ Rests("dataset", truth = Nothing) /\ D!Init
    /\ Rests("documents", corpus = [f \in Paths |-> "absent"]) /\ V!Init
    /\ Rests("revocation",
             LET anyone == CHOOSE s \in Subjects : TRUE IN
             subject = [c \in Commands |-> anyone])
    /\ Init

loaderVars   == <<kind, text, read, from, turns, split, base, chunks, done>>
indexerVars  == <<sources, exists, points, phase, recreate, limit, todo, collected, upserted,
                  edited, runs, edits>>
datasetVars  == <<truth, path, files, made, pc, inode, mine, rows, service, conn, names>>
documentVars == <<corpus, allowed, request, reply, changes, since, during, ever>>
filesVars    == <<part, loaderVars, indexerVars, datasetVars, documentVars, vars>>

\* An indexing run after the last, and a dataset that nothing happens to, may rest
\* for good; a loader, a request and a command may not.
MayRest == part \in {"indexer", "dataset"} /\ UNCHANGED filesVars

FilesNext ==
    \/ part = "chunking" /\ C!Next /\ UNCHANGED <<part, indexerVars, datasetVars, documentVars, vars>>
    \/ part = "indexer" /\ I!Next /\ UNCHANGED <<part, loaderVars, datasetVars, documentVars, vars>>
    \/ part = "dataset" /\ D!Next /\ UNCHANGED <<part, loaderVars, indexerVars, documentVars, vars>>
    \/ part = "documents" /\ V!Next /\ UNCHANGED <<part, loaderVars, indexerVars, datasetVars, vars>>
    \/ part = "revocation" /\ Next /\ UNCHANGED <<part, loaderVars, indexerVars, datasetVars, documentVars>>
    \/ MayRest

\* The fairness of CaseDataset.
FilesSpec ==
    /\ FilesInit /\ [][FilesNext]_filesVars
    /\ WF_D!vars(D!BuildStep(entry) \/ D!Fail(entry)) /\ WF_D!vars(D!Serve)

-----------------------------------------------------------------------------
(* The properties of the components. *)

\* The chunks of a file (loaders.py), taken together, are its text, each of one
\* conversation; see Chunking.
ChunksRight == part = "chunking" => C!ChunksRight

\* The windows of loaders.py are as large as their limits let them be, and no larger.
WindowsTight == part = "chunking" => C!WindowsTight

\* The collection is what the runs of indexer.py so far, whole or cut short, make it.
IndexRight == part = "indexer" => I!IndexRight

\* The indexer drops a collection only once it has read the corpus to refill it.
DroppedOnlyToRebuild == I!DroppedOnlyToRebuild

\* The case dataset is one build's, in the file of dataset.py and in the names that
\* queries.py remembers of it.
DatasetSound == part = "dataset" => D!DatasetSound

\* What a process reads of the dataset never changes under it once there is data.
ViewsSettle == D!ViewsSettle

\* A container that starts (web_entrypoint.sh) comes to serve, whatever becomes of
\* the build.
StartServes == D!StartServes

\* The viewer (documents.py) shows what its own globs allow, all of it and nothing
\* else, but for what came or went since the process started.
DocumentsServed == part = "documents" => V!DocumentsServed

\* Each chunk is a point of its own: the indexer "embeds each chunk's text bare, and
\* upserts" it under an id made from its chunk_id (indexer.py:4, 114).
ChunkIdsDistinct == C!ChunkIdsDistinct

\* A dataset that is not built is refused (queries.py:41-45, app.py:129-130).
UnbuiltIsRefused == D!UnbuiltIsRefused
=============================================================================
