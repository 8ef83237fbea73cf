------------------------------- MODULE Indexer -------------------------------
(***************************************************************************)
(* The document indexer (src/case_chat/synthetic/indexer.py): the source   *)
(* files of the corpus are loaded into chunks (Chunking), embedded and     *)
(* upserted into one Qdrant collection, by runs started by hand with or    *)
(* without --recreate and --limit.  The files may be regenerated at any    *)
(* time, also while a run reads them.  The first error ends a run.         *)
(*                                                                         *)
(* A file is the sequence of its chunks, each with its seq and its text,   *)
(* <<>> when it is absent.  The id of a point is made of the file and the  *)
(* seq, and the loaders do not always number the chunks of a file apart: a *)
(* thread's conversations each begin at 0 (Chunking's ChunkIdsDistinct).   *)
(* Of chunks of one id the last one upserted overwrites the others.        *)
(*                                                                         *)
(* embed_texts either raises or returns the vectors of its texts in order  *)
(* (which the run Reembed shows), so a point is the text it was made from. *)
(* The payload index and the other payload fields are left out.            *)
(***************************************************************************)
EXTENDS Integers, Sequences, SequencesExt

CONSTANTS
    Files,        \* source files
    Order,        \* the files in the order of the globs, each glob sorted
    Contents,     \* bound: what a file may hold
    Limits,       \* bound: values of --limit, 0 when it is not given
    UpsertBatch,  \* UPSERT_BATCH
    NoPoint,      \* "there is no such point"
    MaxRuns,      \* bound: runs
    MaxEdits      \* bound: times a file is changed

Pieces == UNION {ToSet(c) : c \in Contents}
Texts  == {p.text : p \in Pieces}
Seqs   == {p.seq : p \in Pieces}
Ids    == Files \X Seqs

IndexerAssumption ==
    /\ Order \in Seq(Files) /\ ToSet(Order) = Files
    /\ \A i, j \in DOMAIN Order : Order[i] = Order[j] => i = j
    /\ \A c \in Contents : c \in Seq([seq : Nat, text : Texts])
    /\ Limits \subseteq Nat /\ 0 \in Limits
    /\ UpsertBatch \in Nat \ {0}
    /\ NoPoint \notin Texts
    /\ MaxRuns \in Nat /\ MaxEdits \in Nat

VARIABLES
    corpus,     \* what each file holds
    exists,     \* the collection exists
    points,     \* id -> text of its point
    phase,      \* where the run is
    recreate,   \* --recreate
    limit,      \* --limit
    todo,       \* files still to be loaded
    chunks,     \* chunks collected
    at,         \* chunks upserted (i of the loop)
    edited,     \* history: the corpus was changed since the run began
    runs, edits

jobVars == <<phase, recreate, limit, todo, chunks, at>>
vars    == <<corpus, exists, points, jobVars, edited, runs, edits>>

Phases == {"off", "collecting", "ensuring", "writing", "finished"}

TypeOK ==
    /\ corpus \in [Files -> Contents]
    /\ exists \in BOOLEAN
    /\ points \in [Ids -> Texts \cup {NoPoint}]
    /\ phase \in Phases /\ recreate \in BOOLEAN /\ limit \in Limits
    /\ todo \in Seq(Files)
    /\ chunks \in Seq([id : Ids, text : Texts])
    /\ at \in 0 .. Len(chunks)
    /\ edited \in BOOLEAN /\ runs \in 0 .. MaxRuns /\ edits \in 0 .. MaxEdits
    /\ exists \/ \A id \in Ids : points[id] = NoPoint

NoPoints == [id \in Ids |-> NoPoint]

Init ==
    /\ corpus \in [Files -> Contents]
    /\ exists = FALSE /\ points = NoPoints
    /\ phase = "off" /\ recreate = FALSE /\ limit = 0
    /\ todo = <<>> /\ chunks = <<>> /\ at = 0
    /\ edited = FALSE /\ runs = 0 /\ edits = 0

-----------------------------------------------------------------------------
Launch(again, n) ==
    /\ phase \in {"off", "finished"} /\ runs < MaxRuns
    /\ runs' = runs + 1
    /\ phase' = "collecting" /\ recreate' = again /\ limit' = n
    /\ todo' = Order /\ chunks' = <<>> /\ at' = 0
    /\ edited' = FALSE
    /\ UNCHANGED <<corpus, exists, points, edits>>

ChunksOf(f) ==
    [i \in DOMAIN corpus[f] |-> [id |-> <<f, corpus[f][i].seq>>, text |-> corpus[f][i].text]]

\* collect_chunks reads one file after another.
Load ==
    /\ phase = "collecting" /\ todo # <<>>
    /\ chunks' = chunks \o ChunksOf(Head(todo))
    /\ todo' = Tail(todo)
    /\ UNCHANGED <<corpus, exists, points, phase, recreate, limit, at, edited, runs, edits>>

\* if limit: chunks = chunks[:limit]
Limited == IF limit = 0 \/ limit >= Len(chunks) THEN chunks ELSE SubSeq(chunks, 1, limit)

Collected ==
    /\ phase = "collecting" /\ todo = <<>>
    /\ phase' = "ensuring"
    /\ chunks' = Limited
    /\ UNCHANGED <<corpus, exists, points, recreate, limit, todo, at, edited, runs, edits>>

\* A mutation: the collection is dropped before the corpus is read.
DropFirst ==
    /\ phase \in {"collecting", "ensuring"} /\ exists /\ recreate
    /\ exists' = FALSE /\ points' = NoPoints
    /\ UNCHANGED <<corpus, jobVars, edited, runs, edits>>

\* ensure_collection: delete_collection, or create_collection.
Drop ==
    /\ phase = "ensuring" /\ exists /\ recreate
    /\ exists' = FALSE /\ points' = NoPoints
    /\ UNCHANGED <<corpus, jobVars, edited, runs, edits>>

Ensured ==
    /\ phase = "ensuring" /\ ~(exists /\ recreate)
    /\ phase' = "writing"
    /\ exists' = TRUE
    /\ UNCHANGED <<corpus, points, recreate, limit, todo, chunks, at, edited, runs, edits>>

BatchEnd == IF at + UpsertBatch < Len(chunks) THEN at + UpsertBatch ELSE Len(chunks)

\* chunks[i : i + UPSERT_BATCH], upserted by id: the last of an id stays.
InBatch(id) == {k \in (at + 1) .. BatchEnd : chunks[k].id = id}

Upserted ==
    [id \in Ids |-> IF InBatch(id) = {} THEN points[id] ELSE chunks[Max(InBatch(id))].text]

\* embed_texts and upsert of one batch.
Write ==
    /\ phase = "writing" /\ at < Len(chunks)
    /\ points' = Upserted
    /\ at' = BatchEnd
    /\ UNCHANGED <<corpus, exists, phase, recreate, limit, todo, chunks, edited, runs, edits>>

Finish ==
    /\ phase = "writing" /\ at >= Len(chunks)
    /\ phase' = "finished"
    /\ UNCHANGED <<corpus, exists, points, recreate, limit, todo, chunks, at, edited, runs, edits>>

\* A mutation: a batch that raises is skipped, as in the re-embedding job.
DiesOrSkips ==
    /\ phase \notin {"off", "finished"}
    /\ IF phase = "writing" /\ at < Len(chunks)
       THEN at' = BatchEnd /\ phase' = phase
       ELSE at' = at /\ phase' = "off"
    /\ UNCHANGED <<corpus, exists, points, recreate, limit, todo, chunks, edited, runs, edits>>

\* An unreadable file, an error of the embedder or of Qdrant (which may have
\* applied the upsert), or the operator ends the run where it is.
Dies ==
    /\ phase \notin {"off", "finished"}
    /\ points' \in {points} \cup IF phase = "writing" THEN {Upserted} ELSE {}
    /\ phase' = "off"
    /\ UNCHANGED <<corpus, exists, recreate, limit, todo, chunks, at, edited, runs, edits>>

\* The corpus is generated anew, or a file is edited, added or removed.
Edit(f, c) ==
    /\ edits < MaxEdits /\ c # corpus[f]
    /\ corpus' = [corpus EXCEPT ![f] = c]
    /\ edited' = TRUE /\ edits' = edits + 1
    /\ UNCHANGED <<exists, points, jobVars, runs>>

Next ==
    \/ \E again \in BOOLEAN, n \in Limits : Launch(again, n)
    \/ Load \/ Collected \/ Drop \/ Ensured \/ Write \/ Finish
    \/ Dies
    \/ \E f \in Files, c \in Contents : Edit(f, c)

Spec == Init /\ [][Next]_vars

-----------------------------------------------------------------------------
(* Properties. *)

\* Chunk k is the last of its id among the first n, and no other overwrites it.
LastOfId(k, n) == \A j \in (k + 1) .. n : chunks[j].id # chunks[k].id

\* What a run has passed is in the collection, whatever earlier runs, whole or
\* cut short, left there: each point holds the text of the last chunk of its id
\* that the run passed.  With --recreate nothing else is in the collection.
PassedIsWritten ==
    phase \in {"writing", "finished"} =>
        /\ \A k \in 1 .. at : LastOfId(k, at) => points[chunks[k].id] = chunks[k].text
        /\ recreate =>
              \A id \in Ids : points[id] # NoPoint => \E k \in 1 .. at : chunks[k].id = id

LastOfSeq(f, i) == \A j \in DOMAIN corpus[f] : j > i => corpus[f][j].seq # corpus[f][i].seq

\* A finished run without --limit, during which no file changed, has of the chunks of
\* each file the last of every seq in the collection, whatever its batch; with
\* --recreate nothing else is there.
FinishedIsCorpus ==
    phase = "finished" /\ limit = 0 /\ ~edited =>
        \A f \in Files :
            /\ \A i \in DOMAIN corpus[f] :
                  LastOfSeq(f, i) => points[<<f, corpus[f][i].seq>>] = corpus[f][i].text
            /\ recreate => \A n \in Seqs :
                  points[<<f, n>>] # NoPoint => \E i \in DOMAIN corpus[f] : corpus[f][i].seq = n

\* At every moment of every run the collection is what the runs so far make it.
IndexRight == TypeOK /\ PassedIsWritten /\ FinishedIsCorpus

\* A point goes only by the --recreate of a run that has read the whole corpus
\* first: one that cannot read it destroys nothing.
DroppedOnlyToRebuild ==
    [][\A id \in Ids :
         points[id] # NoPoint /\ points'[id] = NoPoint
           => phase = "ensuring" /\ recreate /\ todo = <<>>]_vars
=============================================================================
