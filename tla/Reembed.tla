------------------------------- MODULE Reembed -------------------------------
(***************************************************************************)
(* The re-embedding job (src/case_chat/knowledgedb/reembed.py): it streams *)
(* the tables of the staged knowledge database, in the order of SPECS, in  *)
(* batches of READ_BATCH rows through EmbeddingClient into Qdrant, several *)
(* tables to a collection.  It is run by hand, again and again, with or    *)
(* without --recreate, over all tables or some; it may be interrupted at   *)
(* any point.  A batch that fails is skipped and counted.                  *)
(*                                                                         *)
(* A point is the row it was made from (its id and payload), kept with the *)
(* text its vector is of.  Payload fields and indexes are left out.        *)
(***************************************************************************)
EXTENDS EmbeddingClient, FiniteSets

CONSTANTS
    Tables,         \* source tables
    Specs,          \* SPECS: the tables in the order they are read
    CollectionOf,   \* the collection each folds into
    RowsIn,         \* the rows of each, in the order of its cursor
    ReadBatch,      \* READ_BATCH
    NoVector,       \* "there is no such point"
    MaxRuns,        \* bound: times the job is run
    MaxFaults       \* bound: the count of faults stops there

Collections == {CollectionOf[t] : t \in Tables}

ASSUME JobAssumption ==
    /\ Specs \in Seq(Tables) /\ RowsIn \in [Tables -> Seq(Texts)]
    /\ ReadBatch \in Nat \ {0}
    /\ NoVector \notin Texts

\* SPECS names a table once, and a cursor reads a row of it once.
ASSUME OnceAssumption ==
    /\ IsInjective(Specs)
    /\ \A t \in Tables : IsInjective(RowsIn[t])

\* The bounded count of faults can still tell more than the retries absorb.
ASSUME FaultsAssumption == MaxFaults \in Nat /\ MaxRetries <= MaxFaults

VARIABLES
    existing,    \* collections that exist
    points,      \* collection -> row -> the text its point's vector is of
    phase,       \* where the job is
    recreate,    \* --recreate
    targets,     \* collections still to be ensured
    todo,        \* tables still to be read, the current one first
    at,          \* rows of it fetched
    batch,       \* rows being embedded
    read,        \* tables read to the end, those in counts
    total,       \* of each table, the points upserted
    skipped,     \* of each table, the rows of skipped batches
    runs,        \* history: times the job was run
    transients,  \* history: timeouts and the like in this run
    breaks       \* history: other failures of a call in this run

qdrantVars == <<existing, points>>
jobVars    == <<phase, recreate, targets, todo, at, batch, read, total, skipped>>
faultVars  == <<runs, transients, breaks>>
vars       == <<clientVars, qdrantVars, jobVars, faultVars>>

Phases == {"off", "ensuring", "reading", "embedding", "finished"}

TypeOK ==
    /\ ClientTypeOK
    /\ existing \in SUBSET Collections
    /\ points \in [Collections -> [Texts -> Texts \cup {NoVector}]]
    /\ phase \in Phases
    /\ recreate \in BOOLEAN
    /\ targets \in SUBSET Collections
    /\ todo \in Seq(Tables)
    /\ at \in Nat
    /\ batch \in Seq(Texts)
    /\ read \in SUBSET Tables
    /\ total \in [Tables -> Nat] /\ skipped \in [Tables -> Nat]
    /\ runs \in Nat /\ transients \in 0 .. MaxFaults /\ breaks \in 0 .. MaxFaults

Empty == [r \in Texts |-> NoVector]
None  == [t \in Tables |-> 0]

Init ==
    /\ ClientInit
    /\ existing = {}
    /\ points = [c \in Collections |-> Empty]
    /\ phase = "off" /\ recreate = FALSE
    /\ targets = {} /\ todo = <<>> /\ at = 0 /\ batch = <<>>
    /\ read = {} /\ total = None /\ skipped = None
    /\ runs = 0 /\ transients = 0 /\ breaks = 0

-----------------------------------------------------------------------------
\* [x for x in s if x in S]
Filtered(s, S) ==
    LET kept == {i \in DOMAIN s : s[i] \in S}
    IN [n \in 1 .. Cardinality(kept) |->
            s[CHOOSE i \in kept : Cardinality({j \in kept : j <= i}) = n]]

\* reembed(recreate, tables): the specs of the tables asked for.
Launch(again, tables) ==
    /\ phase \in {"off", "finished"}
    /\ runs < MaxRuns
    /\ runs' = runs + 1
    /\ phase' = "ensuring"
    /\ recreate' = again
    /\ targets' = {CollectionOf[t] : t \in tables}
    /\ todo' = Filtered(Specs, tables)
    /\ at' = 0
    /\ read' = {} /\ total' = None /\ skipped' = None
    /\ transients' = 0 /\ breaks' = 0
    /\ UNCHANGED <<clientVars, qdrantVars, batch>>

\* A mutation: an existing collection dropped, --recreate or not.
EnsureDrops(c) ==
    /\ phase = "ensuring" /\ c \in targets
    /\ existing' = existing \cup {c}
    /\ points' = [points EXCEPT ![c] = Empty]
    /\ targets' = targets \ {c}
    /\ UNCHANGED <<clientVars, phase, recreate, todo, at, batch, read, total, skipped, faultVars>>

\* ensure_collection: one that is there is dropped first when recreating, a
\* request of its own; one that is not, or no longer, is created.
Ensure(c) ==
    /\ phase = "ensuring" /\ c \in targets
    /\ IF c \in existing /\ recreate
       THEN /\ existing' = existing \ {c}
            /\ points' = [points EXCEPT ![c] = Empty]
            /\ UNCHANGED targets
       ELSE /\ existing' = existing \cup {c}
            /\ targets' = targets \ {c}
            /\ UNCHANGED points
    /\ UNCHANGED <<clientVars, phase, recreate, todo, at, batch, read, total, skipped, faultVars>>

StartReading ==
    /\ phase = "ensuring" /\ targets = {}
    /\ phase' = "reading"
    /\ UNCHANGED <<clientVars, qdrantVars, recreate, targets, todo, at, batch, read, total, skipped,
                   faultVars>>

Smaller(m, n) == IF m < n THEN m ELSE n

\* reembed_table: the next rows of the cursor, less the blank ones; after the
\* last of them, the next table.
Fetch ==
    /\ phase = "reading" /\ todo # <<>>
    /\ LET rows    == RowsIn[Head(todo)]
           upto    == Smaller(at + ReadBatch, Len(rows))
           kept    == Filtered(SubSeq(rows, at + 1, upto), {r \in Texts : nature[r] # "blank"})
       IN IF at >= Len(rows)
          THEN /\ todo' = Tail(todo) /\ at' = 0 /\ read' = read \cup {Head(todo)}
               /\ UNCHANGED <<clientVars, phase, batch>>
          ELSE /\ at' = upto
               /\ UNCHANGED <<todo, read>>
               /\ IF kept = <<>>
                  THEN UNCHANGED <<clientVars, phase, batch>>
                  ELSE batch' = kept /\ phase' = "embedding" /\ EmbedTexts(kept)
    /\ UNCHANGED <<qdrantVars, recreate, targets, total, skipped, faultVars>>

Finish ==
    /\ phase = "reading" /\ todo = <<>>
    /\ phase' = "finished"
    /\ UNCHANGED <<clientVars, qdrantVars, recreate, targets, todo, at, batch, read, total, skipped,
                   faultVars>>

Count(fault) == fault' = Smaller(fault + 1, MaxFaults)

\* A step of the embedder's call for the batch.
Embed ==
    /\ phase = "embedding"
    /\ \/ (Embeds \/ Rejects) /\ UNCHANGED <<transients, breaks>>
       \/ TimesOut /\ Count(transients) /\ UNCHANGED breaks
       \/ Breaks /\ Count(breaks) /\ UNCHANGED transients
    /\ UNCHANGED <<qdrantVars, jobVars, runs>>

Target == CollectionOf[Head(todo)]

\* zip(rows, vectors), upserted by id.
Upserted ==
    [points EXCEPT ![Target] = [r \in Texts |->
        IF \E i \in DOMAIN batch : batch[i] = r
        THEN vectors[CHOOSE i \in DOMAIN batch : batch[i] = r]
        ELSE points[Target][r]]]

\* The end of a batch: its rows go to one of the two counts.
EndBatch ==
    /\ phase' = "reading" /\ batch' = <<>>
    /\ call' = "idle" /\ queue' = <<>> /\ tries' = 0 /\ vectors' = <<>>
    /\ UNCHANGED <<nature, existing, recreate, targets, todo, at, read, runs, transients>>

Upsert ==
    /\ phase = "embedding" /\ call = "returned"
    /\ points' = Upserted
    /\ total' = [total EXCEPT ![Head(todo)] = @ + Len(batch)]
    /\ EndBatch
    /\ UNCHANGED <<skipped, breaks>>

\* A mutation: an exception of the embedder leaves the batch uncounted.
SkipUncounted ==
    /\ phase = "embedding"
    /\ \/ call = "raised" /\ UNCHANGED <<points, breaks>>
       \/ call = "returned" /\ points' \in {points, Upserted} /\ Count(breaks)
    /\ EndBatch
    /\ UNCHANGED <<total, skipped>>

\* The except clause: the embedder raised, or the upsert did, Qdrant having
\* applied it or not.
Skip ==
    /\ phase = "embedding"
    /\ \/ call = "raised" /\ UNCHANGED <<points, breaks>>
       \/ call = "returned" /\ points' \in {points, Upserted} /\ Count(breaks)
    /\ skipped' = [skipped EXCEPT ![Head(todo)] = @ + Len(batch)]
    /\ EndBatch
    /\ UNCHANGED total

\* The operator stops the job; or Postgres fails, or Qdrant does while the
\* collections are ensured, and the exception ends it.
Dies ==
    /\ phase \notin {"off", "finished"}
    /\ phase' = "off"
    /\ targets' = {} /\ todo' = <<>> /\ at' = 0 /\ batch' = <<>>
    /\ call' = "idle" /\ queue' = <<>> /\ tries' = 0 /\ vectors' = <<>>
    /\ UNCHANGED <<nature, qdrantVars, recreate, read, total, skipped, faultVars>>

Work == (\E c \in Collections : Ensure(c)) \/ StartReading \/ Embed \/ Upsert \/ Skip \/ Finish

Next ==
    \/ \E again \in BOOLEAN, tables \in SUBSET Tables : Launch(again, tables)
    \/ Work
    \/ Fetch
    \/ Dies

\* Embedder (120 s) and Qdrant calls have timeouts; a fetch from Postgres has
\* none.
Fairness == WF_vars(Work)

Spec == Init /\ [][Next]_vars /\ Fairness

-----------------------------------------------------------------------------
(* Properties. *)

\* A point's vector is of its own row's text, through replies in any order,
\* batches split in two ways, retries, and skipped batches between them.
VectorsMatchRows ==
    \A c \in Collections, r \in Texts : points[c][r] \in {r, NoVector}

\* At every moment, in whatever state a run left it, the index is sound.
IndexSound == TypeOK /\ VectorsMatchRows

Rows(t)    == {RowsIn[t][i] : i \in DOMAIN RowsIn[t]}
Plain(t)   == {r \in Rows(t) : nature[r] # "blank"}
Missing(t) == {r \in Plain(t) : points[CollectionOf[t]][r] = NoVector}

\* When the job has finished, each row with text of a table it read is in one of
\* the two counts it logs, and no more rows are missing than it says it skipped.
RowsAccounted ==
    phase = "finished" =>
        \A t \in read :
            /\ total[t] + skipped[t] = Cardinality(Plain(t))
            /\ Cardinality(Missing(t)) <= skipped[t]

\* The rows read in one batch with row i of table t.
BatchOf(t, i) ==
    {RowsIn[t][j] : j \in {k \in DOMAIN RowsIn[t] :
        (k - 1) \div ReadBatch = (i - 1) \div ReadBatch}}

\* If nothing broke, and no more timeouts came than the retries absorb, the only
\* rows skipped are those read in one batch with a text the endpoint refuses: a
\* blank row, a batch the endpoint does not like as one, and a timeout here and
\* there cost nothing.
OnlyRefusedSkip ==
    phase = "finished" /\ breaks = 0 /\ transients < MaxRetries =>
        \A t \in read :
            \A i \in DOMAIN RowsIn[t] :
                RowsIn[t][i] \in Missing(t)
                  => \E r \in BatchOf(t, i) : nature[r] = "refused"

\* Points go only when their collection is one that a run with --recreate is
\* ensuring; a run that was interrupted is made good by the next.
PointsKept ==
    [][\A c \in Collections, r \in Texts :
         points[c][r] # NoVector /\ points'[c][r] = NoVector
           => phase = "ensuring" /\ recreate /\ c \in targets]_vars

\* A run ends, unless Postgres leaves it waiting.
RunsEnd ==
    (phase = "ensuring") ~> (phase \in {"off", "finished"} \/ [](phase = "reading"))
=============================================================================
