--------------------------- MODULE EmbeddingClient ---------------------------
(***************************************************************************)
(* EmbeddingClient (src/case_chat/embeddings/client.py): one call of       *)
(* embed_texts, a sequence of POSTs to an endpoint that may time out, fail,*)
(* reject a batch or a single text, or answer in any order.  A vector is   *)
(* named by the text it is of; normalization, dimensions and truncation    *)
(* are left out, but for the replies they refuse.                          *)
(***************************************************************************)
EXTENDS Integers, Sequences, SequencesExt

CONSTANTS
    Texts,         \* what is embedded
    BatchSize,     \* embeddings_batch_size
    MaxRetries     \* embeddings_max_retries

ASSUME ClientAssumption == BatchSize \in Nat \ {0} /\ MaxRetries \in Nat \ {0}

VARIABLES
    nature,    \* of each text, what the endpoint thinks of it alone; never changes
    call,      \* "idle", "posting", "returned" or "raised"
    queue,     \* the groups still to be posted, in order
    tries,     \* POSTs that failed for the first of them
    vectors    \* out

clientVars == <<nature, call, queue, tries, vectors>>

\* "blank": empty after strip; "refused": the endpoint answers 400 to it alone.
Natures == {"plain", "blank", "refused"}

ClientTypeOK ==
    /\ nature \in [Texts -> Natures]
    /\ call \in {"idle", "posting", "returned", "raised"}
    /\ queue \in Seq(Seq(Texts))
    /\ tries \in 0 .. MaxRetries - 1
    /\ vectors \in Seq(Texts)

ClientInit ==
    /\ nature \in [Texts -> Natures]
    /\ call = "idle"
    /\ queue = <<>>
    /\ tries = 0
    /\ vectors = <<>>

-----------------------------------------------------------------------------
\* range(0, len(texts), batch)
Batches(texts, size) ==
    [i \in 1 .. (Len(texts) + size - 1) \div size |->
        SubSeq(texts, (i - 1) * size + 1,
               IF i * size < Len(texts) THEN i * size ELSE Len(texts))]

\* embed_texts, up to its first POST; a blank text is refused before any.
EmbedTexts(texts) ==
    /\ call = "idle"
    /\ IF \E i \in DOMAIN texts : nature[texts[i]] = "blank"
       THEN call' = "raised" /\ UNCHANGED queue
       ELSE /\ call' = IF texts = <<>> THEN "returned" ELSE "posting"
            /\ queue' = Batches(texts, BatchSize)
    /\ UNCHANGED <<nature, tries, vectors>>

\* The vectors of the head group have come: the next group, or the return.
Extend(got) ==
    /\ vectors' = vectors \o got
    /\ queue' = Tail(queue)
    /\ tries' = 0
    /\ call' = IF Len(queue) = 1 THEN "returned" ELSE "posting"

\* The exception leaves embed_texts: the vectors it had are lost.
RaiseCall ==
    /\ call' = "raised"
    /\ queue' = <<>> /\ tries' = 0 /\ vectors' = <<>>

\* A mutation: the items of a reply taken in the order they come.
SortedUnsorted(items) == [i \in DOMAIN items |-> items[i].embedding]

\* The embeddings of a reply, sorted by index.
Sorted(items) ==
    [i \in DOMAIN items |-> items[CHOOSE j \in DOMAIN items : items[j].index = i].embedding]

\* 200 with one vector for each input, in any order.
Embeds ==
    /\ call = "posting"
    /\ LET inputs == Head(queue)
       IN /\ \A i \in DOMAIN inputs : nature[inputs[i]] = "plain"
          /\ \E order \in [DOMAIN inputs -> DOMAIN inputs] :
                /\ \A i, j \in DOMAIN inputs : order[i] = order[j] => i = j
                /\ Extend(Sorted([i \in DOMAIN inputs |->
                        [index |-> order[i], embedding |-> inputs[order[i]]]]))
    /\ UNCHANGED nature

\* 400, to a text alone or to a batch the endpoint does not like as one.
Rejectable(inputs) == Len(inputs) > 1 \/ nature[Head(inputs)] = "refused"

\* A batch is then posted text by text, each with tries of its own.
Rejects ==
    /\ call = "posting"
    /\ Rejectable(Head(queue))
    /\ IF Len(Head(queue)) > 1
       THEN /\ queue' = [i \in DOMAIN Head(queue) |-> <<Head(queue)[i]>>] \o Tail(queue)
            /\ tries' = 0
            /\ UNCHANGED <<call, vectors>>
       ELSE RaiseCall
    /\ UNCHANGED nature

\* A mutation: the tries counted in a circle.
TimesOutForEver ==
    /\ call = "posting"
    /\ tries' = (tries + 1) % MaxRetries
    /\ UNCHANGED <<nature, call, queue, vectors>>

\* A mutation: the last try given up before it is made.
TimesOutEarly ==
    /\ call = "posting"
    /\ IF tries + 2 < MaxRetries
       THEN tries' = tries + 1 /\ UNCHANGED <<call, queue, vectors>>
       ELSE RaiseCall
    /\ UNCHANGED nature

\* A timeout, a transport error or a 5xx: again, after a pause, until the tries
\* are used up.
TimesOut ==
    /\ call = "posting"
    /\ IF tries + 1 < MaxRetries
       THEN tries' = tries + 1 /\ UNCHANGED <<call, queue, vectors>>
       ELSE RaiseCall
    /\ UNCHANGED nature

\* Another 4xx; or a reply with too few vectors, a vector of another dimension
\* or a null one.
Breaks ==
    /\ call = "posting"
    /\ RaiseCall
    /\ UNCHANGED nature
=============================================================================
