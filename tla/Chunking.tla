------------------------------ MODULE Chunking ------------------------------
(***************************************************************************)
(* One loader of src/case_chat/synthetic/loaders.py turning one source     *)
(* file into chunks.  A text is a sequence of pieces, of which only the    *)
(* length counts: the sentences of a note, an email or a court document,   *)
(* some of them opening a paragraph; the events of a message thread, some  *)
(* opening a conversation; the rows of the visitation log; the lines of an *)
(* image's OCR text.  A piece of length 0 is an event that is no message   *)
(* or a row with no values.  A chunk is the interval of pieces it was made *)
(* from and its seq.  Titles, metadata and the header put before an        *)
(* email's first chunk are left out.                                       *)
(***************************************************************************)
EXTENDS Integers, Sequences, FiniteSetsExt

CONSTANTS
    Target,     \* target of window_text, and the 1200 of _window_turns
    HardMax,    \* hard_max
    MaxLines,   \* the 15 lines of _window_turns
    Lengths,    \* bound: lengths of the pieces
    MaxPieces   \* bound: pieces of a text

ChunkingAssumption ==
    /\ Target \in Nat /\ HardMax \in Nat /\ Target <= HardMax
    /\ MaxLines \in Nat \ {0}
    /\ Lengths \subseteq Nat /\ MaxPieces \in Nat

VARIABLES
    kind,     \* the loader
    text,     \* the file
    at,       \* pieces read
    from,     \* first piece of the window being filled (buf), 0 if empty
    turns,    \* lines in it and their lengths (len(buf), cur_len)
    split,    \* last sentence of the long paragraph being split, 0 if none
    base,     \* chunks there were before this conversation
    chunks,   \* chunks made
    done

vars == <<kind, text, at, from, turns, split, base, chunks, done>>

Kinds == {"prose", "messages", "visits", "ocr"}
Texts == UNION {[1 .. n -> [len : Lengths, opens : BOOLEAN]] : n \in 0 .. MaxPieces}
Chunk == [seq : Nat, first : Nat, last : Nat]

TypeOK ==
    /\ kind \in Kinds
    /\ text \in Texts
    /\ at \in 0 .. Len(text) /\ from \in 0 .. at
    /\ turns \in [lines : Nat, len : Nat]
    /\ split \in 0 .. Len(text)
    /\ base \in 0 .. Len(chunks)
    /\ chunks \in Seq(Chunk)
    /\ done \in BOOLEAN

Blank(p) == text[p].len = 0

\* What joins piece p to those before it: two newlines where it opens a paragraph,
\* else a space or a newline.
Joint(p) == IF kind = "prose" /\ text[p].opens THEN 2 ELSE 1

Adds(p) == IF Blank(p) THEN 0 ELSE Joint(p) + text[p].len

Joined[n \in 0 .. Len(text)] == IF n = 0 THEN 0 ELSE Joined[n - 1] + Adds(n)

\* The length of pieces a .. b joined again: nothing goes before the first.
Size(a, b) ==
    LET all == Joined[b] - Joined[a - 1]
    IN IF all = 0 THEN 0 ELSE all - Joint(a)

\* The last sentence of the paragraph of piece p.
ParagraphEnd(p) == Min({q \in p .. Len(text) : q = Len(text) \/ text[q + 1].opens})

\* A window is emitted; outside threads enumerate numbers them all.
Flushed ==
    IF from = 0 THEN chunks
    ELSE Append(chunks, [seq |-> Len(chunks) - base, first |-> from, last |-> at])

\* The length of the window being filled, len(buf).
Window == IF from = 0 THEN 0 ELSE Size(from, at)

NoTurns == [lines |-> 0, len |-> 0]

Init ==
    /\ kind \in Kinds
    /\ text \in Texts
    /\ text # <<>> => text[1].opens
    /\ kind \in {"prose", "ocr"} => \A p \in DOMAIN text : ~Blank(p)
    /\ at = 0 /\ from = 0 /\ turns = NoTurns /\ split = 0 /\ base = 0
    /\ chunks = <<>> /\ done = FALSE

-----------------------------------------------------------------------------
(* window_text and _split_long *)

\* A mutation: the full window is overwritten.
PutOver(fits, last) ==
    /\ at' = last
    /\ chunks' = chunks /\ from' = IF from = 0 \/ ~fits THEN at + 1 ELSE from

\* Pieces up to last join the window, or start a new one if they do not fit.
Put(fits, last) ==
    /\ at' = last
    /\ IF from # 0 /\ ~fits
       THEN chunks' = Flushed /\ from' = at + 1
       ELSE chunks' = chunks /\ from' = IF from = 0 THEN at + 1 ELSE from

Paragraph     == Size(at + 1, ParagraphEnd(at + 1))
ParagraphFits == Window + Paragraph + 2 <= Target

TakeParagraph ==
    /\ kind = "prose" /\ at < Len(text) /\ split = 0
    /\ Paragraph <= HardMax
    /\ Put(ParagraphFits, ParagraphEnd(at + 1))
    /\ UNCHANGED <<kind, text, turns, split, base, done>>

LongParagraph ==
    /\ kind = "prose" /\ at < Len(text) /\ split = 0
    /\ Paragraph > HardMax
    /\ chunks' = Flushed /\ from' = 0
    /\ split' = ParagraphEnd(at + 1)
    /\ UNCHANGED <<kind, text, at, turns, base, done>>

TakeSentence ==
    /\ at < split
    /\ Put(Window + text[at + 1].len + 1 <= HardMax, at + 1)
    /\ UNCHANGED <<kind, text, turns, split, base, done>>

EndSplit ==
    /\ split # 0 /\ at = split
    /\ chunks' = Flushed /\ from' = 0
    /\ split' = 0
    /\ UNCHANGED <<kind, text, at, turns, base, done>>

-----------------------------------------------------------------------------
(* load_messages_rsmf and _window_turns *)

NewConversation(p) == text[p].opens

\* len(chunks) when a conversation's call begins.
Base    == Len(Flushed)
Line(p) == [lines |-> IF Blank(p) THEN 0 ELSE 1, len |-> text[p].len]

\* Each conversation is windowed by a call of its own.
StartConversation ==
    /\ kind = "messages" /\ at < Len(text) /\ NewConversation(at + 1)
    /\ at' = at + 1
    /\ chunks' = Flushed /\ base' = Base
    /\ from' = IF Blank(at + 1) THEN 0 ELSE at + 1
    /\ turns' = Line(at + 1)
    /\ UNCHANGED <<kind, text, split, done>>

Full == turns.lines >= MaxLines \/ turns.len + text[at + 1].len > Target

\* A mutation: cur_len is not reset with buf.
NextTurnsUnreset ==
    [lines |-> IF from # 0 /\ Full THEN 1 ELSE turns.lines + 1,
     len   |-> turns.len + text[at + 1].len]

\* The turns of the window that line at + 1 goes to.
NextTurns ==
    IF from # 0 /\ Full THEN Line(at + 1)
    ELSE [lines |-> turns.lines + 1, len |-> turns.len + text[at + 1].len]

TakeLine ==
    /\ kind = "messages" /\ at < Len(text) /\ ~NewConversation(at + 1)
    /\ IF Blank(at + 1)
       THEN at' = at + 1 /\ UNCHANGED <<from, turns, chunks>>
       ELSE Put(~Full, at + 1) /\ turns' = NextTurns
    /\ UNCHANGED <<kind, text, split, base, done>>

-----------------------------------------------------------------------------
(* load_visitation_log, load_attachment_ocr, and the end of every loader *)

\* A chunk per row that has values, numbered by its row.
VisitSeq == at

TakeVisit ==
    /\ kind = "visits" /\ at < Len(text)
    /\ at' = at + 1
    /\ chunks' = IF Blank(at + 1) THEN chunks
                 ELSE Append(chunks, [seq |-> VisitSeq, first |-> at + 1, last |-> at + 1])
    /\ UNCHANGED <<kind, text, from, turns, split, base, done>>

\* The text of an image is one chunk, however long.
TakeImage ==
    /\ kind = "ocr" /\ at = 0 /\ text # <<>>
    /\ at' = Len(text) /\ from' = 1
    /\ UNCHANGED <<kind, text, turns, split, base, chunks, done>>

\* The last window.
Return ==
    /\ at = Len(text) /\ split = 0 /\ ~done
    /\ done' = TRUE
    /\ chunks' = Flushed /\ from' = 0
    /\ UNCHANGED <<kind, text, at, turns, split, base>>

\* The loader has returned.
Returned == done /\ UNCHANGED vars

Next ==
    \/ TakeParagraph \/ LongParagraph \/ TakeSentence \/ EndSplit
    \/ StartConversation \/ TakeLine
    \/ TakeVisit \/ TakeImage \/ Return \/ Returned

Spec == Init /\ [][Next]_vars

-----------------------------------------------------------------------------
(* Properties. *)

Reached(k) == IF k = 0 THEN 0 ELSE chunks[k].last

\* b comes after a, with nothing but blank pieces in between.
Follows(a, b) == a < b /\ \A p \in (a + 1) .. (b - 1) : Blank(p)

\* Every piece read is in exactly one chunk or in the window being filled, in
\* the order of the text, however windows, long paragraphs, conversations and
\* blank rows alternate; at the end, in a chunk.
NothingLost ==
    /\ \A k \in DOMAIN chunks :
          Follows(Reached(k - 1), chunks[k].first) /\ chunks[k].first <= chunks[k].last
    /\ Follows(Reached(Len(chunks)), IF from = 0 THEN at + 1 ELSE from)
    /\ done => at = Len(text) /\ from = 0

Lines(c)     == Cardinality({p \in c.first .. c.last : ~Blank(p)})
Length(c)    == Size(c.first, c.last)
Paragraphs(c) == {ParagraphEnd(p) : p \in c.first .. c.last}

\* No window is over its limits unless it is a piece no loader cuts: one sentence
\* of a paragraph over hard_max, one line of a thread.  The newlines that join
\* the lines of a thread are not counted against its limit.
WindowsBounded ==
    \A k \in DOMAIN chunks :
        LET c == chunks[k] IN
        /\ kind = "prose" =>
              \/ Length(c) <= Target
              \/ Cardinality(Paragraphs(c)) = 1 /\ (Length(c) <= HardMax \/ c.first = c.last)
        /\ kind = "messages" =>
              \/ Lines(c) <= MaxLines /\ Length(c) <= Target + MaxLines - 1
              \/ Lines(c) = 1

\* Paragraph p .. is one that is split.
IsLong(p) == Size(p, ParagraphEnd(p)) > HardMax
OpensAt(p) == Max({q \in 1 .. p : text[q].opens})

\* A window ends only where what came next did not fit: two windows in a row are
\* never ones that one window could have held, but for conversations and the two
\* ends of a long paragraph.
WindowsMaximal ==
    \A k \in 2 .. Len(chunks) :
        LET c == chunks[k - 1]  p == chunks[k].first IN
        /\ kind = "prose" =>
              IF OpensAt(p) <= c.last THEN Size(c.first, p) > HardMax
              ELSE IsLong(p) \/ IsLong(OpensAt(c.last)) \/ Size(c.first, ParagraphEnd(p)) > Target
        /\ kind = "messages" /\ OpensAt(p) <= c.first =>
              Lines(c) = MaxLines \/ Size(c.first, p) - Lines(c) > Target

\* No window mixes the lines of two conversations: its thread and participants
\* are those of every line in it.
ConversationsApart ==
    kind = "messages" =>
        \A k \in DOMAIN chunks : OpensAt(chunks[k].first) = OpensAt(chunks[k].last)

\* Chunks share a chunk_id only when they are of different conversations of one
\* message thread.
NumberedApart ==
    \A j, k \in DOMAIN chunks :
        j < k /\ chunks[j].seq = chunks[k].seq =>
            kind = "messages" /\ OpensAt(chunks[j].first) # OpensAt(chunks[k].first)

\* The chunks of a file, taken together, are its text, each of one conversation.
ChunksRight == TypeOK /\ NothingLost /\ ConversationsApart /\ NumberedApart

\* Windows are as large as their limits let them be, and no larger.
WindowsTight == WindowsBounded /\ WindowsMaximal

\* The indexer "embeds each chunk's text bare, and upserts" it under an id made
\* from chunk_id (indexer.py:4, 114): two chunks of one id would be one point.
ChunkIdsDistinct ==
    \A j, k \in DOMAIN chunks : chunks[j].seq = chunks[k].seq => j = k
=============================================================================
