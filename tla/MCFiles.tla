------------------------------- MODULE MCFiles -------------------------------
(* SharedFiles for TLC: a small instance of each component.                    *)
EXTENDS SharedFiles

\* Two subjects, one of whom has a link that ends.
MCEnds == [s \in Subjects |-> IF s = "ann" THEN 0 ELSE 2]

\* Two files of up to three chunks, two to a batch; one may be a thread whose two
\* conversations number their chunks 0 and 0, 1.
Piece(n, words) == [seq |-> n, text |-> words]
MCOrder    == <<"note", "mail">>
MCContents == {<<>>, <<Piece(0, "a")>>, <<Piece(0, "b"), Piece(0, "c"), Piece(1, "a")>>}

\* A file of each of two globs, one of them a thread, and one of none: a note, or
\* any CSV of structured-data, a thread, and a ground-truth file.
MCGlobOf   == [f \in Paths |-> CASE f = "note" -> 1 [] f = "thread" -> 2 [] f = "truth" -> 0]
MCResolved == [n \in Names |-> IF n = "notes/../truth" THEN "truth" ELSE n]
=============================================================================
