---------------------------- MODULE Transcripts ----------------------------
(***************************************************************************)
(* What the chat service promises its users, with sessions, streams, tools *)
(* and the database left out: conversations with an owner and a transcript *)
(* of questions and answers, and requests that are new, asked or closed.   *)
(* An accepted question is in the transcript for good; it gets at most one *)
(* answer, which comes after it; only its owner removes a conversation,    *)
(* whole.  An answer that comes after that opens it again.                 *)
(*                                                                         *)
(* What users read (seen) may run ahead of what a restart keeps (kept),    *)
(* but only by requests that failed: whether they were carried out is open *)
(* until a later request settles it, a failure takes it back, or a restart.*)
(***************************************************************************)
EXTENDS Sequences

CONSTANTS Convs, Subjects, Requests, NoOne

VARIABLES
    seen,       \* who owns each conversation, NoOne if it does not exist, and
    kept,       \* its transcript: as users read it, and as a restart keeps it
    opened,     \* the conversations ever opened
    standing,   \* of each request: "new", "asked" or "closed"
    conv, by    \* what conversation a request is about, and whose it is

vars == <<seen, kept, opened, standing, conv, by>>

Nothing == [owner |-> [c \in Convs |-> NoOne], log |-> [c \in Convs |-> <<>>]]

Init ==
    /\ seen = Nothing
    /\ kept = Nothing
    /\ opened = {}
    /\ standing = [r \in Requests |-> "new"]
    /\ conv \in [Requests -> Convs]
    /\ by \in [Requests -> Subjects]

-----------------------------------------------------------------------------
(* What a request makes of what users read. *)

Owned(image, c, s) ==
    [image EXCEPT !.owner[c] = IF @ = NoOne THEN s ELSE @]

Said(image, role, r) ==
    [Owned(image, conv[r], by[r]) EXCEPT
        !.log[conv[r]] = Append(@, [role |-> role, req |-> r])]

Emptied(image, c) == [image EXCEPT !.log[c] = <<>>]
Gone(image, c)    == [Emptied(image, c) EXCEPT !.owner[c] = NoOne]

Keep(image) == seen' = image /\ kept' = image

\* A failed request leaves something it reached, or what was kept.
Leave(saved, reached) == kept' = saved /\ seen' \in {reached, saved}

\* A question or an answer that is not carried through may be there or not, be
\* read for a while or for good; what was open before it may be settled by it.
HalfSaid(role, r) ==
    LET owned == Owned(seen, conv[r], by[r])
    IN \/ \E image \in {seen, owned} : Leave(kept, image)
       \/ \E image \in {owned, Said(seen, role, r)} : Leave(owned, image)

-----------------------------------------------------------------------------
Open(c, s) ==
    /\ c \notin opened
    /\ opened' = opened \cup {c}
    /\ Keep(Owned(seen, c, s))
    /\ UNCHANGED <<standing, conv, by>>

Ask(r) ==
    /\ standing[r] = "new"
    /\ seen.owner[conv[r]] = by[r]
    /\ standing' = [standing EXCEPT ![r] = "asked"]
    /\ Keep(Said(seen, "user", r))
    /\ UNCHANGED <<opened, conv, by>>

AskFails(r) ==
    /\ standing[r] = "new"
    /\ seen.owner[conv[r]] = by[r]
    /\ standing' = [standing EXCEPT ![r] = "closed"]
    /\ HalfSaid("user", r)
    /\ UNCHANGED <<opened, conv, by>>

Reply(r) ==
    /\ standing[r] = "asked"
    /\ standing' = [standing EXCEPT ![r] = "closed"]
    /\ Keep(Said(seen, "assistant", r))
    /\ UNCHANGED <<opened, conv, by>>

ReplyFails(r) ==
    /\ standing[r] = "asked"
    /\ standing' = [standing EXCEPT ![r] = "closed"]
    /\ HalfSaid("assistant", r)
    /\ UNCHANGED <<opened, conv, by>>

\* A question that will have no answer.
Abandon(r) ==
    /\ standing[r] = "asked"
    /\ standing' = [standing EXCEPT ![r] = "closed"]
    /\ UNCHANGED <<seen, kept, opened, conv, by>>

Remove(c, s) ==
    /\ seen.owner[c] = s
    /\ UNCHANGED <<opened, standing, conv, by>>
    /\ Keep(Gone(seen, c))

RemoveFails(c, s) ==
    /\ seen.owner[c] = s
    /\ UNCHANGED <<opened, standing, conv, by>>
    /\ \E image \in {seen, Emptied(seen, c), Gone(seen, c)} : Leave(kept, image)

\* Some other request fails, and takes back what was open.
TakeBack ==
    /\ UNCHANGED <<kept, opened, standing, conv, by>>
    /\ seen' = kept

Restart ==
    /\ seen' = kept
    /\ standing' = [r \in Requests |-> IF standing[r] = "asked" THEN "closed" ELSE standing[r]]
    /\ UNCHANGED <<kept, opened, conv, by>>

Next ==
    \/ \E c \in Convs, s \in Subjects : Open(c, s) \/ Remove(c, s) \/ RemoveFails(c, s)
    \/ \E r \in Requests : Ask(r) \/ AskFails(r) \/ Reply(r) \/ ReplyFails(r) \/ Abandon(r)
    \/ TakeBack
    \/ Restart

Spec == Init /\ [][Next]_vars
=============================================================================
