--------------------------- MODULE ConversationDb ---------------------------
(***************************************************************************)
(* The two tables of the chat-history database and the SQL statements that *)
(* ConversationStore (src/case_chat/web/conversations.py) runs on them,    *)
(* each as an operator from one database image to the next.                *)
(*                                                                         *)
(* A conversation row is its owner; its title matters only through being   *)
(* empty or not (list hides untitled rows).  A message row keeps its idx,  *)
(* so a set of rows of one conversation is a transcript: ORDER BY idx      *)
(* spells it out.  Timestamps are left out.                                *)
(***************************************************************************)
EXTENDS Integers

CONSTANTS
    Convs,      \* conversation ids (uuid4 hex)
    Subjects,   \* authenticated subjects
    Bodies,     \* what a message row carries besides its key: text, citations, thinking
    NoOne       \* "there is no such conversations row"

ASSUME NoOneIsNoSubject == NoOne \notin Subjects

Roles == {"user", "assistant"}

\* A row of the messages table.
Row == [conv : Convs, idx : Nat, role : Roles, body : Bodies]

\* An image of the database: the conversations table as owner and titled,
\* the messages table as rows.
Db == [owner : [Convs -> Subjects \cup {NoOne}],
       titled : SUBSET Convs,
       rows : SUBSET Row]

EmptyDb == [owner |-> [c \in Convs |-> NoOne], titled |-> {}, rows |-> {}]

RowsOf(db, c) == {m \in db.rows : m.conv = c}

\* SELECT 1 FROM conversations WHERE id=? AND subject=?
Owns(db, c, s) == db.owner[c] = s

-----------------------------------------------------------------------------
(* Statements. *)

\* INSERT OR IGNORE INTO conversations
InsertConversation(db, c, s) ==
    IF db.owner[c] = NoOne THEN [db EXCEPT !.owner[c] = s] ELSE db

\* A mutation: the + 1 forgotten.
NextIdxIsMax(db, c) ==
    IF RowsOf(db, c) = {} THEN -1
    ELSE CHOOSE n \in {m.idx : m \in RowsOf(db, c)} : \A m \in RowsOf(db, c) : m.idx <= n

\* SELECT COALESCE(MAX(idx), -1) + 1 FROM messages WHERE conv_id=?
NextIdx(db, c) ==
    IF RowsOf(db, c) = {} THEN 0
    ELSE 1 + CHOOSE n \in {m.idx : m \in RowsOf(db, c)} : \A m \in RowsOf(db, c) : m.idx <= n

InsertMessage(db, c, role, body) ==
    [db EXCEPT !.rows = @ \cup
        {[conv |-> c, idx |-> NextIdx(db, c), role |-> role, body |-> body]}]

\* A mutation: the conversation named by its first turn only.
SetTitleAtFirst(db, c, role) ==
    IF role = "user" /\ db.owner[c] # NoOne /\ \A m \in RowsOf(db, c) : m.idx = 0
    THEN [db EXCEPT !.titled = @ \cup {c}] ELSE db

\* SELECT title, then UPDATE conversations SET title: the first user turn names
\* the conversation ("Untitled" when it has no text), an assistant turn never.
SetTitle(db, c, role) ==
    IF role = "user" /\ db.owner[c] # NoOne
    THEN [db EXCEPT !.titled = @ \cup {c}] ELSE db

DeleteMessages(db, c) == [db EXCEPT !.rows = @ \ RowsOf(db, c)]

DeleteConversation(db, c) ==
    [db EXCEPT !.owner[c] = NoOne, !.titled = @ \ {c}]

-----------------------------------------------------------------------------
(* Whole operations, when every statement succeeds. *)

\* add_turn; its UPDATE of the timestamp changes nothing kept here.
Turned(db, c, s, role, body) ==
    SetTitle(InsertMessage(InsertConversation(db, c, s), c, role, body), c, role)

\* delete, of a conversation the caller owns.
Deleted(db, c) == DeleteConversation(DeleteMessages(db, c), c)

\* What get(conv_id, subject) replays.
Transcript(db, c, s) == IF Owns(db, c, s) THEN RowsOf(db, c) ELSE {}

\* What list(subject) shows.
Listed(db, s) == {c \in Convs : Owns(db, c, s) /\ c \in db.titled}
=============================================================================
