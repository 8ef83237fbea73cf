-------------------------- MODULE ConversationStore --------------------------
(***************************************************************************)
(* ConversationStore (src/case_chat/web/conversations.py): one SQLite      *)
(* connection, whose view (conn) runs ahead of the file (disk) between     *)
(* commits.  Calls are synchronous on the event loop, so no two overlap,   *)
(* but each runs several statements, any of which may raise (disk full,    *)
(* I/O error, database locked).  No call rolls back: what the statements   *)
(* before the error did stays pending on the connection, unless SQLite     *)
(* rolled the transaction back by itself, and the next commit of any call  *)
(* writes it.  A crash of the process loses what is pending.               *)
(***************************************************************************)
EXTENDS ConversationDb

CONSTANT Creator      \* the subject /api/conversations/new minted an id for

ASSUME CreatorAssumption == Creator \in [Convs -> Subjects]

VARIABLES
    disk,     \* the database file: the last commit
    conn,     \* what the connection sees, pending statements included
    fate      \* history: what became of each add_turn, by its body

vars == <<disk, conn, fate>>

\* "new": not called yet; "saved": add_turn returned; "raised": it raised;
\* "dropped": a delete of its conversation began afterwards.
Fates == {"new", "saved", "raised", "dropped"}

TypeOK ==
    /\ disk \in Db
    /\ conn \in Db
    /\ fate \in [Bodies -> Fates]

Init == disk = EmptyDb /\ conn = EmptyDb /\ fate = [b \in Bodies |-> "new"]

-----------------------------------------------------------------------------
\* An error found the connection in state reached, with saved on disk: the
\* pending statements stay, or SQLite has rolled them back.
Raise(saved, reached) ==
    /\ disk' = saved
    /\ conn' \in {reached, saved}

Commit(db) == disk' = db /\ conn' = db

\* create(conv_id, subject)
Create(c) ==
    /\ LET inserted == InsertConversation(conn, c, Creator[c])
       IN \/ Commit(inserted)
          \/ \E db \in {conn, inserted} : Raise(disk, db)
    /\ UNCHANGED fate

\* A mutation: the last commit of add_turn forgotten.
AddTurnUncommitted(c, role, b) ==
    /\ fate[b] = "new"
    /\ disk' = InsertConversation(conn, c, Creator[c])
    /\ conn' = Turned(conn, c, Creator[c], role, b)
    /\ fate' = [fate EXCEPT ![b] = "saved"]

\* add_turn returning: create, the INSERT, the title, and the last commit.
AddTurn(c, role, b) ==
    /\ fate[b] = "new"
    /\ Commit(Turned(conn, c, Creator[c], role, b))
    /\ fate' = [fate EXCEPT ![b] = "saved"]

\* A mutation: create leaves its commit to the caller.
AddTurnRaisesOneTransaction(c, role, b) ==
    /\ fate[b] = "new"
    /\ LET created  == InsertConversation(conn, c, Creator[c])
           inserted == InsertMessage(created, c, role, b)
           named    == SetTitle(inserted, c, role)
       IN \E db \in {conn, created, inserted, named} : Raise(disk, db)
    /\ fate' = [fate EXCEPT ![b] = "raised"]

\* add_turn raising: inside create, before its commit, or at a later statement,
\* when create's commit has already written what was pending.
AddTurnRaises(c, role, b) ==
    /\ fate[b] = "new"
    /\ LET created  == InsertConversation(conn, c, Creator[c])
           inserted == InsertMessage(created, c, role, b)
           named    == SetTitle(inserted, c, role)
       IN \/ \E db \in {conn, created} : Raise(disk, db)
          \/ \E db \in {created, inserted, named} : Raise(created, db)
    /\ fate' = [fate EXCEPT ![b] = "raised"]

\* The history of a delete: the turns it may take are no longer promised.
Drop(c) ==
    fate' = [b \in Bodies |->
        IF \E m \in RowsOf(conn, c) : m.body = b THEN "dropped" ELSE fate[b]]

\* A mutation: the conversation row deleted before its messages.
DeleteParentFirst(c, s) ==
    /\ Owns(conn, c, s)
    /\ LET gone == DeleteConversation(conn, c)
       IN \/ Commit(Deleted(conn, c))
          \/ \E db \in {conn, gone, Deleted(conn, c)} : Raise(disk, db)
    /\ Drop(c)

\* delete(conv_id, subject): refused unless owned, then messages, row, commit.
Delete(c, s) ==
    /\ Owns(conn, c, s)
    /\ LET emptied == DeleteMessages(conn, c)
       IN \/ Commit(Deleted(conn, c))
          \/ \E db \in {conn, emptied, Deleted(conn, c)} : Raise(disk, db)
    /\ Drop(c)

\* The process dies and ConversationStore.__init__ reopens the file.
Crash == conn' = disk /\ UNCHANGED <<disk, fate>>

Next ==
    \/ \E c \in Convs : Create(c)
    \/ \E c \in Convs, role \in Roles, b \in Bodies :
          AddTurn(c, role, b) \/ AddTurnRaises(c, role, b)
    \/ \E c \in Convs, s \in Subjects : Delete(c, s)
    \/ Crash

Spec == Init /\ [][Next]_vars

-----------------------------------------------------------------------------
(* Properties, of the file and of the view alike: a crash may expose either. *)

Images == {disk, conn}

\* No message row outlives its conversations row, whichever statement of
\* add_turn or delete failed: create commits the row before any message, and
\* delete empties the transcript before it drops the row.  An orphan would be
\* readable by nobody and would head the transcript of the next row of that id.
NoOrphans ==
    \A db \in Images : \A m \in db.rows : db.owner[m.conv] # NoOne

\* The idx of a transcript are exactly 0 .. n-1, each once: MAX(idx) + 1 has no
\* uniqueness constraint behind it, and ORDER BY idx must have one answer.
IsTranscript(rows) ==
    /\ \A m1, m2 \in rows : m1.idx = m2.idx => m1 = m2
    /\ \A m \in rows : \A i \in 0 .. m.idx : \E k \in rows : k.idx = i

TranscriptsOrdered ==
    \A db \in Images : \A c \in Convs : IsTranscript(RowsOf(db, c))

\* Whatever is pending, the connection either extends the saved transcript of a
\* conversation or has deleted it whole: it never mixes turns of a new life of
\* the conversation with turns of an old one.
PendingExtendsSaved ==
    \A c \in Convs :
        RowsOf(conn, c) = {} \/ RowsOf(disk, c) \subseteq RowsOf(conn, c)

\* A turn whose add_turn returned is in the file from then on, through the
\* failures of later calls and crashes, until a delete of it begins.
SavedIsDurable ==
    \A b \in Bodies : fate[b] = "saved" => \E m \in disk.rows : m.body = b

\* A question whose add_turn returned can be found again: its conversation is in
\* its owner's list, although an earlier turn may have failed before it named the
\* conversation, or a late answer may have made the row anew.
SavedIsListed ==
    \A m \in disk.rows :
        m.role = "user" /\ fate[m.body] = "saved"
          => m.conv \in Listed(disk, disk.owner[m.conv])
=============================================================================
