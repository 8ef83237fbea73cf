------------------------------- MODULE WebChat -------------------------------
(***************************************************************************)
(* The chat service (src/case_chat/web/app.py): the handlers that create,  *)
(* delete and continue conversations, over the table of live sessions      *)
(* (app.state.sessions), the conversation store and the streams of         *)
(* ChatSession.  A handler without an await is one action; the chat        *)
(* handler's response is a generator that the steps of ChatSession drive.  *)
(* A store call runs whole, or raises at a statement.  As no call rolls    *)
(* back, what it did until then stays pending on the connection, where     *)
(* every reader sees it, until the next commit of any call writes it,      *)
(* unless SQLite has rolled the transaction back; a restart loses it.      *)
(*                                                                         *)
(* Requests that are refused (no valid token, empty message, unknown       *)
(* conversation, GETs) change nothing and are left out.                    *)
(***************************************************************************)
EXTENDS ChatSession, ConversationDb

CONSTANTS
    NoSession,   \* "no session is cached"
    MaxFailures, \* bound: calls of the store that raise
    MaxCrashes   \* bound: restarts

\* A message row carries a turn of ChatSession.
ASSUME WebAssumption == Bodies = Turn /\ NoSession \notin Requests

VARIABLES
    disk,       \* the conversation store's file: its last commit
    db,         \* what its connection sees, pending statements included
    sessions,   \* app.state.sessions: conversation id -> session
    minted,     \* ids /api/conversations/new has handed out
    conv,       \* conversation_id of a request's body
    by,         \* subject of its cookie
    deleted,    \* history: conversations whose owner was told "ok" to a DELETE
    unsure,     \* history: conversations of which an owner's DELETE raised
    failures,   \* history: calls of the store that raised so far
    crashes     \* history: restarts so far

storeVars  == <<disk, db>>
countVars  == <<failures, crashes>>
serverVars == <<storeVars, sessions, minted, conv, by, deleted, unsure, countVars>>
vars       == <<chatVars, serverVars>>

TypeOK ==
    /\ ChatTypeOK
    /\ disk \in Db
    /\ db \in Db
    /\ sessions \in [Convs -> Requests \cup {NoSession}]
    /\ minted \in SUBSET Convs
    /\ conv \in [Requests -> Convs]
    /\ by \in [Requests -> Subjects]
    /\ deleted \in SUBSET Convs
    /\ unsure \in SUBSET Convs
    /\ failures \in Nat
    /\ crashes \in Nat

Init ==
    /\ ChatInit
    /\ disk = EmptyDb
    /\ db = EmptyDb
    /\ sessions = [c \in Convs |-> NoSession]
    /\ minted = {}
    /\ conv \in [Requests -> Convs]
    /\ by \in [Requests -> Subjects]
    /\ deleted = {}
    /\ unsure = {}
    /\ failures = 0
    /\ crashes = 0

-----------------------------------------------------------------------------
(* What a call of the store leaves in the file and on the connection. *)

Commit(image) == disk' = image /\ db' = image

\* An error found the connection in state reached, with saved in the file.
Raise(saved, reached) == disk' = saved /\ db' \in {reached, saved}

Failure ==
    /\ failures < MaxFailures
    /\ failures' = failures + 1
    /\ UNCHANGED crashes

\* add_turn raising for request r: in create, before its commit, or at a later
\* statement, when create's commit has written what was pending.
TurnRaises(r, role, body) ==
    LET created  == InsertConversation(db, conv[r], by[r])
        inserted == InsertMessage(created, conv[r], role, body)
    IN \/ \E image \in {db, created} : Raise(disk, image)
       \/ \E image \in {created, inserted, SetTitle(inserted, conv[r], role)} :
             Raise(created, image)

-----------------------------------------------------------------------------
\* POST /api/conversations/new
New(c, s) ==
    /\ c \notin minted
    /\ minted' = minted \cup {c}
    /\ Commit(InsertConversation(db, c, s))
    /\ UNCHANGED <<chatVars, sessions, conv, by, deleted, unsure, countVars>>

\* The same when create raises: the id is told to nobody, so the row it may
\* leave is left out; what other calls left pending may be rolled back.
NewRaises ==
    /\ Failure
    /\ Raise(disk, db)
    /\ UNCHANGED <<chatVars, sessions, minted, conv, by, deleted, unsure>>

\* The rows of a conversation as _session_for_conv hands them to seed_history.
Saved(image, c, s) ==
    {[idx |-> m.idx, role |-> m.role, turn |-> m.body] : m \in Transcript(image, c, s)}

\* A mutation: the new session starts from nothing.
SessionForUnseeded(r, c, s, image) ==
    IF sessions[c] # NoSession
    THEN Enter(r, sessions[c]) /\ UNCHANGED <<sessions, sessionVars>>
    ELSE /\ Enter(r, r)
         /\ sessions' = [sessions EXCEPT ![c] = r]
         /\ UNCHANGED sessionVars

\* A mutation: one session per subject, whatever the conversation.
SessionForSubject(r, c, s, image) ==
    IF \E d \in Convs : sessions[d] # NoSession /\ by[sessions[d]] = s
    THEN LET d == CHOOSE d \in Convs : sessions[d] # NoSession /\ by[sessions[d]] = s
         IN Enter(r, sessions[d]) /\ UNCHANGED <<sessions, sessionVars>>
    ELSE /\ Enter(r, r)
         /\ sessions' = [sessions EXCEPT ![c] = r]
         /\ UNCHANGED sessionVars

\* _session_for_conv: the cached session of the conversation, or a new one
\* seeded from the store image at that moment.
SessionFor(r, c, s, image) ==
    IF sessions[c] # NoSession
    THEN Enter(r, sessions[c]) /\ UNCHANGED <<sessions, sessionVars>>
    ELSE /\ Enter(r, r)
         /\ sessions' = [sessions EXCEPT ![c] = r]
         /\ restored' = [restored EXCEPT ![r] = SeedHistory(Saved(image, c, s))]
         /\ pool' = [pool EXCEPT ![r] = SeedPool(Saved(image, c, s))]
         /\ UNCHANGED live

Question(r) == [req |-> r, text |-> "asked", sources |-> {}]

\* A mutation: the ownership of the conversation not checked.
ChatUnowned(r) ==
    /\ conv[r] \in minted
    /\ SessionFor(r, conv[r], by[r], db)
    /\ Commit(Turned(db, conv[r], by[r], "user", Question(r)))
    /\ UNCHANGED <<minted, conv, by, deleted, unsure, countVars>>

\* A mutation: the question saved before the session is looked up.
ChatSavesFirst(r) ==
    /\ Owns(db, conv[r], by[r])
    /\ Commit(Turned(db, conv[r], by[r], "user", Question(r)))
    /\ SessionFor(r, conv[r], by[r], db')
    /\ UNCHANGED <<minted, conv, by, deleted, unsure, countVars>>

\* A mutation: the question not saved.
ChatUnsaved(r) ==
    /\ Owns(db, conv[r], by[r])
    /\ SessionFor(r, conv[r], by[r], db)
    /\ UNCHANGED <<storeVars, minted, conv, by, deleted, unsure, countVars>>

\* POST /api/chat, up to the return of the StreamingResponse: ownership, the
\* session, the question saved.  There is no await between them.
Chat(r) ==
    /\ Owns(db, conv[r], by[r])
    /\ SessionFor(r, conv[r], by[r], db)
    /\ Commit(Turned(db, conv[r], by[r], "user", Question(r)))
    /\ UNCHANGED <<minted, conv, by, deleted, unsure, countVars>>

\* The same when saving the question raises: a session may have been cached, and
\* the question may be there, though the client is told of an error.
ChatRaises(r) ==
    /\ pc[r] = "idle"
    /\ Owns(db, conv[r], by[r])
    /\ IF sessions[conv[r]] # NoSession
       THEN UNCHANGED <<sessions, restored, pool>>
       ELSE /\ sessions' = [sessions EXCEPT ![conv[r]] = r]
            /\ restored' = [restored EXCEPT ![r] = SeedHistory(Saved(db, conv[r], by[r]))]
            /\ pool' = [pool EXCEPT ![r] = SeedPool(Saved(db, conv[r], by[r]))]
    /\ Failure
    /\ TurnRaises(r, "user", Question(r))
    /\ Goto(r, "raised")
    /\ UNCHANGED <<live, on, turn, minted, conv, by, deleted, unsure>>

\* A step of the session's loop under event_stream.
Stream(r) == Step(r) /\ UNCHANGED serverVars

Answer(r) == [req |-> r, text |-> turn[r].text, sources |-> turn[r].sources]

\* A mutation: the assistant turn saved again when the stream is resumed.
PersistAgain(r) ==
    /\ pc[r] \in {"answered", "failed"}
    /\ Commit(Turned(db, conv[r], by[r], "assistant", Answer(r)))
    /\ UNCHANGED <<chatVars, sessions, minted, conv, by, deleted, unsure, countVars>>

\* The end of event_stream: the assistant turn is saved, after an error too, and
\* into a conversation that was deleted meanwhile too.
Persist(r) ==
    /\ Finish(r)
    /\ Commit(Turned(db, conv[r], by[r], "assistant", Answer(r)))
    /\ UNCHANGED <<sessions, minted, conv, by, deleted, unsure, countVars>>

\* The same when saving it raises: the error is logged.
PersistRaises(r) ==
    /\ Finish(r)
    /\ Failure
    /\ TurnRaises(r, "assistant", Answer(r))
    /\ UNCHANGED <<sessions, minted, conv, by, deleted, unsure>>

\* The client closes the tab, or the network does it.
Leave(r) == Disconnect(r) /\ UNCHANGED serverVars

\* The session goes first, whoever asks.
DropSession(c) == sessions' = [sessions EXCEPT ![c] = NoSession]

\* A mutation: the session of a deleted conversation stays cached.
DeleteKeepsSession(c, s) ==
    /\ Owns(db, c, s)
    /\ Commit(Deleted(db, c))
    /\ deleted' = deleted \cup {c}
    /\ UNCHANGED <<chatVars, sessions, minted, conv, by, unsure, countVars>>

\* DELETE /api/conversations/{id} by the conversation's owner: the session, then
\* the messages, the row and the commit.
Delete(c, s) ==
    /\ Owns(db, c, s)
    /\ DropSession(c)
    /\ Commit(Deleted(db, c))
    /\ deleted' = deleted \cup {c}
    /\ UNCHANGED <<chatVars, minted, conv, by, unsure, countVars>>

\* The same when a statement or the commit raises: the client is told of an
\* error, and the conversation may be there, be emptied or be gone.
DeleteRaises(c, s) ==
    /\ Owns(db, c, s)
    /\ DropSession(c)
    /\ Failure
    /\ \E image \in {db, DeleteMessages(db, c), Deleted(db, c)} : Raise(disk, image)
    /\ unsure' = unsure \cup {c}
    /\ UNCHANGED <<chatVars, minted, conv, by, deleted>>

\* A mutation: the rows deleted for whoever asks.
DeleteStrangersDeletes(c, s) ==
    /\ c \in minted
    /\ ~Owns(db, c, s)
    /\ DropSession(c)
    /\ Commit(Deleted(db, c))
    /\ UNCHANGED <<chatVars, minted, conv, by, deleted, unsure, countVars>>

\* The same by any other authenticated subject: 404, but the session is gone.
DeleteStrangers(c, s) ==
    /\ c \in minted
    /\ ~Owns(db, c, s)
    /\ DropSession(c)
    /\ UNCHANGED <<chatVars, storeVars, minted, conv, by, deleted, unsure, countVars>>

\* The process dies and starts again: lifespan begins with no session, and the
\* store opens the file, without what was pending.
Crash ==
    /\ crashes < MaxCrashes
    /\ crashes' = crashes + 1
    /\ sessions' = [c \in Convs |-> NoSession]
    /\ restored' = [r \in Requests |-> {}]
    /\ live' = [r \in Requests |-> <<>>]
    /\ pool' = [r \in Requests |-> {}]
    /\ pc' = [r \in Requests |-> IF pc[r] \in Active THEN "lost" ELSE pc[r]]
    /\ turn' = [r \in Requests |-> [NewLocals EXCEPT !.cites = turn[r].cites]]
    /\ db' = disk
    /\ UNCHANGED <<on, disk, minted, conv, by, deleted, unsure, failures>>

Next ==
    \/ \E c \in Convs, s \in Subjects :
          New(c, s) \/ Delete(c, s) \/ DeleteRaises(c, s) \/ DeleteStrangers(c, s)
    \/ \E r \in Requests :
          Chat(r) \/ ChatRaises(r) \/ Stream(r) \/ Persist(r) \/ PersistRaises(r) \/ Leave(r)
    \/ NewRaises
    \/ Crash

Spec == Init /\ [][Next]_vars

-----------------------------------------------------------------------------
(* Properties. *)

\* The questions in the context a session shows the model.
Asked(s) ==
    {t.turn.req : t \in {u \in restored[s] : u.role = "user"}}
      \cup {live[s][i].req : i \in {j \in DOMAIN live[s] : live[s][j].kind = "user"}}

\* What users read now, and what they would read after a restart.
Images == {db, disk}

\* The questions of a conversation in an image of the store.
AskedIn(image, c) == {m.body.req : m \in {n \in RowsOf(image, c) : n.role = "user"}}

Cached == {c \in Convs : sessions[c] # NoSession}

\* The session a request would get holds no question that is not in the saved
\* transcript of its conversation, now or after a restart: nothing of a deleted
\* conversation, of another conversation or of a stream that never was.  Only a
\* question whose request raised may be in a session seeded while it was
\* pending, and be lost from the store since.
AskedIsSaved ==
    \A c \in Cached : \A image \in Images : \A q \in Asked(sessions[c]) :
        q \in AskedIn(image, c) \/ pc[q] = "raised"

\* And it misses no question users read in it, but of a stream that has yet to
\* begin or may have been cut off before it did, or of a request that raised,
\* whose question is read though no stream ever asked it.  A conversation half
\* deleted by a DELETE that raised may get its turns back behind its session.
SavedIsRemembered ==
    \A c \in Cached \ unsure : \A q \in AskedIn(db, c) \ Asked(sessions[c]) :
        pc[q] \in {"accepted", "gone", "raised"}

\* No question is shown to the model both as restored and as asked since.
NoQuestionTwice ==
    \A c \in Cached : \A t \in restored[sessions[c]] : \A i \in DOMAIN live[sessions[c]] :
        t.turn.req # live[sessions[c]][i].req

\* Every turn, saved or pending, belongs to a request of the conversation's owner
\* to that conversation, also in a conversation that a late answer brought back.
TranscriptIsOwners ==
    \A image \in Images : \A m \in image.rows :
        conv[m.body.req] = m.conv /\ by[m.body.req] = image.owner[m.conv]

\* A history holds entries of one conversation of one subject only, on a session
\* that is no longer cached too.
SessionsIsolated ==
    \A s \in Requests : \A i, j \in DOMAIN live[s] :
        /\ conv[live[s][i].req] = conv[live[s][j].req]
        /\ by[live[s][i].req] = by[live[s][j].req]

\* A source shown under an answer was returned by a tool to a request of the
\* same conversation, whether in this answer's turn, in an earlier one, or
\* before a restart.
SourcesWereRetrieved ==
    \A image \in Images : \A m \in image.rows :
        m.body.sources \subseteq UNION {turn[q].cites : q \in {p \in Requests : conv[p] = m.conv}}

\* An answer is the only one of its request, and its question stands before it,
\* unless the owner asked for the conversation to be deleted in between.
AnswersFollowQuestions ==
    \A image \in Images : \A m \in image.rows : m.role = "assistant" =>
        /\ \A k \in image.rows : k.role = "assistant" /\ k.body.req = m.body.req => k = m
        /\ \/ m.conv \in deleted \cup unsure
           \/ \E k \in RowsOf(image, m.conv) :
                 k.role = "user" /\ k.body.req = m.body.req /\ k.idx < m.idx

\* A transcript in the file only grows at its end, until its owner asks for it to
\* be deleted, when all of it goes, at once or with a later commit, and no turn
\* of it comes back among those of a new life.
TranscriptsGrow ==
    [][\A c \in Convs :
         \/ /\ RowsOf(disk, c) \subseteq RowsOf(disk', c)
            /\ \A m \in RowsOf(disk', c) \ RowsOf(disk, c) :
                  \A k \in RowsOf(disk, c) : k.idx < m.idx
         \/ c \in deleted' \cup unsure' /\ RowsOf(disk, c) \cap RowsOf(disk', c) = {}]_vars

\* The service, seen through its database and the state of its streams,
\* implements Transcripts.
Said(m) == [role |-> m.role, req |-> m.body.req]

Log(rows) ==
    [i \in 1 .. Cardinality(rows) |-> LET m == CHOOSE n \in rows : n.idx = i - 1 IN Said(m)]

View(image) == [owner |-> image.owner, log |-> [c \in Convs |-> Log(RowsOf(image, c))]]

StandingOf(r) ==
    IF pc[r] = "idle" THEN "new" ELSE IF pc[r] \in Active THEN "asked" ELSE "closed"

T == INSTANCE Transcripts WITH
        seen <- View(db),
        kept <- View(disk),
        opened <- minted,
        standing <- [r \in Requests |-> StandingOf(r)]

ImplementsTranscripts == T!Spec

-----------------------------------------------------------------------------
(* What the repository says of the program, and the program does not do. *)

\* tests/test_conversations.py: after delete returned True, get returns None.
DeletedStaysDeleted == \A c \in deleted : db.owner[c] = NoOne

\* ChatSession: "Not thread-safe; one per user session."
OneStreamPerSession ==
    \A q, r \in Requests :
        q # r /\ on[q] = on[r] => ~(pc[q] \in Active \ {"accepted"} /\ pc[r] \in Active \ {"accepted"})

\* _session_for_conv: a rebuilt session "keeps its running history".  Of every
\* answer that is saved, rebuilding now would restore the text the running
\* history holds.
RebuildKeepsHistory ==
    \A c \in Cached : \A m \in RowsOf(db, c) :
        m.role = "assistant" /\ m.body.text # "empty" /\ on[m.body.req] = sessions[c]
          => \E i \in DOMAIN live[sessions[c]] :
                LET e == live[sessions[c]][i]
                IN e.kind = "answer" /\ e.req = m.body.req /\ e.text = m.body.text

\* ChatSession.__init__: "Conversation-wide citation pool, so an answer that
\* leans on an earlier turn's tool results still resolves its inline markers":
\* the pool has all that the turns of the conversation's saved answers retrieved.
PoolCoversRetrieved ==
    \A c \in Cached : \A m \in RowsOf(db, c) :
        m.role = "assistant" => turn[m.body.req].cites \subseteq pool[sessions[c]]
=============================================================================
