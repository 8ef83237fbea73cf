---------------------------- MODULE WebChatProofs ----------------------------
(***************************************************************************)
(* Proofs about WebChat: types, the properties that tie the context of a   *)
(* session to the transcript of its conversation, and that the service     *)
(* implements Transcripts, for any number of conversations, subjects and   *)
(* requests, any interleaving, any number of deletes and up to any number  *)
(* of failed calls of the store and of restarts.                           *)
(*                                                                         *)
(* The first invariant, IInv, is about who and where: AskedIsSaved and     *)
(* TranscriptIsOwners need it.  That a session shows only saved questions  *)
(* needs that a stream about to begin on the cached session has its        *)
(* question saved (Delete must take the session with the rows); that needs *)
(* that a session serves one conversation, which needs that it is built    *)
(* afresh by a request that nothing refers to yet.  That turns are the     *)
(* owner's, although a late answer may bring a conversation back with its  *)
(* asker as owner, needs that all requests ever accepted on a conversation *)
(* are one subject's.  All of it is said of both images of the store, the  *)
(* file and what its connection sees, as either may be the next one's.     *)
(*                                                                         *)
(* The second, HistoryInv, over the first, is about what was said: which   *)
(* session each request ran on, which rows its stream has left, and where  *)
(* citations came from.  The refinement needs the first only.              *)
(*                                                                         *)
(* Between the handlers and the invariants stands what a step does to the  *)
(* sessions, the streams and the images (Moves, RowsMoved): the handlers   *)
(* are taken apart once.                                                   *)
(***************************************************************************)
EXTENDS WebChat, ConversationDbProofs, ChatSessionProofs, FiniteSetTheorems

Begun(r) == pc[r] # "idle"

\* All requests accepted on a conversation are of one subject.
OneSubject ==
    /\ \A r \in Requests : Begun(r) => conv[r] \in minted
    /\ \A q, r \in Requests :
          Begun(q) /\ Begun(r) /\ conv[q] = conv[r] => by[q] = by[r]

\* An image of the store fits the requests: that subject owns the conversation if
\* anyone does, only ids handed out are owned, and rows are of accepted requests,
\* to the conversation they stand in.
Fits(image) ==
    /\ Sound(image)
    /\ \A c \in Convs : image.owner[c] # NoOne => c \in minted
    /\ \A r \in Requests : Begun(r) => image.owner[conv[r]] \in {NoOne, by[r]}
    /\ \A m \in image.rows : Begun(m.body.req) /\ conv[m.body.req] = m.conv

ImagesFit == \A image \in {db, disk} : Fits(image)

\* No conversation has one owner in the file and another for its readers.
OwnersAgree ==
    \A c \in Convs : db.owner[c] # NoOne /\ disk.owner[c] # NoOne
                       => db.owner[c] = disk.owner[c]

\* A question is pending only if its request raised.
PendingRaised ==
    \A m \in db.rows \ disk.rows : m.role = "user" => pc[m.body.req] = "raised"

\* A session serves the conversation of the request that built it.
SessionsServe ==
    /\ \A c \in Convs : sessions[c] # NoSession =>
          Begun(sessions[c]) /\ conv[sessions[c]] = c
    /\ \A r \in Requests : pc[r] \in Active =>
          Begun(on[r]) /\ conv[on[r]] = conv[r]
    /\ \A r \in Requests : ~Begun(r) => live[r] = <<>> /\ restored[r] = {}

\* Entries of a history are of accepted requests to its conversation.
EntriesServe ==
    \A s \in Requests : \A i \in DOMAIN live[s] :
        Begun(live[s][i].req) /\ conv[live[s][i].req] = conv[s]

\* The question of r is saved in conversation c of an image.
SavedQuestion(image, c, r) ==
    \E m \in image.rows : m.conv = c /\ m.role = "user" /\ m.body.req = r

LEMMA SavedQuestionStays ==
    ASSUME NEW old, NEW new, old.rows \subseteq new.rows, NEW c, NEW r,
           SavedQuestion(old, c, r)
    PROVE  SavedQuestion(new, c, r)
BY DEF SavedQuestion

\* What a session shows is saved, and so is what a stream is about to add; only
\* what it was seeded with may have been pending.
ContextIn(image) ==
    \A c \in Convs : sessions[c] # NoSession =>
        /\ \A t \in restored[sessions[c]] : t.role = "user" =>
              pc[t.turn.req] = "raised" \/ SavedQuestion(image, c, t.turn.req)
        /\ \A i \in DOMAIN live[sessions[c]] :
              live[sessions[c]][i].kind = "user"
                => SavedQuestion(image, c, live[sessions[c]][i].req)
        /\ \A r \in Requests :
              pc[r] = "accepted" /\ on[r] = sessions[c] => SavedQuestion(image, c, r)

ContextSaved == \A image \in {db, disk} : ContextIn(image)

IInv ==
    /\ TypeOK
    /\ OneSubject
    /\ ImagesFit
    /\ OwnersAgree
    /\ PendingRaised
    /\ SessionsServe
    /\ EntriesServe
    /\ ContextSaved

-----------------------------------------------------------------------------
(* Facts about sequences and images. *)

\* create makes its caller the owner if nobody is.
Filled(old, new, c, s) ==
    /\ Sound(new)
    /\ new.owner = [old.owner EXCEPT ![c] = IF @ = NoOne THEN s ELSE @]
    /\ new.rows = old.rows

\* The row add_turn inserts.
TurnRow(image, c, s, role, b) ==
    [conv |-> c, idx |-> NextIdx(InsertConversation(image, c, s), c), role |-> role, body |-> b]

\* add_turn adds it, after create.
OneTurnAdded(old, new, c, s, role, b) ==
    /\ Sound(new)
    /\ new.owner = [old.owner EXCEPT ![c] = IF @ = NoOne THEN s ELSE @]
    /\ new.rows = old.rows \cup {TurnRow(old, c, s, role, b)}

\* delete takes the rows of one conversation, then its owner.
Emptied(old, new, c) ==
    /\ Sound(new)
    /\ new.owner = old.owner
    /\ new.rows = old.rows \ RowsOf(old, c)

Removed(old, new, c) ==
    /\ Sound(new)
    /\ new.owner = [old.owner EXCEPT ![c] = NoOne]
    /\ new.rows = old.rows \ RowsOf(old, c)

LEMMA CreateEffect ==
    ASSUME NEW image, Sound(image), NEW c \in Convs, NEW s \in Subjects
    PROVE  Filled(image, InsertConversation(image, c, s), c, s)
<1>1. Sound(InsertConversation(image, c, s))
      /\ InsertConversation(image, c, s).rows = image.rows
    BY InsertConversationSound
<1>2. InsertConversation(image, c, s).owner = [image.owner EXCEPT ![c] = IF @ = NoOne THEN s ELSE @]
    BY DEF InsertConversation, Sound, Db
<1>3. QED
    BY <1>1, <1>2 DEF Filled

LEMMA AddTurnEffect ==
    ASSUME NEW image, Sound(image), NEW c \in Convs, NEW s \in Subjects,
           NEW role \in Roles, NEW b \in Bodies,
           NEW inserted, inserted = InsertMessage(InsertConversation(image, c, s), c, role, b)
    PROVE  /\ OneTurnAdded(image, inserted, c, s, role, b)
           /\ OneTurnAdded(image, SetTitle(inserted, c, role), c, s, role, b)
           /\ OneTurnAdded(image, Turned(image, c, s, role, b), c, s, role, b)
<1> DEFINE created == InsertConversation(image, c, s)
           m == TurnRow(image, c, s, role, b)
<1>1. /\ created.owner = [image.owner EXCEPT ![c] = IF @ = NoOne THEN s ELSE @]
      /\ created.rows = image.rows
      /\ Sound(created) /\ created.owner[c] # NoOne
    BY CreateEffect, InsertConversationSound DEF Filled
<1>2. m = [conv |-> c, idx |-> NextIdx(created, c), role |-> role, body |-> b]
    BY DEF TurnRow
<1> HIDE DEF created
<1>3. /\ inserted.owner = created.owner
      /\ inserted.rows = created.rows \cup {m}
    BY <1>1, <1>2 DEF InsertMessage, Sound, Db, created
<1>4. Sound(inserted)
    BY <1>1, InsertMessageSound DEF created
<1>5. /\ SetTitle(inserted, c, role).owner = inserted.owner
      /\ SetTitle(inserted, c, role).rows = inserted.rows
      /\ Sound(SetTitle(inserted, c, role))
    BY <1>4, SetTitleSound
<1>6. Turned(image, c, s, role, b) = SetTitle(inserted, c, role)
    BY DEF Turned, created
<1> HIDE DEF m
<1>7. OneTurnAdded(image, inserted, c, s, role, b)
    BY <1>1, <1>3, <1>4 DEF OneTurnAdded, m
<1>8. OneTurnAdded(image, SetTitle(inserted, c, role), c, s, role, b)
    BY <1>1, <1>3, <1>5 DEF OneTurnAdded, m
<1>9. QED
    BY <1>6, <1>7, <1>8

LEMMA DeleteEffect ==
    ASSUME NEW image, Sound(image), NEW c \in Convs
    PROVE  /\ Emptied(image, DeleteMessages(image, c), c)
           /\ Removed(image, Deleted(image, c), c)
<1>1. Sound(DeleteMessages(image, c)) /\ Sound(Deleted(image, c))
    BY DeleteMessagesSound, DeletedSound
<1>2. /\ DeleteMessages(image, c).owner = image.owner
      /\ DeleteMessages(image, c).rows = image.rows \ RowsOf(image, c)
    BY DEF DeleteMessages, Sound, Db
<1>3. /\ Deleted(image, c).owner = [image.owner EXCEPT ![c] = NoOne]
      /\ Deleted(image, c).rows = image.rows \ RowsOf(image, c)
    BY DEF Deleted, DeleteMessages, DeleteConversation, Sound, Db
<1>4. QED
    BY <1>1, <1>2, <1>3 DEF Emptied, Removed

LEMMA NoRequestIsNoSession == \A r \in Requests : r # NoSession
BY WebAssumption

\* Types, in the form the proofs below use them.
LEMMA Types ==
    ASSUME IInv
    PROVE  /\ ChatTypeOK
           /\ restored \in [Requests -> SUBSET SavedTurn]
           /\ live \in [Requests -> Seq(Entry)]
           /\ pool \in [Requests -> SUBSET Sources]
           /\ pc \in [Requests -> Active \cup Ended \cup {"idle"}]
           /\ on \in [Requests -> Requests]
           /\ turn \in [Requests -> Locals]
           /\ Sound(db) /\ Sound(disk)
           /\ sessions \in [Convs -> Requests \cup {NoSession}]
           /\ conv \in [Requests -> Convs] /\ by \in [Requests -> Subjects]
BY DEF IInv, TypeOK, ChatTypeOK, ImagesFit, Fits

LEMMA RowTypes ==
    ASSUME NEW image, Sound(image)
    PROVE  /\ image.owner \in [Convs -> Subjects \cup {NoOne}]
           /\ \A m \in image.rows :
                 /\ m.conv \in Convs /\ m.idx \in Nat /\ m.role \in Roles
                 /\ m.body \in Turn /\ m.body.req \in Requests
BY WebAssumption DEF Sound, Db, Row, Turn

LEMMA EntriesBegun ==
    ASSUME IInv, NEW s \in Requests, NEW i \in DOMAIN live[s]
    PROVE  live[s][i].req \in Requests /\ Begun(live[s][i].req)
<1>1. live[s][i].req \in Requests
    BY Types, EntryType
<1>2. QED
    BY <1>1 DEF IInv, EntriesServe

-----------------------------------------------------------------------------
(* What each action does to the sessions, the streams and the images: all  *)
(* the proofs below need of the handlers.                                  *)

\* add_turn for r, carried through.
Done(r, role, b) ==
    disk' = db' /\ OneTurnAdded(db, db', conv[r], by[r], role, b)

\* add_turn for r raising, in create or after it.
HalfDone(r, role, b) ==
    \/ /\ disk' = disk
       /\ db' = db \/ db' = disk \/ Filled(db, db', conv[r], by[r])
    \/ /\ Filled(db, disk', conv[r], by[r])
       /\ db' = disk' \/ OneTurnAdded(db, db', conv[r], by[r], role, b)

\* r is accepted, or breaks before it is; a new session is built from the rows.
Accepts(r) ==
    /\ pc[r] = "idle" /\ Owns(db, conv[r], by[r])
    /\ UNCHANGED <<live, turn, minted, conv, by, deleted, unsure>>
    /\ \/ sessions[conv[r]] \in Requests /\ UNCHANGED <<sessions, restored, pool>>
       \/ /\ sessions[conv[r]] = NoSession
          /\ sessions' = [sessions EXCEPT ![conv[r]] = r]
          /\ restored' = [restored EXCEPT ![r] = SeedHistory(Saved(db, conv[r], by[r]))]
          /\ pool' = [pool EXCEPT ![r] = SeedPool(Saved(db, conv[r], by[r]))]
    /\ \/ /\ pc' = [pc EXCEPT ![r] = "accepted"]
          /\ on' = [on EXCEPT ![r] = sessions'[conv[r]]]
          /\ Done(r, "user", Question(r))
       \/ /\ pc' = [pc EXCEPT ![r] = "raised"] /\ on' = on
          /\ HalfDone(r, "user", Question(r))

\* r's stream ends, with or without a row for its answer.
Ends(r) ==
    /\ pc[r] \in Active
    /\ turn' = [turn EXCEPT ![r] = [NewLocals EXCEPT !.cites = turn[r].cites]]
    /\ UNCHANGED <<restored, live, pool, on, sessions, minted, conv, by, deleted, unsure>>
    /\ \/ pc' = [pc EXCEPT ![r] = "gone"] /\ UNCHANGED storeVars
       \/ /\ pc[r] # "accepted"
          /\ \E label \in {"done", "broken"} : pc' = [pc EXCEPT ![r] = label]
          /\ Done(r, "assistant", Answer(r)) \/ HalfDone(r, "assistant", Answer(r))

\* A DELETE by s: of the rows if they are s's, of the session in any case.
Removes(c, s) ==
    /\ UNCHANGED <<restored, live, pool, pc, on, turn, minted, conv, by>>
    /\ sessions' = [sessions EXCEPT ![c] = NoSession]
    /\ \/ UNCHANGED <<storeVars, deleted, unsure>>
       \/ /\ Owns(db, c, s)
          /\ deleted' = deleted \cup {c} /\ unsure' = unsure
          /\ disk' = db' /\ Removed(db, db', c)
       \/ /\ Owns(db, c, s)
          /\ deleted' = deleted /\ unsure' = unsure \cup {c}
          /\ disk' = disk
          /\ db' = db \/ db' = disk \/ Emptied(db, db', c) \/ Removed(db, db', c)

\* A new id.
Opens(c, s) ==
    /\ c \notin minted /\ minted' = minted \cup {c}
    /\ disk' = db' /\ Filled(db, db', c, s)
    /\ UNCHANGED <<restored, live, pool, pc, on, turn, sessions, conv, by, deleted, unsure>>

\* A create that raises.
TakesBack ==
    /\ disk' = disk /\ (db' = db \/ db' = disk)
    /\ UNCHANGED <<restored, live, pool, pc, on, turn, sessions, minted, conv, by,
                   deleted, unsure>>

\* Every step is one of these, a step of a stream, a restart, or no change.
Moves ==
    \/ \E r \in Requests : Accepts(r) \/ Stream(r) \/ Ends(r)
    \/ \E c \in Convs, s \in Subjects : Removes(c, s) \/ Opens(c, s)
    \/ TakesBack
    \/ Crash
    \/ UNCHANGED vars

LEMMA TurnIsDone ==
    ASSUME IInv, NEW r \in Requests, NEW role \in Roles, NEW b \in Turn,
           Commit(Turned(db, conv[r], by[r], role, b))
    PROVE  Done(r, role, b)
<1>1. Sound(db) /\ conv[r] \in Convs /\ by[r] \in Subjects /\ b \in Bodies
    BY Types, WebAssumption
<1>2. OneTurnAdded(db, Turned(db, conv[r], by[r], role, b), conv[r], by[r], role, b)
    BY <1>1, AddTurnEffect
<1>3. QED
    BY <1>2 DEF Commit, Done

LEMMA TurnIsHalfDone ==
    ASSUME IInv, NEW r \in Requests, NEW role \in Roles, NEW b \in Turn,
           TurnRaises(r, role, b)
    PROVE  HalfDone(r, role, b)
<1> DEFINE created == InsertConversation(db, conv[r], by[r])
           inserted == InsertMessage(created, conv[r], role, b)
           titled == SetTitle(inserted, conv[r], role)
<1>1. Sound(db) /\ conv[r] \in Convs /\ by[r] \in Subjects /\ b \in Bodies
    BY Types, WebAssumption
<1>2. Filled(db, created, conv[r], by[r])
    BY <1>1, CreateEffect
<1>3. OneTurnAdded(db, inserted, conv[r], by[r], role, b)
    BY <1>1, AddTurnEffect
<1>4. OneTurnAdded(db, titled, conv[r], by[r], role, b)
    BY <1>1, AddTurnEffect
<1>5. \/ \E image \in {db, created} : Raise(disk, image)
      \/ \E image \in {created, inserted, titled} : Raise(created, image)
    BY DEF TurnRaises
<1> HIDE DEF created, inserted, titled
<1>6. CASE \E image \in {db, created} : Raise(disk, image)
    BY <1>2, <1>6 DEF Raise, HalfDone
<1>7. CASE \E image \in {created, inserted, titled} : Raise(created, image)
    BY <1>2, <1>3, <1>4, <1>7 DEF Raise, HalfDone
<1>8. QED
    BY <1>5, <1>6, <1>7

LEMMA TurnTypes ==
    ASSUME IInv, NEW r \in Requests
    PROVE  Question(r) \in Turn /\ Answer(r) \in Turn
BY Types DEF Question, Answer, Turn, Texts, Locals

LEMMA AcceptsEffect ==
    ASSUME IInv, NEW r \in Requests, Chat(r) \/ ChatRaises(r)
    PROVE  Accepts(r)
<1>1. /\ sessions[conv[r]] \in Requests \cup {NoSession}
      /\ sessions \in [Convs -> Requests \cup {NoSession}] /\ conv[r] \in Convs
    BY Types
<1>2. Question(r) \in Turn /\ "user" \in Roles
    BY TurnTypes DEF Roles
<1>3. CASE Chat(r)
    <2>1. /\ Owns(db, conv[r], by[r])
          /\ SessionFor(r, conv[r], by[r], db)
          /\ Commit(Turned(db, conv[r], by[r], "user", Question(r)))
          /\ UNCHANGED <<minted, conv, by, deleted, unsure>>
        BY <1>3 DEF Chat
    <2>2. Done(r, "user", Question(r))
        BY <1>2, <2>1, TurnIsDone
    <2>3. /\ pc[r] = "idle" /\ pc' = [pc EXCEPT ![r] = "accepted"]
          /\ turn' = turn /\ live' = live
          /\ IF sessions[conv[r]] # NoSession
             THEN UNCHANGED <<sessions, restored, pool>>
             ELSE /\ sessions' = [sessions EXCEPT ![conv[r]] = r]
                  /\ restored' = [restored EXCEPT ![r] = SeedHistory(Saved(db, conv[r], by[r]))]
                  /\ pool' = [pool EXCEPT ![r] = SeedPool(Saved(db, conv[r], by[r]))]
        BY <2>1 DEF SessionFor, Enter, sessionVars
    <2>4. on' = [on EXCEPT ![r] = sessions'[conv[r]]]
        BY <1>1, <2>1 DEF SessionFor, Enter
    <2>5. QED
        BY <1>1, <2>1, <2>2, <2>3, <2>4 DEF Accepts
<1>4. CASE ChatRaises(r)
    <2>1. TurnRaises(r, "user", Question(r))
        BY <1>4 DEF ChatRaises
    <2>2. HalfDone(r, "user", Question(r))
        BY <1>2, <2>1, TurnIsHalfDone
    <2>3. QED
        BY <1>1, <1>4, <2>2 DEF ChatRaises, Goto, Accepts
<1>5. QED
    BY <1>3, <1>4

LEMMA EndsEffect ==
    ASSUME IInv, NEW r \in Requests, Persist(r) \/ PersistRaises(r) \/ Leave(r)
    PROVE  Ends(r)
<1>1. Answer(r) \in Turn /\ "assistant" \in Roles
    BY TurnTypes DEF Roles
<1>2. CASE Leave(r)
    BY <1>2 DEF Leave, serverVars, Disconnect, Goto, Forget, Ends
<1>3. CASE Persist(r)
    <2>1. Commit(Turned(db, conv[r], by[r], "assistant", Answer(r)))
        BY <1>3 DEF Persist
    <2>2. Done(r, "assistant", Answer(r))
        BY <1>1, <2>1, TurnIsDone
    <2>3. QED
        BY <1>3, <2>2 DEF Persist, Finish, Goto, Forget, Ends, Active
<1>4. CASE PersistRaises(r)
    <2>1. TurnRaises(r, "assistant", Answer(r))
        BY <1>4 DEF PersistRaises
    <2>2. HalfDone(r, "assistant", Answer(r))
        BY <1>1, <2>1, TurnIsHalfDone
    <2>3. QED
        BY <1>4, <2>2 DEF PersistRaises, Finish, Goto, Forget, Ends, Active
<1>5. QED
    BY <1>2, <1>3, <1>4

LEMMA RemovesEffect ==
    ASSUME IInv, NEW c \in Convs, NEW s \in Subjects,
           Delete(c, s) \/ DeleteRaises(c, s) \/ DeleteStrangers(c, s)
    PROVE  Removes(c, s)
<1>1. Emptied(db, DeleteMessages(db, c), c) /\ Removed(db, Deleted(db, c), c)
    BY Types, DeleteEffect
<1>2. CASE Delete(c, s)
    BY <1>1, <1>2 DEF Delete, DropSession, Commit, chatVars, Removes
<1>3. CASE DeleteRaises(c, s)
    <2>1. disk' = disk /\ db' \in {db, disk, DeleteMessages(db, c), Deleted(db, c)}
        BY <1>3 DEF DeleteRaises, Raise
    <2>2. QED
        BY <1>1, <1>3, <2>1 DEF DeleteRaises, DropSession, chatVars, Removes
<1>4. CASE DeleteStrangers(c, s)
    BY <1>4 DEF DeleteStrangers, DropSession, chatVars, Removes
<1>5. QED
    BY <1>2, <1>3, <1>4

LEMMA OpensEffect ==
    ASSUME IInv, NEW c \in Convs, NEW s \in Subjects, New(c, s)
    PROVE  Opens(c, s)
<1>1. Filled(db, InsertConversation(db, c, s), c, s)
    BY Types, CreateEffect
<1>2. QED
    BY <1>1 DEF New, Commit, Opens, chatVars

LEMMA NextMoves == IInv /\ [Next]_vars => Moves
<1>1. NewRaises => TakesBack
    BY DEF NewRaises, Raise, TakesBack, chatVars
<1>2. QED
    BY <1>1, AcceptsEffect, EndsEffect, RemovesEffect, OpensEffect DEF Next, Moves

-----------------------------------------------------------------------------
\* Where an image after a step comes from: it was there before it, or a call of
\* the store made it from what its connection saw.
Origin(image) ==
    \/ image = db
    \/ image = disk
    \/ \E r \in Requests :
          (Accepts(r) \/ Ends(r)) /\ Filled(db, image, conv[r], by[r])
    \/ \E r \in Requests :
          Accepts(r) /\ OneTurnAdded(db, image, conv[r], by[r], "user", Question(r))
    \/ \E r \in Requests :
          /\ Ends(r) /\ pc'[r] \in {"done", "broken"}
          /\ OneTurnAdded(db, image, conv[r], by[r], "assistant", Answer(r))
    \/ \E c \in Convs, s \in Subjects :
          /\ Removes(c, s) /\ c \in deleted' \cup unsure'
          /\ Emptied(db, image, c) \/ Removed(db, image, c)
    \/ \E c \in Convs, s \in Subjects : Opens(c, s) /\ Filled(db, image, c, s)

LEMMA Origins ==
    ASSUME IInv, Moves, NEW image \in {db', disk'}
    PROVE  Origin(image)
<1>1. ASSUME NEW r \in Requests, Accepts(r)
      PROVE  Origin(image)
    BY <1>1 DEF Accepts, Done, HalfDone, Origin
<1>2. ASSUME NEW r \in Requests, Ends(r)
      PROVE  Origin(image)
    <2>1. CASE UNCHANGED storeVars
        BY <2>1 DEF storeVars, Origin
    <2>2. CASE /\ \E label \in {"done", "broken"} : pc' = [pc EXCEPT ![r] = label]
               /\ Done(r, "assistant", Answer(r)) \/ HalfDone(r, "assistant", Answer(r))
        <3>1. pc'[r] \in {"done", "broken"}
            BY <2>2, Types
        <3>2. CASE Done(r, "assistant", Answer(r))
            BY <1>2, <3>1, <3>2 DEF Done, Origin
        <3>3. CASE HalfDone(r, "assistant", Answer(r))
            BY <1>2, <3>1, <3>3 DEF HalfDone, Origin
        <3>4. QED
            BY <2>2, <3>2, <3>3
    <2>3. QED
        BY <1>2, <2>1, <2>2 DEF Ends
<1>3. ASSUME NEW c \in Convs, NEW s \in Subjects, Removes(c, s)
      PROVE  Origin(image)
    BY <1>3 DEF Removes, storeVars, Origin
<1>4. ASSUME NEW c \in Convs, NEW s \in Subjects, Opens(c, s)
      PROVE  Origin(image)
    BY <1>4 DEF Opens, Origin
<1>5. CASE \/ \E r \in Requests : Stream(r)
           \/ TakesBack \/ Crash \/ UNCHANGED vars
    BY <1>5 DEF Stream, TakesBack, Crash, vars, serverVars, storeVars, Origin
<1>6. QED
    BY <1>1, <1>2, <1>3, <1>4, <1>5 DEF Moves

-----------------------------------------------------------------------------
(* Program counters. *)

\* Which requests have begun, and on which session, changes only when one does.
BegunStays ==
    /\ \A q \in Requests : pc'[q] # "idle" <=> pc[q] # "idle"
    /\ on' = on

LEMMA StreamStays ==
    ASSUME IInv, NEW r \in Requests, Stream(r)
    PROVE  /\ StepSeen(r) /\ StepGathers(r) /\ BegunStays
           /\ \A q \in Requests : pc'[q] \in Active <=> pc[q] \in Active
           /\ \A q \in Requests : pc'[q] = "accepted" => pc[q] = "accepted"
           /\ \A q \in Requests : pc[q] \notin Active => pc'[q] = pc[q]
           /\ UNCHANGED <<restored, disk, db, sessions, minted, conv, by, deleted, unsure>>
<1>1. StepSeen(r) /\ StepGathers(r) /\ UNCHANGED serverVars
    BY StepIsSeen, StepIsGathering, Types DEF Stream
<1>2. PICK label \in Active \ {"accepted"} : pc' = [pc EXCEPT ![r] = label]
    BY <1>1 DEF StepSeen
<1>3. pc \in [Requests -> Active \cup Ended \cup {"idle"}] /\ pc[r] \in Active
    BY <1>1, Types DEF StepSeen
<1>4. BegunStays
    BY <1>1, <1>2, <1>3 DEF BegunStays, StepSeen, Active
<1>5. \A q \in Requests : pc'[q] = "accepted" => pc[q] = "accepted"
    BY <1>2, <1>3
<1>6. QED
    BY <1>1, <1>2, <1>3, <1>4, <1>5 DEF StepSeen, serverVars, storeVars

LEMMA EndsStays ==
    ASSUME IInv, NEW r \in Requests, Ends(r)
    PROVE  /\ BegunStays
           /\ \A q \in Requests : pc'[q] \in Active => pc[q] \in Active
           /\ \A q \in Requests \ {r} : pc'[q] = pc[q]
           /\ pc'[r] \in {"done", "broken", "gone"}
<1>1. pc \in [Requests -> Active \cup Ended \cup {"idle"}]
    BY Types
<1>2. PICK label \in {"done", "broken", "gone"} : pc' = [pc EXCEPT ![r] = label]
    BY DEF Ends
<1>3. QED
    BY <1>1, <1>2 DEF Ends, BegunStays, Active

LEMMA CrashStays ==
    ASSUME IInv, Crash
    PROVE  /\ BegunStays
           /\ \A q \in Requests : pc'[q] \notin Active
           /\ \A q \in Requests : pc[q] \notin Active => pc'[q] = pc[q]
<1>1. pc \in [Requests -> Active \cup Ended \cup {"idle"}]
    BY Types
<1>2. QED
    BY <1>1 DEF Crash, BegunStays, Active

LEMMA AcceptsBegins ==
    ASSUME IInv, NEW r \in Requests, Accepts(r)
    PROVE  /\ \A q \in Requests : pc'[q] # "idle" <=> (pc[q] # "idle" \/ q = r)
           /\ \A q \in Requests \ {r} : pc'[q] = pc[q] /\ on'[q] = on[q]
           /\ \/ pc'[r] = "accepted" /\ on'[r] = sessions'[conv[r]]
                 /\ Done(r, "user", Question(r))
              \/ pc'[r] = "raised" /\ on'[r] = on[r]
                 /\ HalfDone(r, "user", Question(r))
           /\ sessions'[conv[r]] = r \/ (sessions'[conv[r]] = sessions[conv[r]] /\ sessions' = sessions)
           /\ \A c \in Convs : c # conv[r] => sessions'[c] = sessions[c]
           /\ sessions'[conv[r]] \in Requests
<1>1. /\ pc \in [Requests -> Active \cup Ended \cup {"idle"}]
      /\ on \in [Requests -> Requests] /\ conv[r] \in Convs
      /\ sessions \in [Convs -> Requests \cup {NoSession}]
    BY Types
<1>2. QED
    BY <1>1 DEF Accepts

\* What no step changes, undoes or takes back.
LEMMA MovesForward ==
    ASSUME IInv, Moves
    PROVE  /\ conv' = conv /\ by' = by
           /\ minted \subseteq minted' /\ deleted \subseteq deleted' /\ unsure \subseteq unsure'
           /\ \A q \in Requests : pc[q] # "idle" => pc'[q] # "idle"
           /\ \A q \in Requests : pc'[q] # "idle" => pc[q] # "idle" \/ Accepts(q)
           /\ \A q \in Requests : pc[q] \in Ended => pc'[q] = pc[q]
<1>1. /\ conv' = conv /\ by' = by
      /\ minted \subseteq minted' /\ deleted \subseteq deleted' /\ unsure \subseteq unsure'
    BY StreamStays DEF Moves, Accepts, Ends, Removes, Opens, TakesBack, Crash, vars,
                       serverVars
<1>2. ASSUME NEW q \in Requests
      PROVE  /\ pc[q] # "idle" => pc'[q] # "idle"
             /\ pc'[q] # "idle" => pc[q] # "idle" \/ Accepts(q)
             /\ pc[q] \in Ended => pc'[q] = pc[q]
    <2>1. ASSUME NEW r \in Requests, Accepts(r)
          PROVE  /\ pc[q] # "idle" => pc'[q] # "idle"
                 /\ pc'[q] # "idle" => pc[q] # "idle" \/ Accepts(q)
                 /\ pc[q] \in Ended => pc'[q] = pc[q]
        <3>1. pc[r] = "idle"
            BY <2>1 DEF Accepts
        <3>2. QED
            BY <2>1, <3>1, AcceptsBegins DEF Ended
    <2>2. ASSUME NEW r \in Requests, Ends(r)
          PROVE  /\ pc'[q] # "idle" <=> pc[q] # "idle"
                 /\ pc[q] \in Ended => pc'[q] = pc[q]
        <3>1. pc[r] \in Active
            BY <2>2 DEF Ends
        <3>2. QED
            BY <2>2, <3>1, EndsStays DEF BegunStays, Ended, Active
    <2>3. pc[q] \in Ended => pc[q] \notin Active
        BY DEF Ended, Active
    <2>4. ASSUME NEW r \in Requests, Stream(r)
          PROVE  /\ pc'[q] # "idle" <=> pc[q] # "idle"
                 /\ pc[q] \in Ended => pc'[q] = pc[q]
        BY <2>3, <2>4, StreamStays DEF BegunStays
    <2>5. ASSUME Crash
          PROVE  /\ pc'[q] # "idle" <=> pc[q] # "idle"
                 /\ pc[q] \in Ended => pc'[q] = pc[q]
        BY <2>3, <2>5, CrashStays DEF BegunStays
    <2>6. CASE \/ \E c \in Convs, s \in Subjects : Removes(c, s) \/ Opens(c, s)
               \/ TakesBack \/ UNCHANGED vars
        <3>1. pc' = pc
            BY <2>6 DEF Removes, Opens, TakesBack, vars, chatVars
        <3>2. QED
            BY <3>1
    <2>7. QED
        BY <2>1, <2>2, <2>4, <2>5, <2>6 DEF Moves
<1>3. QED
    BY <1>1, <1>2

-----------------------------------------------------------------------------
(* The first invariant, part by part. *)

LEMMA OneSubjectStep ==
    ASSUME IInv, Moves
    PROVE  OneSubject'
<1>1. ASSUME NEW q \in Requests, Accepts(q)
      PROVE  /\ conv[q] \in minted
             /\ \A p \in Requests : Begun(p) /\ conv[p] = conv[q] => by[p] = by[q]
             /\ \A p \in Requests : Accepts(p) => p = q
    <2>1. /\ db.owner[conv[q]] = by[q] /\ by[q] # NoOne /\ conv[q] \in Convs
          /\ pc[q] = "idle"
        BY <1>1, Types, NoOneIsNoSubject DEF Accepts, Owns
    <2>2. Fits(db)
        BY DEF IInv, ImagesFit
    <2>3. \A p \in Requests : Accepts(p) => p = q
        <3> SUFFICES ASSUME NEW p \in Requests, Accepts(p), p # q
                     PROVE  FALSE
            OBVIOUS
        <3>1. pc'[q] = pc[q] /\ pc'[q] # "idle"
            BY <1>1, AcceptsBegins
        <3>2. QED
            BY <2>1, <3>1
    <2>4. QED
        BY <2>1, <2>2, <2>3 DEF Fits
<1>2. QED
    BY <1>1, MovesForward DEF IInv, OneSubject, Begun

LEMMA FitsStep ==
    ASSUME IInv, OneSubject', Moves, NEW image \in {db', disk'}
    PROVE  Fits(image)'
<1>1. /\ Origin(image) /\ Fits(db) /\ Fits(disk)
      /\ conv' = conv /\ by' = by /\ minted \subseteq minted'
      /\ conv \in [Requests -> Convs] /\ by \in [Requests -> Subjects]
      /\ \A q \in Requests : pc[q] # "idle" => pc'[q] # "idle"
      /\ \A q \in Requests : pc'[q] # "idle" => pc[q] # "idle" \/ Accepts(q)
    BY Origins, MovesForward, Types DEF IInv, ImagesFit
<1>2. /\ \A m \in db.rows : m.body.req \in Requests
      /\ \A m \in disk.rows : m.body.req \in Requests
      /\ db.owner \in [Convs -> Subjects \cup {NoOne}]
    BY <1>1, RowTypes DEF Fits
<1>3. Sound(image)
    BY <1>1 DEF Origin, Fits, Filled, OneTurnAdded, Emptied, Removed
<1>4. ASSUME NEW q \in Requests, Accepts(q)
      PROVE  db.owner[conv[q]] = by[q] /\ by[q] # NoOne /\ conv[q] \in Convs
    BY <1>1, <1>4, NoOneIsNoSubject DEF Accepts, Owns
<1>5. ASSUME NEW q \in Requests, Accepts(q) \/ Ends(q)
      PROVE  /\ conv[q] \in minted /\ db.owner[conv[q]] \in {NoOne, by[q]}
             /\ pc'[q] # "idle"
    <2>1. CASE Accepts(q)
        BY <1>1, <1>4, <2>1, AcceptsBegins DEF Fits
    <2>2. CASE Ends(q)
        <3>1. pc[q] # "idle"
            BY <2>2 DEF Ends, Active
        <3>2. QED
            BY <1>1, <3>1 DEF Fits, IInv, OneSubject, Begun
    <2>3. QED
        BY <1>5, <2>1, <2>2
\* An image whose owners and rows are those of one before.
<1>6. ASSUME NEW old \in {db, disk}
      PROVE  /\ \A c \in Convs : old.owner[c] # NoOne => c \in minted'
             /\ \A q \in Requests : pc'[q] # "idle" => old.owner[conv[q]] \in {NoOne, by[q]}
             /\ \A m \in old.rows : pc'[m.body.req] # "idle" /\ conv[m.body.req] = m.conv
    <2>1. Fits(old)
        BY <1>1
    <2>2. ASSUME NEW q \in Requests, Accepts(q)
          PROVE  old.owner[conv[q]] \in {NoOne, by[q]}
        BY <1>4, <2>2 DEF IInv, OwnersAgree
    <2>3. \A q \in Requests : pc'[q] # "idle" => old.owner[conv[q]] \in {NoOne, by[q]}
        BY <1>1, <2>1, <2>2 DEF Fits, Begun
    <2>4. QED
        BY <1>1, <1>2, <2>1, <2>3 DEF Fits, Begun
\* An image whose owner of q's conversation was filled in.
<1>7. ASSUME NEW q \in Requests, Accepts(q) \/ Ends(q),
             image.owner = [db.owner EXCEPT ![conv[q]] = IF @ = NoOne THEN by[q] ELSE @]
      PROVE  /\ \A c \in Convs : image.owner[c] # NoOne => c \in minted'
             /\ \A p \in Requests : pc'[p] # "idle" => image.owner[conv[p]] \in {NoOne, by[p]}
    <2>1. /\ conv[q] \in minted /\ db.owner[conv[q]] \in {NoOne, by[q]} /\ conv[q] \in Convs
          /\ pc'[q] # "idle"
        BY <1>1, <1>5, <1>7
    <2>2. /\ image.owner[conv[q]] = by[q]
          /\ \A c \in Convs \ {conv[q]} : image.owner[c] = db.owner[c]
        BY <1>2, <1>7, <2>1
    <2>3. \A c \in Convs : image.owner[c] # NoOne => c \in minted'
        BY <1>1, <1>6, <2>1, <2>2
    <2>4. ASSUME NEW p \in Requests, pc'[p] # "idle"
          PROVE  image.owner[conv[p]] \in {NoOne, by[p]}
        <3>1. CASE conv[p] = conv[q]
            <4>1. by[p] = by[q]
                BY <1>1, <2>1, <2>4, <3>1 DEF OneSubject, Begun
            <4>2. QED
                BY <2>2, <3>1, <4>1
        <3>2. CASE conv[p] # conv[q]
            BY <1>1, <1>6, <2>2, <2>4, <3>2
        <3>3. QED
            BY <3>1, <3>2
    <2>5. QED
        BY <2>3, <2>4
<1> DEFINE Goal == /\ \A c \in Convs : image.owner[c] # NoOne => c \in minted'
                   /\ \A q \in Requests : pc'[q] # "idle" => image.owner[conv[q]] \in {NoOne, by[q]}
                   /\ \A m \in image.rows : pc'[m.body.req] # "idle" /\ conv[m.body.req] = m.conv
<1>8. ASSUME image = db \/ image = disk
      PROVE  Goal
    BY <1>6, <1>8
<1>9. ASSUME NEW q \in Requests, Accepts(q) \/ Ends(q), Filled(db, image, conv[q], by[q])
      PROVE  Goal
    BY <1>6, <1>7, <1>9 DEF Filled
<1>10. ASSUME NEW q \in Requests, Accepts(q) \/ Ends(q), NEW role, NEW b, b.req = q,
              OneTurnAdded(db, image, conv[q], by[q], role, b)
       PROVE  Goal
    <2>1. \A m \in image.rows : m \in db.rows \/ (m.body.req = q /\ m.conv = conv[q])
        BY <1>10 DEF OneTurnAdded, TurnRow
    <2>2. \A m \in image.rows : pc'[m.body.req] # "idle" /\ conv[m.body.req] = m.conv
        BY <1>5, <1>6, <1>10, <2>1
    <2>3. QED
        BY <1>7, <1>10, <2>2 DEF OneTurnAdded
<1>11. ASSUME NEW c \in Convs, Emptied(db, image, c) \/ Removed(db, image, c)
       PROVE  Goal
    <2>1. \A d \in Convs : image.owner[d] \in {db.owner[d], NoOne}
        BY <1>2, <1>11 DEF Emptied, Removed
    <2>2. image.rows \subseteq db.rows
        BY <1>11 DEF Emptied, Removed
    <2>3. \A q \in Requests : pc'[q] # "idle" => image.owner[conv[q]] \in {NoOne, by[q]}
        BY <1>1, <1>6, <2>1
    <2>4. QED
        BY <1>6, <2>1, <2>2, <2>3
<1>12. ASSUME NEW c \in Convs, NEW s \in Subjects, Opens(c, s), Filled(db, image, c, s)
       PROVE  Goal
    <2>1. c \notin minted /\ minted' = minted \cup {c} /\ pc' = pc
        BY <1>12 DEF Opens
    <2>2. \A d \in Convs \ {c} : image.owner[d] = db.owner[d]
        BY <1>2, <1>12 DEF Filled
    <2>3. \A q \in Requests : pc'[q] # "idle" => conv[q] \in Convs \ {c}
        BY <1>1, <2>1 DEF IInv, OneSubject, Begun
    <2>4. \A q \in Requests : pc'[q] # "idle" => image.owner[conv[q]] \in {NoOne, by[q]}
        BY <1>6, <2>2, <2>3
    <2>5. image.rows = db.rows
        BY <1>12 DEF Filled
    <2>6. QED
        BY <1>6, <2>1, <2>2, <2>4, <2>5
<1>13. \A q \in Requests : Question(q).req = q /\ Answer(q).req = q
    BY DEF Question, Answer
<1>14. Goal
    <2> HIDE DEF Goal
    <2>1. ASSUME NEW r \in Requests, Accepts(r),
                 OneTurnAdded(db, image, conv[r], by[r], "user", Question(r))
          PROVE  Goal
        BY <1>10, <1>13, <2>1
    <2>2. ASSUME NEW r \in Requests, Ends(r),
                 OneTurnAdded(db, image, conv[r], by[r], "assistant", Answer(r))
          PROVE  Goal
        BY <1>10, <1>13, <2>2
    <2>3. QED
        BY <1>1, <1>8, <1>9, <1>11, <1>12, <2>1, <2>2 DEF Origin
<1>15. QED
    BY <1>1, <1>3, <1>14 DEF Fits, Begun

LEMMA OwnersAgreeStep ==
    ASSUME IInv, ImagesFit', Moves
    PROVE  OwnersAgree'
<1> SUFFICES ASSUME NEW c \in Convs, db'.owner[c] # NoOne, disk'.owner[c] # NoOne
             PROVE  db'.owner[c] = disk'.owner[c]
    BY DEF OwnersAgree
<1>1. CASE db' = disk'
    BY <1>1
<1>2. CASE db' = db /\ disk' = disk
    BY <1>2 DEF IInv, OwnersAgree
<1>3. ASSUME NEW r \in Requests, Accepts(r) \/ Ends(r), disk' = disk,
             Filled(db, db', conv[r], by[r])
      PROVE  db'.owner[c] = disk'.owner[c]
    <2>1. CASE c = conv[r]
        <3>1. pc'[r] # "idle"
            <4>1. pc[r] \in Active => pc[r] # "idle"
                BY DEF Active
            <4>2. QED
                BY <1>3, <4>1, MovesForward, AcceptsBegins DEF Ends
        <3>2. conv' = conv /\ by' = by
            BY MovesForward
        <3>3. db'.owner[conv[r]] \in {NoOne, by[r]} /\ disk'.owner[conv[r]] \in {NoOne, by[r]}
            BY <3>1, <3>2 DEF ImagesFit, Fits, Begun
        <3>4. QED
            BY <2>1, <3>3
    <2>2. CASE c # conv[r]
        <3>1. Sound(db) /\ conv[r] \in Convs
            BY Types
        <3>2. db.owner \in [Convs -> Subjects \cup {NoOne}]
            BY <3>1, RowTypes
        <3>3. db'.owner[c] = db.owner[c]
            BY <1>3, <2>2, <3>1, <3>2 DEF Filled
        <3>4. QED
            BY <1>3, <3>3 DEF IInv, OwnersAgree
    <2>3. QED
        BY <2>1, <2>2
<1>4. ASSUME NEW r \in Requests, NEW role, NEW b, Filled(db, disk', conv[r], by[r]),
             OneTurnAdded(db, db', conv[r], by[r], role, b)
      PROVE  db'.owner[c] = disk'.owner[c]
    BY <1>4 DEF Filled, OneTurnAdded
<1>5. ASSUME NEW d \in Convs, disk' = disk, Emptied(db, db', d) \/ Removed(db, db', d)
      PROVE  db'.owner[c] = disk'.owner[c]
    <2>1. Sound(db)
        BY Types
    <2>2. db.owner \in [Convs -> Subjects \cup {NoOne}]
        BY <2>1, RowTypes
    <2>3. db'.owner[c] = db.owner[c]
        BY <1>5, <2>2 DEF Emptied, Removed
    <2>4. QED
        BY <1>5, <2>3 DEF IInv, OwnersAgree
<1>6. ASSUME NEW r \in Requests, Accepts(r) \/ Ends(r), NEW role, NEW b,
             Done(r, role, b) \/ HalfDone(r, role, b)
      PROVE  db'.owner[c] = disk'.owner[c]
    BY <1>1, <1>2, <1>3, <1>4, <1>6 DEF Done, HalfDone
<1>7. ASSUME NEW r \in Requests, Accepts(r) \/ Ends(r)
      PROVE  db'.owner[c] = disk'.owner[c]
    BY <1>2, <1>6, <1>7 DEF Accepts, Ends, storeVars
<1>8. ASSUME NEW d \in Convs, NEW s \in Subjects, Removes(d, s) \/ Opens(d, s)
      PROVE  db'.owner[c] = disk'.owner[c]
    BY <1>1, <1>2, <1>5, <1>8 DEF Removes, Opens, storeVars
<1>9. CASE \/ \E r \in Requests : Stream(r)
           \/ TakesBack \/ Crash \/ UNCHANGED vars
    BY <1>1, <1>2, <1>9 DEF Stream, TakesBack, Crash, vars, serverVars, storeVars
<1>10. QED
    BY <1>7, <1>8, <1>9 DEF Moves

LEMMA PendingRaisedStep ==
    ASSUME IInv, Moves
    PROVE  PendingRaised'
<1> SUFFICES ASSUME NEW m \in db'.rows, m \notin disk'.rows, m.role = "user"
             PROVE  pc'[m.body.req] = "raised"
    BY DEF PendingRaised
<1>1. CASE m \in db.rows /\ m \notin disk.rows
    <2>1. pc[m.body.req] = "raised" /\ m.body.req \in Requests
        BY <1>1, RowTypes, Types DEF IInv, PendingRaised
    <2>2. QED
        BY <2>1, MovesForward DEF Ended
<1>2. db' # disk'
    OBVIOUS
<1>3. ASSUME NEW r \in Requests, NEW role, NEW b, HalfDone(r, role, b), b.req = r
      PROVE  \/ m \in db.rows /\ m \notin disk.rows
             \/ m.body.req = r /\ m.role = role
    BY <1>2, <1>3 DEF HalfDone, Filled, OneTurnAdded, TurnRow
<1>4. ASSUME NEW r \in Requests, Accepts(r)
      PROVE  pc'[m.body.req] = "raised"
    <2>1. pc'[r] = "raised" /\ HalfDone(r, "user", Question(r))
        BY <1>2, <1>4, AcceptsBegins DEF Done
    <2>2. QED
        BY <1>1, <1>3, <2>1 DEF Question
<1>5. ASSUME NEW r \in Requests, Ends(r)
      PROVE  pc'[m.body.req] = "raised"
    BY <1>1, <1>2, <1>3, <1>5 DEF Ends, Done, storeVars, Answer
<1>6. ASSUME NEW c \in Convs, NEW s \in Subjects, Removes(c, s) \/ Opens(c, s)
      PROVE  m \in db.rows /\ m \notin disk.rows
    BY <1>2, <1>6 DEF Removes, Opens, storeVars, Emptied, Removed
<1>7. CASE \/ \E r \in Requests : Stream(r)
           \/ TakesBack \/ Crash \/ UNCHANGED vars
    BY <1>1, <1>2, <1>7 DEF Stream, TakesBack, Crash, vars, serverVars, storeVars
<1>8. QED
    BY <1>1, <1>4, <1>5, <1>6, <1>7 DEF Moves

\* Where the histories of a step's sessions come from.
LEMMA EntriesMove ==
    ASSUME IInv, Moves, NEW s \in Requests, NEW i \in DOMAIN live'[s]
    PROVE  \/ i \in DOMAIN live[s] /\ live'[s][i] = live[s][i]
           \/ \E r \in Requests :
                 /\ Stream(r) /\ pc[r] \in Active
                 /\ s = on[r] /\ live'[s][i].req = r
                 /\ live'[s][i].kind = "user" => pc[r] = "accepted"
<1>1. ASSUME NEW r \in Requests, Stream(r)
      PROVE  \/ i \in DOMAIN live[s] /\ live'[s][i] = live[s][i]
             \/ /\ pc[r] \in Active
                /\ s = on[r] /\ live'[s][i].req = r
                /\ live'[s][i].kind = "user" => pc[r] = "accepted"
    <2>1. StepSeen(r) /\ ChatTypeOK
        BY <1>1, StreamStays, Types
    <2>2. pc[r] \in Active
        BY <2>1 DEF StepSeen
    <2>3. QED
        BY <2>1, <2>2, StepEntries
<1>2. CASE Crash
    <2>1. DOMAIN live'[s] = {}
        BY <1>2 DEF Crash
    <2>2. QED
        BY <2>1
<1>3. CASE live' = live
    BY <1>3
<1>4. QED
    BY <1>1, <1>2, <1>3 DEF Moves, Accepts, Ends, Removes, Opens, TakesBack, vars, chatVars

LEMMA SessionsServeStep ==
    ASSUME IInv, Moves
    PROVE  SessionsServe'
<1>1. /\ conv' = conv
      /\ \A q \in Requests : pc[q] # "idle" => pc'[q] # "idle"
      /\ conv \in [Requests -> Convs] /\ on \in [Requests -> Requests]
      /\ sessions \in [Convs -> Requests \cup {NoSession}]
    BY MovesForward, Types
<1>2. CASE /\ \A c \in Convs : sessions'[c] # NoSession => sessions'[c] = sessions[c]
           /\ \A q \in Requests : pc'[q] \in Active => pc[q] \in Active
           /\ on' = on
           /\ \A q \in Requests : pc'[q] = "idle" => live'[q] = live[q] /\ restored'[q] = restored[q]
    BY <1>1, <1>2 DEF IInv, SessionsServe, Begun
<1>3. ASSUME NEW r \in Requests, Accepts(r)
      PROVE  SessionsServe'
    <2>1. /\ pc[r] = "idle" /\ live' = live
          /\ \A q \in Requests \ {r} : restored'[q] = restored[q]
        BY <1>3, Types DEF Accepts
    <2> DEFINE s == sessions'[conv[r]]
    <2>2. s \in Requests /\ (s = r \/ s = sessions[conv[r]])
        BY <1>3, AcceptsBegins
    <2> HIDE DEF s
    <2>3. /\ pc'[r] # "idle" /\ conv[r] \in Convs
          /\ \A q \in Requests \ {r} : pc'[q] = pc[q] /\ on'[q] = on[q]
          /\ pc'[r] \in Active => on'[r] = s
          /\ \A c \in Convs : c # conv[r] => sessions'[c] = sessions[c]
          /\ sessions'[conv[r]] = s
        BY <1>1, <1>3, AcceptsBegins DEF s, Active
    <2>4. pc'[s] # "idle" /\ conv[s] = conv[r]
        BY <1>1, <2>2, <2>3, NoRequestIsNoSession DEF IInv, SessionsServe, Begun
    <2>5. ASSUME NEW c \in Convs, sessions'[c] # NoSession
          PROVE  pc'[sessions'[c]] # "idle" /\ conv[sessions'[c]] = c
        <3>1. CASE c = conv[r]
            BY <2>3, <2>4, <3>1
        <3>2. CASE c # conv[r]
            <4>1. sessions'[c] = sessions[c] /\ sessions[c] \in Requests
                BY <1>1, <2>3, <2>5, <3>2
            <4>2. QED
                BY <1>1, <2>5, <4>1 DEF IInv, SessionsServe, Begun
        <3>3. QED
            BY <3>1, <3>2
    <2>6. ASSUME NEW q \in Requests, pc'[q] \in Active
          PROVE  pc'[on'[q]] # "idle" /\ conv[on'[q]] = conv[q]
        <3>1. CASE q = r
            BY <2>3, <2>4, <2>6, <3>1
        <3>2. CASE q # r
            <4>1. on'[q] = on[q] /\ pc[q] \in Active /\ on[q] \in Requests
                BY <1>1, <2>3, <2>6, <3>2
            <4>2. QED
                BY <1>1, <4>1 DEF IInv, SessionsServe, Begun
        <3>3. QED
            BY <3>1, <3>2
    <2>7. \A q \in Requests : pc'[q] = "idle" => live'[q] = <<>> /\ restored'[q] = {}
        BY <1>1, <2>1, <2>3 DEF IInv, SessionsServe, Begun
    <2>8. QED
        BY <1>1, <2>5, <2>6, <2>7 DEF SessionsServe, Begun
<1>4. ASSUME NEW r \in Requests, Stream(r)
      PROVE  SessionsServe'
    <2>1. /\ StepSeen(r) /\ on' = on /\ sessions' = sessions
          /\ \A q \in Requests : pc'[q] \in Active => pc[q] \in Active
        BY <1>4, StreamStays DEF BegunStays
    <2>2. on[r] \in Requests /\ pc'[on[r]] # "idle" /\ live \in [Requests -> Seq(Entry)]
        BY <1>1, <2>1, Types DEF StepSeen, IInv, SessionsServe, Begun
    <2>3. \A q \in Requests : pc'[q] = "idle" => live'[q] = live[q] /\ restored'[q] = restored[q]
        BY <2>1, <2>2 DEF StepSeen, Quiet, Speaks
    <2>4. QED
        BY <1>2, <2>1, <2>3
<1>5. ASSUME NEW r \in Requests, Ends(r)
      PROVE  SessionsServe'
    <2>1. \A q \in Requests : pc'[q] \in Active => pc[q] \in Active
        BY <1>5, EndsStays
    <2>2. QED
        BY <1>2, <1>5, <2>1 DEF Ends
<1>6. ASSUME NEW c \in Convs, NEW s \in Subjects, Removes(c, s) \/ Opens(c, s)
      PROVE  SessionsServe'
    BY <1>1, <1>2, <1>6 DEF Removes, Opens
<1>7. CASE Crash
    <2>1. /\ \A c \in Convs : sessions'[c] = NoSession
          /\ \A r \in Requests : live'[r] = <<>> /\ restored'[r] = {}
        BY <1>7 DEF Crash
    <2>2. \A q \in Requests : pc'[q] \notin Active
        BY <1>7, CrashStays
    <2>3. QED
        BY <2>1, <2>2 DEF SessionsServe
<1>8. CASE TakesBack \/ UNCHANGED vars
    BY <1>2, <1>8 DEF TakesBack, vars, chatVars, serverVars
<1>9. QED
    BY <1>3, <1>4, <1>5, <1>6, <1>7, <1>8 DEF Moves

LEMMA EntriesServeStep ==
    ASSUME IInv, Moves
    PROVE  EntriesServe'
<1>1. /\ conv' = conv
      /\ \A q \in Requests : pc[q] # "idle" => pc'[q] # "idle"
    BY MovesForward
<1> SUFFICES ASSUME NEW s \in Requests, NEW i \in DOMAIN live'[s]
             PROVE  pc'[live'[s][i].req] # "idle" /\ conv[live'[s][i].req] = conv[s]
    BY <1>1 DEF EntriesServe, Begun
<1>2. CASE i \in DOMAIN live[s] /\ live'[s][i] = live[s][i]
    BY <1>1, <1>2, EntriesBegun DEF IInv, EntriesServe, Begun
<1>3. ASSUME NEW r \in Requests, pc[r] \in Active, s = on[r], live'[s][i].req = r
      PROVE  pc'[live'[s][i].req] # "idle" /\ conv[live'[s][i].req] = conv[s]
    BY <1>1, <1>3 DEF IInv, SessionsServe, Active
<1>4. QED
    BY <1>2, <1>3, EntriesMove

\* A step keeps the saved questions of a conversation whose session it leaves, or
\* makes, in either image those of an image before.
LEMMA QuestionsKept ==
    ASSUME IInv, Moves, NEW image \in {db', disk'}
    PROVE  \E old \in {db, disk} :
              \A c \in Convs : sessions'[c] # NoSession =>
                 \A q : SavedQuestion(old, c, q) => SavedQuestion(image, c, q)
<1>1. Origin(image)
    BY Origins
<1>2. CASE db.rows \subseteq image.rows
    BY <1>2, SavedQuestionStays
<1>3. CASE image = disk
    BY <1>3
<1>4. ASSUME NEW c \in Convs, NEW s \in Subjects, Removes(c, s),
             image.rows = db.rows \ RowsOf(db, c)
      PROVE  \A d \in Convs : sessions'[d] # NoSession =>
                \A q : SavedQuestion(db, d, q) => SavedQuestion(image, d, q)
    <2>1. \A d \in Convs : sessions'[d] # NoSession => d # c
        BY <1>4, Types DEF Removes
    <2>2. QED
        BY <1>4, <2>1 DEF SavedQuestion, RowsOf
<1>5. QED
    BY <1>1, <1>2, <1>3, <1>4 DEF Origin, Filled, OneTurnAdded, Emptied, Removed

\* What is added to both images stays a question of both.
LEMMA QuestionAdded ==
    ASSUME NEW r \in Requests, NEW image \in {db', disk'}, Done(r, "user", Question(r))
    PROVE  SavedQuestion(image, conv[r], r)
<1>1. /\ image = db' /\ TurnRow(db, conv[r], by[r], "user", Question(r)) \in image.rows
      /\ Question(r).req = r
    BY DEF Done, OneTurnAdded, Question
<1>2. QED
    BY <1>1 DEF SavedQuestion, TurnRow

\* What a session built by r is seeded with.
LEMMA SeedIsSaved ==
    ASSUME IInv, NEW r \in Requests
    PROVE  /\ \A t \in SeedHistory(Saved(db, conv[r], by[r])) :
                 \E m \in db.rows : m.body = t.turn /\ m.conv = conv[r] /\ m.role = t.role
           /\ \A x \in SeedPool(Saved(db, conv[r], by[r])) :
                 \E m \in db.rows : x \in m.body.sources /\ m.conv = conv[r]
BY DEF SeedHistory, SeedPool, Saved, Transcript, RowsOf

LEMMA ContextStep ==
    ASSUME IInv, Moves, NEW image \in {db', disk'}
    PROVE  ContextIn(image)'
<1>1. PICK old \in {db, disk} :
         \A c \in Convs : sessions'[c] # NoSession =>
            \A q : SavedQuestion(old, c, q) => SavedQuestion(image, c, q)
    BY QuestionsKept
<1>2. /\ ContextIn(old) /\ conv' = conv
      /\ \A q \in Requests : pc[q] = "raised" => pc'[q] = "raised"
      /\ \A s \in Requests : \A t \in restored[s] : t.turn.req \in Requests
      /\ sessions \in [Convs -> Requests \cup {NoSession}]
    <2>1. \A s \in Requests : \A t \in restored[s] : t.turn.req \in Requests
        BY Types DEF SavedTurn, Turn
    <2>2. \A q \in Requests : pc[q] = "raised" => pc'[q] = "raised"
        BY MovesForward DEF Ended
    <2>3. QED
        BY <2>1, <2>2, MovesForward, Types DEF IInv, ContextSaved
<1> SUFFICES ASSUME NEW c \in Convs, sessions'[c] # NoSession
             PROVE  /\ \A t \in restored'[sessions'[c]] : t.role = "user" =>
                          pc'[t.turn.req] = "raised" \/ SavedQuestion(image, c, t.turn.req)
                    /\ \A i \in DOMAIN live'[sessions'[c]] :
                          live'[sessions'[c]][i].kind = "user"
                            => SavedQuestion(image, c, live'[sessions'[c]][i].req)
                    /\ \A q \in Requests :
                          pc'[q] = "accepted" /\ on'[q] = sessions'[c]
                            => SavedQuestion(image, c, q)
    BY DEF ContextIn, SavedQuestion
\* A session that was cached before, over a step that adds no stream to it.
<1>3. ASSUME sessions'[c] = sessions[c], restored'[sessions[c]] = restored[sessions[c]],
             \A q \in Requests : pc'[q] = "accepted" /\ on'[q] = sessions[c]
                 => (pc[q] = "accepted" /\ on[q] = sessions[c]) \/ SavedQuestion(image, c, q)
      PROVE  /\ \A t \in restored'[sessions'[c]] : t.role = "user" =>
                   pc'[t.turn.req] = "raised" \/ SavedQuestion(image, c, t.turn.req)
             /\ \A i \in DOMAIN live'[sessions'[c]] :
                   live'[sessions'[c]][i].kind = "user"
                     => SavedQuestion(image, c, live'[sessions'[c]][i].req)
             /\ \A q \in Requests :
                   pc'[q] = "accepted" /\ on'[q] = sessions'[c]
                     => SavedQuestion(image, c, q)
    <2>1. sessions[c] \in Requests /\ sessions[c] # NoSession
        BY <1>2, <1>3
    <2>2. \A t \in restored[sessions[c]] : t.role = "user" =>
             pc'[t.turn.req] = "raised" \/ SavedQuestion(image, c, t.turn.req)
        BY <1>1, <1>2, <2>1 DEF ContextIn
    <2>3. ASSUME NEW i \in DOMAIN live'[sessions[c]], live'[sessions[c]][i].kind = "user"
          PROVE  SavedQuestion(image, c, live'[sessions[c]][i].req)
        <3>1. CASE /\ i \in DOMAIN live[sessions[c]]
                   /\ live'[sessions[c]][i] = live[sessions[c]][i]
            BY <1>1, <1>2, <2>1, <2>3, <3>1 DEF ContextIn
        <3>2. ASSUME NEW r \in Requests, sessions[c] = on[r],
                     live'[sessions[c]][i].req = r, pc[r] = "accepted"
              PROVE  SavedQuestion(image, c, live'[sessions[c]][i].req)
            BY <1>1, <1>2, <2>1, <3>2 DEF ContextIn
        <3>3. QED
            BY <2>1, <2>3, <3>1, <3>2, EntriesMove
    <2>4. \A q \in Requests :
             pc'[q] = "accepted" /\ on'[q] = sessions[c] => SavedQuestion(image, c, q)
        BY <1>1, <1>2, <1>3, <2>1 DEF ContextIn
    <2>5. QED
        BY <1>3, <2>2, <2>3, <2>4
<1>4. ASSUME NEW r \in Requests, Accepts(r)
      PROVE  /\ \A t \in restored'[sessions'[c]] : t.role = "user" =>
                   pc'[t.turn.req] = "raised" \/ SavedQuestion(image, c, t.turn.req)
             /\ \A i \in DOMAIN live'[sessions'[c]] :
                   live'[sessions'[c]][i].kind = "user"
                     => SavedQuestion(image, c, live'[sessions'[c]][i].req)
             /\ \A q \in Requests :
                   pc'[q] = "accepted" /\ on'[q] = sessions'[c]
                     => SavedQuestion(image, c, q)
    <2>1. /\ pc[r] = "idle" /\ live' = live /\ conv[r] \in Convs
          /\ pc'[r] = "accepted" => SavedQuestion(image, conv[r], r)
          /\ pc'[r] = "accepted" => on'[r] = sessions'[conv[r]]
          /\ \A q \in Requests \ {r} : pc'[q] = pc[q] /\ on'[q] = on[q]
          /\ \A d \in Convs : sessions[d] # r
          /\ live[r] = <<>>
        <3>1. pc[r] = "idle" /\ live' = live /\ conv[r] \in Convs
            BY <1>4, Types DEF Accepts
        <3>2. (\A d \in Convs : sessions[d] # r) /\ live[r] = <<>>
            BY <3>1, NoRequestIsNoSession DEF IInv, SessionsServe, Begun
        <3>3. pc'[r] = "accepted" => SavedQuestion(image, conv[r], r)
            BY <1>4, AcceptsBegins, QuestionAdded
        <3>4. QED
            BY <1>4, <3>1, <3>2, <3>3, AcceptsBegins
    <2>2. CASE sessions[c] # NoSession
        <3>1. sessions'[c] = sessions[c]
            BY <1>4, <1>2, <2>1, <2>2 DEF Accepts
        <3>2. restored'[sessions[c]] = restored[sessions[c]]
            BY <1>2, <1>4, <2>1, <2>2, Types DEF Accepts
        <3>3. conv[sessions[c]] = c
            BY <2>2 DEF IInv, SessionsServe
        <3>4. ASSUME pc'[r] = "accepted", on'[r] = sessions[c]
              PROVE  SavedQuestion(image, c, r)
            <4>1. sessions'[conv[r]] \in Requests /\ conv[sessions'[conv[r]]] = conv[r]
                BY <1>4, <2>1, AcceptsBegins, NoRequestIsNoSession DEF IInv, SessionsServe
            <4>2. conv[r] = c
                BY <2>1, <3>3, <3>4, <4>1
            <4>3. QED
                BY <2>1, <3>4, <4>2
        <3>5. QED
            BY <1>3, <2>1, <3>1, <3>2, <3>4
    <2>3. CASE sessions[c] = NoSession
        <3>1. /\ c = conv[r] /\ sessions'[c] = r
              /\ restored'[r] = SeedHistory(Saved(db, conv[r], by[r]))
            BY <1>2, <1>4, <2>1, <2>3, Types DEF Accepts
        <3>2. ASSUME NEW t \in restored'[r], t.role = "user"
              PROVE  pc'[t.turn.req] = "raised" \/ SavedQuestion(image, c, t.turn.req)
            <4>1. PICK m \in db.rows : m.body = t.turn /\ m.conv = c /\ m.role = "user"
                BY <3>1, <3>2, SeedIsSaved
            <4>2. m.body.req \in Requests
                BY RowTypes, Types
            <4>3. CASE m \in disk.rows
                <5>1. SavedQuestion(db, c, t.turn.req) /\ SavedQuestion(disk, c, t.turn.req)
                    BY <4>1, <4>3 DEF SavedQuestion
                <5>2. QED
                    BY <1>1, <5>1
            <4>4. CASE m \notin disk.rows
                BY <1>2, <4>1, <4>2, <4>4 DEF IInv, PendingRaised
            <4>5. QED
                BY <4>3, <4>4
        <3>3. DOMAIN live'[r] = {}
            BY <2>1
        <3>4. \A q \in Requests \ {r} : pc'[q] = "accepted" => on'[q] # r
            <4> SUFFICES ASSUME NEW q \in Requests, q # r, pc'[q] = "accepted", on'[q] = r
                         PROVE  FALSE
                OBVIOUS
            <4>1. on[q] = r /\ pc[q] = "accepted"
                BY <2>1
            <4>2. QED
                BY <2>1, <4>1 DEF IInv, SessionsServe, Begun, Active
        <3>5. QED
            BY <2>1, <3>1, <3>2, <3>3, <3>4
    <2>4. QED
        BY <2>2, <2>3
<1>5. ASSUME NEW r \in Requests, Stream(r)
      PROVE  /\ sessions' = sessions /\ restored' = restored /\ on' = on
             /\ \A q \in Requests : pc'[q] = "accepted" => pc[q] = "accepted"
    BY <1>5, StreamStays DEF BegunStays
<1>6. ASSUME NEW r \in Requests, Ends(r)
      PROVE  /\ sessions' = sessions /\ restored' = restored /\ on' = on
             /\ \A q \in Requests : pc'[q] = "accepted" => pc[q] = "accepted"
    <2>1. \A q \in Requests : pc'[q] = "accepted" => pc[q] = "accepted"
        BY <1>6, EndsStays
    <2>2. QED
        BY <1>6, <2>1 DEF Ends
<1>7. ASSUME NEW d \in Convs, NEW s \in Subjects, Removes(d, s) \/ Opens(d, s)
      PROVE  sessions'[c] = sessions[c] /\ restored' = restored /\ on' = on /\ pc' = pc
    BY <1>2, <1>7 DEF Removes, Opens
<1>8. CASE TakesBack \/ UNCHANGED vars
    BY <1>3, <1>8 DEF TakesBack, vars, chatVars, serverVars
<1>9. CASE Crash
    BY <1>9 DEF Crash
<1>10. QED
    BY <1>3, <1>4, <1>5, <1>6, <1>7, <1>8, <1>9 DEF Moves

-----------------------------------------------------------------------------
(* Types. *)

LEMMA SeedTypes ==
    ASSUME Sound(db), NEW c \in Convs, NEW s \in Subjects
    PROVE  /\ SeedHistory(Saved(db, c, s)) \subseteq SavedTurn
           /\ SeedPool(Saved(db, c, s)) \subseteq Sources
<1>1. \A m \in Transcript(db, c, s) : m.idx \in Nat /\ m.role \in Roles /\ m.body \in Turn
    BY RowTypes DEF Transcript, RowsOf
<1>2. Saved(db, c, s) \subseteq SavedTurn
    BY <1>1 DEF Saved, SavedTurn, Roles
<1>3. SeedHistory(Saved(db, c, s)) \subseteq Saved(db, c, s)
    BY DEF SeedHistory
<1>4. SeedPool(Saved(db, c, s)) \subseteq Sources
    BY <1>2 DEF SeedPool, SavedTurn, Turn
<1>5. QED
    BY <1>2, <1>3, <1>4

\* The types of the parts a step moves; the store's are those of its images.
LEMMA TypeStep ==
    ASSUME IInv, [Next]_vars, Moves, \A image \in {db', disk'} : Sound(image)
    PROVE  TypeOK'
<1>1. TypeOK /\ db' \in Db /\ disk' \in Db
    BY DEF IInv, Sound
<1>2. /\ failures' \in Nat /\ crashes' \in Nat
    BY <1>1 DEF Next, TypeOK, vars, chatVars, serverVars, countVars, Failure,
                New, NewRaises, Chat, ChatRaises, Stream, Persist, PersistRaises, Leave,
                Delete, DeleteRaises, DeleteStrangers, Crash
<1>3. /\ sessions' \in [Convs -> Requests \cup {NoSession}]
      /\ minted' \in SUBSET Convs
      /\ conv' \in [Requests -> Convs] /\ by' \in [Requests -> Subjects]
      /\ deleted' \in SUBSET Convs /\ unsure' \in SUBSET Convs
    BY <1>1 DEF Moves, Accepts, Stream, Ends, Removes, Opens, TakesBack, Crash, TypeOK, vars,
                serverVars
<1>4. ASSUME NEW r \in Requests, Accepts(r)
      PROVE  ChatTypeOK'
    <2>1. conv[r] \in Convs /\ by[r] \in Subjects /\ Sound(db) /\ ChatTypeOK
        BY Types
    <2> DEFINE seed == SeedHistory(Saved(db, conv[r], by[r]))
               cited == SeedPool(Saved(db, conv[r], by[r]))
    <2>2. seed \in SUBSET SavedTurn /\ cited \in SUBSET Sources
        BY <2>1, SeedTypes
    <2>3. /\ restored' = restored \/ restored' = [restored EXCEPT ![r] = seed]
          /\ pool' = pool \/ pool' = [pool EXCEPT ![r] = cited]
        BY <1>4 DEF Accepts
    <2> HIDE DEF seed, cited
    <2>4. /\ restored' \in [Requests -> SUBSET SavedTurn]
          /\ pool' \in [Requests -> SUBSET Sources]
        BY <2>1, <2>2, <2>3 DEF ChatTypeOK
    <2>5. sessions'[conv[r]] \in Requests
        BY <1>4, AcceptsBegins
    <2>6. on' \in [Requests -> Requests]
        BY <1>4, <2>1, <2>5 DEF Accepts, ChatTypeOK
    <2>7. pc' \in [Requests -> Active \cup Ended \cup {"idle"}]
        BY <1>4, <2>1 DEF Accepts, ChatTypeOK, Active, Ended
    <2>8. live' \in [Requests -> Seq(Entry)] /\ turn' \in [Requests -> Locals]
        BY <1>4, <2>1 DEF Accepts, ChatTypeOK
    <2>9. QED
        BY <2>4, <2>6, <2>7, <2>8 DEF ChatTypeOK
<1>5. ASSUME NEW r \in Requests, Stream(r)
      PROVE  ChatTypeOK'
    BY <1>1, <1>5, StepIsSeen DEF Stream, TypeOK
<1>6. [NewLocals EXCEPT !.cites = {}] \in Locals
      /\ \A C \in SUBSET Sources : [NewLocals EXCEPT !.cites = C] \in Locals
    BY NewLocalsType DEF Locals
<1>7. ASSUME NEW r \in Requests, Ends(r)
      PROVE  ChatTypeOK'
    <2>1. ChatTypeOK /\ turn[r] \in Locals
        BY Types
    <2>2. turn[r].cites \in SUBSET Sources
        BY <2>1 DEF Locals
    <2>3. [NewLocals EXCEPT !.cites = turn[r].cites] \in Locals
        BY <1>6, <2>2
    <2>4. turn' \in [Requests -> Locals]
        BY <1>7, <2>1, <2>3 DEF Ends, ChatTypeOK
    <2>5. pc' \in [Requests -> Active \cup Ended \cup {"idle"}]
        BY <1>7, <2>1 DEF Ends, ChatTypeOK, Ended
    <2>6. QED
        BY <1>7, <2>1, <2>4, <2>5 DEF Ends, ChatTypeOK
<1>8. ASSUME Crash PROVE ChatTypeOK'
    <2>1. \A r \in Requests : turn[r].cites \in SUBSET Sources
        BY Types DEF Locals
    <2>2. turn' \in [Requests -> Locals]
        BY <1>6, <1>8, <2>1 DEF Crash
    <2>3. pc' \in [Requests -> Active \cup Ended \cup {"idle"}]
        BY <1>8, Types DEF Crash, Ended
    <2>4. /\ restored' \in [Requests -> SUBSET SavedTurn]
          /\ pool' \in [Requests -> SUBSET Sources]
          /\ on' \in [Requests -> Requests]
        BY <1>8, Types DEF Crash
    <2>5. live' \in [Requests -> Seq(Entry)]
        <3>1. <<>> \in Seq(Entry)
            OBVIOUS
        <3>2. QED
            BY <1>8, <3>1 DEF Crash
    <2>6. QED
        BY <2>2, <2>3, <2>4, <2>5 DEF ChatTypeOK
<1>9. ASSUME NEW c \in Convs, NEW s \in Subjects, Removes(c, s) \/ Opens(c, s)
      PROVE  ChatTypeOK'
    <2>1. UNCHANGED <<restored, live, pool, pc, on, turn>>
        BY <1>9 DEF Removes, Opens
    <2>2. QED
        BY <2>1, Types DEF ChatTypeOK
<1>10. ASSUME TakesBack \/ UNCHANGED vars PROVE ChatTypeOK'
    <2>1. UNCHANGED <<restored, live, pool, pc, on, turn>>
        BY <1>10 DEF TakesBack, vars, chatVars
    <2>2. QED
        BY <2>1, Types DEF ChatTypeOK
<1>11. ChatTypeOK'
    BY <1>4, <1>5, <1>7, <1>8, <1>9, <1>10 DEF Moves
<1>12. QED
    BY <1>1, <1>2, <1>3, <1>11 DEF TypeOK

-----------------------------------------------------------------------------
LEMMA InitInv == Init => IInv
<1> SUFFICES ASSUME Init PROVE IInv
    OBVIOUS
<1>1. Sound(EmptyDb) /\ EmptyDb \in Db
    BY EmptyDbSound DEF Sound
<1>2. TypeOK
    BY <1>1, ChatInitType DEF Init, TypeOK
<1>3. /\ \A r \in Requests : ~Begun(r) /\ live[r] = <<>> /\ restored[r] = {} /\ pc[r] \notin Active
      /\ \A c \in Convs : sessions[c] = NoSession
      /\ db = EmptyDb /\ disk = EmptyDb
      /\ EmptyDb.rows = {}
      /\ \A c \in Convs : EmptyDb.owner[c] = NoOne
    BY DEF Init, ChatInit, Begun, EmptyDb, Active
<1>4. OneSubject /\ OwnersAgree /\ PendingRaised /\ SessionsServe /\ EntriesServe
    BY <1>3 DEF OneSubject, OwnersAgree, PendingRaised, SessionsServe, EntriesServe
<1>5. ImagesFit /\ ContextSaved
    BY <1>1, <1>3 DEF ImagesFit, Fits, ContextSaved, ContextIn
<1>6. QED
    BY <1>2, <1>4, <1>5 DEF IInv

LEMMA StepInv == IInv /\ [Next]_vars => IInv'
<1> SUFFICES ASSUME IInv, [Next]_vars PROVE IInv'
    OBVIOUS
<1>1. Moves
    BY NextMoves
<1>2. OneSubject'
    BY <1>1, OneSubjectStep
<1>3. ImagesFit'
    BY <1>1, <1>2, FitsStep DEF ImagesFit
<1>4. OwnersAgree' /\ PendingRaised' /\ SessionsServe' /\ EntriesServe'
    BY <1>1, <1>3, OwnersAgreeStep, PendingRaisedStep, SessionsServeStep, EntriesServeStep
<1>5. ContextSaved'
    BY <1>1, ContextStep DEF ContextSaved
<1>6. \A image \in {db', disk'} : Sound(image)
    BY <1>3 DEF ImagesFit, Fits
<1>7. TypeOK'
    BY <1>1, <1>6, TypeStep
<1>8. QED
    BY <1>2, <1>3, <1>4, <1>5, <1>7 DEF IInv

\* The strengthened invariant holds of every reachable state.
THEOREM Invariance == Spec => []IInv
BY InitInv, StepInv, PTL DEF Spec

\* The state of the chat service (app.py, orchestrator.py, conversations.py)
\* has its types, for any number of conversations, requests and faults.
THEOREM TypeCorrect == Spec => []TypeOK
<1>1. IInv => TypeOK
    BY DEF IInv
<1>2. QED
    BY <1>1, Invariance, PTL

\* A cached session shows the model only questions that the transcript of its
\* conversation has, for its readers and in the file, or whose request raised: a
\* DELETE, a stream that was cut off, what a failed call left pending and a
\* crash leave nothing else behind in app.state.sessions.
THEOREM ContextAlwaysSaved == Spec => []AskedIsSaved
<1>1. IInv => AskedIsSaved
    <2> SUFFICES ASSUME IInv, NEW c \in Cached, NEW image \in {db, disk},
                        NEW q \in Asked(sessions[c])
                 PROVE  q \in AskedIn(image, c) \/ pc[q] = "raised"
        BY DEF AskedIsSaved, Images
    <2>1. c \in Convs /\ sessions[c] # NoSession /\ ContextIn(image)
        BY DEF Cached, IInv, ContextSaved
    <2>2. pc[q] = "raised" \/ SavedQuestion(image, c, q)
        BY <2>1 DEF Asked, ContextIn
    <2>3. QED
        BY <2>2 DEF SavedQuestion, AskedIn, RowsOf
<1>2. QED
    BY <1>1, Invariance, PTL

\* Every turn, saved or pending, a late answer into a deleted conversation
\* included, is of a request of the conversation's owner to that conversation.
THEOREM TranscriptsAlwaysOwners == Spec => []TranscriptIsOwners
<1>1. IInv => TranscriptIsOwners
    <2> SUFFICES ASSUME IInv, NEW image \in {db, disk}, NEW m \in image.rows
                 PROVE  conv[m.body.req] = m.conv /\ by[m.body.req] = image.owner[m.conv]
        BY DEF TranscriptIsOwners, Images
    <2>1. Fits(image) /\ Sound(image)
        BY DEF IInv, ImagesFit, Fits
    <2>2. m.conv \in Convs /\ m.body.req \in Requests
        BY <2>1, RowTypes
    <2>3. Begun(m.body.req) /\ conv[m.body.req] = m.conv
        BY <2>1 DEF Fits
    <2>4. image.owner[m.conv] # NoOne
        BY <2>1 DEF Sound
    <2>5. QED
        BY <2>1, <2>2, <2>3, <2>4 DEF Fits
<1>2. QED
    BY <1>1, Invariance, PTL

\* No history mixes entries of two conversations or of two subjects, on a
\* session that _session_for_conv no longer hands out too.
THEOREM SessionsAlwaysIsolated == Spec => []SessionsIsolated
<1>1. IInv => SessionsIsolated
    <2> SUFFICES ASSUME IInv, NEW s \in Requests,
                        NEW i \in DOMAIN live[s], NEW j \in DOMAIN live[s]
                 PROVE  /\ conv[live[s][i].req] = conv[live[s][j].req]
                        /\ by[live[s][i].req] = by[live[s][j].req]
        BY DEF SessionsIsolated
    <2>1. /\ live[s][i].req \in Requests /\ Begun(live[s][i].req)
          /\ live[s][j].req \in Requests /\ Begun(live[s][j].req)
        BY EntriesBegun
    <2>2. conv[live[s][i].req] = conv[s] /\ conv[live[s][j].req] = conv[s]
        BY DEF IInv, EntriesServe
    <2>3. QED
        BY <2>1, <2>2 DEF IInv, OneSubject
<1>2. QED
    BY <1>1, Invariance, PTL

-----------------------------------------------------------------------------
(* A second invariant, over the first: NoQuestionTwice, SavedIsRemembered, *)
(* AnswersFollowQuestions and SourcesWereRetrieved.  None is inductive.    *)

\* A request runs on a session that was built by it or before it; one that has
\* not begun is nobody's.
RequestsOn ==
    \A r \in Requests : IF Begun(r) THEN Begun(on[r]) ELSE on[r] = r

\* A history holds what its own streams said.
EntriesOwn ==
    \A s \in Requests : \A i \in DOMAIN live[s] : on[live[s][i].req] = s

\* What it was seeded with is of requests that ran elsewhere.
RestoredEarlier ==
    \A s \in Requests : \A t \in restored[s] :
        Begun(t.turn.req) /\ on[t.turn.req] # s

\* Saved questions have text: seed_history drops none of them.
HaveText(image) == \A m \in image.rows : m.role = "user" => m.body.text = "asked"

QuestionsHaveText == \A image \in {db, disk} : HaveText(image)

\* The file has no turn that its readers miss, but of a conversation whose
\* deletion is pending.
Ahead ==
    \A c \in Convs :
        \/ RowsOf(disk, c) \subseteq RowsOf(db, c)
        \/ RowsOf(db, c) = {} /\ c \in unsure

\* The history of s shows question q.
Shows(s, q) ==
    \/ \E t \in restored[s] : t.role = "user" /\ t.turn.req = q
    \/ \E i \in DOMAIN live[s] : live[s][i].kind = "user" /\ live[s][i].req = q

\* The session s shows question q, or is about to, or its client left or was
\* told of an error.
Settled(s, q) ==
    \/ Shows(s, q)
    \/ pc[q] = "accepted" /\ on[q] = s
    \/ pc[q] \in {"gone", "raised"}

\* So it is of every question of a cached session's conversation.
ShownIn(image) ==
    \A c \in Convs \ unsure : sessions[c] # NoSession =>
        \A q \in Requests : SavedQuestion(image, c, q) => Settled(sessions[c], q)

QuestionsShown == \A image \in {db, disk} : ShownIn(image)

\* The stream of a saved answer is over.
ClosedIn(image) ==
    \A m \in image.rows : m.role = "assistant" => pc[m.body.req] \in {"done", "broken"}

AnswersClosed == \A image \in {db, disk} : ClosedIn(image)

\* The question of a stream that goes on is saved, or may have been deleted.
StandIn(image) ==
    \A r \in Requests :
        pc[r] \in Active => conv[r] \in deleted \cup unsure \/ SavedQuestion(image, conv[r], r)

QuestionsStand == \A image \in {db, disk} : StandIn(image)

\* A citation was returned by a tool to a request of conversation c.
Retrieved(c) == UNION {turn[q].cites : q \in {p \in Requests : conv[p] = c}}

PoolsRetrieved   == \A s \in Requests : pool[s] \subseteq Retrieved(conv[s])
AnswersRetrieved == \A r \in Requests : turn[r].sources \subseteq Retrieved(conv[r])

HistoryInv ==
    /\ RequestsOn /\ EntriesOwn /\ RestoredEarlier
    /\ QuestionsHaveText /\ Ahead /\ QuestionsShown
    /\ AnswersClosed /\ QuestionsStand /\ AnswersFollowQuestions
    /\ PoolsRetrieved /\ AnswersRetrieved /\ SourcesWereRetrieved

-----------------------------------------------------------------------------
LEMMA RequestsOnStep ==
    ASSUME IInv, RequestsOn, Moves
    PROVE  RequestsOn'
<1>1. ASSUME BegunStays
      PROVE  RequestsOn'
    <2>1. on \in [Requests -> Requests]
        BY Types
    <2>2. QED
        BY <1>1, <2>1 DEF RequestsOn, BegunStays, Begun
<1>2. ASSUME NEW r \in Requests, Accepts(r)
      PROVE  RequestsOn'
    <2>1. on \in [Requests -> Requests] /\ conv[r] \in Convs
        BY Types
    <2>2. sessions[conv[r]] \in Requests => Begun(sessions[conv[r]])
        BY <2>1, NoRequestIsNoSession DEF IInv, SessionsServe
    <2>3. pc[r] = "idle"
        BY <1>2 DEF Accepts
    <2>4. QED
        BY <1>2, <2>1, <2>2, <2>3, AcceptsBegins DEF RequestsOn, Begun
<1>3. CASE \E c \in Convs, s \in Subjects : Removes(c, s) \/ Opens(c, s)
    BY <1>1, <1>3 DEF Removes, Opens, BegunStays
<1>4. CASE TakesBack \/ UNCHANGED vars
    BY <1>1, <1>4 DEF TakesBack, vars, chatVars, BegunStays
<1>5. QED
    BY <1>1, <1>2, <1>3, <1>4, StreamStays, EndsStays, CrashStays DEF Moves

LEMMA EntriesOwnStep ==
    ASSUME IInv, EntriesOwn, Moves
    PROVE  EntriesOwn'
<1> SUFFICES ASSUME NEW s \in Requests, NEW i \in DOMAIN live'[s]
             PROVE  on'[live'[s][i].req] = s
    BY DEF EntriesOwn
<1>1. ASSUME i \in DOMAIN live[s], live'[s][i] = live[s][i]
      PROVE  /\ on[live'[s][i].req] = s /\ live'[s][i].req \in Requests
             /\ pc[live'[s][i].req] # "idle"
    BY <1>1, EntriesBegun DEF EntriesOwn, Begun
<1>2. ASSUME NEW r \in Requests, Accepts(r)
      PROVE  on'[live'[s][i].req] = s
    <2>1. pc[r] = "idle" /\ live' = live
        BY <1>2 DEF Accepts
    <2>2. QED
        BY <1>1, <1>2, <2>1, AcceptsBegins
<1>3. CASE on' = on
    <2>1. ASSUME NEW r \in Requests, s = on[r], live'[s][i].req = r
          PROVE  on'[live'[s][i].req] = s
        BY <1>3, <2>1
    <2>2. QED
        BY <1>1, <1>3, <2>1, EntriesMove
<1>4. (\A r \in Requests : ~Accepts(r)) => on' = on
    BY StreamStays DEF Moves, Ends, Removes, Opens, TakesBack, Crash, vars, chatVars, BegunStays
<1>5. QED
    BY <1>2, <1>3, <1>4

LEMMA RestoredEarlierStep ==
    ASSUME IInv, RequestsOn, RestoredEarlier, Moves
    PROVE  RestoredEarlier'
<1>1. \A s \in Requests : \A t \in restored[s] : t.turn.req \in Requests
    BY Types DEF SavedTurn, Turn
<1>2. ASSUME restored' = restored, BegunStays
      PROVE  RestoredEarlier'
    BY <1>1, <1>2 DEF RestoredEarlier, BegunStays, Begun
<1>3. ASSUME NEW r \in Requests, Accepts(r)
      PROVE  RestoredEarlier'
    <2>1. pc[r] = "idle"
        BY <1>3 DEF Accepts
    <2> SUFFICES ASSUME NEW s \in Requests, NEW t \in restored'[s]
                 PROVE  pc'[t.turn.req] # "idle" /\ on'[t.turn.req] # s
        BY DEF RestoredEarlier, Begun
    <2>2. CASE t \in restored[s]
        BY <1>1, <1>3, <2>1, <2>2, AcceptsBegins DEF RestoredEarlier, Begun
    <2>3. CASE s = r /\ t \in SeedHistory(Saved(db, conv[r], by[r]))
        <3>1. PICK m \in db.rows : m.body = t.turn
            BY <2>3, SeedIsSaved
        <3>2. Sound(db) /\ Fits(db)
            BY Types DEF IInv, ImagesFit
        <3>3. t.turn.req \in Requests /\ Begun(t.turn.req)
            BY <3>1, <3>2, RowTypes DEF Fits
        <3>4. Begun(on[t.turn.req])
            BY <3>3 DEF RequestsOn
        <3>5. QED
            BY <1>3, <2>1, <2>3, <3>3, <3>4, AcceptsBegins DEF Begun
    <2>4. QED
        <3>1. restored \in [Requests -> SUBSET SavedTurn]
            BY Types
        <3>2. QED
            BY <1>3, <2>2, <2>3, <3>1 DEF Accepts
<1>4. CASE Crash
    BY <1>4 DEF Crash, RestoredEarlier
<1>5. CASE \E r \in Requests : Ends(r)
    BY <1>2, <1>5, EndsStays DEF Ends
<1>6. CASE \E c \in Convs, s \in Subjects : Removes(c, s) \/ Opens(c, s)
    BY <1>2, <1>6 DEF Removes, Opens, BegunStays
<1>7. CASE TakesBack \/ UNCHANGED vars
    BY <1>2, <1>7 DEF TakesBack, vars, chatVars, BegunStays
<1>8. CASE \E r \in Requests : Stream(r)
    BY <1>2, <1>8, StreamStays
<1>9. QED
    BY <1>3, <1>4, <1>5, <1>6, <1>7, <1>8 DEF Moves

-----------------------------------------------------------------------------
(* What a step does to the rows of an image. *)

\* The row add_turn inserts is numbered by the length of the transcript, so it
\* comes after every row of it.
LEMMA NewRowLast ==
    ASSUME NEW image, Sound(image), NEW c \in Convs, NEW s \in Subjects, NEW role, NEW b,
           NEW n \in Nat, Numbered(RowsOf(image, c), n)
    PROVE  /\ TurnRow(image, c, s, role, b).idx = n
           /\ \A k \in RowsOf(image, c) : k.idx \in Nat /\ k.idx < n
<1>1. RowsOf(InsertConversation(image, c, s), c) = RowsOf(image, c)
    BY InsertConversationSound DEF RowsOf
<1>2. NextIdx(InsertConversation(image, c, s), c) = n
    BY <1>1, NextIdxIsLength
<1>3. \A k \in RowsOf(image, c) : k.idx \in 0 .. n - 1
    BY DEF Numbered
<1>4. QED
    BY <1>2, <1>3 DEF TurnRow

RowAdded(old, new, r, role, b) ==
    /\ new.rows = old.rows \cup {TurnRow(old, conv[r], by[r], role, b)}
    /\ b.req = r

\* None, one of r's more, or one conversation's fewer.
RowsMoved(old, new) ==
    \/ new.rows = old.rows
    \/ \E c \in Convs : new.rows = old.rows \ RowsOf(old, c) /\ c \in deleted' \cup unsure'
    \/ \E r \in Requests : Accepts(r) /\ RowAdded(old, new, r, "user", Question(r))
    \/ \E r \in Requests : /\ Ends(r) /\ pc'[r] \in {"done", "broken"}
                           /\ RowAdded(old, new, r, "assistant", Answer(r))

LEMMA RowsMove ==
    ASSUME IInv, Moves, NEW image \in {db', disk'}
    PROVE  \E old \in {db, disk} : RowsMoved(old, image)
<1>1. Origin(image)
    BY Origins
<1>2. CASE image = db \/ image = disk
    BY <1>2 DEF RowsMoved
<1>3. ASSUME NEW c \in Convs, NEW s \in Subjects, Filled(db, image, c, s)
      PROVE  RowsMoved(db, image)
    BY <1>3 DEF Filled, RowsMoved
<1>4. ASSUME NEW r \in Requests, Accepts(r),
             OneTurnAdded(db, image, conv[r], by[r], "user", Question(r))
      PROVE  RowsMoved(db, image)
    BY <1>4 DEF OneTurnAdded, RowsMoved, RowAdded, Question
<1>5. ASSUME NEW r \in Requests, Ends(r), pc'[r] \in {"done", "broken"},
             OneTurnAdded(db, image, conv[r], by[r], "assistant", Answer(r))
      PROVE  RowsMoved(db, image)
    BY <1>5 DEF OneTurnAdded, RowsMoved, RowAdded, Answer
<1>6. ASSUME NEW c \in Convs, c \in deleted' \cup unsure',
             Emptied(db, image, c) \/ Removed(db, image, c)
      PROVE  RowsMoved(db, image)
    BY <1>6 DEF Emptied, Removed, RowsMoved
<1>7. conv \in [Requests -> Convs] /\ by \in [Requests -> Subjects]
    BY Types
<1>8. CASE \E r \in Requests : (Accepts(r) \/ Ends(r)) /\ Filled(db, image, conv[r], by[r])
    BY <1>3, <1>7, <1>8
<1>9. QED
    BY <1>1, <1>2, <1>3, <1>4, <1>5, <1>6, <1>8 DEF Origin

LEMMA HaveTextStep ==
    ASSUME IInv, QuestionsHaveText, Moves
    PROVE  QuestionsHaveText'
<1> SUFFICES ASSUME NEW image \in {db', disk'}
             PROVE  HaveText(image)
    BY DEF QuestionsHaveText, HaveText
<1>1. PICK old \in {db, disk} : RowsMoved(old, image)
    BY RowsMove
<1>2. HaveText(old)
    BY DEF QuestionsHaveText
<1>3. ASSUME NEW r \in Requests, RowAdded(old, image, r, "user", Question(r))
      PROVE  HaveText(image)
    BY <1>2, <1>3 DEF RowAdded, TurnRow, Question, HaveText
<1>4. ASSUME NEW r \in Requests, RowAdded(old, image, r, "assistant", Answer(r))
      PROVE  HaveText(image)
    BY <1>2, <1>4 DEF RowAdded, TurnRow, HaveText
<1>5. CASE image.rows \subseteq old.rows
    BY <1>2, <1>5 DEF HaveText
<1>6. QED
    BY <1>1, <1>3, <1>4, <1>5 DEF RowsMoved

LEMMA AheadStep ==
    ASSUME IInv, Ahead, Moves
    PROVE  Ahead'
<1> SUFFICES ASSUME NEW c \in Convs
             PROVE  \/ RowsOf(disk', c) \subseteq RowsOf(db', c)
                    \/ RowsOf(db', c) = {} /\ c \in unsure'
    BY DEF Ahead
<1> DEFINE Goal == \/ RowsOf(disk', c) \subseteq RowsOf(db', c)
                   \/ RowsOf(db', c) = {} /\ c \in unsure'
<1>1. unsure \subseteq unsure'
    BY MovesForward
<1>2. ASSUME disk'.rows \subseteq db'.rows
      PROVE  Goal
    BY <1>2 DEF RowsOf
<1>3. ASSUME disk' = disk, db'.rows = db.rows
      PROVE  Goal
    BY <1>1, <1>3 DEF Ahead, RowsOf
<1>4. ASSUME NEW r \in Requests, NEW role, NEW b, Done(r, role, b) \/ HalfDone(r, role, b)
      PROVE  Goal
    <2> HIDE DEF Goal
    <2>1. ASSUME Filled(db, disk', conv[r], by[r]),
                 OneTurnAdded(db, db', conv[r], by[r], role, b)
          PROVE  disk'.rows \subseteq db'.rows
        BY <2>1 DEF Filled, OneTurnAdded
    <2>2. Filled(db, db', conv[r], by[r]) => db'.rows = db.rows
        BY DEF Filled
    <2>3. db' = disk' => Goal
        BY <1>2
    <2>4. QED
        BY <1>2, <1>3, <1>4, <2>1, <2>2, <2>3 DEF Done, HalfDone
<1>5. ASSUME disk' = disk, NEW d \in Convs, db'.rows = db.rows \ RowsOf(db, d),
             unsure' = unsure \cup {d}
      PROVE  Goal
    <2>1. CASE c = d
        BY <1>5, <2>1 DEF RowsOf
    <2>2. CASE c # d
        <3>1. RowsOf(db', c) = RowsOf(db, c)
            BY <1>5, <2>2 DEF RowsOf
        <3>2. QED
            BY <1>1, <1>5, <3>1 DEF Ahead
    <2>3. QED
        BY <2>1, <2>2
<1> HIDE DEF Goal
<1>6. db' = disk' => Goal
    BY <1>2
<1>7. ASSUME NEW d \in Convs, NEW s \in Subjects, Removes(d, s)
      PROVE  Goal
    <2>1. Emptied(db, db', d) \/ Removed(db, db', d) => db'.rows = db.rows \ RowsOf(db, d)
        BY DEF Emptied, Removed
    <2>2. UNCHANGED storeVars => Goal
        BY <1>3 DEF storeVars
    <2>3. QED
        BY <1>3, <1>5, <1>6, <1>7, <2>1, <2>2 DEF Removes
<1>8. ASSUME NEW r \in Requests, Accepts(r) \/ Ends(r)
      PROVE  Goal
    BY <1>3, <1>4, <1>8 DEF Accepts, Ends, storeVars
<1>9. ASSUME \/ \E r \in Requests : Stream(r)
             \/ TakesBack \/ Crash \/ UNCHANGED vars
      PROVE  Goal
    <2>1. db' = disk' \/ (db' = db /\ disk' = disk)
        BY <1>9 DEF Stream, TakesBack, Crash, vars, serverVars, storeVars
    <2>2. QED
        BY <1>3, <1>6, <2>1
<1>10. ASSUME \E d \in Convs, s \in Subjects : Opens(d, s)
       PROVE  Goal
    BY <1>6, <1>10 DEF Opens
<1>11. Goal
    BY <1>7, <1>8, <1>9, <1>10 DEF Moves
<1>12. QED
    BY <1>11 DEF Goal

\* What is settled stays so on a session that outlives the step.
SettledNext(s, q) ==
    \/ \E t \in restored'[s] : t.role = "user" /\ t.turn.req = q
    \/ \E i \in DOMAIN live'[s] : live'[s][i].kind = "user" /\ live'[s][i].req = q
    \/ pc'[q] = "accepted" /\ on'[q] = s
    \/ pc'[q] \in {"gone", "raised"}

LEMMA SettledStays ==
    ASSUME IInv, Moves, NEW s \in Requests, Begun(s), NEW q \in Requests, Settled(s, q),
           ~Crash
    PROVE  SettledNext(s, q)
<1>1. pc[q] \in {"gone", "raised"} => pc'[q] \in {"gone", "raised"}
    BY MovesForward DEF Ended
<1>2. ASSUME restored'[s] = restored[s], live'[s] = live[s],
             pc[q] = "accepted" /\ on[q] = s
                => pc'[q] = "gone" \/ (pc'[q] = "accepted" /\ on'[q] = s)
      PROVE  SettledNext(s, q)
    BY <1>1, <1>2 DEF Settled, Shows, SettledNext
<1>3. ASSUME NEW r \in Requests, Accepts(r)
      PROVE  SettledNext(s, q)
    <2>1. pc[r] = "idle" /\ live' = live /\ s # r
        BY <1>3 DEF Accepts, Begun
    <2>2. restored'[s] = restored[s]
        BY <1>3, <2>1, Types DEF Accepts
    <2>3. pc[q] = "accepted" /\ on[q] = s => pc'[q] = "accepted" /\ on'[q] = s
        BY <1>3, <2>1, AcceptsBegins
    <2>4. QED
        BY <1>2, <2>1, <2>2, <2>3
<1>4. ASSUME NEW r \in Requests, Stream(r)
      PROVE  SettledNext(s, q)
    <2>1. StepSeen(r) /\ on' = on /\ restored' = restored /\ Step(r)
        BY <1>4, StreamStays DEF BegunStays, Stream
    <2>2. PICK label \in Active \ {"accepted"} : pc' = [pc EXCEPT ![r] = label]
        BY <2>1 DEF StepSeen
    <2>3. pc \in [Requests -> Active \cup Ended \cup {"idle"}] /\ ChatTypeOK
        BY Types
    <2>4. \A i \in DOMAIN live[s] : i \in DOMAIN live'[s] /\ live'[s][i] = live[s][i]
        BY <2>1, <2>3, StepEntries
    <2>5. CASE Shows(s, q)
        BY <2>1, <2>4, <2>5 DEF Shows, SettledNext
    <2>6. CASE pc[q] = "accepted" /\ on[q] = s
        <3>1. CASE q = r
            <4>1. \E i \in DOMAIN live'[on[r]] :
                     live'[on[r]][i].kind = "user" /\ live'[on[r]][i].req = r
                BY <2>1, <2>3, <2>6, <3>1, FirstStepAsks
            <4>2. QED
                BY <2>6, <3>1, <4>1 DEF SettledNext
        <3>2. CASE q # r
            BY <2>1, <2>2, <2>3, <2>6, <3>2 DEF SettledNext
        <3>3. QED
            BY <3>1, <3>2
    <2>7. QED
        BY <1>1, <2>5, <2>6 DEF Settled, SettledNext
<1>5. ASSUME NEW r \in Requests, Ends(r)
      PROVE  SettledNext(s, q)
    <2>1. UNCHANGED <<restored, live, on>>
        BY <1>5 DEF Ends
    <2>2. pc[q] = "accepted" => pc'[q] \in {"accepted", "gone"}
        BY <1>5, Types DEF Ends
    <2>3. QED
        BY <1>2, <2>1, <2>2
<1>6. CASE \/ \E c \in Convs, t \in Subjects : Removes(c, t) \/ Opens(c, t)
           \/ TakesBack \/ UNCHANGED vars
    <2>1. UNCHANGED <<restored, live, pc, on>>
        BY <1>6 DEF Removes, Opens, TakesBack, vars, chatVars
    <2>2. QED
        BY <1>2, <2>1
<1>7. QED
    BY <1>3, <1>4, <1>5, <1>6 DEF Moves

LEMMA QuestionsShownStep ==
    ASSUME IInv, IInv', QuestionsHaveText, Ahead, QuestionsShown, Moves
    PROVE  QuestionsShown'
<1> SUFFICES ASSUME NEW image \in {db', disk'}, NEW c \in Convs, c \notin unsure',
                    sessions'[c] # NoSession, NEW q \in Requests, SavedQuestion(image, c, q)
             PROVE  SettledNext(sessions'[c], q)
    BY DEF QuestionsShown, ShownIn, Settled, Shows, SettledNext, SavedQuestion
<1>1. PICK old \in {db, disk} : RowsMoved(old, image)
    BY RowsMove
<1>2. /\ ~Crash /\ c \notin unsure /\ sessions \in [Convs -> Requests \cup {NoSession}]
      /\ conv \in [Requests -> Convs]
    <2>1. ~Crash
        BY DEF Crash
    <2>2. QED
        BY <2>1, MovesForward, Types
<1>3. ASSUME NEW r \in Requests, Accepts(r), q = r, c = conv[r]
      PROVE  SettledNext(sessions'[c], q)
    BY <1>3, AcceptsBegins DEF SettledNext
<1>4. ASSUME SavedQuestion(old, c, q)
      PROVE  SettledNext(sessions'[c], q)
    <2>1. CASE sessions[c] # NoSession /\ sessions'[c] = sessions[c]
        <3>1. Settled(sessions[c], q)
            BY <1>2, <1>4, <2>1 DEF QuestionsShown, ShownIn
        <3>2. sessions[c] \in Requests /\ Begun(sessions[c])
            BY <1>2, <2>1 DEF IInv, SessionsServe
        <3>3. QED
            BY <1>2, <2>1, <3>1, <3>2, SettledStays
    <2>2. CASE ~(sessions[c] # NoSession /\ sessions'[c] = sessions[c])
        <3>1. PICK r \in Requests : Accepts(r)
            <4>1. ASSUME NEW d \in Convs, NEW s \in Subjects, Removes(d, s)
                  PROVE  FALSE
                BY <1>2, <2>2, <4>1 DEF Removes
            <4>2. QED
                BY <1>2, <2>2, <4>1, StreamStays
                   DEF Moves, Ends, Opens, TakesBack, vars, serverVars
        <3>2. /\ c = conv[r] /\ sessions'[c] = r
              /\ restored'[r] = SeedHistory(Saved(db, conv[r], by[r]))
              /\ Owns(db, conv[r], by[r])
            BY <1>2, <2>2, <3>1, Types DEF Accepts
        <3>3. PICK m \in old.rows : m.conv = c /\ m.role = "user" /\ m.body.req = q
            BY <1>4 DEF SavedQuestion
        <3>4. m \in RowsOf(db, c)
            BY <1>2, <3>3 DEF Ahead, RowsOf
        <3> DEFINE t == [idx |-> m.idx, role |-> m.role, turn |-> m.body]
        <3>5. t \in Saved(db, conv[r], by[r])
            BY <3>2, <3>4 DEF Saved, Transcript
        <3>6. m.body.text = "asked"
            BY <3>3, <3>4 DEF QuestionsHaveText, HaveText, RowsOf
        <3>7. t \in SeedHistory(Saved(db, conv[r], by[r]))
            BY <3>5, <3>6 DEF SeedHistory
        <3>8. QED
            BY <3>2, <3>3, <3>7 DEF SettledNext
    <2>3. QED
        BY <2>1, <2>2
<1>5. CASE image.rows \subseteq old.rows
    BY <1>4, <1>5, SavedQuestionStays
<1>6. ASSUME NEW r \in Requests, Accepts(r), RowAdded(old, image, r, "user", Question(r))
      PROVE  SettledNext(sessions'[c], q)
    <2>1. SavedQuestion(old, c, q) \/ (q = r /\ c = conv[r])
        BY <1>6 DEF RowAdded, TurnRow, Question, SavedQuestion
    <2>2. QED
        BY <1>3, <1>4, <1>6, <2>1
<1>7. ASSUME NEW r \in Requests, RowAdded(old, image, r, "assistant", Answer(r))
      PROVE  SettledNext(sessions'[c], q)
    <2>1. SavedQuestion(old, c, q)
        BY <1>7 DEF RowAdded, TurnRow, SavedQuestion
    <2>2. QED
        BY <1>4, <2>1
<1>8. QED
    BY <1>1, <1>5, <1>6, <1>7 DEF RowsMoved

-----------------------------------------------------------------------------
LEMMA AnswersClosedStep ==
    ASSUME IInv, AnswersClosed, Moves
    PROVE  AnswersClosed'
<1> SUFFICES ASSUME NEW image \in {db', disk'}, NEW m \in image.rows, m.role = "assistant"
             PROVE  pc'[m.body.req] \in {"done", "broken"}
    BY DEF AnswersClosed, ClosedIn
<1>1. PICK old \in {db, disk} : RowsMoved(old, image)
    BY RowsMove
<1>2. CASE m \in old.rows
    <2>1. Sound(old)
        BY Types
    <2>2. m.body.req \in Requests /\ pc[m.body.req] \in {"done", "broken"}
        BY <1>2, <2>1, RowTypes DEF AnswersClosed, ClosedIn
    <2>3. QED
        BY <2>2, MovesForward DEF Ended
<1>3. ASSUME NEW r \in Requests, RowAdded(old, image, r, "user", Question(r))
      PROVE  m \in old.rows
    BY <1>3 DEF RowAdded, TurnRow
<1>4. ASSUME NEW r \in Requests, RowAdded(old, image, r, "assistant", Answer(r))
      PROVE  m \in old.rows \/ m.body.req = r
    BY <1>4 DEF RowAdded, TurnRow
<1>5. QED
    BY <1>1, <1>2, <1>3, <1>4 DEF RowsMoved

LEMMA QuestionsStandStep ==
    ASSUME IInv, QuestionsStand, Moves
    PROVE  QuestionsStand'
<1> SUFFICES ASSUME NEW image \in {db', disk'}, NEW q \in Requests, pc'[q] \in Active
             PROVE  conv[q] \in deleted' \cup unsure' \/ SavedQuestion(image, conv[q], q)
    <2>1. conv' = conv
        BY MovesForward
    <2>2. QED
        BY <2>1 DEF QuestionsStand, StandIn, SavedQuestion
<1>1. CASE pc[q] \in Active
    <2>1. PICK old \in {db, disk} : RowsMoved(old, image)
        BY RowsMove
    <2>2. \/ conv[q] \in deleted' \cup unsure'
          \/ SavedQuestion(old, conv[q], q)
        BY <1>1, MovesForward DEF QuestionsStand, StandIn
    <2>3. CASE old.rows \subseteq image.rows
        BY <2>2, <2>3, SavedQuestionStays
    <2>4. ASSUME NEW c \in Convs, image.rows = old.rows \ RowsOf(old, c),
                 c \in deleted' \cup unsure'
          PROVE  conv[q] \in deleted' \cup unsure' \/ SavedQuestion(image, conv[q], q)
        BY <2>2, <2>4 DEF SavedQuestion, RowsOf
    <2>5. \A r, role, b : RowAdded(old, image, r, role, b) => old.rows \subseteq image.rows
        BY DEF RowAdded
    <2>6. QED
        BY <2>1, <2>3, <2>4, <2>5 DEF RowsMoved
<1>2. CASE pc[q] \notin Active
    <2>1. PICK r \in Requests : Accepts(r)
        BY <1>2, StreamStays, EndsStays, CrashStays
           DEF Moves, Removes, Opens, TakesBack, vars, chatVars
    <2>2. q = r /\ Done(r, "user", Question(r))
        BY <1>2, <2>1, AcceptsBegins DEF Active
    <2>3. QED
        BY <2>2, QuestionAdded
<1>3. QED
    BY <1>1, <1>2

LEMMA AnswersFollowStep ==
    ASSUME IInv, AnswersClosed, QuestionsStand, AnswersFollowQuestions, Moves
    PROVE  AnswersFollowQuestions'
<1> DEFINE QuestionBefore(image, gone, m) ==
              \/ m.conv \in gone
              \/ \E k \in image.rows :
                    k.conv = m.conv /\ k.role = "user" /\ k.body.req = m.body.req /\ k.idx < m.idx
           Only(image, m) ==
              \A k \in image.rows : k.role = "assistant" /\ k.body.req = m.body.req => k = m
           maybe == deleted \cup unsure
           maybeNext == deleted' \cup unsure'
<1> SUFFICES ASSUME NEW image \in {db', disk'}, NEW m \in image.rows, m.role = "assistant"
             PROVE  Only(image, m) /\ QuestionBefore(image, maybeNext, m)
    BY DEF AnswersFollowQuestions, Images, RowsOf
<1>1. PICK old \in {db, disk} : RowsMoved(old, image)
    BY RowsMove
<1>2. Sound(old) /\ maybe \subseteq maybeNext
    BY Types, MovesForward
<1>3. ASSUME m \in old.rows
      PROVE  /\ Only(old, m)
             /\ QuestionBefore(old, maybe, m)
             /\ pc[m.body.req] \notin Active /\ m.body.req \in Requests
    <2>1. m.body.req \in Requests
        BY <1>2, <1>3, RowTypes
    <2>2. pc[m.body.req] \in {"done", "broken"}
        BY <1>3 DEF AnswersClosed, ClosedIn
    <2>3. QED
        BY <1>3, <2>1, <2>2 DEF AnswersFollowQuestions, Images, RowsOf, Active
<1>4. CASE image.rows = old.rows
    BY <1>2, <1>3, <1>4
<1>5. ASSUME NEW c \in Convs, image.rows = old.rows \ RowsOf(old, c), c \in maybeNext
      PROVE  Only(image, m) /\ QuestionBefore(image, maybeNext, m)
    BY <1>2, <1>3, <1>5 DEF RowsOf
<1>6. ASSUME NEW r \in Requests, RowAdded(old, image, r, "user", Question(r))
      PROVE  Only(image, m) /\ QuestionBefore(image, maybeNext, m)
    <2>1. m \in old.rows /\ \A k \in image.rows : k.role = "assistant" => k \in old.rows
        BY <1>6 DEF RowAdded, TurnRow
    <2>2. old.rows \subseteq image.rows
        BY <1>6 DEF RowAdded
    <2>3. QED
        BY <1>2, <1>3, <2>1, <2>2
<1>7. ASSUME NEW r \in Requests, Ends(r), RowAdded(old, image, r, "assistant", Answer(r))
      PROVE  Only(image, m) /\ QuestionBefore(image, maybeNext, m)
    <2>1. PICK new : /\ new.conv = conv[r] /\ new.role = "assistant" /\ new.body.req = r
                     /\ image.rows = old.rows \cup {new}
                     /\ new = TurnRow(old, conv[r], by[r], "assistant", Answer(r))
        BY <1>7 DEF RowAdded, TurnRow, Answer
    <2>2. \A k \in RowsOf(old, conv[r]) : k.idx < new.idx
        <3>1. conv[r] \in Convs /\ by[r] \in Subjects
            BY Types
        <3>2. PICK n \in Nat : Numbered(RowsOf(old, conv[r]), n)
            BY <1>2, <3>1 DEF Sound
        <3>3. QED
            BY <1>2, <2>1, <3>1, <3>2, NewRowLast
    <2>3. pc[r] \in Active
        BY <1>7 DEF Ends
    <2>4. \A k \in old.rows : k.role = "assistant" => k.body.req # r
        BY <2>3 DEF AnswersClosed, ClosedIn, Active
    <2>5. CASE m \in old.rows
        BY <1>2, <1>3, <2>1, <2>3, <2>5
    <2>6. CASE m = new
        <3>1. Only(image, m)
            BY <2>1, <2>4, <2>6
        <3>2. conv[r] \in maybe \/ SavedQuestion(old, conv[r], r)
            BY <2>3 DEF QuestionsStand, StandIn
        <3>3. CASE SavedQuestion(old, conv[r], r)
            <4>1. PICK k \in old.rows : k.conv = conv[r] /\ k.role = "user" /\ k.body.req = r
                BY <3>3 DEF SavedQuestion
            <4>2. k \in image.rows /\ k.idx < new.idx
                BY <2>1, <2>2, <4>1 DEF RowsOf
            <4>3. QED
                BY <2>1, <2>6, <3>1, <4>1, <4>2
        <3>4. QED
            BY <1>2, <2>1, <2>6, <3>1, <3>2, <3>3
    <2>7. QED
        BY <2>1, <2>5, <2>6
<1>8. QED
    BY <1>1, <1>4, <1>5, <1>6, <1>7 DEF RowsMoved

-----------------------------------------------------------------------------
\* What was retrieved stays so: a generator that ends, and a restart, drop the
\* citations from the program, not from what its tools once returned.
LEMMA RetrievedGrows ==
    ASSUME IInv, Moves
    PROVE  /\ conv' = conv
           /\ \A q \in Requests : turn[q].cites \subseteq turn'[q].cites
           /\ \A c : Retrieved(c) \subseteq Retrieved(c)'
<1>1. conv' = conv
    BY MovesForward
<1>2. \A q \in Requests : turn[q].cites \subseteq turn'[q].cites
    <2>1. turn \in [Requests -> Locals] /\ \A q \in Requests : turn[q] \in Locals
        BY Types
    <2>2. \A q \in Requests : [NewLocals EXCEPT !.cites = turn[q].cites].cites = turn[q].cites
        BY DEF NewLocals
    <2>3. CASE \E r \in Requests : Stream(r)
        BY <2>3, StreamStays DEF StepGathers
    <2>4. CASE \E r \in Requests : Ends(r)
        <3>1. PICK r \in Requests : turn' = [turn EXCEPT ![r] = [NewLocals EXCEPT !.cites = turn[r].cites]]
            BY <2>4 DEF Ends
        <3>2. QED
            BY <2>1, <2>2, <3>1
    <2>5. CASE Crash
        BY <2>2, <2>5 DEF Crash
    <2>6. CASE turn' = turn
        BY <2>6
    <2>7. QED
        BY <2>3, <2>4, <2>5, <2>6
           DEF Moves, Accepts, Removes, Opens, TakesBack, vars, chatVars
<1>3. \A c : Retrieved(c) \subseteq Retrieved(c)'
    BY <1>1, <1>2 DEF Retrieved
<1>4. QED
    BY <1>1, <1>2, <1>3

LEMMA InRetrieved ==
    ASSUME NEW q \in Requests
    PROVE  turn[q].cites \subseteq Retrieved(conv[q])
BY DEF Retrieved

LEMMA InRetrievedNext ==
    ASSUME NEW q \in Requests, NEW c, conv'[q] = c
    PROVE  turn'[q].cites \subseteq Retrieved(c)'
BY DEF Retrieved

LEMMA PoolsRetrievedStep ==
    ASSUME IInv, PoolsRetrieved, SourcesWereRetrieved, Moves
    PROVE  PoolsRetrieved'
<1> SUFFICES ASSUME NEW s \in Requests, NEW x \in pool'[s]
             PROVE  x \in Retrieved(conv[s])'
    <2>1. conv' = conv
        BY RetrievedGrows
    <2>2. QED
        BY <2>1 DEF PoolsRetrieved, Retrieved
<1>1. CASE x \in pool[s]
    BY <1>1, RetrievedGrows DEF PoolsRetrieved
<1>2. CASE x \notin pool[s]
    <2>1. pool \in [Requests -> SUBSET Sources]
        BY Types
    <2>2. ASSUME NEW r \in Requests, Stream(r)
          PROVE  x \in Retrieved(conv[s])'
        <3>1. StepSeen(r) /\ StepGathers(r)
            BY <2>2, StreamStays
        <3>2. s = on[r] /\ x \in turn'[r].cites
            BY <1>2, <3>1 DEF StepGathers
        <3>3. conv[s] = conv[r] /\ conv' = conv
            BY <3>1, <3>2, RetrievedGrows DEF IInv, SessionsServe, StepSeen
        <3>4. QED
            BY <3>2, <3>3, InRetrievedNext
    <2>3. ASSUME NEW r \in Requests, Accepts(r)
          PROVE  x \in Retrieved(conv[s])'
        <3>1. pool' = [pool EXCEPT ![r] = SeedPool(Saved(db, conv[r], by[r]))]
            BY <1>2, <2>3 DEF Accepts
        <3>2. s = r /\ x \in SeedPool(Saved(db, conv[r], by[r]))
            BY <1>2, <2>1, <3>1
        <3>3. PICK m \in db.rows : x \in m.body.sources /\ m.conv = conv[r]
            BY <3>2, SeedIsSaved
        <3>4. x \in Retrieved(conv[r])
            BY <3>3 DEF SourcesWereRetrieved, Images, Retrieved
        <3>5. QED
            BY <3>2, <3>4, RetrievedGrows
    <2>4. CASE Crash
        BY <2>4 DEF Crash
    <2>5. QED
        BY <1>2, <2>2, <2>3, <2>4 DEF Moves, Ends, Removes, Opens, TakesBack, vars, chatVars
<1>3. QED
    BY <1>1, <1>2

LEMMA AnswersRetrievedStep ==
    ASSUME IInv, PoolsRetrieved, AnswersRetrieved, Moves
    PROVE  AnswersRetrieved'
<1> SUFFICES ASSUME NEW q \in Requests, NEW x \in turn'[q].sources
             PROVE  x \in Retrieved(conv[q])'
    <2>1. conv' = conv
        BY RetrievedGrows
    <2>2. QED
        BY <2>1 DEF AnswersRetrieved, Retrieved
<1>1. CASE x \in Retrieved(conv[q])
    BY <1>1, RetrievedGrows
<1>2. CASE turn'[q] = turn[q]
    BY <1>1, <1>2 DEF AnswersRetrieved
<1>3. ASSUME NEW r \in Requests, Stream(r)
      PROVE  x \in Retrieved(conv[q])'
    <2>1. StepSeen(r) /\ StepGathers(r)
        BY <1>3, StreamStays
    <2>2. CASE q # r
        BY <1>2, <2>1, <2>2 DEF StepGathers
    <2>3. CASE q = r
        <3>1. x \in turn[r].sources \cup turn[r].cites \cup pool[on[r]]
            BY <2>1, <2>3 DEF StepGathers
        <3>2. on[r] \in Requests /\ conv[on[r]] = conv[r]
            BY <2>1, Types DEF IInv, SessionsServe, StepSeen
        <3>3. pool[on[r]] \subseteq Retrieved(conv[r])
            BY <3>2 DEF PoolsRetrieved
        <3>4. QED
            BY <1>1, <2>3, <3>1, <3>3, InRetrieved DEF AnswersRetrieved
    <2>4. QED
        BY <2>2, <2>3
<1>4. NewLocals.sources = {} /\ \A C : [NewLocals EXCEPT !.cites = C].sources = {}
    BY DEF NewLocals
<1>5. CASE Crash
    BY <1>4, <1>5 DEF Crash
<1>6. ASSUME NEW r \in Requests, Ends(r)
      PROVE  x \in Retrieved(conv[q])'
    <2>1. turn' = [turn EXCEPT ![r] = [NewLocals EXCEPT !.cites = turn[r].cites]]
        BY <1>6 DEF Ends
    <2>2. q # r
        BY <1>4, <2>1, Types
    <2>3. QED
        BY <1>2, <2>1, <2>2, Types
<1>7. QED
    BY <1>2, <1>3, <1>5, <1>6 DEF Moves, Accepts, Removes, Opens, TakesBack, vars, chatVars

LEMMA SourcesWereRetrievedStep ==
    ASSUME IInv, AnswersRetrieved, SourcesWereRetrieved, Moves
    PROVE  SourcesWereRetrieved'
<1> SUFFICES ASSUME NEW image \in {db', disk'}, NEW m \in image.rows, NEW x \in m.body.sources
             PROVE  x \in Retrieved(m.conv)'
    BY DEF SourcesWereRetrieved, Images, Retrieved
<1>1. PICK old \in {db, disk} : RowsMoved(old, image)
    BY RowsMove
<1>2. CASE m \in old.rows
    BY <1>2, RetrievedGrows DEF SourcesWereRetrieved, Images, Retrieved
<1>3. ASSUME NEW r \in Requests, RowAdded(old, image, r, "user", Question(r)), m \notin old.rows
      PROVE  FALSE
    BY <1>3 DEF RowAdded, TurnRow, Question
<1>4. ASSUME NEW r \in Requests, RowAdded(old, image, r, "assistant", Answer(r)),
             m \notin old.rows
      PROVE  x \in Retrieved(m.conv)'
    <2>1. m.conv = conv[r] /\ x \in turn[r].sources
        BY <1>4 DEF RowAdded, TurnRow, Answer
    <2>2. QED
        BY <2>1, RetrievedGrows DEF AnswersRetrieved
<1>5. QED
    BY <1>1, <1>2, <1>3, <1>4 DEF RowsMoved

-----------------------------------------------------------------------------
LEMMA HistoryInit == Init => HistoryInv
<1> SUFFICES ASSUME Init PROVE HistoryInv
    OBVIOUS
<1>1. /\ \A r \in Requests : /\ ~Begun(r) /\ on[r] = r /\ pc[r] \notin Active
                             /\ restored[r] = {} /\ live[r] = <<>>
                             /\ pool[r] = {} /\ turn[r].sources = {}
      /\ \A c \in Convs : sessions[c] = NoSession
      /\ db.rows = {} /\ disk.rows = {}
    BY DEF Init, ChatInit, Begun, EmptyDb, Active, NewLocals
<1>2. RequestsOn /\ EntriesOwn /\ RestoredEarlier
    BY <1>1 DEF RequestsOn, EntriesOwn, RestoredEarlier
<1>3. QuestionsHaveText /\ Ahead
    BY <1>1 DEF QuestionsHaveText, HaveText, Ahead, RowsOf
<1>4. QuestionsShown /\ AnswersClosed /\ QuestionsStand
    BY <1>1 DEF QuestionsShown, ShownIn, AnswersClosed, ClosedIn, QuestionsStand, StandIn
<1>5. AnswersFollowQuestions /\ SourcesWereRetrieved
    BY <1>1 DEF AnswersFollowQuestions, SourcesWereRetrieved, Images
<1>6. PoolsRetrieved /\ AnswersRetrieved
    BY <1>1 DEF PoolsRetrieved, AnswersRetrieved
<1>7. QED
    BY <1>2, <1>3, <1>4, <1>5, <1>6 DEF HistoryInv

LEMMA HistoryStep == IInv /\ IInv' /\ HistoryInv /\ [Next]_vars => HistoryInv'
<1> SUFFICES ASSUME IInv, IInv', HistoryInv, [Next]_vars PROVE HistoryInv'
    OBVIOUS
<1>1. Moves
    BY NextMoves
<1>2. RequestsOn' /\ EntriesOwn' /\ RestoredEarlier'
    BY <1>1, RequestsOnStep, EntriesOwnStep, RestoredEarlierStep DEF HistoryInv
<1>3. QuestionsHaveText' /\ Ahead' /\ QuestionsShown'
    BY <1>1, HaveTextStep, AheadStep, QuestionsShownStep DEF HistoryInv
<1>4. AnswersClosed' /\ QuestionsStand' /\ AnswersFollowQuestions'
    BY <1>1, AnswersClosedStep, QuestionsStandStep, AnswersFollowStep DEF HistoryInv
<1>5. PoolsRetrieved' /\ AnswersRetrieved' /\ SourcesWereRetrieved'
    BY <1>1, PoolsRetrievedStep, AnswersRetrievedStep, SourcesWereRetrievedStep
       DEF HistoryInv
<1>6. QED
    BY <1>2, <1>3, <1>4, <1>5 DEF HistoryInv

\* The second invariant holds of every reachable state.
THEOREM HistoryInvariance == Spec => []HistoryInv
BY HistoryInit, HistoryStep, Invariance, PTL DEF Spec

\* A cached session misses no question users read in its conversation, but one
\* its stream is about to add, one whose client left before it was, and one
\* whose request raised: what seed_history restores and what stream appends add
\* up to the transcript.
THEOREM SavedAlwaysRemembered == Spec => []SavedIsRemembered
<1>1. IInv /\ HistoryInv => SavedIsRemembered
    <2> SUFFICES ASSUME IInv, HistoryInv, NEW c \in Cached \ unsure,
                        NEW q \in AskedIn(db, c) \ Asked(sessions[c])
                 PROVE  pc[q] \in {"accepted", "gone", "raised"}
        BY DEF SavedIsRemembered
    <2>1. c \in Convs \ unsure /\ sessions[c] # NoSession /\ Sound(db)
        BY Types DEF Cached
    <2>2. PICK m \in RowsOf(db, c) : m.role = "user" /\ m.body.req = q
        BY DEF AskedIn
    <2>3. q \in Requests /\ SavedQuestion(db, c, q)
        BY <2>1, <2>2, RowTypes DEF RowsOf, SavedQuestion
    <2>4. ~Shows(sessions[c], q)
        BY DEF Shows, Asked
    <2>5. Settled(sessions[c], q)
        BY <2>1, <2>3 DEF HistoryInv, QuestionsShown, ShownIn
    <2>6. QED
        BY <2>4, <2>5 DEF Settled
<1>2. QED
    BY <1>1, Invariance, HistoryInvariance, PTL

\* No question is in the context twice, once restored and once as asked since: a
\* session is seeded only with turns that ran on another.
THEOREM NoQuestionEverTwice == Spec => []NoQuestionTwice
<1>1. IInv /\ HistoryInv => NoQuestionTwice
    <2> SUFFICES ASSUME IInv, HistoryInv, NEW c \in Cached,
                        NEW t \in restored[sessions[c]], NEW i \in DOMAIN live[sessions[c]]
                 PROVE  t.turn.req # live[sessions[c]][i].req
        BY DEF NoQuestionTwice
    <2>1. sessions[c] \in Requests
        BY Types DEF Cached
    <2>2. QED
        BY <2>1 DEF HistoryInv, EntriesOwn, RestoredEarlier
<1>2. QED
    BY <1>1, Invariance, HistoryInvariance, PTL

\* Each answer, saved or pending, is the only one of its request, and unless its
\* owner asked for the conversation to be deleted meanwhile its question stands
\* before it.
THEOREM AnswersAlwaysFollowQuestions == Spec => []AnswersFollowQuestions
<1>1. HistoryInv => AnswersFollowQuestions
    BY DEF HistoryInv
<1>2. QED
    BY <1>1, HistoryInvariance, PTL

\* Every source under an answer was returned by a tool to a request of the same
\* conversation, however pools were seeded, shared, cut off and rebuilt.
THEOREM SourcesAlwaysRetrieved == Spec => []SourcesWereRetrieved
<1>1. HistoryInv => SourcesWereRetrieved
    BY DEF HistoryInv
<1>2. QED
    BY <1>1, HistoryInvariance, PTL

-----------------------------------------------------------------------------
(* An action property: what a step may do to a transcript in the file. *)

\* What it may do to the rows of a conversation, gone if it may have been deleted.
GrowsOrGoes(old, new, gone) ==
    \/ /\ old \subseteq new
       /\ \A m \in new \ old : \A k \in old : k.idx < m.idx
    \/ gone /\ old \cap new = {}

\* Of two transcripts numbered from 0, one that contains the other goes on where
\* it ends.
LEMMA LongerGoesOn ==
    ASSUME NEW old, NEW n \in Nat, Numbered(old, n), NEW new, NEW p \in Nat, Numbered(new, p),
           old \subseteq new
    PROVE  \A m \in new \ old : \A k \in old : k.idx < m.idx
<1> SUFFICES ASSUME NEW m \in new, m \notin old, NEW k \in old
             PROVE  k.idx < m.idx
    OBVIOUS
<1>1. k.idx \in 0 .. n - 1 /\ m.idx \in 0 .. p - 1
    BY DEF Numbered
<1>2. m.idx \notin 0 .. n - 1
    <2> SUFFICES ASSUME m.idx \in 0 .. n - 1 PROVE FALSE
        OBVIOUS
    <2>1. PICK j \in old : j.idx = m.idx
        BY DEF Numbered
    <2>2. j = m
        BY <2>1 DEF Numbered
    <2>3. QED
        BY <2>2
<1>3. QED
    BY <1>1, <1>2

LEMMA StepGrows ==
    IInv /\ IInv' /\ HistoryInv /\ [Next]_vars
      => \A c \in Convs :
            GrowsOrGoes(RowsOf(disk, c), RowsOf(disk', c), c \in deleted' \cup unsure')
<1> SUFFICES ASSUME IInv, IInv', HistoryInv, [Next]_vars, NEW c \in Convs
             PROVE  GrowsOrGoes(RowsOf(disk, c), RowsOf(disk', c), c \in deleted' \cup unsure')
    OBVIOUS
<1>1. Moves
    BY NextMoves
<1>2. PICK old \in {db, disk} : RowsMoved(old, disk')
    BY <1>1, RowsMove
<1> DEFINE before == RowsOf(disk, c)
           after == RowsOf(disk', c)
           gone == c \in deleted' \cup unsure'
<1>3. ASSUME before \subseteq after
      PROVE  GrowsOrGoes(before, after, gone)
    <2>1. Sound(disk) /\ Sound(disk')
        BY Types DEF IInv, ImagesFit, Fits
    <2>2. PICK n \in Nat : Numbered(before, n)
        BY <2>1 DEF Sound
    <2>3. PICK p \in Nat : Numbered(after, p)
        BY <2>1 DEF Sound
    <2> HIDE DEF before, after, gone
    <2>4. \A m \in after \ before : \A k \in before : k.idx < m.idx
        BY <1>3, <2>2, <2>3, LongerGoesOn
    <2>5. QED
        BY <1>3, <2>4 DEF GrowsOrGoes
<1>4. before \subseteq RowsOf(old, c) \/ (RowsOf(old, c) = {} /\ gone)
    BY <1>1, MovesForward DEF HistoryInv, Ahead
<1>5. ASSUME old.rows \subseteq disk'.rows, before \subseteq RowsOf(old, c)
      PROVE  GrowsOrGoes(before, after, gone)
    BY <1>3, <1>5 DEF RowsOf
<1>6. ASSUME gone, \A m \in after : m \notin disk.rows
      PROVE  GrowsOrGoes(before, after, gone)
    BY <1>6 DEF GrowsOrGoes, RowsOf
<1>7. ASSUME disk'.rows = old.rows
      PROVE  GrowsOrGoes(before, after, gone)
    <2>1. after = RowsOf(old, c)
        BY <1>7 DEF RowsOf
    <2>2. CASE RowsOf(old, c) = {} /\ gone
        BY <1>6, <2>1, <2>2
    <2>3. QED
        BY <1>4, <1>5, <1>7, <2>2
<1>8. ASSUME NEW d \in Convs, disk'.rows = old.rows \ RowsOf(old, d), d \in deleted' \cup unsure'
      PROVE  GrowsOrGoes(before, after, gone)
    <2>1. CASE d = c
        BY <1>6, <1>8, <2>1 DEF RowsOf
    <2>2. CASE d # c
        <3>1. after = RowsOf(old, c)
            BY <1>8, <2>2 DEF RowsOf
        <3>2. CASE RowsOf(old, c) = {} /\ gone
            BY <1>6, <3>1, <3>2
        <3>3. QED
            BY <1>3, <1>4, <3>1, <3>2
    <2>3. QED
        BY <2>1, <2>2
<1>9. ASSUME NEW r \in Requests, NEW role, NEW b, RowAdded(old, disk', r, role, b),
             \A m \in disk.rows : m.role = role => m.body.req # r
      PROVE  GrowsOrGoes(before, after, gone)
    <2>1. CASE before \subseteq RowsOf(old, c)
        <3>1. old.rows \subseteq disk'.rows
            BY <1>9 DEF RowAdded
        <3>2. QED
            BY <1>5, <2>1, <3>1
    <2>2. CASE RowsOf(old, c) = {} /\ gone
        <3>1. \A m \in after : m.role = role /\ m.body.req = r
            BY <1>9, <2>2 DEF RowAdded, TurnRow, RowsOf
        <3>2. QED
            BY <1>6, <1>9, <2>2, <3>1
    <2>3. QED
        BY <1>4, <2>1, <2>2
<1>10. ASSUME NEW r \in Requests, Accepts(r)
       PROVE  \A m \in disk.rows : m.body.req # r
    BY <1>10 DEF Accepts, IInv, ImagesFit, Fits, Begun
<1>11. ASSUME NEW r \in Requests, Ends(r)
       PROVE  \A m \in disk.rows : m.role = "assistant" => m.body.req # r
    BY <1>11 DEF Ends, HistoryInv, AnswersClosed, ClosedIn, Active
<1> HIDE DEF before, after, gone
<1>12. GrowsOrGoes(before, after, gone)
    BY <1>2, <1>7, <1>8, <1>9, <1>10, <1>11 DEF RowsMoved
<1>13. QED
    BY <1>12 DEF before, after, gone

\* A transcript in the file only grows at its end, until its owner asks for the
\* conversation to be deleted; then all of it goes, and none of it is in what
\* late answers write anew.
THEOREM TranscriptsAlwaysGrow == Spec => TranscriptsGrow
<1> DEFINE Grows == \A c \in Convs :
              GrowsOrGoes(RowsOf(disk, c), RowsOf(disk', c), c \in deleted' \cup unsure')
<1>1. TranscriptsGrow <=> [][Grows]_vars
    BY DEF TranscriptsGrow, GrowsOrGoes
<1>2. IInv /\ IInv' /\ HistoryInv /\ [Next]_vars => Grows
    BY StepGrows
<1> HIDE DEF Grows
<1>3. QED
    BY <1>1, <1>2, Invariance, HistoryInvariance, PTL DEF Spec

-----------------------------------------------------------------------------
(* The service implements Transcripts: the rows of a conversation, read in  *)
(* the order of their idx, are its log.                                    *)

LEMMA NumberedCount ==
    ASSUME NEW rows, NEW n \in Nat, Numbered(rows, n)
    PROVE  Cardinality(rows) = n
<1> DEFINE f == [i \in 1 .. n |-> CHOOSE m \in rows : m.idx = i - 1]
<1>1. ASSUME NEW i \in 1 .. n
      PROVE  f[i] \in rows /\ f[i].idx = i - 1
    <2>1. i - 1 \in 0 .. n - 1
        OBVIOUS
    <2>2. \E m \in rows : m.idx = i - 1
        BY <2>1 DEF Numbered
    <2>3. f[i] = CHOOSE m \in rows : m.idx = i - 1
        OBVIOUS
    <2>4. QED
        BY <2>2, <2>3
<1>2. f \in [1 .. n -> rows]
    BY <1>1
<1>3. \A i, j \in 1 .. n : f[i] = f[j] => i = j
    <2> SUFFICES ASSUME NEW i \in 1 .. n, NEW j \in 1 .. n, f[i] = f[j]
                 PROVE  i = j
        OBVIOUS
    <2>1. f[i].idx = i - 1 /\ f[j].idx = j - 1
        BY <1>1
    <2> HIDE DEF f
    <2>2. QED
        BY <2>1
<1>4. ASSUME NEW m \in rows
      PROVE  \E i \in 1 .. n : f[i] = m
    <2>1. m.idx \in 0 .. n - 1
        BY DEF Numbered
    <2>2. m.idx + 1 \in 1 .. n /\ (m.idx + 1) - 1 = m.idx
        BY <2>1
    <2>3. f[m.idx + 1] \in rows /\ f[m.idx + 1].idx = m.idx
        BY <1>1, <2>2
    <2> HIDE DEF f
    <2>4. f[m.idx + 1] = m
        BY <2>3 DEF Numbered
    <2>5. QED
        BY <2>2, <2>4
<1> HIDE DEF f
<1>5. f \in Bijection(1 .. n, rows)
    BY <1>2, <1>3, <1>4 DEF Bijection, Injection, Surjection, IsInjective
<1>6. ExistsBijection(1 .. n, rows)
    BY <1>5 DEF ExistsBijection
<1>7. QED
    BY <1>6, FS_CountingElements

\* Its entries are what the rows say, in the order of their idx.
LEMMA LogEntries ==
    ASSUME NEW rows, NEW n \in Nat, Numbered(rows, n)
    PROVE  /\ Log(rows) \in Seq({Said(m) : m \in rows})
           /\ Len(Log(rows)) = n
           /\ \A m \in rows : Log(rows)[m.idx + 1] = Said(m)
           /\ \A i \in 1 .. n : \E m \in rows : m.idx = i - 1 /\ Log(rows)[i] = Said(m)
<1> DEFINE At(i) == CHOOSE m \in rows : m.idx = i - 1
<1>1. Log(rows) = [i \in 1 .. n |-> Said(At(i))]
    BY NumberedCount DEF Log
<1>2. ASSUME NEW i \in 1 .. n
      PROVE  At(i) \in rows /\ At(i).idx = i - 1
    <2>1. i - 1 \in 0 .. n - 1
        OBVIOUS
    <2>2. \E m \in rows : m.idx = i - 1
        BY <2>1 DEF Numbered
    <2>3. QED
        BY <2>2
<1> HIDE DEF At
<1>3. Log(rows) \in [1 .. n -> {Said(m) : m \in rows}]
    BY <1>1, <1>2
<1>4. Log(rows) \in Seq({Said(m) : m \in rows}) /\ Len(Log(rows)) = n
    BY <1>3
<1>5. ASSUME NEW m \in rows
      PROVE  Log(rows)[m.idx + 1] = Said(m)
    <2>1. m.idx \in 0 .. n - 1
        BY DEF Numbered
    <2>2. m.idx + 1 \in 1 .. n /\ (m.idx + 1) - 1 = m.idx
        BY <2>1
    <2>3. At(m.idx + 1) = m
        BY <1>2, <2>2 DEF Numbered
    <2>4. QED
        BY <1>1, <2>2, <2>3
<1>6. \A i \in 1 .. n : \E m \in rows : m.idx = i - 1 /\ Log(rows)[i] = Said(m)
    BY <1>1, <1>2
<1>7. QED
    BY <1>4, <1>5, <1>6

LEMMA NumberedNext ==
    ASSUME NEW rows, NEW n \in Nat, Numbered(rows, n), NEW new, new.idx = n
    PROVE  Numbered(rows \cup {new}, n + 1)
<1>1. \A i \in 0 .. n : i \in 0 .. n - 1 \/ i = n
    OBVIOUS
<1>2. \A m \in rows \cup {new} : m.idx \in 0 .. n
    BY DEF Numbered
<1>3. QED
    BY <1>1, <1>2 DEF Numbered

\* A row numbered by the length of the transcript stands at the end of the log.
LEMMA LogAppend ==
    ASSUME NEW rows, NEW n \in Nat, Numbered(rows, n), NEW new, new.idx = n
    PROVE  Log(rows \cup {new}) = Append(Log(rows), Said(new))
<1> DEFINE more == rows \cup {new}
           S == {Said(m) : m \in more}
           old == Log(rows)
           longer == Log(more)
<1>1. /\ longer \in Seq(S) /\ Len(longer) = n + 1
      /\ \A m \in more : longer[m.idx + 1] = Said(m)
    <2>1. Numbered(more, n + 1) /\ n + 1 \in Nat
        BY NumberedNext
    <2> HIDE DEF more
    <2>2. QED
        BY <2>1, LogEntries
<1>2. old \in Seq(S) /\ Len(old) = n
    <2>1. old \in Seq({Said(m) : m \in rows}) /\ Len(old) = n
        BY LogEntries
    <2>2. {Said(m) : m \in rows} \subseteq S
        OBVIOUS
    <2> HIDE DEF old, S
    <2>3. QED
        BY <2>1, <2>2
<1>3. ASSUME NEW i \in 1 .. n
      PROVE  longer[i] = old[i]
    <2>1. PICK m \in rows : m.idx = i - 1 /\ old[i] = Said(m)
        BY LogEntries
    <2>2. m \in more /\ longer[m.idx + 1] = Said(m)
        BY <1>1
    <2>3. (i - 1) + 1 = i
        OBVIOUS
    <2>4. QED
        BY <2>1, <2>2, <2>3
<1>4. new \in more /\ Said(new) \in S
    OBVIOUS
<1> HIDE DEF S, old, longer, more
<1>5. longer[n + 1] = Said(new)
    BY <1>1, <1>4
<1>6. longer = Append(old, Said(new))
    BY <1>1, <1>2, <1>3, <1>4, <1>5
<1>7. QED
    BY <1>6 DEF old, longer, more

LEMMA LogEmpty == Log({}) = <<>>
<1>1. Numbered({}, 0)
    BY DEF Numbered
<1>2. Log({}) \in Seq({Said(m) : m \in {}}) /\ Len(Log({})) = 0
    BY <1>1, LogEntries
<1>3. QED
    BY <1>2

-----------------------------------------------------------------------------
(* What Transcripts sees of an image. *)

LEMMA ViewParts ==
    ASSUME NEW image
    PROVE  /\ View(image).owner = image.owner
           /\ View(image).log = [c \in Convs |-> Log(RowsOf(image, c))]
           /\ View(image) = [owner |-> View(image).owner, log |-> View(image).log]
BY DEF View

LEMMA ViewLogs ==
    ASSUME NEW image
    PROVE  /\ \A c \in Convs : View(image).log[c] = Log(RowsOf(image, c))
           /\ View(image).log = [c \in Convs |-> View(image).log[c]]
<1>1. PICK f : f = View(image).log
    OBVIOUS
<1>2. f = [c \in Convs |-> Log(RowsOf(image, c))]
    BY <1>1, ViewParts
<1>3. \A c \in Convs : f[c] = Log(RowsOf(image, c))
    BY <1>2
<1>4. f = [c \in Convs |-> f[c]]
    BY <1>2
<1>5. QED
    BY <1>1, <1>3, <1>4

LEMMA ViewRecord ==
    ASSUME NEW image
    PROVE  View(image) = [owner |-> View(image).owner, log |-> View(image).log]
BY DEF View

LEMMA ViewsNext ==
    /\ View(db)' = View(db')
    /\ View(disk)' = View(disk')
BY DEF View, RowsOf, Log, Said

LEMMA ViewFilled ==
    ASSUME NEW old, NEW new, NEW c \in Convs, NEW s, Filled(old, new, c, s)
    PROVE  View(new) = T!Owned(View(old), c, s)
<1>1. /\ new.owner = [old.owner EXCEPT ![c] = IF @ = NoOne THEN s ELSE @]
      /\ new.rows = old.rows
    BY DEF Filled
<1>2. View(new).log = View(old).log
    BY <1>1 DEF View, RowsOf
<1>3. View(new).owner = [View(old).owner EXCEPT ![c] = IF @ = NoOne THEN s ELSE @]
    BY <1>1 DEF View
<1>4. [View(old) EXCEPT !.owner = View(new).owner]
        = [owner |-> View(new).owner, log |-> View(old).log]
    BY ViewRecord
<1>5. T!Owned(View(old), c, s) = [View(old) EXCEPT !.owner = View(new).owner]
    BY <1>3 DEF T!Owned
<1>6. QED
    BY <1>2, <1>4, <1>5, ViewParts

LEMMA ViewSaid ==
    ASSUME IInv, NEW r \in Requests, NEW old, NEW new, Sound(old), NEW role, NEW b, b.req = r,
           OneTurnAdded(old, new, conv[r], by[r], role, b)
    PROVE  View(new) = T!Said(View(old), role, r)
<1>1. conv[r] \in Convs /\ by[r] \in Subjects
    BY Types
<1>2. PICK row : /\ new.rows = old.rows \cup {row}
                 /\ row = TurnRow(old, conv[r], by[r], role, b)
                 /\ row.conv = conv[r] /\ Said(row) = [role |-> role, req |-> r]
    <2>1. PICK row : row = TurnRow(old, conv[r], by[r], role, b)
        OBVIOUS
    <2>2. new.rows = old.rows \cup {row}
        BY <2>1 DEF OneTurnAdded
    <2>3. row.conv = conv[r] /\ row.role = role /\ row.body = b
        BY <2>1 DEF TurnRow
    <2>4. Said(row) = [role |-> role, req |-> r]
        BY <2>3 DEF Said
    <2>5. QED
        BY <2>1, <2>2, <2>3, <2>4
<1>3. PICK n \in Nat : Numbered(RowsOf(old, conv[r]), n)
    BY <1>1 DEF Sound
<1>4. row.idx = n
    BY <1>1, <1>2, <1>3, NewRowLast
<1>5. /\ RowsOf(new, conv[r]) = RowsOf(old, conv[r]) \cup {row}
      /\ \A c \in Convs \ {conv[r]} : RowsOf(new, c) = RowsOf(old, c)
    BY <1>2 DEF RowsOf
<1>6. Log(RowsOf(new, conv[r])) = Append(Log(RowsOf(old, conv[r])), [role |-> role, req |-> r])
    BY <1>2, <1>3, <1>4, <1>5, LogAppend
<1>7. View(new).log = [View(old).log EXCEPT ![conv[r]] = Append(@, [role |-> role, req |-> r])]
    <2>1. View(new).log[conv[r]] = Append(View(old).log[conv[r]], [role |-> role, req |-> r])
        BY <1>1, <1>6, ViewLogs
    <2>2. ASSUME NEW d \in Convs, d # conv[r]
          PROVE  View(new).log[d] = View(old).log[d]
        <3>1. RowsOf(new, d) = RowsOf(old, d)
            BY <1>5, <2>2
        <3>2. View(new).log[d] = Log(RowsOf(new, d)) /\ View(old).log[d] = Log(RowsOf(old, d))
            BY ViewLogs
        <3>3. QED
            BY <3>1, <3>2
    <2>3. PICK f, g : f = View(old).log /\ g = View(new).log
        OBVIOUS
    <2>4. f = [d \in Convs |-> f[d]] /\ g = [d \in Convs |-> g[d]]
        BY <2>3, ViewLogs
    <2>5. \A d \in Convs : [f EXCEPT ![conv[r]] = Append(f[conv[r]], [role |-> role, req |-> r])][d] = g[d]
        BY <1>1, <2>1, <2>2, <2>3, <2>4
    <2>6. g = [f EXCEPT ![conv[r]] = Append(f[conv[r]], [role |-> role, req |-> r])]
        BY <2>4, <2>5
    <2>7. QED
        BY <2>3, <2>6
<1>8. View(new).owner = [View(old).owner EXCEPT ![conv[r]] = IF @ = NoOne THEN by[r] ELSE @]
    BY ViewParts DEF OneTurnAdded
<1> DEFINE owned == T!Owned(View(old), conv[r], by[r])
<1>9. owned = [owner |-> View(new).owner, log |-> View(old).log]
    <2>1. [View(old) EXCEPT !.owner = View(new).owner]
            = [owner |-> View(new).owner, log |-> View(old).log]
        BY ViewRecord
    <2>2. owned = [View(old) EXCEPT !.owner = View(new).owner]
        BY <1>8 DEF T!Owned
    <2>3. QED
        BY <2>1, <2>2
<1>10. T!Said(View(old), role, r)
         = [owned EXCEPT !.log = [owned.log EXCEPT ![conv[r]] = Append(@, [role |-> role, req |-> r])]]
    BY DEF T!Said
<1> HIDE DEF owned
<1>11. owned.log = View(old).log
    BY <1>9
<1>12. T!Said(View(old), role, r) = [owned EXCEPT !.log = View(new).log]
    BY <1>7, <1>10, <1>11
<1>13. T!Said(View(old), role, r) = [owner |-> View(new).owner, log |-> View(new).log]
    BY <1>9, <1>12
<1>14. QED
    BY <1>13, ViewParts

LEMMA ViewEmptied ==
    ASSUME NEW old, NEW new, NEW c \in Convs, Emptied(old, new, c)
    PROVE  View(new) = T!Emptied(View(old), c)
<1>1. new.owner = old.owner /\ new.rows = old.rows \ RowsOf(old, c)
    BY DEF Emptied
<1>2. /\ RowsOf(new, c) = {}
      /\ \A d \in Convs \ {c} : RowsOf(new, d) = RowsOf(old, d)
    BY <1>1 DEF RowsOf
<1>3. View(new).log = [View(old).log EXCEPT ![c] = <<>>]
    <2>1. View(new).log[c] = <<>>
        BY <1>2, LogEmpty, ViewLogs
    <2>2. \A d \in Convs \ {c} : View(new).log[d] = View(old).log[d]
        BY <1>2, ViewLogs
    <2>3. PICK f, g : f = View(old).log /\ g = View(new).log
        OBVIOUS
    <2>4. f = [d \in Convs |-> f[d]] /\ g = [d \in Convs |-> g[d]]
        BY <2>3, ViewLogs
    <2>5. \A d \in Convs : [f EXCEPT ![c] = <<>>][d] = g[d]
        BY <2>1, <2>2, <2>3, <2>4
    <2>6. g = [f EXCEPT ![c] = <<>>]
        BY <2>4, <2>5
    <2>7. QED
        BY <2>3, <2>6
<1>4. [View(old) EXCEPT !.log = View(new).log]
        = [owner |-> View(old).owner, log |-> View(new).log]
    BY ViewRecord
<1>5. T!Emptied(View(old), c) = [View(old) EXCEPT !.log = View(new).log]
    BY <1>3 DEF T!Emptied
<1>6. QED
    BY <1>1, <1>4, <1>5, ViewParts

LEMMA ViewGone ==
    ASSUME NEW old, NEW new, NEW c \in Convs, Removed(old, new, c)
    PROVE  View(new) = T!Gone(View(old), c)
<1>1. new.owner = [old.owner EXCEPT ![c] = NoOne] /\ new.rows = old.rows \ RowsOf(old, c)
    BY DEF Removed
<1>2. /\ RowsOf(new, c) = {}
      /\ \A d \in Convs \ {c} : RowsOf(new, d) = RowsOf(old, d)
    BY <1>1 DEF RowsOf
<1>3. View(new).log = [View(old).log EXCEPT ![c] = <<>>]
    <2>1. View(new).log[c] = <<>>
        BY <1>2, LogEmpty, ViewLogs
    <2>2. \A d \in Convs \ {c} : View(new).log[d] = View(old).log[d]
        BY <1>2, ViewLogs
    <2>3. PICK f, g : f = View(old).log /\ g = View(new).log
        OBVIOUS
    <2>4. f = [d \in Convs |-> f[d]] /\ g = [d \in Convs |-> g[d]]
        BY <2>3, ViewLogs
    <2>5. \A d \in Convs : [f EXCEPT ![c] = <<>>][d] = g[d]
        BY <2>1, <2>2, <2>3, <2>4
    <2>6. g = [f EXCEPT ![c] = <<>>]
        BY <2>4, <2>5
    <2>7. QED
        BY <2>3, <2>6
<1>4. View(new).owner = [View(old).owner EXCEPT ![c] = NoOne]
    BY <1>1, ViewParts
<1> DEFINE cut == T!Emptied(View(old), c)
<1>5. cut = [owner |-> View(old).owner, log |-> View(new).log]
    <2>1. [View(old) EXCEPT !.log = View(new).log]
            = [owner |-> View(old).owner, log |-> View(new).log]
        BY ViewRecord
    <2>2. cut = [View(old) EXCEPT !.log = View(new).log]
        BY <1>3 DEF T!Emptied
    <2>3. QED
        BY <2>1, <2>2
<1>6. T!Gone(View(old), c) = [cut EXCEPT !.owner = [cut.owner EXCEPT ![c] = NoOne]]
    BY DEF T!Gone
<1> HIDE DEF cut
<1>7. cut.owner = View(old).owner
    BY <1>5
<1>8. T!Gone(View(old), c) = [cut EXCEPT !.owner = View(new).owner]
    BY <1>4, <1>6, <1>7
<1>9. T!Gone(View(old), c) = [owner |-> View(new).owner, log |-> View(new).log]
    BY <1>5, <1>8
<1>10. QED
    BY <1>9, ViewParts

StandingMap == [r \in Requests |-> StandingOf(r)]

LEMMA Standings ==
    /\ \A r \in Requests : StandingMap[r] = IF pc[r] = "idle" THEN "new"
                             ELSE IF pc[r] \in Active THEN "asked" ELSE "closed"
    /\ \A r \in Requests : StandingMap'[r] = IF pc'[r] = "idle" THEN "new"
                             ELSE IF pc'[r] \in Active THEN "asked" ELSE "closed"
BY DEF StandingMap, StandingOf

LEMMA StandingsKept ==
    ASSUME \A q \in Requests : /\ pc'[q] = "idle" <=> pc[q] = "idle"
                               /\ pc'[q] \in Active <=> pc[q] \in Active
    PROVE  StandingMap' = StandingMap
<1>1. \A q \in Requests : StandingMap'[q] = StandingMap[q]
    BY Standings
<1>2. QED
    BY <1>1 DEF StandingMap

LEMMA OneStanding ==
    ASSUME NEW r \in Requests, \A q \in Requests \ {r} : pc'[q] = pc[q]
    PROVE  /\ pc'[r] \in Active /\ pc'[r] # "idle"
                => StandingMap' = [StandingMap EXCEPT ![r] = "asked"]
           /\ pc'[r] \notin Active /\ pc'[r] # "idle"
                => /\ StandingMap' = [StandingMap EXCEPT ![r] = "closed"]
                   /\ StandingMap' = [q \in Requests |->
                                        IF q \in {r} THEN "closed" ELSE StandingMap[q]]
<1>1. \A q \in Requests \ {r} : StandingMap'[q] = StandingMap[q]
    BY Standings
<1>2. /\ pc'[r] \in Active /\ pc'[r] # "idle" => StandingMap'[r] = "asked"
      /\ pc'[r] \notin Active /\ pc'[r] # "idle" => StandingMap'[r] = "closed"
    BY Standings
<1>3. QED
    BY <1>1, <1>2 DEF StandingMap


-----------------------------------------------------------------------------
LEMMA TranscriptsInit == Init => T!Init
<1> SUFFICES ASSUME Init PROVE T!Init
    OBVIOUS
<1>1. /\ EmptyDb.owner = [c \in Convs |-> NoOne] /\ \A c \in Convs : RowsOf(EmptyDb, c) = {}
      /\ db = EmptyDb /\ disk = EmptyDb
    BY DEF Init, EmptyDb, RowsOf
<1>2. View(EmptyDb).log = [c \in Convs |-> <<>>]
    BY <1>1, ViewParts, LogEmpty
<1>3. View(EmptyDb) = T!Nothing
    BY <1>1, <1>2, ViewParts DEF T!Nothing
<1>4. \A r \in Requests : StandingMap[r] = "new"
    BY Standings DEF Init, ChatInit
<1>5. StandingMap = [r \in Requests |-> "new"]
    BY <1>4 DEF StandingMap
<1>6. minted = {} /\ conv \in [Requests -> Convs] /\ by \in [Requests -> Subjects]
    BY DEF Init
<1>7. QED
    BY <1>1, <1>3, <1>5, <1>6 DEF T!Init, StandingMap

LEMMA DoneKeeps ==
    ASSUME IInv, NEW r \in Requests, NEW role, NEW b, b.req = r, Done(r, role, b)
    PROVE  T!Keep(T!Said(View(db), role, r))
<1>1. View(db') = T!Said(View(db), role, r)
    BY ViewSaid, Types DEF Done
<1>2. QED
    BY <1>1, ViewsNext DEF Done, T!Keep

LEMMA HalfDoneHalves ==
    ASSUME IInv, NEW r \in Requests, NEW role, NEW b, b.req = r, HalfDone(r, role, b)
    PROVE  T!HalfSaid(role, r)
<1> DEFINE owned == T!Owned(View(db), conv[r], by[r])
           said == T!Said(View(db), role, r)
<1>1. conv[r] \in Convs /\ Sound(db)
    BY Types
<1>2. \A new : Filled(db, new, conv[r], by[r]) => View(new) = owned
    BY <1>1, ViewFilled
<1>3. \A new : OneTurnAdded(db, new, conv[r], by[r], role, b) => View(new) = said
    BY <1>1, ViewSaid
<1>4. T!HalfSaid(role, r) <=>
         \/ \E image \in {View(db), owned} :
               View(disk)' = View(disk) /\ View(db)' \in {image, View(disk)}
         \/ \E image \in {owned, said} : View(disk)' = owned /\ View(db)' \in {image, owned}
    BY DEF T!HalfSaid, T!Leave
<1> HIDE DEF owned, said
<1>5. CASE /\ disk' = disk
           /\ db' = db \/ db' = disk \/ Filled(db, db', conv[r], by[r])
    BY <1>2, <1>4, <1>5, ViewsNext
<1>6. CASE /\ Filled(db, disk', conv[r], by[r])
           /\ db' = disk' \/ OneTurnAdded(db, db', conv[r], by[r], role, b)
    BY <1>2, <1>3, <1>4, <1>6, ViewsNext
<1>7. QED
    BY <1>5, <1>6 DEF HalfDone

\* A handler that accepts a request asks; one that raises fails to.
LEMMA AcceptsRefines ==
    ASSUME IInv, NEW r \in Requests, Accepts(r)
    PROVE  T!Next
<1>1. /\ pc[r] = "idle" /\ UNCHANGED <<minted, conv, by>>
      /\ View(db).owner[conv[r]] = by[r]
    BY ViewParts DEF Accepts, Owns
<1>2. \A q \in Requests \ {r} : pc'[q] = pc[q]
    BY AcceptsBegins
<1>3. StandingMap[r] = "new"
    BY <1>1, Standings
<1>4. Question(r).req = r
    BY DEF Question
<1>5. CASE pc'[r] = "accepted" /\ Done(r, "user", Question(r))
    <2>1. StandingMap' = [StandingMap EXCEPT ![r] = "asked"]
        BY <1>2, <1>5, OneStanding DEF Active
    <2>2. T!Keep(T!Said(View(db), "user", r))
        BY <1>4, <1>5, DoneKeeps
    <2>3. T!Ask(r)
        BY <1>1, <1>3, <2>1, <2>2 DEF T!Ask, StandingMap
    <2>4. QED
        BY <2>3 DEF T!Next
<1>6. CASE pc'[r] = "raised" /\ HalfDone(r, "user", Question(r))
    <2>1. StandingMap' = [StandingMap EXCEPT ![r] = "closed"]
        BY <1>2, <1>6, OneStanding DEF Active
    <2>2. T!HalfSaid("user", r)
        BY <1>4, <1>6, HalfDoneHalves
    <2>3. T!AskFails(r)
        BY <1>1, <1>3, <2>1, <2>2 DEF T!AskFails, StandingMap
    <2>4. QED
        BY <2>3 DEF T!Next
<1>7. QED
    BY <1>5, <1>6, AcceptsBegins

\* A stream that ends replies, fails to, or closes without an answer.
LEMMA EndsRefines ==
    ASSUME IInv, NEW r \in Requests, Ends(r)
    PROVE  T!Next
<1>1. UNCHANGED <<minted, conv, by>> /\ pc[r] \in Active
    BY DEF Ends
<1>2. \A q \in Requests \ {r} : pc'[q] = pc[q]
    BY EndsStays
<1>3. StandingMap[r] = "asked"
    BY <1>1, Standings DEF Active
<1>4. StandingMap' = [StandingMap EXCEPT ![r] = "closed"]
    BY <1>2, EndsStays, OneStanding DEF Active
<1>5. Answer(r).req = r
    BY DEF Answer
<1>6. CASE Done(r, "assistant", Answer(r))
    <2>1. T!Keep(T!Said(View(db), "assistant", r))
        BY <1>5, <1>6, DoneKeeps
    <2>2. T!Reply(r)
        BY <1>1, <1>3, <1>4, <2>1 DEF T!Reply, StandingMap
    <2>3. QED
        BY <2>2 DEF T!Next
<1>7. CASE HalfDone(r, "assistant", Answer(r))
    <2>1. T!HalfSaid("assistant", r)
        BY <1>5, <1>7, HalfDoneHalves
    <2>2. T!ReplyFails(r)
        BY <1>1, <1>3, <1>4, <2>1 DEF T!ReplyFails, StandingMap
    <2>3. QED
        BY <2>2 DEF T!Next
<1>8. CASE UNCHANGED storeVars
    <2>1. View(db)' = View(db) /\ View(disk)' = View(disk)
        BY <1>8, ViewsNext DEF storeVars
    <2>2. T!Abandon(r)
        BY <1>1, <1>3, <1>4, <2>1 DEF T!Abandon, StandingMap
    <2>3. QED
        BY <2>2 DEF T!Next
<1>9. QED
    BY <1>6, <1>7, <1>8 DEF Ends

\* What Transcripts sees is unchanged.
LEMMA SeenStays ==
    ASSUME UNCHANGED <<db, disk, minted, conv, by>>, StandingMap' = StandingMap
    PROVE  UNCHANGED T!vars
<1>1. View(db)' = View(db) /\ View(disk)' = View(disk)
    BY ViewsNext
<1>2. QED
    BY <1>1 DEF T!vars, StandingMap

LEMMA RemovesRefines ==
    ASSUME IInv, NEW c \in Convs, NEW s \in Subjects, Removes(c, s)
    PROVE  [T!Next]_(T!vars)
<1>1. UNCHANGED <<minted, conv, by>>
    BY DEF Removes
<1>2. StandingMap' = StandingMap
    BY StandingsKept DEF Removes
<1>3. CASE UNCHANGED storeVars
    <2>1. UNCHANGED T!vars
        BY <1>1, <1>2, <1>3, SeenStays DEF storeVars
    <2>2. QED
        BY <2>1
<1>4. \A new : /\ Emptied(db, new, c) => View(new) = T!Emptied(View(db), c)
               /\ Removed(db, new, c) => View(new) = T!Gone(View(db), c)
    BY ViewEmptied, ViewGone
<1>5. CASE Owns(db, c, s) /\ disk' = db' /\ Removed(db, db', c)
    <2>1. View(db)' = T!Gone(View(db), c) /\ View(disk)' = T!Gone(View(db), c)
        BY <1>4, <1>5, ViewsNext
    <2>2. T!Remove(c, s)
        BY <1>1, <1>2, <1>5, <2>1, ViewParts DEF T!Remove, T!Keep, Owns, StandingMap
    <2>3. QED
        BY <2>2 DEF T!Next
<1>6. CASE /\ Owns(db, c, s) /\ disk' = disk
           /\ db' = db \/ db' = disk \/ Emptied(db, db', c) \/ Removed(db, db', c)
    <2>1. View(disk)' = View(disk)
        BY <1>6, ViewsNext
    <2>2. View(db)' \in {View(db), View(disk), T!Emptied(View(db), c), T!Gone(View(db), c)}
        BY <1>4, <1>6, ViewsNext
    <2>3. \E image \in {View(db), T!Emptied(View(db), c), T!Gone(View(db), c)} :
             T!Leave(View(disk), image)
        BY <2>1, <2>2 DEF T!Leave
    <2>4. T!RemoveFails(c, s)
        BY <1>1, <1>2, <1>6, <2>3, ViewParts DEF T!RemoveFails, Owns, StandingMap
    <2>5. QED
        BY <2>4 DEF T!Next
<1>7. QED
    BY <1>3, <1>5, <1>6 DEF Removes

LEMMA OpensRefines ==
    ASSUME IInv, NEW c \in Convs, NEW s \in Subjects, Opens(c, s)
    PROVE  T!Next
<1>1. StandingMap' = StandingMap
    BY StandingsKept DEF Opens
<1>2. View(db') = T!Owned(View(db), c, s)
    BY ViewFilled DEF Opens
<1>3. T!Keep(T!Owned(View(db), c, s))
    BY <1>2, ViewsNext DEF Opens, T!Keep
<1>4. T!Open(c, s)
    BY <1>1, <1>3 DEF Opens, T!Open, StandingMap
<1>5. QED
    BY <1>4 DEF T!Next

LEMMA TakesBackRefines ==
    ASSUME IInv, TakesBack
    PROVE  [T!Next]_(T!vars)
<1>1. UNCHANGED <<minted, conv, by>>
    BY DEF TakesBack
<1>2. StandingMap' = StandingMap
    BY StandingsKept DEF TakesBack
<1>3. CASE db' = db
    <2>1. UNCHANGED T!vars
        BY <1>1, <1>2, <1>3, SeenStays DEF TakesBack
    <2>2. QED
        BY <2>1
<1>4. CASE db' = disk
    <2>1. View(db)' = View(disk) /\ View(disk)' = View(disk)
        BY <1>4, ViewsNext DEF TakesBack
    <2>2. T!TakeBack
        BY <1>1, <1>2, <2>1 DEF T!TakeBack, StandingMap
    <2>3. QED
        BY <2>2 DEF T!Next
<1>5. QED
    BY <1>3, <1>4 DEF TakesBack

\* A restart closes all that were asked, and shows what was kept.
LEMMA CrashRefines ==
    ASSUME IInv, Crash
    PROVE  T!Next
<1>1. UNCHANGED <<minted, conv, by>> /\ disk' = disk /\ db' = disk
    BY DEF Crash
<1>2. pc' = [r \in Requests |-> IF pc[r] \in Active THEN "lost" ELSE pc[r]]
    BY DEF Crash
<1>3. \A r \in Requests : StandingMap'[r] =
         IF StandingMap[r] = "asked" THEN "closed" ELSE StandingMap[r]
    BY <1>2, Standings DEF Active
<1>4. StandingMap' =
         [r \in Requests |-> IF StandingMap[r] = "asked" THEN "closed" ELSE StandingMap[r]]
    BY <1>3 DEF StandingMap
<1>5. View(db)' = View(disk) /\ View(disk)' = View(disk)
    BY <1>1, ViewsNext
<1>6. T!Restart
    BY <1>1, <1>4, <1>5 DEF T!Restart, StandingMap
<1>7. QED
    BY <1>6 DEF T!Next

LEMMA StepRefines == IInv /\ [Next]_vars => [T!Next]_(T!vars)
<1> SUFFICES ASSUME IInv, [Next]_vars PROVE [T!Next]_(T!vars)
    OBVIOUS
<1>1. ASSUME NEW r \in Requests, Stream(r)
      PROVE  UNCHANGED T!vars
    <2>1. StandingMap' = StandingMap
        BY <1>1, StreamStays, StandingsKept DEF BegunStays
    <2>2. UNCHANGED <<db, disk, minted, conv, by>>
        BY <1>1, StreamStays
    <2>3. QED
        BY <2>1, <2>2, SeenStays
<1>2. ASSUME UNCHANGED vars
      PROVE  UNCHANGED T!vars
    <2>1. pc' = pc /\ UNCHANGED <<db, disk, minted, conv, by>>
        BY <1>2 DEF vars, chatVars, serverVars, storeVars
    <2>2. StandingMap' = StandingMap
        BY <2>1, StandingsKept
    <2>3. QED
        BY <2>1, <2>2, SeenStays
<1>3. QED
    BY <1>1, <1>2, NextMoves, AcceptsRefines, EndsRefines, RemovesRefines, OpensRefines,
       TakesBackRefines, CrashRefines DEF Moves

\* The chat service, with its sessions, streams, tools, its database and what is
\* pending on its connection, implements what Transcripts promises its users.
THEOREM TranscriptsImplemented == Spec => ImplementsTranscripts
<1>1. Spec => T!Spec
    BY TranscriptsInit, StepRefines, Invariance, PTL DEF Spec, T!Spec
<1>2. QED
    BY <1>1 DEF ImplementsTranscripts
=============================================================================
