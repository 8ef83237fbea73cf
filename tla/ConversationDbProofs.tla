------------------------ MODULE ConversationDbProofs ------------------------
(***************************************************************************)
(* What every SQL statement of the conversation store preserves.  The      *)
(* facts are about database images alone, so they serve both               *)
(* ConversationStore, statement by statement, and WebChat, call by call.   *)
(***************************************************************************)
EXTENDS ConversationDb, TLAPS

\* A transcript whose idx are 0 .. n-1, each once.
Numbered(rows, n) ==
    /\ \A m \in rows : m.idx \in 0 .. n - 1
    /\ \A i \in 0 .. n - 1 : \E m \in rows : m.idx = i
    /\ \A m1, m2 \in rows : m1.idx = m2.idx => m1 = m2

\* What holds of an image between any two statements.
Sound(db) ==
    /\ db \in Db
    /\ \A m \in db.rows : db.owner[m.conv] # NoOne
    /\ \A c \in Convs : \E n \in Nat : Numbered(RowsOf(db, c), n)

\* The new idx is the length of the transcript, although the code computes it
\* as one more than the greatest idx.
LEMMA NextIdxIsLength ==
    ASSUME NEW db, NEW c, NEW n \in Nat, Numbered(RowsOf(db, c), n)
    PROVE  NextIdx(db, c) = n
<1>1. CASE n = 0
    <2>1. RowsOf(db, c) = {}
        BY <1>1 DEF Numbered
    <2>2. QED
        BY <1>1, <2>1 DEF NextIdx
<1>2. CASE n > 0
    <2> DEFINE S == {m.idx : m \in RowsOf(db, c)}
               IsLast(k) == \A m \in RowsOf(db, c) : m.idx <= k
               last == CHOOSE k \in S : IsLast(k)
    <2>1. n - 1 \in S /\ IsLast(n - 1)
        BY <1>2 DEF Numbered
    <2>2. ASSUME NEW k \in S, IsLast(k)
          PROVE  k = n - 1
        BY <2>1, <2>2 DEF Numbered
    <2>3. last = n - 1
        BY <2>1, <2>2
    <2>4. RowsOf(db, c) # {}
        BY <2>1
    <2>5. NextIdx(db, c) = 1 + last
        BY <2>4, Zenon DEF NextIdx
    <2> HIDE DEF last
    <2>6. QED
        BY <2>3, <2>5, <1>2
<1>3. QED
    BY <1>1, <1>2

LEMMA EmptyDbSound == Sound(EmptyDb)
<1>1. EmptyDb \in Db
    BY DEF EmptyDb, Db
<1>2. \A c \in Convs : Numbered(RowsOf(EmptyDb, c), 0)
    BY DEF EmptyDb, RowsOf, Numbered
<1>3. QED
    BY <1>1, <1>2 DEF Sound, EmptyDb

LEMMA InsertConversationSound ==
    ASSUME NEW db, Sound(db), NEW c \in Convs, NEW s \in Subjects
    PROVE  /\ Sound(InsertConversation(db, c, s))
           /\ InsertConversation(db, c, s).owner[c] # NoOne
           /\ InsertConversation(db, c, s).rows = db.rows
<1> DEFINE new == InsertConversation(db, c, s)
<1>1. /\ new \in Db
      /\ new.rows = db.rows
      /\ \A d \in Convs : db.owner[d] # NoOne => new.owner[d] # NoOne
      /\ new.owner[c] # NoOne
    BY NoOneIsNoSubject DEF InsertConversation, Sound, Db
<1>2. \A m \in new.rows : new.owner[m.conv] # NoOne
    BY <1>1 DEF Sound, Db, Row
<1>3. \A d \in Convs : RowsOf(new, d) = RowsOf(db, d)
    BY <1>1 DEF RowsOf
<1>4. QED
    BY <1>1, <1>2, <1>3 DEF Sound

LEMMA InsertMessageSound ==
    ASSUME NEW db, Sound(db), NEW c \in Convs, db.owner[c] # NoOne,
           NEW role \in Roles, NEW b \in Bodies
    PROVE  /\ Sound(InsertMessage(db, c, role, b))
           /\ InsertMessage(db, c, role, b).owner = db.owner
<1> DEFINE new == InsertMessage(db, c, role, b)
<1>1. PICK n \in Nat : Numbered(RowsOf(db, c), n)
    BY DEF Sound
<1> DEFINE m == [conv |-> c, idx |-> n, role |-> role, body |-> b]
<1>2. /\ new.owner = db.owner
      /\ new.titled = db.titled
      /\ new.rows = db.rows \cup {m}
      /\ new \in Db
    BY <1>1, NextIdxIsLength DEF InsertMessage, Sound, Db, Row
<1>3. \A k \in new.rows : new.owner[k.conv] # NoOne
    BY <1>2 DEF Sound
<1>4. Numbered(RowsOf(new, c), n + 1)
    <2>1. RowsOf(new, c) = RowsOf(db, c) \cup {m}
        BY <1>2 DEF RowsOf
    <2>2. \A i \in 0 .. n : i \in 0 .. n - 1 \/ i = n
        OBVIOUS
    <2>3. m.idx = n
        OBVIOUS
    <2> HIDE DEF m
    <2>4. QED
        BY <1>1, <2>1, <2>2, <2>3 DEF Numbered
<1>5. ASSUME NEW d \in Convs, d # c
      PROVE  RowsOf(new, d) = RowsOf(db, d)
    BY <1>2, <1>5 DEF RowsOf
<1>6. \A d \in Convs : \E k \in Nat : Numbered(RowsOf(new, d), k)
    <2>1. TAKE d \in Convs
    <2>2. CASE d = c
        BY <1>4, <2>2
    <2>3. CASE d # c
        BY <1>5, <2>3 DEF Sound
    <2>4. QED
        BY <2>2, <2>3
<1>7. QED
    BY <1>2, <1>3, <1>6 DEF Sound

LEMMA SetTitleSound ==
    ASSUME NEW db, Sound(db), NEW c \in Convs, NEW role
    PROVE  /\ Sound(SetTitle(db, c, role))
           /\ SetTitle(db, c, role).owner = db.owner
           /\ SetTitle(db, c, role).rows = db.rows
<1> DEFINE new == SetTitle(db, c, role)
<1>1. new \in Db /\ new.owner = db.owner /\ new.rows = db.rows
    BY DEF SetTitle, Sound, Db
<1>2. QED
    BY <1>1 DEF Sound, RowsOf

LEMMA DeleteMessagesSound ==
    ASSUME NEW db, Sound(db), NEW c \in Convs
    PROVE  /\ Sound(DeleteMessages(db, c))
           /\ RowsOf(DeleteMessages(db, c), c) = {}
<1> DEFINE new == DeleteMessages(db, c)
<1>1. /\ new \in Db
      /\ new.owner = db.owner
      /\ new.rows = db.rows \ RowsOf(db, c)
    BY DEF DeleteMessages, Sound, Db
<1>2. RowsOf(new, c) = {}
    BY <1>1 DEF RowsOf
<1>3. Numbered(RowsOf(new, c), 0)
    BY <1>2 DEF Numbered
<1>4. ASSUME NEW d \in Convs, d # c
      PROVE  RowsOf(new, d) = RowsOf(db, d)
    BY <1>1, <1>4 DEF RowsOf
<1>5. \A d \in Convs : \E k \in Nat : Numbered(RowsOf(new, d), k)
    <2>1. TAKE d \in Convs
    <2>2. CASE d = c
        BY <1>3, <2>2
    <2>3. CASE d # c
        BY <1>4, <2>3 DEF Sound
    <2>4. QED
        BY <2>2, <2>3
<1>6. QED
    BY <1>1, <1>2, <1>5 DEF Sound

LEMMA DeleteConversationSound ==
    ASSUME NEW db, Sound(db), NEW c \in Convs, RowsOf(db, c) = {}
    PROVE  Sound(DeleteConversation(db, c))
<1> DEFINE new == DeleteConversation(db, c)
<1>1. /\ new \in Db
      /\ new.rows = db.rows
      /\ \A d \in Convs : d # c => new.owner[d] = db.owner[d]
    BY DEF DeleteConversation, Sound, Db
<1>2. \A m \in new.rows : m.conv \in Convs /\ m.conv # c
    BY <1>1 DEF RowsOf, Sound, Db, Row
<1>3. QED
    BY <1>1, <1>2 DEF Sound, RowsOf

\* A whole add_turn.
LEMMA TurnedSound ==
    ASSUME NEW db, Sound(db), NEW c \in Convs, NEW s \in Subjects,
           NEW role \in Roles, NEW b \in Bodies
    PROVE  Sound(Turned(db, c, s, role, b))
<1> DEFINE created  == InsertConversation(db, c, s)
           inserted == InsertMessage(created, c, role, b)
<1>1. Sound(created) /\ created.owner[c] # NoOne
    BY InsertConversationSound
<1> HIDE DEF created
<1>2. Sound(inserted)
    BY <1>1, InsertMessageSound
<1> HIDE DEF inserted
<1>3. Sound(SetTitle(inserted, c, role))
    BY <1>2, SetTitleSound
<1>4. QED
    BY <1>3 DEF Turned, created, inserted

\* A whole delete.
LEMMA DeletedSound ==
    ASSUME NEW db, Sound(db), NEW c \in Convs
    PROVE  Sound(Deleted(db, c))
<1>1. Sound(DeleteMessages(db, c)) /\ RowsOf(DeleteMessages(db, c), c) = {}
    BY DeleteMessagesSound
<1>2. QED
    BY <1>1, DeleteConversationSound DEF Deleted
=============================================================================
