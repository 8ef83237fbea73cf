----------------------- MODULE ConversationStoreProofs -----------------------
(***************************************************************************)
(* Proofs about ConversationStore.  Both images are Sound between any two  *)
(* statements, so a crash, an error or a commit at any of them exposes a   *)
(* Sound one; and a saved turn is in both until a delete reaches it.       *)
(***************************************************************************)
EXTENDS ConversationStore, ConversationDbProofs

SavedInBoth ==
    \A b \in Bodies : fate[b] = "saved" =>
        /\ \E m \in disk.rows : m.body = b
        /\ \E m \in conn.rows : m.body = b

IInv ==
    /\ Sound(disk)
    /\ Sound(conn)
    /\ fate \in [Bodies -> Fates]
    /\ PendingExtendsSaved
    /\ SavedInBoth

-----------------------------------------------------------------------------
(* What the statements do to the set of rows. *)

LEMMA InsertConversationRows ==
    ASSUME NEW db \in Db, NEW c, NEW s
    PROVE  InsertConversation(db, c, s).rows = db.rows
BY DEF InsertConversation, Db

LEMMA InsertMessageRows ==
    ASSUME NEW db \in Db, NEW c, NEW role, NEW b
    PROVE  /\ db.rows \subseteq InsertMessage(db, c, role, b).rows
           /\ \E m \in InsertMessage(db, c, role, b).rows : m.body = b
<1> DEFINE m == [conv |-> c, idx |-> NextIdx(db, c), role |-> role, body |-> b]
<1>1. InsertMessage(db, c, role, b).rows = db.rows \cup {m}
    BY DEF InsertMessage, Db
<1>2. m.body = b
    OBVIOUS
<1> HIDE DEF m
<1>3. QED
    BY <1>1, <1>2

LEMMA SetTitleRows ==
    ASSUME NEW db \in Db, NEW c, NEW role
    PROVE  SetTitle(db, c, role).rows = db.rows
BY DEF SetTitle, Db

LEMMA DeletedRows ==
    ASSUME NEW db \in Db, NEW c
    PROVE  /\ DeleteMessages(db, c).rows = db.rows \ RowsOf(db, c)
           /\ Deleted(db, c).rows = db.rows \ RowsOf(db, c)
BY DEF Deleted, DeleteMessages, DeleteConversation, Db

\* The images add_turn passes through.
LEMMA AddTurnImages ==
    ASSUME NEW db, Sound(db), NEW c \in Convs, NEW s \in Subjects,
           NEW role \in Roles, NEW b \in Bodies,
           NEW created, created = InsertConversation(db, c, s),
           NEW inserted, inserted = InsertMessage(created, c, role, b),
           NEW named, named = SetTitle(inserted, c, role)
    PROVE  /\ Sound(created) /\ created.rows = db.rows
           /\ Sound(inserted) /\ db.rows \subseteq inserted.rows
           /\ Sound(named) /\ db.rows \subseteq named.rows
           /\ named = Turned(db, c, s, role, b)
           /\ \E m \in named.rows : m.body = b
<1>1. Sound(created) /\ created.rows = db.rows /\ created.owner[c] # NoOne
    BY InsertConversationSound
<1>2. Sound(inserted)
    BY <1>1, InsertMessageSound
<1>3. Sound(named)
    BY <1>2, SetTitleSound
<1>4. db.rows \subseteq inserted.rows /\ \E m \in inserted.rows : m.body = b
    BY <1>1, InsertMessageRows DEF Sound
<1>5. named.rows = inserted.rows
    BY <1>2, SetTitleRows DEF Sound
<1>6. QED
    BY <1>1, <1>2, <1>3, <1>4, <1>5 DEF Turned

-----------------------------------------------------------------------------
(* The invariant is kept by a commit, by an error and by a crash. *)

\* A commit of an image that has all saved turns.
LEMMA CommitKeeps ==
    ASSUME IInv, NEW db, Sound(db), Commit(db), fate' \in [Bodies -> Fates],
           \A b \in Bodies : fate'[b] = "saved" => \E m \in db.rows : m.body = b
    PROVE  IInv'
BY DEF IInv, Commit, PendingExtendsSaved, SavedInBoth, RowsOf

\* An error that leaves disk and connection at images that only grew, and
\* promises nothing new.
LEMMA RaiseKeeps ==
    ASSUME IInv, NEW saved, NEW reached, Sound(saved), Sound(reached),
           Raise(saved, reached), fate' \in [Bodies -> Fates],
           \A b \in Bodies : fate'[b] = "saved" =>
               /\ \E m \in saved.rows : m.body = b
               /\ \E m \in reached.rows : m.body = b,
           \A c \in Convs :
               RowsOf(reached, c) = {} \/ RowsOf(saved, c) \subseteq RowsOf(reached, c)
    PROVE  IInv'
BY DEF IInv, Raise, PendingExtendsSaved, SavedInBoth

LEMMA InitInv == Init => IInv
<1> SUFFICES ASSUME Init PROVE IInv
    OBVIOUS
<1>1. Sound(disk) /\ Sound(conn)
    BY EmptyDbSound DEF Init
<1>2. fate \in [Bodies -> Fates] /\ \A b \in Bodies : fate[b] # "saved"
    BY DEF Init, Fates
<1>3. PendingExtendsSaved
    BY DEF Init, PendingExtendsSaved
<1>4. QED
    BY <1>1, <1>2, <1>3 DEF IInv, SavedInBoth

LEMMA CreateInv ==
    ASSUME IInv, NEW c \in Convs, Create(c)
    PROVE  IInv'
<1> DEFINE inserted == InsertConversation(conn, c, Creator[c])
<1>1. Creator[c] \in Subjects
    BY CreatorAssumption
<1>2. Sound(inserted) /\ inserted.rows = conn.rows
    BY <1>1, InsertConversationSound DEF IInv
<1>3. \A d \in Convs : RowsOf(inserted, d) = RowsOf(conn, d)
    BY <1>2 DEF RowsOf
<1> HIDE DEF inserted
<1>4. fate' = fate
    BY DEF Create
<1>5. CASE Commit(inserted)
    BY <1>2, <1>4, <1>5, CommitKeeps DEF IInv, SavedInBoth
<1>6. ASSUME NEW db \in {conn, inserted}, Raise(disk, db)
      PROVE  IInv'
    BY <1>2, <1>3, <1>4, <1>6, RaiseKeeps DEF IInv, SavedInBoth, PendingExtendsSaved
<1>7. Commit(inserted) \/ \E db \in {conn, inserted} : Raise(disk, db)
    BY DEF Create, inserted
<1>8. QED
    BY <1>5, <1>6, <1>7

LEMMA AddTurnInv ==
    ASSUME IInv, NEW c \in Convs, NEW role \in Roles, NEW b \in Bodies,
           AddTurn(c, role, b)
    PROVE  IInv'
<1> DEFINE db == Turned(conn, c, Creator[c], role, b)
<1>1. Creator[c] \in Subjects
    BY CreatorAssumption
<1>2. /\ Sound(db)
      /\ conn.rows \subseteq db.rows
      /\ \E m \in db.rows : m.body = b
    BY <1>1, AddTurnImages DEF IInv
<1>3. Commit(db) /\ fate' = [fate EXCEPT ![b] = "saved"]
    BY DEF AddTurn
<1> HIDE DEF db
<1>4. fate' \in [Bodies -> Fates]
    BY <1>3 DEF IInv, Fates
<1>5. ASSUME NEW d \in Bodies, fate'[d] = "saved"
      PROVE  \E m \in db.rows : m.body = d
    <2>1. d = b \/ fate[d] = "saved"
        BY <1>3, <1>5 DEF IInv
    <2>2. QED
        BY <1>2, <2>1 DEF IInv, SavedInBoth
<1>6. QED
    BY <1>2, <1>3, <1>4, <1>5, CommitKeeps

LEMMA AddTurnRaisesInv ==
    ASSUME IInv, NEW c \in Convs, NEW role \in Roles, NEW b \in Bodies,
           AddTurnRaises(c, role, b)
    PROVE  IInv'
<1> DEFINE created  == InsertConversation(conn, c, Creator[c])
           inserted == InsertMessage(created, c, role, b)
           named    == SetTitle(inserted, c, role)
<1>1. Creator[c] \in Subjects
    BY CreatorAssumption
<1>2. /\ Sound(created) /\ created.rows = conn.rows
      /\ Sound(inserted) /\ conn.rows \subseteq inserted.rows
      /\ Sound(named) /\ conn.rows \subseteq named.rows
    BY <1>1, AddTurnImages DEF IInv
<1>3. /\ \/ \E db \in {conn, created} : Raise(disk, db)
         \/ \E db \in {created, inserted, named} : Raise(created, db)
      /\ fate' = [fate EXCEPT ![b] = "raised"]
    BY DEF AddTurnRaises
<1> HIDE DEF created, inserted, named
<1>4. fate' \in [Bodies -> Fates]
    BY <1>3 DEF IInv, Fates
<1>5. \A d \in Bodies : fate'[d] = "saved" => fate[d] = "saved"
    BY <1>3 DEF IInv
<1>6. ASSUME NEW db \in {conn, created}, Raise(disk, db)
      PROVE  IInv'
    <2>1. Sound(db) /\ db.rows = conn.rows
        BY <1>2 DEF IInv
    <2>2. \A d \in Convs : RowsOf(db, d) = {} \/ RowsOf(disk, d) \subseteq RowsOf(db, d)
        BY <2>1 DEF IInv, PendingExtendsSaved, RowsOf
    <2>3. QED
        BY <1>4, <1>5, <1>6, <2>1, <2>2, RaiseKeeps DEF IInv, SavedInBoth
<1>7. ASSUME NEW db \in {created, inserted, named}, Raise(created, db)
      PROVE  IInv'
    <2>1. Sound(db) /\ created.rows \subseteq db.rows
        BY <1>2
    <2>2. \A d \in Convs : RowsOf(created, d) \subseteq RowsOf(db, d)
        BY <2>1 DEF RowsOf
    <2>3. \A d \in Bodies : fate'[d] = "saved" =>
             /\ \E m \in created.rows : m.body = d
             /\ \E m \in db.rows : m.body = d
        BY <1>2, <1>5, <2>1 DEF IInv, SavedInBoth
    <2>4. QED
        BY <1>2, <1>4, <1>7, <2>1, <2>2, <2>3, RaiseKeeps
<1>8. QED
    BY <1>3, <1>6, <1>7

LEMMA DeleteInv ==
    ASSUME IInv, NEW c \in Convs, NEW s \in Subjects, Delete(c, s)
    PROVE  IInv'
<1> DEFINE emptied == DeleteMessages(conn, c)
           gone    == Deleted(conn, c)
<1>1. /\ Sound(emptied) /\ emptied.rows = conn.rows \ RowsOf(conn, c)
      /\ Sound(gone) /\ gone.rows = conn.rows \ RowsOf(conn, c)
    BY DeleteMessagesSound, DeletedSound, DeletedRows DEF IInv, Sound
<1>2. /\ Commit(gone) \/ \E db \in {conn, emptied, gone} : Raise(disk, db)
      /\ Drop(c)
    BY DEF Delete
<1> HIDE DEF emptied, gone
<1>3. fate' \in [Bodies -> Fates]
    BY <1>2 DEF Drop, IInv, Fates
<1>4. ASSUME NEW b \in Bodies, fate'[b] = "saved"
      PROVE  fate[b] = "saved" /\ \E m \in conn.rows \ RowsOf(conn, c) : m.body = b
    <2>1. fate[b] = "saved" /\ ~ \E m \in RowsOf(conn, c) : m.body = b
        BY <1>2, <1>4 DEF Drop
    <2>2. QED
        BY <2>1 DEF IInv, SavedInBoth
<1>5. CASE Commit(gone)
    BY <1>1, <1>3, <1>4, <1>5, CommitKeeps
<1>6. ASSUME NEW db \in {conn, emptied, gone}, Raise(disk, db)
      PROVE  IInv'
    <2>1. Sound(db) /\ conn.rows \ RowsOf(conn, c) \subseteq db.rows
                    /\ (db = conn \/ db.rows = conn.rows \ RowsOf(conn, c))
        BY <1>1 DEF IInv
    <2>2. \A b \in Bodies : fate'[b] = "saved" =>
             /\ \E m \in disk.rows : m.body = b
             /\ \E m \in db.rows : m.body = b
        BY <1>4, <2>1 DEF IInv, SavedInBoth
    <2>3. ASSUME NEW d \in Convs
          PROVE  RowsOf(db, d) = {} \/ RowsOf(disk, d) \subseteq RowsOf(db, d)
        <3>1. CASE db = conn
            BY <3>1 DEF IInv, PendingExtendsSaved
        <3>2. CASE db.rows = conn.rows \ RowsOf(conn, c) /\ d = c
            BY <3>2 DEF RowsOf
        <3>3. CASE db.rows = conn.rows \ RowsOf(conn, c) /\ d # c
            <4>1. RowsOf(db, d) = RowsOf(conn, d)
                BY <3>3 DEF RowsOf
            <4>2. QED
                BY <4>1 DEF IInv, PendingExtendsSaved
        <3>4. QED
            BY <2>1, <3>1, <3>2, <3>3
    <2>4. QED
        BY <1>3, <1>6, <2>1, <2>2, <2>3, RaiseKeeps DEF IInv
<1>7. QED
    BY <1>2, <1>5, <1>6

LEMMA CrashInv == ASSUME IInv, Crash PROVE IInv'
BY DEF IInv, Crash, PendingExtendsSaved, SavedInBoth

LEMMA StepInv == IInv /\ [Next]_vars => IInv'
<1> SUFFICES ASSUME IInv, [Next]_vars PROVE IInv'
    OBVIOUS
<1>1. CASE UNCHANGED vars
    BY <1>1 DEF vars, IInv, PendingExtendsSaved, SavedInBoth
<1>2. CASE Next
    BY <1>2, CreateInv, AddTurnInv, AddTurnRaisesInv, DeleteInv, CrashInv DEF Next
<1>3. QED
    BY <1>1, <1>2

THEOREM Invariance == Spec => []IInv
BY InitInv, StepInv, PTL DEF Spec

-----------------------------------------------------------------------------
\* Every reachable state of the store is well typed.
THEOREM TypeCorrect == Spec => []TypeOK
<1>1. IInv => TypeOK
    BY DEF IInv, Sound, TypeOK
<1>2. QED
    BY <1>1, Invariance, PTL

\* Whatever fails and whenever the process dies, no message is left without its
\* conversation.
THEOREM NoOrphansEver == Spec => []NoOrphans
<1>1. IInv => NoOrphans
    BY DEF IInv, Sound, NoOrphans, Images
<1>2. QED
    BY <1>1, Invariance, PTL

\* Every transcript has one order, without gap or repetition.
THEOREM TranscriptsAlwaysOrdered == Spec => []TranscriptsOrdered
<1>1. ASSUME NEW db, Sound(db), NEW c \in Convs
      PROVE  IsTranscript(RowsOf(db, c))
    <2>1. PICK n \in Nat : Numbered(RowsOf(db, c), n)
        BY <1>1 DEF Sound
    <2>2. ASSUME NEW m \in RowsOf(db, c), NEW i \in 0 .. m.idx
          PROVE  i \in 0 .. n - 1
        BY <2>1 DEF Numbered
    <2>3. QED
        BY <2>1, <2>2 DEF Numbered, IsTranscript
<1>2. IInv => TranscriptsOrdered
    BY <1>1 DEF IInv, TranscriptsOrdered, Images
<1>3. QED
    BY <1>2, Invariance, PTL

\* Pending statements extend the saved transcript or have emptied it.
THEOREM PendingAlwaysExtends == Spec => []PendingExtendsSaved
<1>1. IInv => PendingExtendsSaved
    BY DEF IInv
<1>2. QED
    BY <1>1, Invariance, PTL

\* A turn whose add_turn returned survives later failures and crashes.
THEOREM SavedStaysDurable == Spec => []SavedIsDurable
<1>1. IInv => SavedIsDurable
    BY DEF IInv, SavedInBoth, SavedIsDurable
<1>2. QED
    BY <1>1, Invariance, PTL

-----------------------------------------------------------------------------
(* The owner's list.  The title is set by a statement after the INSERT, and *)
(* by user turns only; what carries SavedIsListed is that either image      *)
(* names the conversation of every user row whose add_turn returned, and    *)
(* that no row holds a turn still to be added, which a later return could   *)
(* turn into a saved one of a conversation nobody named.                    *)

NamedIn(db, f) ==
    \A m \in db.rows :
        /\ f[m.body] # "new"
        /\ m.role = "user" /\ f[m.body] = "saved" => m.conv \in db.titled

ListInv == IInv /\ NamedIn(disk, fate) /\ NamedIn(conn, fate)

\* Fates move on from "new" and become "saved" only by a step of their own, so
\* what an image names it goes on naming.
LEMMA NamedMoves ==
    ASSUME NEW db \in Db, NEW f, NEW g, NamedIn(db, f),
           \A b \in Bodies : g[b] = "new" => f[b] = "new",
           \A b \in Bodies : g[b] = "saved" => f[b] = "saved"
    PROVE  NamedIn(db, g)
BY DEF NamedIn, Db, Row

\* A row with a turn whose add_turn did not return asks for no name.
LEMMA InsertMessageNamed ==
    ASSUME NEW db \in Db, NEW f, NamedIn(db, f), NEW c, NEW role, NEW b,
           f[b] # "new", f[b] # "saved" \/ c \in db.titled
    PROVE  NamedIn(InsertMessage(db, c, role, b), f)
<1> DEFINE m == [conv |-> c, idx |-> NextIdx(db, c), role |-> role, body |-> b]
           new == InsertMessage(db, c, role, b)
<1>1. new.rows = db.rows \cup {m} /\ new.titled = db.titled
    BY DEF InsertMessage, Db
<1>2. m.conv = c /\ m.body = b
    OBVIOUS
<1> HIDE DEF m, new
<1>3. NamedIn(new, f)
    BY <1>1, <1>2 DEF NamedIn
<1>4. QED
    BY <1>3 DEF new

LEMMA InsertConversationNamed ==
    ASSUME NEW db \in Db, NEW f, NamedIn(db, f), NEW c, NEW s
    PROVE  /\ NamedIn(InsertConversation(db, c, s), f)
           /\ InsertConversation(db, c, s).titled = db.titled
BY DEF InsertConversation, NamedIn, Db

LEMMA SetTitleNamed ==
    ASSUME NEW db \in Db, NEW f, NamedIn(db, f), NEW c, NEW role
    PROVE  NamedIn(SetTitle(db, c, role), f)
BY DEF SetTitle, NamedIn, Db

LEMMA DeletedNamed ==
    ASSUME NEW db \in Db, NEW f, NamedIn(db, f), NEW c
    PROVE  /\ NamedIn(DeleteMessages(db, c), f)
           /\ NamedIn(Deleted(db, c), f)
<1>1. /\ DeleteMessages(db, c).rows = db.rows \ RowsOf(db, c)
      /\ DeleteMessages(db, c).titled = db.titled
    BY DEF DeleteMessages, Db
<1>2. /\ Deleted(db, c).rows = db.rows \ RowsOf(db, c)
      /\ Deleted(db, c).titled = db.titled \ {c}
    BY DEF Deleted, DeleteMessages, DeleteConversation, Db
<1>3. QED
    BY <1>1, <1>2 DEF NamedIn, RowsOf

\* A whole add_turn that returns: the row is named if it is a user's.
LEMMA TurnedNamed ==
    ASSUME NEW db, Sound(db), NEW f, NEW g, NamedIn(db, f), NEW c \in Convs,
           NEW s \in Subjects, NEW role \in Roles, NEW b \in Bodies,
           f \in [Bodies -> Fates], f[b] = "new", g = [f EXCEPT ![b] = "saved"]
    PROVE  NamedIn(Turned(db, c, s, role, b), g)
<1> DEFINE created  == InsertConversation(db, c, s)
           m        == [conv |-> c, idx |-> NextIdx(created, c), role |-> role, body |-> b]
           inserted == InsertMessage(created, c, role, b)
           named    == SetTitle(inserted, c, role)
<1>1. /\ created \in Db /\ created.rows = db.rows /\ created.titled = db.titled
      /\ created.owner[c] # NoOne
    BY InsertConversationSound, InsertConversationNamed DEF Sound
<1>2. /\ inserted.rows = created.rows \cup {m}
      /\ inserted.titled = created.titled /\ inserted.owner = created.owner
    BY <1>1 DEF InsertMessage, Db
<1>3. inserted \in Db
    BY <1>1, InsertConversationSound, InsertMessageSound DEF Sound
<1>4. m.conv = c /\ m.role = role /\ m.body = b
    OBVIOUS
<1> HIDE DEF created, m, inserted
<1>5. /\ named.rows = inserted.rows
      /\ inserted.titled \subseteq named.titled
      /\ role = "user" => c \in named.titled
    BY <1>1, <1>2, <1>3 DEF SetTitle, Db
<1> HIDE DEF named
<1>6. ASSUME NEW r \in db.rows
      PROVE  r.body \in Bodies /\ r.body # b
    BY DEF NamedIn, Sound, Db, Row
<1>7. ASSUME NEW r \in named.rows
      PROVE  /\ g[r.body] # "new"
             /\ r.role = "user" /\ g[r.body] = "saved" => r.conv \in named.titled
    <2>1. CASE r \in db.rows
        <3>1. g[r.body] = f[r.body]
            BY <1>6, <2>1
        <3>2. db.titled \subseteq named.titled
            BY <1>1, <1>2, <1>5
        <3>3. QED
            BY <2>1, <3>1, <3>2 DEF NamedIn
    <2>2. CASE r = m
        BY <1>4, <1>5, <2>2 DEF Fates
    <2>3. QED
        BY <1>1, <1>2, <1>5, <2>1, <2>2
<1>8. named = Turned(db, c, s, role, b)
    BY DEF Turned, named, inserted, created
<1>9. QED
    BY <1>7, <1>8 DEF NamedIn

LEMMA InitList == Init => ListInv
<1>1. Init => NamedIn(disk, fate) /\ NamedIn(conn, fate)
    BY DEF Init, EmptyDb, NamedIn
<1>2. QED
    BY <1>1, InitInv DEF ListInv

LEMMA CreateNamed ==
    ASSUME ListInv, NEW c \in Convs, Create(c)
    PROVE  NamedIn(disk, fate)' /\ NamedIn(conn, fate)'
<1> DEFINE inserted == InsertConversation(conn, c, Creator[c])
<1>1. NamedIn(inserted, fate)
    BY InsertConversationNamed DEF ListInv, IInv, Sound
<1>2. disk' \in {disk, inserted} /\ conn' \in {disk, conn, inserted} /\ fate' = fate
    BY DEF Create, Commit, Raise
<1> HIDE DEF inserted
<1>3. QED
    BY <1>1, <1>2 DEF ListInv

LEMMA AddTurnNamed ==
    ASSUME ListInv, NEW c \in Convs, NEW role \in Roles, NEW b \in Bodies,
           AddTurn(c, role, b)
    PROVE  NamedIn(disk, fate)' /\ NamedIn(conn, fate)'
<1>1. /\ Creator[c] \in Subjects /\ Sound(conn) /\ NamedIn(conn, fate)
      /\ fate \in [Bodies -> Fates]
    BY CreatorAssumption DEF ListInv, IInv
<1>2. /\ disk' = Turned(conn, c, Creator[c], role, b) /\ conn' = disk'
      /\ fate[b] = "new" /\ fate' = [fate EXCEPT ![b] = "saved"]
    BY DEF AddTurn, Commit
<1>3. PICK g : g = fate'
    OBVIOUS
<1>4. NamedIn(Turned(conn, c, Creator[c], role, b), g)
    BY <1>1, <1>2, <1>3, TurnedNamed
<1>5. QED
    BY <1>2, <1>3, <1>4

LEMMA AddTurnRaisesNamed ==
    ASSUME ListInv, NEW c \in Convs, NEW role \in Roles, NEW b \in Bodies,
           AddTurnRaises(c, role, b)
    PROVE  NamedIn(disk, fate)' /\ NamedIn(conn, fate)'
<1> DEFINE created  == InsertConversation(conn, c, Creator[c])
           inserted == InsertMessage(created, c, role, b)
           named    == SetTitle(inserted, c, role)
<1>1. PICK g : g = [fate EXCEPT ![b] = "raised"]
    OBVIOUS
<1>2. /\ \A d \in Bodies : g[d] = "new" => fate[d] = "new"
      /\ \A d \in Bodies : g[d] = "saved" => fate[d] = "saved"
      /\ g[b] = "raised"
    BY <1>1 DEF ListInv, IInv
<1>3. Creator[c] \in Subjects /\ Sound(conn) /\ Sound(disk)
    BY CreatorAssumption DEF ListInv, IInv
<1>4. Sound(created) /\ Sound(inserted)
    BY <1>3, AddTurnImages
<1>5. NamedIn(disk, g) /\ NamedIn(conn, g)
    BY <1>2, <1>3, NamedMoves DEF ListInv, Sound
<1>6. NamedIn(created, g)
    BY <1>3, <1>5, InsertConversationNamed DEF Sound
<1>7. /\ disk' \in {disk, created}
      /\ conn' \in {disk, conn, created, inserted, named}
      /\ fate' = g
    BY <1>1 DEF AddTurnRaises, Raise
<1> HIDE DEF created
<1>8. NamedIn(inserted, g)
    BY <1>2, <1>4, <1>6, InsertMessageNamed DEF Sound
<1> HIDE DEF inserted
<1>9. NamedIn(named, g)
    BY <1>4, <1>8, SetTitleNamed DEF Sound
<1> HIDE DEF named
<1>10. QED
    BY <1>5, <1>6, <1>7, <1>8, <1>9

LEMMA DeleteNamed ==
    ASSUME ListInv, NEW c \in Convs, NEW s \in Subjects, Delete(c, s)
    PROVE  NamedIn(disk, fate)' /\ NamedIn(conn, fate)'
<1> DEFINE emptied == DeleteMessages(conn, c)
           gone    == Deleted(conn, c)
<1>1. PICK g : g = fate'
    OBVIOUS
<1>2. /\ \A d \in Bodies : g[d] = "new" => fate[d] = "new"
      /\ \A d \in Bodies : g[d] = "saved" => fate[d] = "saved"
    BY <1>1 DEF Delete, Drop
<1>3. NamedIn(disk, g) /\ NamedIn(conn, g)
    BY <1>2, NamedMoves DEF ListInv, IInv, Sound
<1>4. NamedIn(emptied, g) /\ NamedIn(gone, g)
    BY <1>3, DeletedNamed DEF ListInv, IInv, Sound
<1>5. disk' \in {disk, gone} /\ conn' \in {disk, conn, emptied, gone}
    BY DEF Delete, Commit, Raise
<1> HIDE DEF emptied, gone
<1>6. QED
    BY <1>1, <1>3, <1>4, <1>5

LEMMA StepList == ListInv /\ [Next]_vars => ListInv'
<1> SUFFICES ASSUME ListInv, [Next]_vars PROVE ListInv'
    OBVIOUS
<1>1. IInv'
    BY StepInv DEF ListInv
<1>2. CASE UNCHANGED vars \/ Crash
    BY <1>1, <1>2 DEF ListInv, vars, Crash
<1>3. CASE Next
    BY <1>1, <1>2, <1>3, CreateNamed, AddTurnNamed, AddTurnRaisesNamed, DeleteNamed
       DEF Next, ListInv
<1>4. QED
    BY <1>2, <1>3

\* A question whose add_turn returned is under a conversation its owner's list
\* shows, whatever failed before it or after it.
THEOREM SavedAlwaysListed == Spec => []SavedIsListed
<1>1. ListInv => SavedIsListed
    <2> SUFFICES ASSUME ListInv, NEW m \in disk.rows,
                        m.role = "user", fate[m.body] = "saved"
                 PROVE  m.conv \in Listed(disk, disk.owner[m.conv])
        BY DEF SavedIsListed
    <2>1. m.conv \in Convs
        BY DEF ListInv, IInv, Sound, Db, Row
    <2>2. m.conv \in disk.titled
        BY DEF ListInv, NamedIn
    <2>3. QED
        BY <2>1, <2>2 DEF Listed, Owns
<1>2. QED
    BY <1>1, InitList, StepList, PTL DEF Spec
=============================================================================
