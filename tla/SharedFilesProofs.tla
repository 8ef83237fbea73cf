------------------------- MODULE SharedFilesProofs -------------------------
(***************************************************************************)
(* Theorems about the components of SharedFiles that keep files of their   *)
(* own, for every number of files, chunks, builders, processes, globs,     *)
(* runs and changes.                                                       *)
(*                                                                         *)
(* Case dataset.  Builders unlink, create and open one path as they        *)
(* please, so two may have one file open.  A CREATE of executescript       *)
(* succeeds only where no one has made the table before, so who makes the  *)
(* first table of a file makes all of them, and only he comes to insert:   *)
(* OneMaker.  Once a file has data, who filled it has closed it, and no    *)
(* one else gets beyond his first CREATE: FilledIsDone.                    *)
(*                                                                         *)
(* Documents.  A directory that changes between two globs: what the globs  *)
(* so far found holds the documents these globs allow that were there      *)
(* all the while, and nothing that was never there: RequestOK.  What       *)
(* lru_cache keeps is behind by what came or went since the process        *)
(* started, and by nothing else: CacheOK.                                  *)
(*                                                                         *)
(* Indexer.  A run loads each file once, so the chunks of a file stand     *)
(* together in what it collects (Collection, StandsBehind), and while no   *)
(* file changed they are those of the file: CollectionIsCorpus.  Chunks of *)
(* one id are of one file, and an upsert by id keeps the last of them.     *)
(*                                                                         *)
(* Loaders.  A window begins where the last chunk ends, but for blank      *)
(* pieces, whichever of them emits it: ReadingOK.  In a message thread the *)
(* piece that opened the conversation being read is at or before the       *)
(* window and after every chunk not of it, so a number given twice is one  *)
(* of another conversation's: TalkOK.  That windows are tight follows the  *)
(* window from piece to piece: it is within its limits, it does not fit    *)
(* the chunk before it, what the loader counts of it is its size, and a    *)
(* paragraph being split is a long one: TightAt.                           *)
(*                                                                         *)
(* The four are proved of their own specifications, and the composition    *)
(* is shown to implement each, and that of Revocation (RevocationProofs).  *)
(***************************************************************************)
EXTENDS SharedFiles, Sequences, FiniteSetTheorems, WellFoundedInduction, TLAPS

-----------------------------------------------------------------------------
(* The case dataset. *)

\* How far a builder is.
BuilderOK(b) ==
    /\ pc[b] = "script" => mine[b] < Tables
    /\ pc[b] \in {"insert", "commit"} => mine[b] = Tables
    /\ inode[b] = D!NoFile => mine[b] = 0
    /\ inode[b] # D!NoFile => mine[b] <= files[inode[b]].tables

\* Of the builders that have a file open one at most has made tables of it: who
\* finds it without tables makes the first, and the others fail.
OneMaker ==
    \A a, b \in Builders :
        a # b /\ inode[a] # D!NoFile /\ inode[a] = inode[b] => mine[a] = 0 \/ mine[b] = 0

\* A file with data has all its tables, and no one who fills it.
FilledIsDone ==
    \A i \in D!Inodes :
        files[i].data # Nothing =>
            files[i].tables = Tables /\ \A b \in Builders : inode[b] = i => mine[b] = 0

NewIsBlank == \A i \in D!Inodes : i > made => files[i] = D!Blank

DatasetInv ==
    /\ D!TypeOK
    /\ service # "starting" => pc[entry] = "off"
    /\ \A b \in Builders : BuilderOK(b)
    /\ OneMaker /\ FilledIsDone /\ NewIsBlank
    /\ D!NamesMatchFile

\* What the invariant says of builders and files.
FillsOK ==
    /\ \A b \in Builders : BuilderOK(b)
    /\ OneMaker /\ FilledIsDone /\ NewIsBlank

LEMMA InitDataset == ASSUME D!DatasetAssumption, D!Init PROVE DatasetInv
<1>1. D!TypeOK
    BY DEF D!DatasetAssumption, D!Init, D!TypeOK, D!Places, D!Inodes, D!Blank, D!NoFile, D!Closed, D!NoMaps
<1>2. FillsOK /\ D!NamesMatchFile
    BY DEF D!DatasetAssumption, D!Init, FillsOK, BuilderOK, OneMaker, FilledIsDone, NewIsBlank,
           D!Inodes, D!Blank, D!NoFile, D!NamesMatchFile, D!NoMaps
<1>3. QED
    BY <1>1, <1>2 DEF D!DatasetAssumption, D!Init, FillsOK, DatasetInv

\* A step that leaves the builders' files alone, and moves them where they have none.
LEMMA SameFills ==
    ASSUME D!TypeOK, FillsOK, UNCHANGED <<files, made, inode, mine>>,
           \A b \in Builders : pc'[b] # pc[b] =>
               /\ pc'[b] = "script" => mine[b] < Tables
               /\ pc'[b] \in {"insert", "commit"} => mine[b] = Tables
    PROVE  FillsOK'
<1>1. \A b \in Builders : BuilderOK(b)'
    BY DEF FillsOK, BuilderOK
<1>2. OneMaker' /\ FilledIsDone' /\ NewIsBlank'
    BY DEF FillsOK, OneMaker, FilledIsDone, NewIsBlank
<1>3. QED
    BY <1>1, <1>2 DEF FillsOK

\* The names of a process stand while its file does.
LEMMA SameNames ==
    ASSUME D!NamesMatchFile, UNCHANGED <<conn, names>>,
           \A p \in Processes : conn[p] # D!NoFile /\ files[conn[p]].data # Nothing =>
               files'[conn[p]].data = files[conn[p]].data
    PROVE  D!NamesMatchFile'
BY DEF D!NamesMatchFile

LEMMA EndFills ==
    ASSUME D!DatasetAssumption, D!TypeOK, FillsOK, NEW b \in Builders, D!End(b),
           UNCHANGED <<files, made>>
    PROVE  FillsOK'
<1>1. /\ pc'[b] = "off" /\ inode'[b] = D!NoFile /\ mine'[b] = 0
      /\ \A a \in Builders \ {b} :
            pc'[a] = pc[a] /\ inode'[a] = inode[a] /\ mine'[a] = mine[a]
    BY DEF D!TypeOK, D!End
<1>2. \A a \in Builders : BuilderOK(a)'
    BY <1>1 DEF FillsOK, BuilderOK
<1>3. OneMaker'
    BY <1>1 DEF FillsOK, OneMaker
<1>4. FilledIsDone' /\ NewIsBlank'
    BY <1>1 DEF FillsOK, FilledIsDone, NewIsBlank, D!Inodes, D!NoFile
<1>5. QED
    BY <1>2, <1>3, <1>4 DEF FillsOK

LEMMA EndTypes ==
    ASSUME D!DatasetAssumption, D!TypeOK, NEW b \in Builders, D!End(b)
    PROVE  /\ pc' \in [Builders -> D!Places] /\ inode' \in [Builders -> 0 .. made]
           /\ mine' \in [Builders -> 0 .. Tables]
           /\ rows' \in [Builders -> Versions \cup {Nothing}]
           /\ \A a \in Builders : inode'[a] # D!NoFile <=> pc'[a] \in {"script", "insert", "commit"}
           /\ \A a \in Builders \ {b} : pc'[a] = pc[a]
           /\ pc'[b] = "off"
<1>1. made \in Nat /\ Tables \in Nat
    BY DEF D!DatasetAssumption, D!TypeOK
<1>2. QED
    BY <1>1 DEF D!TypeOK, D!End, D!NoFile, D!Places

LEMMA FailDataset ==
    ASSUME D!DatasetAssumption, DatasetInv, NEW b \in Builders, D!Fail(b)
    PROVE  DatasetInv'
<1>1. D!TypeOK /\ FillsOK /\ D!NamesMatchFile
    BY DEF DatasetInv, FillsOK
<1>2. D!End(b) /\ UNCHANGED <<truth, path, files, made, D!readerVars>>
    BY DEF D!Fail
<1>3. D!TypeOK'
    BY <1>1, <1>2, EndTypes DEF D!TypeOK, D!readerVars
<1>4. FillsOK' /\ D!NamesMatchFile'
    BY <1>1, <1>2, EndFills, SameNames DEF D!readerVars
<1>5. (service # "starting" => pc[entry] = "off")'
    BY <1>1, <1>2, EndTypes DEF DatasetInv, D!readerVars, D!DatasetAssumption
<1>6. QED
    BY <1>3, <1>4, <1>5 DEF DatasetInv, FillsOK

\* A builder goes to a place where, as before, it has no file.
LEMMA GotoDataset ==
    ASSUME D!DatasetAssumption, DatasetInv, NEW b \in Builders, NEW place, D!Goto(b, place),
           pc[b] \in {"off", "exists", "unlink"}, place \in {"exists", "unlink", "connect"},
           path' \in {path, D!NoFile}, UNCHANGED <<files, made, inode, mine, rows, conn, names>>,
           truth' = truth, service' \in {service, "starting"},
           service' # "starting" => b # entry /\ service' = service,
           service' # "up" => service # "up"
    PROVE  DatasetInv'
<1>1. D!TypeOK /\ FillsOK /\ D!NamesMatchFile
    BY DEF DatasetInv, FillsOK
<1>2. /\ pc' \in [Builders -> D!Places] /\ pc'[b] = place
      /\ \A a \in Builders \ {b} : pc'[a] = pc[a]
    BY <1>1 DEF D!TypeOK, D!Goto, D!Places
<1>3. D!TypeOK'
    <2>1. \A a \in Builders : inode'[a] # D!NoFile <=> pc'[a] \in {"script", "insert", "commit"}
        BY <1>1, <1>2 DEF D!TypeOK
    <2>2. path' \in 0 .. made'
        BY <1>1 DEF D!TypeOK, D!NoFile
    <2>3. QED
        BY <1>1, <1>2, <2>1, <2>2 DEF D!TypeOK
<1>4. FillsOK'
    BY <1>1, <1>2, SameFills
<1>5. D!NamesMatchFile'
    BY <1>1, SameNames
<1>6. (service # "starting" => pc[entry] = "off")'
    BY <1>2 DEF DatasetInv, D!DatasetAssumption
<1>7. QED
    BY <1>3, <1>4, <1>5, <1>6 DEF DatasetInv, FillsOK

LEMMA LooksDataset ==
    ASSUME D!DatasetAssumption, DatasetInv, NEW b \in Builders, D!Build(b) \/ D!Exists(b) \/ D!Unlink(b)
    PROVE  DatasetInv'
<1>1. pc[b] # "off" => service = "starting" \/ b # entry
    BY DEF DatasetInv
<1>2. CASE D!Build(b)
    <2>1. D!Goto(b, "exists") /\ pc[b] = "off" /\ b # entry
        BY <1>2 DEF D!Build
    <2>2. QED
        BY <1>2, <2>1, GotoDataset DEF D!Build, D!readerVars
<1>3. CASE D!Exists(b)
    <2>1. PICK place \in {"unlink", "connect"} : D!Goto(b, place)
        BY <1>3 DEF D!Exists
    <2>2. QED
        BY <1>1, <1>3, <2>1, GotoDataset DEF D!Exists, D!readerVars
<1>4. CASE D!Unlink(b)
    <2>1. D!Goto(b, "connect") /\ pc[b] = "unlink" /\ path' = D!NoFile
        BY <1>4 DEF D!Unlink
    <2>2. QED
        BY <1>1, <1>4, <2>1, GotoDataset DEF D!Unlink, D!readerVars
<1>5. QED
    BY <1>2, <1>3, <1>4

LEMMA StartDataset == ASSUME D!DatasetAssumption, DatasetInv, D!Start PROVE DatasetInv'
<1>1. service = "down" /\ service' = "starting" /\ pc[entry] = "off" /\ entry \in Builders
    BY DEF DatasetInv, D!Start, D!DatasetAssumption
<1>2. CASE D!Goto(entry, "exists")
    BY <1>1, <1>2, GotoDataset DEF D!Start
<1>3. CASE pc' = pc
    <2>1. D!TypeOK /\ FillsOK /\ D!NamesMatchFile
        BY DEF DatasetInv, FillsOK
    <2>2. D!TypeOK'
        BY <1>1, <1>3, <2>1 DEF D!TypeOK, D!Start
    <2>3. FillsOK' /\ D!NamesMatchFile'
        BY <1>3, <2>1, SameFills, SameNames DEF D!Start
    <2>4. QED
        BY <1>1, <2>2, <2>3 DEF DatasetInv, FillsOK
<1>4. QED
    BY <1>2, <1>3 DEF D!Start

LEMMA ConnectDataset ==
    ASSUME D!DatasetAssumption, DatasetInv, NEW b \in Builders, D!Connect(b)
    PROVE  DatasetInv'
<1>1. D!TypeOK /\ FillsOK /\ D!NamesMatchFile
    BY DEF DatasetInv, FillsOK
<1>2. /\ made \in Nat /\ made' \in Nat /\ made <= made' /\ made' <= MaxFiles
      /\ path' \in 1 .. made' /\ MaxFiles \in Nat
    BY <1>1 DEF D!DatasetAssumption, D!TypeOK, D!Connect, D!NoFile
<1>3. /\ pc[b] = "connect" /\ inode[b] = D!NoFile /\ mine[b] = 0
      /\ inode' = [inode EXCEPT ![b] = path'] /\ pc' = [pc EXCEPT ![b] = "script"]
      /\ UNCHANGED <<truth, files, mine, rows, D!readerVars>>
    BY <1>1 DEF D!TypeOK, FillsOK, BuilderOK, D!Connect, D!Goto
<1>4. /\ pc' \in [Builders -> D!Places] /\ pc'[b] = "script"
      /\ \A a \in Builders \ {b} : pc'[a] = pc[a]
    BY <1>1, <1>3 DEF D!TypeOK, D!Places
<1>5. /\ inode' \in [Builders -> 0 .. made'] /\ inode'[b] = path'
      /\ \A a \in Builders \ {b} : inode'[a] = inode[a]
    BY <1>1, <1>2, <1>3 DEF D!TypeOK
<1>6. D!TypeOK'
    <2>1. \A a \in Builders : inode'[a] # D!NoFile <=> pc'[a] \in {"script", "insert", "commit"}
        BY <1>1, <1>2, <1>4, <1>5 DEF D!TypeOK, D!NoFile
    <2>2. conn' \in [Processes -> 0 .. made'] /\ made' \in 0 .. MaxFiles /\ path' \in 0 .. made'
        BY <1>1, <1>2, <1>3 DEF D!TypeOK, D!readerVars
    <2>3. QED
        BY <1>1, <1>3, <1>4, <1>5, <2>1, <2>2 DEF D!TypeOK, D!readerVars
<1>7. FillsOK'
    <2>1. \A a \in Builders : BuilderOK(a)'
        <3>1. \A a \in Builders \ {b} : BuilderOK(a)'
            BY <1>1, <1>3, <1>4, <1>5 DEF FillsOK, BuilderOK
        <3>2. BuilderOK(b)'
            <4>1. Tables > 0 /\ files[path'].tables >= 0
                BY <1>1, <1>2 DEF D!TypeOK, D!DatasetAssumption, D!Inodes
            <4>2. QED
                BY <1>2, <1>3, <1>4, <1>5, <4>1 DEF BuilderOK, D!NoFile
        <3>3. QED
            BY <3>1, <3>2
    <2>2. OneMaker'
        BY <1>1, <1>3, <1>5 DEF FillsOK, OneMaker
    <2>3. FilledIsDone'
        BY <1>1, <1>3, <1>5 DEF FillsOK, FilledIsDone
    <2>4. NewIsBlank'
        BY <1>1, <1>2, <1>3 DEF FillsOK, NewIsBlank, D!Inodes
    <2>5. QED
        BY <2>1, <2>2, <2>3, <2>4 DEF FillsOK
<1>8. D!NamesMatchFile'
    BY <1>1, <1>3, SameNames DEF D!readerVars
<1>9. (service # "starting" => pc[entry] = "off")'
    BY <1>3, <1>4 DEF DatasetInv, D!DatasetAssumption, D!readerVars
<1>10. QED
    BY <1>6, <1>7, <1>8, <1>9 DEF DatasetInv, FillsOK

LEMMA ScriptDataset ==
    ASSUME D!DatasetAssumption, DatasetInv, NEW b \in Builders, D!Script(b)
    PROVE  DatasetInv'
<1> DEFINE i == inode[b]
<1>1. D!TypeOK /\ FillsOK /\ D!NamesMatchFile
    BY DEF DatasetInv, FillsOK
<1>2. Tables \in Nat /\ made \in Nat /\ made <= MaxFiles /\ MaxFiles \in Nat
    BY <1>1 DEF D!DatasetAssumption, D!TypeOK
<1>3. /\ pc[b] = "script" /\ mine[b] < Tables /\ mine[b] \in Nat
      /\ files[i].tables = mine[b]
      /\ UNCHANGED <<truth, path, made, inode, rows, D!readerVars>>
    BY <1>1 DEF D!TypeOK, D!Script, D!Creates
<1>4. i # D!NoFile /\ i \in 1 .. made /\ i \in D!Inodes
    BY <1>1, <1>2, <1>3 DEF D!TypeOK, D!NoFile, D!Inodes
<1>5. files[i].data = Nothing
    BY <1>1, <1>3, <1>4 DEF FillsOK, FilledIsDone
<1> HIDE DEF i
<1>6. /\ files' = [files EXCEPT ![i].tables = @ + 1] /\ mine' = [mine EXCEPT ![b] = @ + 1]
      /\ IF mine'[b] = Tables THEN pc' = [pc EXCEPT ![b] = "insert"] ELSE pc' = pc
    BY DEF D!Script, D!Goto, i
<1>7. /\ files' \in [D!Inodes -> [tables : 0 .. Tables, data : Versions \cup {Nothing}]]
      /\ files'[i].tables = mine[b] + 1
      /\ \A k \in D!Inodes : files'[k].data = files[k].data
      /\ \A k \in D!Inodes \ {i} : files'[k] = files[k]
    BY <1>1, <1>2, <1>3, <1>4, <1>6 DEF D!TypeOK
<1>8. /\ mine' \in [Builders -> 0 .. Tables] /\ mine'[b] = mine[b] + 1
      /\ \A a \in Builders \ {b} : mine'[a] = mine[a]
    BY <1>1, <1>2, <1>3, <1>6 DEF D!TypeOK
<1>9. /\ pc' \in [Builders -> D!Places]
      /\ pc'[b] = IF mine'[b] = Tables THEN "insert" ELSE "script"
      /\ \A a \in Builders \ {b} : pc'[a] = pc[a]
    BY <1>1, <1>3, <1>6 DEF D!TypeOK, D!Places
<1>10. D!TypeOK'
    <2>1. \A a \in Builders : inode'[a] # D!NoFile <=> pc'[a] \in {"script", "insert", "commit"}
        BY <1>1, <1>3, <1>4, <1>9 DEF D!TypeOK, i
    <2>2. QED
        BY <1>1, <1>3, <1>7, <1>8, <1>9, <2>1 DEF D!TypeOK, D!readerVars
\* No one else who has the file open has made a table: there was none, or it is b's.
<1>11. \A a \in Builders \ {b} : inode[a] = i => mine[a] = 0
    <2>1. ASSUME NEW a \in Builders \ {b}, inode[a] = i, mine[a] # 0
          PROVE  FALSE
        <3>1. mine[b] = 0
            BY <1>1, <1>4, <2>1 DEF FillsOK, OneMaker, i
        <3>2. mine[a] <= files[i].tables /\ mine[a] \in Nat
            BY <1>1, <1>2, <1>4, <2>1 DEF FillsOK, BuilderOK, D!TypeOK
        <3>3. QED
            BY <1>3, <2>1, <3>1, <3>2 DEF i
    <2>2. QED
        BY <2>1
<1>12. FillsOK'
    <2>1. \A a \in Builders \ {b} : BuilderOK(a)'
        <3>1. ASSUME NEW a \in Builders \ {b}
              PROVE  inode'[a] # D!NoFile => mine'[a] <= files'[inode'[a]].tables
            <4>1. inode[a] \in 0 .. made /\ mine[a] \in 0 .. Tables
                BY <1>1 DEF D!TypeOK
            <4>2. CASE inode[a] = i
                <5>1. mine'[a] = 0 /\ inode'[a] = i
                    BY <1>3, <1>8, <1>11, <4>2
                <5>2. QED
                    BY <1>3, <1>7, <5>1
            <4>3. CASE inode[a] # i
                <5>1. mine'[a] = mine[a] /\ inode'[a] = inode[a]
                    BY <1>3, <1>8
                <5>2. inode[a] # D!NoFile => inode[a] \in D!Inodes \ {i}
                    BY <1>2, <4>1, <4>3 DEF D!NoFile, D!Inodes
                <5>3. QED
                    BY <1>1, <1>7, <5>1, <5>2 DEF FillsOK, BuilderOK
            <4>4. QED
                BY <4>2, <4>3
        <3>2. QED
            BY <1>1, <1>3, <1>8, <1>9, <3>1 DEF FillsOK, BuilderOK
    <2>2. BuilderOK(b)'
        <3>1. mine'[b] <= Tables /\ inode'[b] = i
            BY <1>2, <1>3, <1>8 DEF i
        <3>2. QED
            BY <1>2, <1>3, <1>4, <1>7, <1>8, <1>9, <3>1 DEF BuilderOK
    <2>3. OneMaker'
        <3>1. SUFFICES ASSUME NEW a \in Builders, NEW c \in Builders, a # c,
                              inode[a] # D!NoFile, inode[a] = inode[c]
                       PROVE  mine'[a] = 0 \/ mine'[c] = 0
            BY <1>3 DEF OneMaker
        <3>2. CASE a = b \/ c = b
            BY <1>8, <1>11, <3>1, <3>2 DEF i
        <3>3. CASE a # b /\ c # b
            BY <1>1, <1>8, <3>1, <3>3 DEF FillsOK, OneMaker
        <3>4. QED
            BY <3>2, <3>3
    <2>4. FilledIsDone'
        <3>1. SUFFICES ASSUME NEW k \in D!Inodes, files'[k].data # Nothing
                       PROVE  /\ files'[k].tables = Tables
                              /\ \A a \in Builders : inode[a] = k => mine'[a] = 0
            BY <1>3 DEF FilledIsDone
        <3>2. k # i /\ files[k].data # Nothing
            BY <1>5, <1>7, <3>1
        <3>3. QED
            BY <1>1, <1>7, <1>8, <3>2 DEF FillsOK, FilledIsDone, i
    <2>5. NewIsBlank'
        <3>1. ~ (i > made) /\ made' = made
            BY <1>1, <1>2, <1>3, <1>4 DEF D!TypeOK, D!NoFile, D!Inodes, D!DatasetAssumption
        <3>2. QED
            BY <1>1, <1>7, <3>1 DEF FillsOK, NewIsBlank
    <2>6. QED
        BY <2>1, <2>2, <2>3, <2>4, <2>5 DEF FillsOK
<1>13. D!NamesMatchFile'
    <2>1. \A p \in Processes : conn[p] # D!NoFile => conn[p] \in D!Inodes
        BY <1>1, <1>2 DEF D!TypeOK, D!NoFile, D!Inodes
    <2>2. QED
        BY <1>1, <1>3, <1>7, <2>1, SameNames DEF D!readerVars
<1>14. (service # "starting" => pc[entry] = "off")'
    BY <1>3, <1>9 DEF DatasetInv, D!DatasetAssumption, D!readerVars
<1>15. QED
    BY <1>10, <1>12, <1>13, <1>14 DEF DatasetInv, FillsOK

LEMMA InsertDataset ==
    ASSUME D!DatasetAssumption, DatasetInv, NEW b \in Builders, D!Insert(b)
    PROVE  DatasetInv'
<1>1. D!TypeOK /\ FillsOK /\ D!NamesMatchFile
    BY DEF DatasetInv, FillsOK
<1>2. /\ pc[b] = "insert" /\ pc' = [pc EXCEPT ![b] = "commit"]
      /\ rows' = [rows EXCEPT ![b] = truth]
      /\ UNCHANGED <<truth, path, files, made, inode, mine, D!readerVars>>
    BY DEF D!Insert, D!Goto
<1>3. /\ pc' \in [Builders -> D!Places] /\ pc'[b] = "commit"
      /\ \A a \in Builders \ {b} : pc'[a] = pc[a]
      /\ rows' \in [Builders -> Versions \cup {Nothing}]
    BY <1>1, <1>2 DEF D!TypeOK, D!Places
<1>4. D!TypeOK'
    <2>1. \A a \in Builders : inode'[a] # D!NoFile <=> pc'[a] \in {"script", "insert", "commit"}
        BY <1>1, <1>2, <1>3 DEF D!TypeOK
    <2>2. QED
        BY <1>1, <1>2, <1>3, <2>1 DEF D!TypeOK, D!readerVars
<1>5. FillsOK'
    <2>1. mine[b] = Tables
        BY <1>1, <1>2 DEF FillsOK, BuilderOK
    <2>2. QED
        BY <1>1, <1>2, <1>3, <2>1, SameFills
<1>6. D!NamesMatchFile'
    BY <1>1, <1>2, SameNames DEF D!readerVars
<1>7. (service # "starting" => pc[entry] = "off")'
    BY <1>2, <1>3 DEF DatasetInv, D!DatasetAssumption, D!readerVars
<1>8. QED
    BY <1>4, <1>5, <1>6, <1>7 DEF DatasetInv, FillsOK

LEMMA CommitDataset ==
    ASSUME D!DatasetAssumption, DatasetInv, NEW b \in Builders, D!Commit(b)
    PROVE  DatasetInv'
<1> DEFINE i == inode[b]
<1>1. D!TypeOK /\ FillsOK /\ D!NamesMatchFile
    BY DEF DatasetInv, FillsOK
<1>2. Tables \in Nat \ {0} /\ made \in Nat /\ made <= MaxFiles /\ MaxFiles \in Nat
    BY <1>1 DEF D!DatasetAssumption, D!TypeOK
<1>3. /\ pc[b] = "commit" /\ mine[b] = Tables /\ D!End(b)
      /\ UNCHANGED <<truth, path, made, D!readerVars>>
    BY <1>1 DEF FillsOK, BuilderOK, D!Commit
<1>4. i # D!NoFile /\ i \in 1 .. made /\ i \in D!Inodes
    BY <1>1, <1>2, <1>3 DEF D!TypeOK, D!NoFile, D!Inodes
<1>5. files[i].tables = Tables /\ files[i].data = Nothing
    <2>1. mine[b] <= files[i].tables /\ files[i].tables \in 0 .. Tables
        BY <1>1, <1>4 DEF FillsOK, BuilderOK, D!TypeOK
    <2>2. QED
        BY <1>1, <1>2, <1>3, <1>4, <2>1 DEF FillsOK, FilledIsDone
<1>6. \A a \in Builders \ {b} : inode[a] = i => mine[a] = 0
    BY <1>1, <1>2, <1>3, <1>4 DEF FillsOK, OneMaker
<1>7. files' = [files EXCEPT ![i].data = rows[b]]
    BY DEF D!Commit
<1> HIDE DEF i
<1>8. /\ files' \in [D!Inodes -> [tables : 0 .. Tables, data : Versions \cup {Nothing}]]
      /\ \A k \in D!Inodes : files'[k].tables = files[k].tables
      /\ \A k \in D!Inodes \ {i} : files'[k] = files[k]
    BY <1>1, <1>4, <1>7 DEF D!TypeOK
<1>9. /\ inode'[b] = D!NoFile /\ mine'[b] = 0 /\ pc'[b] = "off"
      /\ \A a \in Builders \ {b} : inode'[a] = inode[a] /\ mine'[a] = mine[a] /\ pc'[a] = pc[a]
    BY <1>1, <1>3 DEF D!TypeOK, D!End
<1>10. D!TypeOK'
    BY <1>1, <1>3, <1>8, EndTypes DEF D!TypeOK, D!readerVars
<1>11. FillsOK'
    <2>1. \A a \in Builders \ {b} : BuilderOK(a)'
        <3>1. ASSUME NEW a \in Builders \ {b}
              PROVE  BuilderOK(a)'
            <4>1. inode[a] # D!NoFile => inode[a] \in D!Inodes
                BY <1>1, <1>2 DEF D!TypeOK, D!NoFile, D!Inodes
            <4>2. QED
                BY <1>1, <1>8, <1>9, <4>1 DEF FillsOK, BuilderOK
        <3>2. QED
            BY <3>1
    <2>2. BuilderOK(b)'
        BY <1>9 DEF BuilderOK
    <2>3. OneMaker'
        BY <1>1, <1>9 DEF FillsOK, OneMaker
    <2>4. FilledIsDone'
        <3>1. ASSUME NEW k \in D!Inodes, files'[k].data # Nothing
              PROVE  files'[k].tables = Tables
            BY <1>1, <1>5, <1>8, <3>1 DEF FillsOK, FilledIsDone
        <3>2. ASSUME NEW k \in D!Inodes, files'[k].data # Nothing,
                     NEW a \in Builders, inode'[a] = k
              PROVE  mine'[a] = 0
            <4>1. CASE k = i
                BY <1>6, <1>9, <3>2, <4>1
            <4>2. CASE k # i
                BY <1>1, <1>8, <1>9, <3>2, <4>2 DEF FillsOK, FilledIsDone
            <4>3. QED
                BY <4>1, <4>2
        <3>3. QED
            BY <3>1, <3>2 DEF FilledIsDone
    <2>5. NewIsBlank'
        BY <1>1, <1>2, <1>3, <1>4, <1>8 DEF FillsOK, NewIsBlank, D!Inodes
    <2>6. QED
        BY <2>1, <2>2, <2>3, <2>4, <2>5 DEF FillsOK
<1>12. D!NamesMatchFile'
    <2>1. \A p \in Processes : conn[p] # D!NoFile => conn[p] \in D!Inodes
        BY <1>1, <1>2 DEF D!TypeOK, D!NoFile, D!Inodes
    <2>2. QED
        BY <1>1, <1>3, <1>5, <1>8, <2>1, SameNames DEF D!readerVars
<1>13. (service # "starting" => pc[entry] = "off")'
    BY <1>3, <1>9 DEF DatasetInv, D!DatasetAssumption, D!readerVars
<1>14. QED
    BY <1>10, <1>11, <1>12, <1>13 DEF DatasetInv, FillsOK

LEMMA StopDataset == ASSUME D!DatasetAssumption, DatasetInv, D!Stop PROVE DatasetInv'
<1>1. D!TypeOK /\ FillsOK /\ D!NamesMatchFile /\ entry \in Builders
    BY DEF DatasetInv, FillsOK, D!DatasetAssumption
<1>2. /\ D!End(entry) /\ service' = "down" /\ conn' = D!Closed /\ names' = D!NoMaps
      /\ UNCHANGED <<truth, path, files, made>>
    BY DEF D!Stop
<1>3. D!TypeOK'
    <2>1. conn' \in [Processes -> 0 .. made] /\ names' \in [Processes -> Versions \cup {Nothing, Unread}]
        BY <1>1, <1>2 DEF D!TypeOK, D!Closed, D!NoMaps, D!NoFile
    <2>2. \A p \in Processes : conn'[p] = D!NoFile /\ names'[p] = Unread
        BY <1>2 DEF D!Closed, D!NoMaps
    <2>3. QED
        BY <1>1, <1>2, <2>1, <2>2, EndTypes DEF D!TypeOK
<1>4. FillsOK'
    BY <1>1, <1>2, EndFills
<1>5. D!NamesMatchFile'
    BY <1>2 DEF D!NamesMatchFile, D!NoMaps
<1>6. (service # "starting" => pc[entry] = "off")'
    BY <1>1, <1>2, EndTypes
<1>7. QED
    BY <1>3, <1>4, <1>5, <1>6 DEF DatasetInv, FillsOK

\* The rest leave the builders and their files alone.
LEMMA ReadDataset ==
    ASSUME D!DatasetAssumption, DatasetInv, UNCHANGED <<path, files, made, D!builderVars>>,
           truth' \in Versions \cup {Nothing},
           UNCHANGED D!readerVars \/ D!Serve \/ \E p \in Processes : D!Open(p) \/ D!Lookup(p)
    PROVE  DatasetInv'
<1>1. D!TypeOK /\ FillsOK /\ D!NamesMatchFile
    BY DEF DatasetInv, FillsOK
<1>2. UNCHANGED <<pc, inode, mine, rows>>
    BY DEF D!builderVars
<1>3. FillsOK'
    BY <1>1, <1>2, SameFills
<1>4. ASSUME service' # "starting" => pc[entry] = "off",
             service' \in {"down", "starting", "up"},
             conn' \in [Processes -> 0 .. made],
             names' \in [Processes -> Versions \cup {Nothing, Unread}],
             service' # "up" => \A p \in Processes : conn'[p] = D!NoFile /\ names'[p] = Unread,
             D!NamesMatchFile'
      PROVE  DatasetInv'
    <2>1. D!TypeOK'
        BY <1>1, <1>2, <1>4 DEF D!TypeOK
    <2>2. QED
        BY <1>2, <1>3, <1>4, <2>1 DEF DatasetInv, FillsOK
<1>5. CASE UNCHANGED D!readerVars
    <2>1. D!NamesMatchFile'
        BY <1>1, <1>5, SameNames DEF D!readerVars
    <2>2. QED
        BY <1>1, <1>4, <1>5, <2>1 DEF D!readerVars, D!TypeOK, DatasetInv
<1>6. CASE D!Serve
    <2>1. D!NamesMatchFile'
        BY <1>1, <1>6, SameNames DEF D!Serve
    <2>2. QED
        BY <1>1, <1>4, <1>6, <2>1 DEF D!Serve, D!TypeOK
<1>7. ASSUME NEW p \in Processes, D!Open(p)
      PROVE  DatasetInv'
    <2>1. conn' \in [Processes -> 0 .. made]
        BY <1>1, <1>7 DEF D!Open, D!TypeOK
    <2>2. D!NamesMatchFile'
        BY <1>1, <1>7 DEF D!Open, D!TypeOK, D!NamesMatchFile
    <2>3. QED
        BY <1>1, <1>4, <1>7, <2>1, <2>2 DEF D!Open, D!TypeOK, DatasetInv
<1>8. ASSUME NEW p \in Processes, D!Lookup(p)
      PROVE  DatasetInv'
    <2>1. conn[p] \in D!Inodes
        BY <1>1, <1>8 DEF D!Lookup, D!TypeOK, D!NoFile, D!Inodes, D!DatasetAssumption
    <2>2. files[conn[p]].data \in Versions
        BY <1>1, <1>8, <2>1 DEF D!Lookup, D!Resolves, D!TypeOK
    <2>3. names' \in [Processes -> Versions \cup {Nothing, Unread}]
        BY <1>1, <1>8, <2>2 DEF D!Lookup, D!TypeOK
    <2>4. D!NamesMatchFile'
        BY <1>1, <1>8, <2>2 DEF D!Lookup, D!Resolves, D!TypeOK, D!NamesMatchFile
    <2>5. QED
        BY <1>1, <1>4, <1>8, <2>3, <2>4 DEF D!Lookup, D!TypeOK, DatasetInv
<1>9. QED
    BY <1>5, <1>6, <1>7, <1>8

LEMMA StepDataset ==
    ASSUME D!DatasetAssumption, DatasetInv, [D!Next]_D!vars
    PROVE  DatasetInv'
<1>1. D!TypeOK /\ truth \in Versions \cup {Nothing}
    BY DEF DatasetInv, D!TypeOK
<1>2. CASE UNCHANGED D!vars
    BY <1>1, <1>2, ReadDataset DEF D!vars, D!readerVars
<1>3. ASSUME NEW b \in Builders, D!Build(b) \/ D!BuildStep(b) \/ D!Fail(b)
      PROVE  DatasetInv'
    BY <1>3, LooksDataset, ConnectDataset, ScriptDataset, InsertDataset, CommitDataset,
       FailDataset DEF D!BuildStep
<1>4. CASE D!Start \/ D!Stop
    BY <1>4, StartDataset, StopDataset
<1>5. CASE D!Serve
    BY <1>1, <1>5, ReadDataset DEF D!Serve
<1>6. ASSUME NEW p \in Processes, D!Open(p) \/ D!Lookup(p)
      PROVE  DatasetInv'
    BY <1>1, <1>6, ReadDataset DEF D!Open, D!Lookup
<1>7. ASSUME NEW v \in Versions \cup {Nothing}, D!Generate(v)
      PROVE  DatasetInv'
    BY <1>1, <1>7, ReadDataset DEF D!Generate, D!readerVars
<1>8. QED
    BY <1>2, <1>3, <1>4, <1>5, <1>6, <1>7 DEF D!Next

\* What ViewsSettle says of a step.
KeepsViews ==
    \A p \in Processes :
        conn[p] # D!NoFile /\ conn'[p] = conn[p] /\ files[conn[p]].data # Nothing
          => files'[conn[p]] = files[conn[p]]

LEMMA StepKeepsViews ==
    ASSUME D!DatasetAssumption, DatasetInv, D!Next
    PROVE  KeepsViews
<1>1. CASE files' = files
    BY <1>1 DEF KeepsViews
<1>2. ASSUME NEW b \in Builders, D!Script(b) \/ D!Commit(b)
      PROVE  KeepsViews
    <2>1. /\ files[inode[b]].data = Nothing
          /\ \A i \in D!Inodes \ {inode[b]} : files'[i] = files[i]
        <3>1. /\ inode[b] \in D!Inodes
              /\ Tables \in Nat \ {0} /\ mine[b] \in 0 .. Tables
              /\ pc[b] = "script" => mine[b] < Tables
              /\ pc[b] = "commit" => mine[b] = Tables
            BY <1>2 DEF DatasetInv, BuilderOK, D!TypeOK, D!DatasetAssumption, D!Script, D!Commit,
                        D!NoFile, D!Inodes
        <3>2. files[inode[b]].data = Nothing
            BY <1>2, <3>1 DEF DatasetInv, FilledIsDone, D!Script, D!Creates, D!Commit
        <3>3. \A i \in D!Inodes \ {inode[b]} : files'[i] = files[i]
            BY <1>2 DEF DatasetInv, D!TypeOK, D!Script, D!Commit
        <3>4. QED
            BY <3>2, <3>3
    <2>2. \A p \in Processes : conn[p] # D!NoFile => conn[p] \in D!Inodes
        BY DEF DatasetInv, D!TypeOK, D!DatasetAssumption, D!NoFile, D!Inodes
    <2>3. QED
        BY <2>1, <2>2 DEF KeepsViews
<1>3. CASE D!Start \/ D!Serve \/ D!Stop
    BY <1>1, <1>3 DEF D!Start, D!Serve, D!Stop
<1>4. ASSUME NEW b \in Builders,
             D!Build(b) \/ D!Exists(b) \/ D!Unlink(b) \/ D!Connect(b) \/ D!Insert(b) \/ D!Fail(b)
      PROVE  KeepsViews
    BY <1>1, <1>4 DEF D!Build, D!Exists, D!Unlink, D!Connect, D!Insert, D!Fail
<1>5. ASSUME NEW p \in Processes, D!Open(p) \/ D!Lookup(p)
      PROVE  KeepsViews
    BY <1>1, <1>5 DEF D!Open, D!Lookup
<1>6. ASSUME NEW v \in Versions \cup {Nothing}, D!Generate(v)
      PROVE  KeepsViews
    BY <1>1, <1>6 DEF D!Generate
<1>7. QED
    BY <1>2, <1>3, <1>4, <1>5, <1>6 DEF D!Next, D!BuildStep

-----------------------------------------------------------------------------
(* The documents. *)

\* The cache has allowed documents only, and all that have been there ever since the
\* process started.
Remembers == allowed \subseteq V!AllowedFiles /\ V!AllowedFiles \cap since \subseteq allowed

Request ==
    [op : {"list", "view"}, name : Names \cup {Nothing}, at : {"glob", "check", "read"},
     next : 1 .. Globs + 1, found : SUBSET V!AllowedFiles]

\* What the request under way found so far: every allowed document of the globs
\* gone through that was there all the while, and none that never was.
RequestOK ==
    request # Nothing =>
        /\ request \in Request
        /\ request.op = "view" => request.name \in Names
        /\ request.found \subseteq ever
        /\ \A f \in V!AllowedFiles \cap during : GlobOf[f] < request.next => f \in request.found
        /\ request.at # "glob" => request.op = "view" /\ Remembers
        /\ request.at = "read" => Resolved[request.name] \in allowed
        /\ since \subseteq during /\ during \subseteq V!Present /\ V!Present \subseteq ever
        /\ reply = Nothing

CacheOK == allowed # Nothing => Remembers

ReplyOK == V!OnlyAllowedServed /\ V!OldDocumentsFound /\ V!ListingComplete

DocumentsInv == V!TypeOK /\ RequestOK /\ CacheOK /\ ReplyOK

LEMMA InitDocuments == ASSUME V!DocumentsAssumption, V!Init PROVE DocumentsInv
<1>1. V!TypeOK
    BY DEF V!DocumentsAssumption, V!Init, V!TypeOK
<1>2. RequestOK /\ CacheOK
    BY DEF V!Init, RequestOK, CacheOK
<1>3. ReplyOK
    BY DEF V!Init, ReplyOK, V!OnlyAllowedServed, V!OldDocumentsFound, V!ListingComplete, V!Viewed
<1>4. QED
    BY <1>1, <1>2, <1>3 DEF DocumentsInv

LEMMA ComesDocuments ==
    ASSUME V!DocumentsAssumption, DocumentsInv, V!List \/ V!View
    PROVE  DocumentsInv'
<1>1. PICK op \in {"list", "view"}, name \in Names \cup {Nothing}, start \in {"glob", "check"} :
         /\ V!Comes(op, name, start)
         /\ op = "view" => name \in Names
         /\ start = "check" => op = "view" /\ allowed # Nothing
    BY DEF V!List, V!View
<1>2. V!TypeOK /\ CacheOK /\ Globs \in Nat
    BY DEF DocumentsInv, V!DocumentsAssumption
<1>3. /\ request' = [op |-> op, name |-> name, at |-> start, next |-> 1, found |-> {}]
      /\ reply' = Nothing /\ during' = V!Present /\ ever' = V!Present
      /\ UNCHANGED <<corpus, allowed, changes, since>>
    BY <1>1 DEF V!Comes
<1>4. V!Present' = V!Present /\ V!AllowedFiles' = V!AllowedFiles
    BY <1>3 DEF V!Present, V!AllowedFiles
<1>5. V!TypeOK'
    BY <1>2, <1>3, <1>4 DEF V!TypeOK
<1>6. CacheOK'
    BY <1>2, <1>3, <1>4 DEF CacheOK, Remembers
<1>7. RequestOK'
    <2>1. \A f \in V!AllowedFiles : GlobOf[f] \in Nat /\ GlobOf[f] # 0
        BY DEF V!AllowedFiles, V!DocumentsAssumption
    <2>2. since \subseteq V!Present
        BY <1>2 DEF V!TypeOK
    <2>3. start # "glob" => Remembers'
        BY <1>1, <1>2, <1>3, <1>4 DEF CacheOK, Remembers
    <2>4. request' \in Request'
        BY <1>2, <1>3 DEF Request
    <2>5. QED
        BY <1>1, <1>2, <1>3, <1>4, <2>1, <2>2, <2>3, <2>4 DEF RequestOK
<1>8. ReplyOK'
    BY <1>3 DEF ReplyOK, V!OnlyAllowedServed, V!OldDocumentsFound, V!ListingComplete, V!Viewed
<1>9. QED
    BY <1>5, <1>6, <1>7, <1>8 DEF DocumentsInv

\* What GlobOf and the directory are.
LEMMA GlobsType ==
    ASSUME V!DocumentsAssumption
    PROVE  /\ Globs \in Nat
           /\ \A f \in V!AllowedFiles : f \in Paths /\ GlobOf[f] \in 1 .. Globs
BY DEF V!AllowedFiles, V!DocumentsAssumption

\* A step within a request, the directory as it was.
LEMMA WithinRequest ==
    ASSUME DocumentsInv, request # Nothing, request' \in Request,
           request'.op = request.op, request'.name = request.name,
           UNCHANGED <<corpus, reply, changes, since, during, ever>>,
           request'.found \subseteq ever,
           \A f \in V!AllowedFiles \cap during : GlobOf[f] < request'.next => f \in request'.found,
           request'.at # "glob" => request.op = "view" /\ Remembers',
           request'.at = "read" => Resolved[request.name] \in allowed',
           allowed' = allowed \/ Remembers'
    PROVE  DocumentsInv'
<1>1. V!Present' = V!Present /\ V!AllowedFiles' = V!AllowedFiles
    BY DEF V!Present, V!AllowedFiles
<1>2. V!TypeOK'
    BY <1>1 DEF DocumentsInv, RequestOK, Request, V!TypeOK, Remembers
<1>3. CacheOK'
    BY <1>1 DEF DocumentsInv, CacheOK, Remembers
<1>4. RequestOK'
    BY <1>1 DEF DocumentsInv, RequestOK, Request
<1>5. ReplyOK'
    BY DEF DocumentsInv, RequestOK, ReplyOK, V!OnlyAllowedServed, V!OldDocumentsFound,
           V!ListingComplete, V!Viewed
<1>6. QED
    BY <1>2, <1>3, <1>4, <1>5 DEF DocumentsInv

LEMMA GlobDocuments ==
    ASSUME V!DocumentsAssumption, DocumentsInv, V!Glob
    PROVE  DocumentsInv'
<1> DEFINE got == V!Matches(request.next)
<1>1. /\ request # Nothing /\ request.at = "glob" /\ request.next <= Globs
      /\ request' = [request EXCEPT !.next = @ + 1, !.found = @ \cup got]
      /\ UNCHANGED <<corpus, allowed, reply, changes, since, during, ever>>
    BY DEF V!Glob, V!ghosts
<1>2. /\ request \in Request /\ request.found \subseteq ever /\ Globs \in Nat
      /\ during \subseteq V!Present /\ V!Present \subseteq ever
      /\ \A f \in V!AllowedFiles \cap during : GlobOf[f] < request.next => f \in request.found
    BY <1>1, GlobsType DEF DocumentsInv, RequestOK
<1>3. got \subseteq V!AllowedFiles \cap ever
    <2>1. got \subseteq V!AllowedFiles /\ got \subseteq V!Present
        <3>1. request.next # 0
            BY <1>2 DEF Request
        <3>2. QED
            BY <3>1 DEF V!Matches, V!AllowedFiles, V!Present
    <2>2. QED
        BY <1>2, <2>1
<1>4. \A f \in V!AllowedFiles \cap during : GlobOf[f] = request.next => f \in got
    BY <1>2 DEF V!Matches
<1> HIDE DEF got
<1>5. /\ request' \in Request /\ request'.op = request.op /\ request'.name = request.name
      /\ request'.at = "glob" /\ request'.next = request.next + 1
      /\ request'.found = request.found \cup got
    <2>1. request.next + 1 \in 1 .. Globs + 1 /\ request.found \cup got \in SUBSET V!AllowedFiles
        BY <1>1, <1>2, <1>3 DEF Request
    <2>2. request' = [op |-> request.op, name |-> request.name, at |-> request.at,
                      next |-> request.next + 1, found |-> request.found \cup got]
        BY <1>1, <1>2 DEF Request
    <2>3. QED
        BY <1>1, <1>2, <2>1, <2>2 DEF Request
<1>6. \A f \in V!AllowedFiles \cap during : GlobOf[f] < request'.next => f \in request'.found
    <2>1. SUFFICES ASSUME NEW f \in V!AllowedFiles \cap during, GlobOf[f] < request.next + 1
                   PROVE  f \in request.found \cup got
        BY <1>5
    <2>2. GlobOf[f] < request.next \/ GlobOf[f] = request.next
        BY <1>2, <2>1, GlobsType DEF Request
    <2>3. QED
        BY <1>2, <1>4, <2>2
<1>7. QED
    BY <1>1, <1>2, <1>3, <1>5, <1>6, WithinRequest

LEMMA AllowDocuments ==
    ASSUME V!DocumentsAssumption, DocumentsInv, V!Allow
    PROVE  DocumentsInv'
<1>1. /\ request # Nothing /\ request.at = "glob" /\ request.next > Globs /\ request.op = "view"
      /\ allowed' = request.found /\ request' = [request EXCEPT !.at = "check"]
      /\ UNCHANGED <<corpus, reply, changes, since, during, ever>>
    BY DEF V!Allow, V!Globbed, V!ghosts
<1>2. /\ request \in Request /\ request.found \subseteq ever
      /\ since \subseteq during
      /\ \A f \in V!AllowedFiles \cap during : GlobOf[f] < request.next => f \in request.found
    BY <1>1 DEF DocumentsInv, RequestOK
<1>3. Remembers'
    <2>1. V!AllowedFiles' = V!AllowedFiles
        BY DEF V!AllowedFiles
    <2>2. V!AllowedFiles \cap since \subseteq request.found
        BY <1>1, <1>2, GlobsType DEF Request
    <2>3. QED
        BY <1>1, <1>2, <2>1, <2>2 DEF Remembers, Request
<1>4. /\ request' \in Request /\ request'.op = request.op /\ request'.name = request.name
      /\ request'.at = "check" /\ request'.next = request.next /\ request'.found = request.found
    BY <1>1, <1>2 DEF Request
<1>5. QED
    BY <1>1, <1>2, <1>3, <1>4, WithinRequest

LEMMA ResolveDocuments ==
    ASSUME V!DocumentsAssumption, DocumentsInv, V!Resolve
    PROVE  DocumentsInv'
<1>1. /\ request # Nothing /\ request.at = "check"
      /\ Resolved[request.name] \in allowed /\ request' = [request EXCEPT !.at = "read"]
      /\ UNCHANGED <<corpus, allowed, reply, changes, since, during, ever>>
    BY DEF V!Resolve, V!Checking, V!Viewable, V!ghosts
<1>2. /\ request \in Request /\ request.found \subseteq ever /\ Remembers /\ request.op = "view"
      /\ \A f \in V!AllowedFiles \cap during : GlobOf[f] < request.next => f \in request.found
    BY <1>1 DEF DocumentsInv, RequestOK
<1>3. Remembers'
    BY <1>1, <1>2 DEF Remembers, V!AllowedFiles
<1>4. /\ request' \in Request /\ request'.op = request.op /\ request'.name = request.name
      /\ request'.at = "read" /\ request'.next = request.next /\ request'.found = request.found
    BY <1>1, <1>2 DEF Request
<1>5. QED
    BY <1>1, <1>2, <1>3, <1>4, WithinRequest

\* A reply ends a request, and is right if it is for the directory of that moment.
LEMMA RepliesDocuments ==
    ASSUME DocumentsInv, request # Nothing, NEW status, NEW found, V!Replies(status, found),
           allowed' = allowed,
           request.op = "view" /\ status = 200 =>
              found = {Resolved[request.name]} /\ Resolved[request.name] \in V!AllowedFiles,
           request.op = "view" /\ status = 404 =>
              Resolved[request.name] \notin (V!AllowedFiles \cap since \cap during),
           request.op = "list" => V!AllowedFiles \cap during \subseteq found /\ found \subseteq ever
    PROVE  DocumentsInv'
<1>1. /\ reply' = [op |-> request.op, name |-> request.name, status |-> status, found |-> found]
      /\ request' = Nothing /\ UNCHANGED <<corpus, changes, since, during, ever>>
    BY DEF V!Replies
<1>2. V!Present' = V!Present /\ V!AllowedFiles' = V!AllowedFiles
    BY <1>1 DEF V!Present, V!AllowedFiles
<1>3. V!TypeOK'
    BY <1>1, <1>2 DEF DocumentsInv, V!TypeOK
<1>4. CacheOK' /\ RequestOK'
    BY <1>1, <1>2 DEF DocumentsInv, CacheOK, RequestOK, Remembers
<1>5. ReplyOK'
    BY <1>1, <1>2 DEF ReplyOK, V!OnlyAllowedServed, V!OldDocumentsFound, V!ListingComplete,
                      V!Viewed, V!Asked
<1>6. QED
    BY <1>3, <1>4, <1>5 DEF DocumentsInv

LEMMA ListedDocuments ==
    ASSUME V!DocumentsAssumption, DocumentsInv, V!Listed
    PROVE  DocumentsInv'
<1>1. /\ request # Nothing /\ request.at = "glob" /\ request.next > Globs /\ request.op = "list"
      /\ V!Replies(200, request.found) /\ allowed' = allowed
    BY DEF V!Listed, V!Globbed
<1>2. /\ request \in Request /\ request.found \subseteq ever
      /\ \A f \in V!AllowedFiles \cap during : GlobOf[f] < request.next => f \in request.found
    BY <1>1 DEF DocumentsInv, RequestOK
<1>3. V!AllowedFiles \cap during \subseteq request.found
    BY <1>1, <1>2, GlobsType DEF Request
<1>4. QED
    BY <1>1, <1>2, <1>3, RepliesDocuments

LEMMA NotFoundDocuments ==
    ASSUME V!DocumentsAssumption, DocumentsInv, V!NotFound
    PROVE  DocumentsInv'
<1>1. /\ request # Nothing /\ request.at = "check" /\ ~ V!Viewable
      /\ V!Replies(404, {}) /\ allowed' = allowed
    BY DEF V!NotFound, V!Checking
<1>2. request.op = "view" /\ Remembers /\ during \subseteq V!Present
    BY <1>1 DEF DocumentsInv, RequestOK
<1>3. Resolved[request.name] \notin (V!AllowedFiles \cap since \cap during)
    BY <1>1, <1>2 DEF V!Viewable, Remembers
<1>4. QED
    BY <1>1, <1>2, <1>3, RepliesDocuments

LEMMA ReadDocuments ==
    ASSUME V!DocumentsAssumption, DocumentsInv, V!Read
    PROVE  DocumentsInv'
<1> DEFINE f == Resolved[request.name]
<1>1. request # Nothing /\ request.at = "read" /\ allowed' = allowed
    BY DEF V!Read
<1>2. request.op = "view" /\ f \in V!AllowedFiles
    BY <1>1 DEF DocumentsInv, RequestOK, Remembers
<1>3. V!Replies(500, {}) \/ V!Replies(200, {f})
    BY DEF V!Read
<1>4. QED
    BY <1>1, <1>2, <1>3, RepliesDocuments

LEMMA ChangeDocuments ==
    ASSUME V!DocumentsAssumption, DocumentsInv, V!Change
    PROVE  DocumentsInv'
<1>1. PICK f \in Paths, c \in V!States : corpus' = [corpus EXCEPT ![f] = c]
    BY DEF V!Change
<1>2. /\ since' = since \cap V!Present' /\ changes < MaxChanges /\ changes' = changes + 1
      /\ UNCHANGED <<allowed, request, reply>>
      /\ IF request = Nothing THEN UNCHANGED <<during, ever>>
         ELSE during' = during \cap V!Present' /\ ever' = ever \cup V!Present'
    BY DEF V!Change
<1>3. V!AllowedFiles' = V!AllowedFiles
    BY DEF V!AllowedFiles
<1>4. V!TypeOK'
    <2>1. corpus' \in [Paths -> V!States] /\ changes' \in 0 .. MaxChanges
        BY <1>1, <1>2 DEF DocumentsInv, V!TypeOK, V!DocumentsAssumption
    <2>2. since' \subseteq V!Present' /\ during' \subseteq ever'
        BY <1>2 DEF DocumentsInv, V!TypeOK
    <2>3. QED
        BY <1>2, <1>3, <2>1, <2>2 DEF DocumentsInv, V!TypeOK
<1>5. CacheOK'
    BY <1>2, <1>3 DEF DocumentsInv, CacheOK, Remembers
<1>6. RequestOK'
    <2>1. Request' = Request /\ (Remembers => Remembers')
        BY <1>2, <1>3 DEF Request, Remembers
    <2>2. QED
        BY <1>2, <1>3, <2>1 DEF DocumentsInv, RequestOK
<1>7. ReplyOK'
    BY <1>2, <1>3 DEF DocumentsInv, RequestOK, ReplyOK, V!OnlyAllowedServed, V!OldDocumentsFound,
                      V!ListingComplete, V!Viewed, V!Asked
<1>8. QED
    BY <1>4, <1>5, <1>6, <1>7 DEF DocumentsInv

LEMMA RestartDocuments ==
    ASSUME V!DocumentsAssumption, DocumentsInv, V!Restart
    PROVE  DocumentsInv'
<1>1. /\ changes < MaxChanges /\ changes' = changes + 1 /\ corpus' = corpus
      /\ allowed' = Nothing /\ request' = Nothing /\ reply' = Nothing
      /\ since' = V!Present' /\ during' = {} /\ ever' = {}
    BY DEF V!Restart, V!Present
<1>2. V!TypeOK'
    BY <1>1 DEF DocumentsInv, V!TypeOK, V!DocumentsAssumption, V!AllowedFiles
<1>3. CacheOK' /\ RequestOK'
    BY <1>1 DEF CacheOK, RequestOK
<1>4. ReplyOK'
    BY <1>1 DEF ReplyOK, V!OnlyAllowedServed, V!OldDocumentsFound, V!ListingComplete, V!Viewed
<1>5. QED
    BY <1>2, <1>3, <1>4 DEF DocumentsInv

LEMMA StutterDocuments == ASSUME DocumentsInv, UNCHANGED V!vars PROVE DocumentsInv'
<1>1. UNCHANGED <<corpus, allowed, request, reply, changes, since, during, ever>>
    BY DEF V!vars, V!ghosts
<1>2. V!Present' = V!Present /\ V!AllowedFiles' = V!AllowedFiles
    BY <1>1 DEF V!Present, V!AllowedFiles
<1>3. V!TypeOK'
    BY <1>1, <1>2 DEF DocumentsInv, V!TypeOK
<1>4. CacheOK' /\ RequestOK'
    BY <1>1, <1>2 DEF DocumentsInv, CacheOK, RequestOK, Request, Remembers
<1>5. ReplyOK'
    BY <1>1, <1>2 DEF DocumentsInv, ReplyOK, V!OnlyAllowedServed, V!OldDocumentsFound,
                      V!ListingComplete, V!Viewed, V!Asked
<1>6. QED
    BY <1>3, <1>4, <1>5 DEF DocumentsInv

-----------------------------------------------------------------------------
(* The indexer. *)

\* Less is well founded: a set of naturals that is not empty has a least element.
Less == {pair \in Nat \X Nat : pair[1] < pair[2]}

LEMMA LessWellFounded == IsWellFoundedOn(Less, Nat)
BY NatLessThanWellFounded DEF OpToRel, Less

LEMMA LeastOf ==
    ASSUME NEW S \in SUBSET Nat, S # {}
    PROVE  \E x \in S : \A y \in S : x <= y
<1>1. PICK x \in S : \A y \in S : ~ (<<y, x>> \in Less)
    BY LessWellFounded, WFMin
<1>2. \A y \in S : ~ (y < x)
    BY <1>1 DEF Less
<1>3. QED
    BY <1>2

\* File f is loaded, or was none of the run's.
Loaded(f) == \A i \in 1 .. Len(todo) : todo[i] # f

\* Chunk i of file f, as ChunksOf gives it.
Item(f, i) == [id |-> <<f, sources[f][i].seq>>, text |-> sources[f][i].text]

\* What is collected: each file is loaded once.
Collection ==
    /\ \A i, j \in 1 .. Len(todo) : todo[i] = todo[j] => i = j
    /\ \A k \in 1 .. Len(collected) : Loaded(collected[k].id[1])

\* The chunks of file f stand together in what is collected, behind the first n.
StandsBehind(f, n) ==
    /\ n + Len(sources[f]) <= Len(collected)
    /\ \A i \in 1 .. Len(sources[f]) : collected[n + i] = Item(f, i)
    /\ \A k \in 1 .. Len(collected) :
          collected[k].id[1] = f => k - n \in 1 .. Len(sources[f])

\* With no file changed since the run began, it is what the files loaded hold.
CollectionIsCorpus ==
    ~ edited /\ (limit = 0 \/ phase = "collecting") =>
        \A f \in SourceFiles : Loaded(f) => \E n \in Nat : StandsBehind(f, n)

\* Where a run is.
RunOK ==
    /\ phase # "off" => Collection /\ CollectionIsCorpus
    /\ phase \in {"ensuring", "writing", "finished"} => todo = <<>>
    /\ phase \in {"collecting", "ensuring"} => upserted = 0
    /\ phase \in {"writing", "finished"} => exists
    /\ phase = "finished" => upserted = Len(collected)

IndexerInv == I!TypeOK /\ RunOK /\ I!PassedIsWritten

\* A step that leaves the files, or whose run has nothing to say of them any more.
LEMMA SameCorpus ==
    ASSUME CollectionIsCorpus, UNCHANGED <<todo, limit>>, phase' = phase \/ phase' # "collecting",
           edited' \/ UNCHANGED <<sources, edited>>,
           collected' = collected \/ (limit # 0 /\ phase' # "collecting")
    PROVE  CollectionIsCorpus'
<1>1. CASE edited' \/ collected' # collected
    BY <1>1 DEF CollectionIsCorpus
<1>2. CASE UNCHANGED <<sources, edited, collected>>
    <2>1. \A f, n : StandsBehind(f, n)' <=> StandsBehind(f, n)
        BY <1>2 DEF StandsBehind, Item
    <2>2. \A f : Loaded(f)' <=> Loaded(f)
        BY DEF Loaded
    <2>3. QED
        BY <1>2, <2>1, <2>2 DEF CollectionIsCorpus
<1>3. QED
    BY <1>1, <1>2

LEMMA InitIndexer == ASSUME I!IndexerAssumption, I!Init PROVE IndexerInv
<1>1. 0 \in Limits /\ UpsertBatch \in Nat /\ MaxRuns \in Nat /\ MaxEdits \in Nat
    BY DEF I!IndexerAssumption
<1>2. I!TypeOK
    <2>1. points = [id \in I!Ids |-> Nothing]
        BY DEF I!Init, I!NoPoints
    <2>2. /\ points \in [I!Ids -> I!Texts \cup {Nothing}]
          /\ \A id \in I!Ids : points[id] = Nothing
        BY <2>1
    <2>3. todo \in Seq(SourceFiles) /\ collected \in Seq([id : I!Ids, text : I!Texts]) /\ upserted \in 0 .. Len(collected)
        BY DEF I!Init
    <2>4. /\ sources \in [SourceFiles -> Contents] /\ exists \in BOOLEAN /\ edited \in BOOLEAN
          /\ phase \in I!Phases /\ recreate \in BOOLEAN /\ limit \in Limits
        BY <1>1 DEF I!Init, I!Phases
    <2>5. runs \in 0 .. MaxRuns /\ edits \in 0 .. MaxEdits
        BY <1>1 DEF I!Init
    <2>6. QED
        BY <2>2, <2>3, <2>4, <2>5 DEF I!TypeOK
<1>3. RunOK /\ I!PassedIsWritten
    BY DEF I!Init, RunOK, I!PassedIsWritten
<1>4. QED
    BY <1>2, <1>3 DEF IndexerInv

LEMMA LaunchIndexer ==
    ASSUME I!IndexerAssumption, IndexerInv, NEW again \in BOOLEAN, NEW n \in Limits,
           I!Launch(again, n)
    PROVE  IndexerInv'
<1>1. /\ runs < MaxRuns /\ runs' = runs + 1
      /\ phase' = "collecting" /\ recreate' = again /\ limit' = n
      /\ todo' = Order /\ collected' = <<>> /\ upserted' = 0 /\ edited' = FALSE
      /\ UNCHANGED <<sources, exists, points, edits>>
    BY DEF I!Launch
<1>2. /\ Order \in Seq(SourceFiles) /\ MaxRuns \in Nat
      /\ \A i, j \in 1 .. Len(Order) : Order[i] = Order[j] => i = j
    BY DEF I!IndexerAssumption
<1>3. I!TypeOK'
    <2>1. todo' \in Seq(SourceFiles) /\ collected' \in Seq([id : I!Ids, text : I!Texts]) /\ upserted' \in 0 .. Len(collected')
        BY <1>1, <1>2
    <2>2. runs' \in 0 .. MaxRuns /\ phase' \in I!Phases
        BY <1>1, <1>2 DEF IndexerInv, I!TypeOK, I!Phases
    <2>3. QED
        BY <1>1, <2>1, <2>2 DEF IndexerInv, I!TypeOK
<1>4. \A f \in SourceFiles : ~ Loaded(f)'
    BY <1>1 DEF I!IndexerAssumption, I!ToSet, Loaded
<1>5. RunOK' /\ I!PassedIsWritten'
    BY <1>1, <1>2, <1>4 DEF RunOK, Collection, CollectionIsCorpus, I!PassedIsWritten
<1>6. QED
    BY <1>3, <1>5 DEF IndexerInv

\* ChunksOf is the chunks of a file, under ids of its own.
LEMMA ChunksOfFile ==
    ASSUME I!IndexerAssumption, I!TypeOK, NEW f \in SourceFiles
    PROVE  /\ sources[f] \in Seq([seq : Nat, text : I!Texts])
           /\ I!ChunksOf(f) \in Seq([id : I!Ids, text : I!Texts])
           /\ Len(I!ChunksOf(f)) = Len(sources[f])
           /\ \A i \in 1 .. Len(sources[f]) : I!ChunksOf(f)[i] = Item(f, i)
<1>1. PICK s \in Contents : s = sources[f]
    BY DEF I!TypeOK
<1>2. s \in Seq([seq : Nat, text : I!Texts]) /\ Len(s) \in Nat
    <2>1. s \in Seq([seq : Nat, text : I!Texts])
        BY DEF I!IndexerAssumption
    <2>2. QED
        BY <2>1
<1>3. ASSUME NEW i \in 1 .. Len(s)
      PROVE  Item(f, i) \in [id : I!Ids, text : I!Texts]
    <2>1. s[i] \in I!Pieces
        BY <1>2 DEF I!Pieces, I!ToSet
    <2>2. s[i].seq \in I!Seqs /\ s[i].text \in I!Texts
        BY <2>1 DEF I!Seqs, I!Texts
    <2>3. <<f, s[i].seq>> \in I!Ids
        BY <2>2 DEF I!Ids
    <2>4. Item(f, i) = [id |-> <<f, s[i].seq>>, text |-> s[i].text]
        BY <1>1 DEF Item
    <2>5. QED
        BY <2>2, <2>3, <2>4
<1>4. I!ChunksOf(f) = [i \in 1 .. Len(s) |-> Item(f, i)]
    BY <1>1, <1>2 DEF I!ChunksOf, Item
<1>5. I!ChunksOf(f) \in Seq([id : I!Ids, text : I!Texts])
    BY ONLY <1>2, <1>3, <1>4
<1>6. Len(I!ChunksOf(f)) = Len(s)
    BY ONLY <1>2, <1>4
<1>7. QED
    BY <1>1, <1>2, <1>4, <1>5, <1>6

\* One sequence after another.
LEMMA Joined ==
    ASSUME NEW T, NEW s \in Seq(T), NEW t \in Seq(T)
    PROVE  /\ s \o t \in Seq(T) /\ Len(s \o t) = Len(s) + Len(t)
           /\ \A k \in 1 .. Len(s) : (s \o t)[k] = s[k]
           /\ \A i \in 1 .. Len(t) : (s \o t)[Len(s) + i] = t[i]
OBVIOUS

LEMMA LoadIndexer ==
    ASSUME I!IndexerAssumption, IndexerInv, I!Load
    PROVE  IndexerInv'
<1>1. /\ phase = "collecting" /\ todo # <<>>
      /\ collected' = collected \o I!ChunksOf(Head(todo)) /\ todo' = Tail(todo)
      /\ UNCHANGED <<sources, exists, points, phase, recreate, limit, upserted, edited, runs, edits>>
    BY DEF I!Load
<1>2. I!TypeOK /\ Collection /\ CollectionIsCorpus /\ upserted = 0
    BY <1>1 DEF IndexerInv, RunOK
<1>3. PICK f \in SourceFiles : f = Head(todo)
    BY <1>1, <1>2 DEF I!TypeOK
<1> DEFINE n == Len(collected)
           new == I!ChunksOf(f)
           m == Len(sources[f])
           Chunk == [id : I!Ids, text : I!Texts]
           Out(g) == \A i \in 1 .. Len(todo') : todo'[i] # g
<1>4. /\ todo \in Seq(SourceFiles) /\ f = todo[1] /\ todo' \in Seq(SourceFiles)
      /\ Len(todo) > 0 /\ Len(todo') = Len(todo) - 1
      /\ \A i \in 1 .. Len(todo') : todo'[i] = todo[i + 1]
    BY <1>1, <1>2, <1>3 DEF I!TypeOK
<1>5. /\ new \in Seq(Chunk) /\ Len(new) = m /\ m \in Nat
      /\ \A i \in 1 .. m : new[i] = Item(f, i)
    <2>1. /\ sources[f] \in Seq([seq : Nat, text : I!Texts])
          /\ I!ChunksOf(f) \in Seq([id : I!Ids, text : I!Texts])
          /\ Len(I!ChunksOf(f)) = Len(sources[f])
          /\ \A i \in 1 .. Len(sources[f]) : I!ChunksOf(f)[i] = Item(f, i)
        BY <1>2, ChunksOfFile
    <2>2. Len(sources[f]) \in Nat
        BY <2>1
    <2>3. QED
        BY <2>1, <2>2
<1>6. n \in Nat /\ collected \in Seq(Chunk)
    BY <1>2 DEF I!TypeOK
<1>7. collected' = collected \o new
    BY <1>1, <1>3
<1>8. Chunk = [id : I!Ids, text : I!Texts]
    OBVIOUS
<1> HIDE DEF n, new, m, Chunk, Out
<1>9. /\ collected' \in Seq(Chunk) /\ Len(collected') = n + m
      /\ \A k \in 1 .. n : collected'[k] = collected[k]
      /\ \A i \in 1 .. m : collected'[n + i] = Item(f, i)
    <2>1. /\ collected' \in Seq(Chunk) /\ Len(collected') = Len(collected) + Len(new)
          /\ \A k \in 1 .. Len(collected) : collected'[k] = collected[k]
          /\ \A i \in 1 .. Len(new) : collected'[Len(collected) + i] = new[i]
        <3>1. /\ collected \o new \in Seq(Chunk) /\ Len(collected \o new) = Len(collected) + Len(new)
              /\ \A k \in 1 .. Len(collected) : (collected \o new)[k] = collected[k]
              /\ \A i \in 1 .. Len(new) : (collected \o new)[Len(collected) + i] = new[i]
            <4>1. collected \in Seq(Chunk) /\ new \in Seq(Chunk)
                BY <1>5, <1>6
            <4>2. QED
                BY ONLY <4>1, Joined
        <3>2. QED
            BY <1>7, <3>1
    <2>2. QED
        BY <1>5, <2>1 DEF n
<1>10. \A k \in 1 .. Len(collected') :
         \/ k \in 1 .. n
         \/ k - n \in 1 .. m /\ collected'[k] = Item(f, k - n) /\ collected'[k].id[1] = f
    <2>1. ASSUME NEW k \in 1 .. n + m, k \notin 1 .. n
          PROVE  k - n \in 1 .. m /\ collected'[k] = Item(f, k - n) /\ collected'[k].id[1] = f
        <3>1. k - n \in 1 .. m /\ k = n + (k - n)
            BY <1>5, <1>6, <2>1
        <3>2. collected'[k] = Item(f, k - n)
            BY <1>9, <3>1
        <3>3. Item(f, k - n).id[1] = f
            BY DEF Item
        <3>4. QED
            BY <3>1, <3>2, <3>3
    <2>2. QED
        BY <1>9, <2>1
<1>11. /\ ~ Loaded(f) /\ Out(f)
      /\ \A g \in SourceFiles : g # f => (Out(g) <=> Loaded(g))
    <2>1. \A i, j \in 1 .. Len(todo) : todo[i] = todo[j] => i = j
        BY <1>2 DEF Collection
    <2>2. \A i \in 1 .. Len(todo') : i + 1 \in 1 .. Len(todo) /\ i + 1 # 1
        BY <1>4
    <2>3. ~ Loaded(f) /\ Out(f)
        BY <1>4, <2>1, <2>2 DEF Loaded, Out
    <2>4. ASSUME NEW g \in SourceFiles, g # f
          PROVE  Out(g) <=> Loaded(g)
        <3>1. \A i \in 1 .. Len(todo) : i = 1 \/ i - 1 \in 1 .. Len(todo')
            BY <1>4
        <3>2. \A i \in 1 .. Len(todo) : i # 1 => todo[i] = todo'[i - 1]
            BY <1>4, <3>1
        <3>3. Out(g) => Loaded(g)
            BY <1>4, <2>4, <3>1, <3>2 DEF Loaded, Out
        <3>4. Loaded(g) => Out(g)
            BY <1>4, <2>2 DEF Loaded, Out
        <3>5. QED
            BY <3>3, <3>4
    <2>5. QED
        BY <2>3, <2>4
<1>12. \A k \in 1 .. n : collected[k] \in Chunk /\ collected[k].id[1] # f /\ collected[k].id[1] \in SourceFiles
    <2>1. ASSUME NEW k \in 1 .. n
          PROVE  collected[k] \in Chunk /\ collected[k].id[1] # f /\ collected[k].id[1] \in SourceFiles
        <3>1. collected[k] \in Chunk /\ Loaded(collected[k].id[1])
            BY <1>2, <1>6 DEF Collection, n
        <3>2. collected[k].id \in I!Ids
            BY <1>8, <3>1
        <3>3. QED
            BY <1>11, <3>1, <3>2 DEF I!Ids
    <2>2. QED
        BY <2>1
<1>13. I!TypeOK'
    <2>1. upserted' \in 0 .. Len(collected') /\ collected' \in Seq([id : I!Ids, text : I!Texts])
        BY <1>1, <1>2, <1>5, <1>6, <1>9, <1>8
    <2>2. QED
        BY <1>1, <1>2, <1>4, <2>1 DEF I!TypeOK
<1>14. Collection'
    <2>1. ASSUME NEW k \in 1 .. Len(collected')
          PROVE  Out(collected'[k].id[1])
        <3>1. CASE k \in 1 .. n
            BY <1>2, <1>9, <1>11, <1>12, <3>1 DEF Collection, n
        <3>2. CASE collected'[k].id[1] = f
            BY <1>11, <3>2
        <3>3. QED
            BY <1>10, <2>1, <3>1, <3>2
    <2>2. \A i, j \in 1 .. Len(todo') : todo'[i] = todo'[j] => i = j
        <3>1. \A i, j \in 1 .. Len(todo) : todo[i] = todo[j] => i = j
            BY <1>2 DEF Collection
        <3>2. QED
            BY <1>4, <3>1
    <2>3. \A k \in 1 .. Len(collected') : \A i \in 1 .. Len(todo') : todo'[i] # collected'[k].id[1]
        BY <2>1 DEF Out
    <2>4. QED
        BY <2>2, <2>3 DEF Collection, Loaded
<1>15. CollectionIsCorpus'
    <2>1. SUFFICES ASSUME ~ edited, NEW g \in SourceFiles, Out(g)
                   PROVE  \E ahead \in Nat : StandsBehind(g, ahead)'
        BY <1>1 DEF CollectionIsCorpus, Loaded, Out
    <2>2. CASE g = f
        <3>1. n + Len(sources'[g]) <= Len(collected')
            BY <1>1, <1>9, <2>2 DEF m
        <3>2. \A i \in 1 .. Len(sources'[g]) : collected'[n + i] = Item(g, i)'
            BY <1>1, <1>9, <2>2 DEF m, Item
        <3>3. \A k \in 1 .. Len(collected') :
                 collected'[k].id[1] = g => k - n \in 1 .. Len(sources'[g])
            <4>1. ASSUME NEW k \in 1 .. Len(collected'), collected'[k].id[1] = g
                  PROVE  k - n \in 1 .. m
                <5>1. k \notin 1 .. n
                    BY <1>9, <1>12, <2>2, <4>1
                <5>2. QED
                    BY <1>10, <4>1, <5>1
            <4>2. QED
                BY <1>1, <2>2, <4>1 DEF m
        <3>4. PICK ahead \in Nat : ahead = n
            BY <1>6
        <3>5. StandsBehind(g, ahead)'
            BY <3>1, <3>2, <3>3, <3>4 DEF StandsBehind
        <3>6. QED
            BY <3>5
    <2>3. CASE g # f
        <3>1. PICK ahead \in Nat : StandsBehind(g, ahead)
            BY <1>1, <1>2, <1>11, <2>1, <2>3 DEF CollectionIsCorpus
        <3>2. PICK len \in Nat : len = Len(sources[g])
            BY <1>2, ChunksOfFile
        <3>3. /\ ahead + len <= n
              /\ \A i \in 1 .. len : collected[ahead + i] = Item(g, i)
              /\ \A k \in 1 .. n : collected[k].id[1] = g => k - ahead \in 1 .. len
            BY <3>1, <3>2 DEF StandsBehind, n
        <3>4. ahead + len <= Len(collected')
            BY <1>5, <1>6, <1>9, <3>3
        <3>5. \A i \in 1 .. len : collected'[ahead + i] = Item(g, i)'
            <4>1. ASSUME NEW i \in 1 .. len
                  PROVE  collected'[ahead + i] = Item(g, i)
                <5>1. ahead + i \in 1 .. n
                    BY <1>6, <3>3
                <5>2. QED
                    BY <1>9, <3>3, <5>1
            <4>2. \A i : Item(g, i)' = Item(g, i)
                BY <1>1 DEF Item
            <4>3. QED
                BY <4>1, <4>2
        <3>6. \A k \in 1 .. Len(collected') : collected'[k].id[1] = g => k - ahead \in 1 .. len
            <4>1. ASSUME NEW k \in 1 .. Len(collected'), collected'[k].id[1] = g
                  PROVE  k - ahead \in 1 .. len
                <5>1. k \in 1 .. n
                    BY <1>10, <2>3, <4>1
                <5>2. QED
                    BY <1>9, <3>3, <4>1, <5>1
            <4>2. QED
                BY <4>1
        <3>7. Len(sources'[g]) = len
            BY <1>1, <3>2
        <3>8. StandsBehind(g, ahead)'
            BY <3>4, <3>5, <3>6, <3>7 DEF StandsBehind
        <3>9. QED
            BY <3>8
    <2>4. QED
        BY <2>2, <2>3
<1>16. RunOK' /\ I!PassedIsWritten'
    BY <1>1, <1>2, <1>14, <1>15 DEF RunOK, I!PassedIsWritten
<1>17. QED
    BY <1>13, <1>16 DEF IndexerInv

LEMMA CollectedIndexer ==
    ASSUME I!IndexerAssumption, IndexerInv, I!Collected
    PROVE  IndexerInv'
<1> DEFINE Chunk == [id : I!Ids, text : I!Texts]
<1>1. /\ phase = "collecting" /\ todo = <<>> /\ phase' = "ensuring" /\ collected' = I!Limited
      /\ UNCHANGED <<sources, exists, points, recreate, limit, todo, upserted, edited, runs, edits>>
    BY DEF I!Collected
<1>2. /\ I!TypeOK /\ Collection /\ CollectionIsCorpus /\ upserted = 0
      /\ collected \in Seq(Chunk) /\ limit \in Nat
    BY <1>1 DEF IndexerInv, RunOK, I!TypeOK, I!IndexerAssumption
<1>3. Chunk = [id : I!Ids, text : I!Texts]
    OBVIOUS
<1> HIDE DEF Chunk
<1>4. /\ collected' \in Seq(Chunk) /\ Len(collected') <= Len(collected) /\ Len(collected') \in Nat
      /\ \A k \in 1 .. Len(collected') : collected'[k] = collected[k]
      /\ limit = 0 => collected' = collected
    <2>1. CASE collected' = collected
        BY <1>2, <2>1
    <2>2. CASE limit # 0 /\ limit < Len(collected) /\ collected' = SubSeq(collected, 1, limit)
        BY <1>2, <2>2
    <2>3. QED
        BY <1>1, <1>2, <2>1, <2>2 DEF I!Limited
<1>5. I!TypeOK'
    <2>1. upserted' \in 0 .. Len(collected') /\ collected' \in Seq([id : I!Ids, text : I!Texts])
        BY <1>1, <1>2, <1>3, <1>4
    <2>2. QED
        BY <1>1, <1>2, <2>1 DEF I!TypeOK, I!Phases
<1>6. Collection'
    BY <1>1, <1>2, <1>4 DEF Collection, Loaded
<1>7. CollectionIsCorpus'
    BY <1>1, <1>2, <1>4, SameCorpus
<1>8. RunOK' /\ I!PassedIsWritten'
    BY <1>1, <1>2, <1>6, <1>7 DEF RunOK, I!PassedIsWritten
<1>9. QED
    BY <1>5, <1>8 DEF IndexerInv

LEMMA EnsureIndexer ==
    ASSUME I!IndexerAssumption, IndexerInv, I!Drop \/ I!Ensured
    PROVE  IndexerInv'
<1>1. /\ phase = "ensuring" /\ I!TypeOK /\ RunOK /\ upserted = 0 /\ todo = <<>>
      /\ UNCHANGED <<sources, recreate, limit, todo, collected, upserted, edited, runs, edits>>
    BY DEF IndexerInv, RunOK, I!Drop, I!Ensured, I!jobVars
<1>2. Collection' /\ CollectionIsCorpus'
    <2>1. Collection /\ CollectionIsCorpus
        BY <1>1 DEF RunOK
    <2>2. Collection'
        BY <1>1, <2>1 DEF Collection, Loaded
    <2>3. CollectionIsCorpus'
        <3>1. phase' \in {"ensuring", "writing"}
            BY <1>1 DEF I!Drop, I!Ensured, I!jobVars
        <3>2. QED
            BY <1>1, <2>1, <3>1, SameCorpus
    <2>4. QED
        BY <2>2, <2>3
<1>3. CASE I!Drop
    <2>1. exists' = FALSE /\ phase' = phase /\ points' = [id \in I!Ids |-> Nothing]
        BY <1>3 DEF I!Drop, I!NoPoints, I!jobVars
    <2>2. /\ points' \in [I!Ids -> I!Texts \cup {Nothing}]
          /\ \A id \in I!Ids : points'[id] = Nothing
        BY <2>1
    <2>3. I!TypeOK'
        BY <1>1, <2>1, <2>2 DEF I!TypeOK
    <2>4. RunOK' /\ I!PassedIsWritten'
        BY <1>1, <1>2, <2>1 DEF RunOK, I!PassedIsWritten
    <2>5. QED
        BY <2>3, <2>4 DEF IndexerInv
<1>4. CASE I!Ensured
    <2>1. phase' = "writing" /\ exists' = TRUE /\ points' = points /\ ~ (exists /\ recreate)
        BY <1>4 DEF I!Ensured
    <2>2. I!TypeOK'
        BY <1>1, <2>1 DEF I!TypeOK, I!Phases
    <2>3. recreate => \A id \in I!Ids : points[id] = Nothing
        BY <1>1, <2>1 DEF I!TypeOK
    <2>4. RunOK' /\ I!PassedIsWritten'
        BY <1>1, <1>2, <2>1, <2>3 DEF RunOK, I!PassedIsWritten
    <2>5. QED
        BY <2>2, <2>4 DEF IndexerInv
<1>5. QED
    BY <1>3, <1>4

\* An element of a sequence is of its type.
LEMMA ElementOf == ASSUME NEW T, NEW s \in Seq(T), NEW k \in 1 .. Len(s) PROVE s[k] \in T
OBVIOUS

\* A set of positions up to n that is not empty has a last one.
LEMMA LastOne ==
    ASSUME NEW n \in Nat, NEW S \in SUBSET (1 .. n), S # {}
    PROVE  I!Max(S) \in S /\ \A y \in S : y <= I!Max(S)
<1> DEFINE back == {n - x : x \in S}
<1>1. back \in SUBSET Nat /\ back # {}
    <2>1. \A x \in S : n - x \in Nat
        OBVIOUS
    <2>2. QED
        BY <2>1
<1>2. PICK b \in back : \A y \in back : b <= y
    <2> HIDE DEF back
    <2>1. QED
        BY <1>1, LeastOf
<1>3. PICK x \in S : b = n - x
    BY <1>2
<1>4. \A y \in S : x >= y
    <2>1. ASSUME NEW y \in S
          PROVE  x >= y
        <3>1. n - x <= n - y
            BY <1>2, <1>3
        <3>2. QED
            BY <3>1
    <2>2. QED
        BY <2>1
<1>5. QED
    BY <1>3, <1>4 DEF I!Max

\* What an upsert of the next batch leaves: the text of the last chunk of the batch
\* at each id the batch has, and the other points.
LEMMA UpsertedIndexer ==
    ASSUME I!IndexerAssumption, IndexerInv, phase = "writing"
    PROVE  /\ I!BatchEnd \in upserted .. Len(collected) /\ upserted \in 0 .. Len(collected)
           /\ upserted < Len(collected) => upserted < I!BatchEnd
           /\ I!Upserted \in [I!Ids -> I!Texts \cup {Nothing}]
           /\ \A id \in I!Ids :
                 \/ /\ I!Upserted[id] = points[id]
                    /\ \A k \in (upserted + 1) .. I!BatchEnd : collected[k].id # id
                 \/ \E k \in (upserted + 1) .. I!BatchEnd :
                       /\ collected[k].id = id /\ I!Upserted[id] = collected[k].text
                       /\ \A j \in (upserted + 1) .. I!BatchEnd : collected[j].id = id => j <= k
           /\ \A k \in 1 .. Len(collected) :
                 collected[k].id \in I!Ids /\ collected[k].text \in I!Texts
<1> DEFINE Chunk == [id : I!Ids, text : I!Texts]
           B == (upserted + 1) .. I!BatchEnd
           u == I!Upserted
<1>1. /\ points \in [I!Ids -> I!Texts \cup {Nothing}] /\ upserted \in 0 .. Len(collected)
      /\ collected \in Seq(Chunk) /\ UpsertBatch \in Nat \ {0}
    BY DEF IndexerInv, I!TypeOK, I!IndexerAssumption
<1>2. /\ I!BatchEnd \in upserted .. Len(collected)
      /\ upserted < Len(collected) => upserted < I!BatchEnd
    BY <1>1 DEF I!BatchEnd
<1>3. B \subseteq 1 .. Len(collected) /\ Len(collected) \in Nat
    BY <1>1, <1>2
<1>4. \A k \in 1 .. Len(collected) : collected[k].id \in I!Ids /\ collected[k].text \in I!Texts
    <2>1. ASSUME NEW k \in 1 .. Len(collected)
          PROVE  collected[k] \in Chunk
        BY <1>1, ElementOf
    <2>2. QED
        BY <2>1
<1>5. /\ \A id \in I!Ids : u[id] = IF I!InBatch(id) = {} THEN points[id]
                                  ELSE collected[I!Max(I!InBatch(id))].text
      /\ u = [id \in I!Ids |-> u[id]]
    BY DEF I!Upserted
<1>6. \A id : I!InBatch(id) = {k \in B : collected[k].id = id}
    BY DEF I!InBatch
<1> HIDE DEF Chunk, B, u
<1>7. ASSUME NEW id \in I!Ids
      PROVE  \/ u[id] = points[id] /\ \A k \in B : collected[k].id # id
             \/ \E k \in B : /\ collected[k].id = id /\ u[id] = collected[k].text
                             /\ \A j \in B : collected[j].id = id => j <= k
    <2>1. PICK K : K = I!InBatch(id)
        OBVIOUS
    <2>2. K = {k \in B : collected[k].id = id}
        BY <1>6, <2>1
    <2>3. CASE K = {}
        <3>1. u[id] = points[id]
            BY <1>5, <1>7, <2>1, <2>3
        <3>2. \A k \in B : collected[k].id # id
            BY <2>2, <2>3
        <3>3. QED
            BY <3>1, <3>2
    <2>4. CASE K # {}
        <3>1. K \in SUBSET (1 .. Len(collected))
            BY <1>3, <2>2
        <3>2. PICK k : k = I!Max(K)
            OBVIOUS
        <3>3. k \in K /\ \A j \in K : j <= k
            BY <1>3, <2>4, <3>1, <3>2, LastOne
        <3>4. k \in B /\ collected[k].id = id
            BY <2>2, <3>3
        <3>5. u[id] = collected[k].text
            BY <1>5, <1>7, <2>1, <2>4, <3>2
        <3>6. \A j \in B : collected[j].id = id => j <= k
            BY <2>2, <3>3
        <3>7. QED
            BY <3>4, <3>5, <3>6
    <2>5. QED
        BY <2>3, <2>4
<1>8. u \in [I!Ids -> I!Texts \cup {Nothing}]
    <2>1. \A id \in I!Ids : u[id] \in I!Texts \cup {Nothing}
        BY <1>1, <1>3, <1>4, <1>7
    <2>2. QED
        BY <1>5, <2>1
<1>9. QED
    BY <1>1, <1>2, <1>4, <1>7, <1>8 DEF u, B

\* Nothing is claimed of a run that is over before its end.
LEMMA OffIndexer ==
    ASSUME IndexerInv, phase' = "off", I!TypeOK'
    PROVE  IndexerInv'
BY DEF IndexerInv, RunOK, I!PassedIsWritten

LEMMA WriteIndexer ==
    ASSUME I!IndexerAssumption, IndexerInv, I!Write
    PROVE  IndexerInv'
<1>1. /\ phase = "writing" /\ upserted < Len(collected) /\ points' = I!Upserted /\ upserted' = I!BatchEnd
      /\ UNCHANGED <<sources, exists, phase, recreate, limit, todo, collected, edited, runs, edits>>
    BY DEF I!Write
<1>2. I!TypeOK /\ RunOK /\ I!PassedIsWritten
    BY DEF IndexerInv
<1>3. /\ upserted' \in upserted .. Len(collected) /\ upserted \in 0 .. Len(collected)
      /\ points' \in [I!Ids -> I!Texts \cup {Nothing}]
      /\ \A id \in I!Ids :
            \/ /\ points'[id] = points[id]
               /\ \A k \in (upserted + 1) .. upserted' : collected[k].id # id
            \/ \E k \in (upserted + 1) .. upserted' :
                  /\ collected[k].id = id /\ points'[id] = collected[k].text
                  /\ \A j \in (upserted + 1) .. upserted' : collected[j].id = id => j <= k
      /\ \A k \in 1 .. Len(collected) : collected[k].id \in I!Ids
    BY <1>1, UpsertedIndexer
<1>4. Len(collected) \in Nat /\ exists
    BY <1>1, <1>2 DEF I!TypeOK, RunOK
<1>5. I!TypeOK'
    <2>1. upserted' \in 0 .. Len(collected')
        BY <1>1, <1>3, <1>4
    <2>2. QED
        BY <1>1, <1>2, <1>3, <1>4, <2>1 DEF I!TypeOK
<1>6. RunOK'
    <2>1. Collection' /\ CollectionIsCorpus'
        <3>1. Collection /\ CollectionIsCorpus
            BY <1>1, <1>2 DEF RunOK
        <3>2. Collection'
            BY <1>1, <3>1 DEF Collection, Loaded
        <3>3. QED
            BY <1>1, <3>1, <3>2, SameCorpus
    <2>2. QED
        BY <1>1, <1>2, <2>1 DEF RunOK
<1>7. I!PassedIsWritten'
    <2>1. ASSUME NEW k \in 1 .. upserted', \A j \in (k + 1) .. upserted' : collected[j].id # collected[k].id
          PROVE  points'[collected[k].id] = collected[k].text
        <3>1. PICK id \in I!Ids : id = collected[k].id
            BY <1>3, <1>4
        <3>2. CASE /\ points'[id] = points[id]
                   /\ \A i \in (upserted + 1) .. upserted' : collected[i].id # id
            <4>1. k \in 1 .. upserted
                BY <1>3, <1>4, <3>1, <3>2
            <4>2. I!LastOfId(k, upserted)
                BY <1>3, <1>4, <2>1 DEF I!LastOfId
            <4>3. points[id] = collected[k].text
                BY <1>1, <1>2, <3>1, <4>1, <4>2 DEF I!PassedIsWritten
            <4>4. QED
                BY <3>1, <3>2, <4>3
        <3>3. ASSUME NEW i \in (upserted + 1) .. upserted', collected[i].id = id,
                     points'[id] = collected[i].text,
                     \A j \in (upserted + 1) .. upserted' : collected[j].id = id => j <= i
              PROVE  points'[id] = collected[k].text
            <4>1. k >= i
                BY <1>3, <1>4, <2>1, <3>1, <3>3
            <4>2. k \in (upserted + 1) .. upserted'
                BY <1>3, <1>4, <4>1
            <4>3. k = i
                BY <1>3, <1>4, <3>1, <3>3, <4>1, <4>2
            <4>4. QED
                BY <3>3, <4>3
        <3>4. QED
            BY <1>3, <3>1, <3>2, <3>3
    <2>2. ASSUME recreate, NEW id \in I!Ids, points'[id] # Nothing
          PROVE  \E k \in 1 .. upserted' : collected[k].id = id
        <3>1. 1 .. upserted \subseteq 1 .. upserted' /\ (upserted + 1) .. upserted' \subseteq 1 .. upserted'
            BY <1>3, <1>4
        <3>2. CASE points'[id] = points[id]
            BY <1>1, <1>2, <2>2, <3>1, <3>2 DEF I!PassedIsWritten
        <3>3. QED
            BY <1>3, <2>2, <3>1, <3>2
    <2>3. QED
        BY <1>1, <2>1, <2>2 DEF I!PassedIsWritten, I!LastOfId
<1>8. QED
    BY <1>5, <1>6, <1>7 DEF IndexerInv

LEMMA FinishIndexer ==
    ASSUME I!IndexerAssumption, IndexerInv, I!Finish
    PROVE  IndexerInv'
<1>1. /\ phase = "writing" /\ upserted >= Len(collected) /\ phase' = "finished"
      /\ UNCHANGED <<sources, exists, points, recreate, limit, todo, collected, upserted, edited, runs,
                     edits>>
    BY DEF I!Finish
<1>2. I!TypeOK /\ RunOK /\ I!PassedIsWritten
    BY DEF IndexerInv
<1>3. I!TypeOK' /\ upserted = Len(collected)
    BY <1>1, <1>2 DEF I!TypeOK, I!Phases
<1>4. RunOK'
    <2>1. Collection' /\ CollectionIsCorpus'
        <3>1. Collection /\ CollectionIsCorpus
            BY <1>1, <1>2 DEF RunOK
        <3>2. Collection'
            BY <1>1, <3>1 DEF Collection, Loaded
        <3>3. QED
            BY <1>1, <3>1, <3>2, SameCorpus
    <2>2. QED
        BY <1>1, <1>2, <1>3, <2>1 DEF RunOK
<1>5. I!PassedIsWritten'
    BY <1>1, <1>2 DEF I!PassedIsWritten, I!LastOfId
<1>6. QED
    BY <1>3, <1>4, <1>5 DEF IndexerInv

LEMMA DiesIndexer ==
    ASSUME I!IndexerAssumption, IndexerInv, I!Dies
    PROVE  IndexerInv'
<1>1. /\ phase' = "off"
      /\ points' = points \/ (phase = "writing" /\ points' = I!Upserted)
      /\ UNCHANGED <<sources, exists, recreate, limit, todo, collected, upserted, edited, runs, edits>>
    BY DEF I!Dies
<1>2. I!TypeOK /\ RunOK
    BY DEF IndexerInv
<1>3. I!TypeOK'
    <2>1. points' \in [I!Ids -> I!Texts \cup {Nothing}]
        BY <1>1, <1>2, UpsertedIndexer DEF I!TypeOK
    <2>2. exists \/ points' = points
        BY <1>1, <1>2 DEF RunOK
    <2>3. QED
        BY <1>1, <1>2, <2>1, <2>2 DEF I!TypeOK, I!Phases
<1>4. QED
    BY <1>1, <1>3, OffIndexer

LEMMA EditIndexer ==
    ASSUME I!IndexerAssumption, IndexerInv, NEW f \in SourceFiles, NEW c \in Contents, I!Edit(f, c)
    PROVE  IndexerInv'
<1>1. /\ edits < MaxEdits /\ edits' = edits + 1 /\ edited' = TRUE
      /\ sources' = [sources EXCEPT ![f] = c]
      /\ UNCHANGED <<exists, points, phase, recreate, limit, todo, collected, upserted, runs>>
    BY DEF I!Edit, I!jobVars
<1>2. I!TypeOK /\ RunOK /\ I!PassedIsWritten /\ MaxEdits \in Nat
    BY DEF IndexerInv, I!IndexerAssumption
<1>3. I!TypeOK'
    <2>1. sources' \in [SourceFiles -> Contents] /\ edits' \in 0 .. MaxEdits
        BY <1>1, <1>2 DEF I!TypeOK
    <2>2. QED
        BY <1>1, <1>2, <2>1 DEF I!TypeOK
<1>4. RunOK'
    <2>1. phase # "off" => Collection' /\ CollectionIsCorpus'
        BY <1>1, <1>2, SameCorpus DEF RunOK, Collection, Loaded
    <2>2. QED
        BY <1>1, <1>2, <2>1 DEF RunOK
<1>5. I!PassedIsWritten'
    BY <1>1, <1>2 DEF I!PassedIsWritten, I!LastOfId
<1>6. QED
    BY <1>3, <1>4, <1>5 DEF IndexerInv

LEMMA StutterIndexer == ASSUME IndexerInv, UNCHANGED I!vars PROVE IndexerInv'
<1>1. UNCHANGED <<sources, exists, points, phase, recreate, limit, todo, collected, upserted, edited, runs,
                  edits>>
    BY DEF I!vars, I!jobVars
<1>2. I!TypeOK'
    BY <1>1 DEF IndexerInv, I!TypeOK
<1>3. RunOK'
    <2>1. phase # "off" => Collection' /\ CollectionIsCorpus'
        BY <1>1, SameCorpus DEF IndexerInv, RunOK, Collection, Loaded
    <2>2. QED
        BY <1>1, <2>1 DEF IndexerInv, RunOK
<1>4. I!PassedIsWritten'
    BY <1>1 DEF IndexerInv, I!PassedIsWritten, I!LastOfId
<1>5. QED
    BY <1>2, <1>3, <1>4 DEF IndexerInv

\* What DroppedOnlyToRebuild says of a step.
DropsToRebuild ==
    \A id \in I!Ids :
        points[id] # Nothing /\ points'[id] = Nothing
          => phase = "ensuring" /\ recreate /\ todo = <<>>

LEMMA StepDropsToRebuild ==
    ASSUME I!IndexerAssumption, IndexerInv, I!Next
    PROVE  DropsToRebuild
<1>1. CASE points' = points
    BY <1>1 DEF DropsToRebuild
<1>2. CASE I!Drop
    BY <1>2 DEF I!Drop, IndexerInv, RunOK, DropsToRebuild
<1>3. ASSUME phase = "writing", points' = I!Upserted
      PROVE  DropsToRebuild
    <2>1. \A id \in I!Ids : points'[id] = points[id] \/ points'[id] \in I!Texts
        <3>1. /\ I!BatchEnd \in upserted .. Len(collected) /\ upserted \in 0 .. Len(collected)
              /\ \A k \in 1 .. Len(collected) : collected[k].text \in I!Texts
              /\ \A id \in I!Ids :
                    \/ points'[id] = points[id]
                    \/ \E k \in (upserted + 1) .. I!BatchEnd : points'[id] = collected[k].text
            BY <1>3, UpsertedIndexer
        <3>2. (upserted + 1) .. I!BatchEnd \subseteq 1 .. Len(collected)
            BY <3>1 DEF IndexerInv, I!TypeOK
        <3>3. QED
            BY <3>1, <3>2
    <2>2. QED
        BY <2>1 DEF I!IndexerAssumption, DropsToRebuild
<1>4. CASE I!Write \/ I!Dies
    BY <1>1, <1>3, <1>4 DEF I!Write, I!Dies
<1>5. CASE I!Load \/ I!Collected \/ I!Ensured \/ I!Finish
    BY <1>1, <1>5 DEF I!Load, I!Collected, I!Ensured, I!Finish
<1>6. ASSUME NEW again \in BOOLEAN, NEW n \in Limits, I!Launch(again, n)
      PROVE  DropsToRebuild
    BY <1>1, <1>6 DEF I!Launch
<1>7. ASSUME NEW f \in SourceFiles, NEW c \in Contents, I!Edit(f, c)
      PROVE  DropsToRebuild
    BY <1>1, <1>7 DEF I!Edit
<1>8. QED
    BY <1>2, <1>4, <1>5, <1>6, <1>7 DEF I!Next

\* A run that is finished has written what it collected, and that is the corpus.
LEMMA FinishedIndexer ==
    ASSUME I!IndexerAssumption, IndexerInv PROVE I!FinishedIsCorpus
<1> SUFFICES ASSUME phase = "finished", limit = 0, ~ edited, NEW f \in SourceFiles
             PROVE  /\ \A i \in DOMAIN sources[f] : I!LastOfSeq(f, i) =>
                          points[<<f, sources[f][i].seq>>] = sources[f][i].text
                    /\ recreate => \A s \in I!Seqs : points[<<f, s>>] # Nothing =>
                          \E i \in DOMAIN sources[f] : sources[f][i].seq = s
    BY DEF I!FinishedIsCorpus
<1>1. /\ CollectionIsCorpus /\ upserted = Len(collected) /\ todo = <<>> /\ I!PassedIsWritten /\ I!TypeOK
      /\ Len(collected) \in Nat
    BY DEF IndexerInv, RunOK, I!TypeOK
<1>2. PICK m \in Nat : m = Len(sources[f]) /\ DOMAIN sources[f] = 1 .. m
    <2>1. sources[f] \in Seq([seq : Nat, text : I!Texts])
        BY <1>1, ChunksOfFile
    <2>2. QED
        BY <2>1
<1>3. PICK n \in Nat : StandsBehind(f, n)
    BY <1>1 DEF CollectionIsCorpus, Loaded
<1>4. /\ n + m <= Len(collected)
      /\ \A i \in 1 .. m : collected[n + i] = Item(f, i)
      /\ \A k \in 1 .. Len(collected) : collected[k].id[1] = f => k - n \in 1 .. m
    BY <1>2, <1>3 DEF StandsBehind
<1>5. \A i : /\ Item(f, i).id = <<f, sources[f][i].seq>> /\ Item(f, i).id[1] = f
             /\ Item(f, i).text = sources[f][i].text
    BY DEF Item
<1>6. ASSUME NEW i \in 1 .. m, I!LastOfSeq(f, i)
      PROVE  points[<<f, sources[f][i].seq>>] = sources[f][i].text
    <2>1. n + i \in 1 .. Len(collected) /\ collected[n + i] = Item(f, i)
        BY <1>1, <1>4
    <2>2. ASSUME NEW j \in (n + i + 1) .. Len(collected), collected[j].id = collected[n + i].id
          PROVE  FALSE
        <3>1. j \in 1 .. Len(collected) /\ collected[j].id[1] = f
            BY <1>1, <1>5, <2>1, <2>2
        <3>2. j - n \in 1 .. m /\ j - n > i /\ n + (j - n) = j
            BY <1>1, <1>4, <2>2, <3>1
        <3>3. collected[j] = Item(f, j - n)
            BY <1>4, <3>2
        <3>4. <<f, sources[f][j - n].seq>> = <<f, sources[f][i].seq>>
            BY <1>5, <2>1, <2>2, <3>3
        <3>5. sources[f][j - n].seq = sources[f][i].seq
            BY <3>4
        <3>6. QED
            BY <1>2, <1>6, <3>2, <3>5 DEF I!LastOfSeq
    <2>3. I!LastOfId(n + i, upserted)
        BY <1>1, <2>2 DEF I!LastOfId
    <2>4. points[collected[n + i].id] = collected[n + i].text
        BY <1>1, <2>1, <2>3 DEF I!PassedIsWritten
    <2>5. QED
        BY <1>5, <2>1, <2>4
<1>7. ASSUME recreate, NEW s \in I!Seqs, points[<<f, s>>] # Nothing
      PROVE  \E i \in 1 .. m : sources[f][i].seq = s
    <2>1. <<f, s>> \in I!Ids
        BY DEF I!Ids
    <2>2. PICK k \in 1 .. Len(collected) : collected[k].id = <<f, s>>
        BY <1>1, <1>7, <2>1 DEF I!PassedIsWritten
    <2>3. k - n \in 1 .. m /\ n + (k - n) = k
        BY <1>4, <2>2
    <2>4. collected[k] = Item(f, k - n)
        BY <1>4, <2>3
    <2>5. <<f, sources[f][k - n].seq>> = <<f, s>>
        BY <1>5, <2>2, <2>4
    <2>6. QED
        BY <2>3, <2>5
<1>8. QED
    BY <1>2, <1>6, <1>7

-----------------------------------------------------------------------------
(* The loaders. *)

Piece == [len : Lengths, opens : BOOLEAN]

\* What a text is.
LEMMA TextType ==
    ASSUME C!ChunkingAssumption, text \in C!Texts
    PROVE  /\ text \in Seq(Piece) /\ Len(text) \in Nat
           /\ \A p \in 1 .. Len(text) : text[p] \in Piece /\ text[p].len \in Nat
<1>1. PICK n \in 0 .. MaxPieces : text \in [1 .. n -> Piece]
    BY DEF C!Texts, Piece
<1>2. n \in Nat /\ Lengths \subseteq Nat
    BY DEF C!ChunkingAssumption
<1>3. text \in Seq(Piece) /\ Len(text) = n
    BY <1>1, <1>2
<1>4. QED
    BY <1>1, <1>2, <1>3 DEF Piece

\* Piece e is the last of the paragraph that piece p is in.
Closes(p, e) ==
    /\ e \in p .. Len(text)
    /\ e = Len(text) \/ text[e + 1].opens
    /\ \A q \in (p + 1) .. e : ~ text[q].opens

LEMMA ParagraphEnds ==
    ASSUME Len(text) \in Nat, NEW p \in 1 .. Len(text)
    PROVE  C!ParagraphEnd(p) \in p .. Len(text) /\ Closes(p, C!ParagraphEnd(p))
<1> DEFINE S == {q \in p .. Len(text) : q = Len(text) \/ text[q + 1].opens}
<1>1. S \in SUBSET Nat /\ Len(text) \in S
    OBVIOUS
<1>2. PICK x \in S : \A y \in S : x <= y
    BY <1>1, LeastOf
<1> HIDE DEF S
<1>3. (CHOOSE z \in S : \A y \in S : z <= y) \in S
      /\ \A y \in S : (CHOOSE z \in S : \A v \in S : z <= v) <= y
    BY <1>2
<1>4. PICK e : e = C!ParagraphEnd(p)
    OBVIOUS
<1>5. e \in S /\ \A y \in S : e <= y
    BY <1>3, <1>4 DEF S, C!ParagraphEnd, C!Min
<1> USE DEF S
<1>6. ASSUME NEW q \in (p + 1) .. e PROVE ~ text[q].opens
    <2>1. q - 1 \in p .. Len(text) /\ ~ (e <= q - 1) /\ (q - 1) + 1 = q
        BY <1>5
    <2>2. QED
        BY <1>5, <2>1
<1>7. e \in p .. Len(text) /\ (e = Len(text) \/ text[e + 1].opens)
    BY <1>5
<1>8. QED
    BY <1>4, <1>6, <1>7 DEF Closes

\* Piece o opens the conversation that piece p is of.
Converses(o, p) == o \in 1 .. p /\ text[o].opens /\ \A q \in (o + 1) .. p : ~ text[q].opens

LEMMA OpensConversation ==
    ASSUME NEW p \in Nat, NEW o, Converses(o, p) PROVE C!OpensAt(p) = o
<1> DEFINE S == {q \in 1 .. p : text[q].opens}
<1>1. o \in S /\ \A q \in S : o >= q
    BY DEF Converses
<1>2. \A z \in S : (\A q \in S : z >= q) => z = o
    BY <1>1
<1> HIDE DEF S
<1>3. (CHOOSE z \in S : \A q \in S : z >= q) = o
    BY <1>1, <1>2
<1>4. QED
    BY <1>3 DEF S, C!OpensAt, C!Max


ReachedBy(cs) == IF cs = <<>> THEN 0 ELSE cs[Len(cs)].last

\* A chunk begins where the one before it ends, but for blank pieces.
Ordered(cs) ==
    \A k \in 1 .. Len(cs) :
        /\ C!Follows(IF k = 1 THEN 0 ELSE cs[k - 1].last, cs[k].first)
        /\ cs[k].first <= cs[k].last

\* All pairs of chunks, not the neighbours only; none goes beyond piece n.
Apart(cs, n) ==
    /\ \A j, k \in 1 .. Len(cs) : j < k => cs[j].last < cs[k].first
    /\ \A k \in 1 .. Len(cs) : cs[k].last <= n

\* The chunks after the first b are numbered from 0.
NumberedFrom(cs, b) == \A k \in (b + 1) .. Len(cs) : cs[k].seq = (k - 1) - b

\* How far the loader of any file is.
ReadingOK ==
    /\ C!TypeOK
    /\ text # <<>> => text[1].opens
    /\ Ordered(chunks) /\ Apart(chunks, IF from = 0 THEN read ELSE from - 1)
    /\ C!Follows(ReachedBy(chunks), IF from = 0 THEN read + 1 ELSE from)
    /\ done => read = Len(text) /\ from = 0
    /\ split # 0 => kind = "prose" /\ read <= split
    /\ kind # "visits" => NumberedFrom(chunks, base)
    /\ kind = "visits" => from = 0 /\ \A k \in 1 .. Len(chunks) : chunks[k].seq = chunks[k].first - 1
    /\ kind # "messages" => base = 0

\* Each chunk is of one conversation.
OneTalkEach(cs) ==
    \A k \in 1 .. Len(cs) : \E o \in Nat : Converses(o, cs[k].first) /\ Converses(o, cs[k].last)

\* No two chunks of one conversation have one number.
TalksNumbered(cs) ==
    \A j, k \in 1 .. Len(cs) :
        j < k /\ cs[j].seq = cs[k].seq => C!OpensAt(cs[j].first) # C!OpensAt(cs[k].first)

\* The conversation being read, opened by piece o: the window is of it, and the chunks
\* there were before are not.
InTalk(o) ==
    /\ o \in Nat /\ Converses(o, read)
    /\ from # 0 => o <= from
    /\ \A k \in 1 .. base : chunks[k].last < o

\* Where the loader of a message thread is.
TalkOK ==
    kind = "messages" =>
        /\ OneTalkEach(chunks)
        /\ TalksNumbered(chunks)
        /\ IF read = 0 THEN from = 0 /\ base = 0 /\ chunks = <<>> ELSE \E o \in Nat : InTalk(o)

ChunksInv == ReadingOK /\ TalkOK

LEMMA InitChunks == ASSUME C!ChunkingAssumption, C!Init PROVE ChunksInv
<1>1. text \in Seq(Piece) /\ Len(text) \in Nat
    BY TextType DEF C!Init
<1>2. C!TypeOK
    <2>1. chunks \in Seq(C!Chunk) /\ base \in 0 .. Len(chunks)
        BY DEF C!Init
    <2>2. turns \in [lines : Nat, len : Nat]
        BY DEF C!Init, C!NoTurns
    <2>3. /\ read = 0 /\ from = 0 /\ split = 0
          /\ kind \in C!Kinds /\ text \in C!Texts /\ done = FALSE
        BY DEF C!Init
    <2>4. /\ read \in 0 .. Len(text) /\ from \in 0 .. read /\ split \in 0 .. Len(text)
        BY <1>1, <2>3
    <2>5. QED
        BY <2>1, <2>2, <2>3, <2>4 DEF C!TypeOK
<1>3. ReadingOK
    BY <1>1, <1>2 DEF C!Init, ReadingOK, Ordered, Apart, C!Follows, ReachedBy, NumberedFrom
<1>4. TalkOK
    BY DEF C!Init, TalkOK, OneTalkEach, TalksNumbered
<1>5. QED
    BY <1>3, <1>4 DEF ChunksInv

\* One element more.
LEMMA Appended ==
    ASSUME NEW T, NEW s \in Seq(T), NEW e \in T
    PROVE  /\ Append(s, e) \in Seq(T) /\ Len(Append(s, e)) = Len(s) + 1 /\ Len(s) \in Nat
           /\ Append(s, e) # <<>>
           /\ \A k \in 1 .. Len(s) : Append(s, e)[k] = s[k]
           /\ Append(s, e)[Len(s) + 1] = e
OBVIOUS

\* One chunk more.
LEMMA AddChunk ==
    ASSUME NEW cs \in Seq(C!Chunk), NEW c \in C!Chunk, NEW n \in Nat,
           Ordered(cs), Apart(cs, n), C!Follows(ReachedBy(cs), c.first),
           n < c.first, c.first <= c.last, NEW new, new = Append(cs, c)
    PROVE  /\ new \in Seq(C!Chunk) /\ Len(new) = Len(cs) + 1
           /\ \A k \in 1 .. Len(cs) : new[k] = cs[k]
           /\ new[Len(new)] = c /\ ReachedBy(new) = c.last
           /\ Ordered(new) /\ Apart(new, c.last)
<1>1. /\ new \in Seq(C!Chunk) /\ Len(new) = Len(cs) + 1 /\ Len(cs) \in Nat /\ new # <<>>
      /\ \A k \in 1 .. Len(cs) : new[k] = cs[k]
      /\ new[Len(cs) + 1] = c
    <2>1. cs \in Seq(C!Chunk) /\ c \in C!Chunk /\ new = Append(cs, c)
        OBVIOUS
    <2>2. QED
        BY ONLY <2>1, Appended
<1>2. /\ c.first \in Nat /\ c.last \in Nat
      /\ \A k \in 1 .. Len(cs) : cs[k] \in C!Chunk /\ cs[k].first \in Nat /\ cs[k].last \in Nat
    <2>1. \A k \in 1 .. Len(cs) : cs[k] \in C!Chunk
        OBVIOUS
    <2>2. QED
        BY <2>1 DEF C!Chunk
<1>3. Len(cs) # 0 => ReachedBy(cs) = cs[Len(cs)].last
    BY DEF ReachedBy
<1>4. Len(cs) = 0 => ReachedBy(cs) = 0
    BY DEF ReachedBy
<1>5. Ordered(new)
    <2>1. SUFFICES ASSUME NEW k \in 1 .. Len(cs) + 1
                   PROVE  /\ C!Follows(IF k = 1 THEN 0 ELSE new[k - 1].last, new[k].first)
                          /\ new[k].first <= new[k].last
        BY <1>1 DEF Ordered
    <2>2. CASE k \in 1 .. Len(cs)
        <3>1. /\ C!Follows(IF k = 1 THEN 0 ELSE cs[k - 1].last, cs[k].first)
              /\ cs[k].first <= cs[k].last
            BY <2>2 DEF Ordered
        <3>2. k # 1 => k - 1 \in 1 .. Len(cs)
            BY <1>1, <2>2
        <3>3. QED
            BY <1>1, <2>2, <3>1, <3>2
    <2>3. CASE k = Len(cs) + 1
        BY <1>1, <1>3, <1>4, <2>3
    <2>4. QED
        BY <1>1, <2>1, <2>2, <2>3
<1>6. Apart(new, c.last)
    <2>1. ASSUME NEW j \in 1 .. Len(new), NEW k \in 1 .. Len(new), j < k
          PROVE  new[j].last < new[k].first
        <3>1. j \in 1 .. Len(cs) /\ cs[j].last <= n
            BY <1>1, <2>1 DEF Apart
        <3>2. CASE k \in 1 .. Len(cs)
            BY <1>1, <2>1, <3>1, <3>2 DEF Apart
        <3>3. CASE k = Len(cs) + 1
            BY <1>1, <1>2, <3>1, <3>3
        <3>4. QED
            BY <1>1, <3>2, <3>3
    <2>2. ASSUME NEW k \in 1 .. Len(new)
          PROVE  new[k].last <= c.last
        <3>1. CASE k \in 1 .. Len(cs)
            BY <1>1, <1>2, <3>1 DEF Apart
        <3>2. CASE k = Len(cs) + 1
            BY <1>1, <1>2, <3>2
        <3>3. QED
            BY <1>1, <3>1, <3>2
    <2>3. QED
        BY <2>1, <2>2 DEF Apart
<1>7. QED
    BY <1>1, <1>5, <1>6 DEF ReachedBy

\* What Flushed adds to the chunks.
LEMMA FlushedChunks ==
    ASSUME C!ChunkingAssumption, ReadingOK, kind # "visits", NEW new, new = C!Flushed
    PROVE  /\ new \in Seq(C!Chunk) /\ Len(chunks) <= Len(new)
           /\ \A k \in 1 .. Len(chunks) : new[k] = chunks[k]
           /\ from = 0 => new = chunks
           /\ from # 0 =>
                 /\ Len(new) = Len(chunks) + 1
                 /\ new[Len(new)] = [seq |-> Len(chunks) - base, first |-> from, last |-> read]
           /\ Ordered(new) /\ Apart(new, read) /\ NumberedFrom(new, base)
           /\ C!Follows(ReachedBy(new), read + 1)
<1> DEFINE n == Len(chunks)
           c == [seq |-> n - base, first |-> from, last |-> read]
<1>1. /\ chunks \in Seq(C!Chunk) /\ n \in Nat /\ base \in 0 .. n /\ read \in Nat /\ from \in 0 .. read
      /\ Ordered(chunks) /\ NumberedFrom(chunks, base)
      /\ Apart(chunks, IF from = 0 THEN read ELSE from - 1)
      /\ C!Follows(ReachedBy(chunks), IF from = 0 THEN read + 1 ELSE from)
    BY TextType DEF ReadingOK, C!TypeOK
<1>2. /\ from = 0 => new = chunks
      /\ from # 0 => new = Append(chunks, c)
    BY DEF C!Flushed
<1>3. c \in C!Chunk /\ c.first = from /\ c.last = read /\ c.seq = n - base
    BY <1>1 DEF C!Chunk
<1> HIDE DEF n, c
<1>4. CASE from = 0
    BY <1>1, <1>2, <1>4 DEF n, c
<1>5. CASE from # 0
    <2>1. /\ new \in Seq(C!Chunk) /\ Len(new) = n + 1
          /\ \A k \in 1 .. n : new[k] = chunks[k]
          /\ new[Len(new)] = c /\ ReachedBy(new) = read
          /\ Ordered(new) /\ Apart(new, read)
        <3>1. from - 1 \in Nat /\ from - 1 < c.first /\ c.first <= c.last
            BY <1>1, <1>3, <1>5
        <3>2. Apart(chunks, from - 1) /\ C!Follows(ReachedBy(chunks), c.first)
            BY <1>1, <1>3, <1>5
        <3>3. QED
            BY <1>1, <1>2, <1>3, <1>5, <3>1, <3>2, AddChunk, SMTT(20) DEF n
    <2>2. NumberedFrom(new, base)
        BY <1>1, <1>3, <2>1 DEF NumberedFrom, n
    <2>3. C!Follows(read, read + 1)
        BY <1>1 DEF C!Follows
    <2>4. QED
        BY <1>1, <1>5, <2>1, <2>2, <2>3 DEF n, c
<1>6. QED
    BY <1>4, <1>5

\* A step of a loader of windows: the window goes on, or is emitted and, with or without
\* a new one, the reading with it.
LEMMA MovesOn ==
    ASSUME C!ChunkingAssumption, ReadingOK, UNCHANGED <<kind, text>>, kind # "visits",
           read' \in read .. Len(text), from' \in 0 .. read',
           turns' \in [lines : Nat, len : Nat], done' \in BOOLEAN,
           split' \in 0 .. Len(text), split' # 0 => kind = "prose" /\ read' <= split',
           done' => read' = Len(text) /\ from' = 0,
           \/ /\ chunks' = chunks /\ base' = base /\ from # 0 /\ from' = from
           \/ /\ chunks' = C!Flushed
              /\ base' = base \/ (kind = "messages" /\ base' = Len(C!Flushed))
              /\ \/ from' = read + 1
                 \/ from' = 0 /\ (read' = read \/ (read' = read + 1 /\ C!Blank(read + 1)))
    PROVE  ReadingOK'
<1>1. PICK new, b, f, r : chunks' = new /\ base' = b /\ from' = f /\ read' = r
    OBVIOUS
<1>2. /\ C!TypeOK /\ Len(text) \in Nat /\ read \in Nat /\ from \in 0 .. read
      /\ r \in Nat /\ f \in Nat /\ r \in read .. Len(text) /\ f \in 0 .. r
    BY <1>1, TextType DEF ReadingOK, C!TypeOK
<1>3. /\ new \in Seq(C!Chunk) /\ b \in 0 .. Len(new)
      /\ Ordered(new) /\ NumberedFrom(new, b)
      /\ Apart(new, IF f = 0 THEN r ELSE f - 1)
      /\ C!Follows(ReachedBy(new), IF f = 0 THEN r + 1 ELSE f)
    <2>1. CASE new = chunks /\ b = base /\ from # 0 /\ f = from
        BY <1>2, <2>1 DEF ReadingOK, C!TypeOK
    <2>2. CASE /\ new = C!Flushed
               /\ b = base \/ b = Len(new)
               /\ \/ f = read + 1
                  \/ f = 0 /\ (r = read \/ (r = read + 1 /\ C!Blank(read + 1)))
        <3>1. /\ new \in Seq(C!Chunk) /\ Len(chunks) <= Len(new)
              /\ Ordered(new) /\ Apart(new, read) /\ NumberedFrom(new, base)
              /\ C!Follows(ReachedBy(new), read + 1)
            BY <2>2, FlushedChunks
        <3>2. b \in 0 .. Len(new)
            BY <1>2, <2>2, <3>1, SMTT(20) DEF C!TypeOK
        <3>3. NumberedFrom(new, b)
            BY <2>2, <3>1 DEF NumberedFrom
        <3>4. Apart(new, IF f = 0 THEN r ELSE f - 1)
            <4>1. read <= (IF f = 0 THEN r ELSE f - 1) /\ (IF f = 0 THEN r ELSE f - 1) \in Nat
                BY <1>2, <2>2
            <4>2. \A k \in 1 .. Len(new) : new[k].last \in Nat
                <5>1. \A k \in 1 .. Len(new) : new[k] \in C!Chunk
                    BY <3>1
                <5>2. QED
                    BY <5>1 DEF C!Chunk
            <4>3. QED
                BY <1>2, <3>1, <4>1, <4>2 DEF Apart
        <3>5. C!Follows(ReachedBy(new), IF f = 0 THEN r + 1 ELSE f)
            <4>1. ReachedBy(new) \in Nat
                <5>1. new # <<>> => new[Len(new)] \in C!Chunk
                    BY <3>1
                <5>2. QED
                    BY <5>1 DEF ReachedBy, C!Chunk
            <4>2. CASE f # 0 \/ r = read
                BY <1>2, <2>2, <3>1, <4>2
            <4>3. CASE f = 0 /\ r = read + 1 /\ C!Blank(read + 1)
                BY <1>2, <3>1, <4>1, <4>3 DEF C!Follows
            <4>4. QED
                BY <1>2, <2>2, <4>2, <4>3
        <3>6. QED
            BY <3>1, <3>2, <3>3, <3>4, <3>5
    <2>3. QED
        BY <1>1, <2>1, <2>2
<1>4. Ordered(new)' /\ Apart(new, IF f = 0 THEN r ELSE f - 1)'
      /\ C!Follows(ReachedBy(new), IF f = 0 THEN r + 1 ELSE f)'
    BY <1>3 DEF Ordered, Apart, C!Follows, C!Blank, ReachedBy
<1>5. C!TypeOK'
    BY <1>1, <1>2, <1>3 DEF C!TypeOK
<1>6. kind # "messages" => base' = 0
    BY DEF ReadingOK
<1>7. QED
    BY <1>1, <1>2, <1>3, <1>4, <1>5, <1>6 DEF ReadingOK

\* The window of a conversation becomes a chunk of it, numbered after those of it.
LEMMA FlushedTalk ==
    ASSUME C!ChunkingAssumption, ChunksInv, kind = "messages", NEW new, new = C!Flushed
    PROVE  OneTalkEach(new) /\ TalksNumbered(new)
<1>1. /\ ReadingOK /\ OneTalkEach(chunks) /\ TalksNumbered(chunks)
      /\ chunks \in Seq(C!Chunk) /\ Len(chunks) \in Nat /\ base \in 0 .. Len(chunks)
      /\ read \in Nat /\ from \in 0 .. read
      /\ Ordered(chunks) /\ NumberedFrom(chunks, base)
    BY TextType DEF ChunksInv, TalkOK, ReadingOK, C!TypeOK
<1>2. /\ new \in Seq(C!Chunk)
      /\ \A k \in 1 .. Len(chunks) : new[k] = chunks[k]
      /\ from = 0 => new = chunks
      /\ from # 0 =>
            /\ Len(new) = Len(chunks) + 1
            /\ new[Len(new)] = [seq |-> Len(chunks) - base, first |-> from, last |-> read]
    BY <1>1, FlushedChunks
<1>3. CASE from = 0
    BY <1>1, <1>2, <1>3
<1>4. CASE from # 0
    <2>1. PICK o \in Nat : InTalk(o)
        BY <1>1, <1>4 DEF ChunksInv, TalkOK
    <2>2. o <= from /\ Converses(o, read) /\ Converses(o, from)
        BY <1>1, <1>4, <2>1 DEF InTalk, Converses
    <2>3. new[Len(new)].first = from /\ new[Len(new)].last = read
          /\ new[Len(new)].seq = Len(chunks) - base /\ Len(new) = Len(chunks) + 1
        BY <1>2, <1>4
    <2>4. OneTalkEach(new)
        BY <1>1, <1>2, <2>2, <2>3, SMTT(20) DEF OneTalkEach
    <2>5. \A j \in 1 .. base : C!OpensAt(chunks[j].first) # o
        <3>1. SUFFICES ASSUME NEW j \in 1 .. base
                       PROVE  C!OpensAt(chunks[j].first) # o
            OBVIOUS
        <3>2. /\ j \in 1 .. Len(chunks) /\ chunks[j] \in C!Chunk
              /\ chunks[j].first <= chunks[j].last /\ chunks[j].last < o
            BY <1>1, <2>1 DEF InTalk, Ordered
        <3>3. chunks[j].first \in Nat /\ chunks[j].last \in Nat
            BY <3>2 DEF C!Chunk
        <3>4. PICK e \in Nat : Converses(e, chunks[j].first)
            BY <1>1, <3>2 DEF OneTalkEach
        <3>5. C!OpensAt(chunks[j].first) = e
            BY <3>3, <3>4, OpensConversation
        <3>6. e <= chunks[j].first
            BY <3>3, <3>4 DEF Converses
        <3>7. QED
            BY <3>2, <3>3, <3>5, <3>6
    <2>6. C!OpensAt(from) = o
        BY <1>1, <2>2, OpensConversation
    <2>7. ASSUME NEW j \in 1 .. Len(new), NEW k \in 1 .. Len(new), j < k, new[j].seq = new[k].seq
          PROVE  C!OpensAt(new[j].first) # C!OpensAt(new[k].first)
        <3>1. j \in 1 .. Len(chunks) /\ new[j] = chunks[j]
            BY <1>1, <1>2, <2>3, <2>7
        <3>2. CASE k \in 1 .. Len(chunks)
            BY <1>1, <1>2, <2>7, <3>1, <3>2 DEF TalksNumbered
        <3>3. CASE k = Len(new)
            <4>1. j \in 1 .. base
                BY <1>1, <2>3, <2>7, <3>1, <3>3 DEF NumberedFrom
            <4>2. QED
                BY <2>3, <2>5, <2>6, <3>1, <3>3, <4>1
        <3>4. QED
            BY <1>1, <2>3, <3>2, <3>3
    <2>8. QED
        BY <2>4, <2>7 DEF TalksNumbered
<1>5. QED
    BY <1>3, <1>4

\* A step within a conversation.
LEMMA TalksOn ==
    ASSUME C!ChunkingAssumption, ChunksInv, kind = "messages", UNCHANGED <<kind, text, base>>,
           NEW o \in Nat, InTalk(o),
           chunks' = chunks \/ chunks' = C!Flushed,
           read' = read \/ (read' = read + 1 /\ ~ text[read + 1].opens),
           from' \in {0, from, read + 1}
    PROVE  TalkOK'
<1>1. PICK new : chunks' = new
    OBVIOUS
<1>2. /\ ReadingOK /\ read \in Nat /\ from \in Nat /\ base \in 0 .. Len(chunks)
      /\ Len(chunks) \in Nat /\ o \in 1 .. read
    BY TextType DEF ChunksInv, ReadingOK, C!TypeOK, InTalk, Converses
<1>3. OneTalkEach(new) /\ TalksNumbered(new)
    BY <1>1, FlushedTalk DEF ChunksInv, TalkOK
<1>4. OneTalkEach(new)' /\ TalksNumbered(new)'
    BY <1>3 DEF OneTalkEach, TalksNumbered, Converses, C!OpensAt
<1>5. \A k \in 1 .. base : new[k] = chunks[k]
    <2>1. CASE new = C!Flushed
        BY <1>2, <2>1, FlushedChunks
    <2>2. QED
        BY <1>1, <2>1
<1>6. Converses(o, read)'
    BY <1>2 DEF InTalk, Converses
<1>7. InTalk(o)'
    BY <1>1, <1>2, <1>5, <1>6 DEF InTalk
<1>8. read' # 0
    BY <1>2
<1>9. QED
    BY <1>1, <1>4, <1>7, <1>8 DEF TalkOK

\* Of a loader that is not at the end of its text.
LEMMA ReadingTypes ==
    ASSUME C!ChunkingAssumption, ReadingOK
    PROVE  /\ text \in Seq(Piece) /\ Len(text) \in Nat
           /\ \A p \in 1 .. Len(text) : text[p] \in Piece /\ text[p].len \in Nat
           /\ read \in Nat /\ read <= Len(text) /\ from \in 0 .. read /\ split \in 0 .. Len(text)
           /\ turns \in [lines : Nat, len : Nat] /\ done \in BOOLEAN
BY TextType DEF ReadingOK, C!TypeOK

\* Pieces up to last join the window, or start a new one.
LEMMA JoinsWindow ==
    ASSUME C!ChunkingAssumption, ReadingOK, kind # "visits",
           UNCHANGED <<kind, text, split, base, done>>, turns' \in [lines : Nat, len : Nat],
           NEW last \in (read + 1) .. Len(text), split # 0 => last <= split, read' = last,
           \/ chunks' = chunks /\ from # 0 /\ from' = from
           \/ chunks' = C!Flushed /\ from' = read + 1
    PROVE  ReadingOK'
<1>1. /\ Len(text) \in Nat /\ read \in Nat /\ read <= Len(text) /\ from \in 0 .. read
      /\ split \in 0 .. Len(text) /\ done \in BOOLEAN
    BY ReadingTypes
<1>2. (split # 0 => kind = "prose") /\ (done => read = Len(text))
    BY DEF ReadingOK
<1>3. read' \in read .. Len(text) /\ from' \in 0 .. read' /\ ~ done
    BY <1>1, <1>2
<1>4. split' \in 0 .. Len(text) /\ done' \in BOOLEAN
    BY <1>1
<1>5. split' # 0 => kind = "prose" /\ read' <= split'
    BY <1>2
<1>6. done' => read' = Len(text) /\ from' = 0
    BY <1>3
<1>7. \/ /\ chunks' = chunks /\ base' = base /\ from # 0 /\ from' = from
      \/ /\ chunks' = C!Flushed
         /\ base' = base \/ (kind = "messages" /\ base' = Len(C!Flushed))
         /\ \/ from' = read + 1
            \/ from' = 0 /\ (read' = read \/ (read' = read + 1 /\ C!Blank(read + 1)))
    OBVIOUS
<1>8. UNCHANGED <<kind, text>>
    OBVIOUS
<1>9. QED
    BY <1>3, <1>4, <1>5, <1>6, <1>7, <1>8, MovesOn

\* The window ends, and nothing is read.
LEMMA EndsWindow ==
    ASSUME C!ChunkingAssumption, ReadingOK, kind # "visits",
           UNCHANGED <<kind, text, base, read, turns>>,
           chunks' = C!Flushed, from' = 0, done' \in BOOLEAN, done' => read = Len(text),
           split' \in 0 .. Len(text), split' # 0 => kind = "prose" /\ read <= split'
    PROVE  ReadingOK'
<1>1. /\ Len(text) \in Nat /\ read \in Nat /\ read <= Len(text)
      /\ turns \in [lines : Nat, len : Nat]
    BY ReadingTypes
<1>2. read' \in read .. Len(text) /\ from' \in 0 .. read' /\ turns' \in [lines : Nat, len : Nat]
    BY <1>1
<1>3. split' # 0 => kind = "prose" /\ read' <= split'
    OBVIOUS
<1>4. done' => read' = Len(text) /\ from' = 0
    OBVIOUS
<1>5. \/ /\ chunks' = chunks /\ base' = base /\ from # 0 /\ from' = from
      \/ /\ chunks' = C!Flushed
         /\ base' = base \/ (kind = "messages" /\ base' = Len(C!Flushed))
         /\ \/ from' = read + 1
            \/ from' = 0 /\ (read' = read \/ (read' = read + 1 /\ C!Blank(read + 1)))
    OBVIOUS
<1>6. UNCHANGED <<kind, text>>
    OBVIOUS
<1>7. QED
    BY <1>2, <1>3, <1>4, <1>5, <1>6, MovesOn

\* window_text and _split_long.
LEMMA ProseChunks ==
    ASSUME C!ChunkingAssumption, ChunksInv, 
           C!TakeParagraph \/ C!LongParagraph \/ C!TakeSentence \/ C!EndSplit
    PROVE  ChunksInv'
<1>1. ReadingOK
    BY DEF ChunksInv
<1>2. /\ Len(text) \in Nat /\ read \in Nat /\ read <= Len(text) /\ from \in 0 .. read
      /\ split \in 0 .. Len(text) /\ turns \in [lines : Nat, len : Nat] /\ done \in BOOLEAN
    BY <1>1, ReadingTypes
<1>3. (split # 0 => kind = "prose" /\ read <= split) /\ (done => read = Len(text))
    BY <1>1 DEF ReadingOK
<1>4. kind = "prose" /\ UNCHANGED <<kind, text, turns, base, done>>
    BY <1>2, <1>3 DEF C!TakeParagraph, C!LongParagraph, C!TakeSentence, C!EndSplit
<1>5. from = 0 => C!Flushed = chunks
    BY DEF C!Flushed
<1>6. turns' \in [lines : Nat, len : Nat] /\ kind # "visits"
    BY <1>2, <1>4
<1>7. ASSUME C!TakeParagraph
      PROVE  ReadingOK'
    <2>1. split = 0 /\ split' = split /\ read < Len(text)
        BY <1>7 DEF C!TakeParagraph
    <2>2. PICK last \in (read + 1) .. Len(text) : last = C!ParagraphEnd(read + 1)
        BY <1>2, <2>1, ParagraphEnds
    <2>3. read' = last
        BY <1>7, <2>2 DEF C!TakeParagraph, C!Put
    <2>4. \/ chunks' = chunks /\ from # 0 /\ from' = from
          \/ chunks' = C!Flushed /\ from' = read + 1
        BY <1>5, <1>7 DEF C!TakeParagraph, C!Put
    <2>5. QED
        BY <1>1, <1>4, <1>6, <2>1, <2>3, <2>4, JoinsWindow
<1>8. ASSUME C!LongParagraph
      PROVE  ReadingOK'
    <2>1. /\ chunks' = C!Flushed /\ from' = 0 /\ read' = read /\ read < Len(text)
          /\ split' = C!ParagraphEnd(read + 1)
        BY <1>8 DEF C!LongParagraph
    <2>2. split' \in (read + 1) .. Len(text)
        BY <1>2, <2>1, ParagraphEnds
    <2>3. split' \in 0 .. Len(text) /\ read <= split'
        BY <1>2, <2>2
    <2>4. done' \in BOOLEAN /\ (done' => read = Len(text))
        BY <1>2, <1>3, <1>4
    <2>5. UNCHANGED <<kind, text, base, read, turns>>
        BY <1>4, <2>1
    <2>6. QED
        BY <1>1, <1>4, <2>1, <2>3, <2>4, <2>5, EndsWindow
<1>9. ASSUME C!TakeSentence
      PROVE  ReadingOK'
    <2>1. read < split /\ split' = split /\ read' = read + 1
        BY <1>9 DEF C!TakeSentence, C!Put
    <2>2. PICK last \in (read + 1) .. Len(text) : last = read + 1 /\ last <= split
        BY <1>2, <2>1
    <2>3. \/ chunks' = chunks /\ from # 0 /\ from' = from
          \/ chunks' = C!Flushed /\ from' = read + 1
        BY <1>5, <1>9 DEF C!TakeSentence, C!Put
    <2>4. QED
        BY <1>1, <1>4, <1>6, <2>1, <2>2, <2>3, JoinsWindow
<1>10. ASSUME C!EndSplit
       PROVE  ReadingOK'
    <2>1. chunks' = C!Flushed /\ from' = 0 /\ split' = 0 /\ read' = read
        BY <1>10 DEF C!EndSplit
    <2>2. split' \in 0 .. Len(text) /\ UNCHANGED <<kind, text, base, read, turns>>
        BY <1>2, <1>4, <2>1
    <2>3. done' \in BOOLEAN /\ (done' => read = Len(text))
        BY <1>2, <1>3, <1>4
    <2>4. QED
        BY <1>1, <1>4, <2>1, <2>2, <2>3, EndsWindow
<1>11. TalkOK'
    BY <1>4 DEF TalkOK
<1>12. QED
    BY <1>7, <1>8, <1>9, <1>10, <1>11 DEF ChunksInv

LEMMA StartsTalk ==
    ASSUME C!ChunkingAssumption, ChunksInv, C!StartConversation PROVE ChunksInv'
<1>1. ReadingOK
    BY DEF ChunksInv
<1>2. /\ Len(text) \in Nat /\ read \in Nat /\ from \in 0 .. read
      /\ split \in 0 .. Len(text) /\ turns \in [lines : Nat, len : Nat] /\ done \in BOOLEAN
      /\ split # 0 => kind = "prose"
      /\ done => read = Len(text) /\ from = 0
    BY <1>1, ReadingTypes DEF ReadingOK
<1>3. /\ kind = "messages" /\ read < Len(text) /\ text[read + 1].opens /\ read' = read + 1
      /\ chunks' = C!Flushed /\ base' = Len(C!Flushed)
      /\ \/ from' = 0 /\ C!Blank(read + 1)
         \/ from' = read + 1
      /\ turns' = C!Line(read + 1)
      /\ UNCHANGED <<kind, text, split, done>>
    BY DEF C!StartConversation, C!NewConversation, C!Base
<1>4. turns' \in [lines : Nat, len : Nat]
    <2>1. text[read + 1].len \in Nat
        BY <1>1, <1>2, <1>3, ReadingTypes
    <2>2. QED
        BY <1>3, <2>1 DEF C!Line
<1>5. ReadingOK'
    <2>1. read' \in read .. Len(text) /\ from' \in 0 .. read' /\ ~ done /\ split = 0
        BY <1>2, <1>3
    <2>2. QED
        BY <1>1, <1>2, <1>3, <1>4, <2>1, MovesOn
<1>6. PICK new : new = C!Flushed
    OBVIOUS
<1>7. OneTalkEach(new) /\ TalksNumbered(new)
    BY <1>3, <1>6, FlushedTalk
<1>8. OneTalkEach(new)' /\ TalksNumbered(new)'
    BY <1>3, <1>7 DEF OneTalkEach, TalksNumbered, Converses, C!OpensAt
<1>9. PICK o \in Nat : o = read + 1
    BY <1>2
<1>10. InTalk(o)'
    <2>1. /\ read' = o /\ (from' = 0 \/ from' = o) /\ text'[o].opens
          /\ chunks' = new /\ base' = Len(new)
        BY <1>3, <1>6, <1>9
    <2>2. o \in 1 .. read' /\ \A q \in (o + 1) .. read' : ~ text'[q].opens
        BY <2>1, <1>2, <1>9
    <2>3. \A k \in 1 .. Len(new) : new[k].last < o
        <3>1. new \in Seq(C!Chunk) /\ Apart(new, read)
            BY <1>1, <1>3, <1>6, FlushedChunks
        <3>2. \A k \in 1 .. Len(new) : new[k] \in C!Chunk
            BY <3>1
        <3>3. \A k \in 1 .. Len(new) : new[k].last \in Nat /\ new[k].last <= read
            BY <3>1, <3>2 DEF Apart, C!Chunk
        <3>4. QED
            BY <1>2, <1>9, <3>3
    <2>4. \A k \in 1 .. base' : chunks'[k].last < o
        BY <2>1, <2>3
    <2>5. from' # 0 => o <= from'
        BY <1>9, <2>1
    <2>6. QED
        BY <2>1, <2>2, <2>4, <2>5 DEF InTalk, Converses
<1>11. TalkOK'
    <2>1. read' # 0 /\ chunks' = new
        BY <1>2, <1>3, <1>6
    <2>2. QED
        BY <1>8, <1>10, <2>1 DEF TalkOK
<1>12. QED
    BY <1>5, <1>11 DEF ChunksInv

\* A line of a conversation.
LEMMA LineChunks ==
    ASSUME C!ChunkingAssumption, ChunksInv, C!TakeLine PROVE ChunksInv'
<1>1. ReadingOK
    BY DEF ChunksInv
<1>2. /\ Len(text) \in Nat /\ read \in Nat /\ read <= Len(text) /\ from \in 0 .. read
      /\ split \in 0 .. Len(text) /\ turns \in [lines : Nat, len : Nat] /\ done \in BOOLEAN
    BY <1>1, ReadingTypes
<1>3. /\ split # 0 => kind = "prose"
      /\ done => read = Len(text)
      /\ text # <<>> => text[1].opens
    BY <1>1 DEF ReadingOK
<1>4. /\ kind = "messages" /\ read < Len(text) /\ ~ text[read + 1].opens /\ read' = read + 1
      /\ UNCHANGED <<kind, text, split, base, done>>
    BY DEF C!TakeLine, C!NewConversation, C!Put
<1>5. split = 0 /\ ~ done /\ kind # "visits"
    BY <1>2, <1>3, <1>4
<1>6. PICK last \in (read + 1) .. Len(text) : last = read + 1
    BY <1>2, <1>4
<1>7. from = 0 => C!Flushed = chunks
    BY DEF C!Flushed
<1>8. text[read + 1].len \in Nat
    BY <1>1, <1>2, <1>4, ReadingTypes
<1>9. ASSUME C!Blank(read + 1)
      PROVE  ReadingOK'
    <2>1. from' = from /\ turns' = turns /\ chunks' = chunks
        BY <1>9 DEF C!TakeLine
    <2>2. read' \in read .. Len(text) /\ from' \in 0 .. read' /\ turns' \in [lines : Nat, len : Nat]
        BY <1>2, <1>4, <2>1
    <2>3. split' \in 0 .. Len(text) /\ ~ done' /\ done' \in BOOLEAN /\ split' = 0
        BY <1>2, <1>4, <1>5
    <2>4. \/ /\ chunks' = chunks /\ base' = base /\ from # 0 /\ from' = from
          \/ /\ chunks' = C!Flushed
             /\ base' = base \/ (kind = "messages" /\ base' = Len(C!Flushed))
             /\ \/ from' = read + 1
                \/ from' = 0 /\ (read' = read \/ (read' = read + 1 /\ C!Blank(read + 1)))
        BY <1>4, <1>7, <1>9, <2>1
    <2>5. UNCHANGED <<kind, text>>
        BY <1>4
    <2>6. QED
        BY <1>1, <1>5, <2>2, <2>3, <2>4, <2>5, MovesOn
<1>10. ASSUME ~ C!Blank(read + 1)
       PROVE  ReadingOK'
    <2>1. C!Put(~ C!Full, read + 1) /\ turns' = C!NextTurns
        BY <1>10 DEF C!TakeLine
    <2>2. \/ chunks' = chunks /\ from # 0 /\ from' = from
          \/ chunks' = C!Flushed /\ from' = read + 1
        BY <1>7, <2>1 DEF C!Put
    <2>3. turns' \in [lines : Nat, len : Nat]
        <3>1. C!Line(read + 1) \in [lines : Nat, len : Nat]
            BY <1>8 DEF C!Line
        <3>2. [lines |-> turns.lines + 1, len |-> turns.len + text[read + 1].len]
                 \in [lines : Nat, len : Nat]
            BY <1>2, <1>8
        <3>3. QED
            BY <2>1, <3>1, <3>2 DEF C!NextTurns
    <2>4. split # 0 => last <= split
        BY <1>5
    <2>5. UNCHANGED <<kind, text, split, base, done>> /\ read' = last
        BY <1>4, <1>6
    <2>6. QED
        BY <1>1, <1>5, <2>2, <2>3, <2>4, <2>5, JoinsWindow
<1>11. TalkOK'
    <2>1. read # 0
        <3>1. CASE read = 0
            BY <1>2, <1>3, <1>4, <3>1
        <3>2. QED
            BY <3>1
    <2>2. PICK o \in Nat : InTalk(o)
        BY <1>4, <2>1 DEF ChunksInv, TalkOK
    <2>3. (chunks' = chunks \/ chunks' = C!Flushed) /\ from' \in {0, from, read + 1}
        BY DEF C!TakeLine, C!Put
    <2>4. UNCHANGED <<kind, text, base>> /\ read' = read + 1 /\ ~ text[read + 1].opens
        BY <1>4
    <2>5. QED
        BY <1>4, <2>2, <2>3, <2>4, TalksOn
<1>12. QED
    BY <1>9, <1>10, <1>11 DEF ChunksInv

\* A row of the visitation log.
LEMMA RowChunks ==
    ASSUME C!ChunkingAssumption, ChunksInv, C!TakeVisit PROVE ChunksInv'
<1>1. ReadingOK
    BY DEF ChunksInv
<1>2. /\ Len(text) \in Nat /\ read \in Nat /\ read <= Len(text)
      /\ split \in 0 .. Len(text) /\ turns \in [lines : Nat, len : Nat] /\ done \in BOOLEAN
    BY <1>1, ReadingTypes
<1>3. /\ kind = "visits" /\ read < Len(text) /\ read' = read + 1
      /\ UNCHANGED <<kind, text, from, turns, split, base, done>>
    BY DEF C!TakeVisit
<1>4. /\ from = 0 /\ base = 0 /\ split = 0 /\ ~ done /\ C!TypeOK
      /\ chunks \in Seq(C!Chunk) /\ Ordered(chunks) /\ Apart(chunks, read)
      /\ C!Follows(ReachedBy(chunks), read + 1)
      /\ \A k \in 1 .. Len(chunks) : chunks[k].seq = chunks[k].first - 1
    BY <1>1, <1>2, <1>3 DEF ReadingOK, C!TypeOK
<1>5. PICK r, new : r = read + 1 /\ new = chunks'
    OBVIOUS
<1>6. /\ new \in Seq(C!Chunk) /\ Ordered(new) /\ Apart(new, r)
      /\ C!Follows(ReachedBy(new), r + 1)
      /\ \A k \in 1 .. Len(new) : new[k].seq = new[k].first - 1
    <2>1. CASE C!Blank(read + 1)
        <3>1. new = chunks
            BY <1>5, <2>1 DEF C!TakeVisit
        <3>2. \A k \in 1 .. Len(chunks) : chunks[k].last \in Nat
            <4>1. \A k \in 1 .. Len(chunks) : chunks[k] \in C!Chunk
                BY <1>4
            <4>2. QED
                BY <4>1 DEF C!Chunk
        <3>3. Apart(chunks, r)
            BY <1>2, <1>4, <1>5, <3>2 DEF Apart
        <3>4. ReachedBy(chunks) \in Nat
            BY <1>4, <3>2 DEF ReachedBy
        <3>5. C!Follows(ReachedBy(chunks), r + 1)
            BY <1>2, <1>4, <1>5, <2>1, <3>4 DEF C!Follows
        <3>6. QED
            BY <1>4, <3>1, <3>3, <3>5
    <2>2. CASE ~ C!Blank(read + 1)
        <3>1. PICK c : c = [seq |-> read, first |-> read + 1, last |-> read + 1]
            OBVIOUS
        <3>2. c \in C!Chunk /\ c.first = r /\ c.last = r /\ c.seq = r - 1 /\ new = Append(chunks, c)
            BY <1>2, <1>5, <2>2, <3>1 DEF C!Chunk, C!TakeVisit, C!VisitSeq
        <3>3. read < c.first /\ c.first <= c.last /\ C!Follows(ReachedBy(chunks), c.first)
            BY <1>2, <1>4, <1>5, <3>2
        <3>4. /\ new \in Seq(C!Chunk) /\ Len(new) = Len(chunks) + 1
              /\ \A k \in 1 .. Len(chunks) : new[k] = chunks[k]
              /\ new[Len(new)] = c /\ Ordered(new) /\ Apart(new, c.last)
            <4>1. PICK cs \in Seq(C!Chunk), n \in Nat : cs = chunks /\ n = read
                BY <1>2, <1>4
            <4>2. /\ Ordered(cs) /\ Apart(cs, n) /\ C!Follows(ReachedBy(cs), c.first)
                  /\ n < c.first /\ c.first <= c.last /\ new = Append(cs, c) /\ c \in C!Chunk
                BY <1>4, <3>2, <3>3, <4>1
            <4>3. /\ new \in Seq(C!Chunk) /\ Len(new) = Len(cs) + 1
                  /\ \A k \in 1 .. Len(cs) : new[k] = cs[k]
                  /\ new[Len(new)] = c
                BY ONLY <4>2, AddChunk
            <4>4. Ordered(new) /\ Apart(new, c.last)
                BY ONLY <4>2, AddChunk
            <4>5. QED
                BY <4>1, <4>3, <4>4
        <3>5. ReachedBy(new) = r /\ C!Follows(r, r + 1)
            BY <1>2, <1>4, <1>5, <3>2, <3>4 DEF ReachedBy, C!Follows
        <3>6. \A k \in 1 .. Len(new) : new[k].seq = new[k].first - 1
            BY <1>4, <3>2, <3>4
        <3>7. Apart(new, r)
            BY <3>2, <3>4 DEF Apart
        <3>8. QED
            BY <3>4, <3>5, <3>6, <3>7
    <2>3. QED
        BY <2>1, <2>2
<1>7. Ordered(new)' /\ Apart(new, r)' /\ C!Follows(ReachedBy(new), r + 1)'
    BY <1>3, <1>6 DEF Ordered, Apart, C!Follows, C!Blank, ReachedBy
<1>8. C!TypeOK'
    <2>1. read' \in 0 .. Len(text) /\ from' \in 0 .. read' /\ base' \in 0 .. Len(new)
        BY <1>2, <1>3, <1>4, <1>6
    <2>2. QED
        BY <1>3, <1>4, <1>5, <1>6, <2>1 DEF C!TypeOK
<1>9. text' # <<>> => text'[1].opens
    BY <1>1, <1>3 DEF ReadingOK
<1>10. ReadingOK'
    BY <1>3, <1>4, <1>5, <1>6, <1>7, <1>8, <1>9 DEF ReadingOK
<1>11. TalkOK'
    BY <1>3 DEF TalkOK
<1>12. QED
    BY <1>10, <1>11 DEF ChunksInv

\* The text of an image.
LEMMA ImageChunks ==
    ASSUME C!ChunkingAssumption, ChunksInv, C!TakeImage PROVE ChunksInv'
<1>1. ReadingOK
    BY DEF ChunksInv
<1>2. /\ text \in Seq(Piece) /\ Len(text) \in Nat /\ read \in Nat /\ from \in 0 .. read
      /\ split \in 0 .. Len(text) /\ turns \in [lines : Nat, len : Nat] /\ done \in BOOLEAN
    BY <1>1, ReadingTypes
<1>3. /\ kind = "ocr" /\ read = 0 /\ read' = Len(text) /\ from' = read + 1 /\ chunks' = C!Flushed
      /\ UNCHANGED <<kind, text, turns, split, base, done>>
    BY <1>2 DEF C!TakeImage, C!Flushed
<1>4. PICK last \in (read + 1) .. Len(text) : last = Len(text)
    BY <1>2, <1>3 DEF C!TakeImage
<1>5. split # 0 => last <= split
    BY <1>1, <1>3 DEF ReadingOK
<1>6. ReadingOK'
    BY <1>1, <1>2, <1>3, <1>4, <1>5, JoinsWindow
<1>7. TalkOK'
    BY <1>3 DEF TalkOK
<1>8. QED
    BY <1>6, <1>7 DEF ChunksInv

\* The end of every loader.
LEMMA ReturnChunks ==
    ASSUME C!ChunkingAssumption, ChunksInv, C!Return PROVE ChunksInv'
<1>1. ReadingOK
    BY DEF ChunksInv
<1>2. /\ Len(text) \in Nat /\ read \in Nat /\ from \in 0 .. read
      /\ split \in 0 .. Len(text) /\ turns \in [lines : Nat, len : Nat] /\ done \in BOOLEAN
    BY <1>1, ReadingTypes
<1>3. /\ read = Len(text) /\ split = 0 /\ done' = TRUE /\ chunks' = C!Flushed /\ from' = 0
      /\ UNCHANGED <<kind, text, read, turns, split, base>>
    BY DEF C!Return
<1>4. ReadingOK'
    <2>1. CASE kind # "visits"
        <3>1. split' \in 0 .. Len(text) /\ split' = 0 /\ done' \in BOOLEAN
            BY <1>2, <1>3
        <3>2. QED
            BY <1>1, <1>3, <2>1, <3>1, EndsWindow
    <2>2. CASE kind = "visits"
        <3>1. from = 0 /\ chunks' = chunks
            BY <1>1, <1>3, <2>2 DEF ReadingOK, C!Flushed
        <3>2. C!TypeOK'
            BY <1>1, <1>2, <1>3, <3>1 DEF ReadingOK, C!TypeOK
        <3>3. Ordered(chunks)' /\ Apart(chunks, read)' /\ C!Follows(ReachedBy(chunks), read + 1)'
            BY <1>1, <1>3, <3>1 DEF ReadingOK, Ordered, Apart, C!Follows, C!Blank, ReachedBy
        <3>4. QED
            BY <1>1, <1>3, <2>2, <3>1, <3>2, <3>3 DEF ReadingOK
    <2>3. QED
        BY <2>1, <2>2
<1>5. TalkOK'
    <2>1. CASE kind # "messages"
        BY <1>3, <2>1 DEF TalkOK
    <2>2. CASE kind = "messages" /\ read = 0
        <3>1. from = 0 /\ base = 0 /\ chunks = <<>> /\ chunks' = chunks
            BY <1>3, <2>2 DEF ChunksInv, TalkOK, C!Flushed
        <3>2. QED
            BY <1>3, <2>2, <3>1 DEF TalkOK, OneTalkEach, TalksNumbered
    <2>3. CASE kind = "messages" /\ read # 0
        <3>1. PICK o \in Nat : InTalk(o)
            BY <2>3 DEF ChunksInv, TalkOK
        <3>2. QED
            BY <1>3, <2>3, <3>1, TalksOn
    <2>4. QED
        BY <2>1, <2>2, <2>3
<1>6. QED
    BY <1>4, <1>5 DEF ChunksInv

LEMMA RestChunks == ASSUME ChunksInv, UNCHANGED C!vars PROVE ChunksInv'
<1>1. UNCHANGED <<kind, text, read, from, turns, split, base, chunks, done>>
    BY DEF C!vars
<1>2. ReadingOK'
    <2>1. C!TypeOK'
        BY <1>1 DEF ChunksInv, ReadingOK, C!TypeOK
    <2>2. QED
        BY <1>1, <2>1 DEF ChunksInv, ReadingOK, Ordered, Apart, C!Follows, C!Blank, ReachedBy, NumberedFrom
<1>3. TalkOK'
    <2>1. OneTalkEach(chunks)' = OneTalkEach(chunks) /\ TalksNumbered(chunks)' = TalksNumbered(chunks)
        BY <1>1 DEF OneTalkEach, TalksNumbered, Converses, C!OpensAt
    <2>2. \A o : InTalk(o)' = InTalk(o)
        BY <1>1 DEF InTalk, Converses
    <2>3. QED
        BY <1>1, <2>1, <2>2 DEF ChunksInv, TalkOK
<1>4. QED
    BY <1>2, <1>3 DEF ChunksInv

LEMMA StepChunks ==
    ASSUME C!ChunkingAssumption, ChunksInv, [C!Next]_C!vars PROVE ChunksInv'
<1>1. CASE C!TakeParagraph \/ C!LongParagraph \/ C!TakeSentence \/ C!EndSplit
    BY <1>1, ProseChunks
<1>2. CASE C!StartConversation
    BY <1>2, StartsTalk
<1>3. CASE C!TakeLine
    BY <1>3, LineChunks
<1>4. CASE C!TakeVisit
    BY <1>4, RowChunks
<1>5. CASE C!TakeImage
    BY <1>5, ImageChunks
<1>6. CASE C!Return
    BY <1>6, ReturnChunks
<1>7. CASE C!Returned \/ UNCHANGED C!vars
    BY <1>7, RestChunks DEF C!Returned
<1>8. QED
    BY <1>1, <1>2, <1>3, <1>4, <1>5, <1>6, <1>7 DEF C!Next

\* The chunks of the invariant are right.
LEMMA ChunksInvRight == ASSUME C!ChunkingAssumption, ChunksInv PROVE C!ChunksRight
<1>1. /\ ReadingOK /\ C!TypeOK /\ chunks \in Seq(C!Chunk) /\ Len(chunks) \in Nat
      /\ DOMAIN chunks = 1 .. Len(chunks) /\ read \in Nat
    BY ReadingTypes DEF ChunksInv, ReadingOK, C!TypeOK
<1>2. \A k \in 1 .. Len(chunks) :
          /\ chunks[k].first \in Nat /\ chunks[k].last \in Nat /\ chunks[k].seq \in Nat
          /\ chunks[k].first <= chunks[k].last
    <2>1. \A k \in 1 .. Len(chunks) : chunks[k] \in C!Chunk
        BY <1>1
    <2>2. QED
        BY <1>1, <2>1 DEF C!Chunk, ReadingOK, Ordered
<1>3. C!NothingLost
    <2>1. ASSUME NEW k \in DOMAIN chunks
          PROVE  C!Follows(C!Reached(k - 1), chunks[k].first) /\ chunks[k].first <= chunks[k].last
        <3>1. /\ C!Follows(IF k = 1 THEN 0 ELSE chunks[k - 1].last, chunks[k].first)
              /\ chunks[k].first <= chunks[k].last
            BY <1>1, <2>1 DEF ReadingOK, Ordered
        <3>2. C!Reached(k - 1) = IF k = 1 THEN 0 ELSE chunks[k - 1].last
            BY <1>1, <2>1 DEF C!Reached
        <3>3. QED
            BY <3>1, <3>2
    <2>2. C!Reached(Len(chunks)) = ReachedBy(chunks)
        BY <1>1 DEF C!Reached, ReachedBy
    <2>3. QED
        BY <1>1, <2>1, <2>2 DEF C!NothingLost, ReadingOK
<1>4. C!ConversationsApart
    <2>1. SUFFICES ASSUME kind = "messages", NEW k \in DOMAIN chunks
                   PROVE  C!OpensAt(chunks[k].first) = C!OpensAt(chunks[k].last)
        BY DEF C!ConversationsApart
    <2>2. PICK o \in Nat : Converses(o, chunks[k].first) /\ Converses(o, chunks[k].last)
        BY <1>1, <2>1 DEF ChunksInv, TalkOK, OneTalkEach
    <2>3. C!OpensAt(chunks[k].first) = o /\ C!OpensAt(chunks[k].last) = o
        BY <1>1, <1>2, <2>2, OpensConversation
    <2>4. QED
        BY <2>3
<1>5. C!NumberedApart
    <2>1. SUFFICES ASSUME NEW j \in DOMAIN chunks, NEW k \in DOMAIN chunks,
                          j < k, chunks[j].seq = chunks[k].seq
                   PROVE  /\ kind = "messages"
                          /\ C!OpensAt(chunks[j].first) # C!OpensAt(chunks[k].first)
        BY DEF C!NumberedApart
    <2>2. j \in 1 .. Len(chunks) /\ k \in 1 .. Len(chunks)
        BY <1>1
    <2>3. ~ (kind = "visits")
        <3>1. SUFFICES ASSUME kind = "visits" PROVE FALSE
            OBVIOUS
        <3>2. chunks[j].seq = chunks[j].first - 1 /\ chunks[k].seq = chunks[k].first - 1
            BY <1>1, <2>2, <3>1 DEF ReadingOK
        <3>3. chunks[j].last < chunks[k].first
            BY <1>1, <2>1, <2>2 DEF ReadingOK, Apart
        <3>4. chunks[j].first - 1 = chunks[k].first - 1
            BY <2>1, <3>2
        <3>5. /\ chunks[j].first \in Nat /\ chunks[k].first \in Nat /\ chunks[j].last \in Nat
              /\ chunks[j].first <= chunks[j].last
            BY <1>2, <2>2
        <3>6. QED
            BY <3>3, <3>4, <3>5
    <2>4. kind = "messages"
        <3>1. SUFFICES ASSUME kind # "messages" PROVE FALSE
            OBVIOUS
        <3>2. NumberedFrom(chunks, 0)
            BY <1>1, <2>3, <3>1 DEF ReadingOK
        <3>3. chunks[j].seq = j - 1 /\ chunks[k].seq = k - 1
            BY <1>1, <2>2, <3>2 DEF NumberedFrom
        <3>4. j - 1 = k - 1
            BY <2>1, <3>3
        <3>5. QED
            BY <2>1, <2>2, <3>4
    <2>5. TalksNumbered(chunks)
        BY <2>4 DEF ChunksInv, TalkOK
    <2>6. QED
        BY <2>1, <2>2, <2>4, <2>5 DEF TalksNumbered
<1>6. QED
    BY <1>1, <1>3, <1>4, <1>5 DEF C!ChunksRight

-----------------------------------------------------------------------------
(* How large windows are. *)

\* The lines of pieces f .. l.
LinesOf(f, l) == Cardinality({p \in f .. l : ~ C!Blank(p)})

\* Window f .. l is within its limits: WindowsBounded of one window.
Bounded(f, l) ==
    /\ kind = "prose" =>
          \/ C!Size(f, l) <= Target
          \/ \E e \in l .. Len(text) : Closes(f, e) /\ (C!Size(f, l) <= HardMax \/ f = l)
    /\ kind = "messages" =>
          \/ LinesOf(f, l) <= MaxLines /\ C!Size(f, l) <= Target + MaxLines - 1
          \/ LinesOf(f, l) = 1

\* Window f .. l had no room for what begins at p: WindowsMaximal of one window.
Maximal(f, l, p) ==
    /\ kind = "prose" =>
          IF C!OpensAt(p) <= l THEN C!Size(f, p) > HardMax
          ELSE C!IsLong(p) \/ C!IsLong(C!OpensAt(l)) \/ C!Size(f, C!ParagraphEnd(p)) > Target
    /\ kind = "messages" /\ C!OpensAt(p) <= f =>
          LinesOf(f, l) = MaxLines \/ C!Size(f, p) - LinesOf(f, l) > Target

\* A window that begins at p may come after the chunks cs.
MayFollow(cs, p) == cs # <<>> => Maximal(cs[Len(cs)].first, cs[Len(cs)].last, p)

TightList(cs) ==
    /\ \A k \in 1 .. Len(cs) : Bounded(cs[k].first, cs[k].last)
    /\ \A k \in 2 .. Len(cs) : Maximal(cs[k - 1].first, cs[k - 1].last, cs[k].first)

\* Between paragraphs read + 1 opens one; with no window open the last of the chunks
\* ends a long one.  In a long paragraph, to sentence s, it is the window's, if there is
\* one, and else about to be read.
ProseAt(cs, f, r, s) ==
    /\ s = 0 => r = Len(text) \/ text[r + 1].opens
    /\ s = 0 /\ f = 0 /\ cs # <<>> => \E o \in Nat : Converses(o, r) /\ C!IsLong(o)
    /\ s # 0 /\ f = 0 => r < s /\ text[r + 1].opens /\ C!IsLong(r + 1) /\ Closes(r + 1, s)
    /\ s # 0 /\ f # 0 =>
          \E o \in Nat : Converses(o, r) /\ o <= f /\ r <= s /\ C!IsLong(o) /\ Closes(o, s)

\* The lines of the window are counted right and their lengths summed; with no window
\* open the conversation being read has none yet.
LinesAt(cs, f, r, t) ==
    /\ f = 0 =>
          /\ t = C!NoTurns
          /\ cs # <<>> => \E o \in Nat : Converses(o, r) /\ cs[Len(cs)].first < o
    /\ f # 0 =>
          /\ ~ C!Blank(f)
          /\ t.lines = LinesOf(f, r) /\ t.lines >= 1 /\ t.lines <= MaxLines
          /\ C!Size(f, r) = t.len + t.lines - 1
          /\ t.len <= Target \/ t.lines = 1

\* Where a loader is, with window f .. r.
TightAt(cs, f, r, s, t) ==
    /\ f # 0 => Bounded(f, r) /\ MayFollow(cs, f)
    /\ kind = "prose" => ProseAt(cs, f, r, s)
    /\ kind = "messages" => LinesAt(cs, f, r, t)

\* The sums of the first numbers of w.
LEMMA SumsExist ==
    ASSUME NEW N \in Nat, NEW w, \A p \in 1 .. N : w[p] \in Nat
    PROVE  \E f : f = [n \in 0 .. N |-> IF n = 0 THEN 0 ELSE f[n - 1] + w[n]]
<1> DEFINE SumTo(m, g) == g = [n \in 0 .. m |-> IF n = 0 THEN 0 ELSE g[n - 1] + w[n]]
           Bad == {m \in 0 .. N : ~ \E g : SumTo(m, g)}
<1>1. ASSUME Bad # {} PROVE FALSE
    <2>0. Bad \in SUBSET Nat
        OBVIOUS
    <2> HIDE DEF Bad
    <2>1. PICK m \in Bad : \A y \in Bad : m <= y
        BY <1>1, <2>0, LeastOf
    <2> USE DEF Bad
    <2>2. m \in 0 .. N /\ ~ \E g : SumTo(m, g)
        BY <2>1
    <2>3. CASE m = 0
        <3>1. PICK g : g = [n \in 0 .. 0 |-> 0]
            OBVIOUS
        <3>2. g = [n \in 0 .. 0 |-> IF n = 0 THEN 0 ELSE g[n - 1] + w[n]]
            BY <3>1
        <3>3. SumTo(m, g)
            BY <2>3, <3>2
        <3>4. QED
            BY <2>2, <3>3
    <2>4. CASE m # 0
        <3>1. m - 1 \in 0 .. N /\ m - 1 \notin Bad
            BY <2>1, <2>2, <2>4
        <3>2. PICK g : g = [n \in 0 .. m - 1 |-> IF n = 0 THEN 0 ELSE g[n - 1] + w[n]]
            BY <3>1
        <3>3. PICK h : h = [n \in 0 .. m |-> IF n = m THEN g[m - 1] + w[m] ELSE g[n]]
            OBVIOUS
        <3>4. \A n \in 0 .. m - 1 : h[n] = g[n] /\ g[n] = IF n = 0 THEN 0 ELSE g[n - 1] + w[n]
            BY <2>2, <3>2, <3>3
        <3>5. h[m] = h[m - 1] + w[m]
            BY <2>2, <2>4, <3>3, <3>4
        <3>6. \A n \in 0 .. m : h[n] = IF n = 0 THEN 0 ELSE h[n - 1] + w[n]
            <4>1. SUFFICES ASSUME NEW n \in 0 .. m PROVE h[n] = IF n = 0 THEN 0 ELSE h[n - 1] + w[n]
                OBVIOUS
            <4>2. CASE n = m
                BY <2>4, <3>5, <4>2
            <4>3. CASE n # m /\ n = 0
                BY <2>2, <3>4, <4>3
            <4>4. CASE n # m /\ n # 0
                <5>1. n \in 0 .. m - 1 /\ n - 1 \in 0 .. m - 1
                    BY <2>2, <4>4
                <5>2. QED
                    BY <3>4, <4>4, <5>1
            <4>5. QED
                BY <4>2, <4>3, <4>4
        <3>7. SumTo(m, h)
            BY <3>3, <3>6
        <3>8. QED
            BY <2>2, <3>7
    <2>5. QED
        BY <2>3, <2>4
<1>2. \E g : SumTo(N, g)
    BY <1>1
<1>3. QED
    BY <1>2

LEMMA SumsSay ==
    ASSUME NEW N \in Nat, NEW w, \A p \in 1 .. N : w[p] \in Nat,
           NEW f, f = [n \in 0 .. N |-> IF n = 0 THEN 0 ELSE f[n - 1] + w[n]]
    PROVE  /\ f[0] = 0 /\ \A p \in 1 .. N : f[p] = f[p - 1] + w[p]
           /\ \A p \in 0 .. N : f[p] \in Nat
<1>1. \A n \in 0 .. N : f[n] = IF n = 0 THEN 0 ELSE f[n - 1] + w[n]
    OBVIOUS
<1>2. f[0] = 0 /\ \A p \in 1 .. N : f[p] = f[p - 1] + w[p]
    <2>1. 0 \in 0 .. N /\ \A p \in 1 .. N : p \in 0 .. N /\ p # 0
        OBVIOUS
    <2>2. QED
        BY <1>1, <2>1
<1> DEFINE Bad == {m \in 0 .. N : f[m] \notin Nat}
<1>3. ASSUME Bad # {} PROVE FALSE
    <2>0. Bad \in SUBSET Nat
        OBVIOUS
    <2> HIDE DEF Bad
    <2>1. PICK m \in Bad : \A y \in Bad : m <= y
        BY <1>3, <2>0, LeastOf
    <2> USE DEF Bad
    <2>2. m \in 0 .. N /\ f[m] \notin Nat
        BY <2>1
    <2>3. m # 0
        BY <1>2, <2>2
    <2>4. m - 1 \in 0 .. N /\ m \in 1 .. N /\ m - 1 \notin Bad
        BY <2>1, <2>2, <2>3
    <2>5. f[m - 1] \in Nat /\ w[m] \in Nat
        BY <2>4
    <2>6. QED
        BY <1>2, <2>2, <2>4, <2>5
<1>4. QED
    BY <1>2, <1>3

\* What the pieces of a text add up to.
LEMMA AddsType ==
    ASSUME C!ChunkingAssumption, text \in C!Texts, NEW p \in 1 .. Len(text)
    PROVE  /\ C!Adds(p) \in Nat /\ C!Joint(p) \in 1 .. 2
           /\ C!Blank(p) => C!Adds(p) = 0
           /\ ~ C!Blank(p) => C!Adds(p) = C!Joint(p) + text[p].len
<1>1. text[p].len \in Nat
    BY TextType
<1>2. C!Joint(p) \in 1 .. 2
    BY DEF C!Joint
<1>3. QED
    BY <1>1, <1>2 DEF C!Adds

LEMMA JoinedSays ==
    ASSUME C!ChunkingAssumption, text \in C!Texts
    PROVE  /\ C!Joined[0] = 0
           /\ \A p \in 1 .. Len(text) : C!Joined[p] = C!Joined[p - 1] + C!Adds(p)
           /\ \A p \in 0 .. Len(text) : C!Joined[p] \in Nat
<1>1. PICK N \in Nat : N = Len(text)
    BY TextType
<1>2. PICK w : w = [p \in 1 .. N |-> C!Adds(p)]
    OBVIOUS
<1>3. \A p \in 1 .. N : w[p] = C!Adds(p) /\ w[p] \in Nat
    BY <1>1, <1>2, AddsType
<1>4. PICK f : f = [n \in 0 .. N |-> IF n = 0 THEN 0 ELSE f[n - 1] + w[n]]
    BY <1>3, SumsExist
<1>5. \A g : [n \in 0 .. N |-> IF n = 0 THEN 0 ELSE g[n - 1] + w[n]]
             = [n \in 0 .. N |-> IF n = 0 THEN 0 ELSE g[n - 1] + C!Adds(n)]
    BY <1>3
<1>6. f = [n \in 0 .. N |-> IF n = 0 THEN 0 ELSE f[n - 1] + C!Adds(n)]
    BY <1>4, <1>5
<1>7. C!Joined = [n \in 0 .. N |-> IF n = 0 THEN 0 ELSE C!Joined[n - 1] + C!Adds(n)]
    BY <1>1, <1>6 DEF C!Joined
<1>8. PICK g : g = C!Joined
    OBVIOUS
<1>9. g = [n \in 0 .. N |-> IF n = 0 THEN 0 ELSE g[n - 1] + w[n]]
    BY <1>5, <1>7, <1>8
<1>10. /\ g[0] = 0 /\ \A p \in 1 .. N : g[p] = g[p - 1] + w[p]
       /\ \A p \in 0 .. N : g[p] \in Nat
    BY <1>3, <1>9, SumsSay
<1>11. QED
    BY <1>1, <1>3, <1>8, <1>10

LEMMA JoinedGrows ==
    ASSUME C!ChunkingAssumption, text \in C!Texts, NEW a \in 0 .. Len(text), NEW b \in a .. Len(text)
    PROVE  C!Joined[a] <= C!Joined[b]
<1>1. PICK N \in Nat : N = Len(text)
    BY TextType
<1>2. PICK f : f = C!Joined
    OBVIOUS
<1>3. /\ \A p \in 1 .. N : f[p] = f[p - 1] + C!Adds(p) /\ C!Adds(p) \in Nat
      /\ \A p \in 0 .. N : f[p] \in Nat
    BY <1>1, <1>2, JoinedSays, AddsType
<1>4. PICK Bad : Bad = {e \in a .. N : f[e] < f[a]}
    OBVIOUS
<1>5. Bad \in SUBSET Nat
    BY <1>1, <1>4
<1>6. ASSUME Bad # {} PROVE FALSE
    <2>1. PICK m \in Bad : \A y \in Bad : m <= y
        BY <1>5, <1>6, LeastOf
    <2>2. m \in a .. N /\ f[m] < f[a]
        BY <1>4, <2>1
    <2>3. m # a
        BY <1>1, <1>3, <2>2
    <2>4. m - 1 \in a .. N /\ m - 1 \notin Bad /\ m \in 1 .. N /\ m - 1 \in 0 .. N
        BY <1>1, <1>4, <2>1, <2>2, <2>3
    <2>5. ~ (f[m - 1] < f[a])
        BY <1>4, <2>4
    <2>6. f[m] = f[m - 1] + C!Adds(m) /\ C!Adds(m) \in Nat /\ f[m - 1] \in Nat /\ f[a] \in Nat
        BY <1>1, <1>3, <2>4
    <2>7. QED
        BY <2>2, <2>5, <2>6
<1>7. ~ (f[b] < f[a])
    BY <1>1, <1>4, <1>6
<1>8. f[a] \in Nat /\ f[b] \in Nat
    BY <1>1, <1>3
<1>9. QED
    BY <1>2, <1>7, <1>8

\* What the sums say of a window, that begins with a piece that is not blank.
LEMMA SizeSays ==
    ASSUME C!ChunkingAssumption, text \in C!Texts,
           NEW a \in 1 .. Len(text), NEW b \in a .. Len(text), ~ C!Blank(a)
    PROVE  /\ C!Size(a, b) \in Nat /\ C!Joined[b] \in Nat /\ C!Joined[a - 1] \in Nat
           /\ C!Joined[b] = C!Joined[a - 1] + C!Size(a, b) + C!Joint(a)
           /\ C!Joint(a) \in 1 .. 2
<1>1. PICK N, l : N = Len(text) /\ l = text[a].len
    OBVIOUS
<1>2. N \in Nat /\ l \in Nat
    BY <1>1, TextType
<1>3. a \in 1 .. N /\ a - 1 \in 0 .. N /\ b \in a .. N /\ b \in 0 .. N /\ a \in 0 .. N
    BY <1>1, <1>2
<1>4. PICK i, j, k, u, o : /\ i = C!Joined[a - 1] /\ j = C!Joined[a] /\ k = C!Joined[b]
                            /\ u = C!Size(a, b) /\ o = C!Joint(a)
    OBVIOUS
<1>5. i \in Nat /\ j \in Nat /\ k \in Nat /\ j <= k
    BY <1>1, <1>2, <1>3, <1>4, JoinedSays, JoinedGrows
<1>6. j = i + (o + l) /\ o \in 1 .. 2
    BY <1>1, <1>2, <1>3, <1>4, JoinedSays, AddsType
<1>7. u = IF k - i = 0 THEN 0 ELSE k - i - o
    BY <1>4 DEF C!Size
<1>8. u = k - i - o /\ u \in Nat
    BY <1>2, <1>5, <1>6, <1>7
<1>9. k = i + u + o
    BY <1>5, <1>6, <1>8
<1>10. QED
    BY <1>4, <1>5, <1>6, <1>8, <1>9

\* Two texts joined.
LEMMA SizeJoins ==
    ASSUME C!ChunkingAssumption, text \in C!Texts, NEW a \in 1 .. Len(text), NEW b \in a .. Len(text),
           b < Len(text), NEW e \in (b + 1) .. Len(text), ~ C!Blank(a), ~ C!Blank(b + 1)
    PROVE  C!Size(a, e) = C!Size(a, b) + C!Size(b + 1, e) + C!Joint(b + 1)
<1>1. PICK N, c : N = Len(text) /\ c = b + 1
    OBVIOUS
<1>2. N \in Nat
    BY <1>1, TextType
<1>3. /\ a \in 1 .. N /\ b \in a .. N /\ c \in 1 .. N /\ e \in c .. N /\ e \in a .. N /\ c - 1 = b
    BY <1>1, <1>2
<1>4. ~ C!Blank(a) /\ ~ C!Blank(c)
    BY <1>1
<1>5. PICK i, j, k, u, v, w, o, p :
            /\ i = C!Joined[a - 1] /\ j = C!Joined[b] /\ k = C!Joined[e]
            /\ u = C!Size(a, b) /\ v = C!Size(c, e) /\ w = C!Size(a, e)
            /\ o = C!Joint(a) /\ p = C!Joint(c)
    OBVIOUS
<1>7. u \in Nat /\ i \in Nat /\ j \in Nat /\ j = i + u + o /\ o \in 1 .. 2
    BY <1>1, <1>3, <1>4, <1>5, SizeSays
<1>8. v \in Nat /\ k = j + v + p /\ p \in 1 .. 2
    BY <1>1, <1>3, <1>4, <1>5, SizeSays
<1>9. w \in Nat /\ k = i + w + o
    BY <1>1, <1>3, <1>4, <1>5, SizeSays
<1>10. w = u + v + p
    BY <1>7, <1>8, <1>9
<1>11. QED
    BY <1>1, <1>5, <1>10

\* One piece.
LEMMA SizeOne ==
    ASSUME C!ChunkingAssumption, text \in C!Texts, NEW a \in 1 .. Len(text), ~ C!Blank(a)
    PROVE  C!Size(a, a) = text[a].len
<1>1. PICK N : N = Len(text)
    OBVIOUS
<1>2. PICK i, j, u, l, o : /\ i = C!Joined[a - 1] /\ j = C!Joined[a] /\ u = C!Size(a, a)
                            /\ l = text[a].len /\ o = C!Joint(a)
    OBVIOUS
<1>3. N \in Nat /\ l \in Nat
    BY <1>1, <1>2, TextType
<1>4. a \in 1 .. N /\ a \in a .. N /\ a - 1 \in 0 .. N
    BY <1>1, <1>3
<1>5. j = i + (o + l)
    BY <1>1, <1>2, <1>4, JoinedSays, AddsType
<1>6. u \in Nat /\ i \in Nat /\ j = i + u + o /\ o \in 1 .. 2
    BY <1>1, <1>2, <1>4, SizeSays
<1>7. u = l
    BY <1>3, <1>5, <1>6
<1>8. QED
    BY <1>2, <1>7

LEMMA SizeBlank ==
    ASSUME C!ChunkingAssumption, text \in C!Texts, NEW a \in 1 .. Len(text), NEW b \in a .. Len(text),
           b < Len(text), C!Blank(b + 1)
    PROVE  C!Size(a, b + 1) = C!Size(a, b)
<1>1. PICK N \in Nat : N = Len(text)
    BY TextType
<1>2. PICK c : c = b + 1
    OBVIOUS
<1>3. c \in 1 .. N /\ c - 1 = b /\ C!Blank(c) /\ b \in 0 .. N
    BY <1>1, <1>2
<1>4. C!Joined[c] = C!Joined[b] + 0 /\ C!Joined[b] \in Nat
    BY <1>1, <1>3, JoinedSays, AddsType
<1>5. C!Joined[c] = C!Joined[b]
    BY <1>4
<1>6. QED
    BY <1>2, <1>5 DEF C!Size

LEMMA LinesSay ==
    ASSUME NEW f \in Nat, NEW l \in Nat, f <= l
    PROVE  /\ LinesOf(f, l) \in Nat
           /\ C!Blank(f) => LinesOf(f, f) = 0
           /\ ~ C!Blank(f) => LinesOf(f, f) = 1
           /\ C!Blank(l + 1) => LinesOf(f, l + 1) = LinesOf(f, l)
           /\ ~ C!Blank(l + 1) => LinesOf(f, l + 1) = LinesOf(f, l) + 1
<1>1. PICK S : S = {p \in f .. l : ~ C!Blank(p)}
    OBVIOUS
<1>2. S \subseteq f .. l
    BY <1>1
<1>3. IsFiniteSet(f .. l)
    BY FS_Interval
<1>4. IsFiniteSet(S)
    BY <1>2, <1>3, FS_Subset
<1>5. Cardinality(S) \in Nat
    BY <1>4, FS_CardinalityType
<1>6. C!Blank(f) => {p \in f .. f : ~ C!Blank(p)} = {}
    OBVIOUS
<1>7. ~ C!Blank(f) => {p \in f .. f : ~ C!Blank(p)} = {f}
    OBVIOUS
<1>8. Cardinality({}) = 0 /\ Cardinality({f}) = 1
    BY FS_EmptySet, FS_Singleton
<1>9. C!Blank(l + 1) => {p \in f .. l + 1 : ~ C!Blank(p)} = S
    <2>1. SUFFICES ASSUME C!Blank(l + 1) PROVE {p \in f .. l + 1 : ~ C!Blank(p)} = S
        OBVIOUS
    <2>2. \A p : p \in f .. l + 1 <=> p \in f .. l \/ p = l + 1
        OBVIOUS
    <2>3. QED
        BY <1>1, <2>1, <2>2
<1>10. ~ C!Blank(l + 1) => {p \in f .. l + 1 : ~ C!Blank(p)} = S \cup {l + 1}
    <2>1. SUFFICES ASSUME ~ C!Blank(l + 1) PROVE {p \in f .. l + 1 : ~ C!Blank(p)} = S \cup {l + 1}
        OBVIOUS
    <2>2. \A p : p \in f .. l + 1 <=> p \in f .. l \/ p = l + 1
        OBVIOUS
    <2>3. QED
        BY <1>1, <2>1, <2>2
<1>11. Cardinality(S \cup {l + 1}) = Cardinality(S) + 1
    <2>1. l + 1 \notin S
        BY <1>2
    <2>2. QED
        BY <1>4, <2>1, FS_AddElement
<1>12. QED
    BY <1>1, <1>5, <1>6, <1>7, <1>8, <1>9, <1>10, <1>11 DEF LinesOf
TightInv ==
    /\ ChunksInv
    /\ kind = "prose" => \A p \in 1 .. Len(text) : ~ C!Blank(p)
    /\ TightList(chunks)
    /\ ~ done => TightAt(chunks, from, read, split, turns)

LEMMA ClosesOnce ==
    ASSUME Len(text) \in Nat, NEW p \in 1 .. Len(text), NEW e, Closes(p, e)
    PROVE  C!ParagraphEnd(p) = e
<1>1. PICK x : x = C!ParagraphEnd(p)
    OBVIOUS
<1>2. x \in p .. Len(text) /\ Closes(p, x)
    BY <1>1, ParagraphEnds
<1>3. ASSUME x < e PROVE FALSE
    <2>1. x + 1 \in (p + 1) .. e /\ x # Len(text)
        BY <1>2, <1>3 DEF Closes
    <2>2. QED
        BY <1>2, <2>1 DEF Closes
<1>4. ASSUME e < x PROVE FALSE
    <2>1. e + 1 \in (p + 1) .. x /\ e # Len(text)
        BY <1>2, <1>4 DEF Closes
    <2>2. QED
        BY <1>2, <2>1 DEF Closes
<1>5. x \in Nat /\ e \in Nat
    BY <1>2 DEF Closes
<1>6. QED
    BY <1>1, <1>3, <1>4, <1>5

LEMMA ClosesWithin ==
    ASSUME NEW p \in Nat, NEW e, Closes(p, e), NEW q \in p .. e
    PROVE  Closes(q, e)
BY DEF Closes

LEMMA OpensHere ==
    ASSUME NEW p \in Nat, p # 0, text[p].opens PROVE C!OpensAt(p) = p /\ Converses(p, p)
<1>1. Converses(p, p)
    BY DEF Converses
<1>2. QED
    BY <1>1, OpensConversation

\* What makes a window maximal before a paragraph.
LEMMA MaximalBefore ==
    ASSUME kind = "prose", NEW p \in Nat, text[p].opens, NEW f, NEW l \in Nat, l < p,
           C!IsLong(p) \/ C!IsLong(C!OpensAt(l)) \/ C!Size(f, C!ParagraphEnd(p)) > Target
    PROVE  Maximal(f, l, p)
<1>1. C!OpensAt(p) = p
    BY OpensHere
<1>2. ~ (C!OpensAt(p) <= l)
    BY <1>1
<1>3. QED
    BY <1>2 DEF Maximal

\* What is said of a text stays.
LEMMA SizesKept ==
    ASSUME UNCHANGED <<kind, text>>
    PROVE  /\ \A p : C!Blank(p)' = C!Blank(p)
           /\ \A a, b : C!Size(a, b)' = C!Size(a, b)
           /\ \A p : C!ParagraphEnd(p)' = C!ParagraphEnd(p)
           /\ \A p : C!OpensAt(p)' = C!OpensAt(p)
           /\ \A p : C!IsLong(p)' = C!IsLong(p)
           /\ \A f, l : LinesOf(f, l)' = LinesOf(f, l)
           /\ \A p, e : Closes(p, e)' = Closes(p, e)
           /\ \A o, p : Converses(o, p)' = Converses(o, p)
<1>1. C!Joined' = C!Joined
    <2>1. \A p : C!Adds(p)' = C!Adds(p)
        BY DEF C!Adds, C!Blank, C!Joint
    <2>2. QED
        BY <2>1 DEF C!Joined
<1>2. \A p : C!Blank(p)' = C!Blank(p) /\ C!Joint(p)' = C!Joint(p)
    BY DEF C!Joint, C!Blank
<1>3. \A a, b : C!Size(a, b)' = C!Size(a, b)
    BY <1>1, <1>2 DEF C!Size
<1>4. \A p : C!ParagraphEnd(p)' = C!ParagraphEnd(p)
    BY DEF C!ParagraphEnd
<1>5. \A p : C!OpensAt(p)' = C!OpensAt(p)
    BY DEF C!OpensAt
<1>6. \A p : C!IsLong(p)' = C!IsLong(p)
    BY <1>3, <1>4 DEF C!IsLong
<1>7. \A f, l : LinesOf(f, l)' = LinesOf(f, l)
    BY DEF LinesOf, C!Blank
<1>8. \A p, e : Closes(p, e)' = Closes(p, e)
    BY DEF Closes
<1>9. \A o, p : Converses(o, p)' = Converses(o, p)
    BY DEF Converses
<1>10. QED
    BY <1>2, <1>3, <1>4, <1>5, <1>6, <1>7, <1>8, <1>9

LEMMA TightKept ==
    ASSUME UNCHANGED <<kind, text>>, NEW cs, NEW f, NEW r, NEW s, NEW t
    PROVE  /\ TightList(cs)' = TightList(cs)
           /\ TightAt(cs, f, r, s, t)' = TightAt(cs, f, r, s, t)
<1>1. \A a, b : Bounded(a, b)' = Bounded(a, b)
    BY SizesKept DEF Bounded
<1>2. \A a, b, p : Maximal(a, b, p)' = Maximal(a, b, p)
    BY SizesKept DEF Maximal
<1>3. TightList(cs)' = TightList(cs)
    BY <1>1, <1>2 DEF TightList
<1>4. MayFollow(cs, f)' = MayFollow(cs, f)
    BY <1>2 DEF MayFollow
<1>5. ProseAt(cs, f, r, s)' = ProseAt(cs, f, r, s)
    BY SizesKept DEF ProseAt
<1>6. LinesAt(cs, f, r, t)' = LinesAt(cs, f, r, t)
    BY SizesKept DEF LinesAt, C!NoTurns
<1>7. TightAt(cs, f, r, s, t)' = TightAt(cs, f, r, s, t)
    BY <1>1, <1>4, <1>5, <1>6 DEF TightAt
<1>8. QED
    BY <1>3, <1>7

\* The window that is emitted.
LEMMA FlushedTight ==
    ASSUME C!ChunkingAssumption, ReadingOK, kind # "visits", TightList(chunks),
           from # 0 => Bounded(from, read) /\ MayFollow(chunks, from), NEW new, new = C!Flushed
    PROVE  /\ TightList(new)
           /\ from = 0 => new = chunks
           /\ from # 0 => new # <<>> /\ new[Len(new)].first = from /\ new[Len(new)].last = read
<1>1. /\ new \in Seq(C!Chunk) /\ chunks \in Seq(C!Chunk) /\ Len(chunks) \in Nat
      /\ \A k \in 1 .. Len(chunks) : new[k] = chunks[k]
      /\ from = 0 => new = chunks
      /\ from # 0 =>
            /\ Len(new) = Len(chunks) + 1
            /\ new[Len(new)] = [seq |-> Len(chunks) - base, first |-> from, last |-> read]
    BY FlushedChunks DEF ReadingOK, C!TypeOK
<1>2. CASE from = 0
    BY <1>1, <1>2
<1>3. CASE from # 0
    <2>1. /\ Len(new) = Len(chunks) + 1
          /\ new[Len(new)].first = from /\ new[Len(new)].last = read
        BY <1>1, <1>3
    <2>2. ASSUME NEW k \in 1 .. Len(new) PROVE Bounded(new[k].first, new[k].last)
        <3>1. CASE k \in 1 .. Len(chunks)
            BY <1>1, <3>1 DEF TightList
        <3>2. CASE k = Len(new)
            BY <1>3, <2>1, <3>2
        <3>3. QED
            BY <1>1, <2>1, <3>1, <3>2
    <2>3. ASSUME NEW k \in 2 .. Len(new)
          PROVE  Maximal(new[k - 1].first, new[k - 1].last, new[k].first)
        <3>1. k - 1 \in 1 .. Len(chunks) /\ new[k - 1] = chunks[k - 1]
            BY <1>1, <2>1
        <3>2. CASE k \in 2 .. Len(chunks)
            <4>1. new[k] = chunks[k]
                BY <1>1, <3>2
            <4>2. QED
                BY <3>1, <3>2, <4>1 DEF TightList
        <3>3. CASE k = Len(new)
            <4>1. k - 1 = Len(chunks) /\ chunks # <<>>
                BY <1>1, <2>1, <3>1, <3>3
            <4>2. Maximal(chunks[Len(chunks)].first, chunks[Len(chunks)].last, from)
                BY <1>3, <4>1 DEF MayFollow
            <4>3. QED
                BY <2>1, <3>1, <3>3, <4>1, <4>2
        <3>4. QED
            BY <1>1, <2>1, <3>2, <3>3
    <2>4. new # <<>>
        BY <1>1, <2>1
    <2>5. QED
        BY <1>3, <2>1, <2>2, <2>3, <2>4 DEF TightList
<1>4. QED
    BY <1>2, <1>3

LEMMA OtherTight ==
    ASSUME kind \notin {"prose", "messages"}, NEW cs, NEW f, NEW r, NEW s, NEW t
    PROVE  TightList(cs) /\ TightAt(cs, f, r, s, t)
BY DEF TightList, TightAt, Bounded, Maximal, MayFollow
\* What a prose loader knows of its text.
LEMMA ProseKnows ==
    ASSUME C!ChunkingAssumption, TightInv, kind = "prose"
    PROVE  /\ Len(text) \in Nat /\ read \in Nat /\ read <= Len(text) /\ from \in 0 .. read
           /\ split \in 0 .. Len(text) /\ ReadingOK /\ text \in C!Texts
           /\ \A p \in 1 .. Len(text) : ~ C!Blank(p) /\ text[p].len \in Nat
           /\ Target \in Nat /\ HardMax \in Nat
           /\ chunks # <<>> => chunks[Len(chunks)].last \in Nat /\ chunks[Len(chunks)].last <= read
           /\ from = 0 /\ chunks # <<>> => chunks[Len(chunks)].last = read
<1>1. ReadingOK /\ text \in C!Texts
    BY DEF TightInv, ChunksInv, ReadingOK, C!TypeOK
<1>2. /\ Len(text) \in Nat /\ read \in Nat /\ read <= Len(text) /\ from \in 0 .. read
      /\ split \in 0 .. Len(text)
      /\ \A p \in 1 .. Len(text) : text[p].len \in Nat
    BY <1>1, ReadingTypes
<1>3. \A p \in 1 .. Len(text) : ~ C!Blank(p)
    BY DEF TightInv
<1>4. Target \in Nat /\ HardMax \in Nat
    BY DEF C!ChunkingAssumption
<1>5. ASSUME chunks # <<>>
      PROVE  /\ chunks[Len(chunks)].last \in Nat /\ chunks[Len(chunks)].last <= read
             /\ from = 0 => chunks[Len(chunks)].last = read
    <2>1. PICK n, l : n = Len(chunks) /\ l = chunks[n].last
        OBVIOUS
    <2>2. chunks \in Seq(C!Chunk) /\ Apart(chunks, IF from = 0 THEN read ELSE from - 1)
          /\ C!Follows(ReachedBy(chunks), IF from = 0 THEN read + 1 ELSE from)
        BY <1>1 DEF ReadingOK, C!TypeOK
    <2>3. n \in 1 .. n /\ chunks[n] \in C!Chunk /\ ReachedBy(chunks) = l
        BY <1>5, <2>1, <2>2 DEF ReachedBy
    <2>4. l \in Nat
        BY <2>1, <2>3 DEF C!Chunk
    <2>5. l <= (IF from = 0 THEN read ELSE from - 1)
        BY <2>1, <2>2, <2>3 DEF Apart
    <2>6. l <= read
        BY <1>2, <2>4, <2>5
    <2>7. from = 0 => l = read
        <3>1. SUFFICES ASSUME from = 0, l < read PROVE FALSE
            BY <1>2, <2>4, <2>6
        <3>2. read \in (l + 1) .. (read + 1 - 1) /\ read \in 1 .. Len(text)
            BY <1>2, <2>4, <3>1
        <3>3. C!Blank(read)
            BY <2>2, <2>3, <3>1, <3>2 DEF C!Follows
        <3>4. QED
            BY <1>3, <3>2, <3>3
    <2>8. QED
        BY <2>1, <2>4, <2>6, <2>7
<1>6. QED
    BY <1>1, <1>2, <1>3, <1>4, <1>5

LEMMA ParagraphTight ==
    ASSUME C!ChunkingAssumption, TightInv, C!TakeParagraph,
           NEW new, new = chunks', NEW f, f = from', NEW r, r = read', NEW t
    PROVE  TightList(new) /\ TightAt(new, f, r, 0, t)
<1>1. /\ kind = "prose" /\ read < Len(text) /\ split = 0 /\ C!Paragraph <= HardMax
      /\ C!Put(C!ParagraphFits, C!ParagraphEnd(read + 1))
    BY DEF C!TakeParagraph
<1>2. /\ Len(text) \in Nat /\ read \in Nat /\ from \in 0 .. read /\ ReadingOK /\ text \in C!Texts
      /\ \A p \in 1 .. Len(text) : ~ C!Blank(p)
      /\ Target \in Nat /\ HardMax \in Nat
      /\ chunks # <<>> => chunks[Len(chunks)].last \in Nat /\ chunks[Len(chunks)].last <= read
      /\ from = 0 /\ chunks # <<>> => chunks[Len(chunks)].last = read
    BY <1>1, ProseKnows
<1>3. ~ done
    BY <1>1, <1>2 DEF ReadingOK
<1>4. TightList(chunks) /\ TightAt(chunks, from, read, 0, turns)
    BY <1>1, <1>3 DEF TightInv
<1>5. ProseAt(chunks, from, read, 0) /\ (from # 0 => Bounded(from, read) /\ MayFollow(chunks, from))
    BY <1>1, <1>4 DEF TightAt
<1>6. PICK p, e : p = read + 1 /\ e = C!ParagraphEnd(p)
    OBVIOUS
<1>7. p \in 1 .. Len(text) /\ p \in Nat /\ text[p].opens /\ ~ C!Blank(p)
    BY <1>1, <1>2, <1>5, <1>6 DEF ProseAt
<1>8. e \in p .. Len(text) /\ Closes(p, e)
    BY <1>2, <1>6, <1>7, ParagraphEnds
<1>9. C!Size(p, e) <= HardMax /\ C!Size(p, e) \in Nat
    BY <1>1, <1>2, <1>6, <1>7, <1>8, SizeSays DEF C!Paragraph
<1>10. r = e
    BY <1>1, <1>6 DEF C!Put
<1>11. e = Len(text) \/ text[e + 1].opens
    BY <1>8 DEF Closes
<1>12. ASSUME new = C!Flushed, f = p, from = 0 \/ ~ C!ParagraphFits
       PROVE  TightList(new) /\ Bounded(f, r) /\ MayFollow(new, f)
    <2>1. kind # "visits"
        BY <1>1
    <2>2. /\ TightList(new)
          /\ from = 0 => new = chunks
          /\ from # 0 => new # <<>> /\ new[Len(new)].first = from /\ new[Len(new)].last = read
        BY <1>2, <1>4, <1>5, <1>12, <2>1, FlushedTight
    <2>3. Bounded(p, e)
        <3>1. e \in e .. Len(text)
            BY <1>2, <1>7, <1>8
        <3>2. QED
            BY <1>1, <1>8, <1>9, <3>1 DEF Bounded
    <2>4. MayFollow(new, p)
        <3>1. CASE from = 0 /\ chunks # <<>>
            <4>1. PICK o \in Nat : Converses(o, read) /\ C!IsLong(o)
                BY <1>5, <3>1 DEF ProseAt
            <4>2. C!OpensAt(read) = o
                BY <1>2, <4>1, OpensConversation
            <4>3. PICK a, l : a = chunks[Len(chunks)].first /\ l = chunks[Len(chunks)].last
                OBVIOUS
            <4>4. l = read /\ l < p
                BY <1>2, <1>6, <3>1, <4>3
            <4>5. Maximal(a, l, p)
                BY <1>1, <1>2, <1>7, <4>1, <4>2, <4>4, MaximalBefore
            <4>6. QED
                BY <2>2, <3>1, <4>3, <4>5 DEF MayFollow
        <3>2. CASE from = 0 /\ chunks = <<>>
            BY <2>2, <3>2 DEF MayFollow
        <3>3. CASE from # 0
            <4>1. from \in 1 .. Len(text) /\ read \in from .. Len(text) /\ ~ C!Blank(from)
                BY <1>1, <1>2, <3>3
            <4>2. C!Size(from, e) = C!Size(from, read) + C!Size(p, e) + C!Joint(p)
                BY <1>1, <1>2, <1>6, <1>7, <1>8, <4>1, SizeJoins
            <4>3. C!Joint(p) = 2
                BY <1>1, <1>7 DEF C!Joint
            <4>4. ~ (C!Size(from, read) + C!Size(p, e) + 2 <= Target)
                BY <1>6, <1>12, <3>3 DEF C!ParagraphFits, C!Window, C!Paragraph
            <4>5. C!Size(from, read) \in Nat
                BY <1>2, <4>1, SizeSays
            <4>6. C!Size(from, e) > Target
                BY <1>2, <1>9, <4>2, <4>3, <4>4, <4>5
            <4>7. read < p
                BY <1>2, <1>6
            <4>8. Maximal(from, read, p)
                BY <1>1, <1>2, <1>6, <1>7, <4>6, <4>7, MaximalBefore
            <4>9. QED
                BY <2>2, <3>3, <4>8 DEF MayFollow
        <3>4. QED
            BY <3>1, <3>2, <3>3
    <2>5. QED
        BY <1>10, <1>12, <2>2, <2>3, <2>4
<1>13. ASSUME new = chunks, f = from, from # 0, C!ParagraphFits
       PROVE  TightList(new) /\ Bounded(f, r) /\ MayFollow(new, f)
    <2>1. from \in 1 .. Len(text) /\ read \in from .. Len(text) /\ ~ C!Blank(from)
        BY <1>1, <1>2, <1>13
    <2>2. C!Size(from, e) = C!Size(from, read) + C!Size(p, e) + C!Joint(p)
        BY <1>1, <1>2, <1>6, <1>7, <1>8, <2>1, SizeJoins
    <2>3. C!Joint(p) = 2
        BY <1>1, <1>7 DEF C!Joint
    <2>4. C!Size(from, read) + C!Size(p, e) + 2 <= Target
        BY <1>6, <1>13 DEF C!ParagraphFits, C!Window, C!Paragraph
    <2>5. C!Size(from, e) <= Target
        BY <2>2, <2>3, <2>4
    <2>6. Bounded(from, e)
        BY <1>1, <2>5 DEF Bounded
    <2>7. QED
        BY <1>4, <1>5, <1>10, <1>13, <2>6
<1>14. \/ new = C!Flushed /\ f = p /\ (from = 0 \/ ~ C!ParagraphFits)
       \/ new = chunks /\ f = from /\ from # 0 /\ C!ParagraphFits
    BY <1>1, <1>6 DEF C!Put, C!Flushed
<1>15. TightList(new) /\ Bounded(f, r) /\ MayFollow(new, f) /\ f # 0
    BY <1>7, <1>12, <1>13, <1>14
<1>16. ProseAt(new, f, r, 0)
    BY <1>10, <1>11, <1>15 DEF ProseAt
<1>17. QED
    BY <1>1, <1>15, <1>16 DEF TightAt

LEMMA LongTight ==
    ASSUME C!ChunkingAssumption, TightInv, C!LongParagraph,
           NEW new, new = chunks', NEW s, s = split', NEW t
    PROVE  TightList(new) /\ TightAt(new, 0, read, s, t)
<1>1. /\ kind = "prose" /\ read < Len(text) /\ split = 0 /\ C!Paragraph > HardMax
      /\ new = C!Flushed /\ s = C!ParagraphEnd(read + 1)
    BY DEF C!LongParagraph
<1>2. /\ Len(text) \in Nat /\ read \in Nat /\ ReadingOK
    BY <1>1, ProseKnows
<1>3. ~ done
    BY <1>1, <1>2 DEF ReadingOK
<1>4. TightList(chunks) /\ TightAt(chunks, from, read, 0, turns)
    BY <1>1, <1>3 DEF TightInv
<1>5. ProseAt(chunks, from, read, 0) /\ (from # 0 => Bounded(from, read) /\ MayFollow(chunks, from))
    BY <1>1, <1>4 DEF TightAt
<1>6. PICK p : p = read + 1
    OBVIOUS
<1>7. p \in 1 .. Len(text) /\ text[p].opens
    BY <1>1, <1>2, <1>5, <1>6 DEF ProseAt
<1>8. s \in p .. Len(text) /\ Closes(p, s)
    BY <1>1, <1>2, <1>6, <1>7, ParagraphEnds
<1>9. C!IsLong(p)
    BY <1>1, <1>6 DEF C!Paragraph, C!IsLong
<1>10. TightList(new)
    <2>1. kind # "visits"
        BY <1>1
    <2>2. QED
        BY <1>1, <1>2, <1>4, <1>5, <2>1, FlushedTight
<1>11. s # 0 /\ read < s
    BY <1>2, <1>6, <1>8
<1>12. ProseAt(new, 0, read, s)
    BY <1>6, <1>7, <1>8, <1>9, <1>11 DEF ProseAt
<1>13. QED
    BY <1>1, <1>10, <1>12 DEF TightAt

LEMMA SentenceTight ==
    ASSUME C!ChunkingAssumption, TightInv, C!TakeSentence,
           NEW new, new = chunks', NEW f, f = from', NEW r, r = read', NEW t
    PROVE  TightList(new) /\ TightAt(new, f, r, split, t)
<1>1. /\ read < split
      /\ C!Put(C!Window + text[read + 1].len + 1 <= HardMax, read + 1)
    BY DEF C!TakeSentence
<1>2. kind = "prose"
    <2>1. ReadingOK
        BY DEF TightInv, ChunksInv
    <2>2. read \in Nat /\ split \in Nat
        BY <2>1, ReadingTypes
    <2>3. QED
        BY <1>1, <2>1, <2>2 DEF ReadingOK
<1>3. /\ Len(text) \in Nat /\ read \in Nat /\ from \in 0 .. read /\ ReadingOK /\ text \in C!Texts
      /\ split \in 0 .. Len(text)
      /\ \A p \in 1 .. Len(text) : ~ C!Blank(p) /\ text[p].len \in Nat
      /\ Target \in Nat /\ HardMax \in Nat
      /\ chunks # <<>> => chunks[Len(chunks)].last \in Nat /\ chunks[Len(chunks)].last <= read
    BY <1>2, ProseKnows
<1>4. ~ done
    BY <1>1, <1>3 DEF ReadingOK
<1>5. TightList(chunks) /\ TightAt(chunks, from, read, split, turns)
    BY <1>4 DEF TightInv
<1>6. ProseAt(chunks, from, read, split)
      /\ (from # 0 => Bounded(from, read) /\ MayFollow(chunks, from))
    BY <1>2, <1>5 DEF TightAt
<1>7. PICK p : p = read + 1
    OBVIOUS
<1>8. /\ p \in 1 .. Len(text) /\ p \in Nat /\ ~ C!Blank(p) /\ split # 0 /\ split \in p .. Len(text)
      /\ read < p
    BY <1>1, <1>3, <1>7
<1>9. r = p
    BY <1>1, <1>7 DEF C!Put
<1>10. \/ new = C!Flushed /\ f = p /\ (from = 0 \/ ~ (C!Size(from, read) + text[p].len + 1 <= HardMax))
       \/ new = chunks /\ f = from /\ from # 0 /\ C!Size(from, read) + text[p].len + 1 <= HardMax
    BY <1>1, <1>7 DEF C!Put, C!Flushed, C!Window
<1>11. CASE from = 0
    <2>1. text[p].opens /\ C!IsLong(p) /\ Closes(p, split)
        BY <1>6, <1>7, <1>8, <1>11 DEF ProseAt
    <2>2. new = chunks /\ f = p
        BY <1>10, <1>11 DEF C!Flushed
    <2>3. Bounded(p, p)
        BY <1>2, <1>8, <2>1 DEF Bounded
    <2>4. MayFollow(chunks, p)
        <3>1. CASE chunks # <<>>
            <4>1. PICK a, l : a = chunks[Len(chunks)].first /\ l = chunks[Len(chunks)].last
                OBVIOUS
            <4>2. l \in Nat /\ l < p
                BY <1>3, <1>7, <3>1, <4>1
            <4>3. Maximal(a, l, p)
                BY <1>2, <1>8, <2>1, <4>2, MaximalBefore
            <4>4. QED
                BY <4>1, <4>3 DEF MayFollow
        <3>2. QED
            BY <3>1 DEF MayFollow
    <2>5. ProseAt(chunks, p, p, split)
        <3>1. Converses(p, p) /\ p # 0
            BY <1>8, <2>1, OpensHere
        <3>2. p <= p /\ p <= split
            BY <1>8
        <3>3. QED
            BY <1>8, <2>1, <3>1, <3>2 DEF ProseAt
    <2>6. QED
        BY <1>2, <1>5, <1>9, <2>2, <2>3, <2>4, <2>5 DEF TightAt
<1>12. CASE from # 0
    <2>1. PICK o \in Nat : Converses(o, read) /\ o <= from /\ read <= split
                           /\ C!IsLong(o) /\ Closes(o, split)
        BY <1>6, <1>8, <1>12 DEF ProseAt
    <2>2. o \in 1 .. read
        BY <2>1 DEF Converses
    <2>3. ~ text[p].opens
        <3>1. p \in (o + 1) .. split
            BY <1>3, <1>8, <2>2
        <3>2. QED
            BY <2>1, <3>1 DEF Closes
    <2>4. Converses(o, p)
        <3>1. o \in 1 .. p
            BY <1>3, <1>7, <2>2
        <3>2. ASSUME NEW q \in (o + 1) .. p PROVE ~ text[q].opens
            <4>1. q \in (o + 1) .. read \/ q = p
                BY <1>3, <1>7, <2>2
            <4>2. QED
                BY <2>1, <2>3, <4>1 DEF Converses
        <3>3. QED
            BY <2>1, <3>1, <3>2 DEF Converses
    <2>5. Closes(from, split) /\ Closes(p, split)
        <3>1. from \in o .. split /\ p \in o .. split
            BY <1>3, <1>8, <2>1, <2>2
        <3>2. QED
            BY <2>1, <3>1, ClosesWithin
    <2>6. C!Size(from, p) = C!Size(from, read) + text[p].len + 1 /\ C!Size(from, read) \in Nat
        <3>1. from \in 1 .. Len(text) /\ read \in from .. Len(text) /\ ~ C!Blank(from)
              /\ p \in p .. Len(text) /\ read < Len(text)
            BY <1>3, <1>7, <1>8, <1>12
        <3>2. C!Size(from, p) = C!Size(from, read) + C!Size(p, p) + C!Joint(p)
            BY <1>3, <1>7, <1>8, <3>1, SizeJoins
        <3>3. C!Joint(p) = 1
            BY <2>3 DEF C!Joint
        <3>4. C!Size(p, p) = text[p].len
            BY <1>3, <1>8, SizeOne
        <3>5. C!Size(from, read) \in Nat
            BY <1>3, <3>1, SizeSays
        <3>6. QED
            BY <3>2, <3>3, <3>4, <3>5
    <2>7. CASE new = chunks /\ f = from /\ C!Size(from, read) + text[p].len + 1 <= HardMax
        <3>1. Bounded(from, p)
            BY <1>2, <1>8, <2>5, <2>6, <2>7 DEF Bounded
        <3>2. ProseAt(chunks, from, p, split)
            <4>1. p <= split
                BY <1>8
            <4>2. QED
                BY <1>8, <1>12, <2>1, <2>4, <4>1 DEF ProseAt
        <3>3. QED
            BY <1>2, <1>5, <1>6, <1>9, <1>12, <2>7, <3>1, <3>2 DEF TightAt
    <2>8. CASE new = C!Flushed /\ f = p /\ ~ (C!Size(from, read) + text[p].len + 1 <= HardMax)
        <3>1. /\ TightList(new) /\ new # <<>>
              /\ new[Len(new)].first = from /\ new[Len(new)].last = read
            <4>1. kind # "visits"
                BY <1>2
            <4>2. QED
                BY <1>3, <1>5, <1>6, <1>12, <2>8, <4>1, FlushedTight
        <3>2. Bounded(p, p)
            BY <1>2, <1>8, <2>5 DEF Bounded
        <3>3. MayFollow(new, p)
            <4>1. C!OpensAt(p) = o /\ o <= read
                BY <1>8, <2>2, <2>4, OpensConversation
            <4>2. C!Size(from, p) > HardMax
                BY <1>3, <1>8, <2>6, <2>8
            <4>3. Maximal(from, read, p)
                BY <1>2, <4>1, <4>2 DEF Maximal
            <4>4. QED
                BY <3>1, <4>3 DEF MayFollow
        <3>4. ProseAt(new, p, p, split)
            <4>1. p <= split /\ o <= p /\ p # 0
                BY <1>3, <1>8, <2>2
            <4>2. QED
                BY <1>8, <2>1, <2>4, <4>1 DEF ProseAt
        <3>5. QED
            BY <1>2, <1>9, <2>8, <3>1, <3>2, <3>3, <3>4 DEF TightAt
    <2>9. QED
        BY <1>10, <1>12, <2>7, <2>8
<1>13. QED
    BY <1>11, <1>12

LEMMA EndSplitTight ==
    ASSUME C!ChunkingAssumption, TightInv, C!EndSplit, ~ done, NEW new, new = chunks', NEW t
    PROVE  TightList(new) /\ TightAt(new, 0, read, 0, t)
<1>1. split # 0 /\ read = split /\ new = C!Flushed
    BY DEF C!EndSplit
<1>2. kind = "prose" /\ ReadingOK /\ read \in Nat /\ from \in 0 .. read
    BY <1>1, ReadingTypes DEF TightInv, ChunksInv, ReadingOK
<1>3. TightList(chunks) /\ TightAt(chunks, from, read, split, turns)
    BY DEF TightInv
<1>4. ProseAt(chunks, from, read, split)
      /\ (from # 0 => Bounded(from, read) /\ MayFollow(chunks, from))
    BY <1>2, <1>3 DEF TightAt
<1>5. from # 0
    BY <1>1, <1>2, <1>4 DEF ProseAt
<1>6. PICK o \in Nat : Converses(o, read) /\ C!IsLong(o) /\ Closes(o, split)
    BY <1>1, <1>4, <1>5 DEF ProseAt
<1>7. TightList(new)
    <2>1. kind # "visits"
        BY <1>2
    <2>2. QED
        BY <1>1, <1>2, <1>3, <1>4, <2>1, FlushedTight
<1>8. read = Len(text) \/ text[read + 1].opens
    BY <1>1, <1>6 DEF Closes
<1>9. ProseAt(new, 0, read, 0)
    BY <1>6, <1>8 DEF ProseAt
<1>10. QED
    BY <1>2, <1>7, <1>9 DEF TightAt
\* What the loader of a message thread knows.
LEMMA ThreadKnows ==
    ASSUME C!ChunkingAssumption, TightInv, kind = "messages", read < Len(text)
    PROVE  /\ Len(text) \in Nat /\ read \in Nat /\ from \in 0 .. read /\ ReadingOK /\ text \in C!Texts
           /\ \A p \in 1 .. Len(text) : text[p].len \in Nat
           /\ Target \in Nat /\ MaxLines \in Nat /\ MaxLines >= 1
           /\ turns.lines \in Nat /\ turns.len \in Nat
           /\ chunks # <<>> => chunks[Len(chunks)].first \in Nat /\ chunks[Len(chunks)].first <= read
           /\ TightList(chunks) /\ LinesAt(chunks, from, read, turns)
           /\ from # 0 => Bounded(from, read) /\ MayFollow(chunks, from)
<1>1. ReadingOK /\ text \in C!Texts /\ turns \in [lines : Nat, len : Nat]
    BY DEF TightInv, ChunksInv, ReadingOK, C!TypeOK
<1>2. /\ Len(text) \in Nat /\ read \in Nat /\ from \in 0 .. read
      /\ \A p \in 1 .. Len(text) : text[p].len \in Nat
    BY <1>1, ReadingTypes
<1>3. Target \in Nat /\ MaxLines \in Nat /\ MaxLines >= 1
    BY DEF C!ChunkingAssumption
<1>4. turns.lines \in Nat /\ turns.len \in Nat
    BY <1>1
<1>5. ASSUME chunks # <<>>
      PROVE  chunks[Len(chunks)].first \in Nat /\ chunks[Len(chunks)].first <= read
    <2>1. PICK n, a, l : n = Len(chunks) /\ a = chunks[n].first /\ l = chunks[n].last
        OBVIOUS
    <2>2. chunks \in Seq(C!Chunk) /\ Apart(chunks, IF from = 0 THEN read ELSE from - 1) /\ Ordered(chunks)
        BY <1>1 DEF ReadingOK, C!TypeOK
    <2>3. n \in 1 .. n /\ chunks[n] \in C!Chunk
        BY <1>5, <2>1, <2>2
    <2>4. a \in Nat /\ l \in Nat
        BY <2>1, <2>3 DEF C!Chunk
    <2>5. l <= (IF from = 0 THEN read ELSE from - 1)
        BY <2>1, <2>2, <2>3 DEF Apart
    <2>6. a <= l
        BY <2>1, <2>2, <2>3 DEF Ordered
    <2>7. QED
        BY <1>2, <2>1, <2>4, <2>5, <2>6
<1>6. ~ done
    BY <1>1, <1>2 DEF ReadingOK
<1>7. TightList(chunks) /\ TightAt(chunks, from, read, split, turns)
    BY <1>6 DEF TightInv
<1>8. LinesAt(chunks, from, read, turns) /\ (from # 0 => Bounded(from, read) /\ MayFollow(chunks, from))
    BY <1>7 DEF TightAt
<1>9. QED
    BY <1>1, <1>2, <1>3, <1>4, <1>5, <1>7, <1>8

\* A window of one line.
LEMMA LineAlone ==
    ASSUME C!ChunkingAssumption, text \in C!Texts, kind = "messages",
           NEW p \in 1 .. Len(text), ~ C!Blank(p), NEW cs, MayFollow(cs, p), NEW s,
           NEW t, t.lines = 1, t.len = text[p].len
    PROVE  TightAt(cs, p, p, s, t)
<1>1. p \in Nat /\ p # 0 /\ text[p].len \in Nat
    BY TextType
<1>2. MaxLines >= 1
    BY DEF C!ChunkingAssumption
<1>3. LinesOf(p, p) = 1
    <2>1. p <= p
        BY <1>1
    <2>2. QED
        BY <1>1, <2>1, LinesSay
<1>4. C!Size(p, p) = t.len
    BY SizeOne
<1>5. Bounded(p, p)
    BY <1>3 DEF Bounded
<1>6. LinesAt(cs, p, p, t)
    <2>1. C!Size(p, p) = t.len + t.lines - 1
        BY <1>1, <1>4
    <2>2. t.lines >= 1 /\ t.lines <= MaxLines
        BY <1>2
    <2>3. QED
        BY <1>1, <1>3, <2>1, <2>2 DEF LinesAt
<1>7. QED
    BY <1>5, <1>6 DEF TightAt

LEMMA StartTight ==
    ASSUME C!ChunkingAssumption, TightInv, C!StartConversation, NEW s,
           NEW new, new = chunks', NEW f, f = from', NEW r, r = read', NEW t, t = turns'
    PROVE  TightList(new) /\ TightAt(new, f, r, s, t)
<1>1. PICK p : p = read + 1
    OBVIOUS
<1>2. /\ kind = "messages" /\ kind # "visits" /\ read < Len(text) /\ text[p].opens /\ r = p
      /\ new = C!Flushed
      /\ C!Blank(p) => f = 0 /\ t = C!Line(p)
      /\ ~ C!Blank(p) => f = p /\ t = C!Line(p)
    BY <1>1 DEF C!StartConversation, C!NewConversation
<1>3. /\ Len(text) \in Nat /\ read \in Nat /\ from \in 0 .. read /\ ReadingOK /\ text \in C!Texts
      /\ chunks # <<>> => chunks[Len(chunks)].first \in Nat /\ chunks[Len(chunks)].first <= read
      /\ TightList(chunks) /\ (from # 0 => Bounded(from, read) /\ MayFollow(chunks, from))
    BY <1>2, ThreadKnows
<1>4. /\ TightList(new)
      /\ from = 0 => new = chunks
      /\ from # 0 => new # <<>> /\ new[Len(new)].first = from /\ new[Len(new)].last = read
    BY <1>2, <1>3, FlushedTight
<1>5. p \in 1 .. Len(text) /\ p \in Nat /\ p # 0
    BY <1>1, <1>2, <1>3
<1>6. Converses(p, p) /\ C!OpensAt(p) = p
    BY <1>2, <1>5, OpensHere
<1>7. new # <<>> => new[Len(new)].first \in Nat /\ new[Len(new)].first < p
    BY <1>1, <1>3, <1>4
<1>8. CASE C!Blank(p)
    <2>1. t = C!NoTurns
        BY <1>2, <1>8 DEF C!Line, C!Blank, C!NoTurns
    <2>2. LinesAt(new, 0, p, t)
        BY <1>5, <1>6, <1>7, <2>1 DEF LinesAt
    <2>3. QED
        BY <1>2, <1>4, <1>8, <2>2 DEF TightAt
<1>9. CASE ~ C!Blank(p)
    <2>1. t.lines = 1 /\ t.len = text[p].len
        BY <1>2, <1>9 DEF C!Line
    <2>2. MayFollow(new, p)
        <3>1. CASE new # <<>>
            <4>1. PICK a, l : a = new[Len(new)].first /\ l = new[Len(new)].last
                OBVIOUS
            <4>2. ~ (p <= a)
                BY <1>5, <1>7, <3>1, <4>1
            <4>3. Maximal(a, l, p)
                BY <1>2, <1>6, <4>2 DEF Maximal
            <4>4. QED
                BY <4>1, <4>3 DEF MayFollow
        <3>2. QED
            BY <3>1 DEF MayFollow
    <2>3. QED
        BY <1>2, <1>3, <1>4, <1>5, <1>9, <2>1, <2>2, LineAlone
<1>10. QED
    BY <1>8, <1>9

LEMMA LineTight ==
    ASSUME C!ChunkingAssumption, TightInv, C!TakeLine, NEW s,
           NEW new, new = chunks', NEW f, f = from', NEW r, r = read', NEW t, t = turns'
    PROVE  TightList(new) /\ TightAt(new, f, r, s, t)
<1>1. PICK p : p = read + 1
    OBVIOUS
<1>2. /\ kind = "messages" /\ kind # "visits" /\ read < Len(text) /\ ~ text[p].opens
      /\ C!Blank(p) => r = p /\ new = chunks /\ f = from /\ t = turns
      /\ ~ C!Blank(p) => C!Put(~ C!Full, p) /\ t = C!NextTurns
    BY <1>1 DEF C!TakeLine, C!NewConversation
<1>3. /\ Len(text) \in Nat /\ read \in Nat /\ from \in 0 .. read /\ ReadingOK /\ text \in C!Texts
      /\ \A q \in 1 .. Len(text) : text[q].len \in Nat
      /\ Target \in Nat /\ MaxLines \in Nat /\ MaxLines >= 1
      /\ turns.lines \in Nat /\ turns.len \in Nat
      /\ TightList(chunks) /\ LinesAt(chunks, from, read, turns)
      /\ from # 0 => Bounded(from, read) /\ MayFollow(chunks, from)
    BY <1>2, ThreadKnows
<1>4. /\ p \in 1 .. Len(text) /\ p \in Nat /\ p # 0 /\ text[p].len \in Nat
    BY <1>1, <1>2, <1>3
<1>5. r = p
    BY <1>1, <1>2 DEF C!Put
<1>6. ASSUME NEW o \in Nat, Converses(o, read) PROVE Converses(o, p)
    <2>1. o \in 1 .. p
        BY <1>1, <1>3, <1>6 DEF Converses
    <2>2. ASSUME NEW q \in (o + 1) .. p PROVE ~ text[q].opens
        <3>1. q \in Int /\ o + 1 <= q /\ q <= read + 1
            BY <1>1, <1>3
        <3>2. q \in (o + 1) .. read \/ q = p
            BY <1>1, <1>3, <3>1
        <3>3. QED
            BY <1>2, <1>6, <3>2 DEF Converses
    <2>3. QED
        BY <1>6, <2>1, <2>2 DEF Converses
<1>7. ASSUME from # 0
      PROVE  /\ from \in 1 .. Len(text) /\ read \in from .. Len(text) /\ from <= read
             /\ ~ C!Blank(from) /\ from \in Nat
             /\ turns.lines = LinesOf(from, read) /\ turns.lines >= 1 /\ turns.lines <= MaxLines
             /\ C!Size(from, read) = turns.len + turns.lines - 1
             /\ turns.len <= Target \/ turns.lines = 1
    BY <1>2, <1>3, <1>7 DEF LinesAt
<1>8. ASSUME from # 0, ~ C!Blank(p)
      PROVE  C!Size(from, p) = turns.len + turns.lines + text[p].len
    <2>1. p \in p .. Len(text)
        BY <1>4
    <2>2. C!Size(from, p) = C!Size(from, read) + C!Size(p, p) + C!Joint(p)
        BY <1>1, <1>2, <1>3, <1>7, <1>8, <2>1, SizeJoins
    <2>3. C!Joint(p) = 1
        BY <1>2 DEF C!Joint
    <2>4. C!Size(p, p) = text[p].len
        BY <1>3, <1>4, <1>8, SizeOne
    <2>5. C!Size(from, read) = turns.len + turns.lines - 1
        BY <1>7, <1>8
    <2>6. turns.lines \in Nat /\ turns.len \in Nat /\ text[p].len \in Nat
        BY <1>3, <1>4
    <2>7. QED
        BY <2>2, <2>3, <2>4, <2>5, <2>6
<1>9. CASE C!Blank(p)
    <2>1. CASE from = 0
        <3>1. LinesAt(chunks, 0, p, turns)
            BY <1>3, <1>6, <2>1 DEF LinesAt
        <3>2. QED
            BY <1>2, <1>3, <1>5, <1>9, <2>1, <3>1 DEF TightAt
    <2>2. CASE from # 0
        <3>1. C!Size(from, p) = C!Size(from, read)
            BY <1>1, <1>2, <1>3, <1>7, <1>9, <2>2, SizeBlank
        <3>2. LinesOf(from, p) = LinesOf(from, read)
            BY <1>1, <1>3, <1>7, <1>9, <2>2, LinesSay
        <3>3. Bounded(from, p)
            BY <1>2, <1>3, <2>2, <3>1, <3>2 DEF Bounded
        <3>4. LinesAt(chunks, from, p, turns)
            BY <1>7, <2>2, <3>1, <3>2 DEF LinesAt
        <3>5. QED
            BY <1>2, <1>3, <1>5, <1>9, <2>2, <3>3, <3>4 DEF TightAt
    <2>3. QED
        BY <2>1, <2>2
<1>10. CASE ~ C!Blank(p) /\ from = 0
    <2>1. turns = C!NoTurns
        BY <1>3, <1>10 DEF LinesAt
    <2>2. new = chunks /\ f = p
        BY <1>1, <1>2, <1>10 DEF C!Put
    <2>3. t.lines = 1 /\ t.len = text[p].len
        <3>1. t = [lines |-> turns.lines + 1, len |-> turns.len + text[p].len]
            BY <1>1, <1>2, <1>10 DEF C!NextTurns
        <3>2. turns.lines = 0 /\ turns.len = 0
            BY <2>1 DEF C!NoTurns
        <3>3. QED
            BY <1>4, <3>1, <3>2
    <2>4. MayFollow(chunks, p)
        <3>1. CASE chunks # <<>>
            <4>1. PICK a, l : a = chunks[Len(chunks)].first /\ l = chunks[Len(chunks)].last
                OBVIOUS
            <4>2. PICK o \in Nat : Converses(o, read) /\ a < o
                BY <1>3, <1>10, <3>1, <4>1 DEF LinesAt
            <4>3. C!OpensAt(p) = o
                BY <1>4, <1>6, <4>2, OpensConversation
            <4>4. a \in Nat
                BY <1>2, <3>1, <4>1, ThreadKnows
            <4>5. ~ (o <= a)
                BY <4>2, <4>4
            <4>6. Maximal(a, l, p)
                BY <1>2, <4>3, <4>5 DEF Maximal
            <4>7. QED
                BY <4>1, <4>6 DEF MayFollow
        <3>2. QED
            BY <3>1 DEF MayFollow
    <2>5. QED
        BY <1>2, <1>3, <1>4, <1>5, <1>10, <2>2, <2>3, <2>4, LineAlone
<1>11. CASE ~ C!Blank(p) /\ from # 0 /\ ~ C!Full
    <2>1. turns.lines < MaxLines /\ turns.len + text[p].len <= Target
        BY <1>1, <1>3, <1>4, <1>11 DEF C!Full
    <2>2. new = chunks /\ f = from
        BY <1>1, <1>2, <1>11 DEF C!Put
    <2>3. t = [lines |-> turns.lines + 1, len |-> turns.len + text[p].len]
        BY <1>1, <1>2, <1>11 DEF C!NextTurns
    <2>4. t.lines = turns.lines + 1 /\ t.len = turns.len + text[p].len
        BY <2>3
    <2>5. LinesOf(from, p) = turns.lines + 1
        <3>1. from \in Nat /\ from <= read /\ turns.lines = LinesOf(from, read)
            BY <1>7, <1>11
        <3>2. ~ C!Blank(read + 1)
            BY <1>1, <1>11
        <3>3. LinesOf(from, read + 1) = LinesOf(from, read) + 1
            BY <1>3, <3>1, <3>2, LinesSay
        <3>4. QED
            BY <1>1, <3>1, <3>3
    <2>6. C!Size(from, p) = turns.len + turns.lines + text[p].len
        BY <1>8, <1>11
    <2>7. Bounded(from, p)
        <3>1. LinesOf(from, p) <= MaxLines
            BY <1>3, <2>1, <2>5
        <3>2. C!Size(from, p) <= Target + MaxLines - 1
            BY <1>3, <1>4, <2>1, <2>6
        <3>3. QED
            BY <1>2, <3>1, <3>2 DEF Bounded
    <2>8. LinesAt(chunks, from, p, t)
        <3>1. t.lines = LinesOf(from, p) /\ t.lines >= 1 /\ t.lines <= MaxLines /\ t.len <= Target
            BY <1>3, <2>1, <2>4, <2>5
        <3>2. C!Size(from, p) = t.len + t.lines - 1
            BY <1>3, <1>4, <2>4, <2>6
        <3>3. QED
            BY <1>7, <1>11, <3>1, <3>2 DEF LinesAt
    <2>9. QED
        BY <1>2, <1>3, <1>5, <1>11, <2>2, <2>7, <2>8 DEF TightAt
<1>12. CASE ~ C!Blank(p) /\ from # 0 /\ C!Full
    <2>1. turns.lines >= MaxLines \/ turns.len + text[p].len > Target
        BY <1>1, <1>12 DEF C!Full
    <2>2. new = C!Flushed /\ f = p
        BY <1>1, <1>2, <1>12 DEF C!Put
    <2>3. t.lines = 1 /\ t.len = text[p].len
        BY <1>1, <1>2, <1>12 DEF C!NextTurns, C!Line
    <2>4. /\ TightList(new) /\ new # <<>>
          /\ new[Len(new)].first = from /\ new[Len(new)].last = read
        BY <1>2, <1>3, <1>12, <2>2, FlushedTight
    <2>5. Maximal(from, read, p)
        <3>1. C!Size(from, p) = turns.len + turns.lines + text[p].len
            BY <1>8, <1>12
        <3>2. LinesOf(from, read) = turns.lines /\ turns.lines <= MaxLines
            BY <1>7, <1>12
        <3>3. LinesOf(from, read) = MaxLines \/ C!Size(from, p) - LinesOf(from, read) > Target
            BY <1>3, <1>4, <2>1, <3>1, <3>2
        <3>4. QED
            BY <1>2, <3>3 DEF Maximal
    <2>6. MayFollow(new, p)
        BY <2>4, <2>5 DEF MayFollow
    <2>7. QED
        BY <1>2, <1>3, <1>4, <1>5, <1>12, <2>2, <2>3, <2>4, <2>6, LineAlone
<1>13. QED
    BY <1>9, <1>10, <1>11, <1>12
LEMMA StepTight ==
    ASSUME C!ChunkingAssumption, TightInv, [C!Next]_C!vars PROVE TightInv'
<1>1. PICK new, f, r, s, t : new = chunks' /\ f = from' /\ r = read' /\ s = split' /\ t = turns'
    OBVIOUS
<1>2. ReadingOK /\ TightList(chunks) /\ (~ done => TightAt(chunks, from, read, split, turns))
    BY DEF TightInv, ChunksInv
<1>3. UNCHANGED <<kind, text>>
    BY DEF C!Next, C!TakeParagraph, C!LongParagraph, C!TakeSentence, C!EndSplit,
           C!StartConversation, C!TakeLine, C!TakeVisit, C!TakeImage, C!Return, C!Returned, C!vars
<1>4. TightList(new) /\ (~ done' => TightAt(new, f, r, s, t))
    <2>1. CASE C!TakeParagraph
        <3>1. s = 0
            BY <1>1, <2>1 DEF C!TakeParagraph
        <3>2. QED
            BY <1>1, <2>1, <3>1, ParagraphTight
    <2>2. CASE C!LongParagraph
        <3>1. f = 0 /\ r = read
            BY <1>1, <2>2 DEF C!LongParagraph
        <3>2. QED
            BY <1>1, <2>2, <3>1, LongTight
    <2>3. CASE C!TakeSentence
        <3>1. s = split
            BY <1>1, <2>3 DEF C!TakeSentence
        <3>2. QED
            BY <1>1, <2>3, <3>1, SentenceTight
    <2>4. CASE C!EndSplit
        <3>1. f = 0 /\ r = read /\ s = 0 /\ done' = done /\ new = C!Flushed
            BY <1>1, <2>4 DEF C!EndSplit
        <3>2. CASE done
            <4>1. from = 0
                BY <1>2, <3>2 DEF ReadingOK
            <4>2. new = chunks
                BY <3>1, <4>1 DEF C!Flushed
            <4>3. QED
                BY <1>2, <3>1, <3>2, <4>2
        <3>3. CASE ~ done
            BY <1>1, <2>4, <3>1, <3>3, EndSplitTight
        <3>4. QED
            BY <3>2, <3>3
    <2>5. CASE C!StartConversation
        BY <1>1, <2>5, StartTight
    <2>6. CASE C!TakeLine
        BY <1>1, <2>6, LineTight
    <2>7. CASE C!TakeVisit \/ C!TakeImage
        <3>1. kind \notin {"prose", "messages"}
            BY <2>7 DEF C!TakeVisit, C!TakeImage
        <3>2. QED
            BY <3>1, OtherTight
    <2>8. CASE C!Return
        <3>1. new = C!Flushed /\ done' /\ ~ done
            BY <1>1, <2>8 DEF C!Return
        <3>2. TightAt(chunks, from, read, split, turns)
            BY <1>2, <3>1
        <3>3. from # 0 => Bounded(from, read) /\ MayFollow(chunks, from)
            BY <3>2 DEF TightAt
        <3>4. CASE kind = "visits"
            BY <3>1, <3>4, OtherTight
        <3>5. CASE kind # "visits"
            <4>1. TightList(new)
                BY <1>2, <3>1, <3>3, <3>5, FlushedTight
            <4>2. QED
                BY <3>1, <4>1
        <3>6. QED
            BY <3>4, <3>5
    <2>9. CASE C!Returned \/ UNCHANGED C!vars
        <3>1. new = chunks /\ f = from /\ r = read /\ s = split /\ t = turns /\ done' = done
            BY <1>1, <2>9 DEF C!Returned, C!vars
        <3>2. QED
            BY <1>2, <3>1
    <2>10. QED
        BY <2>1, <2>2, <2>3, <2>4, <2>5, <2>6, <2>7, <2>8, <2>9 DEF C!Next
<1>5. TightList(new)' /\ (~ done' => TightAt(new, f, r, s, t)')
    BY <1>3, <1>4, TightKept
<1>6. ChunksInv'
    BY StepChunks DEF TightInv
<1>7. kind' = "prose" => \A p \in 1 .. Len(text') : ~ C!Blank(p)'
    BY <1>3, SizesKept DEF TightInv
<1>8. QED
    BY <1>1, <1>5, <1>6, <1>7 DEF TightInv

LEMMA InitTight == ASSUME C!ChunkingAssumption, C!Init PROVE TightInv
<1>1. ChunksInv
    BY InitChunks
<1>2. text \in Seq(Piece) /\ Len(text) \in Nat
    BY TextType DEF C!Init
<1>3. /\ chunks = <<>> /\ Len(chunks) = 0 /\ read = 0 /\ from = 0 /\ split = 0 /\ turns = C!NoTurns
      /\ text # <<>> => text[1].opens
    BY DEF C!Init
<1>4. kind = "prose" => \A p \in 1 .. Len(text) : ~ C!Blank(p)
    BY <1>2 DEF C!Init
<1>5. TightList(chunks)
    BY <1>3 DEF TightList
<1>6. read = Len(text) \/ text[read + 1].opens
    BY <1>2, <1>3
<1>7. ProseAt(chunks, from, read, split)
    BY <1>3, <1>6 DEF ProseAt
<1>8. LinesAt(chunks, from, read, turns)
    BY <1>3 DEF LinesAt
<1>9. TightAt(chunks, from, read, split, turns)
    BY <1>3, <1>7, <1>8 DEF TightAt
<1>10. QED
    BY <1>1, <1>4, <1>5, <1>9 DEF TightInv

\* The windows of the invariant are tight.
LEMMA TightInvTight == ASSUME C!ChunkingAssumption, TightInv PROVE C!WindowsTight
<1>1. /\ ReadingOK /\ chunks \in Seq(C!Chunk) /\ Len(chunks) \in Nat
      /\ DOMAIN chunks = 1 .. Len(chunks) /\ Len(text) \in Nat /\ TightList(chunks)
      /\ read \in Nat /\ read <= Len(text)
    BY ReadingTypes DEF TightInv, ChunksInv, ReadingOK, C!TypeOK
<1>2. \A k \in 1 .. Len(chunks) :
          /\ chunks[k].first \in Nat /\ chunks[k].last \in Nat
          /\ chunks[k].first <= chunks[k].last
    <2>1. \A k \in 1 .. Len(chunks) : chunks[k] \in C!Chunk
        BY <1>1
    <2>2. QED
        BY <1>1, <2>1 DEF C!Chunk, ReadingOK, Ordered
<1>3. \A k \in 1 .. Len(chunks) : chunks[k].first >= 1
    <2>1. ASSUME NEW k \in 1 .. Len(chunks) PROVE chunks[k].first >= 1
        <3>1. C!Follows(IF k = 1 THEN 0 ELSE chunks[k - 1].last, chunks[k].first)
            BY <1>1, <2>1 DEF ReadingOK, Ordered
        <3>2. k # 1 => k - 1 \in 1 .. Len(chunks)
            BY <1>1, <2>1
        <3>3. PICK l \in Nat : l = IF k = 1 THEN 0 ELSE chunks[k - 1].last
            BY <1>2, <3>2
        <3>4. l < chunks[k].first
            BY <3>1, <3>3 DEF C!Follows
        <3>5. QED
            BY <1>2, <2>1, <3>3, <3>4
    <2>2. QED
        BY <2>1
<1>4. \A c : C!Lines(c) = LinesOf(c.first, c.last) /\ C!Length(c) = C!Size(c.first, c.last)
    BY DEF C!Lines, C!Length, LinesOf, C!Cardinality, Cardinality
<1>5. C!WindowsBounded
    <2>1. ASSUME NEW k \in DOMAIN chunks, NEW c, c = chunks[k]
          PROVE  /\ kind = "prose" =>
                       \/ C!Length(c) <= Target
                       \/ /\ C!Cardinality(C!Paragraphs(c)) = 1
                          /\ C!Length(c) <= HardMax \/ c.first = c.last
                 /\ kind = "messages" =>
                       \/ C!Lines(c) <= MaxLines /\ C!Length(c) <= Target + MaxLines - 1
                       \/ C!Lines(c) = 1
        <3>1. PICK a, l : a = c.first /\ l = c.last
            OBVIOUS
        <3>2. Bounded(a, l) /\ a \in Nat /\ l \in Nat /\ a <= l /\ a >= 1
            BY <1>1, <1>2, <1>3, <2>1, <3>1 DEF TightList
        <3>3. ASSUME NEW e \in l .. Len(text), Closes(a, e)
              PROVE  C!Cardinality(C!Paragraphs(c)) = 1
            <4>1. \A p \in a .. l : C!ParagraphEnd(p) = e
                <5>1. ASSUME NEW p \in a .. l PROVE C!ParagraphEnd(p) = e
                    <6>1. p \in a .. e /\ p \in 1 .. Len(text)
                        BY <1>1, <3>2
                    <6>2. Closes(p, e)
                        BY <3>2, <3>3, <6>1, ClosesWithin
                    <6>3. QED
                        BY <1>1, <6>1, <6>2, ClosesOnce
                <5>2. QED
                    BY <5>1
            <4>2. a \in a .. l
                BY <3>2
            <4>3. C!Paragraphs(c) = {e}
                BY <3>1, <4>1, <4>2 DEF C!Paragraphs
            <4>4. Cardinality({e}) = 1
                BY FS_Singleton
            <4>5. QED
                BY <4>3, <4>4 DEF C!Cardinality, Cardinality
        <3>4. QED
            BY <1>4, <3>1, <3>2, <3>3 DEF Bounded
    <2>2. QED
        BY <2>1 DEF C!WindowsBounded
<1>6. C!WindowsMaximal
    <2>1. ASSUME NEW k \in 2 .. Len(chunks), NEW c, c = chunks[k - 1], NEW p, p = chunks[k].first
          PROVE  /\ kind = "prose" =>
                       IF C!OpensAt(p) <= c.last THEN C!Size(c.first, p) > HardMax
                       ELSE \/ C!IsLong(p) \/ C!IsLong(C!OpensAt(c.last))
                            \/ C!Size(c.first, C!ParagraphEnd(p)) > Target
                 /\ kind = "messages" /\ C!OpensAt(p) <= c.first =>
                       C!Lines(c) = MaxLines \/ C!Size(c.first, p) - C!Lines(c) > Target
        <3>1. Maximal(c.first, c.last, p)
            BY <1>1, <2>1 DEF TightList
        <3>2. QED
            BY <1>4, <3>1 DEF Maximal
    <2>2. QED
        BY <2>1 DEF C!WindowsMaximal
<1>7. QED
    BY <1>5, <1>6 DEF C!WindowsTight

-----------------------------------------------------------------------------
(* Each component by itself. *)

\* The inductive invariant of the loaders: every window begins where the last chunk
\* ends, and in a thread is of the conversation being read.
THEOREM ChunksInvariance == ASSUME C!ChunkingAssumption PROVE C!Spec => []ChunksInv
<1>1. C!Init => ChunksInv
    BY InitChunks
<1>2. ChunksInv /\ [C!Next]_C!vars => ChunksInv'
    BY StepChunks
<1>3. QED
    BY <1>1, <1>2, PTL DEF C!Spec

\* The inductive invariant of how large windows are: besides the chunks, the window being
\* filled is within its limits and does not fit the chunk before it.
THEOREM TightInvariance == ASSUME C!ChunkingAssumption PROVE C!Spec => []TightInv
<1>1. C!Init => TightInv
    BY InitTight
<1>2. TightInv /\ [C!Next]_C!vars => TightInv'
    BY StepTight
<1>3. QED
    BY <1>1, <1>2, PTL DEF C!Spec

\* The inductive invariant of the indexer: no id twice among the chunks collected, and
\* what is passed is written.
THEOREM IndexerInvariance == ASSUME I!IndexerAssumption PROVE I!Spec => []IndexerInv
<1>1. I!Init => IndexerInv
    BY InitIndexer
<1>2. IndexerInv /\ [I!Next]_I!vars => IndexerInv'
    BY LaunchIndexer, LoadIndexer, CollectedIndexer, EnsureIndexer, WriteIndexer, FinishIndexer,
       DiesIndexer, EditIndexer, StutterIndexer DEF I!Next
<1>3. QED
    BY <1>1, <1>2, PTL DEF I!Spec

\* The inductive invariant of the viewer: the globs behind it have found the source
\* documents that were there all the while.
THEOREM DocumentsInvariance == ASSUME V!DocumentsAssumption PROVE V!Spec => []DocumentsInv
<1>1. V!Init => DocumentsInv
    BY InitDocuments
<1>2. DocumentsInv /\ [V!Next]_V!vars => DocumentsInv'
    BY ComesDocuments, GlobDocuments, ListedDocuments, AllowDocuments, ResolveDocuments,
       NotFoundDocuments, ReadDocuments, ChangeDocuments, RestartDocuments, StutterDocuments
       DEF V!Next
<1>3. QED
    BY <1>1, <1>2, PTL DEF V!Spec

\* The inductive invariant of the dataset: of the builders with one file open one at
\* most makes its tables, and a file with data is done.
THEOREM DatasetInvariance ==
    ASSUME D!DatasetAssumption PROVE D!Init /\ [][D!Next]_D!vars => []DatasetInv
<1>1. D!Init => DatasetInv
    BY InitDataset
<1>2. DatasetInv /\ [D!Next]_D!vars => DatasetInv'
    BY StepDataset
<1>3. QED
    BY <1>1, <1>2, PTL

-----------------------------------------------------------------------------
(* The components side by side. *)

\* A step of the composition is a step of each component, or leaves it alone.
LEMMA StepComponents ==
    ASSUME [FilesNext]_filesVars
    PROVE  [C!Next]_C!vars /\ [I!Next]_I!vars /\ [D!Next]_D!vars /\ [V!Next]_V!vars /\ [Next]_vars
<1>0. UNCHANGED loaderVars => UNCHANGED C!vars
    BY DEF loaderVars, C!vars
<1>1. UNCHANGED indexerVars => UNCHANGED I!vars
    BY DEF indexerVars, I!vars, I!jobVars
<1>2. UNCHANGED datasetVars => UNCHANGED D!vars
    BY DEF datasetVars, D!vars, D!builderVars, D!readerVars
<1>3. UNCHANGED documentVars => UNCHANGED V!vars
    BY DEF documentVars, V!vars, V!ghosts
<1>4. CASE UNCHANGED filesVars
    BY <1>0, <1>1, <1>2, <1>3, <1>4 DEF filesVars
<1>5. CASE FilesNext
    BY <1>0, <1>1, <1>2, <1>3, <1>4, <1>5 DEF FilesNext, MayRest
<1>6. QED
    BY <1>4, <1>5

\* The composition does to each component what the component's specification says.
THEOREM ComponentsKept ==
    FilesSpec => C!Spec /\ I!Spec /\ V!Spec /\ (D!Init /\ [][D!Next]_D!vars) /\ Spec
<1>1. FilesInit => C!Init /\ I!Init /\ V!Init /\ D!Init /\ Init
    BY DEF FilesInit
<1>2. [FilesNext]_filesVars =>
          [C!Next]_C!vars /\ [I!Next]_I!vars /\ [D!Next]_D!vars /\ [V!Next]_V!vars /\ [Next]_vars
    BY StepComponents
<1>3. QED
    BY <1>1, <1>2, PTL DEF FilesSpec, C!Spec, I!Spec, V!Spec, Spec

\* The chunks that a loader of loaders.py has made of a file are at every moment the
\* text it has read, each of one conversation, and share a chunk_id in no other case
\* than two conversations of one thread, for every text and all sizes of a window.
THEOREM ChunksAlwaysRight == FilesSpec => []ChunksRight
<1>1. ChunksInv => ChunksRight
    BY SharedFilesAssumption, ChunksInvRight DEF ChunksRight
<1>2. C!Spec => []ChunksInv
    BY SharedFilesAssumption, ChunksInvariance
<1>3. QED
    BY <1>1, <1>2, ComponentsKept, PTL

\* No chunk that window_text, _split_long and _window_turns have made is over its limits,
\* or smaller than they let it be, for every text and all sizes of a window.
THEOREM WindowsAlwaysTight == FilesSpec => []WindowsTight
<1>1. TightInv => WindowsTight
    BY SharedFilesAssumption, TightInvTight DEF WindowsTight
<1>2. C!Spec => []TightInv
    BY SharedFilesAssumption, TightInvariance
<1>3. QED
    BY <1>1, <1>2, ComponentsKept, PTL

\* At every moment of every run the collection is what the runs of indexer.py so far,
\* whole or cut short, make it.
THEOREM IndexAlwaysRight == FilesSpec => []IndexRight
<1>1. IndexerInv => IndexRight
    BY SharedFilesAssumption, FinishedIndexer DEF IndexerInv, IndexRight, I!IndexRight
<1>2. I!Spec => []IndexerInv
    BY SharedFilesAssumption, IndexerInvariance
<1>3. QED
    BY <1>1, <1>2, ComponentsKept, PTL

\* indexer.py drops a collection only once it has read the corpus to refill it.
THEOREM AlwaysDroppedToRebuild == FilesSpec => DroppedOnlyToRebuild
<1>1. DroppedOnlyToRebuild <=> [][DropsToRebuild]_I!vars
    BY DEF DroppedOnlyToRebuild, I!DroppedOnlyToRebuild, DropsToRebuild
<1>2. IndexerInv /\ [I!Next]_I!vars => [DropsToRebuild]_I!vars
    BY SharedFilesAssumption, StepDropsToRebuild
<1>3. I!Spec => []IndexerInv
    BY SharedFilesAssumption, IndexerInvariance
<1>4. QED
    BY <1>1, <1>2, <1>3, ComponentsKept, PTL DEF I!Spec

\* The dataset is one build's, in the file of dataset.py and in the names that
\* queries.py remembers of it, whichever builders overlap and whenever they fail.
THEOREM DatasetAlwaysSound == FilesSpec => []DatasetSound
<1>1. DatasetInv => D!BuildersApart
    BY SharedFilesAssumption
       DEF DatasetInv, BuilderOK, OneMaker, D!BuildersApart, D!TypeOK, D!DatasetAssumption, D!NoFile
<1>2. DatasetInv => DatasetSound
    BY <1>1 DEF DatasetInv, DatasetSound, D!DatasetSound
<1>3. D!Init /\ [][D!Next]_D!vars => []DatasetInv
    BY SharedFilesAssumption, DatasetInvariance
<1>4. QED
    BY <1>2, <1>3, ComponentsKept, PTL

\* What a process reads of the dataset never changes under it once there is data,
\* whoever rebuilds it: dataset.py unlinks the file, and fills no file twice.
THEOREM ViewsAlwaysSettle == FilesSpec => ViewsSettle
<1>1. ViewsSettle <=> [][KeepsViews]_D!vars
    BY DEF ViewsSettle, D!ViewsSettle, KeepsViews
<1>2. DatasetInv /\ [D!Next]_D!vars => [KeepsViews]_D!vars
    BY SharedFilesAssumption, StepKeepsViews
<1>3. D!Init /\ [][D!Next]_D!vars => []DatasetInv
    BY SharedFilesAssumption, DatasetInvariance
<1>4. QED
    BY <1>1, <1>2, <1>3, ComponentsKept, PTL

\* The viewer (documents.py) shows what its own globs allow, all of it and nothing else,
\* but for what came or went since the process started, however the directory changes
\* between two of its looks.
THEOREM DocumentsAlwaysServed == FilesSpec => []DocumentsServed
<1>1. DocumentsInv => DocumentsServed
    BY DEF DocumentsInv, ReplyOK, DocumentsServed, V!DocumentsServed
<1>2. V!Spec => []DocumentsInv
    BY SharedFilesAssumption, DocumentsInvariance
<1>3. QED
    BY <1>1, <1>2, ComponentsKept, PTL
=============================================================================
