----------------------------- MODULE CaseDataset -----------------------------
(***************************************************************************)
(* The fake-case dataset, an SQLite file that build_dataset                *)
(* (src/case_chat/casedata/dataset.py) unlinks and fills again in place,   *)
(* run by hand and by the container's entrypoint                           *)
(* (src/deploy/web_entrypoint.sh), and that two processes read, the web    *)
(* application and the MCP server it starts, each through one connection   *)
(* it keeps (src/case_chat/casedata/queries.py).                           *)
(*                                                                         *)
(* A file is an inode: unlinking frees the path, and who has the file open *)
(* keeps it.  Each CREATE of the schema commits on its own; the INSERTs    *)
(* are one transaction, so others see its file without data or with all.   *)
(* The data of a file is the version of the ground truth it was read from. *)
(***************************************************************************)
EXTENDS Integers

CONSTANTS
    Builders,   \* runs of build_dataset that may overlap
    entry,      \* the one of the entrypoint
    Processes,  \* the web application and the MCP server
    Versions,   \* versions of the ground truth
    NoData,     \* no rows; also ground truth that is missing or malformed
    Unread,     \* the names have not been read
    Tables,     \* statements of SCHEMA
    MaxFiles    \* bound: files ever created

Inodes == 1 .. MaxFiles
NoFile == 0

DatasetAssumption ==
    /\ entry \in Builders /\ NoData \notin Versions /\ Unread \notin Versions \cup {NoData}
    /\ Tables \in Nat \ {0} /\ MaxFiles \in Nat

VARIABLES
    truth,      \* the ground-truth files
    path,       \* the inode at casedata_sqlite_path
    files,      \* inode -> what is committed: tables made, data
    made,       \* files created
    pc, inode,  \* of each builder: its place, its connection
    mine,       \* of each, the tables it has made
    loaded,     \* of each, the rows it has inserted
    service,    \* the container: down, starting (in the entrypoint), up
    conn,       \* of each process, the file of its CaseDataset
    names       \* of each process, its _namemap

builderVars == <<pc, inode, mine, loaded>>
readerVars  == <<service, conn, names>>
vars        == <<truth, path, files, made, builderVars, readerVars>>

Blank  == [tables |-> 0, data |-> NoData]
Places == {"off", "exists", "unlink", "connect", "script", "insert", "commit"}

TypeOK ==
    /\ truth \in Versions \cup {NoData}
    /\ made \in 0 .. MaxFiles /\ path \in 0 .. made
    /\ files \in [Inodes -> [tables : 0 .. Tables, data : Versions \cup {NoData}]]
    /\ pc \in [Builders -> Places]
    /\ inode \in [Builders -> 0 .. made]
    /\ mine \in [Builders -> 0 .. Tables]
    /\ loaded \in [Builders -> Versions \cup {NoData}]
    /\ service \in {"down", "starting", "up"}
    /\ conn \in [Processes -> 0 .. made]
    /\ names \in [Processes -> Versions \cup {NoData, Unread}]
    /\ \A b \in Builders : inode[b] # NoFile <=> pc[b] \in {"script", "insert", "commit"}
    /\ service # "up" => \A p \in Processes : conn[p] = NoFile /\ names[p] = Unread

Closed == [p \in Processes |-> NoFile]
NoMaps == [p \in Processes |-> Unread]

Init ==
    /\ truth \in Versions \cup {NoData}
    /\ path = NoFile /\ files = [i \in Inodes |-> Blank] /\ made = 0
    /\ pc = [b \in Builders |-> "off"] /\ inode = [b \in Builders |-> NoFile]
    /\ mine = [b \in Builders |-> 0] /\ loaded = [b \in Builders |-> NoData]
    /\ service = "down" /\ conn = Closed /\ names = NoMaps

-----------------------------------------------------------------------------
(* build_dataset *)

Goto(b, place) == pc' = [pc EXCEPT ![b] = place]

\* The call of builder b is over and its connection closed.
End(b) ==
    /\ pc' = [pc EXCEPT ![b] = "off"]
    /\ inode' = [inode EXCEPT ![b] = NoFile]
    /\ mine' = [mine EXCEPT ![b] = 0]
    /\ loaded' = [loaded EXCEPT ![b] = NoData]

Build(b) ==
    /\ b # entry /\ pc[b] = "off"
    /\ Goto(b, "exists")
    /\ UNCHANGED <<truth, path, files, made, inode, mine, loaded, readerVars>>

\* if out.exists(): out.unlink()
Exists(b) ==
    /\ pc[b] = "exists"
    /\ Goto(b, IF path = NoFile THEN "connect" ELSE "unlink")
    /\ UNCHANGED <<truth, path, files, made, inode, mine, loaded, readerVars>>

Unlink(b) ==
    /\ pc[b] = "unlink" /\ path # NoFile
    /\ path' = NoFile
    /\ Goto(b, "connect")
    /\ UNCHANGED <<truth, files, made, inode, mine, loaded, readerVars>>

\* sqlite3.connect creates the file, or opens the one another builder created.
Connect(b) ==
    /\ pc[b] = "connect"
    /\ IF path = NoFile
       THEN made < MaxFiles /\ made' = made + 1 /\ path' = made + 1
       ELSE UNCHANGED <<made, path>>
    /\ inode' = [inode EXCEPT ![b] = path']
    /\ Goto(b, "script")
    /\ UNCHANGED <<truth, files, mine, loaded, readerVars>>

CreatesIfNotExists(b) == files[inode[b]].tables >= mine[b]       \* a mutation

\* executescript: a CREATE fails if another builder has made the table.
Creates(b)            == files[inode[b]].tables = mine[b]

Script(b) ==
    /\ pc[b] = "script" /\ mine[b] < Tables /\ Creates(b)
    /\ files' = [files EXCEPT ![inode[b]].tables = @ + 1]
    /\ mine' = [mine EXCEPT ![b] = @ + 1]
    /\ IF mine'[b] = Tables THEN Goto(b, "insert") ELSE UNCHANGED pc
    /\ UNCHANGED <<truth, path, made, inode, loaded, readerVars>>

\* The six files are read and inserted in one transaction.
Insert(b) ==
    /\ pc[b] = "insert" /\ truth # NoData
    /\ loaded' = [loaded EXCEPT ![b] = truth]
    /\ Goto(b, "commit")
    /\ UNCHANGED <<truth, path, files, made, inode, mine, readerVars>>

Commit(b) ==
    /\ pc[b] = "commit"
    /\ files' = [files EXCEPT ![inode[b]].data = loaded[b]]
    /\ End(b)
    /\ UNCHANGED <<truth, path, made, readerVars>>

\* A file that is gone, a table that exists, ground truth that cannot be read, a
\* database that is locked, or a crash: what is not committed is rolled back.
Fail(b) ==
    /\ pc[b] # "off"
    /\ End(b)
    /\ UNCHANGED <<truth, path, files, made, readerVars>>

\* What a builder may do next when nothing breaks.
BuildStep(b) == Exists(b) \/ Unlink(b) \/ Connect(b) \/ Script(b) \/ Insert(b) \/ Commit(b)

-----------------------------------------------------------------------------
(* The container, and the two processes that read the dataset. *)

\* web_entrypoint.sh: the dataset is built if its file is missing.
Start ==
    /\ service = "down"
    /\ service' = "starting"
    /\ IF path = NoFile THEN Goto(entry, "exists") ELSE UNCHANGED pc
    /\ UNCHANGED <<truth, path, files, made, inode, mine, loaded, conn, names>>

\* A mutation: set -e, and no || after the build.
ServeIfBuilt ==
    /\ service = "starting" /\ pc[entry] = "off"
    /\ path # NoFile
    /\ service' = "up"
    /\ UNCHANGED <<truth, path, files, made, builderVars, conn, names>>

\* Whether the build succeeded or not, the server is run.
Serve ==
    /\ service = "starting" /\ pc[entry] = "off"
    /\ service' = "up"
    /\ UNCHANGED <<truth, path, files, made, builderVars, conn, names>>

\* The container stops or is killed; the MCP server is its child.
Stop ==
    /\ service # "down"
    /\ service' = "down" /\ conn' = Closed /\ names' = NoMaps
    /\ End(entry)
    /\ UNCHANGED <<truth, path, files, made>>

\* CaseDataset.__init__: the first request that needs the dataset finds the file;
\* until then each gets "not built".
Open(p) ==
    /\ service = "up" /\ conn[p] = NoFile /\ path # NoFile
    /\ conn' = [conn EXCEPT ![p] = path]
    /\ UNCHANGED <<truth, path, files, made, builderVars, service, names>>

ResolvesAnyhow(p)  == TRUE             \* a mutation: the names are read first

\* entity_lookup of a name in the ground truth: without rows it resolves to no
\* ids and returns before _name_map is called.
Resolves(p)        == files[conn[p]].data # NoData

Lookup(p) ==
    /\ service = "up" /\ conn[p] # NoFile /\ names[p] = Unread
    /\ files[conn[p]].tables = Tables /\ Resolves(p)
    /\ names' = [names EXCEPT ![p] = files[conn[p]].data]
    /\ UNCHANGED <<truth, path, files, made, builderVars, service, conn>>

\* The corpus is generated anew, unmounted, mounted.
Generate(v) ==
    /\ v # truth /\ truth' = v
    /\ UNCHANGED <<path, files, made, builderVars, readerVars>>

Next ==
    \/ \E b \in Builders : Build(b) \/ BuildStep(b) \/ Fail(b)
    \/ Start \/ Serve \/ Stop
    \/ \E p \in Processes : Open(p) \/ Lookup(p)
    \/ \E v \in Versions \cup {NoData} : Generate(v)

\* A build ends, in one way or the other, and the entrypoint goes on.
Spec == Init /\ [][Next]_vars /\ WF_vars(BuildStep(entry) \/ Fail(entry)) /\ WF_vars(Serve)

-----------------------------------------------------------------------------
(* Properties. *)

\* Never do two builders fill one file, however their checks, unlinks and
\* connects interleave.
BuildersApart ==
    \A a, b \in Builders :
        a # b /\ {pc[a], pc[b]} \subseteq {"insert", "commit"} => inode[a] # inode[b]

\* The names a process resolves relationships with, cached for its lifetime, are
\* those of the data it reads: never an empty map, nor that of an older build.
NamesMatchFile ==
    \A p \in Processes :
        names[p] # Unread =>
            conn[p] # NoFile /\ names[p] = files[conn[p]].data /\ names[p] # NoData

\* The dataset is one build's, in the file and in what its readers remember of it.
DatasetSound == TypeOK /\ BuildersApart /\ NamesMatchFile

\* What a process reads never changes once there is data, whoever rebuilds the
\* dataset meanwhile: an open file gets data once.
ViewsSettle ==
    [][\A p \in Processes :
         conn[p] # NoFile /\ conn'[p] = conn[p] /\ files[conn[p]].data # NoData
           => files'[conn[p]] = files[conn[p]]]_vars

\* A container that starts comes to serve, whatever becomes of the build, unless
\* it is stopped.
StartServes == (service = "starting") ~> (service \in {"up", "down"})

\* CaseDataset raises "fake-case dataset not built" (queries.py:41-45) and
\* /api/casefacts answers 503 "case dataset not built" (app.py:129-130): when no
\* build is under way, a process that has the dataset open has a built one.
UnbuiltIsRefused ==
    (\A b \in Builders : pc[b] = "off") =>
        \A p \in Processes : conn[p] # NoFile => files[conn[p]].data # NoData
=============================================================================
