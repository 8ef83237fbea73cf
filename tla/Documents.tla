------------------------------ MODULE Documents ------------------------------
(***************************************************************************)
(* The test-corpus viewer of the web application                           *)
(* (src/case_chat/web/documents.py, GET /api/documents and /api/document   *)
(* of src/case_chat/web/app.py) over a corpus directory another program    *)
(* writes.  The listing looks at the directory afresh; the viewer serves   *)
(* what was there when the process resolved its first path (_allowed_files *)
(* under lru_cache).                                                       *)
(*                                                                         *)
(* The handlers do not await, so the process serves one request at a time; *)
(* the directory may change between any two of its looks at it, which are  *)
(* one per glob, one for is_file and one for reading.  A name is a         *)
(* source_path as a client gives it, Resolved the file it stands for.      *)
(*                                                                         *)
(* What may be viewed is what ALLOWED_GLOBS match.  That is more than the  *)
(* indexer ingests, whatever documents.py:3-8 says: of structured-data it  *)
(* takes every CSV, the indexer only supervised-visitation-log.csv, and    *)
(* that only with its schema (indexer.py:57-60).                           *)
(***************************************************************************)
EXTENDS Integers, FiniteSets

CONSTANTS
    Files,          \* paths of the corpus directory and around it
    Globs,          \* how many: ALLOWED_GLOBS is 1 .. Globs
    GlobOf,         \* the glob a file matches; 0 is none
    Threads,        \* the files that rsmf_viewer renders
    Names,          \* source_paths a client sends
    Resolved,       \* what `(root / name).resolve()` is
    MaxChanges,     \* bound: changes of the directory, and restarts
    Nothing         \* no request, no reply, nothing cached

DocumentsAssumption ==
    /\ Globs \in Nat /\ MaxChanges \in Nat
    /\ GlobOf \in [Files -> 0 .. Globs] /\ Threads \subseteq Files
    /\ Resolved \in [Names -> Files]

States == {"absent", "good", "broken"}      \* a broken message thread does not parse

VARIABLES
    corpus,     \* the directory
    allowed,    \* what _allowed_files has cached
    request,    \* the one being served: how far, and the files its globs found
    reply,      \* to the last request
    changes,
    since,      \* files in the directory ever since the process started
    during,     \* files in the directory ever since the request came in
    ever        \* files in the directory at some time of the request

ghosts == <<since, during, ever>>
vars   == <<corpus, allowed, request, reply, changes, ghosts>>

Present == {f \in Files : corpus[f] # "absent"}
AllowedFiles == {f \in Files : GlobOf[f] # 0}

TypeOK ==
    /\ corpus \in [Files -> States]
    /\ allowed \in (SUBSET AllowedFiles) \cup {Nothing}
    /\ request = Nothing \/
         /\ request.op \in {"list", "view"} /\ request.at \in {"glob", "check", "read"}
         /\ request.next \in 1 .. Globs + 1 /\ request.found \subseteq AllowedFiles
    /\ changes \in 0 .. MaxChanges
    /\ since \subseteq Present /\ during \subseteq ever

Init ==
    /\ corpus \in [Files -> States]
    /\ allowed = Nothing /\ request = Nothing /\ reply = Nothing /\ changes = 0
    /\ since = Present /\ during = {} /\ ever = {}

-----------------------------------------------------------------------------
(* Requests.  A listing goes through the globs; so does the first view, for *)
(* the cache.                                                               *)

Comes(op, name, at) ==
    /\ request = Nothing
    /\ request' = [op |-> op, name |-> name, at |-> at, next |-> 1, found |-> {}]
    /\ reply' = Nothing /\ during' = Present /\ ever' = Present
    /\ UNCHANGED <<corpus, allowed, changes, since>>

List == Comes("list", Nothing, "glob")
View == \E n \in Names : Comes("view", n, IF allowed = Nothing THEN "glob" ELSE "check")

Replies(status, found) ==
    /\ reply' = [op |-> request.op, name |-> request.name, status |-> status, found |-> found]
    /\ request' = Nothing
    /\ UNCHANGED <<corpus, changes, since, during, ever>>

Matches(i) == {f \in Present : GlobOf[f] = i}

Glob ==
    /\ request # Nothing /\ request.at = "glob" /\ request.next <= Globs
    /\ request' = [request EXCEPT !.next = @ + 1, !.found = @ \cup Matches(request.next)]
    /\ UNCHANGED <<corpus, allowed, reply, changes, ghosts>>

Globbed == request # Nothing /\ request.at = "glob" /\ request.next > Globs

Listed ==
    /\ Globbed /\ request.op = "list"
    /\ Replies(200, request.found)
    /\ UNCHANGED allowed

\* A mutation: the file asked for is all that is cached.
AllowOne ==
    /\ Globbed /\ request.op = "view"
    /\ allowed' = request.found \cap {Resolved[request.name]}
    /\ request' = [request EXCEPT !.at = "check"]
    /\ UNCHANGED <<corpus, reply, changes, ghosts>>

\* _allowed_files returns, and lru_cache keeps it.
Allow ==
    /\ Globbed /\ request.op = "view"
    /\ allowed' = request.found
    /\ request' = [request EXCEPT !.at = "check"]
    /\ UNCHANGED <<corpus, reply, changes, ghosts>>

Checking == request # Nothing /\ request.at = "check"

\* The condition of resolve_document.
Viewable == Resolved[request.name] \in allowed /\ Resolved[request.name] \in Present

Resolve ==
    /\ Checking /\ Viewable
    /\ request' = [request EXCEPT !.at = "read"]
    /\ UNCHANGED <<corpus, allowed, reply, changes, ghosts>>

NotFound ==
    /\ Checking /\ ~Viewable
    /\ Replies(404, {})
    /\ UNCHANGED allowed

\* read_text of a file that is gone, or parse_rsmf of one that is no archive.
Unreadable(f) == corpus[f] = "absent" \/ (corpus[f] = "broken" /\ f \in Threads)

Read ==
    /\ request # Nothing /\ request.at = "read"
    /\ LET f == Resolved[request.name] IN
       IF Unreadable(f) THEN Replies(500, {}) ELSE Replies(200, {f})
    /\ UNCHANGED allowed

-----------------------------------------------------------------------------
\* The generator, or an operator, writes or removes a file.
Change ==
    /\ changes < MaxChanges
    /\ \E f \in Files, c \in States :
         /\ c # corpus[f]
         /\ corpus' = [corpus EXCEPT ![f] = c]
         /\ since' = since \cap Present'
         /\ IF request = Nothing THEN UNCHANGED <<during, ever>>
            ELSE during' = during \cap Present' /\ ever' = ever \cup Present'
    /\ changes' = changes + 1
    /\ UNCHANGED <<allowed, request, reply>>

Restart ==
    /\ changes < MaxChanges /\ changes' = changes + 1
    /\ allowed' = Nothing /\ request' = Nothing /\ reply' = Nothing
    /\ since' = Present /\ during' = {} /\ ever' = {}
    /\ UNCHANGED <<corpus>>

Next ==
    \/ List \/ View \/ Glob \/ Listed \/ Allow \/ Resolve \/ NotFound \/ Read
    \/ Change \/ Restart

Spec == Init /\ [][Next]_vars

-----------------------------------------------------------------------------
(* Properties. *)

Viewed(status) == reply # Nothing /\ reply.op = "view" /\ reply.status = status
Asked == Resolved[reply.name]

\* Only a file that one of ALLOWED_GLOBS matches is ever served, and it is the one
\* the path stands for, whatever path that is and whatever appears in the directory.
OnlyAllowedServed == Viewed(200) => reply.found = {Asked} /\ Asked \in AllowedFiles

\* An allowed document that has been there ever since the process started is never
\* refused: the cache may be stale, but only about what came or went since.
OldDocumentsFound == Viewed(404) => Asked \notin (AllowedFiles \cap since \cap during)

\* A listing has every document that was there all the while, and none that was not
\* there at all, however the directory changed between two globs.
ListingComplete ==
    reply # Nothing /\ reply.op = "list" =>
        AllowedFiles \cap during \subseteq reply.found /\ reply.found \subseteq ever

\* The viewer shows the documents its globs allow, all of them and nothing else, but
\* for those that came or went since the process started.
DocumentsServed == TypeOK /\ OnlyAllowedServed /\ OldDocumentsFound /\ ListingComplete
=============================================================================
