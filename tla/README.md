# A TLA+ model of case-chat

case-chat answers questions about one generated court case. A browser page talks
to a FastAPI service; the service runs an agentic loop between a language model
(vLLM) and retrieval tools (an MCP server over stdio, in front of Qdrant and a
SQLite dataset), streams what happens, and keeps every conversation in SQLite.
Batch jobs fill Qdrant beforehand.

This directory holds TLA+ modules for the stateful parts, the TLC configurations
that check them on small instances, and TLAPS proofs of what matters most for
every instance. `PROJECT.json` maps each definition to the lines it models.

    tlc -workers 2 -config WebChat.cfg MCWebChat
    tlapm WebChatProofs.tla

## 1. The system

| Component | State | Operations | Talks to |
|---|---|---|---|
| `web/conversations.py` ConversationStore | a SQLite file, one connection with pending statements | create, add_turn, delete; owns, get, list | called by the handlers, on the event loop |
| `chat/orchestrator.py` ChatSession | running history, citation pool, the locals of each stream | stream, ask, seed_history, seed_pool | awaits the vLLM and MCP clients |
| `web/app.py` | table of live sessions | new, chat, delete; GETs; lifespan | store, sessions, SSE to the page |
| `chat/vllm_client.py` | none | chat (one POST, 300 s) | model |
| `chat/mcp_client.py` | one stdio session, one lock | connect, call | MCP server process |
| `embeddings/client.py` | none between calls | embed_query, embed_texts | embedding endpoint |
| `knowledgedb/reembed.py` | Qdrant collections | one run: ensure, read, embed, upsert | Postgres, embedder, Qdrant |
| `synthetic/indexer.py`, `loaders.py` | a Qdrant collection | one run, aborts on error | embedder, Qdrant |
| `casedata/dataset.py`, `queries.py` | a SQLite file, rebuilt whole in place; of each process, a connection and the names it has read | build; read-only queries | entrypoint script, tools, web service |
| `mcp_server/`, `retrieval/` | none | searches, lookups, case queries, one after another | Qdrant, dataset |
| `web/auth.py` | a JSON file of revoked subjects | issue, verify, revoke | command line, every handler |
| `web/documents.py`, `passages.py` | an lru_cache of the files that may be shown | list, view; passage | files, Qdrant |
| `web/static/index.html` | current conversation, log on screen | new, open, ask, delete, reload | the HTTP API |

What makes each correct:

* **Store**: no orphan rows, transcripts without gaps or ties, what was
  acknowledged survives. Hard: any statement may raise, nothing rolls back, the
  connection is shared by all handlers.
* **Session loop**: each exchange in order, every tool call answered before the
  model is asked again, every stream ends, sources that were really retrieved.
  Hard: streams of one conversation share a history and interleave at every
  await; clients leave; the bound on rounds.
* **Service**: the context a session shows the model agrees with the transcript its
  owner reads; conversations and subjects are isolated. Hard: a DELETE, a restart
  or a failed write between any two steps of a stream, and what a failed write
  leaves pending.
* **Jobs**: each vector with its own row, every row accounted for. Hard: retries,
  splits and skips on two levels of batching, reruns after an interruption.
* **Loaders, indexer**: every piece of a text in exactly one chunk, windows within
  their limits and no smaller than needed; after a run the collection is the
  corpus. Hard: windows closed by sums of lengths and reset in four places; a run
  that ends at its first error, over files that change.
* **Dataset**: a reader sees no build, or one, or the next, never a mixture. Hard:
  the file is unlinked and filled in place while others open it.
* **Tool channel**: calls go one at a time and everyone gets his turn. Hard: callers
  are cancelled in the queue and in the call; the server hangs or dies.
* **Tools and queries**: what is returned is what was asked for, in order, and
  agrees with the ground truth. Hard: limits that cut before rows are sorted, names
  that contain one another.
* **Citations**: a source has one entry, a marker one source, and both stay. Hard:
  labels that contain one another, over turns and restarts.
* **Auth**: a revocation holds. Hard: read, change and write of a file by processes
  that overlap, or are stopped while the file is empty.
* **Page**: questions go where they were meant to, and the log is the transcript.
  Hard: awaits during which the user opens something else.

The full list of hazards, each at its line, is in `PROJECT.json`.

## 2. The modules

    ConversationDb ───── ConversationStore          EmbeddingClient
          │                                               │
          └──── WebChat ──── ChatSession               Reembed
                   └ implements Transcripts

    SharedFiles:  Chunking  Indexer  CaseDataset  Documents  Revocation
    Turn:         ChatUi  Citations  ToolChannel  Lookups  CaseQueries

The first group is composed: its modules share state. Of the second, each module
is a component that meets the others only through files or replies, which it takes
as arbitrary; SharedFiles and Turn put them side by side, the variable `part` says
which one moves while the others rest. `MCX` gives the constants of module X values
for TLC; `XProofs` holds the theorems about X.

**Ordering** says what a sorted list is and what a loop keeps of a list; Citations,
Lookups and CaseQueries use it.

### Conversations

**ConversationDb** is the schema and the SQL statements as operators from one
database image to the next. A conversation row is its owner and whether it has a
title; a message row keeps its `idx`. Both users of the database share it.

**ConversationStore** has the file (`disk`) and the connection's view (`conn`),
which runs ahead between commits. Its calls do not overlap, because they are
synchronous on the event loop. Each may raise at any statement; the statements
before then stay pending or SQLite has rolled the transaction back, and the next
commit of any call writes what is pending. `Crash` loses it. `fate` is a history
variable: whether the caller of an add_turn was told it succeeded.

**ChatSession** cuts the generator `stream` where another coroutine can run: at
its awaits and yields. `pc` says where the stream of a request is suspended:

    accepted ─Begin→ asking ─ModelCalls→ calling ─ToolReturns→ returned
    returned ─RecordResult→ calling | asking | answered
    asking ─ModelAnswers→ answered ─Finish→ done
    asking | calling ─ModelFails, ToolFails→ failed ─Finish→ broken

`Disconnect` ends it anywhere without a trace, as the CancelledError passes the
`except Exception` clauses. A session is named by the request that built it;
`restored` is what seed_history gave it, `live` what streams appended since. A
text is reduced to what distinguishes the texts of one turn (raw, shown, empty,
the limit message); a citation to its key. The model's reply, the markers in it
and the tools' hits are arbitrary.

**WebChat** composes the two with the handlers. A handler has no await between
its checks and its response, so `New`, `Delete` and `Chat` are one action each;
the chat response is the generator that the steps of ChatSession drive, ended by
`Persist`. `Delete` drops the session before it checks ownership, as the code
does. `disk` is the store's file and `db` what its connection sees. `NewRaises`,
`ChatRaises`, `PersistRaises` and `DeleteRaises` are the calls of the store that
raise, at any statement or at the commit: as in ConversationStore, what they did
until then stays pending, is read by everybody, is written by the next commit of
any call and lost by a restart (`Crash`), unless SQLite has rolled it back. So a
question whose request was answered with an error may be read, and a DELETE that
failed may be carried out by the next question. `unsure` are the conversations of
which a DELETE raised. A conversation row left by a `create` that raised is left
out, as its id is told to nobody.

**Transcripts** is what the service promises with sessions, streams, tools and
SQL left out: a question is in its conversation's log from the moment it is
asked, at most one answer follows, only the owner removes a conversation, and an
answer that is late opens it again (`Reply`). There are two images of the logs, what
users read (`seen`) and what a restart keeps (`kept`); they differ only by requests
that failed (`AskFails`, `ReplyFails`, `RemoveFails`), which may or may not have
been carried out, until a later request settles it, another failure takes it back
(`TakeBack`) or a restart does. WebChat implements it under the refinement mapping
`T` (a log is the rows of `db`, or of `disk`, in `idx` order).

### Jobs

**EmbeddingClient** is one `embed_texts`: groups still to be posted, tries of the
first of them, vectors so far. The endpoint may answer in any order, time out,
break, or reject a batch it would accept text by text; `nature` says of each
text whether it is blank or refused by itself.

**Reembed** is the job around it: ensure the collections, stream the tables,
drop blank rows, embed, upsert, skip what failed, over several runs with or
without `--recreate` and over any subset of the tables, interrupted anywhere.
A Qdrant upsert that raises may have been applied or not.

**Chunking** is one loader on one file. A text is a sequence of pieces (sentences,
events, rows, image lines) of which the length counts and whether a paragraph or a
conversation opens there; a chunk is an interval of pieces and its seq.
`window_text` is TakeParagraph, LongParagraph, TakeSentence and EndSplit (the last
three are `_split_long`), `_window_turns` is StartConversation and TakeLine.

**Indexer** is the indexer around it: the globs one file at a time, then the
collection, then batches of upserts, with `--recreate` and `--limit`; the first
error ends the run, wherever it is, and the files may change at any time. A chunk of
a file has a seq and a text, and the id of its point is the file and the seq. Seqs
may repeat in a file, as they do in a thread of two conversations (loaders.py:167);
of the chunks of one id the one upserted last stays.

**CaseDataset** has the file as inodes: `unlink` frees the path and who has the
file open keeps it. Each CREATE commits on its own, the rows are one transaction.
Two builders overlap, one of them the container's entrypoint with its existence
check; the web service and the MCP server open what the path leads to and keep it,
and the names they have read.

### What a turn and a request meet

**ToolChannel** is the MCP session all conversations share, its asyncio.Lock and the
queue before it. `Cancel` is a client that leaves: of one who waits it empties his
place in the queue, of one who calls it frees the lock, and the server works on.
The server answers in order, hangs or dies. That the MCP library matches answers to
requests by their number is taken for granted: an answer nobody waits for
(`Awaited`) is dropped.

**Lookups** has the tools in front of Qdrant and the passage viewer. A scroll
returns the first so many matching points by id, a hash, and only then are they
sorted; a search returns any hits in any order. `law_search` is partitioned into
binding, persuasive and non-authority.

**CaseQueries** has the queries of the case: names resolved in three steps,
relations from both sides, timeline, facts, flags, observations. A text is a
sequence of words and LIKE is containment of words.

**Citations** has what one conversation retrieves: entries with their keys, the
turn's list and the pool, exact and partial match of a marker, numbered tokens,
Sources, fall-back without markers and the roster left out of it, and what a
restart restores.

**Documents** is the corpus viewer over a directory that changes between two of its
looks at it, with the allow list cached for the life of the process. A listing is one
step per glob. What may be shown is what the viewer's own ALLOWED_GLOBS match
(`AllowedFiles`).

**Revocation** is `auth revoke` as three steps (read, empty the file, write) of
processes that overlap or are stopped, and what a request makes of the file and the
clock. `undisturbed` are the commands since whose start none overlapped or was
stopped, `refused` the subjects refused since then.

**ChatUi** is the chat view: each click runs a handler up to its next fetch; server
and replies come at any later moment in any order; connections are lost, the page
is reloaded and conversations are deleted in another tab. The server is WebChat's
service reduced to what the page sees of it.

## 3. What the runs check

Runs that pass (properties are commented where they are defined):

| Run | Instance | What it shows |
|---|---|---|
| ConversationStore | 2 conversations of 2 subjects, 3 turns | `NoOrphans`, `TranscriptsOrdered`, `PendingExtendsSaved`, `SavedIsDurable`, `SavedIsListed`, through an error at every statement and crashes. Three turns are a turn that fails, one whose commit writes what was pending, and one after a delete. |
| ChatSession | 2 questions on one session, 2 rounds, of up to 2 and 1 tool calls | `OpenCallsExplained`, `ExchangesOrdered`, `StreamsEnd`. Two calls in a round are the least with a call between the first and the last; two rounds the least with one that is not the last. Citations do not steer the loop and are left to WebChat and Citations. |
| WebChat | 2 subjects, 2 conversations, 2 questions assigned in every way, 1 source, 1 call of the store that raises, 1 restart | `AskedIsSaved`, `SavedIsRemembered`, `NoQuestionTwice`, `TranscriptIsOwners`, `SessionsIsolated`, `SourcesWereRetrieved`, `AnswersFollowQuestions`, `TranscriptsGrow`, and that WebChat implements Transcripts (`ImplementsTranscripts`). Two questions give two streams of one conversation, or of two, or one before and one after a delete or a restart; one raising call and one restart in either order, with the commits of the other question in between, give pending statements that are written, rolled back or lost. |
| Reembed | 4 rows in 2 read batches, 1 row in a table sharing the collection, 1 empty table; batches of 3 and of 2; 2 retries, 2 runs; every nature of every text | `IndexSound` (types, and each vector with its own row), `RowsAccounted`, `OnlyRefusedSkip`, `PointsKept`, `RunsEnd`. A read batch of 3 takes two POSTs, of 2 texts and 1; faults are unlimited and only their count is capped. |
| Files | see below | `ChunksRight`, `WindowsTight` (Chunking), `IndexRight`, `DroppedOnlyToRebuild` (Indexer), `DatasetSound`, `ViewsSettle`, `StartServes` (CaseDataset), `DocumentsServed` (Documents), `RevocationsHold` (Revocation). |
| Turn | see below | `CallsSerialized`, `WaitersServed` (ToolChannel), `LookupsRight` (Lookups), `CaseAnswersRight` (CaseQueries), `CitationsSound`, `TokensNameSources`, `ResolutionStable` (Citations), `QuestionsPlaced`, `QuietLogIsTranscript` (ChatUi). |

Instances of the two last:

* Chunking: every text of up to 5 pieces that are blank, short or over the hard
  limit, in each loader; windows of 6 characters, hard limit 7, 2 lines. Two short
  pieces fit a window, three are a paragraph to be split.
* Indexer: 2 files of up to 3 chunks, with a seq given twice in one of them, upserts
  of 2, 3 runs, 2 edits. The third run meets what a whole run and one cut short have
  left.
* CaseDataset: 2 builders, 2 processes, 2 versions of the ground truth, 3 files: one
  unlinked while open, one in its place, and one more.
* Documents: a file of each of two globs and one of none, 3 changes or restarts: one
  before, one between two globs, one after.
* Revocation: 2 subjects, 3 commands, a link that ends and one that does not.
* ToolChannel: 3 streams (one calls, two wait), 5 requests.
* Lookups: 4 points in every order of their ids, limits of 3 and 2.
* CaseQueries: ground truths of 3 people whose names contain, equal or reverse one
  another, 3 events, 2 facts of every content; limits 1 and 2.
* Citations: 7 sources that share titles, ids or parts of labels, 2 turns of 2 calls
  and 2 markers, a restart.
* ChatUi: 2 questions, 2 clicks, 1 fault.

Runs that show a disagreement between the repository and the code (see
"findings"):

* `DeletedStaysDeleted`: the answer of a stream that outlives its conversation
  writes the conversation back. As only a user turn sets a title, the list hides
  it, but it is in the file and its id opens.
* `OneStreamPerSession`: nothing keeps two requests of one conversation from
  streaming on one session. The ChatSession run shows what holds nevertheless.
* `RebuildKeepsHistory`: the store keeps the annotated answer and the history the
  raw one, and the limit message is only in the store; so a rebuilt context is
  not the running one.
* `PoolCoversRetrieved`: after a restart the pool has only what saved answers
  showed.
* `ChunkIdsDistinct`: the conversations of one message thread are each numbered from
  0, and so their chunks share ids and points.
* `UnbuiltIsRefused`: a build that fails leaves a file without rows, which is served,
  and which the entrypoint takes for built.

The first four run MCWebChat, the others MCFiles with one component.

Things one might expect and that do not hold are written into the properties:
`SavedIsRemembered` excepts a question whose stream has not begun or was cut off,
`AnswersFollowQuestions` a conversation deleted in between, both a conversation a
DELETE of which raised, and `SavedIsRemembered` and `AskedIsSaved` a question whose
request raised (it may be read without ever having been asked, and be gone later
from under a session that was seeded with it: conversations.py:73-88 never rolls
back); `OnlyRefusedSkip`
lets one refused text cost its whole read batch (docs/RUNBOOK.md says batches
are skipped), and `PointsKept` lets `--recreate` of one table drop the points of
the others that share its collection. So also:

* `WindowsBounded` lets a sentence longer than `hard_max` be a window of its own
  (loaders.py:93; the docstring at 65 knows only `hard_max`).
* `IndexRight` is about the last chunk of each id: the others of a thread whose
  conversations share numbers are overwritten (`ChunkIdsDistinct` is the finding).
* `OneAtATime` lets the server have more than one request: when a caller is cancelled
  the next one sends at once (mcp_client.py:60), so a call may wait behind those of
  streams that are gone.
* `WaitersServed` excepts a server that hangs: a call has no timeout, so one that
  never returns keeps the lock from everybody.
* `OneEntryPerSource` keeps the first entry of a source, so a statute looked up
  before it is searched has no binding class in the pool (orchestrator.py:463).
* `LookupsExact` holds whole chapters only up to the limit: two translations of Psalm
  119 are 352 verses, the limit is 200 (tools.py:175; server.py:55-57 promises whole
  chapters), and what is cut is arbitrary.
* `OldDocumentsFound` excepts what came or went since the process resolved its first
  path: such a document is listed and answered 404 (documents.py:26, 52).
* `OnlyAllowedServed` says that a served file matches ALLOWED_GLOBS, not that it was
  indexed. documents.py:3-8 and 20-22 and docs/DESIGN.md, section 5a, say the
  viewer shows only what the indexer ingests; but documents.py:23 takes every
  `structured-data/*.csv`, while the indexer takes only supervised-visitation-log.csv,
  and that only if its schema is there (indexer.py:57-60). Both lists are constants
  of the code, which a reader compares better than a model does.
* `RevocationsHold` excepts two things. While a command, a lone and undisturbed one
  too, has emptied the file and not yet written it, the file reads as empty and every
  revoked link is let in, also one that was refused before; it is refused again once
  the file is written. And of commands that overlapped or were stopped one
  revocation of two is lost, or the whole file (auth.py:87).
* `QuietLogIsTranscript` excepts handlers that overlapped or failed, and says nothing
  of what they leave: two questions typed in no conversation make two of them, shown
  as one (index.html:491); the reply to an `openChat` answered before a DELETE shows
  the conversation after it; and a question whose connection was lost is shown
  whether or not it was saved.

### Bounds

`MaxCalls` bounds the tool calls of a reply, round by round; `MaxFailures` the calls
of the store that raise in WebChat and `MaxCrashes` its restarts; in Reembed `MaxRuns` bounds the runs and
`MaxFaults` only caps two history counters. In Files, `MaxPieces` and `Lengths`
bound texts, `MaxRuns` and `MaxEdits` the indexer, `MaxFiles` the dataset's inodes,
`MaxChanges` the directory, `MaxTime` the clock; in Turn, `MaxRequests` the session,
`MaxTurns`, `MaxMarkers` and `MaxRestarts` the citations, `MaxChats`, `MaxClicks` and
`MaxFaults` the page. `MaxIterations`, `BatchSize`, `ReadBatch`, `MaxRetries`,
`UpsertBatch`, `Target`, `HardMax`, `MaxLines` and the limits of lookups are settings
of the code with small values. `Roster` is empty in the runs of ChatSession and
WebChat: what a marker-less answer falls back to is then all its turn retrieved, and
the rest is Citations'. The proofs assume none of these values. Symmetry is used
where only equality is compared and no liveness property is checked (turns in
ConversationStore; requests, subjects and conversations in WebChat).

CHECK_DEADLOCK is off where the system may stop for good: in Reembed, whose job may
have been run for the last time, and in the two violation runs of MCFiles, which
stop at their counterexample. MCChatSession adds a stuttering step when all
questions have ended. In SharedFiles and Turn, `MayRest` is a stuttering step of the
components that need not go on (no further indexing run or build, nobody clicks or
calls); a loader, a request and a revoke command must be able to go on to their
end, or the run reports a deadlock.

### Fairness

ChatSession: the event loop resumes a generator whose client reads on, and the
HTTP client gives up on a model that is silent for 300 s; so Begin, the model's
reply or failure, RecordResult and Finish are weakly fair. A tool call has no
timeout (`mcp_client.py` sets none), so nothing is assumed of its return, and
`StreamsEnd` says a stream ends or waits for ever on a tool. Reembed: calls of
the embedder and of Qdrant have timeouts, a fetch from Postgres has none, so
`Work` is weakly fair and Fetch is not. ToolChannel: the event loop wakes the first
of the queue once the lock is free (`Wake`), and a server that is up answers
(`Answer`); one that hangs or dies owes nothing, and `WaitersServed` says so.
CaseDataset: the entrypoint's build ends, well or not, and then it starts the server
(`StartServes`); builds by hand owe nothing. The other components check no liveness.

## 4. What is proved

TLAPS checks every theorem below for every value of the constants: any conversations,
subjects, questions, streams, sources, files, tables, rows, texts, builders, limits
and batch sizes, and any number of faults, runs and changes. Every safety property and
every action property a passing run checks is stated by a theorem, and so is the
refinement; "theorems" in `PROJECT.json` lists them.

### From which assumptions

The modules name what they take of their constants. Most of it is typing, or that a
marker such as `NoOne` is not one of the things it is told from. What says more:

* `OnceAssumption` (Reembed): SPECS names a table once (reembed.py:51-126) and a
  cursor reads a row once. `FaultsAssumption`: the capped count of faults can still
  tell more than the retries absorb; it is about the model's cap, not the code.
* `CitationsAssumption`: one citation key (kind, id, edition) is of one source. The
  orchestrator knows sources by nothing else (orchestrator.py:463).
* `QueriesAssumption`: two people have two ids, the primary key (dataset.py:27).
* `ChunkingAssumption`: `target` is not above `hard_max` (loaders.py:64, 149, 227, 235).
* `IndexerAssumption`: the globs of a run find a file once.
* `LoopAssumption`: MaxIterations is positive; with 0 no request would ask the model
  (orchestrator.py:372, 430).

No theorem about a component rests on the others; the compositions SharedFiles and
Turn are shown to implement the specification of each component (`ComponentsKept`),
which carries its theorems over.

### Along which argument

Few of the properties are inductive. What each proof adds to them:

* **ConversationStoreProofs** (`NoOrphans`, `TranscriptsOrdered`, `PendingExtendsSaved`,
  `SavedIsDurable`, `SavedIsListed`). Both images are `Sound` (typed, no orphans,
  transcripts of finitely many rows numbered without gaps), the connection extends or
  has emptied each saved transcript, and saved turns are in both. `Sound` is what makes
  `MAX(idx) + 1` the length of the transcript (`NextIdxIsLength`), so that inserting
  keeps it; ConversationDbProofs proves once that each statement does. That a saved
  question is listed needs that each image names the conversation of every saved user
  row and has no row of a turn still to be added (`NamedIn`).
* **ChatSessionProofs** (`ExchangesOrdered`, `OpenCallsExplained`). `ExchangeInv`: what
  a stream has remembered is behind the round and the call it stands at, on the session
  it runs on (`EntriesBehind`). The lemmas that a step appends at most one entry, of its
  own request, to one history serve WebChatProofs too.
* **WebChatProofs**, in two layers. `IInv` is about who and where (`AskedIsSaved`,
  `TranscriptIsOwners`, `SessionsIsolated`). That a context shows only saved questions
  needs that a stream about to begin on a cached session has its question saved
  (`ContextSaved`); that needs that a session serves one conversation, which needs that
  it is built by a request nothing refers to yet. That rows are the owner's, though a
  late answer can bring a conversation back with its asker as owner, needs that all
  requests ever accepted on a conversation are of one subject (`OneSubject`).
  `HistoryInv` is about what was said (`SavedIsRemembered`, `NoQuestionTwice`,
  `AnswersFollowQuestions`, `SourcesWereRetrieved`): on which session each request ran,
  which rows its stream has left, and where citations came from. All of it is said of both
  images, `db` and `disk`: a pending question is of a request that raised
  (`PendingRaised`), the two never disagree on an owner (`OwnersAgree`), and the file
  has no turn its readers miss but of a conversation whose deletion is pending
  (`Ahead`). The handlers are taken apart once, into what a step does to the sessions
  and to the images (`Moves`, `RowsMoved`). `TranscriptsGrow`, and that the service
  implements Transcripts (`ImplementsTranscripts`, step by step and image by image),
  need `IInv` only.
* **ReembedProofs** (`IndexSound`, `PointsKept`, `RowsAccounted`, `OnlyRefusedSkip`).
  `IndexInv` follows a batch through the embedder: the groups still to be posted cut up,
  in order, exactly the texts not yet answered (`IsCut`), so vectors come back in the
  order of the rows. `RunInv` is the books: rows in front of the cursor are settled or
  in the batch under way, a batch lies in one page of ReadBatch rows, and a call is
  given up only for a refused text or a fault. Filtering a sequence is reasoned of by
  ranks of positions.
* **SharedFilesProofs**. Loaders (`ChunksRight`): a window begins where the last chunk
  ended, but for blanks, whichever of them emits it (`ReadingOK`); the piece that opened
  the conversation being read is at or before the window and after every chunk not of
  it (`TalkOK`), so that numbers given twice are of two conversations. For `WindowsTight`
  the window is followed piece by piece: it is within its limits, the chunk before it had
  no room for what it begins with, what the loader counts of it is its size, and a
  paragraph being split is a long one (`TightAt`). Sizes are differences of a recursive
  function of sums, which the proof of `SumsExist` shows to exist. Indexer
  (`IndexRight`, `DroppedOnlyToRebuild`): a run loads each file once, so that the chunks
  of a file stand together and in its order among those collected (`StandsBehind`),
  and the last of a seq in the file is the last of its id in the run; what is
  collected while no file changes is what the files hold (`CollectionIsCorpus`). Dataset (`DatasetSound`,
  `ViewsSettle`): who makes the first table of a file makes all of them and only he
  comes to insert (`OneMaker`), and once a file has data nobody else gets beyond his
  first CREATE (`FilledIsDone`). Documents (`DocumentsServed`): what the globs so far
  found holds what was there all the while and nothing that never was (`RequestOK`), and
  the cache is behind by what came or went since the process started (`CacheOK`).
* **RevocationProofs** (`RevocationsHold`). A command that runs alone has loaded all that
  is in the file (`Alone`), so that what it writes extends it (`UndisturbedKept`); a
  subject in `refused` is in the file, or in what the one running command will write,
  or its link has ended (`RefusalKept`).
* **TurnProofs**. Channel (`CallsSerialized`): the holder of the lock and nobody else
  calls, the requests in the inbox are numbered upwards and not beyond the last one
  sent, and the holder's is that one (`Serial`); that a stream which leaves the queue is
  no longer in it needs that none is in it twice (`OnceInQueue`). Page (`QuestionsPlaced`, `QuietLogIsTranscript`): wherever
  an `ask()` is it is for the conversation it was meant for (`PlacedInv`), and how far
  the one handler under way is says what the log still lacks (`ViewInv`). Citations
  (`CitationsSound`, `TokensNameSources`, `ResolutionStable`): neither list has a source
  twice, and whatever a turn has, showed or saved is of a source in the pool (`CiteInv`).
  Lookups and CaseQueries (`LookupsRight`, `CaseAnswersRight`): a reply is right by the
  step that makes it, from lemmas on Ordering: in a list in a strict order
  an element stands where its rank says, so that each is there once and they ascend.

Each property is proved together with the type invariant of its component, which is
a conjunct of it or of the inductive invariant. `Revocation`, `ToolChannel`,
`ConversationStore` and WebChat have type invariants that no run lists, only proofs.

### Only model-checked

Liveness (`StreamsEnd`, `RunsEnd`, `StartServes`, `WaitersServed`): TLAPS has no
fairness or ENABLED here. The runs that expect a
violation: TLC's counterexamples are all there is to show.

## 5. The plan

Done, in this order: ConversationDb and ConversationStore (everything rests on
them), ChatSession, WebChat, Transcripts, EmbeddingClient, Reembed; then Citations,
ToolChannel, CaseDataset, Indexer, Chunking, Revocation, ChatUi, Documents, Lookups
and CaseQueries; the compositions SharedFiles and Turn; the proofs of all of these.

Worth proving next: that ChatUi's and WebChat's servers agree, once they are composed
(below), and CaseDataset's `StartServes` if TLAPS comes to handle fairness.

WebChat carries the store's file and connection, so that failed writes leave
statements pending under live sessions. Worth composing next: ChatUi with WebChat in
place of its server; one browser, one server, and the losses of both.

## 6. Not modelled, and why

Timestamps, titles' wording, reasoning texts, rendering and SSE framing: no property
is about them. The case overview and the facts, source and overview views of the
page: they fetch once and show what they get, through queries that are modelled.
How Qdrant ranks, and how SQLite and the MCP library keep their own promises: taken
as given. What a build reads of the ground truth is one version of it: `Insert` takes
the six JSON files at once, so a corpus regenerated between two of them is not seen.
`TimelineQuery` and `FactsQuery` are asked with the combinations of arguments their
definitions name, not with every one. The signature and encoding of a link: a verified one says what was issued.
Parsing of emails, notes, PDFs and message archives: Chunking starts from the pieces
they yield. `vendor/rsmf_viewer.py`: vendored formatting. Settings: constants.
Terraform and compose files: no behaviour of the program. In Reembed: payloads,
payload indexes, `--limit`; in EmbeddingClient: normalization, truncation and
dimensions, but for the replies they make the client refuse.
