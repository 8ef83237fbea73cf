----------------------------- MODULE ChatSession -----------------------------
(***************************************************************************)
(* ChatSession (src/case_chat/chat/orchestrator.py): the agentic loop that *)
(* alternates model calls and tool calls over one running history and one  *)
(* citation pool.  stream is an async generator; its awaits and yields are *)
(* where another coroutine runs, so it is cut there into actions:          *)
(*                                                                         *)
(*   accepted --Begin--> asking --ModelCalls--> calling --ToolReturns-->   *)
(*   returned --RecordResult--> calling | asking | answered                *)
(*   asking --ModelAnswers--> answered --Finish--> done                    *)
(*   asking | calling --error--> failed --Finish--> broken                 *)
(*                                                                         *)
(* The yields at a reasoning text and before a tool call change nothing    *)
(* that the await next to them does not, and are part of it.  A session is *)
(* named by the request that built it.  The text of a message is reduced   *)
(* to what tells two texts of one turn apart, a citation to its key.       *)
(***************************************************************************)
EXTENDS Integers, Sequences, SequencesExt

CONSTANTS
    Requests,        \* questions; each is one call of stream
    Sources,         \* citation keys a tool result can carry
    Roster,          \* those case_overview lists as participants, out of the fallback
    MaxIterations,   \* vllm_max_tool_iterations
    MaxCalls         \* bound: tool calls in the model's reply of each round

ASSUME LoopAssumption ==
    /\ Roster \subseteq Sources
    /\ MaxIterations \in Nat \ {0}
    /\ MaxCalls \in [1 .. MaxIterations -> Nat]

VARIABLES
    restored,   \* turns seed_history put at the head of a session's history
    live,       \* the entries stream has appended to it since
    pool,       \* _cite_pool, its order left out
    pc,         \* where the stream of a request is suspended
    on,         \* the session it runs on
    turn        \* its local variables

sessionVars == <<restored, live, pool>>
chatVars    == <<restored, live, pool, pc, on, turn>>

\* "raised": the request failed before its stream was made (WebChat).
Active == {"accepted", "asking", "calling", "returned", "answered", "failed"}
Ended  == {"done", "broken", "gone", "lost", "raised"}

\* "raw": as the model wrote it; "shown": with markers rewritten to tokens;
\* "empty": no text; "limit": the tool-call-limit message.
Texts == {"asked", "raw", "shown", "empty", "limit"}

\* What the store keeps of a turn, and a row of it as seed_history gets it.
Turn      == [req : Requests, text : Texts, sources : SUBSET Sources]
SavedTurn == [idx : Nat, role : {"user", "assistant"}, turn : Turn]

\* An entry of the history: k numbers a tool result, or counts the tool calls
\* of an assistant message.
Entry == [kind : {"user", "calls", "result", "answer"}, req : Requests,
          round : Nat, k : Nat, text : Texts]

Locals == [round : 0 .. MaxIterations, n : Nat, k : Nat, cites : SUBSET Sources,
           quiet : SUBSET Sources, text : Texts, sources : SUBSET Sources]

ChatTypeOK ==
    /\ restored \in [Requests -> SUBSET SavedTurn]
    /\ live \in [Requests -> Seq(Entry)]
    /\ pool \in [Requests -> SUBSET Sources]
    /\ pc \in [Requests -> Active \cup Ended \cup {"idle"}]
    /\ on \in [Requests -> Requests]
    /\ turn \in [Requests -> Locals]

NewLocals == [round |-> 0, n |-> 0, k |-> 0, cites |-> {}, quiet |-> {},
              text |-> "empty", sources |-> {}]

ChatInit ==
    /\ restored = [r \in Requests |-> {}]
    /\ live = [r \in Requests |-> <<>>]
    /\ pool = [r \in Requests |-> {}]
    /\ pc = [r \in Requests |-> "idle"]
    /\ on = [r \in Requests |-> r]
    /\ turn = [r \in Requests |-> NewLocals]

-----------------------------------------------------------------------------
(* Sessions. *)

\* seed_history: user and assistant turns that have text.
SeedHistory(saved) == {t \in saved : t.turn.text # "empty"}

\* seed_pool: the citations saved with the turns, and no other.
SeedPool(saved) == UNION {t.turn.sources : t \in saved}

\* stream's generator made for r on session s; s is new when s = r.
Enter(r, s) ==
    /\ pc[r] = "idle"
    /\ pc' = [pc EXCEPT ![r] = "accepted"]
    /\ on' = [on EXCEPT ![r] = s]
    /\ UNCHANGED turn

-----------------------------------------------------------------------------
(* One step of stream for request r, from a suspension point to the next. *)

Goto(r, label) == pc' = [pc EXCEPT ![r] = label]

Remember(r, kind, round, k, text) ==
    live' = [live EXCEPT ![on[r]] = Append(@,
        [kind |-> kind, req |-> r, round |-> round, k |-> k, text |-> text])]

\* The first resumption: the question enters the history, the model is asked.
Begin(r) ==
    /\ pc[r] = "accepted"
    /\ Goto(r, "asking")
    /\ Remember(r, "user", 0, 0, "asked")
    /\ turn' = [turn EXCEPT ![r].round = 1]
    /\ UNCHANGED <<restored, pool, on>>

\* _annotate: the pool citations the text names, or when it names none, what
\* this turn's tools returned less what is tagged out of the fallback.
Cited(r, text, marks) == IF text = "empty" THEN {} ELSE marks \cap pool[on[r]]
Shown(r, text, marks) == IF Cited(r, text, marks) = {} THEN text ELSE "shown"
SourcesOf(r, text, marks) ==
    IF Cited(r, text, marks) = {} THEN turn[r].cites \ turn[r].quiet
    ELSE Cited(r, text, marks)

\* A mutation: the markers looked up in nothing the tools returned.
AnswerUnchecked(r, text, marks) ==
    /\ pc[r] = "asking"
    /\ Goto(r, "answered")
    /\ Remember(r, "answer", turn[r].round, 0, text)
    /\ turn' = [turn EXCEPT ![r].text = text, ![r].sources = marks]
    /\ UNCHANGED <<restored, pool, on>>

\* The model replies without tool calls: the raw text is remembered, the
\* annotated one is the answer.
ModelAnswers(r, text, marks) ==
    /\ pc[r] = "asking"
    /\ Goto(r, "answered")
    /\ Remember(r, "answer", turn[r].round, 0, text)
    /\ turn' = [turn EXCEPT ![r].text = Shown(r, text, marks),
                            ![r].sources = SourcesOf(r, text, marks)]
    /\ UNCHANGED <<restored, pool, on>>

\* The model replies with n tool calls: up to the await of the first.
ModelCalls(r, n) ==
    /\ pc[r] = "asking"
    /\ Goto(r, "calling")
    /\ Remember(r, "calls", turn[r].round, n, "empty")
    /\ turn' = [turn EXCEPT ![r].n = n, ![r].k = 1]
    /\ UNCHANGED <<restored, pool, on>>

\* The tool answers with citations hits, of which quiet carry fallback=False:
\* each is kept as first seen, and all join the pool.  The result is yielded
\* before it is recorded.
ToolReturns(r, hits, quiet) ==
    /\ pc[r] = "calling"
    /\ Goto(r, "returned")
    /\ turn' = [turn EXCEPT ![r].cites = @ \cup hits,
                            ![r].quiet = @ \cup (quiet \ turn[r].cites)]
    /\ pool' = [pool EXCEPT ![on[r]] = @ \cup turn[r].cites \cup hits]
    /\ UNCHANGED <<restored, live, on>>

\* A mutation: the rounds not counted.
NextRoundUncounted(r) == Goto(r, "asking") /\ UNCHANGED turn

\* After the last result of a round: the model again, or the limit message,
\* which is answered but not remembered.  No pool citation can match the limit
\* message, so its sources are the fallback.
NextRound(r) ==
    IF turn[r].round < MaxIterations
    THEN /\ Goto(r, "asking")
         /\ turn' = [turn EXCEPT ![r].round = @ + 1]
    ELSE /\ Goto(r, "answered")
         /\ turn' = [turn EXCEPT ![r].text = "limit",
                                 ![r].sources = turn[r].cites \ turn[r].quiet]

\* A mutation: the result of the last call of a round not recorded.
RecordAllButLast(r) ==
    /\ pc[r] = "returned"
    /\ IF turn[r].k < turn[r].n
       THEN /\ Remember(r, "result", turn[r].round, turn[r].k, "empty")
            /\ Goto(r, "calling")
            /\ turn' = [turn EXCEPT ![r].k = @ + 1]
       ELSE NextRound(r) /\ UNCHANGED live
    /\ UNCHANGED <<restored, pool, on>>

\* Resumed after the yield: the result enters the history, then the next call.
RecordResult(r) ==
    /\ pc[r] = "returned"
    /\ Remember(r, "result", turn[r].round, turn[r].k, "empty")
    /\ IF turn[r].k < turn[r].n
       THEN /\ Goto(r, "calling")
            /\ turn' = [turn EXCEPT ![r].k = @ + 1]
       ELSE NextRound(r)
    /\ UNCHANGED <<restored, pool, on>>

\* model.chat raises (timeout, HTTP error, no choices): nothing is recorded,
\* and the answer the caller holds is still the empty one it began with.
ModelFails(r) ==
    /\ pc[r] = "asking"
    /\ Goto(r, "failed")
    /\ UNCHANGED <<restored, live, pool, on, turn>>

\* tools.call raises: the assistant message keeps its unanswered call.
ToolFails(r) ==
    /\ pc[r] = "calling"
    /\ Goto(r, "failed")
    /\ UNCHANGED <<restored, live, pool, on, turn>>

\* The locals go with the generator; what its tools returned stays as history.
Forget(r) == turn' = [turn EXCEPT ![r] = [NewLocals EXCEPT !.cites = turn[r].cites]]

\* A mutation: an error ends the generator before its last event.
FinishAnsweredOnly(r) ==
    /\ pc[r] = "answered"
    /\ Goto(r, "done")
    /\ Forget(r)
    /\ UNCHANGED <<restored, live, pool, on>>

\* The caller takes the answer, or the error.
Finish(r) ==
    /\ pc[r] \in {"answered", "failed"}
    /\ Goto(r, IF pc[r] = "answered" THEN "done" ELSE "broken")
    /\ Forget(r)
    /\ UNCHANGED <<restored, live, pool, on>>

\* The client goes away: the generator is cancelled where it is suspended, and
\* no except clause on its way catches that.
Disconnect(r) ==
    /\ pc[r] \in Active
    /\ Goto(r, "gone")
    /\ Forget(r)
    /\ UNCHANGED <<restored, live, pool, on>>

-----------------------------------------------------------------------------
(* What the model and the tools may say. *)

ModelReplies(r) ==
    /\ pc[r] = "asking"
    /\ \/ \E text \in {"raw", "empty"}, marks \in SUBSET Sources : ModelAnswers(r, text, marks)
       \/ \E n \in 1 .. MaxCalls[turn[r].round] : ModelCalls(r, n)

ToolReplies(r) ==
    \E hits \in SUBSET Sources : \E quiet \in SUBSET (hits \cap Roster) : ToolReturns(r, hits, quiet)

Step(r) ==
    \/ Begin(r)
    \/ ModelReplies(r)
    \/ ModelFails(r)
    \/ ToolReplies(r)
    \/ ToolFails(r)
    \/ RecordResult(r)

\* On its own, one session, asked by whoever holds it one question after another
\* or, as nothing in it prevents, several at once.
Ask(r) ==
    \E s \in Requests :
        /\ \A q \in Requests \ {r} : pc[q] # "idle" => on[q] = s
        /\ s = r <=> \A q \in Requests : pc[q] = "idle"
        /\ Enter(r, s)
        /\ UNCHANGED sessionVars

ChatNext == \E r \in Requests : Ask(r) \/ Step(r) \/ Finish(r) \/ Disconnect(r)

\* The event loop resumes a generator whose client reads on, and the HTTP
\* client gives up on a model that stays silent for 300 s.  A tool call has no
\* timeout, so nothing is assumed of ToolReplies and ToolFails.
Fairness ==
    \A r \in Requests :
        /\ WF_chatVars(Begin(r))
        /\ WF_chatVars(ModelReplies(r) \/ ModelFails(r))
        /\ WF_chatVars(RecordResult(r))
        /\ WF_chatVars(Finish(r))

ChatSpec == ChatInit /\ [][ChatNext]_chatVars /\ Fairness

-----------------------------------------------------------------------------
(* Properties. *)

\* Result number k of round round of request q is recorded on session s after
\* position i.
Recorded(s, i, q, round, k) ==
    \E j \in i + 1 .. Len(live[s]) :
        /\ live[s][j].kind = "result" /\ live[s][j].req = q
        /\ live[s][j].round = round /\ live[s][j].k = k

\* A tool call the history leaves unanswered is either the one its stream is
\* about to answer, or the mark of a stream that broke off: a stream that runs
\* on asks the model again only when every call it made has its result, however
\* other streams of the session interleave with it.
OpenCallsExplained ==
    \A s \in Requests : \A i \in DOMAIN live[s] :
        LET e == live[s][i] IN
        e.kind = "calls" =>
            \A k \in 1 .. e.k :
                \/ Recorded(s, i, e.req, e.round, k)
                \/ /\ pc[e.req] \in {"calling", "returned"}
                   /\ turn[e.req].round = e.round
                   /\ turn[e.req].k <= k
                \/ pc[e.req] \in {"failed", "broken", "gone"}

\* Entry e stands before entry f in the exchange of their request.
Before(e, f) ==
    \/ e.round < f.round
    \/ /\ e.round = f.round
       /\ \/ e.kind = "calls" /\ f.kind = "result"
          \/ e.kind = "result" /\ f.kind = "result" /\ e.k < f.k

\* Whatever is interleaved with it, the exchange of one request reads in order:
\* its question, each round's calls and then their results in call order, and
\* its answer in a round of its own; and no entry of it stands twice.
ExchangesOrdered ==
    \A s \in Requests : \A i, j \in DOMAIN live[s] :
        i < j /\ live[s][i].req = live[s][j].req => Before(live[s][i], live[s][j])

\* Every stream that was started ends, unless it waits for ever on a tool call.
StreamsEnd ==
    \A r \in Requests :
        pc[r] = "accepted" ~> (pc[r] \in Ended \/ [](pc[r] = "calling"))
=============================================================================
