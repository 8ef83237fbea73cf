-------------------------- MODULE ChatSessionProofs --------------------------
(***************************************************************************)
(* Proofs about the steps of ChatSession: they keep the types, and all     *)
(* that a step does to the world outside its stream is to append one entry *)
(* of its own request to the history of its session, and to add to that    *)
(* session's pool.                                                         *)
(***************************************************************************)
EXTENDS ChatSession, TLAPS

\* What the rest of the system sees of a step of request r's stream.
Quiet(r) == live' = live

Speaks(r) ==
    \E e \in Entry :
        /\ e.req = r
        /\ e.kind = "user" => pc[r] = "accepted"
        /\ live' = [live EXCEPT ![on[r]] = Append(@, e)]

StepSeen(r) ==
    /\ pc[r] \in Active
    /\ \E label \in Active \ {"accepted"} : pc' = [pc EXCEPT ![r] = label]
    /\ on' = on
    /\ restored' = restored
    /\ Quiet(r) \/ Speaks(r)

LEMMA NewLocalsType == NewLocals \in Locals
BY LoopAssumption DEF NewLocals, Locals, Texts

LEMMA ChatInitType == ChatInit => ChatTypeOK
BY NewLocalsType DEF ChatInit, ChatTypeOK, Active

\* Remembering a well-formed entry.
LEMMA RememberSpeaks ==
    ASSUME ChatTypeOK, NEW r \in Requests,
           NEW kind \in {"user", "calls", "result", "answer"}, NEW round \in Nat,
           NEW k \in Nat, NEW text \in Texts,
           kind = "user" => pc[r] = "accepted",
           Remember(r, kind, round, k, text)
    PROVE  Speaks(r) /\ live' \in [Requests -> Seq(Entry)]
<1> DEFINE e == [kind |-> kind, req |-> r, round |-> round, k |-> k, text |-> text]
<1>1. e \in Entry /\ e.req = r /\ e.kind = kind
    BY DEF Entry
<1>2. live' = [live EXCEPT ![on[r]] = Append(@, e)]
    BY DEF Remember
<1> HIDE DEF e
<1>3. Speaks(r)
    BY <1>1, <1>2 DEF Speaks
<1>4. on[r] \in Requests /\ live[on[r]] \in Seq(Entry) /\ live \in [Requests -> Seq(Entry)]
    BY DEF ChatTypeOK
<1>5. QED
    BY <1>1, <1>2, <1>3, <1>4

LEMMA BeginSeen ==
    ASSUME ChatTypeOK, NEW r \in Requests, Begin(r)
    PROVE  StepSeen(r) /\ ChatTypeOK'
<1>1. Speaks(r) /\ live' \in [Requests -> Seq(Entry)]
    <2>1. Remember(r, "user", 0, 0, "asked") /\ pc[r] = "accepted"
        BY DEF Begin
    <2>2. QED
        BY <2>1, RememberSpeaks DEF Texts
<1>2. turn' \in [Requests -> Locals]
    <2>1. 1 \in 0 .. MaxIterations
        BY LoopAssumption
    <2>2. QED
        BY <2>1 DEF Begin, ChatTypeOK, Locals
<1>3. pc[r] = "accepted" /\ pc' = [pc EXCEPT ![r] = "asking"]
    BY DEF Begin, Goto
<1>4. QED
    BY <1>1, <1>2, <1>3 DEF StepSeen, ChatTypeOK, Begin, Active

LEMMA ModelAnswersSeen ==
    ASSUME ChatTypeOK, NEW r \in Requests, NEW text \in {"raw", "empty"},
           NEW marks \in SUBSET Sources, ModelAnswers(r, text, marks)
    PROVE  StepSeen(r) /\ ChatTypeOK'
<1>1. Speaks(r) /\ live' \in [Requests -> Seq(Entry)]
    <2>1. Remember(r, "answer", turn[r].round, 0, text)
        BY DEF ModelAnswers
    <2>2. turn[r].round \in Nat
        BY LoopAssumption DEF ChatTypeOK, Locals
    <2>3. QED
        BY <2>1, <2>2, RememberSpeaks DEF Texts
<1>2. turn' \in [Requests -> Locals]
    <2>1. Shown(r, text, marks) \in Texts
        BY DEF Shown, Texts
    <2>2. SourcesOf(r, text, marks) \in SUBSET Sources
        BY DEF SourcesOf, Cited, ChatTypeOK, Locals
    <2>3. turn' = [turn EXCEPT ![r].text = Shown(r, text, marks),
                               ![r].sources = SourcesOf(r, text, marks)]
        BY DEF ModelAnswers
    <2>4. \A q \in Requests : turn[q] \in Locals
        BY DEF ChatTypeOK
    <2>5. ASSUME NEW q \in Requests
          PROVE  turn'[q] \in Locals
        <3>1. PICK t \in Locals : t = turn[q]
            BY <2>4
        <3>2. turn'[q] = IF q = r THEN [t EXCEPT !.text = Shown(r, text, marks),
                                                 !.sources = SourcesOf(r, text, marks)]
                                  ELSE t
            BY <2>3, <3>1 DEF ChatTypeOK
        <3>3. [t EXCEPT !.text = Shown(r, text, marks),
                        !.sources = SourcesOf(r, text, marks)] \in Locals
            BY <2>1, <2>2, Zenon DEF Locals
        <3>4. QED
            BY <3>2, <3>3
    <2>6. turn' = [q \in Requests |-> turn'[q]]
        BY <2>3 DEF ChatTypeOK
    <2>7. QED
        BY <2>5, <2>6
<1>3. pc[r] = "asking" /\ pc' = [pc EXCEPT ![r] = "answered"]
    BY DEF ModelAnswers, Goto
<1>4. QED
    BY <1>1, <1>2, <1>3 DEF StepSeen, ChatTypeOK, ModelAnswers, Active

LEMMA ModelCallsSeen ==
    ASSUME ChatTypeOK, NEW r \in Requests, NEW n \in Nat, ModelCalls(r, n)
    PROVE  StepSeen(r) /\ ChatTypeOK'
<1>1. Speaks(r) /\ live' \in [Requests -> Seq(Entry)]
    <2>1. Remember(r, "calls", turn[r].round, n, "empty")
        BY DEF ModelCalls
    <2>2. turn[r].round \in Nat
        BY LoopAssumption DEF ChatTypeOK, Locals
    <2>3. QED
        BY <2>1, <2>2, RememberSpeaks DEF Texts
<1>2. turn' \in [Requests -> Locals]
    <2>1. turn' = [turn EXCEPT ![r].n = n, ![r].k = 1]
        BY DEF ModelCalls
    <2>2. \A q \in Requests : turn[q] \in Locals
        BY DEF ChatTypeOK
    <2>3. ASSUME NEW q \in Requests
          PROVE  turn'[q] \in Locals
        <3>1. PICK t \in Locals : t = turn[q]
            BY <2>2
        <3>2. turn'[q] = IF q = r THEN [t EXCEPT !.n = n, !.k = 1] ELSE t
            BY <2>1, <3>1 DEF ChatTypeOK
        <3>3. [t EXCEPT !.n = n, !.k = 1] \in Locals
            BY Zenon DEF Locals
        <3>4. QED
            BY <3>2, <3>3
    <2>4. turn' = [q \in Requests |-> turn'[q]]
        BY <2>1 DEF ChatTypeOK
    <2>5. QED
        BY <2>3, <2>4
<1>3. pc[r] = "asking" /\ pc' = [pc EXCEPT ![r] = "calling"]
    BY DEF ModelCalls, Goto
<1>4. QED
    BY <1>1, <1>2, <1>3 DEF StepSeen, ChatTypeOK, ModelCalls, Active

LEMMA ToolReturnsSeen ==
    ASSUME ChatTypeOK, NEW r \in Requests, NEW hits \in SUBSET Sources,
           NEW quiet \in SUBSET Sources, ToolReturns(r, hits, quiet)
    PROVE  StepSeen(r) /\ ChatTypeOK'
<1>1. turn' \in [Requests -> Locals]
    <2>1. turn' = [turn EXCEPT ![r].cites = @ \cup hits,
                               ![r].quiet = @ \cup (quiet \ turn[r].cites)]
        BY DEF ToolReturns
    <2>2. ASSUME NEW q \in Requests
          PROVE  turn'[q] \in Locals
        <3>1. PICK t \in Locals : t = turn[q]
            BY DEF ChatTypeOK
        <3>2. PICK more \in SUBSET Sources, still \in SUBSET Sources :
                 more = t.cites \cup hits /\ still = t.quiet \cup (quiet \ t.cites)
            BY <3>1 DEF Locals
        <3>3. turn'[q] = IF q = r THEN [t EXCEPT !.cites = more, !.quiet = still] ELSE t
            BY <2>1, <3>1, <3>2 DEF ChatTypeOK
        <3>4. [t EXCEPT !.cites = more, !.quiet = still] \in Locals
            BY Zenon DEF Locals
        <3>5. QED
            BY <3>3, <3>4
    <2>3. turn' = [q \in Requests |-> turn'[q]]
        BY <2>1 DEF ChatTypeOK
    <2>4. QED
        BY <2>2, <2>3
<1>2. pool' \in [Requests -> SUBSET Sources]
    BY DEF ToolReturns, ChatTypeOK, Locals
<1>3. pc[r] = "calling" /\ pc' = [pc EXCEPT ![r] = "returned"]
    BY DEF ToolReturns, Goto
<1>4. QED
    BY <1>1, <1>2, <1>3 DEF StepSeen, Quiet, ChatTypeOK, ToolReturns, Active

LEMMA RecordResultSeen ==
    ASSUME ChatTypeOK, NEW r \in Requests, RecordResult(r)
    PROVE  StepSeen(r) /\ ChatTypeOK'
<1>1. Speaks(r) /\ live' \in [Requests -> Seq(Entry)]
    <2>1. Remember(r, "result", turn[r].round, turn[r].k, "empty")
        BY DEF RecordResult
    <2>2. turn[r].round \in Nat /\ turn[r].k \in Nat
        BY LoopAssumption DEF ChatTypeOK, Locals
    <2>3. QED
        BY <2>1, <2>2, RememberSpeaks DEF Texts
<1>2. turn' \in [Requests -> Locals]
    <2>1. turn \in [Requests -> Locals] /\ turn[r] \in Locals
        BY DEF ChatTypeOK
    <2>2. CASE turn' = [turn EXCEPT ![r].k = @ + 1]
        BY <2>1, <2>2 DEF Locals
    <2>3. CASE /\ turn[r].round < MaxIterations
               /\ turn' = [turn EXCEPT ![r].round = @ + 1]
        <3>1. turn[r].round + 1 \in 0 .. MaxIterations
            BY <2>1, <2>3, LoopAssumption DEF Locals
        <3>2. QED
            BY <2>1, <2>3, <3>1 DEF Locals
    <2>4. CASE turn' = [turn EXCEPT ![r].text = "limit",
                                    ![r].sources = turn[r].cites \ turn[r].quiet]
        BY <2>1, <2>4 DEF Locals, Texts
    <2>5. QED
        BY <2>2, <2>3, <2>4 DEF RecordResult, NextRound
<1>3. pc[r] = "returned"
    BY DEF RecordResult
<1>4. PICK label \in {"calling", "asking", "answered"} : pc' = [pc EXCEPT ![r] = label]
    BY DEF RecordResult, NextRound, Goto
<1>5. label \in Active \ {"accepted"} /\ pc[r] \in Active
    BY <1>3, <1>4 DEF Active
<1>6. pc' \in [Requests -> Active \cup Ended \cup {"idle"}]
    BY <1>4, <1>5 DEF ChatTypeOK
<1>7. UNCHANGED <<restored, pool, on>>
    BY DEF RecordResult
<1>8. ChatTypeOK'
    BY <1>1, <1>2, <1>6, <1>7 DEF ChatTypeOK
<1>9. QED
    BY <1>1, <1>4, <1>5, <1>7, <1>8 DEF StepSeen

LEMMA FailsSeen ==
    ASSUME ChatTypeOK, NEW r \in Requests, ModelFails(r) \/ ToolFails(r)
    PROVE  StepSeen(r) /\ ChatTypeOK'
<1>1. pc[r] \in {"asking", "calling"} /\ pc' = [pc EXCEPT ![r] = "failed"]
    BY DEF ModelFails, ToolFails, Goto
<1>2. QED
    BY <1>1 DEF StepSeen, Quiet, ChatTypeOK, ModelFails, ToolFails, Active

\* Every step of a stream is seen as StepSeen says, and keeps the types.
LEMMA StepIsSeen ==
    ASSUME ChatTypeOK, NEW r \in Requests, Step(r)
    PROVE  StepSeen(r) /\ ChatTypeOK'
<1>1. CASE ModelReplies(r)
    <2>1. CASE \E text \in {"raw", "empty"}, marks \in SUBSET Sources :
                  ModelAnswers(r, text, marks)
        BY <2>1, ModelAnswersSeen
    <2>2. CASE \E n \in 1 .. MaxCalls[turn[r].round] : ModelCalls(r, n)
        <3>1. PICK n \in 1 .. MaxCalls[turn[r].round] : ModelCalls(r, n)
            BY <2>2
        <3>2. n \in Nat
            OBVIOUS
        <3>3. QED
            BY <3>1, <3>2, ModelCallsSeen
    <2>3. QED
        BY <1>1, <2>1, <2>2 DEF ModelReplies
<1>2. CASE ToolReplies(r)
    BY <1>2, ToolReturnsSeen DEF ToolReplies
<1>3. QED
    BY <1>1, <1>2, BeginSeen, RecordResultSeen, FailsSeen DEF Step

\* The locals of a generator that ends.
LEMMA ForgetType ==
    ASSUME ChatTypeOK, NEW r \in Requests, Forget(r)
    PROVE  turn' \in [Requests -> Locals]
BY NewLocalsType DEF Forget, ChatTypeOK, Locals

\* Finish and Disconnect end the stream and leave the sessions alone.
LEMMA EndSeen ==
    ASSUME ChatTypeOK, NEW r \in Requests, Finish(r) \/ Disconnect(r)
    PROVE  /\ ChatTypeOK'
           /\ pc[r] \in Active
           /\ \E label \in Ended : pc' = [pc EXCEPT ![r] = label]
           /\ UNCHANGED <<restored, live, pool, on>>
<1>1. Forget(r)
    BY DEF Finish, Disconnect
<1>2. turn' \in [Requests -> Locals]
    BY <1>1, ForgetType
<1>3. /\ pc[r] \in Active
      /\ \E label \in Ended : pc' = [pc EXCEPT ![r] = label]
      /\ UNCHANGED <<restored, live, pool, on>>
    BY DEF Finish, Disconnect, Goto, Active, Ended
<1>4. pc' \in [Requests -> Active \cup Ended \cup {"idle"}]
    <2>1. PICK label \in Ended : pc' = [pc EXCEPT ![r] = label]
        BY <1>3
    <2>2. QED
        BY <2>1 DEF ChatTypeOK
<1>5. ChatTypeOK'
    BY <1>2, <1>3, <1>4 DEF ChatTypeOK
<1>6. QED
    BY <1>3, <1>5

\* The entries of a history before and after a step: all are kept, and what is
\* added is r's own, on the session it runs on.
LEMMA StepEntries ==
    ASSUME ChatTypeOK, NEW r \in Requests, StepSeen(r), NEW s \in Requests
    PROVE  /\ \A i \in DOMAIN live[s] : i \in DOMAIN live'[s] /\ live'[s][i] = live[s][i]
           /\ \A i \in DOMAIN live'[s] :
                \/ i \in DOMAIN live[s] /\ live'[s][i] = live[s][i]
                \/ /\ s = on[r] /\ live'[s][i].req = r
                   /\ live'[s][i].kind = "user" => pc[r] = "accepted"
<1>1. CASE Quiet(r)
    BY <1>1 DEF Quiet
<1>2. CASE Speaks(r)
    <2>1. PICK e \in Entry :
             /\ e.req = r
             /\ e.kind = "user" => pc[r] = "accepted"
             /\ live' = [live EXCEPT ![on[r]] = Append(@, e)]
        BY <1>2 DEF Speaks
    <2>2. live \in [Requests -> Seq(Entry)] /\ live[s] \in Seq(Entry)
        BY DEF ChatTypeOK
    <2>3. CASE s = on[r]
        <3>1. live'[s] = Append(live[s], e)
            BY <2>1, <2>2, <2>3
        <3>2. /\ DOMAIN live[s] = 1 .. Len(live[s]) /\ Len(live[s]) \in Nat
              /\ DOMAIN live'[s] = 1 .. Len(live[s]) + 1
              /\ \A i \in 1 .. Len(live[s]) : live'[s][i] = live[s][i]
              /\ live'[s][Len(live[s]) + 1] = e
            BY <2>2, <3>1
        <3>3. \A i \in DOMAIN live'[s] : i \in DOMAIN live[s] \/ i = Len(live[s]) + 1
            BY <3>2
        <3>4. QED
            BY <2>1, <2>3, <3>2, <3>3
    <2>4. CASE s # on[r]
        BY <2>1, <2>2, <2>4
    <2>5. QED
        BY <2>3, <2>4
<1>3. QED
    BY <1>1, <1>2 DEF StepSeen

\* Where the citations a step leaves behind come from: those of the answer from
\* the pool or from this turn's tools, those of the pool from this turn's tools.
StepGathers(r) ==
    /\ \A q \in Requests \ {r} : turn'[q] = turn[q]
    /\ turn[r].cites \subseteq turn'[r].cites
    /\ turn'[r].sources \subseteq turn[r].sources \cup turn[r].cites \cup pool[on[r]]
    /\ \A s \in Requests : s # on[r] => pool'[s] = pool[s]
    /\ pool'[on[r]] \subseteq pool[on[r]] \cup turn'[r].cites

LEMMA StepIsGathering ==
    ASSUME ChatTypeOK, NEW r \in Requests, Step(r)
    PROVE  StepGathers(r)
<1>1. /\ turn \in [Requests -> Locals] /\ turn[r] \in Locals
      /\ pool \in [Requests -> SUBSET Sources] /\ on[r] \in Requests
    BY DEF ChatTypeOK
<1>2. CASE Begin(r)
    BY <1>1, <1>2 DEF Begin, StepGathers, Locals
<1>3. ASSUME NEW text, NEW marks, ModelAnswers(r, text, marks)
      PROVE  StepGathers(r)
    <2> DEFINE src == SourcesOf(r, text, marks)
               shown == Shown(r, text, marks)
    <2>1. src \subseteq turn[r].cites \cup pool[on[r]]
        BY DEF SourcesOf, Cited
    <2>2. /\ turn' = [turn EXCEPT ![r].text = shown, ![r].sources = src]
          /\ pool' = pool
        BY <1>3 DEF ModelAnswers
    <2> HIDE DEF src, shown
    <2>3. turn'[r].cites = turn[r].cites /\ turn'[r].sources = src
        BY <1>1, <2>2 DEF Locals
    <2>4. QED
        BY <1>1, <2>1, <2>2, <2>3 DEF StepGathers
<1>4. ASSUME NEW n, ModelCalls(r, n)
      PROVE  StepGathers(r)
    BY <1>1, <1>4 DEF ModelCalls, StepGathers, Locals
<1>5. ASSUME NEW hits, NEW quiet, ToolReturns(r, hits, quiet)
      PROVE  StepGathers(r)
    <2>1. /\ turn' = [turn EXCEPT ![r].cites = @ \cup hits,
                                  ![r].quiet = @ \cup (quiet \ turn[r].cites)]
          /\ pool' = [pool EXCEPT ![on[r]] = @ \cup turn[r].cites \cup hits]
        BY <1>5 DEF ToolReturns
    <2>2. turn'[r].cites = turn[r].cites \cup hits /\ turn'[r].sources = turn[r].sources
        BY <1>1, <2>1 DEF Locals
    <2>3. QED
        BY <1>1, <2>1, <2>2 DEF StepGathers
<1>6. CASE RecordResult(r)
    <2>1. pool' = pool
        BY <1>6 DEF RecordResult
    <2>2. CASE turn' = [turn EXCEPT ![r].k = @ + 1]
        BY <1>1, <2>1, <2>2 DEF StepGathers, Locals
    <2>3. CASE turn' = [turn EXCEPT ![r].round = @ + 1]
        BY <1>1, <2>1, <2>3 DEF StepGathers, Locals
    <2>4. CASE turn' = [turn EXCEPT ![r].text = "limit",
                                    ![r].sources = turn[r].cites \ turn[r].quiet]
        BY <1>1, <2>1, <2>4 DEF StepGathers, Locals
    <2>5. QED
        BY <1>6, <2>2, <2>3, <2>4 DEF RecordResult, NextRound
<1>7. CASE ModelFails(r) \/ ToolFails(r)
    BY <1>1, <1>7 DEF ModelFails, ToolFails, StepGathers
<1>8. QED
    BY <1>2, <1>3, <1>4, <1>5, <1>6, <1>7 DEF Step, ModelReplies, ToolReplies

\* The first step of a stream puts its question in the history.
LEMMA FirstStepAsks ==
    ASSUME ChatTypeOK, NEW r \in Requests, Step(r), pc[r] = "accepted"
    PROVE  \E i \in DOMAIN live'[on[r]] :
              live'[on[r]][i].kind = "user" /\ live'[on[r]][i].req = r
<1> DEFINE f == [kind |-> "user", req |-> r, round |-> 0, k |-> 0, text |-> "asked"]
<1>1. Begin(r)
    BY DEF Step, ModelReplies, ModelFails, ToolReplies, ToolReturns, ToolFails, RecordResult
<1>2. live' = [live EXCEPT ![on[r]] = Append(@, f)]
    BY <1>1 DEF Begin, Remember
<1>3. f.kind = "user" /\ f.req = r
    OBVIOUS
<1> HIDE DEF f
<1>4. live \in [Requests -> Seq(Entry)] /\ on[r] \in Requests /\ live[on[r]] \in Seq(Entry)
    BY DEF ChatTypeOK
<1>5. live'[on[r]] = Append(live[on[r]], f)
    BY <1>2, <1>4
<1>6. /\ Len(live[on[r]]) + 1 \in DOMAIN live'[on[r]]
      /\ live'[on[r]][Len(live[on[r]]) + 1] = f
    BY <1>4, <1>5
<1>7. QED
    BY <1>3, <1>6

-----------------------------------------------------------------------------
(* The exchange of a request, in the history of its session.               *)
(*                                                                         *)
(* Neither ExchangesOrdered nor OpenCallsExplained is inductive: both need *)
(* that what a stream has remembered is behind the round and the call it   *)
(* stands at, on the session it runs on.                                   *)

\* Entry e is behind a stream of its request at label with locals t; the calls
\* of the round it is in are those it counts.
BehindAt(e, label, t) ==
    /\ label \notin {"idle", "accepted"}
    /\ label = "asking" => e.round < t.round
    /\ label \in {"calling", "returned"} =>
          \/ e.round < t.round
          \/ /\ e.round = t.round
             /\ \/ e.kind = "calls" /\ e.k = t.n
                \/ e.kind = "result" /\ e.k < t.k

\* Call k of entry e is one that such a stream has yet to answer, or never will.
OpenAt(e, label, t, k) ==
    \/ label \in {"calling", "returned"} /\ t.round = e.round /\ t.k <= k
    \/ label \in {"failed", "broken", "gone"}

EntriesBehind ==
    \A s \in Requests : \A i \in DOMAIN live[s] :
        LET e == live[s][i]
        IN on[e.req] = s /\ BehindAt(e, pc[e.req], turn[e.req])

ExchangeInv ==
    /\ ChatTypeOK
    /\ EntriesBehind
    /\ ExchangesOrdered
    /\ OpenCallsExplained

LEMMA EntryType ==
    ASSUME ChatTypeOK, NEW s \in Requests, NEW i \in DOMAIN live[s]
    PROVE  /\ live[s] \in Seq(Entry) /\ live[s][i] \in Entry
           /\ live[s][i].req \in Requests
           /\ live[s][i].round \in Nat /\ live[s][i].k \in Nat
           /\ i \in Nat /\ Len(live[s]) \in Nat /\ DOMAIN live[s] = 1 .. Len(live[s])
<1>1. live[s] \in Seq(Entry)
    BY DEF ChatTypeOK
<1>2. live[s][i] \in Entry
    BY <1>1
<1>3. /\ live[s][i].req \in Requests
      /\ live[s][i].round \in Nat /\ live[s][i].k \in Nat
    BY <1>2 DEF Entry
<1>4. i \in Nat /\ Len(live[s]) \in Nat /\ DOMAIN live[s] = 1 .. Len(live[s])
    BY <1>1
<1>5. QED
    BY <1>1, <1>2, <1>3, <1>4

\* Only r's stream moves.
OnlyMoves(r) ==
    \A q \in Requests \ {r} : pc'[q] = pc[q] /\ turn'[q] = turn[q] /\ on'[q] = on[q]

\* A step of r that remembers nothing: its own entries are what it has to keep
\* behind it and explained.
LEMMA QuietKeepsExchange ==
    ASSUME ExchangeInv, NEW r \in Requests, OnlyMoves(r), live' = live,
           \A s \in Requests : \A i \in DOMAIN live[s] :
              live[s][i].req = r =>
                /\ on'[r] = s
                /\ BehindAt(live[s][i], pc'[r], turn'[r])
                /\ \A k \in Nat :
                      OpenAt(live[s][i], pc[r], turn[r], k)
                        => OpenAt(live[s][i], pc'[r], turn'[r], k)
    PROVE  EntriesBehind' /\ ExchangesOrdered' /\ OpenCallsExplained'
<1>1. EntriesBehind'
    <2> SUFFICES ASSUME NEW s \in Requests, NEW i \in DOMAIN live[s]
                 PROVE  /\ on'[live[s][i].req] = s
                        /\ BehindAt(live[s][i], pc'[live[s][i].req], turn'[live[s][i].req])
        BY DEF EntriesBehind, BehindAt
    <2>1. live[s][i].req \in Requests
        BY EntryType DEF ExchangeInv
    <2>2. QED
        BY <2>1 DEF OnlyMoves, ExchangeInv, EntriesBehind
<1>2. ExchangesOrdered'
    BY DEF ExchangeInv, ExchangesOrdered, Before
<1>3. OpenCallsExplained'
    <2> SUFFICES ASSUME NEW s \in Requests, NEW i \in DOMAIN live[s],
                        live[s][i].kind = "calls", NEW k \in 1 .. live[s][i].k
                 PROVE  \/ Recorded(s, i, live[s][i].req, live[s][i].round, k)
                        \/ OpenAt(live[s][i], pc'[live[s][i].req], turn'[live[s][i].req], k)
        BY DEF OpenCallsExplained, Recorded, OpenAt
    <2>1. live[s][i].req \in Requests /\ k \in Nat
        BY EntryType DEF ExchangeInv
    <2>2. \/ Recorded(s, i, live[s][i].req, live[s][i].round, k)
          \/ OpenAt(live[s][i], pc[live[s][i].req], turn[live[s][i].req], k)
        BY DEF ExchangeInv, OpenCallsExplained, OpenAt
    <2>3. QED
        BY <2>1, <2>2 DEF OnlyMoves
<1>4. QED
    BY <1>1, <1>2, <1>3

\* Entry f answers call k of entry e.
AnsweredBy(e, f, k) ==
    f.kind = "result" /\ f.req = e.req /\ f.round = e.round /\ f.k = k

\* A step of r that remembers f: f comes after all that r has remembered, and
\* what f leaves open is explained.
Follows(r, f) ==
    /\ BehindAt(f, pc'[r], turn'[r])
    /\ f.kind = "calls" => \A k \in 1 .. f.k : OpenAt(f, pc'[r], turn'[r], k)
    /\ \A s \in Requests : \A i \in DOMAIN live[s] :
          live[s][i].req = r =>
            /\ Before(live[s][i], f)
            /\ BehindAt(live[s][i], pc'[r], turn'[r])
            /\ live[s][i].kind = "calls" =>
                 \A k \in 1 .. live[s][i].k :
                    OpenAt(live[s][i], pc[r], turn[r], k)
                      => \/ AnsweredBy(live[s][i], f, k)
                         \/ OpenAt(live[s][i], pc'[r], turn'[r], k)

LEMMA ExplainedNext ==
    ASSUME \A s \in Requests : \A i \in DOMAIN live'[s] :
              live'[s][i].kind = "calls" =>
                \A k \in 1 .. live'[s][i].k :
                   \/ \E j \in i + 1 .. Len(live'[s]) :
                         AnsweredBy(live'[s][i], live'[s][j], k)
                   \/ OpenAt(live'[s][i], pc'[live'[s][i].req], turn'[live'[s][i].req], k)
    PROVE  OpenCallsExplained'
BY DEF OpenCallsExplained, Recorded, OpenAt, AnsweredBy

LEMMA SpeaksKeepsExchange ==
    ASSUME ExchangeInv, NEW r \in Requests, OnlyMoves(r), on' = on,
           NEW f \in Entry, f.req = r, Follows(r, f),
           live' = [live EXCEPT ![on[r]] = Append(@, f)]
    PROVE  EntriesBehind' /\ ExchangesOrdered' /\ OpenCallsExplained'
<1>1. /\ live \in [Requests -> Seq(Entry)] /\ on[r] \in Requests
      /\ \A s \in Requests : live[s] \in Seq(Entry)
    BY DEF ExchangeInv, ChatTypeOK
<1> DEFINE n == Len(live[on[r]])
<1>2. /\ n \in Nat /\ DOMAIN live[on[r]] = 1 .. n
      /\ live'[on[r]] = Append(live[on[r]], f)
      /\ DOMAIN live'[on[r]] = 1 .. n + 1 /\ Len(live'[on[r]]) = n + 1
      /\ live'[on[r]][n + 1] = f
      /\ \A i \in 1 .. n : live'[on[r]][i] = live[on[r]][i]
      /\ \A s \in Requests : s # on[r] => live'[s] = live[s]
    BY <1>1
<1> HIDE DEF n
<1>3. ASSUME NEW s \in Requests, NEW i \in DOMAIN live'[s]
      PROVE  \/ i \in DOMAIN live[s] /\ live'[s][i] = live[s][i]
             \/ s = on[r] /\ i = n + 1 /\ live'[s][i] = f
    <2>1. CASE s = on[r]
        BY <1>2, <1>3, <2>1
    <2>2. CASE s # on[r]
        BY <1>2, <1>3, <2>2
    <2>3. QED
        BY <2>1, <2>2
<1>4. EntriesBehind'
    <2> SUFFICES ASSUME NEW s \in Requests, NEW i \in DOMAIN live'[s]
                 PROVE  /\ on[live'[s][i].req] = s
                        /\ BehindAt(live'[s][i], pc'[live'[s][i].req], turn'[live'[s][i].req])
        BY DEF EntriesBehind, BehindAt
    <2>1. CASE i \in DOMAIN live[s] /\ live'[s][i] = live[s][i]
        <3>1. live[s][i].req \in Requests
            BY <2>1, EntryType DEF ExchangeInv
        <3>2. on[live[s][i].req] = s
              /\ BehindAt(live[s][i], pc[live[s][i].req], turn[live[s][i].req])
            BY <2>1 DEF ExchangeInv, EntriesBehind
        <3>3. CASE live[s][i].req = r
            BY <2>1, <3>2, <3>3 DEF Follows
        <3>4. CASE live[s][i].req # r
            BY <2>1, <3>1, <3>2, <3>4 DEF OnlyMoves
        <3>5. QED
            BY <3>3, <3>4
    <2>2. CASE s = on[r] /\ live'[s][i] = f
        BY <2>2 DEF Follows
    <2>3. QED
        BY <1>3, <2>1, <2>2
<1>5. ExchangesOrdered'
    <2> SUFFICES ASSUME NEW s \in Requests,
                        NEW i \in DOMAIN live'[s], NEW j \in DOMAIN live'[s],
                        i < j, live'[s][i].req = live'[s][j].req
                 PROVE  Before(live'[s][i], live'[s][j])
        BY DEF ExchangesOrdered, Before
    <2>1. CASE s = on[r]
        <3>1. i \in 1 .. n /\ live'[s][i] = live[s][i]
            BY <1>2, <2>1
        <3>2. CASE j = n + 1
            <4>1. live'[s][j] = f
                BY <1>2, <2>1, <3>2
            <4>2. i \in DOMAIN live[s] /\ live[s][i].req = r
                BY <1>2, <2>1, <3>1, <4>1
            <4>3. Before(live[s][i], f)
                BY <4>2 DEF Follows
            <4>4. QED
                BY <3>1, <4>1, <4>3
        <3>3. CASE j \in 1 .. n
            <4>1. /\ i \in DOMAIN live[s] /\ j \in DOMAIN live[s]
                  /\ live'[s][j] = live[s][j]
                BY <1>2, <2>1, <3>1, <3>3
            <4>2. Before(live[s][i], live[s][j])
                BY <3>1, <4>1 DEF ExchangeInv, ExchangesOrdered
            <4>3. QED
                BY <3>1, <4>1, <4>2
        <3>4. QED
            BY <1>2, <2>1, <3>2, <3>3
    <2>2. CASE s # on[r]
        BY <1>2, <2>2 DEF ExchangeInv, ExchangesOrdered
    <2>3. QED
        BY <2>1, <2>2
<1>6. OpenCallsExplained'
    <2> SUFFICES ASSUME NEW s \in Requests, NEW i \in DOMAIN live'[s],
                        live'[s][i].kind = "calls", NEW k \in 1 .. live'[s][i].k
                 PROVE  \/ \E j \in i + 1 .. Len(live'[s]) :
                              AnsweredBy(live'[s][i], live'[s][j], k)
                        \/ OpenAt(live'[s][i], pc'[live'[s][i].req], turn'[live'[s][i].req], k)
        BY ExplainedNext
    <2>1. CASE i \in DOMAIN live[s] /\ live'[s][i] = live[s][i]
        <3> DEFINE e == live[s][i]
        <3>1. /\ e.req \in Requests /\ i \in Nat
              /\ Len(live[s]) \in Nat /\ DOMAIN live[s] = 1 .. Len(live[s])
            BY <2>1, EntryType DEF ExchangeInv
        <3>2. on[e.req] = s
            BY <2>1 DEF ExchangeInv, EntriesBehind
        <3>3. \/ Recorded(s, i, e.req, e.round, k)
              \/ OpenAt(e, pc[e.req], turn[e.req], k)
            BY <2>1 DEF ExchangeInv, OpenCallsExplained, OpenAt
        <3>4. CASE Recorded(s, i, e.req, e.round, k)
            <4>1. PICK j \in i + 1 .. Len(live[s]) :
                     /\ live[s][j].kind = "result" /\ live[s][j].req = e.req
                     /\ live[s][j].round = e.round /\ live[s][j].k = k
                BY <3>4 DEF Recorded
            <4>2. live'[s][j] = live[s][j] /\ j \in i + 1 .. Len(live'[s])
                BY <1>2, <3>1, <4>1
            <4>3. QED
                BY <2>1, <4>1, <4>2 DEF AnsweredBy
        <3>5. CASE OpenAt(e, pc[e.req], turn[e.req], k) /\ e.req # r
            BY <2>1, <3>1, <3>5 DEF OnlyMoves
        <3>6. CASE AnsweredBy(e, f, k) /\ e.req = r
            <4>1. s = on[r]
                BY <3>2, <3>6
            <4>2. n + 1 \in i + 1 .. Len(live'[s]) /\ live'[s][n + 1] = f
                BY <1>2, <3>1, <4>1, <2>1
            <4>3. QED
                BY <2>1, <3>6, <4>2 DEF AnsweredBy
        <3>7. QED
            BY <2>1, <3>3, <3>4, <3>5, <3>6 DEF Follows
    <2>2. CASE s = on[r] /\ live'[s][i] = f
        BY <2>2 DEF Follows
    <2>3. QED
        BY <1>3, <2>1, <2>2
<1>7. QED
    BY <1>4, <1>5, <1>6

\* What the invariant says of the entries of one request.
LEMMA OwnEntries ==
    ASSUME ExchangeInv, NEW r \in Requests,
           NEW s \in Requests, NEW i \in DOMAIN live[s], live[s][i].req = r
    PROVE  /\ on[r] = s /\ BehindAt(live[s][i], pc[r], turn[r])
           /\ live[s][i].round \in Nat /\ live[s][i].k \in Nat
           /\ turn[r].round \in Nat /\ turn[r].k \in Nat /\ turn[r].n \in Nat
           /\ turn[r] \in Locals
<1>1. live[s][i].round \in Nat /\ live[s][i].k \in Nat
    BY EntryType DEF ExchangeInv
<1>2. turn[r] \in Locals
    BY DEF ExchangeInv, ChatTypeOK
<1>3. turn[r].round \in Nat /\ turn[r].k \in Nat /\ turn[r].n \in Nat
    BY <1>2, LoopAssumption DEF Locals
<1>4. QED
    BY <1>1, <1>2, <1>3 DEF ExchangeInv, EntriesBehind

\* A step that changes no local that positions are measured by.
LEMMA SamePlace ==
    ASSUME ChatTypeOK, NEW r \in Requests, NEW label,
           pc' = [pc EXCEPT ![r] = label], UNCHANGED on,
           \A q \in Requests \ {r} : turn'[q] = turn[q]
    PROVE  OnlyMoves(r) /\ pc'[r] = label
BY DEF OnlyMoves, ChatTypeOK

LEMMA BeginExchange ==
    ASSUME ExchangeInv, NEW r \in Requests, Begin(r)
    PROVE  EntriesBehind' /\ ExchangesOrdered' /\ OpenCallsExplained'
<1> DEFINE f == [kind |-> "user", req |-> r, round |-> 0, k |-> 0, text |-> "asked"]
<1>1. /\ pc[r] = "accepted" /\ pc' = [pc EXCEPT ![r] = "asking"]
      /\ live' = [live EXCEPT ![on[r]] = Append(@, f)]
      /\ turn' = [turn EXCEPT ![r].round = 1] /\ UNCHANGED on
    BY DEF Begin, Goto, Remember
<1>2. turn[r] \in Locals /\ turn \in [Requests -> Locals]
    BY DEF ExchangeInv, ChatTypeOK
<1>3. turn'[r].round = 1 /\ \A q \in Requests \ {r} : turn'[q] = turn[q]
    BY <1>1, <1>2 DEF Locals
<1>4. OnlyMoves(r) /\ pc'[r] = "asking"
    BY <1>1, <1>3, SamePlace DEF ExchangeInv
<1>5. f \in Entry /\ f.req = r /\ f.kind = "user" /\ f.round = 0
    BY DEF Entry, Texts
<1> HIDE DEF f
<1>6. \A s \in Requests : \A i \in DOMAIN live[s] : live[s][i].req # r
    BY <1>1, OwnEntries DEF BehindAt
<1>7. BehindAt(f, pc'[r], turn'[r])
    BY <1>3, <1>4, <1>5 DEF BehindAt
<1>8. Follows(r, f)
    BY <1>4, <1>5, <1>6, <1>7 DEF Follows
<1>9. QED
    BY <1>1, <1>4, <1>5, <1>8, SpeaksKeepsExchange

LEMMA ModelAnswersExchange ==
    ASSUME ExchangeInv, NEW r \in Requests, NEW text \in {"raw", "empty"},
           NEW marks, ModelAnswers(r, text, marks)
    PROVE  EntriesBehind' /\ ExchangesOrdered' /\ OpenCallsExplained'
<1> DEFINE f == [kind |-> "answer", req |-> r, round |-> turn[r].round, k |-> 0, text |-> text]
<1>1. /\ pc[r] = "asking" /\ pc' = [pc EXCEPT ![r] = "answered"]
      /\ live' = [live EXCEPT ![on[r]] = Append(@, f)]
      /\ turn' = [turn EXCEPT ![r].text = Shown(r, text, marks),
                              ![r].sources = SourcesOf(r, text, marks)]
      /\ UNCHANGED on
    BY DEF ModelAnswers, Goto, Remember
<1>2. turn[r].round \in Nat /\ turn \in [Requests -> Locals]
    BY LoopAssumption DEF ExchangeInv, ChatTypeOK, Locals
<1>3. \A q \in Requests \ {r} : turn'[q] = turn[q]
    BY <1>1, <1>2
<1>4. OnlyMoves(r) /\ pc'[r] = "answered"
    BY <1>1, <1>3, SamePlace DEF ExchangeInv
<1>5. f \in Entry /\ f.req = r /\ f.kind = "answer" /\ f.round = turn[r].round
    BY <1>2 DEF Entry, Texts
<1> HIDE DEF f
<1>6. ASSUME NEW s \in Requests, NEW i \in DOMAIN live[s], live[s][i].req = r
      PROVE  /\ Before(live[s][i], f)
             /\ BehindAt(live[s][i], pc'[r], turn'[r])
             /\ \A k : ~OpenAt(live[s][i], pc[r], turn[r], k)
    BY <1>1, <1>4, <1>5, <1>6, OwnEntries DEF BehindAt, Before, OpenAt
<1>7. BehindAt(f, pc'[r], turn'[r])
    BY <1>4 DEF BehindAt
<1>8. Follows(r, f)
    BY <1>4, <1>5, <1>6, <1>7 DEF Follows
<1>9. QED
    BY <1>1, <1>4, <1>5, <1>8, SpeaksKeepsExchange

LEMMA ModelCallsExchange ==
    ASSUME ExchangeInv, NEW r \in Requests, NEW n \in Nat, ModelCalls(r, n)
    PROVE  EntriesBehind' /\ ExchangesOrdered' /\ OpenCallsExplained'
<1> DEFINE f == [kind |-> "calls", req |-> r, round |-> turn[r].round, k |-> n,
                 text |-> "empty"]
<1>1. /\ pc[r] = "asking" /\ pc' = [pc EXCEPT ![r] = "calling"]
      /\ live' = [live EXCEPT ![on[r]] = Append(@, f)]
      /\ turn' = [turn EXCEPT ![r].n = n, ![r].k = 1]
      /\ UNCHANGED on
    BY DEF ModelCalls, Goto, Remember
<1>2. turn[r].round \in Nat /\ turn \in [Requests -> Locals] /\ turn[r] \in Locals
    BY LoopAssumption DEF ExchangeInv, ChatTypeOK, Locals
<1>3. /\ \A q \in Requests \ {r} : turn'[q] = turn[q]
      /\ turn'[r].n = n /\ turn'[r].k = 1 /\ turn'[r].round = turn[r].round
    BY <1>1, <1>2 DEF Locals
<1>4. OnlyMoves(r) /\ pc'[r] = "calling"
    BY <1>1, <1>3, SamePlace DEF ExchangeInv
<1>5. f \in Entry /\ f.req = r /\ f.kind = "calls" /\ f.round = turn[r].round /\ f.k = n
    BY <1>2 DEF Entry, Texts
<1> HIDE DEF f
<1>6. ASSUME NEW s \in Requests, NEW i \in DOMAIN live[s], live[s][i].req = r
      PROVE  /\ Before(live[s][i], f)
             /\ BehindAt(live[s][i], pc'[r], turn'[r])
             /\ \A k : ~OpenAt(live[s][i], pc[r], turn[r], k)
    BY <1>1, <1>3, <1>4, <1>5, <1>6, OwnEntries DEF BehindAt, Before, OpenAt
<1>7. BehindAt(f, pc'[r], turn'[r]) /\ \A k \in 1 .. f.k : OpenAt(f, pc'[r], turn'[r], k)
    BY <1>3, <1>4, <1>5 DEF BehindAt, OpenAt
<1>8. Follows(r, f)
    BY <1>4, <1>5, <1>6, <1>7 DEF Follows
<1>9. QED
    BY <1>1, <1>4, <1>5, <1>8, SpeaksKeepsExchange

LEMMA ToolReturnsExchange ==
    ASSUME ExchangeInv, NEW r \in Requests, NEW hits, NEW quiet, ToolReturns(r, hits, quiet)
    PROVE  EntriesBehind' /\ ExchangesOrdered' /\ OpenCallsExplained'
<1>1. /\ pc[r] = "calling" /\ pc' = [pc EXCEPT ![r] = "returned"]
      /\ turn' = [turn EXCEPT ![r].cites = @ \cup hits,
                              ![r].quiet = @ \cup (quiet \ turn[r].cites)]
      /\ UNCHANGED <<on, live>>
    BY DEF ToolReturns, Goto
<1>2. turn \in [Requests -> Locals] /\ turn[r] \in Locals
    BY DEF ExchangeInv, ChatTypeOK
<1>3. /\ \A q \in Requests \ {r} : turn'[q] = turn[q]
      /\ turn'[r].n = turn[r].n /\ turn'[r].k = turn[r].k /\ turn'[r].round = turn[r].round
    BY <1>1, <1>2 DEF Locals
<1>4. OnlyMoves(r) /\ pc'[r] = "returned"
    BY <1>1, <1>3, SamePlace DEF ExchangeInv
<1>5. ASSUME NEW s \in Requests, NEW i \in DOMAIN live[s], live[s][i].req = r
      PROVE  /\ on'[r] = s
             /\ BehindAt(live[s][i], pc'[r], turn'[r])
             /\ \A k \in Nat : OpenAt(live[s][i], pc[r], turn[r], k)
                                 => OpenAt(live[s][i], pc'[r], turn'[r], k)
    <2>1. on[r] = s /\ BehindAt(live[s][i], pc[r], turn[r])
        BY <1>5, OwnEntries
    <2>2. QED
        BY <1>1, <1>3, <1>4, <2>1 DEF BehindAt, OpenAt
<1>6. QED
    BY <1>1, <1>4, <1>5, QuietKeepsExchange

LEMMA RecordResultExchange ==
    ASSUME ExchangeInv, NEW r \in Requests, RecordResult(r)
    PROVE  EntriesBehind' /\ ExchangesOrdered' /\ OpenCallsExplained'
<1> DEFINE f == [kind |-> "result", req |-> r, round |-> turn[r].round, k |-> turn[r].k,
                 text |-> "empty"]
<1>1. /\ pc[r] = "returned" /\ UNCHANGED on
      /\ live' = [live EXCEPT ![on[r]] = Append(@, f)]
    BY DEF RecordResult, Remember
<1>2. /\ turn \in [Requests -> Locals] /\ turn[r] \in Locals
      /\ turn[r].round \in Nat /\ turn[r].k \in Nat /\ turn[r].n \in Nat
    BY LoopAssumption DEF ExchangeInv, ChatTypeOK, Locals
<1>3. PICK label \in {"calling", "asking", "answered"} :
        /\ pc' = [pc EXCEPT ![r] = label]
        /\ label = "calling" => turn[r].k < turn[r].n /\ turn' = [turn EXCEPT ![r].k = @ + 1]
        /\ label = "asking" =>
              ~(turn[r].k < turn[r].n) /\ turn' = [turn EXCEPT ![r].round = @ + 1]
        /\ label = "answered" =>
              /\ ~(turn[r].k < turn[r].n)
              /\ turn' = [turn EXCEPT ![r].text = "limit",
                                      ![r].sources = turn[r].cites \ turn[r].quiet]
    BY DEF RecordResult, NextRound, Goto
<1>4. \A q \in Requests \ {r} : turn'[q] = turn[q]
    BY <1>2, <1>3
<1>5. OnlyMoves(r) /\ pc'[r] = label
    BY <1>1, <1>3, <1>4, SamePlace DEF ExchangeInv
<1>6. /\ f \in Entry /\ f.req = r /\ f.kind = "result"
      /\ f.round = turn[r].round /\ f.k = turn[r].k
    BY <1>2 DEF Entry, Texts
<1> HIDE DEF f
<1>7. /\ label = "calling" =>
            turn'[r].round = turn[r].round /\ turn'[r].k = turn[r].k + 1 /\ turn'[r].n = turn[r].n
      /\ label = "asking" => turn'[r].round = turn[r].round + 1
    BY <1>2, <1>3 DEF Locals
<1>8. BehindAt(f, label, turn'[r])
    BY <1>2, <1>6, <1>7 DEF BehindAt
<1>9. ASSUME NEW s \in Requests, NEW i \in DOMAIN live[s], live[s][i].req = r
      PROVE  /\ Before(live[s][i], f)
             /\ BehindAt(live[s][i], label, turn'[r])
             /\ live[s][i].kind = "calls" =>
                  \A k \in 1 .. live[s][i].k :
                     OpenAt(live[s][i], pc[r], turn[r], k)
                       => AnsweredBy(live[s][i], f, k) \/ OpenAt(live[s][i], label, turn'[r], k)
    <2>1. BehindAt(live[s][i], pc[r], turn[r]) /\ live[s][i].round \in Nat /\ live[s][i].k \in Nat
        BY <1>9, OwnEntries
    <2>2. \/ live[s][i].round < turn[r].round
          \/ /\ live[s][i].round = turn[r].round
             /\ \/ live[s][i].kind = "calls" /\ live[s][i].k = turn[r].n
                \/ live[s][i].kind = "result" /\ live[s][i].k < turn[r].k
        BY <1>1, <2>1 DEF BehindAt
    <2>3. Before(live[s][i], f)
        BY <1>6, <2>2 DEF Before
    <2>4. BehindAt(live[s][i], label, turn'[r])
        BY <1>2, <1>7, <2>1, <2>2 DEF BehindAt
    <2>5. ASSUME live[s][i].kind = "calls", NEW k \in 1 .. live[s][i].k,
                 OpenAt(live[s][i], pc[r], turn[r], k)
          PROVE  AnsweredBy(live[s][i], f, k) \/ OpenAt(live[s][i], label, turn'[r], k)
        <3>1. turn[r].round = live[s][i].round /\ turn[r].k <= k /\ live[s][i].k = turn[r].n
            BY <1>1, <1>2, <2>1, <2>2, <2>5 DEF OpenAt
        <3>2. CASE k = turn[r].k
            BY <1>6, <1>9, <3>1, <3>2 DEF AnsweredBy
        <3>3. CASE k # turn[r].k
            <4>1. turn[r].k < turn[r].n /\ turn[r].k + 1 <= k
                BY <1>2, <2>1, <3>1, <3>3
            <4>2. label = "calling"
                BY <1>3, <4>1
            <4>3. QED
                BY <1>7, <3>1, <4>1, <4>2 DEF OpenAt
        <3>4. QED
            BY <3>2, <3>3
    <2>6. QED
        BY <2>3, <2>4, <2>5
<1>10. Follows(r, f)
    BY <1>5, <1>6, <1>8, <1>9 DEF Follows
<1>11. QED
    BY <1>1, <1>5, <1>6, <1>10, SpeaksKeepsExchange

\* A stream that breaks off, or whose caller takes what it has: only an answered
\* one, which has left no call open, becomes done.
LEMMA EndsExchange ==
    ASSUME ExchangeInv, NEW r \in Requests,
           ModelFails(r) \/ ToolFails(r) \/ Finish(r) \/ Disconnect(r)
    PROVE  EntriesBehind' /\ ExchangesOrdered' /\ OpenCallsExplained'
<1>1. PICK label \in {"failed", "done", "broken", "gone"} :
        /\ pc' = [pc EXCEPT ![r] = label]
        /\ label = "done" => pc[r] = "answered"
        /\ label # "gone" => pc[r] # "accepted"
        /\ pc[r] \in Active
        /\ UNCHANGED <<on, live>>
    BY DEF ModelFails, ToolFails, Finish, Disconnect, Goto, Active
<1>2. turn' = turn \/ turn' = [turn EXCEPT ![r] = [NewLocals EXCEPT !.cites = turn[r].cites]]
    BY DEF ModelFails, ToolFails, Finish, Disconnect, Forget
<1>3. \A q \in Requests \ {r} : turn'[q] = turn[q]
    BY <1>2 DEF ExchangeInv, ChatTypeOK
<1>4. OnlyMoves(r) /\ pc'[r] = label
    BY <1>1, <1>3, SamePlace DEF ExchangeInv
<1>5. ASSUME NEW s \in Requests, NEW i \in DOMAIN live[s], live[s][i].req = r
      PROVE  /\ on'[r] = s
             /\ BehindAt(live[s][i], pc'[r], turn'[r])
             /\ \A k \in Nat : OpenAt(live[s][i], pc[r], turn[r], k)
                                 => OpenAt(live[s][i], pc'[r], turn'[r], k)
    <2>1. on[r] = s
        BY <1>5, OwnEntries
    <2>2. QED
        BY <1>1, <1>4, <2>1 DEF BehindAt, OpenAt, Active
<1>6. QED
    BY <1>1, <1>4, <1>5, QuietKeepsExchange

LEMMA AskExchange ==
    ASSUME ExchangeInv, NEW r \in Requests, Ask(r)
    PROVE  ExchangeInv'
<1>1. PICK s \in Requests :
        /\ pc[r] = "idle" /\ pc' = [pc EXCEPT ![r] = "accepted"]
        /\ on' = [on EXCEPT ![r] = s]
        /\ UNCHANGED <<turn, restored, live, pool>>
    BY DEF Ask, Enter, sessionVars
<1>2. ChatTypeOK'
    BY <1>1 DEF ExchangeInv, ChatTypeOK, Active
<1>3. OnlyMoves(r)
    BY <1>1 DEF OnlyMoves, ExchangeInv, ChatTypeOK
<1>4. \A t \in Requests : \A i \in DOMAIN live[t] : live[t][i].req # r
    BY <1>1, OwnEntries DEF BehindAt
<1>5. EntriesBehind' /\ ExchangesOrdered' /\ OpenCallsExplained'
    BY <1>1, <1>3, <1>4, QuietKeepsExchange
<1>6. QED
    BY <1>2, <1>5 DEF ExchangeInv

LEMMA ChatInitExchange == ChatInit => ExchangeInv
<1> SUFFICES ASSUME ChatInit PROVE ExchangeInv
    OBVIOUS
<1>1. \A s \in Requests : live[s] = <<>> /\ DOMAIN live[s] = {}
    BY DEF ChatInit
<1>2. QED
    BY <1>1, ChatInitType
       DEF ExchangeInv, EntriesBehind, ExchangesOrdered, OpenCallsExplained

LEMMA ChatStepExchange == ExchangeInv /\ [ChatNext]_chatVars => ExchangeInv'
<1> SUFFICES ASSUME ExchangeInv, [ChatNext]_chatVars PROVE ExchangeInv'
    OBVIOUS
<1>1. ASSUME NEW r \in Requests, Step(r)
      PROVE  ExchangeInv'
    <2>1. ChatTypeOK'
        BY <1>1, StepIsSeen DEF ExchangeInv
    <2>2. CASE ModelReplies(r)
        <3>1. CASE \E text \in {"raw", "empty"}, marks \in SUBSET Sources :
                      ModelAnswers(r, text, marks)
            BY <2>1, <3>1, ModelAnswersExchange DEF ExchangeInv
        <3>2. CASE \E n \in 1 .. MaxCalls[turn[r].round] : ModelCalls(r, n)
            <4>1. PICK n \in 1 .. MaxCalls[turn[r].round] : ModelCalls(r, n)
                BY <3>2
            <4>2. n \in Nat
                OBVIOUS
            <4>3. QED
                BY <2>1, <4>1, <4>2, ModelCallsExchange DEF ExchangeInv
        <3>3. QED
            BY <2>2, <3>1, <3>2 DEF ModelReplies
    <2>3. CASE ToolReplies(r)
        BY <2>1, <2>3, ToolReturnsExchange DEF ExchangeInv, ToolReplies
    <2>4. CASE Begin(r)
        BY <2>1, <2>4, BeginExchange DEF ExchangeInv
    <2>5. CASE RecordResult(r)
        BY <2>1, <2>5, RecordResultExchange DEF ExchangeInv
    <2>6. CASE ModelFails(r) \/ ToolFails(r)
        BY <2>1, <2>6, EndsExchange DEF ExchangeInv
    <2>7. QED
        BY <1>1, <2>2, <2>3, <2>4, <2>5, <2>6 DEF Step
<1>2. ASSUME NEW r \in Requests, Finish(r) \/ Disconnect(r)
      PROVE  ExchangeInv'
    <2>1. ChatTypeOK'
        BY <1>2, EndSeen DEF ExchangeInv
    <2>2. QED
        BY <1>2, <2>1, EndsExchange DEF ExchangeInv
<1>3. CASE UNCHANGED chatVars
    BY <1>3 DEF chatVars, ExchangeInv, ChatTypeOK, EntriesBehind, BehindAt, ExchangesOrdered,
                Before, OpenCallsExplained, Recorded
<1>4. QED
    BY <1>1, <1>2, <1>3, AskExchange DEF ChatNext

THEOREM ExchangeInvariance == ChatSpec => []ExchangeInv
BY ChatInitExchange, ChatStepExchange, PTL DEF ChatSpec

\* Whatever streams interleave on a session, with any number of questions, rounds
\* and calls, the exchange of each reads in order in ChatSession._history, and no
\* message of it stands twice.
THEOREM ExchangesAlwaysOrdered == ChatSpec => []ExchangesOrdered
<1>1. ExchangeInv => ExchangesOrdered
    BY DEF ExchangeInv
<1>2. QED
    BY <1>1, ExchangeInvariance, PTL

\* A tool call without its result in the history is the one its stream is at, or
\* the mark of a stream that broke off: no stream asks the model again before
\* it has recorded the result of every call it made.
THEOREM OpenCallsAlwaysExplained == ChatSpec => []OpenCallsExplained
<1>1. ExchangeInv => OpenCallsExplained
    BY DEF ExchangeInv
<1>2. QED
    BY <1>1, ExchangeInvariance, PTL

\* The state of the sessions and their streams has its types.
THEOREM ChatTypeCorrect == ChatSpec => []ChatTypeOK
<1>1. ExchangeInv => ChatTypeOK
    BY DEF ExchangeInv
<1>2. QED
    BY <1>1, ExchangeInvariance, PTL
=============================================================================
