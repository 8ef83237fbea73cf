------------------------------- MODULE ChatUi -------------------------------
(***************************************************************************)
(* The chat view of the page (src/case_chat/web/static/index.html): the    *)
(* conversation it is in, the messages on screen, and what the user has    *)
(* started and the server not yet answered.  A handler runs up to its next *)
(* fetch; the server serves a fetch at some later moment, and the page     *)
(* takes the reply up at a later one again, in any order.  Messages are    *)
(* questions and the answers to them; what an answer says is left out.     *)
(* The server is the service of WebChat with one subject: it saves a       *)
(* question when it accepts it and the answer when its stream ends.        *)
(***************************************************************************)
EXTENDS Integers, Sequences, FiniteSets

CONSTANTS
    Questions,  \* questions, each typed once
    MaxChats,   \* bound: conversations ever created
    MaxClicks,  \* bound: clicks on a conversation, on its cross, on New chat
    MaxFaults   \* bound: lost connections, reloads, deletes in another tab

Chats  == 1 .. MaxChats
NoChat == 0

UiAssumption == MaxChats \in Nat /\ MaxClicks \in Nat /\ MaxFaults \in Nat

VARIABLES
    there, saved, made,  \* the server: conversations, transcripts, ids given out
    convId, log,         \* the page: its conversation, the messages shown
    ask,                 \* of each question, where its ask() is
    cid,                 \* the conversation it is for, once ensureConv returned
    meant,               \* the conversation the page was in when it was typed
    given,               \* the conversation its ensureConv was given
    flight, clicked,     \* clicks under way; clicks so far
    faults,
    view                 \* true, or muddled since handlers overlapped or one
                         \* failed, or reloading: muddled, and a lone reload runs

server == <<there, saved, made>>
asking == <<ask, cid, meant, given>>
page   == <<convId, log>>
vars   == <<server, page, asking, flight, clicked, faults, view>>

Entry == [q : Questions, role : {"user", "assistant"}]
Click == [id : 1 .. MaxClicks, kind : {"open", "new", "delete"}, chat : -MaxChats .. MaxChats,
          served : BOOLEAN, rows : Seq(Entry)]

TypeOK ==
    /\ made \in 0 .. MaxChats /\ there \subseteq 1 .. made /\ saved \in [Chats -> Seq(Entry)]
    /\ convId \in 0 .. made /\ log \in Seq(Entry)
    /\ ask \in [Questions -> {"none", "creating", "created", "posted", "streaming", "closing", "ended"}]
    /\ cid \in [Questions -> 0 .. made] /\ meant \in [Questions -> 0 .. made]
    /\ given \in [Questions -> 0 .. made]
    /\ flight \subseteq Click /\ clicked \in 0 .. MaxClicks /\ faults \in 0 .. MaxFaults
    /\ view \in {"true", "muddled", "reloading"}
    /\ \A f, g \in flight : f.id = g.id => f = g
    /\ \A q \in Questions : ask[q] \in {"posted", "streaming", "closing"} => cid[q] # NoChat

Init ==
    /\ there = {} /\ saved = [c \in Chats |-> <<>>] /\ made = 0
    /\ convId = NoChat /\ log = <<>>
    /\ ask = [q \in Questions |-> "none"]
    /\ cid = [q \in Questions |-> NoChat] /\ meant = cid /\ given = cid
    /\ flight = {} /\ clicked = 0 /\ faults = 0 /\ view = "true"

-----------------------------------------------------------------------------
Idle  == \A q \in Questions : ask[q] \in {"none", "ended"}
Quiet == Idle /\ flight = {}

\* A handler starts: alone, or across another.
Starts(whole) ==
    view' = IF ~ Quiet THEN "muddled"
            ELSE IF whole /\ view = "muddled" THEN "reloading" ELSE view

Ended(ok) == view' = IF view # "reloading" THEN view ELSE IF ok THEN "true" ELSE "muddled"

Both(q) == <<[q |-> q, role |-> "user"], [q |-> q, role |-> "assistant"]>>

\* The server creates a conversation.
Creates(c) == made < MaxChats /\ c = made + 1 /\ made' = c /\ there' = there \cup {c}

\* The part of ask() after ensureConv: what is appended to the log, and the POST.
Posts(q, c) ==
    /\ log' = log \o Both(q)
    /\ cid' = [cid EXCEPT ![q] = c]
    /\ ask' = [ask EXCEPT ![q] = "posted"]

-----------------------------------------------------------------------------
(* ask() *)

Submit(q) ==
    /\ ask[q] = "none"
    /\ meant' = [meant EXCEPT ![q] = convId]
    /\ IF convId # NoChat THEN Posts(q, convId)
       ELSE ask' = [ask EXCEPT ![q] = "creating"] /\ UNCHANGED <<log, cid>>
    /\ Starts(FALSE)
    /\ UNCHANGED <<server, convId, given, flight, clicked, faults>>

ServeEnsure(q) ==
    /\ ask[q] = "creating"
    /\ \E c \in Chats : Creates(c) /\ given' = [given EXCEPT ![q] = c]
    /\ ask' = [ask EXCEPT ![q] = "created"]
    /\ UNCHANGED <<saved, page, cid, meant, flight, clicked, faults, view>>

\* A mutation: ensureConv keeps a conversation the user opened meanwhile.
EnsuredUnlessOpened(q) ==
    /\ ask[q] = "created"
    /\ convId' = IF convId = NoChat THEN given[q] ELSE convId
    /\ Posts(q, convId')
    /\ UNCHANGED <<server, meant, given, flight, clicked, faults, view>>

Ensured(q) ==
    /\ ask[q] = "created"
    /\ convId' = given[q]
    /\ Posts(q, convId')
    /\ UNCHANGED <<server, meant, given, flight, clicked, faults, view>>

\* The server saves the question and streams, or refuses a conversation it has not.
ServeChat(q) ==
    /\ ask[q] = "posted"
    /\ IF cid[q] \in there
       THEN /\ saved' = [saved EXCEPT ![cid[q]] = Append(@, Both(q)[1])]
            /\ ask' = [ask EXCEPT ![q] = "streaming"]
       ELSE ask' = [ask EXCEPT ![q] = "closing"] /\ UNCHANGED saved
    /\ UNCHANGED <<there, made, page, cid, meant, given, flight, clicked, faults, view>>

\* The stream ends, and the answer, empty or not, is saved: also in a
\* conversation that was deleted, which is there again.
EndStream(q) ==
    /\ ask[q] = "streaming"
    /\ saved' = [saved EXCEPT ![cid[q]] = Append(@, Both(q)[2])]
    /\ there' = there \cup {cid[q]}
    /\ ask' = [ask EXCEPT ![q] = "closing"]
    /\ UNCHANGED <<made, page, cid, meant, given, flight, clicked, faults, view>>

\* reader.read() is done, also for a refusal, whose body has no data line.
AskEnds(q) ==
    /\ ask[q] = "closing"
    /\ ask' = [ask EXCEPT ![q] = "ended"]
    /\ UNCHANGED <<server, page, cid, meant, given, flight, clicked, faults, view>>

-----------------------------------------------------------------------------
(* openChat, newChat, deleteChat *)

\* The list of chats may be old: what had a question once may still be in it.
Listed == {c \in 1 .. made : \E q \in Questions : cid[q] = c /\ ask[q] # "posted"}

Sends(kind, c) ==
    /\ clicked < MaxClicks
    /\ clicked' = clicked + 1
    /\ flight' = flight \cup
         {[id |-> clicked + 1, kind |-> kind, chat |-> c, served |-> FALSE, rows |-> <<>>]}

Clicks ==
    /\ \/ \E c \in Listed : Sends("open", c) /\ Starts(TRUE)
       \/ Sends("new", NoChat) /\ Starts(TRUE)
       \/ \E c \in Listed : Sends("delete", c) /\ Starts(FALSE)
    /\ UNCHANGED <<server, page, asking, faults>>

\* The reply to f: the rows of a conversation, the id of a new one; 0 is an error.
Replies(f, c, rows) ==
    flight' = (flight \ {f}) \cup {[f EXCEPT !.served = TRUE, !.chat = c, !.rows = rows]}

ServeOpen(f) ==
    /\ f.kind = "open" /\ ~ f.served
    /\ IF f.chat \in there THEN Replies(f, f.chat, saved[f.chat]) ELSE Replies(f, -f.chat, <<>>)
    /\ UNCHANGED <<server, page, asking, clicked, faults, view>>

ServeNew(f) ==
    /\ f.kind = "new" /\ ~ f.served
    /\ \E c \in Chats : Creates(c) /\ Replies(f, c, <<>>)
    /\ UNCHANGED <<saved, page, asking, clicked, faults, view>>

ServeDelete(f) ==
    /\ f.kind = "delete" /\ ~ f.served
    /\ there' = there \ {f.chat} /\ saved' = [saved EXCEPT ![f.chat] = <<>>]
    /\ Replies(f, f.chat, <<>>)
    /\ UNCHANGED <<made, page, asking, clicked, faults, view>>

\* The page is in conversation c and shows the rows it was sent.
Shows(c, rows) == convId' = c /\ log' = rows

Opened(f) ==
    /\ f.kind = "open" /\ f.served
    /\ IF f.chat > 0 THEN Shows(f.chat, f.rows) /\ Ended(TRUE)
       ELSE /\ convId' = IF convId = -f.chat THEN NoChat ELSE convId
            /\ UNCHANGED log /\ Ended(FALSE)
    /\ flight' = flight \ {f}
    /\ UNCHANGED <<server, asking, clicked, faults>>

Newed(f) ==
    /\ f.kind = "new" /\ f.served
    /\ Shows(f.chat, <<>>) /\ Ended(TRUE)
    /\ flight' = flight \ {f}
    /\ UNCHANGED <<server, asking, clicked, faults>>

\* A mutation: the log is cleared whatever conversation the page is in.
DeletedClears(f) ==
    /\ f.kind = "delete" /\ f.served
    /\ convId' = (IF f.chat = convId THEN NoChat ELSE convId) /\ log' = <<>>
    /\ flight' = flight \ {f}
    /\ UNCHANGED <<server, asking, clicked, faults, view>>

\* Only the conversation the page is in by now is cleared.
Deleted(f) ==
    /\ f.kind = "delete" /\ f.served
    /\ IF f.chat = convId THEN Shows(NoChat, <<>>) ELSE UNCHANGED page
    /\ flight' = flight \ {f}
    /\ UNCHANGED <<server, asking, clicked, faults, view>>

-----------------------------------------------------------------------------
(* What may go wrong. *)

Fault == faults < MaxFaults /\ faults' = faults + 1

\* A fetch or a read rejects: the handler stops there, and a stream is cancelled.
Breaks ==
    /\ Fault /\ view' = "muddled"
    /\ \/ \E q \in Questions :
            /\ ask[q] \notin {"none", "ended"}
            /\ ask' = [ask EXCEPT ![q] = "ended"] /\ UNCHANGED flight
       \/ \E f \in flight : flight' = flight \ {f} /\ UNCHANGED ask
    /\ UNCHANGED <<server, page, cid, meant, given, clicked>>

\* The page is loaded anew: its handlers are gone, localStorage keeps convId.
Reload ==
    /\ Fault
    /\ log' = <<>> /\ UNCHANGED convId
    /\ ask' = [q \in Questions |-> IF ask[q] = "none" THEN "none" ELSE "ended"]
    /\ IF convId = NoChat THEN flight' = {} /\ view' = "true" /\ UNCHANGED clicked
       ELSE /\ clicked < MaxClicks /\ clicked' = clicked + 1
            /\ flight' = {[id |-> clicked + 1, kind |-> "open", chat |-> convId,
                           served |-> FALSE, rows |-> <<>>]}
            /\ view' = "reloading"
    /\ UNCHANGED <<server, cid, meant, given>>

OtherTab ==
    /\ Fault /\ view' = "muddled"
    /\ \E c \in there : there' = there \ {c} /\ saved' = [saved EXCEPT ![c] = <<>>]
    /\ UNCHANGED <<made, page, asking, flight, clicked>>

AskStep(q) ==
    ServeEnsure(q) \/ Ensured(q) \/ ServeChat(q) \/ EndStream(q) \/ AskEnds(q)

ClickStep(f) ==
    ServeOpen(f) \/ ServeNew(f) \/ ServeDelete(f) \/ Opened(f) \/ Newed(f) \/ Deleted(f)

Next ==
    \/ \E q \in Questions : Submit(q) \/ AskStep(q)
    \/ Clicks \/ \E f \in flight : ClickStep(f)
    \/ Breaks \/ Reload \/ OtherTab

Spec == Init /\ [][Next]_vars

-----------------------------------------------------------------------------
(* Properties. *)

\* A question is saved in the conversation the page was in when it was typed, or,
\* if in none, in the one created for it alone: never in one that was opened
\* while its ask waited.
AsksGoWhereMeant ==
    \A c \in Chats : \A i \in DOMAIN saved[c] :
        LET q == saved[c][i].q IN
        c = IF meant[q] # NoChat THEN meant[q] ELSE given[q]

\* Questions are where they were meant to be, and come from somewhere.
QuestionsPlaced == TypeOK /\ AsksGoWhereMeant

\* What the view shows of the conversation it is in.
ShowsTranscript == log = IF convId = NoChat THEN <<>> ELSE saved[convId]

\* With no handler under way the view shows its conversation's transcript, however
\* many came before, unless two overlapped or one failed since it was last loaded.
QuietLogIsTranscript == Quiet /\ view = "true" => ShowsTranscript
=============================================================================
