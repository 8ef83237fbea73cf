----------------------------- MODULE ToolChannel -----------------------------
(***************************************************************************)
(* The tool client all conversations share                                 *)
(* (src/case_chat/chat/mcp_client.py): one MCP session over stdio with a   *)
(* server process, and an asyncio.Lock around each call.  A stream whose   *)
(* client goes away is cancelled while it waits for the lock or for its    *)
(* answer.  A call has no timeout: the server may hang, or die, on which   *)
(* the MCP library raises in the calls under way or leaves them waiting.   *)
(* The server runs its synchronous tools one after another, also those of  *)
(* requests nobody waits for any more.  That the library hands an answer   *)
(* to the request it is of is taken for granted.                           *)
(***************************************************************************)
EXTENDS Integers, Sequences, SequencesExt

CONSTANTS
    Streams,      \* streams that call tools
    NoStream,
    MaxRequests   \* bound: requests of a session

ASSUME ChannelAssumption == NoStream \notin Streams /\ MaxRequests \in Nat

VARIABLES
    server,    \* the server process: none (not connected), up, hung, dead
    inbox,     \* requests it has not answered, the one it works on first
    sent,      \* requests of the session so far
    place,     \* of each stream: idle, waiting, calling
    ticket,    \* of each stream, the number of its last request
    lock,      \* who holds the lock
    queue      \* who waits for it, in the order of arrival

vars == <<server, inbox, sent, place, ticket, lock, queue>>

TypeOK ==
    /\ server \in {"none", "up", "hung", "dead"}
    /\ inbox \in Seq(1 .. MaxRequests) /\ sent \in 0 .. MaxRequests
    /\ place \in [Streams -> {"idle", "waiting", "calling"}]
    /\ ticket \in [Streams -> 0 .. sent]
    /\ lock \in Streams \cup {NoStream} /\ queue \in Seq(Streams)
    /\ \A s \in Streams : (place[s] = "calling") = (lock = s)
    /\ {s \in Streams : place[s] = "waiting"} = ToSet(queue)

Init ==
    /\ server = "none" /\ inbox = <<>> /\ sent = 0
    /\ place = [s \in Streams |-> "idle"] /\ ticket = [s \in Streams |-> 0]
    /\ lock = NoStream /\ queue = <<>>

-----------------------------------------------------------------------------
\* The application starts: a server is spawned and its tools are listed.
Connect ==
    /\ server = "none"
    /\ server' = "up"
    /\ UNCHANGED <<inbox, sent, place, ticket, lock, queue>>

\* call_tool, by the holder of the lock.
Send(s) ==
    /\ sent' = sent + 1
    /\ inbox' = IF server \in {"up", "hung"} THEN Append(inbox, sent + 1) ELSE inbox
    /\ ticket' = [ticket EXCEPT ![s] = sent + 1]
    /\ lock' = s
    /\ place' = [place EXCEPT ![s] = "calling"]

\* A mutation: call_tool without "async with self._lock".
CallUnlocked(s) ==
    /\ place[s] = "idle" /\ server # "none"
    /\ sent + Len(queue) < MaxRequests
    /\ Send(s)
    /\ UNCHANGED <<server, queue>>

\* asyncio.Lock.acquire: at once if it is free and nobody waits.
Free == lock = NoStream /\ queue = <<>>
\* A stream calls a tool; without a session the call raises.
Call(s) ==
    /\ place[s] = "idle" /\ server # "none"
    /\ sent + Len(queue) < MaxRequests
    /\ IF Free THEN Send(s) /\ UNCHANGED queue
       ELSE /\ queue' = Append(queue, s)
            /\ place' = [place EXCEPT ![s] = "waiting"]
            /\ UNCHANGED <<inbox, sent, ticket, lock>>
    /\ UNCHANGED server

\* The lock is released and the stream that waits longest wakes up.
Wake ==
    /\ lock = NoStream /\ queue # <<>>
    /\ Send(Head(queue))
    /\ queue' = Tail(queue)
    /\ UNCHANGED server

Release(s) == lock' = NoStream /\ place' = [place EXCEPT ![s] = "idle"]

\* The holder of the lock waits for answer n; that of an abandoned request is dropped.
Awaited(n) == lock # NoStream /\ ticket[lock] = n

\* The server answers the request it works on, with a result or a TOOL ERROR.
Answer ==
    /\ server = "up" /\ inbox # <<>>
    /\ inbox' = Tail(inbox)
    /\ IF Awaited(Head(inbox)) THEN Release(lock) ELSE UNCHANGED <<lock, place>>
    /\ UNCHANGED <<server, sent, ticket, queue>>

\* A mutation: the lock is taken and released by hand, without try.
CancelHolding(s) ==
    /\ \/ place[s] = "calling" /\ place' = [place EXCEPT ![s] = "idle"] /\ UNCHANGED <<lock, queue>>
       \/ /\ place[s] = "waiting"
          /\ \E i \in DOMAIN queue : queue[i] = s /\ queue' = RemoveAt(queue, i)
          /\ place' = [place EXCEPT ![s] = "idle"] /\ UNCHANGED lock
    /\ UNCHANGED <<server, inbox, sent, ticket>>

\* The stream is cancelled; leaving "async with" frees the lock, and the server
\* goes on with the request.
Cancel(s) ==
    /\ \/ place[s] = "calling" /\ Release(s) /\ UNCHANGED queue
       \/ /\ place[s] = "waiting"
          /\ \E i \in DOMAIN queue : queue[i] = s /\ queue' = RemoveAt(queue, i)
          /\ place' = [place EXCEPT ![s] = "idle"] /\ UNCHANGED lock
    /\ UNCHANGED <<server, inbox, sent, ticket>>

\* The server hangs in a tool, or dies and takes its requests along.
Break ==
    /\ server \in {"up", "hung"}
    /\ \/ server' = "hung" /\ server = "up" /\ inbox # <<>> /\ UNCHANGED inbox
       \/ server' = "dead" /\ inbox' = <<>>
    /\ UNCHANGED <<sent, place, ticket, lock, queue>>

\* A call under way, or made, to a dead server raises.
Raise ==
    /\ server = "dead" /\ lock # NoStream
    /\ Release(lock)
    /\ UNCHANGED <<server, inbox, sent, ticket, queue>>

\* aclose: the application has stopped and its streams with it.
Close ==
    /\ server # "none" /\ \A s \in Streams : place[s] = "idle"
    /\ server' = "none" /\ inbox' = <<>>
    /\ UNCHANGED <<sent, place, ticket, lock, queue>>

Next ==
    \/ Connect \/ Close
    \/ \E s \in Streams : Call(s) \/ Cancel(s)
    \/ Wake \/ Answer \/ Break \/ Raise

\* The event loop runs who can run; a server that neither hangs nor dies answers.
Spec == Init /\ [][Next]_vars /\ WF_vars(Wake) /\ WF_vars(Answer)

-----------------------------------------------------------------------------
(* Properties. *)

\* Calls of all conversations are serialized: of the requests the server has not
\* answered only the last is one that a stream still waits for.  Those before it are
\* of streams cancelled meanwhile, and the server works through them first.
OneAtATime ==
    \A i \in DOMAIN inbox, s \in Streams :
        place[s] = "calling" /\ ticket[s] = inbox[i] => i = Len(inbox)

\* A stream that waits for the lock gets it, whoever is cancelled meanwhile, as
\* long as the server neither hangs nor dies.
WaitersServed ==
    \A s \in Streams : (place[s] = "waiting") ~> (place[s] # "waiting" \/ server # "up")
=============================================================================
