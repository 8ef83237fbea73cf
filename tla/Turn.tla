-------------------------------- MODULE Turn --------------------------------
(***************************************************************************)
(* The components that serve a turn, side by side, from the page (ChatUi)  *)
(* over the tool channel and the citations to the lookups and the queries  *)
(* of the case.  One at a time moves, `part` says which, while the others  *)
(* rest in an initial state.                                               *)
(***************************************************************************)
EXTENDS ToolChannel

CONSTANTS
    Parts,                                              \* the components of a run
    Points, Groups, Regions, MaxIndex, Jurisdictions,   \* Lookups
    active, federal, Layouts, PassageLimit, VerseLimit, Limit,
    IdText, Truths, Texts, Dates, Limits,               \* CaseQueries
    Sources, Kind, Id, Title, Edition, Standing, Tools, \* Citations
    Finds, overview, Names, Long, Middling, Contained, Markers,
    MaxTurns, MaxCalls, MaxMarkers, MaxRestarts,
    Questions, MaxChats, MaxClicks, MaxFaults,          \* ChatUi
    None, NoName    \* no reply or argument; no title, edition or class

VARIABLES
    part,
    payload, present, reply,                                            \* Lookups
    truth, told,                                                        \* CaseQueries
    pool, cites, calls, answered, shown, turns, seen, restarts,         \* Citations
    there, saved, made, convId, log, ask, cid, meant, given, flight,    \* ChatUi
    clicked, faults, view

L == INSTANCE Lookups
Q == INSTANCE CaseQueries WITH Nothing <- None, reply <- told
R == INSTANCE Citations WITH Class <- Standing, Within <- Contained, NoClass <- NoName,
                             answer <- answered, saved <- shown
U == INSTANCE ChatUi

ASSUME TurnAssumption ==
    L!LookupsAssumption /\ Q!QueriesAssumption /\ R!CitationsAssumption /\ U!UiAssumption

lookupVars == <<payload, present, reply>>
queryVars  == <<truth, told>>
citeVars   == <<pool, cites, calls, answered, shown, turns, seen, restarts>>
pageVars   == <<there, saved, made, convId, log, ask, cid, meant, given, flight, clicked, faults, view>>
turnVars   == <<part, lookupVars, queryVars, citeVars, pageVars, vars>>

\* The one state a component that is not chosen rests in.
Rests(p, state) == IF part = p THEN TRUE ELSE state

TurnInit ==
    /\ part \in Parts
    /\ Rests("lookups", payload = (CHOOSE f \in Layouts : TRUE) /\ present = {}) /\ L!Init
    /\ Rests("queries", truth = CHOOSE t \in Truths : TRUE) /\ Q!Init
    /\ R!Init /\ U!Init /\ Init

\* A session that is over, a page nobody clicks on, and tools nobody calls.
MayRest == part \in {"channel", "citations", "page"} /\ UNCHANGED turnVars

TurnNext ==
    \/ part = "channel" /\ Next /\ UNCHANGED <<part, lookupVars, queryVars, citeVars, pageVars>>
    \/ part = "lookups" /\ L!Next /\ UNCHANGED <<part, queryVars, citeVars, pageVars, vars>>
    \/ part = "queries" /\ Q!Next /\ UNCHANGED <<part, lookupVars, citeVars, pageVars, vars>>
    \/ part = "citations" /\ R!Next /\ UNCHANGED <<part, lookupVars, queryVars, pageVars, vars>>
    \/ part = "page" /\ U!Next /\ UNCHANGED <<part, lookupVars, queryVars, citeVars, vars>>
    \/ MayRest

\* The fairness of ToolChannel.
TurnSpec == TurnInit /\ [][TurnNext]_turnVars /\ WF_vars(Wake) /\ WF_vars(Answer)

-----------------------------------------------------------------------------
(* The properties of the components; ToolChannel's WaitersServed is its own.     *)

\* Tool calls (mcp_client.py) are serialized, whoever is cancelled.
CallsSerialized == part = "channel" => OneAtATime

\* A lookup (tools.py) returns what was asked for, in reading order, whole if it
\* fits, and the classes of a law search are of the hits it returns.
LookupsRight == part = "lookups" => L!LookupsRight

\* What the queries (queries.py) answer of the case is what the ground truth says.
CaseAnswersRight == part = "queries" => Q!CaseAnswersRight

\* The turn's list and the pool (orchestrator.py) have every source once, and an
\* answer's sources for good.
CitationsSound == part = "citations" => R!CitationsSound

\* The numbered tokens of an answer name its sources, in the order of first use.
TokensNameSources == part = "citations" => R!TokensNameSources

\* A marker keeps the source it resolves to while the session lives.
ResolutionStable == R!ResolutionStable

\* A question typed on the page (index.html) is saved where it was meant to be.
QuestionsPlaced == part = "page" => U!QuestionsPlaced

\* The page at rest shows the transcript of its conversation.
QuietLogIsTranscript == part = "page" => U!QuietLogIsTranscript
=============================================================================
