------------------------------ MODULE Citations ------------------------------
(***************************************************************************)
(* The citations of one conversation (src/case_chat/chat/orchestrator.py): *)
(* what _citations_from keeps of a tool's hits, the turn's list and the    *)
(* conversation's pool with their keys, and how _CiteResolver turns the    *)
(* markers of an answer into numbered tokens and Sources.  ChatSession     *)
(* has the loop around it, with the pool as a set; here its order, labels  *)
(* and duplicates count, and one stream runs at a time.                    *)
(*                                                                         *)
(* A name is a normalized label (_norm_ref); which names contain which,    *)
(* and which are long enough to be matched in part, are constants.         *)
(***************************************************************************)
EXTENDS Integers, Sequences, SequencesExt, Ordering

CONSTANTS
    Sources,    \* what tools retrieve: passages, documents, case records
    Kind,       \* source -> kind
    Id,         \* source -> its citation, path, card or row id
    Title,      \* source -> its title or label, or NoName
    Edition,    \* source -> the translation of a verse, or NoName
    Class,      \* law source -> binding, persuasive or non-authority
    Tools,      \* the tools
    Finds,      \* tool -> the sequences of sources it may return
    overview,   \* the case_overview record
    Names, Long, Middling, Within,  \* names; those of 10 and of 6 characters;
                                    \* pairs of which the first is in the second
    Markers,    \* bound: the names the model writes in brackets
    NoName, NoClass,
    MaxTurns, MaxCalls, MaxMarkers, MaxRestarts   \* bounds

CitationsAssumption ==
    /\ Id \in [Sources -> Names] /\ Title \in [Sources -> Names \cup {NoName}]
    /\ NoName \notin Names /\ overview \in Sources
    /\ Long \subseteq Middling /\ Middling \subseteq Names /\ Within \subseteq Names \X Names
    /\ Markers \subseteq Names /\ \A tool \in Tools : Finds[tool] \subseteq Seq(Sources)
    \* What one key names is one source.
    /\ \A s, t \in Sources : Kind[s] = Kind[t] /\ Id[s] = Id[t] /\ Edition[s] = Edition[t] => s = t
    /\ {MaxTurns, MaxCalls, MaxMarkers, MaxRestarts} \subseteq Nat

VARIABLES
    pool,      \* _cite_pool
    cites,     \* the turn's citations
    calls,     \* tool calls of the turn so far; -1 between turns
    answer,    \* the last answer, until the next turn: its markers, the token of
               \* each (0: none), its sources
    saved,     \* the sources saved with the answers, in order, repeats left out
    turns,
    seen,      \* history: sources the tools have shown in this session
    restarts

vars == <<pool, cites, calls, answer, saved, turns, seen, restarts>>

Citations == [source : Sources, title : Names \cup {NoName}, class : {Class[s] : s \in Sources} \cup {NoClass},
              fallback : BOOLEAN]

TypeOK ==
    /\ {pool, cites, saved, answer.sources} \subseteq Seq(Citations)
    /\ calls \in -1 .. MaxCalls
    /\ answer.markers \in Seq(Names)
    /\ answer.tokens \in [DOMAIN answer.markers -> 0 .. Len(answer.sources)]
    /\ seen \subseteq Sources
    /\ turns \in 0 .. MaxTurns /\ restarts \in 0 .. MaxRestarts

NoAnswer == [markers |-> <<>>, tokens |-> <<>>, sources |-> <<>>]

Init ==
    /\ pool = <<>> /\ cites = <<>> /\ calls = -1
    /\ answer = NoAnswer /\ saved = <<>> /\ turns = 0
    /\ seen = {} /\ restarts = 0

-----------------------------------------------------------------------------
\* _citations_from: law hits lose their title, and those of kb_law_lookup have no
\* binding class; the roster of case_overview is kept out of the fallback.
Citation(tool, s) ==
    [source   |-> s,
     title    |-> IF Kind[s] = "law" THEN NoName ELSE Title[s],
     class    |-> IF tool = "kb_law_search" THEN Class[s] ELSE NoClass,
     fallback |-> tool # "case_overview" \/ s = overview]

KeyByTitle(c) == <<Kind[c.source], c.title>>       \* a mutation
\* _citation_key, _cite_labels
Key(c) == <<Kind[c.source], Id[c.source], Edition[c.source]>>
Labels(c) == {Id[c.source], c.title} \ {NoName}

\* Both lists keep the first citation of each key: those of cs that are added to list.
New(list, cs) ==
    {k \in DOMAIN cs : \A c \in ToSet(list) \cup {cs[j] : j \in 1 .. k - 1} : Key(c) # Key(cs[k])}

AddLatest(list, cs) ==                             \* a mutation: the last of a key is kept
    LET all == list \o cs IN
    Selected(all, {k \in DOMAIN all : \A j \in k + 1 .. Len(all) : Key(all[j]) # Key(all[k])})

AddAll(list, cs) == list \o Selected(cs, New(list, cs))

\* _CiteResolver.find: the first entry with that label, or else the first that
\* has a label the marker is part of, or that is part of the marker; 0 if none.
Exact(list, m) == {k \in DOMAIN list : m \in Labels(list[k])}
Alike(m, l)    == m \in Long /\ l \in Middling /\ (<<m, l>> \in Within \/ <<l, m>> \in Within)
Fuzzy(list, m) == {k \in DOMAIN list : \E l \in Labels(list[k]) : Alike(m, l)}
Least(S)       == IF S = {} THEN 0 ELSE CHOOSE k \in S : \A j \in S : k <= j

Find(list, m) ==
    IF Exact(list, m) # {} THEN Least(Exact(list, m)) ELSE Least(Fuzzy(list, m))
\* Pool entries in the order of their first use in the answer.
Ordered(ms) ==
    LET found == [k \in DOMAIN ms |-> Find(pool, ms[k])] IN
    Selected(found, {k \in DOMAIN ms : found[k] \notin {0} \cup {found[j] : j \in 1 .. k - 1}})

TokenOfPool(m, o) == Find(pool, m)        \* a mutation

\* _annotate_citations: each marker that resolves becomes a token.
Token(m, o) == IF Find(pool, m) = 0 THEN 0 ELSE CHOOSE n \in DOMAIN o : o[n] = Find(pool, m)

Begin ==
    /\ calls = -1 /\ turns < MaxTurns
    /\ turns' = turns + 1
    /\ calls' = 0 /\ cites' = <<>> /\ answer' = NoAnswer
    /\ UNCHANGED <<pool, saved, seen, restarts>>

\* A tool returns: its citations join the turn's, and those the pool.
ToolReturns(tool, hits) ==
    /\ calls \in 0 .. MaxCalls - 1
    /\ calls' = calls + 1
    /\ cites' = AddAll(cites, [k \in DOMAIN hits |-> Citation(tool, hits[k])])
    /\ pool' = AddAll(pool, cites')
    /\ seen' = seen \cup ToSet(hits)
    /\ UNCHANGED <<answer, saved, turns, restarts>>

\* _annotate: without a marker that resolves, the turn's own citations.
Answer(ms) ==
    /\ calls # -1
    /\ LET o == Ordered(ms) IN
       answer' = [markers |-> ms, tokens |-> [k \in DOMAIN ms |-> Token(ms[k], o)],
                  sources |-> IF o # <<>> THEN [n \in DOMAIN o |-> pool[o[n]]]
                              ELSE Selected(cites, {k \in DOMAIN cites : cites[k].fallback})]
    /\ saved' = AddAll(saved, answer'.sources)
    /\ calls' = -1 /\ cites' = <<>>
    /\ UNCHANGED <<pool, turns, seen, restarts>>

\* The turn raises, or its client goes: no sources are saved with it.
Fail ==
    /\ calls # -1
    /\ calls' = -1 /\ cites' = <<>>
    /\ UNCHANGED <<pool, answer, saved, turns, seen, restarts>>

\* The process restarts and the pool is seeded from the saved turns.
Seeded == AddAll(<<>>, saved)

Restart ==
    /\ restarts < MaxRestarts
    /\ restarts' = restarts + 1
    /\ pool' = Seeded
    /\ calls' = -1 /\ cites' = <<>>
    /\ seen' = {}
    /\ UNCHANGED <<answer, saved, turns>>

Next ==
    \/ Begin
    \/ \E tool \in Tools : \E hits \in Finds[tool] : ToolReturns(tool, hits)
    \/ \E n \in 0 .. MaxMarkers : \E ms \in [1 .. n -> Markers] : Answer(ms)
    \/ Fail \/ Restart

Spec == Init /\ [][Next]_vars

-----------------------------------------------------------------------------
(* Properties. *)

\* However often a source is retrieved, by whatever tool and turn, it has one
\* entry in the turn's list and one in the pool, and the pool has them all.
OneEntryPerSource ==
    /\ \A list \in {pool, cites} : \A j, k \in DOMAIN list :
          list[j].source = list[k].source => j = k
    /\ {c.source : c \in ToSet(cites)} \cup seen \subseteq {c.source : c \in ToSet(pool)}

\* The tokens of an answer number its sources from the first on in the order of
\* their first use; each names a source that its marker matches; a source without
\* a token is there only when no marker resolved, and then is not of the roster.
TokensNameSources ==
    LET tokens == ToSet(answer.tokens) \ {0} IN
    /\ tokens # {} => tokens = DOMAIN answer.sources
    /\ tokens = {} => \A c \in ToSet(answer.sources) : c.fallback
    /\ \A j \in DOMAIN answer.tokens : answer.tokens[j] # 0 =>
          /\ answer.tokens[j] > 1 => \E i \in 1 .. (j - 1) : answer.tokens[i] = answer.tokens[j] - 1
          /\ \E l \in Labels(answer.sources[answer.tokens[j]]) :
                l = answer.markers[j] \/ Alike(answer.markers[j], l)

\* While a session lives, a marker keeps the source it resolves to, unless a
\* later source has exactly its name.
ResolutionStable ==
    [][restarts' = restarts =>
         \A m \in Markers : Find(pool, m) # 0 =>
             LET old == pool[Find(pool, m)]  new == pool'[Find(pool', m)] IN
             new = old \/ (m \notin Labels(old) /\ m \in Labels(new))]_vars

\* What an answer showed as its source can be cited by name ever after, through
\* restarts.
CitedStaysCitable ==
    \A c \in ToSet(saved) : \A l \in Labels(c) :
        Find(pool, l) # 0 /\ l \in Labels(pool[Find(pool, l)])

\* The lists and the pool have every source once, and an answer's for good.
CitationsSound == TypeOK /\ OneEntryPerSource /\ CitedStaysCitable
=============================================================================
