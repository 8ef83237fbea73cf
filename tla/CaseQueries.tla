----------------------------- MODULE CaseQueries -----------------------------
(***************************************************************************)
(* The queries of the fake-case dataset                                    *)
(* (src/case_chat/casedata/queries.py) over the tables build_dataset makes *)
(* of the ground truth (src/case_chat/casedata/dataset.py): what a user    *)
(* who asks by a name, a date or a word is told, against what the ground   *)
(* truth says.  When the file exists and is whole is CaseDataset's.        *)
(*                                                                         *)
(* A text is a sequence of words; LIKE '%v%' is v within it, word by word. *)
(* <<>> is a NULL and an argument that is left out: LIKE is false of the   *)
(* one, and `if v` of the other.  Case does not matter.                    *)
(***************************************************************************)
EXTENDS Integers, Sequences, FiniteSets, SequencesExt, Ordering

CONSTANTS
    IdText,     \* the ids of the entities, in the order of ids, as texts
    Truths,     \* ground truths
    Texts,      \* what is asked for
    Dates,      \* dates asked for; 0 is none
    Limits,
    Nothing     \* no reply

Entities == DOMAIN IdText

QueriesAssumption ==
    /\ \A i, j \in Entities : i # j => IdText[i] # IdText[j]
    /\ IdText \in Seq(Range(IdText)) /\ Dates \subseteq Nat
    /\ \A t \in Truths :
         /\ DOMAIN t.people = Entities
         /\ \A table \in {"events", "facts", "flags", "observations"} : t[table] \in Seq(Range(t[table]))
         /\ \A k \in DOMAIN t.events : t.events[k].date \in Nat
    /\ <<>> \in Texts /\ 0 \in Dates /\ Limits \subseteq Nat \ {0}

VARIABLES
    truth,      \* the JSON files: people, events, facts, flags, observations
    reply       \* of the last query: its arguments and rows

vars == <<truth, reply>>

Within(v, text) == \E k \in 0 .. Len(text) - Len(v) : SubSeq(text, k + 1, k + Len(v)) = v
Like(text, v)   == text # <<>> /\ Within(v, text)

FirstOf(s, n) == SubSeq(s, 1, IF n < Len(s) THEN n ELSE Len(s))

TypeOK ==
    /\ reply # Nothing =>
         /\ reply.tool \in {"people", "participants", "timeline", "facts", "flags", "observations"}
         /\ reply.limit \in Limits /\ Len(reply.rows) <= reply.limit
         /\ reply.rows \in Seq(IF reply.tool \in {"people", "participants"} THEN Entities
                               ELSE DOMAIN truth[IF reply.tool = "timeline" THEN "events" ELSE reply.tool])

Init == truth \in Truths /\ reply = Nothing

-----------------------------------------------------------------------------
(* The tables of names and links. *)

Person(e) == truth.people[e]

\* entity_aliases of e: those given that are not empty, and the canonical name.
Aliases(e) == {a \in Person(e).aliases : a # <<>>} \cup {Person(e).name}

Involved(t) == truth.events[t].involved

-----------------------------------------------------------------------------
(* resolve_entity_ids: three strategies, the next one if the last found none. *)

Exactly(name)  == {e \in Entities : name \in Aliases(e) \/ name = IdText[e]}
Partly(name)   == {e \in Entities : \E a \in Aliases(e) : Like(a, name)}
AllWords(name) ==
    {e \in Entities : Len(name) >= 2 /\ \A k \in DOMAIN name : Like(Person(e).name, <<name[k]>>)}

Resolve(name) ==
    IF Exactly(name) # {} THEN Exactly(name)
    ELSE IF Partly(name) # {} THEN Partly(name)
    ELSE AllWords(name)

-----------------------------------------------------------------------------
(* entity_lookup and list_participants *)

\* _resolve_rels: those e is related to, and how.
Outgoing(e) == {[who |-> r.to, kind |-> r.kind] : r \in Person(e).rels}

\* _referenced_by: LIKE finds the rows that mention e, the loop keeps what is about e.
ReferencedBy(e) ==
    UNION {{[who |-> f, kind |-> r.kind] : r \in {r \in Person(f).rels : r.to = e}} :
              f \in {f \in Entities \ {e} : \E r \in Person(f).rels : r.to = e}}

Answers(tool, args, limit, rows) ==
    /\ reply' = [tool |-> tool, args |-> args, limit |-> limit, rows |-> rows,
                 links |-> [e \in {rows[k] : k \in DOMAIN rows} |->
                              IF tool = "people" THEN [out |-> Outgoing(e), in |-> ReferencedBy(e)]
                              ELSE [out |-> {}, in |-> {}]]]
    /\ UNCHANGED truth

EntityLookup ==
    /\ reply = Nothing
    /\ \E name \in Texts \ {<<>>}, limit \in Limits :
        Answers("people", [name |-> name], limit, FirstOf(Ascending(Resolve(name)), limit))

\* An argument that is left out filters nothing.
Given(v, filter) == v # <<>> => filter

\* list_participants: role by substring, type exactly.
Participates(e, a) ==
    /\ Given(a.role, Like(Person(e).role, a.role))
    /\ Given(a.type, Person(e).type = a.type)

ListParticipants ==
    /\ reply = Nothing
    /\ \E role, type \in Texts, limit \in Limits :
        LET a == [role |-> role, type |-> type] IN
        Answers("participants", a, limit, FirstOf(Ascending({e \in Entities : Participates(e, a)}), limit))

-----------------------------------------------------------------------------
(* The filtered SELECTs. *)

\* WHERE of timeline_query; NULL dates are in no range.
Happens(t, a) ==
    LET r == truth.events[t] IN
    /\ a.from # 0 => r.date # 0 /\ r.date >= a.from
    /\ a.to # 0 => r.date # 0 /\ r.date <= a.to
    /\ Given(a.category, r.category = a.category)
    /\ Given(a.text, Like(r.event, a.text) \/ Like(r.notes, a.text))
    /\ Given(a.entity, Involved(t) \cap Resolve(a.entity) # {})

\* ORDER BY date, NULLs first, rows of one date as in the file.
ByDate(s) ==
    LET Date(t) == truth.events[t].date IN
    InOrder(ToSet(s), {p \in ToSet(s) \X ToSet(s) :
        Date(p[1]) < Date(p[2]) \/ (Date(p[1]) = Date(p[2]) /\ p[1] < p[2])})

EarliestOfFirst(s, n) == ByDate(FirstOf(s, n))   \* a mutation: LIMIT before ORDER BY

Earliest(s, n) == FirstOf(ByDate(s), n)

TimelineQuery ==
    /\ reply = Nothing
    /\ \E from, to \in Dates, category, text, entity \in Texts, limit \in Limits :
        LET a == [from |-> from, to |-> to, category |-> category, text |-> text, entity |-> entity] IN
        /\ Cardinality({f \in {"category", "text", "entity"} : a[f] # <<>>}) <= 1
        /\ Answers("timeline", a, limit,
                   Earliest(Ascending({t \in DOMAIN truth.events : Happens(t, a)}), limit))

\* WHERE of facts_query
FactHolds(r, a) ==
    /\ Given(a.subject, Like(r.subject, a.subject)) /\ Given(a.predicate, Like(r.predicate, a.predicate))
    /\ Given(a.object, Like(r.object, a.object)) /\ Given(a.category, Like(r.category, a.category))
    /\ Given(a.text, Like(r.subject, a.text) \/ Like(r.predicate, a.text) \/ Like(r.object, a.text))

FactsQuery ==
    /\ reply = Nothing
    /\ \E subject, object, text \in Texts, limit \in Limits :
        LET a == [subject |-> subject, predicate |-> <<>>, object |-> object, category |-> <<>>, text |-> text] IN
        Answers("facts", a, limit,
                FirstOf(Ascending({k \in DOMAIN truth.facts : FactHolds(truth.facts[k], a)}), limit))

\* WHERE of flags_query
Flagged(r, a) ==
    /\ Given(a.type, Like(r.type, a.type))
    /\ Given(a.severity, r.severity = a.severity)
    /\ Given(a.text, Like(r.description, a.text) \/ Like(r.resolution, a.text))

FlagsQuery ==
    /\ reply = Nothing
    /\ \E type, severity, text \in Texts, limit \in Limits :
        LET a == [type |-> type, severity |-> severity, text |-> text] IN
        Answers("flags", a, limit,
                FirstOf(Ascending({k \in DOMAIN truth.flags : Flagged(truth.flags[k], a)}), limit))

\* WHERE of observations_query
Observed(r, a) ==
    /\ Given(a.observer, Like(r.observer, a.observer))
    /\ Given(a.subject, Like(r.subject, a.subject))
    /\ Given(a.text, Like(r.claim, a.text))

ObservationsQuery ==
    /\ reply = Nothing
    /\ \E observer, subject, text \in Texts, limit \in Limits :
        LET a == [observer |-> observer, subject |-> subject, text |-> text] IN
        Answers("observations", a, limit,
                FirstOf(Ascending({k \in DOMAIN truth.observations : Observed(truth.observations[k], a)}), limit))

Return == reply # Nothing /\ reply' = Nothing /\ UNCHANGED truth

Next ==
    \/ EntityLookup \/ ListParticipants \/ TimelineQuery
    \/ FactsQuery \/ FlagsQuery \/ ObservationsQuery
    \/ Return

Spec == Init /\ [][Next]_vars

-----------------------------------------------------------------------------
(* Properties. *)

\* Who is called so in the ground truth.
Named(name) ==
    {e \in Entities : name \in Person(e).aliases \cup {Person(e).name, IdText[e]}}

RowSet == {reply.rows[k] : k \in DOMAIN reply.rows}

\* Someone asked for by name, alias or id is found, and nobody who merely has a
\* longer name: a lookup of one name is about the people of that name.
NamedIsFound ==
    reply # Nothing /\ reply.tool = "people" =>
        LET named == Named(reply.args.name) IN
        named # {} =>
            RowSet \subseteq named /\ (Cardinality(named) <= reply.limit => RowSet = named)

\* What two people are to each other is told alike from both sides: what one's
\* referenced_by says of the other is what the other's relationships say.
RelationsMirrored ==
    reply # Nothing /\ reply.tool = "people" =>
        \A e \in RowSet : \A f \in Entities \ {e} :
            \A k \in {l.kind : l \in reply.links[e].in \cup Outgoing(f)} :
                [who |-> f, kind |-> k] \in reply.links[e].in <=> [who |-> e, kind |-> k] \in Outgoing(f)

\* The timeline of a name tells, from the first on, what happened to the people of
\* that name in that time: nothing else, and no event of theirs is left out before
\* one that is told.
TimelineTellsFirst ==
    reply # Nothing /\ reply.tool = "timeline" /\ reply.args.category = <<>> /\ reply.args.text = <<>> =>
        LET a == reply.args
            Who == IF Named(a.entity) # {} THEN Named(a.entity) ELSE Resolve(a.entity)
            Theirs == {t \in DOMAIN truth.events :
                         LET r == truth.events[t] IN
                         /\ a.from = 0 \/ r.date >= a.from
                         /\ a.to = 0 \/ r.date \in 1 .. a.to
                         /\ a.entity = <<>> \/ r.involved \cap Who # {}}
        IN
        /\ RowSet \subseteq Theirs
        /\ \A t \in Theirs \ RowSet :
             /\ Len(reply.rows) = reply.limit
             /\ \A u \in RowSet : truth.events[u].date <= truth.events[t].date

\* An argument more never brings a fact that one less would not: each row returned
\* is returned for each of the arguments alone.
FiltersNarrow ==
    reply # Nothing /\ reply.tool = "facts" =>
        \A k \in RowSet :
            LET r == truth.facts[k]
                a == reply.args IN
            /\ a.subject # <<>> => Within(a.subject, r.subject)
            /\ a.object # <<>> => Within(a.object, r.object)
            /\ a.text # <<>> => \E f \in {"subject", "predicate", "object"} : Within(a.text, r[f])

\* What the queries answer of the case is what the ground truth says of it.
CaseAnswersRight ==
    TypeOK /\ NamedIsFound /\ RelationsMirrored /\ TimelineTellsFirst /\ FiltersNarrow
=============================================================================
