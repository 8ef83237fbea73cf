------------------------------- MODULE Lookups -------------------------------
(***************************************************************************)
(* The tools in front of Qdrant (src/case_chat/mcp_server/tools.py,        *)
(* src/case_chat/retrieval/corpus.py) and the passages of the citation     *)
(* viewer (src/case_chat/web/passages.py).  A search ranks by meaning, in  *)
(* an order the model leaves open.  A lookup scrolls: it gets the first so *)
(* many matching points in the order of their ids, which are hashes, and   *)
(* sorts what it got.                                                      *)
(*                                                                         *)
(* A point is its rank by id.  Its group is what lookups are by, citation, *)
(* card_id, or book and chapter; its index the chunk_index or the verse;   *)
(* its region the jurisdiction or the translation, and what else a search  *)
(* filters by (doc_type, wing, source_type).                               *)
(***************************************************************************)
EXTENDS Integers, Sequences, FiniteSets, SequencesExt, Ordering

CONSTANTS
    Points,         \* 1 .. n, ranks of ids
    Groups, Regions, MaxIndex,
    Jurisdictions, active, federal,
    Layouts,        \* what the points may be
    None,           \* an argument that is left out, and no reply
    PassageLimit,   \* limit=300 of get_passage
    VerseLimit,     \* limit=200 of scripture_lookup
    Limit           \* limit of the other tools

Payload == [group : Groups, index : 0 .. MaxIndex, region : Regions, binding : SUBSET Jurisdictions]

LookupsAssumption ==
    /\ Layouts \subseteq [Points -> Payload]
    /\ None \notin Groups /\ None \notin Regions
    /\ {PassageLimit, VerseLimit, Limit} \subseteq Nat /\ MaxIndex \in Nat
    /\ Points \subseteq Nat /\ IsFiniteSet(Points) /\ Regions \subseteq Nat

VARIABLES
    payload,    \* of each point
    present,    \* the points the collections hold by now
    reply       \* of the last call: what was asked, the points it returned in
                \* order, and for law_search their classes

vars == <<payload, present, reply>>

Classes == {"binding", "persuasive", "non_authority"}

Reply(tool, wanted, limit, rows) ==
    [tool |-> tool, wanted |-> wanted, limit |-> limit, rows |-> rows,
     class |-> [i \in {} |-> "binding"], counts |-> [c \in Classes |-> 0]]

TypeOK ==
    /\ payload \in Layouts
    /\ present \subseteq Points
    /\ reply # None =>
         /\ reply.tool \in {"passage", "law_lookup", "verses", "search", "law_search"}
         /\ reply.wanted \subseteq Points /\ reply.limit \in Nat
         /\ reply.rows \in Seq(Points) /\ Len(reply.rows) <= reply.limit
         /\ reply.class \in [DOMAIN reply.class -> Classes] /\ DOMAIN reply.class \subseteq Points
         /\ reply.counts \in [Classes -> Nat]

Init ==
    /\ payload \in Layouts
    /\ present \in SUBSET Points
    /\ reply = None

-----------------------------------------------------------------------------
FirstOf(s, n) == SubSeq(s, 1, IF n < Len(s) THEN n ELSE Len(s))

\* client().scroll: at most limit of the points that match, by id.
Scroll(S, limit) == FirstOf(Ascending(S), limit)

Index(i)  == payload[i].index
Region(i) == payload[i].region

\* sorted() keeps the order of what compares equal; what came by id stays by id.
Reads(i, j) == Index(i) < Index(j) \/ (Index(i) = Index(j) /\ i < j)

ByIndex(s)  == InOrder(ToSet(s), {p \in ToSet(s) \X ToSet(s) : Reads(p[1], p[2])})
ByRegion(s) ==
    InOrder(ToSet(s), {p \in ToSet(s) \X ToSet(s) :
        Region(p[1]) < Region(p[2]) \/ (Region(p[1]) = Region(p[2]) /\ Reads(p[1], p[2]))})

\* build_filter skips what is None.
Where(region) == {i \in present : region \in {None, Region(i)}}
OfGroup(g)    == {i \in present : payload[i].group = g}

\* parse_reference: a chapter, a verse, or verses first to last; 0 is none.
Parsed(first, last) == [from |-> first, to |-> IF last # 0 THEN last ELSE first]

InRange(i, ref) == ref.from = 0 \/ (ref.from <= Index(i) /\ Index(i) <= ref.to)

-----------------------------------------------------------------------------
(* The tools. *)

\* A mutation: the chunks are joined as they came.
GetPassageUnsorted(g) ==
    /\ reply = None
    /\ reply' = Reply("passage", OfGroup(g), PassageLimit, Scroll(OfGroup(g), PassageLimit))
    /\ UNCHANGED <<payload, present>>

GetPassage(g) ==
    /\ reply = None
    /\ reply' = Reply("passage", OfGroup(g), PassageLimit, ByIndex(Scroll(OfGroup(g), PassageLimit)))
    /\ UNCHANGED <<payload, present>>

LawLookup(g, region) ==
    LET wanted == OfGroup(g) \cap Where(region) IN
    /\ reply = None
    /\ reply' = Reply("law_lookup", wanted, Limit, ByIndex(Scroll(wanted, Limit)))
    /\ UNCHANGED <<payload, present>>

\* wanted is what the reference names; the code's filter is InRange.
ScriptureLookup(g, first, last, region) ==
    LET ref    == Parsed(first, last)
        wanted == {i \in OfGroup(g) \cap Where(region) :
                     \/ first = 0
                     \/ last = 0 /\ Index(i) = first
                     \/ last # 0 /\ Index(i) \in first .. last}
        found  == {i \in OfGroup(g) \cap Where(region) : InRange(i, ref)}
    IN
    /\ reply = None
    /\ reply' = Reply("verses", wanted, VerseLimit, ByRegion(Scroll(found, VerseLimit)))
    /\ UNCHANGED <<payload, present>>

\* query_points: the best limit matches, in an order of its own.
Hits(S, limit) ==
    LET n == IF Cardinality(S) < limit THEN Cardinality(S) ELSE limit IN
    {h \in [1 .. n -> S] : \A j, k \in 1 .. n : j # k => h[j] # h[k]}

Search(region) ==
    /\ reply = None
    /\ \E h \in Hits(Where(region), Limit) : reply' = Reply("search", Where(region), Limit, h)
    /\ UNCHANGED <<payload, present>>

\* partition_by_binding
Class(i) ==
    IF payload[i].binding = {} THEN "non_authority"
    ELSE IF payload[i].binding \cap {active, federal} # {} THEN "binding" ELSE "persuasive"

Part(h, c) == Selected(h, {k \in DOMAIN h : Class(h[k]) = c})

Labelled(h) == h

LawSearch(region) ==
    /\ reply = None
    /\ \E h \in Hits(Where(region), Limit) :
         reply' = [Reply("law_search", Where(region), Limit, Labelled(h)) EXCEPT
                     !.class = [i \in ToSet(h) |-> Class(i)],
                     !.counts = [c \in Classes |-> Len(Part(h, c))]]
    /\ UNCHANGED <<payload, present>>

-----------------------------------------------------------------------------
\* The reply is used; the jobs meanwhile fill or drop collections.
Return ==
    /\ reply # None
    /\ reply' = None
    /\ UNCHANGED <<payload, present>>

Reindex ==
    /\ reply = None
    /\ \E S \in SUBSET Points : S # present /\ present' = S
    /\ UNCHANGED <<payload, reply>>

Next ==
    \/ \E g \in Groups : GetPassage(g)
    \/ \E g \in Groups, r \in Regions \cup {None} :
         \/ LawLookup(g, r)
         \/ \E first, last \in 0 .. MaxIndex : (last # 0 => first # 0) /\ ScriptureLookup(g, first, last, r)
    \/ \E r \in Regions \cup {None} : Search(r) \/ LawSearch(r)
    \/ Return \/ Reindex

Spec == Init /\ [][Next]_vars

-----------------------------------------------------------------------------
(* Properties. *)

Lookup == reply # None /\ reply.tool \in {"passage", "law_lookup", "verses"}

\* A lookup returns what was asked for, whole if it fits and nothing else in any
\* case, each point once, though the scroll cuts by id and knows no order.
LookupsExact ==
    Lookup =>
        /\ ToSet(reply.rows) \subseteq reply.wanted
        /\ Len(reply.rows) = Cardinality(ToSet(reply.rows))
        /\ Cardinality(reply.wanted) <= reply.limit => ToSet(reply.rows) = reply.wanted

\* The text of a passage, and the verses of each translation, come in reading
\* order, also when the limit cut some out.
LookupsOrdered ==
    Lookup =>
        \A j, k \in DOMAIN reply.rows :
            LET a == reply.rows[j]
                b == reply.rows[k] IN
            j < k /\ (reply.tool = "verses" => Region(a) = Region(b)) => Index(a) <= Index(b)

\* The classes and their counts are of the very hits returned, all of them: no hit
\* is lost between the three lists, none counted that is not shown.
HitsAllClassed ==
    reply # None /\ reply.tool = "law_search" =>
        /\ ToSet(reply.rows) = DOMAIN reply.class
        /\ \A c \in Classes :
             reply.counts[c] = Cardinality({j \in DOMAIN reply.rows : reply.class[reply.rows[j]] = c})

\* Every reply of the tools is right in what it has and in its order.
LookupsRight == TypeOK /\ LookupsExact /\ LookupsOrdered /\ HitsAllClassed
=============================================================================
