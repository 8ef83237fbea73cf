------------------------------- MODULE MCTurn -------------------------------
(* Turn for TLC: a small instance of each component.                           *)
EXTENDS Turn

-----------------------------------------------------------------------------
(* Lookups: four points, of a group of two indexes in two regions, or of one of *)
(* three indexes and a stray point, in every order of their ids.                *)

Point(g, x, r) == [group |-> g, index |-> x, region |-> r]

PointSets == {
    {Point("g1", x, r) : x \in 1 .. 2, r \in 1 .. 2},
    {Point("g1", x, 1) : x \in 1 .. 3} \cup {Point("g2", 1, 1)},
    {Point("g1", x, 1) : x \in {0, 2}} \cup {Point("g2", x, 2) : x \in 1 .. 2}}

Binding == <<{}, {"ar"}, {"mo"}, {"federal", "mo"}>>

MCLayouts ==
    {[i \in 1 .. 4 |-> [group |-> f[i].group, index |-> f[i].index, region |-> f[i].region,
                        binding |-> Binding[i]]] :
        f \in UNION {{h \in [1 .. 4 -> S] : \A i, j \in 1 .. 4 : i # j => h[i] # h[j]} : S \in PointSets}}

-----------------------------------------------------------------------------
(* CaseQueries: ground truths of three people whose names overlap in every way,  *)
(* with relations of every shape, or with tables of every content.               *)

NoRels == [e \in 1 .. 3 |-> {}]
Plain  == <<<<"ann", "lee">>, <<"ann", "kay", "lee">>, <<"ed">>>>

People(name, aliases, rels) ==
    [e \in 1 .. 3 |-> [name |-> name[e], aliases |-> aliases[e], rels |-> rels[e],
                       role |-> IF e = 1 THEN <<"ann", "lee">> ELSE <<"lee">>,
                       type |-> IF e = 3 THEN <<>> ELSE <<"ann">>]]

Event(d, involved) == [date |-> d, category |-> <<"ann">>, event |-> <<"lee">>, notes |-> <<>>,
                       involved |-> involved]

Truth(people, events, facts) ==
    [people |-> people, events |-> events, facts |-> facts,
     flags |-> <<[type |-> <<"ann">>, severity |-> <<"lee">>, description |-> <<"ann", "lee">>, resolution |-> <<>>]>>,
     observations |-> <<[observer |-> <<"ann">>, subject |-> <<"lee">>, claim |-> <<"ann", "lee">>]>>]

OfNames ==
    {Truth(People(<<n, m, <<"ed">>>>, <<a, b, {}>>, NoRels), <<Event(2, {1}), Event(1, {2}), Event(1, {1, 3})>>, <<>>) :
        n \in {<<"ann", "lee">>, <<"lee">>}, m \in {<<"ann", "lee">>, <<"ann", "kay", "lee">>, <<"lee", "ann">>},
        a \in {{}, {<<"lee">>}}, b \in {{}, {<<"ann">>}, {<<>>, <<"ann", "lee">>}}}

Rels == SUBSET {[to |-> e, kind |-> k] : e \in {1, 2}, k \in {"parent", "child"}}

OfRelations ==
    {Truth(People(Plain, NoRels, <<a, b, {[to |-> 1, kind |-> "parent"]}>>), <<>>, <<>>) :
        a \in Rels, b \in {{}, {[to |-> 1, kind |-> "child"]}, {[to |-> 1, kind |-> "parent"], [to |-> 2, kind |-> "child"]}}}

OfEvents ==
    {Truth(People(Plain, NoRels, NoRels), <<Event(d, i), Event(e, {2}), Event(1, {1})>>, <<>>) :
        d \in 0 .. 2, e \in 0 .. 2, i \in SUBSET {1, 3}}

Fact(s, p, o) == [subject |-> s, predicate |-> p, object |-> o, category |-> <<>>]
Said == {<<>>, <<"ann">>, <<"ann", "lee">>}

OfFacts ==
    {Truth(People(Plain, NoRels, NoRels), <<>>, <<Fact(s, p, o), Fact(o, s, <<"lee">>)>>) :
        s \in Said, p \in Said, o \in Said}

MCTruths == OfNames \cup OfRelations \cup OfEvents \cup OfFacts
MCIdText == <<<<"E1">>, <<"E2">>, <<"E3">>>>
MCTexts  == {<<>>, <<"ann">>, <<"lee">>, <<"ann", "lee">>, <<"ann", "kay", "lee">>, <<"E2">>}

-----------------------------------------------------------------------------
(* Citations: a statute that two tools find, two documents of one title, a verse *)
(* in two translations, and the case overview with one participant.  A label is  *)
(* made of words; "blurb" has words of a path and of the participant's label,    *)
(* and the documents' title is part of the other path.                           *)

MCKind == [s \in Sources |-> CASE s = "statute" -> "law" [] s \in {"email", "thread"} -> "document"
                                 [] s \in {"kjv", "web"} -> "scripture" [] OTHER -> "case"]
MCId == [s \in Sources |-> CASE s = "statute" -> "acact" [] s = "email" -> "path1" [] s = "thread" -> "path2"
                               [] s \in {"kjv", "web"} -> "verse" [] s = "person" -> "e001" [] OTHER -> "record"]
MCTitle == [s \in Sources |-> CASE s = "statute" -> "ctitle" [] s \in {"email", "thread"} -> "subject"
                                  [] s = "person" -> "named" [] OTHER -> NoName]
MCEdition == [s \in Sources |-> IF s \in {"kjv", "web"} THEN s ELSE NoName]
MCFinds ==
    [t \in Tools |->
        CASE t \in {"kb_law_search", "kb_law_lookup"} -> {<<"statute">>}
          [] t = "corpus_search" -> {<<"email">>, <<"thread", "email">>}
          [] t = "kb_scripture_lookup" -> {<<"kjv", "web">>}
          [] t = "case_overview" -> {<<"overview", "person">>}
          [] t = "case_entity"   -> {<<"person">>}]
MCContained == {<<"blurb", "path1">>, <<"blurb", "named">>, <<"subject", "path2">>}
MCStanding == [s \in Sources |-> "binding"]
=============================================================================
