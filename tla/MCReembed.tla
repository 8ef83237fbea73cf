----------------------------- MODULE MCReembed -----------------------------
(* A small instance of Reembed for TLC: two tables that share a collection, *)
(* and an empty one with its own. *)
EXTENDS Reembed

CONSTANTS statutes, articles, cards, law, patterns, s1, s2, s3, s4, a1

MCTexts  == {s1, s2, s3, s4, a1}
MCTables == {statutes, articles, cards}
MCSpecs  == <<statutes, articles, cards>>
MCCollectionOf == [t \in MCTables |-> IF t = cards THEN patterns ELSE law]
MCRowsIn == [t \in MCTables |->
    CASE t = statutes -> <<s1, s2, s3, s4>> [] t = articles -> <<a1>> [] t = cards -> <<>>]
=============================================================================
