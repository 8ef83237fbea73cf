----------------------------- MODULE MCWebChat -----------------------------
(* Small instances of WebChat for TLC. *)
EXTENDS WebChat, TLC

CONSTANTS alice, bob, c1, c2, r1, r2, s1, s2

MCConvs    == {c1, c2}
MCSubjects == {alice, bob}
MCRequests == {r1, r2}
MCSources  == {s1}
MCTwoSources == {s1, s2}
MCRoster   == {}
MCBodies   == Turn
MCMaxCalls == [i \in 1 .. MaxIterations |-> IF i = 1 THEN 1 ELSE 0]

MCSymmetry == Permutations(MCRequests) \cup Permutations(MCSubjects) \cup Permutations(MCConvs)
=============================================================================
