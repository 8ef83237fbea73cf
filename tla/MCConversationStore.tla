------------------------ MODULE MCConversationStore ------------------------
(* A small instance of ConversationStore for TLC. *)
EXTENDS ConversationStore, TLC

CONSTANTS alice, bob, c1, c2, b1, b2, b3

MCConvs    == {c1, c2}
MCSubjects == {alice, bob}
MCBodies   == {b1, b2, b3}
MCCreator  == (c1 :> alice) @@ (c2 :> bob)

\* Turns are interchangeable: nothing compares them but for equality.
MCSymmetry == Permutations(MCBodies)
=============================================================================
