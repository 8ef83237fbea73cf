--------------------------- MODULE MCChatSession ---------------------------
(* A small instance of ChatSession for TLC. *)
EXTENDS ChatSession

CONSTANTS r1, r2

MCRequests == {r1, r2}
MCSources  == {}
MCRoster   == {}
MCMaxCalls == <<2, 1>>

ChatDone == \A r \in Requests : pc[r] \in Ended
\* All questions asked and ended is the end of the run, not a deadlock.
MCNext == ChatNext \/ (ChatDone /\ UNCHANGED chatVars)
MCSpec == ChatInit /\ [][MCNext]_chatVars /\ Fairness
=============================================================================
