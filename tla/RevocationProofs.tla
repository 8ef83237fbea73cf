-------------------------- MODULE RevocationProofs --------------------------
(***************************************************************************)
(* Proofs about Revocation, for any subjects, commands, lifetimes of links *)
(* and clock: the state is well typed, and RevocationsHold.                *)
(*                                                                         *)
(* RevocationsHold is not inductive.  That revocations add up rests on     *)
(* what a command that runs alone has loaded: all the file held when it    *)
(* began and holds still.  That a refusal is taken back only while the     *)
(* file is being written, and returns with the write, rests on the refused *)
(* subject being in what that command will write.                          *)
(***************************************************************************)
EXTENDS Revocation, TLAPS

\* Nobody is in the file, or about to be, whom no command revoked.
NobodyForged ==
    /\ Load \subseteq SubjectsOf(Done)
    /\ \A c \in Running : loaded[c] \subseteq SubjectsOf(Done) \cup {subject[c]}

\* With something remembered from before it, a command runs alone; and one that runs
\* alone has loaded all that is in the file.
Alone ==
    /\ refused # {} \/ undisturbed # {} => Running \subseteq undisturbed
    /\ Running \subseteq undisturbed => \A c \in Running : Running = {c} /\ Load \subseteq loaded[c]

\* Undisturbed revocations are in the file, or in what the running command will
\* write into it.
UndisturbedKept ==
    /\ NoneWriting => SubjectsOf(undisturbed \cap Done) \subseteq Load
    /\ \A c \in Running : SubjectsOf(undisturbed \cap Done) \subseteq loaded[c]

\* So is every subject whose refusal is remembered, unless its link has ended.
RefusalKept ==
    \A s \in refused : now <= Ends[s] =>
        /\ NoneWriting => s \in Load
        /\ \A c \in Running : s \in loaded[c]

Inv == TypeOK /\ NobodyForged /\ Alone /\ UndisturbedKept /\ RefusalKept

-----------------------------------------------------------------------------
LEMMA InitInv == Init => Inv
<1> SUFFICES ASSUME Init PROVE Inv
    OBVIOUS
<1>1. TypeOK
    <2>1. file \in Files
        BY DEF Init, Files, List
    <2>2. now \in 0 .. MaxTime
        BY RevocationAssumption DEF Init
    <2> QED
        BY <2>1, <2>2 DEF Init, TypeOK, Places
<1>2. Running = {} /\ Load = {}
    BY DEF Init, Running, Load, List
<1>3. NobodyForged /\ Alone
    BY <1>2 DEF NobodyForged, Alone, Init
<1>4. UndisturbedKept
    BY <1>2 DEF UndisturbedKept, Init, SubjectsOf
<1>5. RefusalKept
    BY DEF RefusalKept, Init
<1> QED
    BY <1>1, <1>3, <1>4, <1>5 DEF Inv

\* A type-correct step of each action.
LEMMA NextType == TypeOK /\ [Next]_vars => TypeOK'
<1> SUFFICES ASSUME TypeOK, [Next]_vars PROVE TypeOK'
    OBVIOUS
<1> USE RevocationAssumption
<1>1. ASSUME NEW c \in Commands, RevokeReads(c) PROVE TypeOK'
    <2>1. Load \subseteq Subjects
        BY DEF TypeOK, Load, Files, List, Cut
    <2> QED
        BY <1>1, <2>1 DEF RevokeReads, TypeOK, Added, Places
<1>2. ASSUME NEW c \in Commands, Empties(c) PROVE TypeOK'
    BY <1>2 DEF Empties, TypeOK, Files, Places
<1>3. ASSUME NEW c \in Commands, Writes(c) PROVE TypeOK'
    <2>1. file' \in Files
        BY <1>3 DEF Writes, TypeOK, Files
    <2> QED
        BY <1>3, <2>1 DEF Writes, TypeOK, Places
<1>4. ASSUME NEW c \in Commands, Stops(c) PROVE TypeOK'
    BY <1>4 DEF Stops, TypeOK, Places
<1>5. CASE Verify
    BY <1>5 DEF Verify, TypeOK
<1>6. CASE Tick
    BY <1>6 DEF Tick, TypeOK
<1>7. CASE UNCHANGED vars
    BY <1>7 DEF vars, TypeOK
<1> QED
    BY <1>1, <1>2, <1>3, <1>4, <1>5, <1>6, <1>7 DEF Next



-----------------------------------------------------------------------------
\* What each action does to the sets of commands.

LEMMA ReadsSets ==
    ASSUME TypeOK, NEW c \in Commands, RevokeReads(c)
    PROVE  /\ Running' = Running \cup {c} /\ c \notin Running
           /\ Done' = Done /\ Load' = Load
           /\ NoneWriting' = NoneWriting
BY DEF TypeOK, RevokeReads, Running, Done, Load, NoneWriting

LEMMA EmptiesSets ==
    ASSUME TypeOK, NEW c \in Commands, Empties(c)
    PROVE  /\ Running' = Running /\ c \in Running
           /\ Done' = Done /\ Load' = {}
           /\ ~NoneWriting'
BY DEF TypeOK, Empties, Running, Done, Load, Cut, NoneWriting

LEMMA WritesSets ==
    ASSUME TypeOK, NEW c \in Commands, Writes(c)
    PROVE  /\ Running' = Running \ {c} /\ c \in Running
           /\ Done' = Done \cup {c}
           /\ Load' = loaded[c] \/ (Load' = {} /\ ~(Load \subseteq loaded[c]))
           /\ subject[c] \in loaded[c]
           /\ ~NoneWriting
BY DEF TypeOK, Writes, Running, Done, Load, List, Cut, NoneWriting

LEMMA StopsSets ==
    ASSUME TypeOK, NEW c \in Commands, Stops(c)
    PROVE  Running' = Running \ {c} /\ Done' = Done /\ Load' = Load
BY DEF TypeOK, Stops, Running, Done, Load

LEMMA RestSets ==
    ASSUME Verify \/ Tick \/ UNCHANGED vars
    PROVE  /\ Running' = Running /\ Done' = Done /\ Load' = Load
           /\ NoneWriting' = NoneWriting /\ subject' = subject /\ loaded' = loaded
           /\ undisturbed' = undisturbed
BY DEF Verify, Tick, vars, Running, Done, Load, NoneWriting

-----------------------------------------------------------------------------
LEMMA NextForged == TypeOK /\ NobodyForged /\ [Next]_vars => NobodyForged'
<1> SUFFICES ASSUME TypeOK, NobodyForged, [Next]_vars PROVE NobodyForged'
    OBVIOUS
<1> USE DEF NobodyForged, SubjectsOf
<1>1. ASSUME NEW c \in Commands, RevokeReads(c) PROVE NobodyForged'
    <2>1. /\ Running' = Running \cup {c} /\ Done' = Done /\ Load' = Load /\ subject' = subject
        BY <1>1, ReadsSets DEF RevokeReads
    <2>2. /\ loaded'[c] = Load \cup {subject[c]}
          /\ \A d \in Running : d # c => loaded'[d] = loaded[d]
        BY <1>1 DEF RevokeReads, TypeOK, Added, Running
    <2>3. c \notin Running
        BY <1>1, ReadsSets
    <2> QED
        BY <2>1, <2>2, <2>3
<1>2. ASSUME NEW c \in Commands, Empties(c) PROVE NobodyForged'
    BY <1>2, EmptiesSets DEF Empties
<1>3. ASSUME NEW c \in Commands, Writes(c) PROVE NobodyForged'
    <2>1. /\ Running' = Running \ {c} /\ c \in Running /\ Done' = Done \cup {c}
          /\ Load' \subseteq loaded[c] /\ subject' = subject /\ loaded' = loaded
        BY <1>3, WritesSets DEF Writes
    <2> QED
        BY <2>1
<1>4. ASSUME NEW c \in Commands, Stops(c) PROVE NobodyForged'
    BY <1>4, StopsSets DEF Stops
<1>5. CASE Verify \/ Tick \/ UNCHANGED vars
    BY <1>5, RestSets
<1> QED
    BY <1>1, <1>2, <1>3, <1>4, <1>5 DEF Next

LEMMA NextAlone == TypeOK /\ Alone /\ [Next]_vars => Alone'
<1> SUFFICES ASSUME TypeOK, Alone, [Next]_vars PROVE Alone'
    OBVIOUS
<1> USE DEF Alone
<1>1. ASSUME NEW c \in Commands, RevokeReads(c) PROVE Alone'
    <2>1. Running' = Running \cup {c} /\ Load' = Load
        BY <1>1, ReadsSets
    <2>2. Load \subseteq loaded'[c]
        BY <1>1 DEF RevokeReads, TypeOK, Added
    <2>3. CASE Running = {}
        BY <1>1, <2>1, <2>2, <2>3 DEF RevokeReads
    <2>4. CASE Running # {}
        BY <1>1, <2>1, <2>4 DEF RevokeReads
    <2> QED
        BY <2>3, <2>4
<1>2. ASSUME NEW c \in Commands, Empties(c) PROVE Alone'
    BY <1>2, EmptiesSets DEF Empties
<1>3. ASSUME NEW c \in Commands, Writes(c) PROVE Alone'
    <2>1. Running' = Running \ {c} /\ c \in Running /\ UNCHANGED <<undisturbed, refused>>
        BY <1>3, WritesSets DEF Writes
    <2>2. CASE Running \subseteq undisturbed
        BY <2>1, <2>2
    <2>3. CASE ~ (Running \subseteq undisturbed)
        BY <2>1, <2>3
    <2> QED
        BY <2>2, <2>3
<1>4. ASSUME NEW c \in Commands, Stops(c) PROVE Alone'
    BY <1>4 DEF Stops
<1>5. CASE Verify
    BY <1>5, RestSets DEF Verify
<1>6. CASE Tick \/ UNCHANGED vars
    BY <1>6, RestSets DEF Tick, vars
<1> QED
    BY <1>1, <1>2, <1>3, <1>4, <1>5, <1>6 DEF Next

LEMMA NextUndisturbed == TypeOK /\ Alone /\ UndisturbedKept /\ [Next]_vars => UndisturbedKept'
<1> SUFFICES ASSUME TypeOK, Alone, UndisturbedKept, [Next]_vars PROVE UndisturbedKept'
    OBVIOUS
<1> USE DEF UndisturbedKept, SubjectsOf
<1>1. ASSUME NEW c \in Commands, RevokeReads(c) PROVE UndisturbedKept'
    <2>1. CASE Running = {}
        <3>1. NoneWriting /\ undisturbed' = undisturbed \cup {c} /\ c \notin Done
            BY <1>1, <2>1 DEF RevokeReads, NoneWriting, Running, Done
        <3>2. SubjectsOf(undisturbed \cap Done)' = SubjectsOf(undisturbed \cap Done)
            BY <1>1, <3>1, ReadsSets DEF RevokeReads
        <3>3. SubjectsOf(undisturbed \cap Done) \subseteq Load
            BY <3>1
        <3>4. Load \subseteq loaded'[c]
            BY <1>1 DEF RevokeReads, TypeOK, Added
        <3>5. Running' = {c} /\ Load' = Load
            BY <1>1, <2>1, ReadsSets
        <3> QED
            BY <3>1, <3>2, <3>3, <3>4, <3>5
    <2>2. CASE Running # {}
        BY <1>1, <2>2 DEF RevokeReads
    <2> QED
        BY <2>1, <2>2
<1>2. ASSUME NEW c \in Commands, Empties(c) PROVE UndisturbedKept'
    BY <1>2, EmptiesSets DEF Empties
<1>3. ASSUME NEW c \in Commands, Writes(c) PROVE UndisturbedKept'
    <2>1. CASE undisturbed = {}
        BY <1>3, <2>1, WritesSets DEF Writes
    <2>2. CASE undisturbed # {}
        <3>1. Running' = {} /\ Load' = loaded[c]
            BY <1>3, <2>2, WritesSets DEF Alone
        <3>2. SubjectsOf(undisturbed \cap Done)' \subseteq SubjectsOf(undisturbed \cap Done) \cup {subject[c]}
            BY <1>3, WritesSets DEF Writes
        <3> QED
            BY <1>3, <3>1, <3>2, WritesSets
    <2> QED
        BY <2>1, <2>2
<1>4. ASSUME NEW c \in Commands, Stops(c) PROVE UndisturbedKept'
    BY <1>4 DEF Stops
<1>5. CASE Verify \/ Tick \/ UNCHANGED vars
    BY <1>5, RestSets
<1> QED
    BY <1>1, <1>2, <1>3, <1>4, <1>5 DEF Next

LEMMA NextRefusal == TypeOK /\ Alone /\ RefusalKept /\ [Next]_vars => RefusalKept'
<1> SUFFICES ASSUME TypeOK, Alone, RefusalKept, [Next]_vars PROVE RefusalKept'
    OBVIOUS
<1> USE DEF RefusalKept
<1>1. ASSUME NEW c \in Commands, RevokeReads(c) PROVE RefusalKept'
    <2>1. CASE Running = {}
        <3>1. NoneWriting
            BY <2>1 DEF NoneWriting, Running
        <3>2. Load \subseteq loaded'[c]
            BY <1>1 DEF RevokeReads, TypeOK, Added
        <3>3. Running' = {c} /\ Load' = Load /\ NoneWriting' = NoneWriting
            BY <1>1, <2>1, ReadsSets
        <3>4. now' = now /\ refused' = refused
            BY <1>1, <2>1 DEF RevokeReads
        <3> QED
            BY <3>1, <3>2, <3>3, <3>4
    <2>2. CASE Running # {}
        BY <1>1, <2>2 DEF RevokeReads
    <2> QED
        BY <2>1, <2>2
<1>2. ASSUME NEW c \in Commands, Empties(c) PROVE RefusalKept'
    BY <1>2, EmptiesSets DEF Empties
<1>3. ASSUME NEW c \in Commands, Writes(c) PROVE RefusalKept'
    <2>1. refused # {} => Running' = {} /\ Load' = loaded[c]
        BY <1>3, WritesSets DEF Alone
    <2> QED
        BY <1>3, <2>1, WritesSets DEF Writes
<1>4. ASSUME NEW c \in Commands, Stops(c) PROVE RefusalKept'
    BY <1>4 DEF Stops
<1>5. CASE Verify
    <2>1. PICK s \in Subjects :
             refused' = IF ~Accepts(s) /\ Running \subseteq undisturbed THEN refused \cup {s} ELSE refused
        BY <1>5 DEF Verify
    <2>2. now' = now
        BY <1>5 DEF Verify
    <2>3. ASSUME ~Accepts(s), Running \subseteq undisturbed, now <= Ends[s]
          PROVE  s \in Load /\ \A c \in Running : s \in loaded[c]
        BY <2>3 DEF Accepts, Alone
    <2> QED
        BY <1>5, <2>1, <2>2, <2>3, RestSets
<1>6. CASE Tick
    <2>1. refused' = refused /\ now' = now + 1
        BY <1>6 DEF Tick
    <2>2. \A s \in refused : now' <= Ends[s] => now <= Ends[s]
        BY <2>1, RevocationAssumption DEF TypeOK
    <2> QED
        BY <1>6, <2>1, <2>2, RestSets
<1>7. CASE UNCHANGED vars
    BY <1>7, RestSets DEF vars
<1> QED
    BY <1>1, <1>2, <1>3, <1>4, <1>5, <1>6, <1>7 DEF Next

LEMMA NextInv == Inv /\ [Next]_vars => Inv'
BY NextType, NextForged, NextAlone, NextUndisturbed, NextRefusal DEF Inv

LEMMA InvAlways == Spec => []Inv
<1>1. Init => Inv
    BY InitInv
<1>2. Inv /\ [Next]_vars => Inv'
    BY NextInv
<1> QED
    BY <1>1, <1>2, PTL DEF Spec

-----------------------------------------------------------------------------
\* The file, the commands, the clock and the refusals (auth.py) are always well
\* typed.
THEOREM TypeCorrect == Spec => []TypeOK
<1>1. Inv => TypeOK
    BY DEF Inv
<1> QED
    BY <1>1, InvAlways, PTL

\* Revocations add up as long as commands run one after another, and the file holds
\* nobody else.
LEMMA InvAddsUp == Inv => RevocationsAddUp
BY DEF Inv, RevocationsAddUp, NobodyForged, UndisturbedKept

LEMMA InvRefuses == Inv => RefusalsHold
BY RevocationAssumption DEF Inv, TypeOK, RefusalKept, RefusalsHold, Accepts

\* Of revocations made by commands that run one after another and to their end none is
\* lost, nobody else is revoked, and a link once refused is let in only in the moments
\* in which a command writes the file, and refused again after them.
THEOREM RevocationsAlwaysHold == Spec => []RevocationsHold
<1>1. Inv => RevocationsHold
    BY InvAddsUp, InvRefuses DEF RevocationsHold
<1> QED
    BY <1>1, InvAlways, PTL
=============================================================================
