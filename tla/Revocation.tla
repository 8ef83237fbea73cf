------------------------------ MODULE Revocation ------------------------------
(***************************************************************************)
(* The list of revoked subjects (src/case_chat/web/auth.py): a JSON file   *)
(* that each `auth revoke` command reads, extends and writes again, and    *)
(* that every request of the web application reads.  The commands are      *)
(* processes of their own and take no lock; write_text empties the file    *)
(* before it writes, and a command can be stopped in between.  A file that *)
(* does not parse counts as an empty list.                                 *)
(*                                                                         *)
(* A link is known by its subject and by when it ends; that a link says    *)
(* what was issued is the signature's affair and is taken for granted.     *)
(***************************************************************************)
EXTENDS Integers, FiniteSets

CONSTANTS
    Subjects,
    Commands,       \* the revoke commands that are run
    Ends,           \* when each subject's link ends
    MaxTime         \* bound: the clock

ASSUME RevocationAssumption ==
    /\ MaxTime \in Nat /\ Ends \in [Subjects -> Nat]
    /\ Subjects # {} /\ Commands # {}

VARIABLES
    file,       \* revoked.json: its list, and whether it parses; none is an empty one
    at,         \* of each command: where it is
    subject,    \* of each command: whom it revokes
    loaded,     \* of each command: `revoked`
    now,        \* the clock
    undisturbed,    \* commands since whose start none was stopped, nor two ran at once
    refused         \* subjects that a request refused, and none of this happened since

vars == <<file, at, subject, loaded, now, undisturbed, refused>>

List(S) == [list |-> S, parses |-> TRUE]
Cut     == [list |-> {}, parses |-> FALSE]
Files   == {List(S) : S \in SUBSET Subjects} \cup {Cut}

Places == {"new", "loaded", "emptied", "done", "stopped"}

TypeOK ==
    /\ file \in Files
    /\ at \in [Commands -> Places] /\ subject \in [Commands -> Subjects]
    /\ loaded \in [Commands -> SUBSET Subjects]
    /\ now \in 0 .. MaxTime
    /\ \A c \in Commands : at[c] \in {"loaded", "emptied", "done"} => subject[c] \in loaded[c]
    /\ undisturbed \subseteq Commands /\ refused \subseteq Subjects

Init ==
    /\ file = List({})
    /\ at = [c \in Commands |-> "new"] /\ subject \in [Commands -> Subjects]
    /\ loaded = [c \in Commands |-> {}]
    /\ now = 0 /\ undisturbed = {} /\ refused = {}

Running == {c \in Commands : at[c] \in {"loaded", "emptied"}}

\* _load_revoked
Load == file.list

-----------------------------------------------------------------------------
(* revoke *)

AddedToNone(c)  == {subject[c]}          \* a mutation: the file is not read first

Added(c) == Load \cup {subject[c]}

RevokeReads(c) ==
    /\ at[c] = "new"
    /\ loaded' = [loaded EXCEPT ![c] = Added(c)]
    /\ at' = [at EXCEPT ![c] = "loaded"]
    /\ undisturbed' = IF Running = {} THEN undisturbed \cup {c} ELSE {}
    /\ refused' = IF Running = {} THEN refused ELSE {}
    /\ UNCHANGED <<file, subject, now>>

\* write_text: open("w") empties the file, write fills it.
Empties(c) ==
    /\ at[c] = "loaded"
    /\ file' = Cut /\ at' = [at EXCEPT ![c] = "emptied"]
    /\ UNCHANGED <<subject, loaded, now, undisturbed, refused>>

\* What another has written since the file was emptied is overwritten from its
\* start: what it has more stays behind as a tail.
Writes(c) ==
    /\ at[c] = "emptied"
    /\ file' \in {List(loaded[c])} \cup IF file.list \subseteq loaded[c] THEN {} ELSE {Cut}
    /\ at' = [at EXCEPT ![c] = "done"]
    /\ UNCHANGED <<subject, loaded, now, undisturbed, refused>>

\* The command is stopped, or the disk is full.
Stops(c) ==
    /\ c \in Running
    /\ at' = [at EXCEPT ![c] = "stopped"]
    /\ undisturbed' = {} /\ refused' = {}
    /\ UNCHANGED <<file, subject, loaded, now>>

-----------------------------------------------------------------------------
(* verify_token, on every request; the clock. *)

Accepts(s) == now <= Ends[s] /\ s \notin Load

\* Of the requests refused while commands overlap, or one that overlapped another
\* still runs, nothing is remembered.
Verify ==
    /\ \E s \in Subjects :
         refused' = IF ~Accepts(s) /\ Running \subseteq undisturbed THEN refused \cup {s} ELSE refused
    /\ UNCHANGED <<file, at, subject, loaded, now, undisturbed>>

Tick ==
    /\ now < MaxTime /\ now' = now + 1
    /\ UNCHANGED <<file, at, subject, loaded, undisturbed, refused>>

Next ==
    \/ \E c \in Commands : RevokeReads(c) \/ Empties(c) \/ Writes(c) \/ Stops(c)
    \/ Verify \/ Tick

Spec == Init /\ [][Next]_vars

-----------------------------------------------------------------------------
(* Properties. *)

SubjectsOf(C) == {subject[c] : c \in C}
Done          == {c \in Commands : at[c] = "done"}
NoneWriting   == \A c \in Commands : at[c] # "emptied"

\* A revocation stays in the file for as long as the commands since, its own
\* included, ran one after another and to their end, whatever was lost before it,
\* but for the moments in which one of them has emptied the file and not written it
\* yet; and the file holds nobody whom no command revoked.
RevocationsAddUp ==
    NoneWriting =>
        /\ SubjectsOf(undisturbed \cap Done) \subseteq Load
        /\ Load \subseteq SubjectsOf(Done)

\* Under the same condition a link that was refused is let in only in such a moment,
\* and refused again from the end of it on.
RefusalsHold == \A s \in refused : Accepts(s) => ~NoneWriting

\* Revocations hold, but for the moments in which a command writes the file, where
\* nobody is revoked, and after a command was stopped or overlapped another.
RevocationsHold == RevocationsAddUp /\ RefusalsHold
=============================================================================
