------------------------------ MODULE FileSync ------------------------------
(***************************************************************************)
(* What a session promises to the user of the destination tree, with the   *)
(* wire left out: the files selected for transfer are replaced one at a    *)
(* time in file-list order, each as a whole and by a content its own       *)
(* source file had (or by nothing, when that file could not be read);      *)
(* success is reported only when all of them have been replaced; an error  *)
(* may end the session at any point, at worst just after a file has been   *)
(* replaced, and leaves the rest untouched.                                *)
(***************************************************************************)
EXTENDS Integers

CONSTANTS
    NFiles,     \* number of regular files in the list
    Versions,   \* versions a source file goes through
    Nothing     \* the content that stands for an unreadable source file

VARIABLES
    dst,        \* contents of the destination files
    left,       \* selected files not yet replaced
    outcome     \* "running", "ok" or "error"

vars == <<dst, left, outcome>>

Init ==
    /\ dst \in [1..NFiles -> {<<0, -1>>}]
    /\ left \in SUBSET (1..NFiles)
    /\ outcome = "running"

\* f is the next file in order and gets a content of its own.
Overwrite(f) ==
    /\ f \in left
    /\ \A g \in left : f <= g
    /\ \E c \in {<<f, v>> : v \in Versions} \cup {Nothing} :
         dst' = [dst EXCEPT ![f] = c]

Replace(f) ==
    /\ outcome = "running"
    /\ Overwrite(f)
    /\ left' = left \ {f}
    /\ UNCHANGED outcome

Succeed ==
    /\ outcome = "running" /\ left = {}
    /\ outcome' = "ok"
    /\ UNCHANGED <<dst, left>>

Abort ==
    /\ outcome = "running"
    /\ outcome' = "error"
    /\ UNCHANGED dst \/ \E f \in 1..NFiles : Overwrite(f)
    /\ UNCHANGED left

Next == (\E f \in 1..NFiles : Replace(f)) \/ Succeed \/ Abort

Spec == Init /\ [][Next]_vars
=============================================================================
