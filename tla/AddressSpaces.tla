---------------------------- MODULE AddressSpaces ----------------------------
(* What address translation promises, without a cache: every address space *)
(* is a map from virtual to physical pages, and translate applies the      *)
(* current one's.                                                          *)

CONSTANTS Asids, Vpns, Ppns, Fault

VARIABLES
    space,     \* space[a][v]: the physical page, or Fault
    current,   \* the current address space
    answer     \* the last translation

vars == <<space, current, answer>>

Init ==
    /\ space = [a \in Asids |-> [v \in Vpns |-> Fault]]
    /\ current \in Asids
    /\ answer = Fault

\* A page once mapped keeps its mapping.
Map(a, v, p) ==
    /\ space' = IF space[a][v] = Fault THEN [space EXCEPT ![a][v] = p] ELSE space
    /\ UNCHANGED <<current, answer>>

Switch(a) == current' = a /\ UNCHANGED <<space, answer>>

Translate(v) == answer' = space[current][v] /\ UNCHANGED <<space, current>>

Next ==
    \/ \E a \in Asids, v \in Vpns, p \in Ppns : Map(a, v, p)
    \/ \E a \in Asids : Switch(a)
    \/ \E v \in Vpns : Translate(v)

Spec == Init /\ [][Next]_vars
=============================================================================
