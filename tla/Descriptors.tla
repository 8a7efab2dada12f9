----------------------------- MODULE Descriptors -----------------------------
(* What a descriptor table promises: open maps each descriptor in use to   *)
(* its file; a new descriptor is the least one that is not in use.         *)
EXTENDS Naturals, FiniteSets

CONSTANTS
    Files,
    MaxFds   \* bound: descriptors in use at once

VARIABLES
    open,     \* the file of each descriptor in use
    result    \* the last call and what it returned

Init == open = [fd \in {} |-> {}] /\ result = <<"new">>

Alloc(file) ==
    \E fd \in 0..MaxFds-1 :
        /\ fd \notin DOMAIN open
        /\ 0..fd-1 \subseteq DOMAIN open
        /\ open' = [g \in DOMAIN open \cup {fd} |-> IF g = fd THEN {file} ELSE open[g]]
        /\ result' = <<"alloc", fd>>

Get(fd) ==
    /\ result' = <<"get", IF fd \in DOMAIN open THEN open[fd] ELSE {}>>
    /\ UNCHANGED open

Close(fd) ==
    /\ result' = <<"close", fd \in DOMAIN open>>
    /\ open' = [g \in DOMAIN open \ {fd} |-> open[g]]

Count ==
    /\ result' = <<"count", Cardinality(DOMAIN open)>>
    /\ UNCHANGED open

Next ==
    \/ \E file \in Files : Alloc(file)
    \/ \E fd \in 0..MaxFds : Get(fd) \/ Close(fd)
    \/ Count

Spec == Init /\ [][Next]_<<open, result>>
=============================================================================
