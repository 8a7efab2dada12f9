---------------------------- MODULE ReadersWriter ----------------------------
(***************************************************************************)
(* What a readers-writer lock around an unsigned integer promises: any     *)
(* number of readers or one writer, and a writer's increment acts on the   *)
(* current value at once.                                                  *)
(***************************************************************************)
EXTENDS Naturals

CONSTANTS Threads, Modulus

VARIABLES
    reading,   \* the threads with a read guard
    writing,   \* the threads with a write guard
    value      \* the protected value

vars == <<reading, writing, value>>

Init == reading = {} /\ writing = {} /\ value = 0

BeginRead(t) ==
    /\ writing = {}
    /\ t \notin reading
    /\ reading' = reading \cup {t}
    /\ UNCHANGED <<writing, value>>

EndRead(t) ==
    /\ t \in reading
    /\ reading' = reading \ {t}
    /\ UNCHANGED <<writing, value>>

BeginWrite(t) ==
    /\ reading = {} /\ writing = {}
    /\ writing' = {t}
    /\ UNCHANGED <<reading, value>>

Increment(t) ==
    /\ t \in writing
    /\ value' = (value + 1) % Modulus
    /\ UNCHANGED <<reading, writing>>

EndWrite(t) ==
    /\ t \in writing
    /\ writing' = {}
    /\ UNCHANGED <<reading, value>>

Next ==
    \E t \in Threads :
        \/ BeginRead(t) \/ EndRead(t)
        \/ BeginWrite(t) \/ Increment(t) \/ EndWrite(t)

Spec == Init /\ [][Next]_vars
=============================================================================
