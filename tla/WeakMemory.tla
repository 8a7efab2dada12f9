----------------------------- MODULE WeakMemory -----------------------------
(***************************************************************************)
(* Rust atomics with Relaxed, Acquire and Release accesses, as the         *)
(* exercises of src/exercises/03_os_concurrency/02_atomic_ordering use     *)
(* them.  A location keeps every message stored to it, in the order of the *)
(* stores; a thread's view says which message of each location it has seen *)
(* or must see, and a load returns that message or any later one.  A       *)
(* Release store publishes its thread's view with the message; an Acquire  *)
(* load of the message takes it over.                                      *)
(***************************************************************************)
EXTENDS Naturals, Sequences, FiniteSetsExt

CONSTANTS Threads, Locations

VARIABLES
    history,   \* history[l]: the messages stored to l
    view       \* view[t][l]: the oldest message of l that t can still load

Nothing == [l \in Locations |-> 1]

Later(i, j) == IF i < j THEN j ELSE i
Merge(v, w) == [l \in Locations |-> Later(v[l], w[l])]

MemoryInit(initial) ==
    /\ history = [l \in Locations |-> <<[val |-> initial[l], view |-> Nothing]>>]
    /\ view = [t \in Threads |-> Nothing]

Visible(t, l) == view[t][l] .. Len(history[l])
Readable(t, l) == {history[l][i].val : i \in Visible(t, l)}

\* load(Relaxed) and load(Acquire) of l by t returning val.
LoadRelaxed(t, l, val) ==
    \E i \in Visible(t, l) :
        /\ history[l][i].val = val
        /\ view' = [view EXCEPT ![t][l] = i]
        /\ UNCHANGED history

LoadAcquire(t, l, val) ==
    \E i \in Visible(t, l) :
        /\ history[l][i].val = val
        /\ view' = [view EXCEPT ![t] = Merge([@ EXCEPT ![l] = i], history[l][i].view)]
        /\ UNCHANGED history

Put(t, l, val, published) ==
    /\ history' = [history EXCEPT ![l] = Append(@, [val |-> val, view |-> published])]
    /\ view' = [view EXCEPT ![t][l] = Len(history[l]) + 1]

\* store(val, Relaxed) and store(val, Release).
StoreRelaxed(t, l, val) == Put(t, l, val, Nothing)
StoreRelease(t, l, val) == Put(t, l, val, view[t])

\* compare_exchange(expected, val, AcqRel, Acquire) that succeeds: it loads the
\* last message, whose release sequence it continues.
Exchange(t, l, expected, val) ==
    LET last == history[l][Len(history[l])]
        seen == Merge(view[t], last.view) IN
    /\ last.val = expected
    /\ history' = [history EXCEPT ![l] = Append(@, [val |-> val, view |-> seen])]
    /\ view' = [view EXCEPT ![t] = [seen EXCEPT ![l] = Len(history[l]) + 1]]

\* t happens after everything that the threads us have done: it joined them.
Synchronize(t, us) ==
    /\ view' = [view EXCEPT ![t] =
           [l \in Locations |-> Max({view[u][l] : u \in us \cup {t}})]]
    /\ UNCHANGED history
=============================================================================
