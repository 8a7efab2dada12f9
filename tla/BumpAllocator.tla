--------------------------- MODULE BumpAllocator ---------------------------
(***************************************************************************)
(* The bump allocator of src/exercises/02_no_std_dev/02_bump_allocator,    *)
(* called by several threads: alloc is a load of next and a loop of        *)
(* compare_exchange_weak; reset stores heap_start; dealloc does nothing.   *)
(* Arithmetic wraps, as in a build without overflow checks.                *)
(***************************************************************************)
EXTENDS Heap, FiniteSets

CONSTANTS
    Threads,     \* the threads that call alloc
    Resetters    \* those that may call reset

VARIABLES
    next,    \* the AtomicUsize
    pc,      \* "idle", or "try" inside alloc's loop
    prev,    \* prev_next (Null outside alloc)
    req,     \* the layout of the call
    live,    \* the blocks returned since the last reset, with their alignment
    handed   \* how many calls returned one since the last reset

vars == <<next, pc, prev, req, live, handed>>

NoLayout == [size |-> 0, align |-> 1]

Init ==
    /\ next = HeapStart
    /\ pc = [t \in Threads |-> "idle"]
    /\ prev = [t \in Threads |-> Null]
    /\ req = [t \in Threads |-> NoLayout]
    /\ live = {}
    /\ handed = 0

\* alloc(layout): load next.
Alloc(t, layout) ==
    /\ pc[t] = "idle"
    /\ pc' = [pc EXCEPT ![t] = "try"]
    /\ prev' = [prev EXCEPT ![t] = next]
    /\ req' = [req EXCEPT ![t] = layout]
    /\ UNCHANGED <<next, live, handed>>

Return(t) ==
    /\ pc' = [pc EXCEPT ![t] = "idle"]
    /\ prev' = [prev EXCEPT ![t] = Null]
    /\ req' = [req EXCEPT ![t] = NoLayout]

Start(t) == AlignUp(prev[t], req[t].align)

\* Out of memory: null_mut().
Fail(t) ==
    /\ pc[t] = "try"
    /\ ~Fits(Start(t), req[t].size)
    /\ Return(t)
    /\ UNCHANGED <<next, live, handed>>

\* The block the caller gets, none when the pointer it is given is null.
Handed(start, layout) ==
    IF start = Null THEN {}
    ELSE {[start |-> start, end |-> start + layout.size, align |-> layout.align]}

\* compare_exchange_weak(prev_next, alloc_end): its success returns the block.
Unchanged(t) == next = prev[t]
Overwrite(t) == TRUE  \* mutant: the exchange is a store
Compare(t) == Unchanged(t)

Bump(t) ==
    /\ pc[t] = "try"
    /\ Fits(Start(t), req[t].size)
    /\ Compare(t)
    /\ next' = Start(t) + req[t].size
    /\ live' = live \cup Handed(Start(t), req[t])
    /\ handed' = handed + Cardinality(Handed(Start(t), req[t]))
    /\ Return(t)

\* Its failure takes the actual value of next and tries again; a spurious
\* failure (the values are equal) changes nothing.
Refreshed(t) == next

Retry(t) ==
    /\ pc[t] = "try"
    /\ Fits(Start(t), req[t].size)
    /\ next # prev[t]
    /\ prev' = [prev EXCEPT ![t] = Refreshed(t)]
    /\ UNCHANGED <<next, pc, req, live, handed>>

\* reset(): whoever calls it holds no block any more and knows nobody does.
Reset(t) ==
    /\ pc[t] = "idle"
    /\ t \in Resetters
    /\ next' = HeapStart
    /\ live' = {}
    /\ handed' = 0
    /\ UNCHANGED <<pc, prev, req>>

Next ==
    \E t \in Threads :
        \/ \E layout \in Layouts : Alloc(t, layout)
        \/ Fail(t) \/ Bump(t) \/ Retry(t)
        \/ Reset(t)

Spec == Init /\ [][Next]_vars

\* Every thread inside alloc runs on, and compare_exchange_weak does not fail
\* spuriously for ever.
Fairness == \A t \in Threads : WF_vars(Fail(t) \/ Bump(t) \/ Retry(t))

FairSpec == Spec /\ Fairness

-----------------------------------------------------------------------------
TypeOK ==
    /\ next \in Nat
    /\ pc \in [Threads -> {"idle", "try"}]
    /\ prev \in [Threads -> Nat]
    /\ req \in [Threads -> Layouts \cup {NoLayout}]
    /\ live \subseteq [start : Nat, end : Nat, align : Nat]
    /\ handed \in Nat

\* NoOverlap: no two calls since the last reset returned blocks that share a
\* byte, or one block twice, however the compare_exchanges of different threads and reset interleave (a
\* next that has gone back to an old value is compared equal).
NoOverlap ==
    /\ \A b, c \in live : b = c \/ Disjoint(b, c)
    /\ Cardinality(live) = handed

\* BlocksInHeap: every block lies between heap_start and heap_end, aligned as
\* it was asked for ("Check if the aligned address plus layout.size() exceeds
\* heap_end; if it exceeds, return null_mut()", 02_bump_allocator, lines 23-24).
BlocksInHeap == \A b \in live : InHeap(b) /\ b.start % b.align = 0

\* NextCovers: next is past every live block, so that the bump pointer alone
\* separates what was handed out from what was not.
NextCovers ==
    /\ HeapStart <= next /\ next <= HeapEnd
    /\ \A b \in live : b.end <= next

\* CallReturns: every alloc returns, block or null, unless resets go on for
\* ever: between them the heap bounds how often the other threads can make a
\* compare_exchange fail.
CallReturns ==
    <>[][next' >= next]_next
        => \A t \in Threads : pc[t] = "try" ~> pc[t] = "idle"

\* The heap ends far enough below the top of the address space for AlignUp not
\* to wrap.
NoWrap == \A l \in Layouts : HeapEnd + l.align <= AddressSpace
=============================================================================
