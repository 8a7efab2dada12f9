------------------------- MODULE FreeListAllocator -------------------------
(***************************************************************************)
(* The free-list allocator of                                              *)
(* src/exercises/02_no_std_dev/03_free_list_allocator.  Each access to the *)
(* list's head, and each block header, is read or written on its own, as   *)
(* in the code: the Mutex of the test build is held for one access of the  *)
(* head only, and the other build has no lock.                             *)
(***************************************************************************)
EXTENDS Heap, FiniteSets

CONSTANTS
    Threads,       \* the threads that call alloc and dealloc
    HeaderSize,    \* size_of::<FreeBlock>()
    HeaderAlign,   \* align_of::<FreeBlock>()
    MaxLive        \* bound: blocks a program holds at a time

VARIABLES
    head,      \* the free list's head
    header,    \* header[a]: the FreeBlock written at address a
    bump,      \* bump_next
    pc,        \* where each thread is
    call,      \* its locals: size, align, prev_ptr, curr, next
    live       \* the blocks that callers hold: address, layout

vars == <<head, header, bump, pc, call, live>>

Addresses == HeapStart..HeapEnd
NoHeader == [size |-> 0, next |-> Null]
NoCall == [size |-> 0, align |-> 1, prev |-> Null, curr |-> Null, next |-> Null,
           layout |-> [size |-> 0, align |-> 1]]

Greater(a, b) == IF a < b THEN b ELSE a

\* A block must have room for the header it will carry when it is freed.
LayoutSize(layout) == layout.size  \* mutant: without the .max()
BlockSize(layout) == Greater(layout.size, HeaderSize)
BlockAlign(layout) == Greater(layout.align, HeaderAlign)

Init ==
    /\ head = Null
    /\ header = [a \in Addresses |-> NoHeader]
    /\ bump = HeapStart
    /\ pc = [t \in Threads |-> "idle"]
    /\ call = [t \in Threads |-> NoCall]
    /\ live = {}

Goto(t, l) == pc' = [pc EXCEPT ![t] = l]
Done(t) == Goto(t, "idle") /\ call' = [call EXCEPT ![t] = NoCall]

Return(t, addr) ==
    /\ live' = live \cup {[addr |-> addr, layout |-> call[t].layout]}
    /\ Done(t)

-----------------------------------------------------------------------------
(* alloc *)

\* Reads the head, to begin the walk.
Alloc(t, layout) ==
    /\ pc[t] = "idle"
    /\ Cardinality(live) < MaxLive
    /\ call' = [call EXCEPT ![t] = [size |-> BlockSize(layout),
                                    align |-> BlockAlign(layout),
                                    prev |-> Null, curr |-> head, next |-> Null,
                                    layout |-> layout]]
    /\ Goto(t, "walk")
    /\ UNCHANGED <<head, header, bump, live>>

\* The first block that is aligned and large enough.
Suits(c) == c.curr % c.align = 0 /\ header[c.curr].size >= c.size

\* A block that does not suit: go on to the next.
WalkOn(t) ==
    LET c == call[t] IN
    /\ pc[t] = "walk" /\ c.curr # Null
    /\ ~Suits(c)
    /\ call' = [call EXCEPT ![t].prev = c.curr, ![t].curr = header[c.curr].next]
    /\ UNCHANGED <<head, header, bump, pc, live>>

\* The first that suits: read its next ...
Found(t) ==
    LET c == call[t] IN
    /\ pc[t] = "walk" /\ c.curr # Null
    /\ Suits(c)
    /\ call' = [call EXCEPT ![t].next = header[c.curr].next]
    /\ Goto(t, "unlink")
    /\ UNCHANGED <<head, header, bump, live>>

\* ... and take it out of the list, through the head or the previous block.
AfterFound(c) == c.next
StillLinked(c) == c.curr  \* mutant: the found block is not bypassed
Successor(c) == AfterFound(c)

Unlink(t) ==
    LET c == call[t] IN
    /\ pc[t] = "unlink"
    /\ IF c.prev = Null
       THEN head' = Successor(c) /\ UNCHANGED header
       ELSE header' = [header EXCEPT ![c.prev].next = Successor(c)] /\ UNCHANGED head
    /\ Return(t, c.curr)
    /\ UNCHANGED bump

\* The end of the list: load bump_next.
WalkEnd(t) ==
    /\ pc[t] = "walk" /\ call[t].curr = Null
    /\ call' = [call EXCEPT ![t].next = bump]
    /\ Goto(t, "bump")
    /\ UNCHANGED <<head, header, bump, live>>

Start(t) == AlignUp(call[t].next, call[t].align)

Fail(t) ==
    /\ pc[t] = "bump"
    /\ ~Fits(Start(t), call[t].size)
    /\ Done(t)
    /\ UNCHANGED <<head, header, bump, live>>

\* compare_exchange(prev_next, alloc_end), won or lost.
Bump(t) ==
    /\ pc[t] = "bump"
    /\ Fits(Start(t), call[t].size)
    /\ \/ /\ bump = call[t].next
          /\ bump' = Start(t) + call[t].size
          /\ Return(t, Start(t))
       \/ /\ bump # call[t].next
          /\ call' = [call EXCEPT ![t].next = bump]
          /\ UNCHANGED <<bump, pc, live>>
    /\ UNCHANGED <<head, header>>

-----------------------------------------------------------------------------
(* dealloc: with the layout of the alloc, as GlobalAlloc demands *)

\* Reads the head, for the new node's next.
Dealloc(t, b) ==
    /\ pc[t] = "idle"
    /\ live' = live \ {b}
    /\ call' = [call EXCEPT ![t] = [NoCall EXCEPT !.size = BlockSize(b.layout),
                                                  !.curr = b.addr, !.next = head]]
    /\ Goto(t, "write")
    /\ UNCHANGED <<head, header, bump>>

WriteHeader(t) ==
    LET c == call[t] IN
    /\ pc[t] = "write"
    /\ header' = [header EXCEPT ![c.curr] = [size |-> c.size, next |-> c.next]]
    /\ Goto(t, "push")
    /\ UNCHANGED <<head, bump, call, live>>

Push(t) ==
    /\ pc[t] = "push"
    /\ head' = call[t].curr
    /\ Done(t)
    /\ UNCHANGED <<header, bump, live>>

Next ==
    \E t \in Threads :
        \/ \E layout \in Layouts : Alloc(t, layout)
        \/ WalkOn(t) \/ Found(t) \/ Unlink(t)
        \/ WalkEnd(t) \/ Fail(t) \/ Bump(t)
        \/ \E b \in live : Dealloc(t, b)
        \/ WriteHeader(t) \/ Push(t)

Fairness ==
    \A t \in Threads :
        WF_vars(\/ WalkOn(t) \/ Found(t) \/ Unlink(t) \/ WalkEnd(t)
                \/ Fail(t) \/ Bump(t) \/ WriteHeader(t) \/ Push(t))

Spec == Init /\ [][Next]_vars /\ Fairness

-----------------------------------------------------------------------------
\* The addresses linked from a: no more links than the heap has room for headers.
Linked(a) ==
    LET most == (HeapEnd - HeapStart) \div HeaderSize
        reach[n \in 0..most] ==
            IF n = 0 THEN {a} \ {Null}
            ELSE reach[n - 1] \cup ({header[x].next : x \in reach[n - 1]} \ {Null})
    IN  reach[most]

Quiet == \A t \in Threads : pc[t] = "idle"

\* What a caller may write, and what the allocator may: its header included.
LiveBlocks == {Block(b.addr, b.layout.size) : b \in live}
FreeBlocks == {Block(a, Greater(header[a].size, HeaderSize)) : a \in Linked(head)}

\* NoOverlap: the blocks that callers hold do not share a byte: alloc removes
\* from the list the block it returns ("If found, remove it from the list and
\* return it", 03_free_list_allocator, line 24).
NoOverlap ==
    /\ \A b, c \in LiveBlocks : b = c \/ Disjoint(b, c)
    /\ Cardinality(LiveBlocks) = Cardinality(live)

\* BlocksDisjoint: between calls, held and free blocks never share a byte and
\* lie in the part of the heap already cut off: a header is never written into
\* memory somebody uses, and a block is freed at most once on the list.
BlocksDisjoint ==
    Quiet =>
        /\ LiveBlocks \cap FreeBlocks = {}
        /\ \A b, c \in LiveBlocks \cup FreeBlocks : b = c \/ Disjoint(b, c)
        /\ \A b \in LiveBlocks \cup FreeBlocks : HeapStart <= b.start /\ b.end <= bump

\* FitForUse: a block handed out is aligned for its layout and for a header,
\* and the header it will carry when freed ends before the bump pointer,
\* whatever smaller or larger layouts the same memory served before.
FitForUse ==
    \A b \in live :
        /\ b.addr % b.layout.align = 0 /\ b.addr % HeaderAlign = 0
        /\ b.addr + Greater(b.layout.size, HeaderSize) <= bump

\* CallsReturn: alloc and dealloc return.
CallsReturn == \A t \in Threads : pc[t] # "idle" ~> pc[t] = "idle"
=============================================================================
