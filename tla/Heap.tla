-------------------------------- MODULE Heap --------------------------------
(* What the two allocators of src/exercises/02_no_std_dev share: addresses *)
(* of a machine word's width, layouts, blocks, and the bump arithmetic.    *)
EXTENDS Naturals

CONSTANTS
    AddressSpace,   \* usize is an unsigned integer modulo AddressSpace
    HeapStart, HeapEnd,
    Layouts         \* the layouts that are asked for: [size, align] records

ASSUME HeapAssumption ==
    /\ AddressSpace \in Nat /\ HeapStart \in Nat /\ HeapEnd \in Nat
    /\ 0 < HeapStart /\ HeapStart <= HeapEnd /\ HeapEnd < AddressSpace
    /\ Layouts \subseteq [size : Nat \ {0}, align : Nat \ {0}]

Null == 0

\* (addr + align - 1) & !(align - 1), in the width of the machine: align is a
\* power of two, so the mask takes the remainder away.
Unaligned(addr, align) == addr  \* mutant: no rounding
AlignUp(addr, align) ==
    LET sum == (addr + align - 1) % AddressSpace
    IN  sum - (sum % align)

\* checked_add(size) is Some(end) and end <= heap_end.
Fits(start, size) == start + size < AddressSpace /\ start + size <= HeapEnd

Block(start, size) == [start |-> start, end |-> start + size]

Disjoint(b, c) == b.end <= c.start \/ c.end <= b.start

InHeap(b) == HeapStart <= b.start /\ b.end <= HeapEnd
=============================================================================
