------------------------------ MODULE MC_NoStd ------------------------------
(* The components of src/exercises/02_no_std_dev, checked in one run: each *)
(* initial state chooses the one in use.  The heaps have a few bytes; for  *)
(* the free list, a header of size 4 and alignment 2 keeps the proportion  *)
(* of the real one, 16 and 8.                                              *)
EXTENDS BumpAllocator

CONSTANTS
    Single,                                  \* the thread that uses the free list,
    ListStart, ListEnd, ListLayouts,         \* the free list's heap and layouts,
    HeaderSize, HeaderAlign, MaxLive,        \* and its header
    Files, MaxFds,      \* FdTable
    MemSize, MemBytes,  \* MemPrimitives
    Words, Live, Junk   \* Syscalls

MCLayouts == {[size |-> 1, align |-> 1], [size |-> 3, align |-> 2],
              [size |-> 2, align |-> 4]}

\* Smaller than a header, larger, and more aligned than one.
MCListLayouts == {[size |-> 1, align |-> 1], [size |-> 6, align |-> 2],
                    [size |-> 4, align |-> 4]}

\* A layout's alignment and a header's are powers of two: one divides the other.
ASSUME ListAssumption ==
    /\ ListStart \in Nat \ {0} /\ ListEnd \in Nat
    /\ ListStart <= ListEnd /\ ListEnd < AddressSpace
    /\ HeaderSize \in Nat \ {0} /\ HeaderAlign \in Nat \ {0}
    /\ ListLayouts \subseteq [size : Nat \ {0}, align : Nat \ {0}]
    /\ \A layout \in ListLayouts :
          layout.align % HeaderAlign = 0 \/ HeaderAlign % layout.align = 0

\* A byte is an unsigned number.
ASSUME MemoryAssumption == MemSize \in Nat /\ MemBytes \subseteq Nat

VARIABLES
    component,
    head, header, bump, at, call, held,                       \* FreeListAllocator; at is its pc
    files, len, result,                                       \* FdTable
    memory, done,                                             \* MemPrimitives; done is its call
    arch, phase, regs, loaded, request, served, ret           \* Syscalls; phase is its pc

List == INSTANCE FreeListAllocator
    WITH HeapStart <- ListStart, HeapEnd <- ListEnd, Layouts <- ListLayouts,
         Threads <- {Single}, pc <- at, live <- held
Table == INSTANCE FdTable
Mem == INSTANCE MemPrimitives WITH Size <- MemSize, Bytes <- MemBytes, call <- done
Sys == INSTANCE Syscalls WITH pc <- phase

listVars == <<head, header, bump, at, call, held>>
tableVars == <<files, len, result>>
memVars == <<memory, done>>
sysVars == <<arch, phase, regs, loaded, request, served, ret>>

MCInit ==
    /\ component \in {"bump", "list", "fds", "mem", "sys"}
    /\ Init /\ List!Init /\ Table!Init /\ Mem!Init /\ Sys!Init
    /\ component # "mem" => memory = [a \in Mem!Addresses |-> 0]
    /\ component # "sys" => arch = "not linux"

MCNext ==
    /\ UNCHANGED component
    /\ \/ component = "bump" /\ Next /\ UNCHANGED <<listVars, tableVars, memVars, sysVars>>
       \/ component = "list" /\ List!Next /\ UNCHANGED <<vars, tableVars, memVars, sysVars>>
       \/ component = "fds" /\ Table!Next /\ UNCHANGED <<vars, listVars, memVars, sysVars>>
       \/ component = "mem" /\ Mem!Next /\ UNCHANGED <<vars, listVars, tableVars, sysVars>>
       \/ component = "sys" /\ Sys!Next /\ UNCHANGED <<vars, listVars, tableVars, memVars>>

MCSpec ==
    /\ MCInit
    /\ [][MCNext]_<<component, vars, listVars, tableVars, memVars, sysVars>>
    /\ Fairness /\ List!Fairness

-----------------------------------------------------------------------------
\* The properties of each component, stated and explained in its module.

\* FreeListAllocator: held and free blocks share no byte, and each can carry
\* a header.
BlocksDisjoint == List!BlocksDisjoint /\ List!FitForUse
\* Both allocators: alloc and dealloc return.
CallsReturn == CallReturns /\ List!CallsReturn
\* FdTable: a map whose new descriptors are the smallest.
ImplementsDescriptors == Table!ImplementsDescriptors
\* MemPrimitives: every call does what its comment says.
MemoryCallsCorrect == Mem!MemoryCallsCorrect
\* Syscalls: asm! and the ABI agree.
CallServed == Sys!CallServed
=============================================================================
