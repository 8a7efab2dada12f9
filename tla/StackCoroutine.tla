--------------------------- MODULE StackCoroutine ---------------------------
(***************************************************************************)
(* The contexts of src/exercises/04_context_switch/01_stack_coroutine, and *)
(* any number of switches between a main program and coroutines.           *)
(***************************************************************************)
EXTENDS Naturals, Sequences, Functions

CONSTANTS
    Coroutines,   \* those that are given a stack and an entry
    Starter,      \* the program that starts them
    RawTops       \* where the buffers of their stacks may end

VARIABLES
    cpu,       \* the callee-saved registers, and a0, a1
    context,   \* the TaskContexts: the words at offsets 0, 8, ..., 104
    running,   \* whose code the cpu executes
    left       \* the registers each had when it was last switched away from

vars == <<cpu, context, running, left>>

\* TaskContext's fields, the sd and the ld instructions, each in its order of
\* offsets.
Fields == <<"sp", "ra", "s0", "s1", "s2", "s3", "s4", "s5",
            "s6", "s7", "s8", "s9", "s10", "s11">>
Stored == Fields
LoadedSwapped == [Fields EXCEPT ![13] = "s11", ![14] = "s10"]  \* mutant
Loads == Fields

CalleeSaved == Range(Fields)
Offset(i) == 8 * (i - 1)
Offsets == {Offset(i) : i \in DOMAIN Fields}
Index(order, r) == CHOOSE i \in DOMAIN order : order[i] = r

Align16(address) == address - (address % 16)

\* alloc_stack() and init(stack_top, entry); the entry is named by its owner.
Entry(c, raw_top) ==
    [r \in CalleeSaved |->
        CASE r = "sp" -> <<Align16(Align16(raw_top))>>
          [] r = "ra" -> <<"entry", c>>
          [] OTHER -> <<0>>]

\* What a program has in its registers; it changes between two switches.
Own(c, n) == [r \in CalleeSaved |-> <<c, r, n>>]

Init ==
    \E tops \in [Coroutines -> RawTops] :
        /\ running = Starter
        /\ cpu = [regs |-> Own(Starter, 0), args |-> <<"old", "new">>]
        /\ left = [c \in Coroutines \cup {Starter} |-> IF c = Starter THEN cpu.regs ELSE Entry(c, tops[c])]
        /\ context = [c \in Coroutines \cup {Starter} |->
                         [o \in Offsets |->
                             IF c = Starter THEN <<0>> ELSE Entry(c, tops[c])[Fields[o \div 8 + 1]]]]

-----------------------------------------------------------------------------
\* switch_context(old, new): all registers stored, all loaded, a0 and a1
\* cleared, ret.
SwitchContext(old, new) ==
    /\ old = running /\ new # old
    /\ context' = [context EXCEPT ![old] = [o \in Offsets |-> cpu.regs[Stored[o \div 8 + 1]]]]
    /\ cpu' = [regs |-> [r \in CalleeSaved |-> context[new][Offset(Index(Loads, r))]],
               args |-> <<"zero", "zero">>]
    /\ left' = [left EXCEPT ![old] = cpu.regs]
    /\ running' = new

Work ==
    \E n \in {0, 1} :
        /\ cpu' = [regs |-> Own(running, n), args |-> <<"old", "new">>]
        /\ UNCHANGED <<context, running, left>>

Next ==
    \/ \E old, new \in Coroutines \cup {Starter} : SwitchContext(old, new)
    \/ Work

-----------------------------------------------------------------------------
\* ResumesWhereLeft: whoever is switched to finds in sp, ra and s0 to s11 what
\* it had when it switched away, or, the first time, its entry and the top of
\* its stack, aligned to 16; no pointer of the one before is left in a0 or a1.
ResumesWhereLeft ==
    [][running' # running =>
          /\ cpu'.regs = left[running']
          /\ cpu'.regs["ra"] = <<"entry", running'>> =>
                \E top \in RawTops, pad \in 0..15 :
                    top - pad = cpu'.regs["sp"][1] /\ (top - pad) % 16 = 0
          /\ cpu'.args = <<"zero", "zero">>]_vars
=============================================================================
