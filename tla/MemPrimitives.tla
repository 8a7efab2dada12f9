---------------------------- MODULE MemPrimitives ----------------------------
(***************************************************************************)
(* The byte loops of src/exercises/02_no_std_dev/01_mem_primitives, called *)
(* on every part of a small memory with every content.                     *)
(***************************************************************************)
EXTENDS Integers, Sequences, SequencesExt

CONSTANTS
    Size,    \* bytes of memory
    Bytes    \* the values a byte takes; 0 ends a string

VARIABLES
    memory,
    call      \* the call that has just returned, its arguments and its value; or none

Addresses == 0..Size-1

Init == memory \in [Addresses -> Bytes] /\ call = <<>>

-----------------------------------------------------------------------------
\* for i in 0..n, and while i > 0 { i -= 1; .. }.
Ascending(n) == [k \in 1..n |-> k - 1]
Descending(n) == [k \in 1..n |-> n - k]

\* One byte after another: a later read sees what an earlier write left.
CopyBytes(order, dst, src) ==
    LET after[k \in 0..Len(order)] ==
            IF k = 0 THEN memory
            ELSE [after[k - 1] EXCEPT ![dst + order[k]] = after[k - 1][src + order[k]]]
    IN  after[Len(order)]

Memcpy(dst, src, n) == CopyBytes(Ascending(n), dst, src)

Memset(dst, c, n) ==
    LET after[k \in 0..n] ==
            IF k = 0 THEN memory ELSE [after[k - 1] EXCEPT ![dst + Ascending(n)[k]] = c]
    IN  after[n]

MemmoveReversed(dst, src, n) ==  \* mutant: the two orders swapped
    IF dst > src /\ dst < src + n THEN Memcpy(dst, src, n)
    ELSE CopyBytes(Descending(n), dst, src)

\* Backwards when dst lies behind src and within reach of it.
Memmove(dst, src, n) ==
    IF n = 0 \/ dst = src THEN memory
    ELSE IF dst > src /\ dst < src + n THEN CopyBytes(Descending(n), dst, src)
    ELSE Memcpy(dst, src, n)

\* The first index at which a loop's condition holds.
FirstIndex(P(_)) == CHOOSE i \in 0..Size : P(i) /\ \A j \in 0..i-1 : ~P(j)

Strlen(s) == FirstIndex(LAMBDA i : memory[s + i] = 0)

\* Bytes are compared as i32, and the loop ends at the first that differ or at
\* the end of both.
Strcmp(s1, s2) ==
    LET i == FirstIndex(LAMBDA j : memory[s1 + j] # memory[s2 + j] \/ memory[s1 + j] = 0)
    IN  memory[s1 + i] - memory[s2 + i]

-----------------------------------------------------------------------------
Within(start, n) == start + n <= Size
Overlap(dst, src, n) == dst < src + n /\ src < dst + n
IsString(s) == \E a \in s..Size-1 : memory[a] = 0

\* The calls that their "Safety" sections allow.
CallMemcpy ==
    \E dst, src \in Addresses, n \in 0..Size :
        /\ Within(dst, n) /\ Within(src, n) /\ ~Overlap(dst, src, n)
        /\ memory' = Memcpy(dst, src, n)
        /\ call' = <<"copy", dst, src, n>>

CallMemmove ==
    \E dst, src \in Addresses, n \in 0..Size :
        /\ Within(dst, n) /\ Within(src, n)
        /\ memory' = Memmove(dst, src, n)
        /\ call' = <<"copy", dst, src, n>>

CallMemset ==
    \E dst \in Addresses, c \in Bytes, n \in 0..Size :
        /\ Within(dst, n)
        /\ memory' = Memset(dst, c, n)
        /\ call' = <<"set", dst, c, n>>

CallStrlen ==
    \E s \in Addresses :
        /\ IsString(s)
        /\ call' = <<"strlen", s, Strlen(s)>>
        /\ UNCHANGED memory

CallStrcmp ==
    \E s1, s2 \in Addresses :
        /\ IsString(s1) /\ IsString(s2)
        /\ call' = <<"strcmp", s1, s2, Strcmp(s1, s2)>>
        /\ UNCHANGED memory

\* The caller goes on to its next call.
Continue == call # <<>> /\ call' = <<>> /\ UNCHANGED memory

Next ==
    \/ call = <<>> /\ (CallMemcpy \/ CallMemmove \/ CallMemset \/ CallStrlen \/ CallStrcmp)
    \/ Continue

-----------------------------------------------------------------------------
\* The string at s, without its end.
String(s) ==
    LET end == CHOOSE a \in s..Size : memory[a] = 0 /\ \A b \in s..a-1 : memory[b] # 0
    IN  SubSeq([k \in 1..Size |-> memory[k - 1]], s + 1, end)

\* s comes before t in lexicographic order.
Precedes(s, t) ==
    \/ IsStrictPrefix(s, t)
    \/ \E k \in 1..Len(s) :
          k <= Len(t) /\ s[k] < t[k] /\ \A j \in 1..k-1 : s[j] = t[j]

\* MemoryCallsCorrect: memcpy and memmove leave at dst what was at src before
\* the call, whichever way the two overlap, and nothing else changes; memset
\* fills its range only; strlen and strcmp agree with the length and the order
\* of the strings in memory.
Filled(dst, n, byte(_)) ==
    memory' = [a \in Addresses |-> IF a \in dst..dst+n-1 THEN byte(a) ELSE memory[a]]

CallCorrect ==
    IF call' = <<>> THEN UNCHANGED memory ELSE
    CASE call'[1] = "copy" -> Filled(call'[2], call'[4], LAMBDA a : memory[a - call'[2] + call'[3]])
      [] call'[1] = "set" -> Filled(call'[2], call'[4], LAMBDA a : call'[3])
      [] call'[1] = "strlen" -> call'[3] = Len(String(call'[2]))
      [] call'[1] = "strcmp" ->
            LET s == String(call'[2])  t == String(call'[3]) IN
            /\ call'[4] = 0 <=> s = t
            /\ call'[4] < 0 <=> Precedes(s, t)

MemoryCallsCorrect == [][CallCorrect]_<<memory, call>>
=============================================================================
