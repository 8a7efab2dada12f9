---------------------------- MODULE NoStdProofs ----------------------------
(* Theorems about components of src/exercises/02_no_std_dev: BumpAllocator  *)
(* for any threads, layouts and heap that NoWrap keeps away from the top of *)
(* memory; FreeListAllocator likewise, for one thread and any header size;  *)
(* FdTable for any files and bound; Syscalls for any words; MemPrimitives   *)
(* for any size of memory and any bytes.                                    *)
EXTENDS MC_NoStd, Sequences, LeastElement, FiniteSetTheorems, TLAPS

-----------------------------------------------------------------------------
(* BumpAllocator. *)

\* Taking the remainder away leaves a multiple.
LEMMA MultipleLeft ==
    ASSUME NEW m \in Nat, NEW k \in Nat \ {0}
    PROVE  (m - (m % k)) % k = 0
  <1>1. m = k * (m \div k) + (m % k) /\ m \div k \in Nat
    OBVIOUS
  <1>2. \A q \in Nat : (k * q) % k = 0
    BY Z3
  <1>3. m - (m % k) = k * (m \div k)
    BY <1>1
  <1>. QED  BY <1>1, <1>2, <1>3

\* Away from the top of memory AlignUp rounds up, to a multiple.
LEMMA AlignUpRounds ==
    ASSUME NEW a \in Nat, NEW k \in Nat \ {0}, a + k <= AddressSpace
    PROVE  /\ AlignUp(a, k) \in Nat
           /\ a <= AlignUp(a, k)
           /\ AlignUp(a, k) % k = 0
  <1>1. (a + k - 1) % AddressSpace = a + k - 1
    BY HeapAssumption DEF HeapAssumption
  <1>2. (a + k - 1) % k \in 0..(k - 1)
    OBVIOUS
  <1>3. a + k - 1 \in Nat
    OBVIOUS
  <1>4. AlignUp(a, k) = (a + k - 1) - ((a + k - 1) % k)
    BY <1>1 DEF AlignUp
  <1>5. AlignUp(a, k) % k = 0
    BY <1>3, <1>4, MultipleLeft
  <1>. QED  BY <1>2, <1>4, <1>5

\* A thread in alloc has a layout of Layouts and a prev_next within the heap;
\* next itself is within the heap and past every live block.
Inv ==
    /\ TypeOK
    /\ NextCovers
    /\ NoOverlap
    /\ IsFiniteSet(live)
    /\ BlocksInHeap
    /\ \A b \in live : b.start <= b.end
    /\ \A t \in Threads :
          pc[t] = "try" => /\ req[t] \in Layouts
                           /\ HeapStart <= prev[t] /\ prev[t] <= HeapEnd

LEMMA InvInit == Init => Inv
  BY HeapAssumption, FS_EmptySet DEF HeapAssumption, Init, Inv, TypeOK, NextCovers, NoOverlap, BlocksInHeap, Null

LEMMA InvStep == NoWrap /\ Inv /\ [Next]_vars => Inv'
  <1>. SUFFICES ASSUME NoWrap, Inv, [Next]_vars PROVE Inv'
    OBVIOUS
  <1>. USE DEF Inv, TypeOK, NextCovers, NoOverlap, BlocksInHeap, InHeap
  <1>0. HeapStart \in Nat \ {0} /\ HeapEnd \in Nat /\ HeapStart <= HeapEnd
    BY HeapAssumption DEF HeapAssumption
  <1>1. ASSUME NEW t \in Threads, NEW layout \in Layouts, Alloc(t, layout)
        PROVE  Inv'
    BY <1>0, <1>1 DEF Alloc
  <1>2. ASSUME NEW t \in Threads, Return(t)
        PROVE  /\ pc' \in [Threads -> {"idle", "try"}]
               /\ prev' \in [Threads -> Nat]
               /\ req' \in [Threads -> Layouts \cup {NoLayout}]
               /\ \A u \in Threads :
                     pc'[u] = "try" => /\ pc[u] = "try"
                                       /\ req'[u] = req[u]
                                       /\ prev'[u] = prev[u]
    BY <1>2 DEF Return, Null
  <1>3. ASSUME NEW t \in Threads, Fail(t) PROVE Inv'
    BY <1>2, <1>3 DEF Fail
  <1>4. ASSUME NEW t \in Threads, Bump(t) PROVE Inv'
    <2>. DEFINE s == Start(t)
                n == req[t].size
                b == [start |-> s, end |-> s + n, align |-> req[t].align]
    <2>1. /\ pc[t] = "try" /\ req[t] \in Layouts
          /\ next = prev[t]
          /\ s + n <= HeapEnd
          /\ next' = s + n
          /\ live' = live \cup Handed(s, req[t])
          /\ handed' = handed + Cardinality(Handed(s, req[t]))
          /\ Return(t)
      BY <1>4 DEF Bump, Fits, Compare, Unchanged
    <2>2. n \in Nat \ {0} /\ req[t].align \in Nat \ {0}
      BY <2>1, HeapAssumption DEF HeapAssumption
    <2>3. s \in Nat /\ next <= s /\ s % req[t].align = 0
      BY <2>1, <2>2, <1>0, AlignUpRounds, HeapAssumption DEF NoWrap, Start, HeapAssumption
    <2>4. Handed(s, req[t]) = {b}
      BY <1>0, <2>1, <2>3 DEF Handed, Null
    <2>5. b \in [start : Nat, end : Nat, align : Nat]
      BY <2>2, <2>3
    <2>6. next' \in Nat /\ HeapStart <= next' /\ next' <= HeapEnd /\ next <= next'
      BY <1>0, <2>1, <2>2, <2>3
    <2>7. \A c \in live : c.end <= b.start
      BY <2>3
    <2>8. IsFiniteSet(live') /\ Cardinality(live') = handed' /\ handed' \in Nat
      <3>1. b \notin live
        BY <2>2, <2>3, <2>7
      <3>2. handed' = handed + 1
        BY <2>1, <2>4, FS_Singleton
      <3>. QED  BY <2>1, <2>4, <3>1, <3>2, FS_AddElement
    <2>9. NoOverlap'
      BY <2>1, <2>4, <2>7, <2>8 DEF Disjoint
    <2>10. \A c \in live' : c.end <= next' /\ HeapStart <= c.start /\ c.start <= c.end
      BY <1>0, <2>1, <2>2, <2>3, <2>4, <2>6
    <2>11. live' \subseteq [start : Nat, end : Nat, align : Nat]
      BY <2>1, <2>4, <2>5
    <2>12. BlocksInHeap'
      BY <2>1, <2>3, <2>4, <2>6, <2>10
    <2>. QED  BY <1>2, <2>1, <2>6, <2>8, <2>9, <2>10, <2>11, <2>12
  <1>5. ASSUME NEW t \in Threads, Retry(t) PROVE Inv'
    BY <1>0, <1>5 DEF Retry, Refreshed
  <1>6. ASSUME NEW t \in Threads, Reset(t) PROVE Inv'
    BY <1>0, <1>6, FS_EmptySet DEF Reset
  <1>7. CASE UNCHANGED vars
    BY <1>7 DEF vars
  <1>. QED  BY <1>1, <1>3, <1>4, <1>5, <1>6, <1>7 DEF Next

\* However the compare_exchanges of any number of threads and reset
\* interleave, no two calls since the last reset returned blocks that share a
\* byte, or the same block.
THEOREM BumpBlocksDisjoint ==
    ASSUME NoWrap
    PROVE  Spec => []NoOverlap
  <1>1. Inv => NoOverlap
    BY DEF Inv
  <1>2. Inv /\ [Next]_vars => Inv'
    BY InvStep
  <1>. QED  BY <1>1, <1>2, InvInit, PTL DEF Spec

\* next stays in the heap and past every block handed out since the last
\* reset: away from the top of memory alloc never leaves its region.
THEOREM PointerCovers ==
    ASSUME NoWrap
    PROVE  Spec => []NextCovers
  <1>1. Inv => NextCovers
    BY DEF Inv
  <1>2. Inv /\ [Next]_vars => Inv'
    BY InvStep
  <1>. QED  BY <1>1, <1>2, InvInit, PTL DEF Spec

\* Every block lies in the heap and is aligned as its layout asks, for every
\* heap away from the top of memory.
THEOREM BlocksFit ==
    ASSUME NoWrap
    PROVE  Spec => []BlocksInHeap
  <1>1. Inv => BlocksInHeap
    BY DEF Inv
  <1>2. Inv /\ [Next]_vars => Inv'
    BY InvStep
  <1>. QED  BY <1>1, <1>2, InvInit, PTL DEF Spec

-----------------------------------------------------------------------------
(* FreeListAllocator, called by one thread.  The list is a set of addresses  *)
(* of which each is the next of at most one and the head of none: no step    *)
(* needs more of it than that, and what Linked follows is in the set.        *)

\* What alloc takes for a layout, a header's room included, and dealloc frees.
Room(layout) == List!BlockSize(layout)
\* m bytes at x and n at y.
Apart(x, m, y, n) == x + m <= y \/ y + n <= x

CallRecord == [size : Nat, align : Nat, prev : Nat, curr : Nat, next : Nat,
               layout : [size : Nat, align : Nat]]

Header == [size : Nat, next : Nat]

ListTypes ==
    /\ head \in Nat
    /\ header \in [List!Addresses -> Header]
    /\ bump \in ListStart..ListEnd
    /\ at \in [{Single} -> {"idle", "walk", "unlink", "bump", "write", "push"}]
    /\ call \in [{Single} -> CallRecord]
    /\ held \subseteq [addr : List!Addresses, layout : ListLayouts]

\* The blocks that are held, each with room for the header it will carry.
HeldInv ==
    /\ \A b \in held :
          /\ b.addr % b.layout.align = 0 /\ b.addr % HeaderAlign = 0
          /\ b.addr + Room(b.layout) <= bump
    /\ \A b, c \in held : b = c \/ Apart(b.addr, Room(b.layout), c.addr, Room(c.layout))

\* A block of n bytes at a is aligned for a header, has room for it and is not held.
MayBeFree(a, n) ==
    /\ a \in List!Addresses /\ a % HeaderAlign = 0
    /\ HeaderSize <= n /\ a + n <= bump
    /\ \A b \in held : Apart(a, n, b.addr, Room(b.layout))

\* F holds the blocks of the list.
FreeInv(F) ==
    /\ head \in F \cup {0}
    /\ \A a \in F : MayBeFree(a, header[a].size) /\ header[a].next \in F \cup {0}
    /\ \A a, b \in F : a = b \/ Apart(a, header[a].size, b, header[b].size)

\* Each is entered at most once, the head by none, and each leads to a lower rank.
LinksInv(F, rank) ==
    /\ \A a, b \in F : header[a].next = header[b].next => a = b \/ header[a].next = 0
    /\ \A a \in F : header[a].next # 0 =>
          header[a].next # head /\ rank[header[a].next] < rank[a]

\* The locals of the call under way: alloc's walk is at the head or after a
\* block of the list; dealloc's block is neither held nor in the list.
CallInv(F) ==
    LET c == call[Single] IN
    /\ at[Single] \in {"walk", "unlink", "bump"} =>
          /\ c.layout \in ListLayouts
          /\ c.size = Room(c.layout) /\ c.align = List!BlockAlign(c.layout)
    /\ at[Single] \in {"walk", "unlink"} =>
          \/ c.prev = 0 /\ c.curr = head
          \/ c.prev \in F /\ c.curr = header[c.prev].next
    /\ at[Single] = "unlink" =>
          /\ c.curr \in F /\ List!Suits(c) /\ c.next = header[c.curr].next
    /\ at[Single] = "bump" => c.next = bump
    /\ at[Single] \in {"write", "push"} =>
          /\ MayBeFree(c.curr, c.size) /\ c.next = head
          /\ \A a \in F : Apart(c.curr, c.size, a, header[a].size)
    /\ at[Single] = "push" => header[c.curr] = [size |-> c.size, next |-> c.next]

ListInv ==
    /\ ListTypes /\ HeldInv
    /\ \E F \in SUBSET List!Addresses, rank \in [List!Addresses -> Nat] :
          FreeInv(F) /\ LinksInv(F, rank) /\ CallInv(F)


\* The free list's heap ends far enough below the top of the address space for
\* AlignUp not to wrap.
ListNoWrap ==
    \A l \in ListLayouts : ListEnd + l.align + HeaderAlign <= AddressSpace

\* A multiple of a multiple is a multiple.
LEMMA MultipleOfMultiple ==
    ASSUME NEW x \in Nat, NEW a \in Nat \ {0}, NEW l \in Nat \ {0}, x % a = 0, a % l = 0
    PROVE  x % l = 0
<1>1. PICK k \in Nat : k = x \div a  OBVIOUS
<1>2. PICK m \in Nat : m = a \div l  OBVIOUS
<1>3. x = a * k /\ a = l * m  BY <1>1, <1>2
<1>4. x = l * (m * k) /\ m * k \in Nat  BY <1>3
<1>5. \A q \in Nat : (l * q) % l = 0  BY Z3
<1> QED BY <1>4, <1>5

\* What a layout asks of a block, once there is room for a header.
LEMMA LayoutAsks ==
    ASSUME NEW l \in ListLayouts
    PROVE  /\ Room(l) \in Nat \ {0} /\ l.size <= Room(l) /\ HeaderSize <= Room(l)
           /\ l.size \in Nat \ {0}
           /\ Room(l) = List!Greater(l.size, HeaderSize)
           /\ List!BlockAlign(l) \in Nat \ {0}
           /\ List!BlockAlign(l) <= l.align + HeaderAlign
           /\ \A x \in Nat : x % List!BlockAlign(l) = 0 => x % l.align = 0 /\ x % HeaderAlign = 0
<1>1. l.size \in Nat \ {0} /\ l.align \in Nat \ {0} /\ HeaderSize \in Nat \ {0}
      /\ HeaderAlign \in Nat \ {0}
  BY ListAssumption
<1>2. List!BlockAlign(l) \in {l.align, HeaderAlign}
      /\ l.align <= List!BlockAlign(l) /\ HeaderAlign <= List!BlockAlign(l)
  BY <1>1 DEF List!BlockAlign, List!Greater
<1>3. \A a, b \in Nat \ {0} : a % b = 0 => b <= a
  OBVIOUS
<1>4. \A a \in Nat \ {0} : a % a = 0
  OBVIOUS
<1>5. List!BlockAlign(l) % l.align = 0 /\ List!BlockAlign(l) % HeaderAlign = 0
  <2>1. CASE l.align % HeaderAlign = 0
    <3>1. HeaderAlign <= l.align  BY <2>1, <1>1, <1>3
    <3>2. List!BlockAlign(l) = l.align  BY <3>1, <1>1, <1>2
    <3> QED BY <3>2, <2>1, <1>1, <1>4
  <2>2. CASE HeaderAlign % l.align = 0
    <3>1. l.align <= HeaderAlign  BY <2>2, <1>1, <1>3
    <3>2. List!BlockAlign(l) = HeaderAlign  BY <3>1, <1>1, <1>2
    <3> QED BY <3>2, <2>2, <1>1, <1>4
  <2> QED BY <2>1, <2>2, ListAssumption
<1>6. \A x \in Nat : x % List!BlockAlign(l) = 0 => x % l.align = 0 /\ x % HeaderAlign = 0
  BY <1>1, <1>2, <1>5, MultipleOfMultiple
<1>7. /\ Room(l) \in Nat \ {0} /\ l.size <= Room(l) /\ HeaderSize <= Room(l)
      /\ Room(l) = List!Greater(l.size, HeaderSize)
  BY <1>1 DEF Room, List!BlockSize, List!Greater
<1> QED BY <1>1, <1>2, <1>6, <1>7

-----------------------------------------------------------------------------
\* The addresses that are followed from a after n links, by FreeListAllocator's
\* recursive function.
Follows(reach, k, a) ==
    reach = [n \in 0..k |->
        IF n = 0 THEN {a} \ {0}
        ELSE reach[n - 1] \cup ({header[x].next : x \in reach[n - 1]} \ {0})]

LEMMA FollowsExists ==
    ASSUME NEW most \in Nat, NEW a
    PROVE  \E reach : Follows(reach, most, a)
<1> DEFINE S == {k \in Nat : ~ \E reach : Follows(reach, k, a)}
<1>1. SUFFICES ASSUME S # {} PROVE FALSE
  BY <1>1
<1>2. PICK k \in S : \A j \in S : k <= j
  <2>1. S \subseteq Nat /\ S # {}  BY <1>1
  <2> HIDE DEF S
  <2> QED BY <2>1, LeastNat
<1>3. CASE k = 0
  <2> DEFINE f == [n \in 0..0 |-> {a} \ {0}]
  <2>1. Follows(f, 0, a)  BY DEF Follows
  <2> QED BY <2>1, <1>2, <1>3
<1>4. CASE k # 0
  <2>1. k - 1 \in Nat /\ k - 1 \notin S  BY <1>2, <1>4
  <2>2. PICK g : Follows(g, k - 1, a)  BY <2>1
  <2> DEFINE f == [n \in 0..k |->
          IF n = 0 THEN {a} \ {0}
          ELSE g[n - 1] \cup ({header[x].next : x \in g[n - 1]} \ {0})]
  <2>3. ASSUME NEW n \in 0..(k - 1) PROVE f[n] = g[n]
    <3>1. n \in 0..k  BY <2>1
    <3>2. f[n] = IF n = 0 THEN {a} \ {0}
                 ELSE g[n - 1] \cup ({header[x].next : x \in g[n - 1]} \ {0})
      BY <3>1, Zenon
    <3>3. g[n] = IF n = 0 THEN {a} \ {0}
                 ELSE g[n - 1] \cup ({header[x].next : x \in g[n - 1]} \ {0})
      BY <2>2, Zenon DEF Follows
    <3> QED BY <3>2, <3>3, Zenon
  <2>4. \A n \in 0..k : n # 0 => n - 1 \in 0..(k - 1)
    BY <2>1
  <2>5. f = [n \in 0..k |->
          IF n = 0 THEN {a} \ {0}
          ELSE f[n - 1] \cup ({header[x].next : x \in f[n - 1]} \ {0})]
    <3>1. \A n \in 0..k : n # 0 => f[n - 1] = g[n - 1]
      BY <2>3, <2>4
    <3> QED BY <3>1, Zenon
  <2>6. Follows(f, k, a)
    <3> HIDE DEF f
    <3> QED BY <2>5 DEF Follows
  <2> QED BY <2>6, <1>2
<1> QED BY <1>3, <1>4

\* What is linked from the head is in every set that holds the head and is
\* closed under next.
LEMMA LinkedInClosed ==
    ASSUME NEW F, head \in F \cup {0}, \A a \in F : header[a].next \in F \cup {0}
    PROVE  List!Linked(head) \subseteq F
<1> DEFINE most == (ListEnd - ListStart) \div HeaderSize
<1>1. most \in Nat
  BY ListAssumption
<1>2. PICK reach : Follows(reach, most, head) /\ List!Linked(head) = reach[most]
  <2>1. \E reach : Follows(reach, most, head)
    BY <1>1, FollowsExists
  <2> QED BY <2>1, Zenon DEF List!Linked, Follows, List!Null
<1> HIDE DEF most
<1>3. /\ reach[0] = {head} \ {0}
      /\ \A n \in 0..most : n # 0 =>
            reach[n] = reach[n - 1] \cup ({header[x].next : x \in reach[n - 1]} \ {0})
  BY <1>1, <1>2 DEF Follows
<1> DEFINE S == {n \in 0..most : ~ (reach[n] \subseteq F)}
<1>4. SUFFICES ASSUME S # {} PROVE FALSE
  <2>1. most \notin S => reach[most] \subseteq F
    BY <1>1
  <2> QED BY <1>2, <1>4, <2>1
<1>5. PICK k \in S : \A j \in S : k <= j
  <2>1. S \subseteq Nat /\ S # {}  BY <1>4
  <2> HIDE DEF S
  <2> QED BY <2>1, LeastNat
<1>6. k # 0
  BY <1>3, <1>5
<1>7. k - 1 \in 0..most /\ k - 1 \notin S
  BY <1>1, <1>5, <1>6
<1>8. reach[k - 1] \subseteq F
  BY <1>7
<1>9. reach[k] = reach[k - 1] \cup ({header[x].next : x \in reach[k - 1]} \ {0})
  BY <1>3, <1>5, <1>6
<1>10. reach[k] \subseteq F
  BY <1>8, <1>9
<1> QED BY <1>5, <1>10

-----------------------------------------------------------------------------
LEMMA ListInit == List!Init => ListInv
<1> SUFFICES ASSUME List!Init PROVE ListInv
  OBVIOUS
<1>1. ListTypes /\ HeldInv
  BY ListAssumption DEF List!Init, ListTypes, HeldInv, List!NoHeader, List!NoCall, List!Null,
     CallRecord, Header
<1>2. FreeInv({})
  BY DEF List!Init, FreeInv, List!Null
<1>3. [a \in List!Addresses |-> 0] \in [List!Addresses -> Nat]
  OBVIOUS
<1>4. LinksInv({}, [a \in List!Addresses |-> 0])
  BY DEF LinksInv
<1>5. CallInv({})
  BY DEF List!Init, CallInv
<1> QED BY <1>1, <1>2, <1>3, <1>4, <1>5 DEF ListInv

\* What BlocksDisjoint says of a state in which no call is under way.
LEMMA ListInvImplies == ListInv => BlocksDisjoint
<1> SUFFICES ASSUME ListInv PROVE BlocksDisjoint
  OBVIOUS
<1>1. PICK F \in SUBSET List!Addresses : FreeInv(F)
  BY DEF ListInv
<1>2. List!Linked(head) \subseteq F
  BY <1>1, LinkedInClosed DEF FreeInv
<1>3. ListTypes /\ HeldInv
  BY DEF ListInv
<1>4. \A b \in held : b.addr \in List!Addresses /\ b.layout \in ListLayouts
  BY <1>3 DEF ListTypes
<1>5. \A a \in List!Addresses : a \in Nat /\ ListStart <= a
  BY ListAssumption DEF List!Addresses
<1>6. bump \in Nat
  BY <1>3, ListAssumption DEF ListTypes
<1>7. ASSUME NEW x \in List!LiveBlocks
      PROVE  \E b \in held : /\ x = [start |-> b.addr, end |-> b.addr + b.layout.size]
                             /\ b.layout.size \in Nat \ {0} /\ Room(b.layout) \in Nat
                             /\ b.layout.size <= Room(b.layout) /\ b.addr \in Nat
  BY <1>4, <1>5, LayoutAsks DEF List!LiveBlocks, List!Block
<1>8. ASSUME NEW x \in List!FreeBlocks
      PROVE  \E a \in F : /\ x = [start |-> a, end |-> a + header[a].size]
                          /\ header[a].size \in Nat \ {0} /\ a \in Nat
  <2>1. PICK a \in F : x = List!Block(a, List!Greater(header[a].size, HeaderSize))
    BY <1>2 DEF List!FreeBlocks
  <2>2. header[a].size \in Nat /\ HeaderSize <= header[a].size
    BY <1>1, <1>3 DEF FreeInv, MayBeFree, ListTypes, Header
  <2>3. List!Greater(header[a].size, HeaderSize) = header[a].size
    BY <2>2, ListAssumption DEF List!Greater
  <2> QED BY <2>1, <2>2, <2>3, <1>5, ListAssumption DEF List!Block
<1>9. ASSUME NEW x \in List!LiveBlocks, NEW y \in List!LiveBlocks
      PROVE  x = y \/ List!Disjoint(x, y)
  <2>1. PICK b \in held : /\ x = [start |-> b.addr, end |-> b.addr + b.layout.size]
                          /\ b.layout.size \in Nat \ {0} /\ Room(b.layout) \in Nat
                          /\ b.layout.size <= Room(b.layout) /\ b.addr \in Nat
    BY <1>7
  <2>2. PICK c \in held : /\ y = [start |-> c.addr, end |-> c.addr + c.layout.size]
                          /\ c.layout.size \in Nat \ {0} /\ Room(c.layout) \in Nat
                          /\ c.layout.size <= Room(c.layout) /\ c.addr \in Nat
    BY <1>7
  <2>3. b = c \/ Apart(b.addr, Room(b.layout), c.addr, Room(c.layout))
    BY <1>3 DEF HeldInv
  <2> QED BY <2>1, <2>2, <2>3 DEF Apart, List!Disjoint
<1>10. ASSUME NEW x \in List!LiveBlocks, NEW y \in List!FreeBlocks
       PROVE  x # y /\ List!Disjoint(x, y) /\ List!Disjoint(y, x)
  <2>1. PICK b \in held : /\ x = [start |-> b.addr, end |-> b.addr + b.layout.size]
                          /\ b.layout.size \in Nat \ {0} /\ Room(b.layout) \in Nat
                          /\ b.layout.size <= Room(b.layout) /\ b.addr \in Nat
    BY <1>7
  <2>2. PICK a \in F : /\ y = [start |-> a, end |-> a + header[a].size]
                       /\ header[a].size \in Nat \ {0} /\ a \in Nat
    BY <1>8
  <2>3. Apart(a, header[a].size, b.addr, Room(b.layout))
    BY <1>1 DEF FreeInv, MayBeFree
  <2> QED BY <2>1, <2>2, <2>3 DEF Apart, List!Disjoint
<1>11. ASSUME NEW x \in List!FreeBlocks, NEW y \in List!FreeBlocks
       PROVE  x = y \/ List!Disjoint(x, y)
  <2>1. PICK a \in F : /\ x = [start |-> a, end |-> a + header[a].size]
                       /\ header[a].size \in Nat \ {0} /\ a \in Nat
    BY <1>8
  <2>2. PICK c \in F : /\ y = [start |-> c, end |-> c + header[c].size]
                       /\ header[c].size \in Nat \ {0} /\ c \in Nat
    BY <1>8
  <2>3. a = c \/ Apart(a, header[a].size, c, header[c].size)
    BY <1>1 DEF FreeInv
  <2> QED BY <2>1, <2>2, <2>3 DEF Apart, List!Disjoint
<1>12. \A x \in List!LiveBlocks : ListStart <= x.start /\ x.end <= bump
  <2> SUFFICES ASSUME NEW x \in List!LiveBlocks PROVE ListStart <= x.start /\ x.end <= bump
    OBVIOUS
  <2>1. PICK b \in held : /\ x = [start |-> b.addr, end |-> b.addr + b.layout.size]
                          /\ b.layout.size \in Nat \ {0} /\ Room(b.layout) \in Nat
                          /\ b.layout.size <= Room(b.layout) /\ b.addr \in Nat
    BY <1>7
  <2>2. b.addr + Room(b.layout) <= bump
    BY <1>3 DEF HeldInv
  <2> QED BY <2>1, <2>2, <1>4, <1>5, <1>6
<1>13. \A x \in List!FreeBlocks : ListStart <= x.start /\ x.end <= bump
  <2> SUFFICES ASSUME NEW x \in List!FreeBlocks PROVE ListStart <= x.start /\ x.end <= bump
    OBVIOUS
  <2>1. PICK a \in F : /\ x = [start |-> a, end |-> a + header[a].size]
                       /\ header[a].size \in Nat \ {0} /\ a \in Nat
    BY <1>8
  <2>2. a + header[a].size <= bump
    BY <1>1 DEF FreeInv, MayBeFree
  <2> QED BY <2>1, <2>2, <1>5
<1>14. List!BlocksDisjoint
  BY <1>9, <1>10, <1>11, <1>12, <1>13 DEF List!BlocksDisjoint
<1>15. List!FitForUse
  BY <1>3, <1>4, LayoutAsks DEF List!FitForUse, HeldInv
<1> QED BY <1>14, <1>15 DEF BlocksDisjoint

-----------------------------------------------------------------------------
\* A step that changes none of the memory keeps what is said of it.
LEMMA SameMemory ==
    ASSUME UNCHANGED <<head, header, bump, held>>, NEW F, NEW rank
    PROVE  /\ HeldInv => HeldInv'
           /\ FreeInv(F) => FreeInv(F)'
           /\ LinksInv(F, rank) => LinksInv(F, rank)'
  BY DEF HeldInv, FreeInv, LinksInv, MayBeFree, Room, Apart, List!BlockSize, List!Greater,
     List!Addresses

LEMMA IdleMayReturn ==
    ASSUME ListTypes, List!Done(Single)
    PROVE  /\ at' \in [{Single} -> {"idle", "walk", "unlink", "bump", "write", "push"}]
           /\ call' \in [{Single} -> CallRecord]
           /\ at'[Single] = "idle"
<1>1. List!NoCall \in CallRecord
  BY DEF List!NoCall, CallRecord, List!Null
<1> QED BY <1>1 DEF ListTypes, List!Done, List!Goto

\* The calls' steps that change no memory: into alloc, along the list, and out
\* of it without a block.
LEMMA AllocKeeps ==
    ASSUME ListInv, NEW layout \in ListLayouts, List!Alloc(Single, layout)
    PROVE  ListInv'
<1>1. PICK F \in SUBSET List!Addresses, rank \in [List!Addresses -> Nat] :
          FreeInv(F) /\ LinksInv(F, rank) /\ CallInv(F)
  BY DEF ListInv
<1> DEFINE c == [size |-> List!BlockSize(layout), align |-> List!BlockAlign(layout),
                 prev |-> 0, curr |-> head, next |-> 0, layout |-> layout]
<1>2. call' = [call EXCEPT ![Single] = c] /\ at' = [at EXCEPT ![Single] = "walk"]
      /\ UNCHANGED <<head, header, bump, held>>
  BY DEF List!Alloc, List!Goto, List!Null
<1>3. ListTypes /\ HeldInv
  BY DEF ListInv
<1>4. layout.size \in Nat /\ layout.align \in Nat /\ layout \in [size : Nat, align : Nat]
  BY ListAssumption
<1>5. c \in CallRecord
  BY <1>3, <1>4, LayoutAsks DEF CallRecord, Room, ListTypes
<1>6. call'[Single] = c /\ at'[Single] = "walk"
  BY <1>2, <1>3 DEF ListTypes
<1>7. ListTypes'
  BY <1>2, <1>3, <1>5 DEF ListTypes, Header, List!Addresses
<1>8. CallInv(F)'
  BY <1>2, <1>6 DEF CallInv, Room
<1> QED BY <1>1, <1>2, <1>3, <1>7, <1>8, SameMemory DEF ListInv, List!Addresses

LEMMA WalkOnKeeps ==
    ASSUME ListInv, List!WalkOn(Single)
    PROVE  ListInv'
<1>1. PICK F \in SUBSET List!Addresses, rank \in [List!Addresses -> Nat] :
          FreeInv(F) /\ LinksInv(F, rank) /\ CallInv(F)
  BY DEF ListInv
<1>2. ListTypes /\ HeldInv
  BY DEF ListInv
<1>3. PICK c \in CallRecord : c = call[Single]
  BY <1>2 DEF ListTypes
<1> DEFINE d == [c EXCEPT !.prev = c.curr, !.curr = header[c.curr].next]
<1>4. /\ call' = [call EXCEPT ![Single] = d] /\ at[Single] = "walk" /\ c.curr # 0
      /\ UNCHANGED <<head, header, bump, held, at>>
  BY <1>3 DEF List!WalkOn, List!Null
<1>5. c.curr \in F /\ header[c.curr].next \in Nat
  BY <1>1, <1>2, <1>3, <1>4 DEF CallInv, FreeInv, ListTypes, Header
<1>6. d \in CallRecord
  BY <1>5 DEF CallRecord
<1>7. call'[Single] = d
  BY <1>2, <1>4 DEF ListTypes
<1>8. ListTypes'
  BY <1>2, <1>4, <1>6 DEF ListTypes, Header, List!Addresses
<1>9. d.prev = c.curr /\ d.curr = header[c.curr].next /\ d.size = c.size
      /\ d.align = c.align /\ d.layout = c.layout
  BY DEF CallRecord
<1>10. CallInv(F)'
  <2> HIDE DEF d
  <2> QED BY <1>1, <1>3, <1>4, <1>5, <1>7, <1>9 DEF CallInv, Room
<1> QED BY <1>1, <1>2, <1>4, <1>8, <1>10, SameMemory DEF ListInv, List!Addresses

LEMMA FoundKeeps ==
    ASSUME ListInv, List!Found(Single)
    PROVE  ListInv'
<1>1. PICK F \in SUBSET List!Addresses, rank \in [List!Addresses -> Nat] :
          FreeInv(F) /\ LinksInv(F, rank) /\ CallInv(F)
  BY DEF ListInv
<1>2. ListTypes /\ HeldInv
  BY DEF ListInv
<1>3. PICK c \in CallRecord : c = call[Single]
  BY <1>2 DEF ListTypes
<1> DEFINE d == [c EXCEPT !.next = header[c.curr].next]
<1>4. /\ call' = [call EXCEPT ![Single] = d] /\ at[Single] = "walk" /\ c.curr # 0
      /\ at' = [at EXCEPT ![Single] = "unlink"] /\ List!Suits(c)
      /\ UNCHANGED <<head, header, bump, held>>
  BY <1>3 DEF List!Found, List!Null, List!Goto
<1>5. c.curr \in F /\ header[c.curr].next \in Nat
  BY <1>1, <1>2, <1>3, <1>4 DEF CallInv, FreeInv, ListTypes, Header
<1>6. d \in CallRecord
  BY <1>5 DEF CallRecord
<1>7. call'[Single] = d /\ at'[Single] = "unlink"
  BY <1>2, <1>4 DEF ListTypes
<1>8. ListTypes'
  BY <1>2, <1>4, <1>6 DEF ListTypes, Header, List!Addresses
<1>9. d.prev = c.prev /\ d.curr = c.curr /\ d.size = c.size /\ d.next = header[c.curr].next
      /\ d.align = c.align /\ d.layout = c.layout
  BY DEF CallRecord
<1>10. CallInv(F)'
  <2> HIDE DEF d
  <2> QED BY <1>1, <1>3, <1>4, <1>5, <1>7, <1>9 DEF CallInv, Room, List!Suits
<1> QED BY <1>1, <1>2, <1>4, <1>8, <1>10, SameMemory DEF ListInv, List!Addresses

LEMMA WalkEndKeeps ==
    ASSUME ListInv, List!WalkEnd(Single)
    PROVE  ListInv'
<1>1. PICK F \in SUBSET List!Addresses, rank \in [List!Addresses -> Nat] :
          FreeInv(F) /\ LinksInv(F, rank) /\ CallInv(F)
  BY DEF ListInv
<1>2. ListTypes /\ HeldInv
  BY DEF ListInv
<1>3. PICK c \in CallRecord : c = call[Single]
  BY <1>2 DEF ListTypes
<1> DEFINE d == [c EXCEPT !.next = bump]
<1>4. /\ call' = [call EXCEPT ![Single] = d] /\ at[Single] = "walk"
      /\ at' = [at EXCEPT ![Single] = "bump"]
      /\ UNCHANGED <<head, header, bump, held>>
  BY <1>3 DEF List!WalkEnd, List!Goto
<1>5. bump \in Nat
  BY <1>2, ListAssumption DEF ListTypes
<1>6. d \in CallRecord
  BY <1>5 DEF CallRecord
<1>7. call'[Single] = d /\ at'[Single] = "bump"
  BY <1>2, <1>4 DEF ListTypes
<1>8. ListTypes'
  BY <1>2, <1>4, <1>6 DEF ListTypes, Header, List!Addresses
<1>9. d.size = c.size /\ d.next = bump /\ d.align = c.align /\ d.layout = c.layout
  BY DEF CallRecord
<1>10. CallInv(F)'
  <2> HIDE DEF d
  <2> QED BY <1>1, <1>3, <1>4, <1>7, <1>9 DEF CallInv, Room
<1> QED BY <1>1, <1>2, <1>4, <1>8, <1>10, SameMemory DEF ListInv, List!Addresses

LEMMA FailKeeps ==
    ASSUME ListInv, List!Fail(Single)
    PROVE  ListInv'
<1>1. PICK F \in SUBSET List!Addresses, rank \in [List!Addresses -> Nat] :
          FreeInv(F) /\ LinksInv(F, rank) /\ CallInv(F)
  BY DEF ListInv
<1>2. ListTypes /\ HeldInv
  BY DEF ListInv
<1>3. List!Done(Single) /\ UNCHANGED <<head, header, bump, held>>
  BY DEF List!Fail
<1>4. ListTypes' /\ at'[Single] = "idle"
  BY <1>2, <1>3, IdleMayReturn DEF ListTypes, Header, List!Addresses
<1>5. CallInv(F)'
  BY <1>4 DEF CallInv
<1> QED BY <1>1, <1>2, <1>3, <1>4, <1>5, SameMemory DEF ListInv, List!Addresses

\* alloc cuts a new block off the heap, after everything held or free.
LEMMA BumpKeeps ==
    ASSUME ListInv, ListNoWrap, List!Bump(Single)
    PROVE  ListInv'
<1>1. PICK F \in SUBSET List!Addresses, rank \in [List!Addresses -> Nat] :
          FreeInv(F) /\ LinksInv(F, rank) /\ CallInv(F)
  BY DEF ListInv
<1>2. ListTypes /\ HeldInv
  BY DEF ListInv
<1>3. PICK c \in CallRecord : c = call[Single]
  BY <1>2 DEF ListTypes
<1>4. PICK l \in ListLayouts :
          /\ c.layout = l /\ c.size = Room(l) /\ c.align = List!BlockAlign(l)
          /\ c.next = bump
  BY <1>1, <1>3 DEF CallInv, List!Bump
<1>5. PICK s : s = List!Start(Single)  OBVIOUS
<1>6. /\ s \in Nat /\ bump <= s /\ s % List!BlockAlign(l) = 0
  <2>1. s = AlignUp(bump, List!BlockAlign(l))
    BY <1>3, <1>4, <1>5 DEF List!Start, List!AlignUp, AlignUp
  <2>2. bump \in Nat /\ bump <= ListEnd
    BY <1>2, ListAssumption DEF ListTypes
  <2>3. List!BlockAlign(l) \in Nat \ {0} /\ List!BlockAlign(l) <= l.align + HeaderAlign
    BY LayoutAsks
  <2>4. ListEnd + l.align + HeaderAlign <= AddressSpace
    BY DEF ListNoWrap
  <2>5. bump + List!BlockAlign(l) <= AddressSpace
    BY <2>2, <2>3, <2>4, HeapAssumption, ListAssumption
  <2> QED BY <2>1, <2>2, <2>3, <2>5, AlignUpRounds
<1> DEFINE b == [addr |-> s, layout |-> l]
<1>7. /\ s + Room(l) <= ListEnd
      /\ bump' = s + Room(l)
      /\ held' = held \cup {b}
      /\ List!Done(Single)
      /\ UNCHANGED <<head, header>>
  BY <1>3, <1>4, <1>5 DEF List!Bump, List!Return, List!Fits
<1>8. /\ bump \in Nat /\ ListStart <= bump /\ ListStart \in Nat /\ ListEnd \in Nat
      /\ Room(l) \in Nat \ {0} /\ bump <= bump' /\ bump' \in ListStart..ListEnd
  BY <1>2, <1>6, <1>7, ListAssumption, LayoutAsks DEF ListTypes
<1>9. s \in List!Addresses
  BY <1>6, <1>7, <1>8 DEF List!Addresses
<1>10. ListTypes' /\ at'[Single] = "idle"
  <2>1. held' \subseteq [addr : List!Addresses, layout : ListLayouts]
    BY <1>2, <1>7, <1>9 DEF ListTypes
  <2> QED BY <2>1, <1>2, <1>7, <1>8, IdleMayReturn DEF ListTypes, Header, List!Addresses
<1>11. \A h \in held : /\ h.addr \in Nat /\ Room(h.layout) \in Nat
                       /\ h.addr + Room(h.layout) <= bump
  BY <1>2, ListAssumption, LayoutAsks DEF HeldInv, ListTypes, List!Addresses
<1>12. b.addr = s /\ b.layout = l
  OBVIOUS
<1>13. \A h \in held : /\ Apart(h.addr, Room(h.layout), s, Room(l))
                       /\ Apart(s, Room(l), h.addr, Room(h.layout))
  BY <1>6, <1>8, <1>11 DEF Apart
<1>14. s % l.align = 0 /\ s % HeaderAlign = 0
  BY <1>6, LayoutAsks
<1>15. HeldInv'
  <2> HIDE DEF b
  <2>1. \A h \in held' :
          /\ h.addr % h.layout.align = 0 /\ h.addr % HeaderAlign = 0
          /\ h.addr + Room(h.layout) <= bump'
    BY <1>2, <1>7, <1>8, <1>11, <1>12, <1>14 DEF HeldInv
  <2>2. \A g, h \in held' : g = h \/ Apart(g.addr, Room(g.layout), h.addr, Room(h.layout))
    BY <1>2, <1>7, <1>12, <1>13 DEF HeldInv
  <2> QED BY <2>1, <2>2 DEF HeldInv, Room, Apart, List!BlockSize, List!Greater
<1>16. ASSUME NEW a, NEW n \in Nat, MayBeFree(a, n) PROVE MayBeFree(a, n)'
  <2>1. a \in Nat /\ a + n <= bump
    BY <1>16, ListAssumption DEF MayBeFree, List!Addresses
  <2>2. Apart(a, n, s, Room(l))
    BY <1>6, <2>1, <1>8 DEF Apart
  <2>3. \A h \in held' : Apart(a, n, h.addr, Room(h.layout))
    BY <1>7, <1>12, <1>16, <2>2 DEF MayBeFree
  <2>4. a + n <= bump'
    BY <2>1, <1>8
  <2> QED BY <1>16, <2>3, <2>4
       DEF MayBeFree, Room, Apart, List!BlockSize, List!Greater, List!Addresses
<1>17. FreeInv(F)'
  <2>1. \A a \in F : header[a].size \in Nat
    BY <1>2 DEF ListTypes, Header
  <2>2. \A a \in F : MayBeFree(a, header[a].size)'
    BY <1>1, <1>7, <1>16, <2>1 DEF FreeInv
  <2> QED BY <1>1, <1>7, <2>2 DEF FreeInv, Apart
<1>18. LinksInv(F, rank)' /\ CallInv(F)'
  BY <1>1, <1>7, <1>10 DEF LinksInv, CallInv
<1> QED BY <1>1, <1>10, <1>15, <1>17, <1>18 DEF ListInv, List!Addresses

\* dealloc takes a block that is held.
LEMMA DeallocKeeps ==
    ASSUME ListInv, NEW b \in held, List!Dealloc(Single, b)
    PROVE  ListInv'
<1>1. PICK F \in SUBSET List!Addresses, rank \in [List!Addresses -> Nat] :
          FreeInv(F) /\ LinksInv(F, rank) /\ CallInv(F)
  BY DEF ListInv
<1>2. ListTypes /\ HeldInv
  BY DEF ListInv
<1>3. PICK l \in ListLayouts, s \in List!Addresses : b = [addr |-> s, layout |-> l]
  BY <1>2 DEF ListTypes
<1> DEFINE d == [List!NoCall EXCEPT !.size = Room(l), !.curr = s, !.next = head]
<1>4. /\ held' = held \ {b} /\ call' = [call EXCEPT ![Single] = d]
      /\ at' = [at EXCEPT ![Single] = "write"]
      /\ UNCHANGED <<head, header, bump>>
  BY <1>3 DEF List!Dealloc, List!Goto, Room
<1>5. s \in Nat /\ Room(l) \in Nat
  BY ListAssumption, LayoutAsks DEF List!Addresses
<1>6. d \in CallRecord /\ d.size = Room(l) /\ d.curr = s /\ d.next = head
  BY <1>2, <1>5 DEF List!NoCall, CallRecord, List!Null, ListTypes
<1>7. call'[Single] = d /\ at'[Single] = "write"
  BY <1>2, <1>4 DEF ListTypes
<1>8. ListTypes'
  BY <1>2, <1>4, <1>6 DEF ListTypes, Header, List!Addresses
<1>9. HeldInv'
  BY <1>2, <1>4 DEF HeldInv, Room, Apart, List!BlockSize, List!Greater
<1>10. \A a, n : MayBeFree(a, n) => MayBeFree(a, n)'
  BY <1>4 DEF MayBeFree, Room, Apart, List!BlockSize, List!Greater, List!Addresses
<1>11. FreeInv(F)'
  BY <1>1, <1>4, <1>10 DEF FreeInv, Apart
<1>12. MayBeFree(s, Room(l))'
  <2>1. s % HeaderAlign = 0 /\ s + Room(l) <= bump
    BY <1>2, <1>3 DEF HeldInv
  <2>2. \A h \in held' : Apart(s, Room(l), h.addr, Room(h.layout))
    BY <1>2, <1>3, <1>4 DEF HeldInv
  <2>3. HeaderSize <= Room(l)
    BY LayoutAsks
  <2> QED BY <1>4, <2>1, <2>2, <2>3
       DEF MayBeFree, Room, Apart, List!BlockSize, List!Greater, List!Addresses
<1>13. \A a \in F : Apart(s, Room(l), a, header[a].size)
  BY <1>1, <1>3 DEF FreeInv, MayBeFree, Apart
<1>14. CallInv(F)'
  <2> HIDE DEF d
  <2> QED BY <1>4, <1>6, <1>7, <1>12, <1>13 DEF CallInv, Apart
<1>15. LinksInv(F, rank)'
  BY <1>1, <1>4 DEF LinksInv
<1> QED BY <1>1, <1>8, <1>9, <1>11, <1>14, <1>15 DEF ListInv, List!Addresses

\* A header is written into a block that is neither held nor in the list.
LEMMA WriteHeaderKeeps ==
    ASSUME ListInv, List!WriteHeader(Single)
    PROVE  ListInv'
<1>1. PICK F \in SUBSET List!Addresses, rank \in [List!Addresses -> Nat] :
          FreeInv(F) /\ LinksInv(F, rank) /\ CallInv(F)
  BY DEF ListInv
<1>2. ListTypes /\ HeldInv
  BY DEF ListInv
<1>3. PICK c \in CallRecord : c = call[Single]
  BY <1>2 DEF ListTypes
<1>4. /\ at[Single] = "write"
      /\ header' = [header EXCEPT ![c.curr] = [size |-> c.size, next |-> c.next]]
      /\ at' = [at EXCEPT ![Single] = "push"]
      /\ UNCHANGED <<head, bump, call, held>>
  BY <1>3 DEF List!WriteHeader, List!Goto
<1>5. /\ MayBeFree(c.curr, c.size) /\ c.next = head
      /\ \A a \in F : Apart(c.curr, c.size, a, header[a].size)
  BY <1>1, <1>3, <1>4 DEF CallInv
<1>6. c.curr \in List!Addresses /\ HeaderSize <= c.size /\ c.size \in Nat \ {0}
  BY <1>5, ListAssumption DEF MayBeFree, CallRecord
<1>7. c.curr \notin F
  <2> SUFFICES ASSUME c.curr \in F PROVE FALSE
    OBVIOUS
  <2>1. Apart(c.curr, c.size, c.curr, header[c.curr].size)
    BY <1>5
  <2>2. header[c.curr].size \in Nat /\ HeaderSize <= header[c.curr].size
    BY <1>1, <1>2 DEF FreeInv, MayBeFree, ListTypes, Header
  <2>3. c.curr \in Nat /\ HeaderSize \in Nat \ {0}
    BY <1>6, ListAssumption DEF List!Addresses
  <2> QED BY <2>1, <2>2, <2>3, <1>6 DEF Apart
<1>8. \A a \in F : header'[a] = header[a]
  BY <1>1, <1>2, <1>4, <1>7 DEF ListTypes
<1>9. header'[c.curr] = [size |-> c.size, next |-> c.next]
  BY <1>2, <1>4, <1>6 DEF ListTypes
<1>10. [size |-> c.size, next |-> c.next] \in Header
  BY DEF CallRecord, Header
<1>11. ListTypes' /\ at'[Single] = "push"
  BY <1>2, <1>4, <1>10 DEF ListTypes, Header, List!Addresses
<1>12. HeldInv' /\ \A a, n : MayBeFree(a, n) => MayBeFree(a, n)'
  BY <1>2, <1>4 DEF HeldInv, MayBeFree, Room, Apart, List!BlockSize, List!Greater, List!Addresses
<1>13. FreeInv(F)'
  <2>1. head' \in F \cup {0}
    BY <1>1, <1>4 DEF FreeInv
  <2>2. \A a \in F : MayBeFree(a, header[a].size) /\ header'[a].next \in F \cup {0}
    BY <1>1, <1>8 DEF FreeInv
  <2>3. \A a \in F : MayBeFree(a, header[a].size)'
    BY <1>4, <1>8, <2>2
       DEF MayBeFree, Room, Apart, List!BlockSize, List!Greater, List!Addresses
  <2>4. \A a, b \in F : a = b \/ Apart(a, header'[a].size, b, header'[b].size)
    BY <1>1, <1>8 DEF FreeInv
  <2> QED BY <2>1, <2>2, <2>3, <2>4 DEF FreeInv, Apart
<1>14. LinksInv(F, rank)'
  BY <1>1, <1>4, <1>8 DEF LinksInv
<1>15. CallInv(F)'
  <2>1. MayBeFree(c.curr, c.size)'
    BY <1>5, <1>12
  <2>2. \A a \in F : Apart(c.curr, c.size, a, header'[a].size)
    BY <1>5, <1>8
  <2> QED BY <1>3, <1>4, <1>5, <1>9, <1>11, <2>1, <2>2 DEF CallInv, Apart
<1> QED BY <1>1, <1>11, <1>12, <1>13, <1>14, <1>15 DEF ListInv, List!Addresses

\* The freed block becomes the head: nobody leads to it, and it leads to the
\* head before it, which nobody led to.
LEMMA PushKeeps ==
    ASSUME ListInv, List!Push(Single)
    PROVE  ListInv'
<1>1. PICK F \in SUBSET List!Addresses, rank \in [List!Addresses -> Nat] :
          FreeInv(F) /\ LinksInv(F, rank) /\ CallInv(F)
  BY DEF ListInv
<1>2. ListTypes /\ HeldInv
  BY DEF ListInv
<1>3. PICK c \in CallRecord : c = call[Single]
  BY <1>2 DEF ListTypes
<1>4. /\ at[Single] = "push" /\ head' = c.curr /\ List!Done(Single)
      /\ UNCHANGED <<header, bump, held>>
  BY <1>3 DEF List!Push
<1>5. /\ MayBeFree(c.curr, c.size)
      /\ \A a \in F : Apart(c.curr, c.size, a, header[a].size)
      /\ header[c.curr].size = c.size /\ header[c.curr].next = head
  BY <1>1, <1>3, <1>4 DEF CallInv
<1>6. PICK x \in List!Addresses : x = c.curr
  BY <1>5 DEF MayBeFree
<1>7. x \in Nat \ {0} /\ HeaderSize \in Nat \ {0}
  BY ListAssumption DEF List!Addresses
<1>8. x \notin F
  <2> SUFFICES ASSUME x \in F PROVE FALSE
    OBVIOUS
  <2>1. Apart(x, header[x].size, x, header[x].size)
    BY <1>5, <1>6
  <2>2. header[x].size \in Nat /\ HeaderSize <= header[x].size
    BY <1>1, <1>2 DEF FreeInv, MayBeFree, ListTypes, Header
  <2> QED BY <2>1, <2>2, <1>7 DEF Apart
<1> DEFINE G == F \cup {x}
<1>9. ListTypes' /\ at'[Single] = "idle"
  BY <1>2, <1>4, <1>6, <1>7, IdleMayReturn DEF ListTypes, Header, List!Addresses
<1>10. HeldInv' /\ \A a, n : MayBeFree(a, n) => MayBeFree(a, n)'
  BY <1>2, <1>4 DEF HeldInv, MayBeFree, Room, Apart, List!BlockSize, List!Greater, List!Addresses
<1>11. FreeInv(G)'
  <2>0. \A a \in G : MayBeFree(a, header[a].size) /\ header[a].next \in G \cup {0}
    BY <1>1, <1>5, <1>6 DEF FreeInv
  <2>1. \A a \in G : MayBeFree(a, header[a].size)'
    BY <1>4, <2>0
       DEF MayBeFree, Room, Apart, List!BlockSize, List!Greater, List!Addresses
  <2>2. \A a, b \in G : a = b \/ Apart(a, header[a].size, b, header[b].size)
    BY <1>1, <1>5, <1>6 DEF FreeInv, Apart
  <2> QED BY <1>4, <1>6, <2>0, <2>1, <2>2 DEF FreeInv, Apart
<1>12. PICK r \in Nat : head \in F => rank[head] < r
  <2>1. head \in F => rank[head] \in Nat
    BY <1>1
  <2>2. CASE head \in F
    BY <2>1, <2>2, rank[head] + 1 \in Nat, rank[head] < rank[head] + 1
  <2>3. CASE head \notin F
    BY <2>3
  <2> QED BY <2>2, <2>3
<1> DEFINE above == [rank EXCEPT ![x] = r]
<1>13. above \in [List!Addresses -> Nat] /\ above[x] = r /\ \A a \in F : above[a] = rank[a]
  BY <1>1, <1>8
<1>14. LinksInv(G, above)'
  <2> HIDE DEF above
  <2>1. \A a \in F : header[a].next # x
    BY <1>1, <1>7, <1>8 DEF FreeInv
  <2>2. \A a \in F : header[a].next # 0 => header[a].next # head /\ header[a].next \in F
    BY <1>1 DEF FreeInv, LinksInv
  <2>3. header[x].next = head
    BY <1>5, <1>6
  <2>4. \A a, b \in G : header[a].next = header[b].next => a = b \/ header[a].next = 0
    BY <1>1, <2>2, <2>3 DEF LinksInv
  <2>5. \A a \in G : header[a].next # 0 => header[a].next # x
    BY <1>1, <1>8, <2>1, <2>3 DEF FreeInv
  <2>6. \A a \in F : header[a].next # 0 => above[header[a].next] < above[a]
    BY <1>1, <1>13, <2>2 DEF LinksInv
  <2>7. header[x].next # 0 => above[header[x].next] < above[x]
    BY <1>1, <1>12, <1>13, <2>3 DEF FreeInv
  <2> QED BY <1>4, <1>6, <2>4, <2>5, <2>6, <2>7 DEF LinksInv
<1>15. CallInv(G)'
  BY <1>9 DEF CallInv
<1>16. G \in SUBSET List!Addresses
  BY <1>1
<1> HIDE DEF above, G
<1> QED BY <1>9, <1>10, <1>11, <1>13, <1>14, <1>15, <1>16 DEF ListInv, List!Addresses

\* alloc takes the block it found out of the list: the block before it, or the
\* head, leads past it.
LEMMA UnlinkKeeps ==
    ASSUME ListInv, List!Unlink(Single)
    PROVE  ListInv'
<1>1. PICK F \in SUBSET List!Addresses, rank \in [List!Addresses -> Nat] :
          FreeInv(F) /\ LinksInv(F, rank) /\ CallInv(F)
  BY DEF ListInv
<1>2. ListTypes /\ HeldInv
  BY DEF ListInv
<1>3. PICK c \in CallRecord : c = call[Single]
  BY <1>2 DEF ListTypes
<1>4. PICK l \in ListLayouts :
          c.layout = l /\ c.size = Room(l) /\ c.align = List!BlockAlign(l)
  BY <1>1, <1>3 DEF CallInv, List!Unlink
<1>5. PICK x \in F : x = c.curr
  BY <1>1, <1>3 DEF CallInv, List!Unlink
<1>6. PICK y : y = header[x].next  OBVIOUS
<1>7. /\ c.next = y /\ x % List!BlockAlign(l) = 0 /\ Room(l) <= header[x].size
      /\ \/ c.prev = 0 /\ x = head
         \/ c.prev \in F /\ x = header[c.prev].next
  BY <1>1, <1>3, <1>4, <1>5, <1>6 DEF CallInv, List!Unlink, List!Suits
<1> DEFINE b == [addr |-> x, layout |-> l]
           G == F \ {x}
<1>8. /\ held' = held \cup {b} /\ List!Done(Single) /\ UNCHANGED bump
      /\ IF c.prev = 0 THEN head' = y /\ UNCHANGED header
         ELSE header' = [header EXCEPT ![c.prev].next = y] /\ UNCHANGED head
  BY <1>3, <1>4, <1>5, <1>7 DEF List!Unlink, List!Return, List!Successor, List!AfterFound, List!Null
<1>9. \A a \in F : a \in Nat \ {0} /\ header[a] \in Header /\ header[a].size \in Nat
                   /\ header[a].next \in F \cup {0} /\ a \in List!Addresses
                   /\ rank[a] \in Nat
  BY <1>1, <1>2, ListAssumption DEF ListTypes, List!Addresses, Header, FreeInv
\* Nothing leads to a block and back to it.
<1>10. /\ y \in G \cup {0}
       /\ y # 0 => rank[y] < rank[x]
  BY <1>1, <1>6, <1>9 DEF LinksInv
<1>11. c.prev # 0 => /\ c.prev \in G /\ rank[x] < rank[c.prev] /\ y # c.prev
                     /\ header[c.prev].next = x /\ x # head
  BY <1>1, <1>7, <1>9, <1>10 DEF LinksInv
<1>12. \A a \in G : /\ header'[a].size = header[a].size
                    /\ header'[a].next = IF a = c.prev THEN y ELSE header[a].next
  <2>1. CASE c.prev = 0
    BY <2>1, <1>8, <1>9
  <2>2. CASE c.prev # 0
    <3>1. c.prev \in List!Addresses /\ G \subseteq List!Addresses
          /\ header \in [List!Addresses -> Header]
      BY <2>2, <1>2, <1>9, <1>11 DEF ListTypes
    <3>2. header' = [header EXCEPT ![c.prev].next = y]
      BY <2>2, <1>8
    <3> HIDE DEF G
    <3> QED BY <3>1, <3>2 DEF Header
  <2> QED BY <2>1, <2>2
\* Only the block before the one found, or the head, led to it.
<1>13. \A a \in G : a # c.prev => header[a].next # x
  <2> SUFFICES ASSUME NEW a \in G, a # c.prev, header[a].next = x PROVE FALSE
    OBVIOUS
  <2>1. CASE c.prev = 0
    BY <2>1, <1>1, <1>7, <1>9 DEF LinksInv
  <2>2. CASE c.prev # 0
    BY <2>2, <1>1, <1>9, <1>11 DEF LinksInv
  <2> QED BY <2>1, <2>2
<1>14. header' \in [List!Addresses -> Header] /\ head' \in Nat
  <2>1. y \in Nat
    BY <1>9, <1>10
  <2> QED BY <2>1, <1>2, <1>8 DEF ListTypes, Header
<1>15. ListTypes' /\ at'[Single] = "idle"
  <2>1. held' \subseteq [addr : List!Addresses, layout : ListLayouts]
    BY <1>2, <1>8, <1>9 DEF ListTypes
  <2> QED BY <2>1, <1>2, <1>8, <1>14, IdleMayReturn DEF ListTypes, Header, List!Addresses
<1>16. /\ MayBeFree(x, header[x].size)
       /\ Room(l) \in Nat \ {0} /\ x % l.align = 0
  BY <1>1, <1>7, <1>9, LayoutAsks DEF FreeInv
<1>17. \A h \in held : /\ h.addr \in Nat /\ Room(h.layout) \in Nat
                       /\ Apart(h.addr, Room(h.layout), x, Room(l))
                       /\ Apart(x, Room(l), h.addr, Room(h.layout))
  <2> SUFFICES ASSUME NEW h \in held
               PROVE  /\ h.addr \in Nat /\ Room(h.layout) \in Nat
                      /\ Apart(h.addr, Room(h.layout), x, Room(l))
                      /\ Apart(x, Room(l), h.addr, Room(h.layout))
    OBVIOUS
  <2>1. h.addr \in Nat /\ Room(h.layout) \in Nat
    BY <1>2, ListAssumption, LayoutAsks DEF ListTypes, List!Addresses
  <2>2. Apart(x, header[x].size, h.addr, Room(h.layout))
    BY <1>16 DEF MayBeFree
  <2> QED BY <2>1, <2>2, <1>7, <1>9, <1>16 DEF Apart
<1>18. b.addr = x /\ b.layout = l
  OBVIOUS
<1>19. x + Room(l) <= bump
  <2>1. x + header[x].size <= bump /\ bump \in Nat
    BY <1>2, <1>16, ListAssumption DEF MayBeFree, ListTypes
  <2> QED BY <2>1, <1>7, <1>9, <1>16
<1>20. HeldInv'
  <2> HIDE DEF b
  <2>1. x % HeaderAlign = 0
    BY <1>16 DEF MayBeFree
  <2>2. \A h \in held' :
          /\ h.addr % h.layout.align = 0 /\ h.addr % HeaderAlign = 0
          /\ h.addr + Room(h.layout) <= bump'
    BY <1>2, <1>8, <1>16, <1>18, <1>19, <2>1 DEF HeldInv
  <2>3. \A g, h \in held' : g = h \/ Apart(g.addr, Room(g.layout), h.addr, Room(h.layout))
    BY <1>2, <1>8, <1>17, <1>18 DEF HeldInv
  <2> QED BY <2>2, <2>3 DEF HeldInv, Room, Apart, List!BlockSize, List!Greater
<1>21. ASSUME NEW a \in G PROVE MayBeFree(a, header[a].size)'
  <2>1. MayBeFree(a, header[a].size)
    BY <1>1 DEF FreeInv
  <2>2. Apart(a, header[a].size, x, header[x].size)
    BY <1>1 DEF FreeInv
  <2>3. Apart(a, header[a].size, x, Room(l))
    BY <2>2, <1>7, <1>9, <1>16 DEF Apart
  <2>4. \A h \in held' : Apart(a, header'[a].size, h.addr, Room(h.layout))
    BY <2>1, <2>3, <1>8, <1>12, <1>18 DEF MayBeFree
  <2> QED BY <2>1, <2>4, <1>8, <1>12
       DEF MayBeFree, Room, Apart, List!BlockSize, List!Greater, List!Addresses
<1>22. FreeInv(G)'
  <2>1. head' \in G \cup {0}
    <3>1. CASE c.prev = 0
      BY <3>1, <1>8, <1>10
    <3>2. CASE c.prev # 0
      BY <3>2, <1>1, <1>8, <1>11 DEF FreeInv
    <3> QED BY <3>1, <3>2
  <2>2. \A a \in G : header'[a].next \in G \cup {0}
    BY <1>9, <1>10, <1>12, <1>13
  <2>3. \A a, d \in G : a = d \/ Apart(a, header'[a].size, d, header'[d].size)
    BY <1>1, <1>12 DEF FreeInv
  <2> HIDE DEF G
  <2> QED BY <2>1, <2>2, <2>3, <1>21 DEF FreeInv, Apart
<1>23. LinksInv(G, rank)'
  <2>1. \A a \in G : a # c.prev => header[a].next # y \/ y = 0
    BY <1>1, <1>6, <1>9 DEF LinksInv
  <2>2. \A a, d \in G : header'[a].next = header'[d].next => a = d \/ header'[a].next = 0
    <3> SUFFICES ASSUME NEW a \in G, NEW d \in G, header'[a].next = header'[d].next
                 PROVE  a = d \/ header'[a].next = 0
      OBVIOUS
    <3>1. CASE a = c.prev \/ d = c.prev
      BY <3>1, <2>1, <1>12
    <3>2. CASE a # c.prev /\ d # c.prev
      BY <3>2, <1>1, <1>12 DEF LinksInv
    <3> QED BY <3>1, <3>2
  <2>3. \A a \in G : header'[a].next # 0 => header'[a].next # head'
    <3> SUFFICES ASSUME NEW a \in G, header'[a].next # 0, header'[a].next = head' PROVE FALSE
      OBVIOUS
    <3>1. CASE c.prev = 0
      BY <3>1, <2>1, <1>8, <1>9, <1>12
    <3>2. CASE c.prev # 0
      BY <3>2, <1>1, <1>6, <1>8, <1>12 DEF LinksInv
    <3> QED BY <3>1, <3>2
  <2>4. \A a \in G : header'[a].next # 0 => rank[header'[a].next] < rank[a]
    <3> SUFFICES ASSUME NEW a \in G, header'[a].next # 0
                 PROVE  rank[header'[a].next] < rank[a]
      OBVIOUS
    <3>1. CASE a = c.prev
      BY <3>1, <1>9, <1>10, <1>11, <1>12
    <3>2. CASE a # c.prev
      BY <3>2, <1>1, <1>12 DEF LinksInv
    <3> QED BY <3>1, <3>2
  <2> HIDE DEF G
  <2> QED BY <2>2, <2>3, <2>4 DEF LinksInv
<1>24. CallInv(G)'
  BY <1>15 DEF CallInv
<1>25. G \in SUBSET List!Addresses
  BY <1>1
<1> HIDE DEF G
<1> QED BY <1>1, <1>15, <1>20, <1>22, <1>23, <1>24, <1>25 DEF ListInv, List!Addresses

LEMMA ListStep == ListNoWrap /\ ListInv /\ [List!Next]_List!vars => ListInv'
<1> SUFFICES ASSUME ListNoWrap, ListInv, [List!Next]_List!vars PROVE ListInv'
  OBVIOUS
<1>1. CASE UNCHANGED List!vars
  <2>1. UNCHANGED <<head, header, bump, at, call, held>>
    BY <1>1 DEF List!vars
  <2>2. PICK F \in SUBSET List!Addresses, rank \in [List!Addresses -> Nat] :
            FreeInv(F) /\ LinksInv(F, rank) /\ CallInv(F)
    BY DEF ListInv
  <2>3. ListTypes' /\ HeldInv'
    BY <2>1, SameMemory DEF ListInv, ListTypes, Header, List!Addresses
  <2>4. CallInv(F)'
    BY <2>1, <2>2 DEF CallInv, Room, List!Suits, MayBeFree, Apart, List!BlockSize,
       List!Greater, List!BlockAlign, List!Addresses
  <2> QED BY <2>1, <2>2, <2>3, <2>4, SameMemory DEF ListInv, List!Addresses
<1>2. CASE List!Next
  <2>1. \/ \E layout \in ListLayouts : List!Alloc(Single, layout)
        \/ List!WalkOn(Single) \/ List!Found(Single) \/ List!Unlink(Single)
        \/ List!WalkEnd(Single) \/ List!Fail(Single) \/ List!Bump(Single)
        \/ \E b \in held : List!Dealloc(Single, b)
        \/ List!WriteHeader(Single) \/ List!Push(Single)
    BY <1>2 DEF List!Next
  <2> QED BY <2>1, AllocKeeps, WalkOnKeeps, FoundKeeps, UnlinkKeeps, WalkEndKeeps, FailKeeps,
       BumpKeeps, DeallocKeeps, WriteHeaderKeeps, PushKeeps
<1> QED BY <1>1, <1>2

\* Whatever layouts are asked for and freed, in whatever order: between calls
\* the blocks that are held and those of the list share no byte and lie in the
\* heap, and each block held is aligned and has room for its header (alloc's
\* walk, unlink and bump, dealloc's push), for any heap away from the top of
\* memory.
THEOREM ListBlocksDisjoint ==
    ASSUME ListNoWrap
    PROVE  List!Init /\ [][List!Next]_List!vars => []BlocksDisjoint
<1>1. ListInv /\ [List!Next]_List!vars => ListInv'
  BY ListStep
<1> QED BY <1>1, ListInit, ListInvImplies, PTL

-----------------------------------------------------------------------------
(* FdTable: the vector, its reused slots and its scan for the first vacancy *)
(* cannot be told from a partial map that hands out the least descriptor.   *)

\* The vector has a slot for every index below its length, with one file in
\* it or none.
Slots ==
    /\ len \in 0..MaxFds
    /\ DOMAIN files = 0..len-1
    /\ \A fd \in DOMAIN files : files[fd] = Table!None \/ \E file \in Files : files[fd] = Table!Some(file)

\* The abstract table a state stands for.
Open == [fd \in Table!InUse |-> files[fd]]

-----------------------------------------------------------------------------
\* The vector keeps its shape: alloc grows it by one at most, close leaves
\* its length alone.
LEMMA SlotsInductive ==
    ASSUME MaxFds \in Nat, Slots, [Table!Next]_Table!vars
    PROVE  Slots'
<1>1. ASSUME NEW file \in Files, Table!Reuse(file) PROVE Slots'
    BY <1>1 DEF Table!Reuse, Slots, Table!FirstVacancy, Table!Some, Table!None
<1>2. ASSUME NEW file \in Files, Table!Push(file) PROVE Slots'
  <2>1. len' \in 0..MaxFds /\ 0..len = 0..len'-1
    BY <1>2 DEF Table!Push, Slots
  <2>2. DOMAIN files' = 0..len'-1
    BY <1>2, <2>1 DEF Table!Push
  <2>3. ASSUME NEW fd \in DOMAIN files'
        PROVE  files'[fd] = Table!None \/ \E g \in Files : files'[fd] = Table!Some(g)
    <3>1. CASE fd = len
      BY <3>1, <1>2, <2>1, <2>2 DEF Table!Push
    <3>2. CASE fd # len
      <4>1. fd \in DOMAIN files /\ files'[fd] = files[fd]
        BY <3>2, <1>2, <2>1, <2>2 DEF Table!Push, Slots
      <4> QED BY <4>1 DEF Slots
    <3> QED BY <3>1, <3>2
  <2> QED BY <2>1, <2>2, <2>3 DEF Slots, Table!None, Table!Some
<1>3. ASSUME NEW fd \in 0..MaxFds, Table!Get(fd) \/ Table!Close(fd) PROVE Slots'
    BY <1>3 DEF Table!Get, Table!Close, Table!InUse, Slots, Table!None, Table!Some
<1>4. CASE Table!Count \/ UNCHANGED Table!vars
    BY <1>4 DEF Table!Count, Table!vars, Slots, Table!None, Table!Some
<1> QED BY <1>1, <1>2, <1>3, <1>4 DEF Table!Next

-----------------------------------------------------------------------------
\* alloc into a slot that was closed hands out the least free descriptor.
LEMMA ReuseAllocates ==
    ASSUME MaxFds \in Nat, Slots, NEW file \in Files, Table!Reuse(file)
    PROVE  Table!Table!Alloc(file)
<1>1. PICK fd \in 0..len-1 :
        /\ Table!FirstVacancy(fd)
        /\ files' = [files EXCEPT ![fd] = Table!Some(file)]
        /\ result' = <<"alloc", fd>>
    BY DEF Table!Reuse
<1>2. fd \in 0..MaxFds-1 /\ fd \notin Table!InUse /\ 0..fd-1 \subseteq Table!InUse
    BY <1>1 DEF Table!FirstVacancy, Table!InUse, Slots
<1>3. Table!InUse' = Table!InUse \cup {fd}
    BY <1>1 DEF Table!InUse, Slots, Table!Some, Table!None
<1>4. Open' = [g \in Table!InUse \cup {fd} |-> IF g = fd THEN {file} ELSE Open[g]]
  <2>1. \A g \in Table!InUse \cup {fd} : files'[g] = IF g = fd THEN {file} ELSE files[g]
    BY <1>1 DEF Table!InUse, Slots, Table!Some
  <2> QED BY <1>3, <2>1 DEF Open
<1> QED BY <1>1, <1>2, <1>4 DEF Table!Table!Alloc, Open

\* So does alloc at the end of the vector, when every slot is taken.
LEMMA PushAllocates ==
    ASSUME MaxFds \in Nat, Slots, NEW file \in Files, Table!Push(file)
    PROVE  Table!Table!Alloc(file)
<1>1. len \in 0..MaxFds-1 /\ len \notin Table!InUse /\ 0..len-1 \subseteq Table!InUse
    BY DEF Table!Push, Table!InUse, Slots
<1>2. DOMAIN files' = 0..len
    BY DEF Table!Push
<1>3. \A g \in 0..len : files'[g] = IF g = len THEN {file} ELSE files[g]
    BY DEF Table!Push, Table!Some
<1>4. Table!InUse' = Table!InUse \cup {len}
  <2>1. Table!InUse' = {fd \in 0..len : files'[fd] # Table!None}
    BY <1>2 DEF Table!InUse
  <2>2. \A fd \in 0..len : files'[fd] # Table!None
    BY <1>1, <1>3 DEF Table!InUse, Table!None
  <2>3. 0..len = 0..len-1 \cup {len} /\ Table!InUse = 0..len-1
    BY <1>1 DEF Table!InUse, Slots
  <2> QED BY <2>1, <2>2, <2>3
<1>5. Open' = [g \in Table!InUse \cup {len} |-> IF g = len THEN {file} ELSE Open[g]]
  <2>1. Table!InUse \cup {len} \subseteq 0..len
    BY DEF Table!InUse, Slots
  <2> QED BY <1>3, <1>4, <2>1 DEF Open
<1> QED BY <1>1, <1>5 DEF Table!Table!Alloc, Open, Table!Push

\* close takes one descriptor out of use, or none, and says which.
LEMMA CloseCloses ==
    ASSUME MaxFds \in Nat, Slots, NEW fd \in 0..MaxFds, Table!Close(fd)
    PROVE  Table!Table!Close(fd)
<1>1. CASE fd \in Table!InUse
  <2>1. files' = [files EXCEPT ![fd] = Table!None] /\ result' = <<"close", TRUE>>
    BY <1>1 DEF Table!Close
  <2>2. Table!InUse' = Table!InUse \ {fd}
    BY <1>1, <2>1 DEF Table!InUse, Slots, Table!None
  <2>3. \A g \in Table!InUse \ {fd} : files'[g] = files[g]
    BY <2>1 DEF Table!InUse
  <2>4. Open' = [g \in Table!InUse \ {fd} |-> Open[g]]
    BY <2>2, <2>3 DEF Open
  <2> QED BY <1>1, <2>1, <2>4 DEF Table!Table!Close, Open
<1>2. CASE fd \notin Table!InUse
  <2>1. files' = files /\ result' = <<"close", FALSE>>
    BY <1>2 DEF Table!Close
  <2>2. Open' = [g \in Table!InUse \ {fd} |-> Open[g]]
    BY <1>2, <2>1 DEF Open, Table!InUse
  <2>3. fd \notin DOMAIN Open /\ DOMAIN Open = Table!InUse
    BY <1>2 DEF Open
  <2>4. result' = <<"close", fd \in DOMAIN Open>>
    <3>1. (fd \in DOMAIN Open) = FALSE
      BY <2>3
    <3> QED BY <2>1, <3>1
  <2>5. Open' = [g \in DOMAIN Open \ {fd} |-> Open[g]]
    BY <2>2, <2>3
  <2> QED BY <2>4, <2>5 DEF Table!Table!Close, Open
<1> QED BY <1>1, <1>2

\* get and count only look.
LEMMA LooksLook ==
    ASSUME MaxFds \in Nat, Slots, NEW fd \in 0..MaxFds
    PROVE  /\ Table!Get(fd) => Table!Table!Get(fd)
           /\ Table!Count => Table!Table!Count
<1>1. (IF fd < len THEN files[fd] ELSE Table!None) = (IF fd \in Table!InUse THEN Open[fd] ELSE {})
  <2>1. fd < len <=> fd \in DOMAIN files
    BY DEF Slots
  <2>2. CASE fd \in Table!InUse
    BY <2>1, <2>2 DEF Table!InUse, Open
  <2>3. CASE fd \notin Table!InUse
    BY <2>1, <2>3 DEF Table!InUse, Table!None
  <2> QED BY <2>2, <2>3
<1>2. files' = files => Open' = Open
    BY DEF Open, Table!InUse
<1>3. DOMAIN Open = Table!InUse
    BY DEF Open
<1>4. Table!Get(fd) => Table!Table!Get(fd)
    BY <1>1, <1>2, <1>3 DEF Table!Get, Table!Table!Get, Open
<1>5. Table!Count => Table!Table!Count
    BY <1>2, <1>3 DEF Table!Count, Table!Table!Count, Open, Cardinality, Table!Cardinality, Table!Table!Cardinality
<1> QED BY <1>4, <1>5

-----------------------------------------------------------------------------
\* FdTable (lib.rs:58-102) implements the descriptor table its documentation
\* describes, for any set of files and any bound on the vector: alloc returns
\* the smallest free descriptor, and get, close and count see exactly those
\* that were handed out and not closed since.
THEOREM IsDescriptorTable ==
    ASSUME MaxFds \in Nat
    PROVE  Table!Spec => ImplementsDescriptors
<1>1. Table!Init => Slots /\ Table!Table!Init
    BY DEF Table!Init, Slots, Table!Table!Init, Table!InUse
<1>2. Slots /\ [Table!Next]_Table!vars => Slots'
    BY SlotsInductive
<1>3. Slots /\ [Table!Next]_Table!vars => [Table!Table!Next]_<<Open, result>>
  <2> SUFFICES ASSUME Slots, [Table!Next]_Table!vars PROVE [Table!Table!Next]_<<Open, result>>
    OBVIOUS
  <2>1. ASSUME NEW file \in Files, Table!Reuse(file) \/ Table!Push(file) PROVE Table!Table!Next
    BY <2>1, ReuseAllocates, PushAllocates DEF Table!Table!Next
  <2>2. ASSUME NEW fd \in 0..MaxFds, Table!Get(fd) \/ Table!Close(fd) PROVE Table!Table!Next
    BY <2>2, LooksLook, CloseCloses DEF Table!Table!Next
  <2>3. CASE Table!Count
    BY <2>3, LooksLook, 0 \in 0..MaxFds DEF Table!Table!Next
  <2>4. CASE UNCHANGED Table!vars
    BY <2>4 DEF Table!vars, Open, Table!InUse
  <2> QED BY <2>1, <2>2, <2>3, <2>4 DEF Table!Next
<1> QED BY <1>1, <1>2, <1>3, PTL DEF Table!Spec, ImplementsDescriptors, Table!ImplementsDescriptors, Table!Table!Spec, Open

-----------------------------------------------------------------------------
(* Syscalls: what asm! declares against what the ABI says. *)

Names == {"write", "read", "close", "exit"}

\* The two tables agree for both systems: the operands are the registers of the
\* call's number and first three arguments, all different; the result is taken
\* from where the kernel leaves it; what the instruction destroys is declared;
\* and a number stands for one name.
LEMMA AsmMeetsAbi ==
    ASSUME NEW a \in Sys!Linux
    PROVE  /\ Sys!Operands[a].in =
                <<Sys!Abi[a].id, Sys!Abi[a].args[1], Sys!Abi[a].args[2], Sys!Abi[a].args[3]>>
           /\ \A j, k \in 1..4 : Sys!Operands[a].in[j] = Sys!Operands[a].in[k] => j = k
           /\ \A k \in 1..4 : Sys!Operands[a].in[k] \in Sys!Registers(a)
           /\ Sys!Operands[a].out = Sys!Abi[a].ret /\ Sys!Abi[a].ret \in Sys!Registers(a)
           /\ Sys!Operands[a].discarded = Sys!Abi[a].clobbered
           /\ Sys!Abi[a].ret \notin Sys!Abi[a].clobbered
           /\ DOMAIN Sys!Abi[a].number = Names
           /\ Sys!Native[a] = Sys!Abi[a].number
           /\ \A m, n \in Names : Sys!Abi[a].number[m] = Sys!Abi[a].number[n] => m = n
  <1>1. CASE a = "x86_64"
    BY <1>1 DEF Sys!Operands, Sys!Abi, Sys!Native, Sys!AsmGeneric, Sys!Registers, Sys!Range, Names
  <1>2. CASE a = "aarch64"
    BY <1>2 DEF Sys!Operands, Sys!Abi, Sys!Native, Sys!AsmGeneric, Sys!Registers, Sys!Range, Names
  <1>. QED  BY <1>1, <1>2 DEF Sys!Linux

\* The call is where the kernel looks for it ...
Passed(r) ==
    /\ regs[Sys!Abi[arch].id] = Sys!Native[arch][r[1]]
    /\ \A k \in 1..3 : regs[Sys!Abi[arch].args[k]] = r[k + 1]

\* ... and after the trap its result is where the wrapper takes it from, and
\* the registers that are not declared are as they were.
Answered ==
    /\ served = <<request[1], request[2], request[3], request[4], served[5]>>
    /\ phase = "gone" <=> request[1] = "exit"
    /\ regs[Sys!Abi[arch].ret] = served[5]
    /\ \A q \in DOMAIN regs \ Sys!Declared : regs[q] = loaded[q]
    /\ phase = "returned" => ret = served[5]

SysInv ==
    /\ arch \in Sys!Linux \cup {"not linux"}
    /\ phase \in {"idle", "panic", "trap", "return", "returned", "gone"}
    /\ phase \notin {"idle", "panic"} => arch \in Sys!Linux /\ request \in Sys!Requests
    /\ arch \in Sys!Linux => DOMAIN regs = Sys!Registers(arch)
    /\ phase = "trap" => loaded = regs /\ Passed(request)
    /\ phase \in {"return", "returned", "gone"} => Answered

\* Each operand is in its own register.
LEMMA LoadPasses ==
    ASSUME SysInv, arch \in Sys!Linux, NEW r \in Sys!Requests, Sys!Load(r)
    PROVE  SysInv'
  <1>. DEFINE in == Sys!Operands[arch].in
              operand == <<Sys!Native[arch][r[1]], r[2], r[3], r[4]>>
  <1>1. /\ request' = r /\ loaded' = regs' /\ phase' = "trap" /\ arch' = arch
        /\ DOMAIN regs' = Sys!Registers(arch)
        /\ \A q \in Sys!Registers(arch) :
              q \in Sys!Range(in) => regs'[q] = operand[CHOOSE k \in 1..4 : in[k] = q]
    BY DEF Sys!Load, SysInv, Sys!Range
  <1>2. /\ in = <<Sys!Abi[arch].id, Sys!Abi[arch].args[1], Sys!Abi[arch].args[2], Sys!Abi[arch].args[3]>>
        /\ \A j, k \in 1..4 : in[j] = in[k] => j = k
        /\ \A k \in 1..4 : in[k] \in Sys!Registers(arch)
    BY AsmMeetsAbi
  <1>. HIDE DEF in, operand
  <1>3. ASSUME NEW k \in 1..4 PROVE regs'[in[k]] = operand[k]
    <2>1. DOMAIN in = 1..4
      BY <1>2
    <2>2. in[k] \in Sys!Range(in)
      BY <2>1 DEF Sys!Range
    <2>3. (CHOOSE j \in 1..4 : in[j] = in[k]) = k
      BY <1>2
    <2>. QED  BY <1>1, <1>2, <2>2, <2>3
  <1>4. Passed(r)'
    <2>1. regs'[in[1]] = operand[1] /\ regs'[in[2]] = operand[2]
          /\ regs'[in[3]] = operand[3] /\ regs'[in[4]] = operand[4]
      BY <1>3
    <2>. QED  BY <1>1, <1>2, <2>1 DEF Passed, operand
  <1>. QED  BY <1>1, <1>4 DEF SysInv, Passed

\* The kernel reads the call that was made and writes no register that is not
\* declared.
LEMMA KernelAnswers ==
    ASSUME SysInv, NEW answer \in Words, Sys!Kernel(answer)
    PROVE  SysInv'
  <1>. DEFINE abi == Sys!Abi[arch]
              name == CHOOSE n \in DOMAIN abi.number : abi.number[n] = regs[abi.id]
  <1>1. /\ phase = "trap" /\ arch \in Sys!Linux /\ request \in Sys!Requests
        /\ loaded = regs /\ Passed(request) /\ DOMAIN regs = Sys!Registers(arch)
    BY DEF Sys!Kernel, SysInv
  <1>2. /\ served' = <<name, regs[abi.args[1]], regs[abi.args[2]], regs[abi.args[3]], answer>>
        /\ regs' = [q \in DOMAIN regs |->
                      IF q = abi.ret THEN answer
                      ELSE IF q \in abi.clobbered THEN Junk ELSE regs[q]]
        /\ phase' = IF name = "exit" THEN "gone" ELSE "return"
        /\ UNCHANGED <<arch, loaded, request, ret>>
    BY DEF Sys!Kernel
  <1>3. /\ DOMAIN abi.number = Names
        /\ regs[abi.id] = abi.number[request[1]]
        /\ \A m, n \in Names : abi.number[m] = abi.number[n] => m = n
        /\ abi.ret \in Sys!Registers(arch)
        /\ Sys!Declared = {abi.ret} \cup abi.clobbered
    BY <1>1, AsmMeetsAbi DEF Passed, Sys!Declared
  <1>4. request[1] \in Names
    BY <1>1 DEF Sys!Requests, Names
  <1>5. name = request[1]
    BY <1>3, <1>4
  <1>6. /\ regs[abi.args[1]] = request[2] /\ regs[abi.args[2]] = request[3]
        /\ regs[abi.args[3]] = request[4]
    BY <1>1 DEF Passed
  <1>. HIDE DEF abi, name
  <1>7. served' = <<request[1], request[2], request[3], request[4], answer>> /\ served'[5] = answer
    BY <1>2, <1>5, <1>6
  <1>8. /\ DOMAIN regs' = DOMAIN regs
        /\ regs'[abi.ret] = answer
        /\ \A q \in DOMAIN regs \ Sys!Declared : regs'[q] = regs[q]
    BY <1>1, <1>2, <1>3
  <1>9. Sys!Declared' = Sys!Declared
    BY <1>2 DEF Sys!Declared
  <1>10. Answered'
    BY <1>1, <1>2, <1>5, <1>7, <1>8, <1>9 DEF Answered, abi
  <1>. QED  BY <1>1, <1>2, <1>8, <1>10 DEF SysInv

LEMMA SysStep == SysInv /\ [Sys!Next]_Sys!vars => SysInv'
  <1>. SUFFICES ASSUME SysInv, [Sys!Next]_Sys!vars PROVE SysInv'
    OBVIOUS
  <1>1. CASE Sys!Return
    <2>1. Sys!Operands[arch].out = Sys!Abi[arch].ret
      BY <1>1, AsmMeetsAbi DEF Sys!Return, SysInv
    <2>. QED  BY <1>1, <2>1 DEF Sys!Return, Sys!Declared, SysInv, Answered
  <1>2. CASE Sys!CallAgain \/ Sys!Panic
    BY <1>2 DEF Sys!CallAgain, Sys!Panic, SysInv
  <1>3. CASE UNCHANGED Sys!vars
    BY <1>3 DEF Sys!vars, Sys!Declared, SysInv, Passed, Answered
  <1>. QED  BY <1>1, <1>2, <1>3, LoadPasses, KernelAnswers DEF Sys!Next

\* The wrappers of both systems, in any sequence of calls with any arguments:
\* the kernel serves the call that was made, the wrapper returns its result, and
\* every register that asm! does not declare written survives the instruction.
THEOREM WrappersServed == Sys!Init /\ [][Sys!Next]_Sys!vars => []CallServed
  <1>1. Sys!Init => SysInv
    BY DEF Sys!Init, SysInv
  <1>2. SysInv => CallServed
    <2>. SUFFICES ASSUME SysInv, phase \in {"return", "returned", "gone"} PROVE Sys!CallServed
      BY DEF CallServed, Sys!CallServed
    <2>1. Answered /\ request \in Sys!Requests
      BY DEF SysInv
    <2>2. request = <<request[1], request[2], request[3], request[4]>>
      BY <2>1 DEF Sys!Requests
    <2>3. SubSeq(served, 1, 4) = <<request[1], request[2], request[3], request[4]>>
      <3>1. SubSeq(served, 1, 4) = [i \in 1..4 |-> served[i]]
        OBVIOUS
      <3>2. \A i \in 1..4 :
               served[i] = <<request[1], request[2], request[3], request[4]>>[i]
        BY <2>1 DEF Answered
      <3>3. [i \in 1..4 |-> <<request[1], request[2], request[3], request[4]>>[i]]
               = <<request[1], request[2], request[3], request[4]>>
        OBVIOUS
      <3>. QED  BY <3>1, <3>2, <3>3
    <2>. QED  BY <2>1, <2>2, <2>3 DEF Answered, Sys!CallServed
  <1>. QED  BY <1>1, <1>2, SysStep, PTL

-----------------------------------------------------------------------------
(* MemPrimitives. *)

\* The memories after each byte of a loop that writes at dst, in the given
\* order: MemPrimitives' recursive functions.  A copying loop reads at src.
Written(mem, kind, order, dst, src, c, k) ==
    [mem EXCEPT ![dst + order[k]] = IF kind = "copy" THEN mem[src + order[k]] ELSE c]

Loop(after, n, kind, order, dst, src, c) ==
    after = [k \in 0..n |->
        IF k = 0 THEN memory ELSE Written(after[k - 1], kind, order, dst, src, c, k)]

LEMMA LoopExists ==
    ASSUME NEW n \in Nat, NEW kind \in {"copy", "set"}, NEW order, NEW dst, NEW src, NEW c
    PROVE  \E after : Loop(after, n, kind, order, dst, src, c)
<1> DEFINE S == {k \in Nat : ~ \E after : Loop(after, k, kind, order, dst, src, c)}
           Byte(mem, k) == Written(mem, kind, order, dst, src, c, k)
<1>1. SUFFICES ASSUME S # {} PROVE FALSE
  BY <1>1
<1>2. PICK k \in S : \A j \in S : k <= j
  <2>1. S \subseteq Nat /\ S # {}  BY <1>1
  <2> HIDE DEF S
  <2> QED BY <2>1, LeastNat
<1>3. CASE k = 0
  <2> DEFINE f == [i \in 0..0 |-> memory]
  <2>1. Loop(f, 0, kind, order, dst, src, c)  BY DEF Loop
  <2> QED BY <2>1, <1>2, <1>3
<1>4. CASE k # 0
  <2>1. k - 1 \in Nat /\ k - 1 \notin S  BY <1>2, <1>4
  <2>2. PICK g : Loop(g, k - 1, kind, order, dst, src, c)  BY <2>1
  <2> HIDE DEF Byte
  <2>3. g = [i \in 0..(k - 1) |-> IF i = 0 THEN memory ELSE Byte(g[i - 1], i)]
    BY <2>2, Zenon DEF Loop, Byte
  <2> DEFINE f == [i \in 0..k |-> IF i = 0 THEN memory ELSE Byte(g[i - 1], i)]
  <2>4. ASSUME NEW i \in 0..(k - 1) PROVE f[i] = g[i]
    <3>1. i \in 0..k  BY <2>1
    <3>2. f[i] = IF i = 0 THEN memory ELSE Byte(g[i - 1], i)
      BY <3>1, Zenon
    <3>3. g[i] = IF i = 0 THEN memory ELSE Byte(g[i - 1], i)
      BY <2>3, Zenon
    <3> QED BY <3>2, <3>3, Zenon
  <2>5. \A i \in 0..k : i # 0 => i - 1 \in 0..(k - 1)
    BY <2>1
  <2>6. f = [i \in 0..k |-> IF i = 0 THEN memory ELSE Byte(f[i - 1], i)]
    <3>1. \A i \in 0..k : i # 0 => f[i - 1] = g[i - 1]
      BY <2>4, <2>5
    <3> QED BY <3>1, Zenon
  <2>7. Loop(f, k, kind, order, dst, src, c)
    <3> HIDE DEF f
    <3> QED BY <2>6, Zenon DEF Loop, Byte
  <2> QED BY <2>7, <1>2
<1> QED BY <1>3, <1>4

MemTypes == memory \in [Mem!Addresses -> MemBytes]

\* A loop over n bytes whose reads never meet a byte it has written.
LoopSafe(n, kind, order, dst, src) ==
    /\ n \in Nat /\ order \in [1..n -> 0..n-1]
    /\ \A i \in 0..n-1 : \E k \in 1..n : order[k] = i
    /\ dst \in Mem!Addresses /\ src \in Mem!Addresses
    /\ dst + n <= MemSize /\ src + n <= MemSize
    /\ kind = "copy" => \A j, k \in 1..n : j < k => dst + order[j] # src + order[k]

\* mem holds at dst what was at src before the call, or c; nothing else changed.
LoopDone(mem, n, kind, dst, src, c) ==
    /\ mem = [a \in Mem!Addresses |-> mem[a]]
    /\ \A a \in Mem!Addresses :
          mem[a] = IF a \in dst..dst+n-1
                   THEN IF kind = "copy" THEN memory[a - dst + src] ELSE c
                   ELSE memory[a]

LEMMA LoopResult ==
    ASSUME MemTypes, NEW n, NEW kind, NEW order, NEW dst, NEW src, NEW c,
           LoopSafe(n, kind, order, dst, src),
           NEW after, Loop(after, n, kind, order, dst, src, c)
    PROVE  LoopDone(after[n], n, kind, dst, src, c)
<1>0. /\ n \in Nat /\ order \in [1..n -> 0..n-1]
      /\ \A i \in 0..n-1 : \E k \in 1..n : order[k] = i
      /\ dst \in Mem!Addresses /\ src \in Mem!Addresses
      /\ dst + n <= MemSize /\ src + n <= MemSize
      /\ kind = "copy" => \A j, k \in 1..n : j < k => dst + order[j] # src + order[k]
  BY DEF LoopSafe
<1> DEFINE Upto(k, a) == \E j \in 1..k : a = dst + order[j]
           Mid(k) == [a \in Mem!Addresses |->
                         IF Upto(k, a) THEN IF kind = "copy" THEN memory[a - dst + src] ELSE c
                         ELSE memory[a]]
           S == {k \in 0..n : after[k] # Mid(k)}
<1>1. /\ after[0] = memory
      /\ \A k \in 1..n : after[k] = Written(after[k - 1], kind, order, dst, src, c, k)
  <2>1. after = [k \in 0..n |->
            IF k = 0 THEN memory ELSE Written(after[k - 1], kind, order, dst, src, c, k)]
    BY Zenon DEF Loop
  <2>2. 0 \in 0..n /\ \A k \in 1..n : k \in 0..n /\ k # 0
    BY <1>0
  <2> QED BY <2>1, <2>2, Zenon
<1>2. S = {}
  <2>1. SUFFICES ASSUME S # {} PROVE FALSE
    OBVIOUS
  <2>2. PICK k \in S : \A j \in S : k <= j
    <3> HIDE DEF Mid
    <3>1. S \subseteq Nat /\ S # {}  BY <2>1
    <3> HIDE DEF S
    <3> QED BY <3>1, LeastNat
  <2>3. k # 0
    <3>1. Mid(0) = memory
      BY <1>0 DEF MemTypes
    <3> HIDE DEF Mid
    <3> QED BY <1>1, <2>2, <3>1
  <2>4. k \in 1..n /\ k - 1 \in 0..n /\ k - 1 \notin S
    <3> HIDE DEF Mid
    <3> QED BY <1>0, <2>2, <2>3
  <2>5. after[k - 1] = Mid(k - 1)
    BY <2>4
  <2> DEFINE to == dst + order[k]
             from == src + order[k]
             byte == IF kind = "copy" THEN Mid(k - 1)[from] ELSE c
  <2>6. order[k] \in 0..n-1 /\ to \in Mem!Addresses /\ from \in Mem!Addresses
    <3>1. order[k] \in 0..n-1
      BY <1>0, <2>4
    <3>2. to \in 0..MemSize-1 /\ from \in 0..MemSize-1
      BY <1>0, <3>1, MemoryAssumption DEF Mem!Addresses
    <3> QED BY <3>1, <3>2 DEF Mem!Addresses
  <2>7. kind = "copy" => byte = memory[to - dst + src]
    <3>1. ASSUME kind = "copy" PROVE ~Upto(k - 1, from)
      BY <1>0, <2>4, <3>1
    <3>2. to - dst + src = from
      BY <1>0, <2>6, MemoryAssumption DEF Mem!Addresses
    <3> QED BY <2>6, <3>1, <3>2
  <2>8. after[k] = [Mid(k - 1) EXCEPT ![to] = byte]
    BY <1>1, <2>4, <2>5, Zenon DEF Written
  <2>9. \A a : Upto(k, a) <=> Upto(k - 1, a) \/ a = to
    BY <2>4
  <2>10. after[k] = Mid(k)
    <3> HIDE DEF Upto, byte, to
    <3>1. [Mid(k - 1) EXCEPT ![to] = byte]
             = [a \in Mem!Addresses |-> IF a = to THEN byte ELSE Mid(k - 1)[a]]
      BY Zenon
    <3>2. \A a \in Mem!Addresses : (IF a = to THEN byte ELSE Mid(k - 1)[a])
             = IF Upto(k, a) THEN IF kind = "copy" THEN memory[a - dst + src] ELSE c ELSE memory[a]
      <4>1. kind # "copy" => byte = c
        BY DEF byte
      <4> QED BY <2>7, <2>9, <4>1
    <3> QED BY <2>8, <3>1, <3>2, Zenon
  <2> QED BY <2>2, <2>10
<1>3. after[n] = Mid(n)
  <2>1. n \in 0..n
    BY <1>0
  <2> QED BY <1>2, <2>1
<1>4. \A a \in Mem!Addresses : Upto(n, a) <=> a \in dst..dst+n-1
  <2> TAKE a \in Mem!Addresses
  <2>1. a \in Nat /\ dst \in Nat
    BY <1>0, MemoryAssumption DEF Mem!Addresses
  <2>2. ASSUME Upto(n, a) PROVE a \in dst..dst+n-1
    BY <1>0, <2>1, <2>2
  <2>3. ASSUME a \in dst..dst+n-1 PROVE Upto(n, a)
    <3>1. a - dst \in 0..n-1
      BY <1>0, <2>1, <2>3
    <3>2. PICK k \in 1..n : order[k] = a - dst
      BY <1>0, <3>1
    <3> QED BY <2>1, <3>2
  <2> QED BY <2>2, <2>3
<1> HIDE DEF Upto
<1> QED BY <1>3, <1>4 DEF LoopDone

\* Both copying orders write each of n bytes once.
LEMMA Orders ==
    ASSUME NEW n \in Nat
    PROVE  \A order \in {Mem!Ascending(n), Mem!Descending(n)} :
              /\ order \in [1..n -> 0..n-1] /\ Len(order) = n
              /\ \A i \in 0..n-1 : \E k \in 1..n : order[k] = i
<1>1. Mem!Ascending(n) \in [1..n -> 0..n-1] /\ Mem!Descending(n) \in [1..n -> 0..n-1]
  BY DEF Mem!Ascending, Mem!Descending
<1>2. Len(Mem!Ascending(n)) = n /\ Len(Mem!Descending(n)) = n
  BY DEF Mem!Ascending, Mem!Descending
<1>3. ASSUME NEW i \in 0..n-1
      PROVE  /\ \E k \in 1..n : Mem!Ascending(n)[k] = i
             /\ \E k \in 1..n : Mem!Descending(n)[k] = i
  <2>1. i + 1 \in 1..n /\ Mem!Ascending(n)[i + 1] = i
    BY DEF Mem!Ascending
  <2>2. n - i \in 1..n /\ Mem!Descending(n)[n - i] = i
    BY DEF Mem!Descending
  <2> QED BY <2>1, <2>2
<1> QED BY <1>1, <1>2, <1>3

LEMMA CopyResult ==
    ASSUME MemTypes, NEW dst \in Mem!Addresses, NEW src \in Mem!Addresses,
           NEW n \in 0..MemSize, Mem!Within(dst, n), Mem!Within(src, n),
           NEW order \in {Mem!Ascending(n), Mem!Descending(n)},
           \A j, k \in 1..n : j < k => dst + order[j] # src + order[k]
    PROVE  Mem!CopyBytes(order, dst, src) = [a \in Mem!Addresses |->
              IF a \in dst..dst+n-1 THEN memory[a - dst + src] ELSE memory[a]]
<1>1. n \in Nat
  BY MemoryAssumption
<1>2. LoopSafe(n, "copy", order, dst, src) /\ Len(order) = n
  BY <1>1, Orders DEF LoopSafe, Mem!Within
<1>3. PICK after : /\ Loop(after, n, "copy", order, dst, src, 0)
                   /\ Mem!CopyBytes(order, dst, src) = after[n]
  <2>1. \E after : Loop(after, n, "copy", order, dst, src, 0)
    BY <1>1, LoopExists
  <2>2. \A after : Loop(after, n, "copy", order, dst, src, 0) <=>
          after = [k \in 0..Len(order) |->
              IF k = 0 THEN memory
              ELSE [after[k - 1] EXCEPT ![dst + order[k]] = after[k - 1][src + order[k]]]]
    BY <1>2, Zenon DEF Loop, Written
  <2> QED BY <1>2, <2>1, <2>2, Zenon DEF Mem!CopyBytes
<1>4. LoopDone(after[n], n, "copy", dst, src, 0)
  BY <1>2, <1>3, LoopResult, Zenon
<1> QED BY <1>3, <1>4 DEF LoopDone

LEMMA MemsetResult ==
    ASSUME MemTypes, NEW dst \in Mem!Addresses, NEW c, NEW n \in 0..MemSize, Mem!Within(dst, n)
    PROVE  Mem!Memset(dst, c, n) = [a \in Mem!Addresses |->
              IF a \in dst..dst+n-1 THEN c ELSE memory[a]]
<1> DEFINE order == Mem!Ascending(n)
<1>1. n \in Nat
  BY MemoryAssumption
<1>2. LoopSafe(n, "set", order, dst, dst)
  BY <1>1, Orders DEF LoopSafe, Mem!Within
<1> HIDE DEF order
<1>3. PICK after : /\ Loop(after, n, "set", order, dst, dst, c)
                   /\ Mem!Memset(dst, c, n) = after[n]
  <2>1. \E after : Loop(after, n, "set", order, dst, dst, c)
    BY <1>1, LoopExists
  <2>2. \A after : Loop(after, n, "set", order, dst, dst, c) <=>
          after = [k \in 0..n |->
              IF k = 0 THEN memory ELSE [after[k - 1] EXCEPT ![dst + order[k]] = c]]
    BY Zenon DEF Loop, Written
  <2> QED BY <2>1, <2>2, Zenon DEF Mem!Memset, order
<1>4. LoopDone(after[n], n, "set", dst, dst, c)
  BY <1>2, <1>3, LoopResult, Zenon
<1> QED BY <1>3, <1>4 DEF LoopDone

\* my_memcpy, upwards, is right unless dst lies behind src and within its
\* reach; my_memmove takes the other direction in that case.
LEMMA MemcpyResult ==
    ASSUME MemTypes, NEW dst \in Mem!Addresses, NEW src \in Mem!Addresses,
           NEW n \in 0..MemSize, Mem!Within(dst, n), Mem!Within(src, n),
           ~(dst > src /\ dst < src + n)
    PROVE  Mem!Memcpy(dst, src, n) = [a \in Mem!Addresses |->
              IF a \in dst..dst+n-1 THEN memory[a - dst + src] ELSE memory[a]]
<1>1. n \in Nat /\ dst \in Nat /\ src \in Nat
  BY MemoryAssumption DEF Mem!Addresses
<1>2. \A j, k \in 1..n : j < k => dst + Mem!Ascending(n)[j] # src + Mem!Ascending(n)[k]
  BY <1>1 DEF Mem!Ascending
<1> QED BY <1>2, CopyResult DEF Mem!Memcpy

LEMMA MemmoveResult ==
    ASSUME MemTypes, NEW dst \in Mem!Addresses, NEW src \in Mem!Addresses,
           NEW n \in 0..MemSize, Mem!Within(dst, n), Mem!Within(src, n)
    PROVE  Mem!Memmove(dst, src, n) = [a \in Mem!Addresses |->
              IF a \in dst..dst+n-1 THEN memory[a - dst + src] ELSE memory[a]]
<1>1. n \in Nat /\ dst \in Nat /\ src \in Nat
  BY MemoryAssumption DEF Mem!Addresses
<1>2. CASE n = 0 \/ dst = src
  <2>1. \A a \in Mem!Addresses : a \in dst..dst+n-1 => a - dst + src = a
    BY <1>1, <1>2 DEF Mem!Addresses
  <2>2. memory = [a \in Mem!Addresses |-> memory[a]]
    BY DEF MemTypes
  <2>3. memory = [a \in Mem!Addresses |->
              IF a \in dst..dst+n-1 THEN memory[a - dst + src] ELSE memory[a]]
    BY <2>1, <2>2
  <2> QED BY <1>2, <2>3 DEF Mem!Memmove
<1>3. CASE ~(n = 0 \/ dst = src) /\ dst > src /\ dst < src + n
  <2>1. \A j, k \in 1..n : j < k => dst + Mem!Descending(n)[j] # src + Mem!Descending(n)[k]
    BY <1>1, <1>3 DEF Mem!Descending
  <2> QED BY <1>3, <2>1, CopyResult DEF Mem!Memmove
<1>4. CASE ~(n = 0 \/ dst = src) /\ ~(dst > src /\ dst < src + n)
  BY <1>4, MemcpyResult DEF Mem!Memmove
<1> QED BY <1>2, <1>3, <1>4

------------------------------------------------------------------------------
\* A string ends at its first 0; my_strlen returns its length.
EndsAt(s, n) ==
    /\ n \in Nat /\ s + n \in Mem!Addresses
    /\ memory[s + n] = 0 /\ \A j \in 0..n-1 : memory[s + j] # 0

LEMMA StringEnds ==
    ASSUME NEW s \in Mem!Addresses, Mem!IsString(s)
    PROVE  \E n \in Nat : EndsAt(s, n)
<1> DEFINE S == {n \in Nat : s + n \in Mem!Addresses /\ memory[s + n] = 0}
<1>1. s \in Nat
  BY MemoryAssumption DEF Mem!Addresses
<1>2. S # {}
  <2>1. PICK a \in s..MemSize-1 : memory[a] = 0
    BY DEF Mem!IsString
  <2>2. a - s \in Nat /\ s + (a - s) = a /\ a \in Mem!Addresses
    BY <1>1, <2>1, MemoryAssumption DEF Mem!Addresses
  <2> QED BY <2>1, <2>2
<1>3. PICK n \in S : \A j \in S : n <= j
  <2>1. S \subseteq Nat
    OBVIOUS
  <2> HIDE DEF S
  <2> QED BY <1>2, <2>1, LeastNat
<1>4. ASSUME NEW j \in 0..n-1 PROVE memory[s + j] # 0
  <2>1. j \in Nat /\ ~(n <= j) /\ s + j \in Mem!Addresses
    BY <1>1, <1>3, MemoryAssumption DEF Mem!Addresses
  <2> QED BY <1>3, <2>1
<1> QED BY <1>3, <1>4 DEF EndsAt

LEMMA StringIs ==
    ASSUME MemTypes, NEW s \in Mem!Addresses, NEW n, EndsAt(s, n)
    PROVE  /\ Mem!String(s) \in Seq(Nat)
           /\ Len(Mem!String(s)) = n
           /\ \A k \in 1..n : Mem!String(s)[k] = memory[s + k - 1]
<1>1. s \in Nat /\ n \in Nat /\ s + n \in 0..MemSize-1 /\ MemSize \in Nat
  BY MemoryAssumption DEF Mem!Addresses, EndsAt
<1> DEFINE end == CHOOSE a \in s..MemSize : memory[a] = 0 /\ \A b \in s..a-1 : memory[b] # 0
           all == [k \in 1..MemSize |-> memory[k - 1]]
<1>2. end = s + n
  <2>1. /\ s + n \in s..MemSize /\ memory[s + n] = 0
        /\ \A b \in s..(s + n)-1 : memory[b] # 0
    <3>1. ASSUME NEW b \in s..(s + n)-1 PROVE memory[b] # 0
      <4>1. b - s \in 0..n-1 /\ s + (b - s) = b
        BY <1>1, <3>1
      <4> QED BY <4>1 DEF EndsAt
    <3> QED BY <1>1, <3>1 DEF EndsAt
  <2>2. \A a \in s..MemSize :
            memory[a] = 0 /\ (\A b \in s..a-1 : memory[b] # 0) => a = s + n
    <3>1. SUFFICES ASSUME NEW a \in s..MemSize, memory[a] = 0, \A b \in s..a-1 : memory[b] # 0
                   PROVE  a = s + n
      OBVIOUS
    <3>2. ~(a < s + n)
      <4>1. a < s + n => a \in s..(s + n)-1
        BY <1>1, <3>1
      <4> QED BY <2>1, <3>1, <4>1
    <3>3. ~(s + n < a)
      <4>1. s + n < a => s + n \in s..a-1
        BY <1>1, <3>1
      <4> QED BY <2>1, <3>1, <4>1
    <3> QED BY <1>1, <3>1, <3>2, <3>3
  <2> QED BY <2>1, <2>2, Zenon
<1>3. all \in Seq(Nat) /\ Len(all) = MemSize
  <2>1. ASSUME NEW k \in 1..MemSize PROVE memory[k - 1] \in Nat
    <3>1. k - 1 \in Mem!Addresses
      BY <1>1 DEF Mem!Addresses
    <3>2. memory[k - 1] \in MemBytes
      BY <3>1 DEF MemTypes
    <3> QED BY <3>2, MemoryAssumption
  <2> QED BY <1>1, <2>1
<1>4. Mem!String(s) = SubSeq(all, s + 1, s + n)
  BY <1>2, Zenon DEF Mem!String
<1>5. \A k \in 1..n : all[s + 1 + k - 1] = memory[s + k - 1]
  <2>1. \A k \in 1..n : s + 1 + k - 1 = s + k /\ s + k \in 1..MemSize
    BY <1>1
  <2>2. \A b \in 1..MemSize : all[b] = memory[b - 1]
    OBVIOUS
  <2>3. \A k \in 1..n : all[s + k] = memory[(s + k) - 1]
    <3> HIDE DEF all
    <3> QED BY <2>1, <2>2
  <2>4. \A k \in 1..n : (s + k) - 1 = s + k - 1 /\ s + 1 + k - 1 = s + k
    BY <1>1
  <2> HIDE DEF all
  <2> QED BY <2>3, <2>4
<1> HIDE DEF all
<1>6. SubSeq(all, s + 1, s + n) \in Seq(Nat) /\ Len(SubSeq(all, s + 1, s + n)) = n
      /\ \A k \in 1..n : SubSeq(all, s + 1, s + n)[k] = all[s + 1 + k - 1]
  BY <1>1, <1>3
<1> QED BY <1>4, <1>5, <1>6

LEMMA StrlenResult ==
    ASSUME MemTypes, NEW s \in Mem!Addresses, NEW n, EndsAt(s, n)
    PROVE  Mem!Strlen(s) = n
<1>1. n \in 0..MemSize
  BY MemoryAssumption DEF EndsAt, Mem!Addresses
<1>2. memory[s + n] = 0 /\ \A j \in 0..n-1 : ~(memory[s + j] = 0)
  BY DEF EndsAt
<1>3. \A i \in 0..MemSize :
          memory[s + i] = 0 /\ (\A j \in 0..i-1 : ~(memory[s + j] = 0)) => i = n
  <2>1. SUFFICES ASSUME NEW i \in 0..MemSize, memory[s + i] = 0,
                        \A j \in 0..i-1 : ~(memory[s + j] = 0), i # n
                 PROVE  FALSE
    OBVIOUS
  <2>2. i \in 0..n-1 \/ n \in 0..i-1
    BY <1>1, <2>1, MemoryAssumption
  <2> QED BY <1>2, <2>1, <2>2
<1>4. Mem!Strlen(s) = CHOOSE i \in 0..MemSize :
          memory[s + i] = 0 /\ \A j \in 0..i-1 : ~(memory[s + j] = 0)
  BY Zenon DEF Mem!Strlen, Mem!FirstIndex
<1> QED BY <1>1, <1>2, <1>3, <1>4, Zenon

LEMMA PrefixIs ==
    ASSUME NEW S \in Seq(Nat), NEW T \in Seq(Nat)
    PROVE  Mem!IsStrictPrefix(S, T) <=>
              /\ Len(S) < Len(T)
              /\ \A k \in 1..Len(S) : S[k] = T[k]
<1>1. ASSUME Mem!IsStrictPrefix(S, T)
      PROVE  Len(S) < Len(T) /\ \A k \in 1..Len(S) : S[k] = T[k]
  <2>1. Len(S) <= Len(T) /\ SubSeq(S, 1, Len(S)) = SubSeq(T, 1, Len(S)) /\ S # T
    BY <1>1 DEF Mem!IsStrictPrefix, Mem!IsPrefix
  <2>2. \A k \in 1..Len(S) : S[k] = SubSeq(S, 1, Len(S))[k] /\ T[k] = SubSeq(T, 1, Len(S))[k]
    BY <2>1
  <2>3. \A k \in 1..Len(S) : S[k] = T[k]
    BY <2>1, <2>2
  <2>4. Len(S) = Len(T) => S = T
    BY <2>3
  <2> QED BY <2>1, <2>3, <2>4
<1>2. ASSUME Len(S) < Len(T), \A k \in 1..Len(S) : S[k] = T[k]
      PROVE  Mem!IsStrictPrefix(S, T)
  <2>1. /\ SubSeq(S, 1, Len(S)) \in Seq(Nat) /\ Len(SubSeq(S, 1, Len(S))) = Len(S)
        /\ SubSeq(T, 1, Len(S)) \in Seq(Nat) /\ Len(SubSeq(T, 1, Len(S))) = Len(S)
        /\ \A k \in 1..Len(S) : S[k] = SubSeq(S, 1, Len(S))[k] /\ T[k] = SubSeq(T, 1, Len(S))[k]
    BY <1>2
  <2>2. SubSeq(S, 1, Len(S)) = SubSeq(T, 1, Len(S))
    BY <1>2, <2>1
  <2> QED BY <1>2, <2>2 DEF Mem!IsStrictPrefix, Mem!IsPrefix
<1> QED BY <1>1, <1>2

\* Where the loop of my_strcmp ends decides the order of the strings.
Differ(s1, s2, i) ==
    /\ memory[s1 + i] # memory[s2 + i] \/ memory[s1 + i] = 0
    /\ \A j \in 0..i-1 : memory[s1 + j] = memory[s2 + j] /\ memory[s1 + j] # 0

LEMMA StrcmpStops ==
    ASSUME MemTypes, NEW s1 \in Mem!Addresses, NEW s2 \in Mem!Addresses,
           NEW m, NEW n, EndsAt(s1, m), EndsAt(s2, n)
    PROVE  \E i \in Nat : /\ i <= m /\ i <= n /\ Differ(s1, s2, i)
                          /\ Mem!Strcmp(s1, s2) = memory[s1 + i] - memory[s2 + i]
<1> DEFINE Stop(j) == memory[s1 + j] # memory[s2 + j] \/ memory[s1 + j] = 0
           S == {j \in Nat : Stop(j)}
<1>1. m \in 0..MemSize /\ n \in Nat /\ memory[s1 + m] = 0 /\ memory[s2 + n] = 0
  BY MemoryAssumption DEF EndsAt, Mem!Addresses
<1>2. PICK i \in S : \A j \in S : i <= j
  <2>1. S \subseteq Nat /\ m \in S
    BY <1>1
  <2> HIDE DEF S
  <2> QED BY <2>1, LeastNat
<1>3. i \in Nat /\ Stop(i) /\ \A j \in 0..i-1 : ~Stop(j)
  <2>1. ASSUME NEW j \in 0..i-1, Stop(j) PROVE FALSE
    <3>1. j \in Nat /\ ~(i <= j)
      BY <1>2
    <3> QED BY <1>2, <2>1, <3>1
  <2> QED BY <1>2, <2>1
<1>4. i <= m /\ i <= n
  <2>1. i <= m
    BY <1>1, <1>2
  <2>2. n < i => n \in 0..i-1
    BY <1>1, <1>3
  <2>3. ~(n < i)
    BY <1>1, <1>3, <2>2
  <2> QED BY <1>1, <1>3, <2>1, <2>3
<1>5. i \in 0..MemSize
  BY <1>1, <1>3, <1>4, MemoryAssumption
<1>6. \A k \in 0..MemSize : Stop(k) /\ (\A j \in 0..k-1 : ~Stop(j)) => k = i
  <2>1. SUFFICES ASSUME NEW k \in 0..MemSize, Stop(k), \A j \in 0..k-1 : ~Stop(j), k # i
                 PROVE  FALSE
    BY Zenon
  <2> HIDE DEF Stop
  <2>2. i \in 0..k-1 \/ k \in 0..i-1
    BY <1>5, <2>1, MemoryAssumption
  <2> QED BY <1>3, <2>1, <2>2
<1>7. (CHOOSE k \in 0..MemSize : Stop(k) /\ \A j \in 0..k-1 : ~Stop(j)) = i
  <2> HIDE DEF Stop
  <2> QED BY <1>3, <1>5, <1>6, Zenon
<1>8. Mem!Strcmp(s1, s2) = memory[s1 + i] - memory[s2 + i]
  BY <1>7, Zenon DEF Mem!Strcmp, Mem!FirstIndex
<1>9. Differ(s1, s2, i)
  BY <1>3 DEF Differ
<1> QED BY <1>3, <1>4, <1>8, <1>9

LEMMA StrcmpResult ==
    ASSUME MemTypes, NEW s1 \in Mem!Addresses, NEW s2 \in Mem!Addresses,
           Mem!IsString(s1), Mem!IsString(s2)
    PROVE  /\ Mem!Strcmp(s1, s2) = 0 <=> Mem!String(s1) = Mem!String(s2)
           /\ Mem!Strcmp(s1, s2) < 0 <=> Mem!Precedes(Mem!String(s1), Mem!String(s2))
<1> DEFINE S == Mem!String(s1)
           T == Mem!String(s2)
<1>1. PICK m \in Nat : EndsAt(s1, m)
  BY StringEnds
<1>2. PICK n \in Nat : EndsAt(s2, n)
  BY StringEnds
<1>3. PICK i \in Nat : /\ i <= m /\ i <= n /\ Differ(s1, s2, i)
                       /\ Mem!Strcmp(s1, s2) = memory[s1 + i] - memory[s2 + i]
  BY <1>1, <1>2, StrcmpStops
<1> DEFINE b == memory[s1 + i]
           d == memory[s2 + i]
<1>4. /\ S \in Seq(Nat) /\ Len(S) = m /\ T \in Seq(Nat) /\ Len(T) = n
      /\ \A k \in 1..m : S[k] = memory[s1 + k - 1]
      /\ \A k \in 1..n : T[k] = memory[s2 + k - 1]
  BY <1>1, <1>2, StringIs
<1> HIDE DEF S, T
<1>5. s1 \in Nat /\ s2 \in Nat
  BY MemoryAssumption DEF Mem!Addresses
<1>6. b \in Nat /\ d \in Nat
  <2>1. s1 + m \in Mem!Addresses /\ s2 + n \in Mem!Addresses
    BY <1>1, <1>2 DEF EndsAt
  <2>2. s1 + i \in Mem!Addresses /\ s2 + i \in Mem!Addresses
    BY <1>3, <1>5, <2>1, MemoryAssumption DEF Mem!Addresses
  <2> QED BY <2>2, MemoryAssumption DEF MemTypes
<1> HIDE DEF b, d
<1>7. \A k \in 1..i : S[k] = T[k]
  <2>1. ASSUME NEW k \in 1..i PROVE S[k] = T[k]
    <3>1. k \in 1..m /\ k \in 1..n /\ k - 1 \in 0..i-1
      BY <1>3
    <3>2. s1 + k - 1 = s1 + (k - 1) /\ s2 + k - 1 = s2 + (k - 1)
      BY <1>5
    <3> QED BY <1>3, <1>4, <3>1, <3>2 DEF Differ
  <2> QED BY <2>1
<1>8. (b = 0 <=> i = m) /\ (d = 0 <=> i = n)
  <2>1. i < m => i \in 0..m-1
    BY <1>3
  <2>2. i < n => i \in 0..n-1
    BY <1>3
  <2> QED BY <1>1, <1>2, <1>3, <2>1, <2>2 DEF EndsAt, b, d
<1>9. b # d \/ b = 0
  BY <1>3 DEF Differ, b, d
<1>10. Mem!Strcmp(s1, s2) = b - d
  BY <1>3 DEF b, d
<1>11. i < m /\ i < n => i + 1 \in 1..m /\ i + 1 \in 1..n /\ S[i + 1] = b /\ T[i + 1] = d
  <2>1. s1 + (i + 1) - 1 = s1 + i /\ s2 + (i + 1) - 1 = s2 + i
    BY <1>5
  <2>2. i < m /\ i < n => i + 1 \in 1..m /\ i + 1 \in 1..n
    BY <1>3
  <2> QED BY <1>4, <2>1, <2>2 DEF b, d
<1>12. CASE b = d
  <2>1. i = m /\ i = n
    BY <1>8, <1>9, <1>12
  <2>2. S = T
    <3>1. Len(S) = Len(T) /\ \A k \in 1..Len(S) : S[k] = T[k]
      BY <1>4, <1>7, <2>1
    <3> QED BY <1>4, <3>1
  <2>3. ~Mem!Precedes(S, T)
    BY <1>4, <1>7, <2>1, PrefixIs DEF Mem!Precedes
  <2> QED BY <1>6, <1>10, <1>12, <2>2, <2>3 DEF S, T
<1>13. CASE b < d
  <2>1. i < n
    BY <1>3, <1>6, <1>8, <1>13
  <2>2. CASE i = m
    <3>1. Mem!IsStrictPrefix(S, T)
      BY <1>4, <1>7, <2>1, <2>2, PrefixIs
    <3>2. S # T
      BY <1>4, <2>1, <2>2
    <3> QED BY <1>6, <1>10, <1>13, <3>1, <3>2 DEF S, T, Mem!Precedes
  <2>3. CASE i < m
    <3>1. S # T
      BY <1>11, <1>13, <1>6, <2>1, <2>3
    <3>2. \A j \in 1..(i + 1)-1 : S[j] = T[j]
      BY <1>7
    <3>3. Mem!Precedes(S, T)
      <4>1. /\ i + 1 \in 1..Len(S) /\ i + 1 <= Len(T)
            /\ S[i + 1] < T[i + 1]
        BY <1>4, <1>11, <1>13, <2>1, <2>3
      <4> QED BY <3>2, <4>1, Zenon DEF Mem!Precedes
    <3> QED BY <1>6, <1>10, <1>13, <3>1, <3>3 DEF S, T
  <2> QED BY <1>3, <2>2, <2>3
<1>14. CASE d < b
  <2>1. i < m
    BY <1>3, <1>6, <1>8, <1>14
  <2>2. S # T /\ ~Mem!IsStrictPrefix(S, T)
    <3>1. CASE i = n
      BY <1>4, <2>1, <3>1, PrefixIs
    <3>2. CASE i < n
      <4>1. S[i + 1] # T[i + 1] /\ i + 1 \in 1..Len(S)
        BY <1>4, <1>6, <1>11, <1>14, <2>1, <3>2
      <4> QED BY <1>4, <4>1, PrefixIs
    <3> QED BY <1>3, <3>1, <3>2
  <2>3. ASSUME NEW k \in 1..m, k <= n, S[k] < T[k], \A j \in 1..k-1 : S[j] = T[j]
        PROVE  FALSE
    <3>1. S[k] # T[k]
      <4>1. S[k] \in Nat /\ T[k] \in Nat
        BY <1>4, <2>3
      <4> QED BY <2>3, <4>1
    <3>2. ~(k <= i)
      <4>1. k <= i => k \in 1..i
        BY <2>3
      <4> QED BY <1>7, <3>1, <4>1
    <3>3. i < n /\ i + 1 <= k
      BY <2>3, <3>2
    <3>4. S[i + 1] # T[i + 1]
      BY <1>6, <1>11, <1>14, <2>1, <3>3
    <3>5. k = i + 1
      <4>1. i + 1 < k => i + 1 \in 1..k-1
        BY <3>3
      <4> QED BY <2>3, <3>3, <3>4, <4>1
    <3> QED BY <1>6, <1>11, <1>14, <2>1, <2>3, <3>3, <3>5
  <2>4. ~Mem!Precedes(S, T)
    BY <1>4, <2>2, <2>3 DEF Mem!Precedes
  <2> QED BY <1>6, <1>10, <1>14, <2>2, <2>4 DEF S, T
<1> QED BY <1>6, <1>12, <1>13, <1>14

------------------------------------------------------------------------------
\* One call: what it leaves in memory are bytes, and CallCorrect says what.
LEMMA CopyCorrect ==
    ASSUME MemTypes, NEW dst \in Mem!Addresses, NEW src \in Mem!Addresses,
           NEW n \in 0..MemSize, Mem!Within(dst, n), Mem!Within(src, n),
           memory' = [a \in Mem!Addresses |->
              IF a \in dst..dst+n-1 THEN memory[a - dst + src] ELSE memory[a]],
           done' = <<"copy", dst, src, n>>
    PROVE  MemTypes' /\ Mem!CallCorrect
<1>1. ASSUME NEW a \in Mem!Addresses, a \in dst..dst+n-1
      PROVE  a - dst + src \in Mem!Addresses
  BY <1>1, MemoryAssumption DEF Mem!Addresses, Mem!Within
<1>2. MemTypes'
  BY <1>1 DEF MemTypes
<1>3. done' # <<>> /\ done'[1] = "copy" /\ done'[2] = dst /\ done'[3] = src /\ done'[4] = n
  OBVIOUS
<1>4. Mem!CallCorrect
  BY <1>3 DEF Mem!CallCorrect, Mem!Filled
<1> QED BY <1>2, <1>4

LEMMA SetCorrect ==
    ASSUME MemTypes, NEW dst \in Mem!Addresses, NEW c \in MemBytes,
           NEW n \in 0..MemSize, Mem!Within(dst, n),
           memory' = Mem!Memset(dst, c, n), done' = <<"set", dst, c, n>>
    PROVE  MemTypes' /\ Mem!CallCorrect
<1>1. memory' = [a \in Mem!Addresses |-> IF a \in dst..dst+n-1 THEN c ELSE memory[a]]
  BY MemsetResult
<1>2. MemTypes'
  BY <1>1 DEF MemTypes
<1>3. done' # <<>> /\ done'[1] = "set" /\ done'[2] = dst /\ done'[3] = c /\ done'[4] = n
  OBVIOUS
<1>4. Mem!CallCorrect
  BY <1>1, <1>3 DEF Mem!CallCorrect, Mem!Filled
<1> QED BY <1>2, <1>4

LEMMA MemStep ==
    ASSUME MemTypes, Mem!Next
    PROVE  MemTypes' /\ Mem!CallCorrect
<1>1. CASE Mem!CallMemcpy
  <2>1. PICK dst, src \in Mem!Addresses, n \in 0..MemSize :
          /\ Mem!Within(dst, n) /\ Mem!Within(src, n) /\ ~Mem!Overlap(dst, src, n)
          /\ memory' = Mem!Memcpy(dst, src, n) /\ done' = <<"copy", dst, src, n>>
    BY <1>1, Zenon DEF Mem!CallMemcpy
  <2>2. ~(dst > src /\ dst < src + n)
    BY <2>1, MemoryAssumption DEF Mem!Overlap, Mem!Addresses
  <2> QED BY <2>1, <2>2, MemcpyResult, CopyCorrect
<1>2. CASE Mem!CallMemmove
  <2>1. PICK dst, src \in Mem!Addresses, n \in 0..MemSize :
          /\ Mem!Within(dst, n) /\ Mem!Within(src, n)
          /\ memory' = Mem!Memmove(dst, src, n) /\ done' = <<"copy", dst, src, n>>
    BY <1>2, Zenon DEF Mem!CallMemmove
  <2> QED BY <2>1, MemmoveResult, CopyCorrect
<1>3. CASE Mem!CallMemset
  BY <1>3, SetCorrect DEF Mem!CallMemset
<1>4. CASE Mem!CallStrlen
  <2>1. PICK s \in Mem!Addresses : /\ Mem!IsString(s) /\ done' = <<"strlen", s, Mem!Strlen(s)>>
                                   /\ UNCHANGED memory
    BY <1>4 DEF Mem!CallStrlen
  <2>2. PICK n \in Nat : EndsAt(s, n)
    BY <2>1, StringEnds
  <2>3. Mem!Strlen(s) = Len(Mem!String(s))
    BY <2>2, StrlenResult, StringIs
  <2>4. /\ done' # <<>> /\ done'[1] = "strlen" /\ done'[2] = s
        /\ done'[3] = Mem!Strlen(s)
    BY <2>1
  <2> QED BY <2>1, <2>3, <2>4 DEF Mem!CallCorrect, MemTypes
<1>5. CASE Mem!CallStrcmp
  <2>1. PICK s1, s2 \in Mem!Addresses :
          /\ Mem!IsString(s1) /\ Mem!IsString(s2)
          /\ done' = <<"strcmp", s1, s2, Mem!Strcmp(s1, s2)>> /\ UNCHANGED memory
    BY <1>5 DEF Mem!CallStrcmp
  <2>2. /\ done' # <<>> /\ done'[1] = "strcmp" /\ done'[2] = s1 /\ done'[3] = s2
        /\ done'[4] = Mem!Strcmp(s1, s2)
    BY <2>1
  <2>3. /\ Mem!Strcmp(s1, s2) = 0 <=> Mem!String(s1) = Mem!String(s2)
        /\ Mem!Strcmp(s1, s2) < 0 <=> Mem!Precedes(Mem!String(s1), Mem!String(s2))
    BY <2>1, StrcmpResult
  <2> QED BY <2>1, <2>2, <2>3 DEF Mem!CallCorrect, MemTypes
<1>6. CASE Mem!Continue
  BY <1>6 DEF Mem!Continue, Mem!CallCorrect, MemTypes
<1> QED BY <1>1, <1>2, <1>3, <1>4, <1>5, <1>6 DEF Mem!Next

\* my_memcpy and my_memmove (01_mem_primitives) copy whatever way the ranges
\* overlap that they allow, my_memset fills its range only, my_strlen and
\* my_strcmp return the length and the order of the strings, for memories of
\* any size and any bytes.
THEOREM BytesAreRight ==
    Mem!Init /\ [][Mem!Next]_<<memory, done>> => MemoryCallsCorrect
<1>1. Mem!Init => MemTypes
  BY DEF Mem!Init, MemTypes
<1>2. MemTypes /\ [Mem!Next]_<<memory, done>> => MemTypes' /\ [Mem!CallCorrect]_<<memory, done>>
  <2>1. CASE Mem!Next
    BY <2>1, MemStep
  <2>2. CASE UNCHANGED <<memory, done>>
    BY <2>2 DEF MemTypes
  <2> QED BY <2>1, <2>2
<1> QED BY <1>1, <1>2, PTL DEF MemoryCallsCorrect, Mem!MemoryCallsCorrect
=============================================================================
