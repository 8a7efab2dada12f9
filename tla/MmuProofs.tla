----------------------------- MODULE MmuProofs -----------------------------
(* Theorems about Mmu for every TLB capacity, all page and address space   *)
(* numbers, and any number of mappings.                                    *)
EXTENDS Mmu, LeastElement, TLAPS

Types ==
    /\ entries \in [Slots -> Entry]
    /\ fifo_ptr \in Slots
    /\ page_table \in Seq(Mapping)
    /\ current_asid \in Asids

\* The induction needs all three: Coherent alone says nothing of the older of
\* two entries of a page after the newer is updated.
Inv == Types /\ UniqueEntry /\ Coherent

-----------------------------------------------------------------------------
(* The search of the page table. *)

LEMMA FirstIsLeast ==
    ASSUME NEW S, S \subseteq Nat, S # {}
    PROVE  First(S) \in S /\ \A u \in S : First(S) <= u
  BY LeastNat DEF First

\* A later match does not change which is the first.
LEMMA FirstOfMore ==
    ASSUME NEW n \in Nat, NEW S, S \subseteq 1..n, S # {},
           NEW T, T = S \/ T = S \cup {n + 1}
    PROVE  First(T) = First(S)
  <1>. S \subseteq Nat /\ T # {}
    OBVIOUS
  <1>. T \subseteq Nat
    <2>1. n + 1 \in Nat
      OBVIOUS
    <2>2. CASE T = S
      BY <2>2
    <2>3. CASE T = S \cup {n + 1}
      BY <2>1, <2>3, Zenon
    <2>. QED  BY <2>2, <2>3
  <1>1. First(S) \in S /\ \A u \in S : First(S) <= u
    BY FirstIsLeast, Zenon
  <1>2. First(T) \in T /\ \A u \in T : First(T) <= u
    BY FirstIsLeast, Zenon
  <1>3. First(S) \in 1..n /\ First(S) \in T
    BY <1>1
  <1>4. First(T) <= First(S) /\ First(T) \in S
    BY <1>2, <1>3
  <1>5. First(S) <= First(T)
    BY <1>1, <1>4
  <1>6. First(S) \in Nat /\ First(T) \in Nat
    BY <1>1, <1>2
  <1>. QED  BY <1>4, <1>5, <1>6

LEMMA WalkValue ==
    ASSUME Types, NEW a \in Asids, NEW v \in Vpns
    PROVE  /\ Walk(a, v) \in Ppns \cup {Fault}
           /\ Walk(a, v) = Fault <=> Matching(a, v) = {}
  <1>1. CASE Matching(a, v) = {}
    BY <1>1 DEF Walk
  <1>2. CASE Matching(a, v) # {}
    <2>1. Matching(a, v) \subseteq Nat
      BY DEF Matching
    <2>2. First(Matching(a, v)) \in Matching(a, v)
      BY <1>2, <2>1, FirstIsLeast
    <2>3. page_table[First(Matching(a, v))] \in Mapping
      BY <2>2 DEF Types, Matching
    <2>4. Walk(a, v) = page_table[First(Matching(a, v))].ppn
      BY <1>2 DEF Walk, Chosen
    <2>. QED  BY <1>2, <2>3, <2>4, TlbAssumption DEF TlbAssumption, Mapping
  <1>. QED  BY <1>1, <1>2

\* A mapping added at the end gives a page its translation only if it had none.
LEMMA WalkAppend ==
    ASSUME Types, NEW a \in Asids, NEW v \in Vpns, NEW p \in Ppns,
           page_table' = Append(page_table, [asid |-> a, vpn |-> v, ppn |-> p]),
           NEW b \in Asids, NEW w \in Vpns
    PROVE  Walk(b, w)' = IF b = a /\ w = v /\ Walk(b, w) = Fault THEN p ELSE Walk(b, w)
  <1>. DEFINE M == Matching(b, w)
              N == Len(page_table) + 1
  <1>1. /\ Len(page_table) \in Nat /\ Len(page_table') = N
        /\ \A i \in 1..Len(page_table) : page_table'[i] = page_table[i]
        /\ page_table'[N] = [asid |-> a, vpn |-> v, ppn |-> p]
    BY DEF Types
  <1>2. M' = IF b = a /\ w = v THEN M \cup {N} ELSE M
    BY <1>1 DEF Matching
  <1>3. M \subseteq Nat /\ M' \subseteq Nat /\ \A i \in M : i \in 1..Len(page_table)
    BY <1>1 DEF Matching
  <1>4. CASE M = {}
    <2>1. Walk(b, w) = Fault
      BY <1>4 DEF Walk
    <2>2. CASE b = a /\ w = v
      <3>1. M' = {N}
        BY <1>2, <1>4, <2>2
      <3>2. First(M') = N
        BY <1>3, <3>1, FirstIsLeast
      <3>. QED  BY <1>1, <2>1, <2>2, <3>1, <3>2 DEF Walk, Chosen, First
    <2>3. CASE ~(b = a /\ w = v)
      BY <1>2, <1>4, <2>1, <2>3 DEF Walk
    <2>. QED  BY <2>2, <2>3
  <1>5. CASE M # {}
    <2>1. Walk(b, w) # Fault
      BY <1>5, WalkValue
    <2>2. First(M) \in M /\ \A u \in M : First(M) <= u
      BY <1>3, <1>5, FirstIsLeast
    <2>3. M' # {}
      BY <1>2, <1>5
    <2>4. First(M') = First(M)
      <3>. HIDE DEF M
      <3>1. M \subseteq 1..Len(page_table) /\ (M' = M \/ M' = M \cup {Len(page_table) + 1})
        BY <1>2, <1>3
      <3>. QED  BY <1>1, <1>5, <3>1, FirstOfMore
    <2>5. page_table'[First(M)] = page_table[First(M)]
      BY <1>1, <1>3, <2>2
    <2>6. Walk(b, w)' = page_table'[First(M')].ppn
      BY <2>3 DEF Walk, Chosen, First
    <2>7. Walk(b, w) = page_table[First(M)].ppn
      BY <1>5 DEF Walk, Chosen
    <2>. QED  BY <2>1, <2>4, <2>5, <2>6, <2>7
  <1>. QED  BY <1>4, <1>5

-----------------------------------------------------------------------------
(* The buffer. *)

LEMMA SlotsAreNaturals == Slots \subseteq Nat /\ 0 \in Slots
  BY TlbAssumption DEF TlbAssumption, Slots

\* A hit returns what the page table says.
LEMMA HitAgrees ==
    ASSUME Inv, NEW a \in Asids, NEW v \in Vpns, Found(a, v) # Fault
    PROVE  Found(a, v) = Walk(a, v)
  <1>1. Hits(a, v) # {} /\ Found(a, v) = entries[First(Hits(a, v))].ppn
    BY DEF Found
  <1>2. First(Hits(a, v)) \in Hits(a, v)
    BY <1>1, SlotsAreNaturals, FirstIsLeast DEF Hits
  <1>. QED  BY <1>1, <1>2 DEF Inv, Coherent, Hits, Matches, MatchesBoth

\* insert of what the page table says keeps the invariant.
LEMMA InsertKeeps ==
    ASSUME Inv, NEW a \in Asids, NEW v \in Vpns, Walk(a, v) # Fault,
           Insert(a, v, Walk(a, v)), UNCHANGED <<page_table, current_asid>>
    PROVE  Inv'
  <1>. DEFINE p == Walk(a, v)
  <1>1. p \in Ppns
    BY WalkValue DEF Inv
  <1>2. Existing(a, v) = {s \in Slots : entries[s].valid /\ entries[s].vpn = v /\ entries[s].asid = a}
    BY DEF Existing, Hits, Matches, MatchesBoth
  <1>3. \A b \in Asids, w \in Vpns : Walk(b, w)' = Walk(b, w)
    BY DEF Walk, Matching, Chosen, First
  <1>4. CASE Existing(a, v) # {}
    <2>. DEFINE s == First(Existing(a, v))
    <2>1. s \in Existing(a, v)
      BY <1>2, <1>4, SlotsAreNaturals, FirstIsLeast
    <2>2. s \in Slots /\ entries[s].vpn = v /\ entries[s].asid = a /\ entries[s].ppn = p
      BY <1>2, <2>1 DEF Inv, Coherent
    <2>3. entries' = [entries EXCEPT ![s].ppn = p] /\ fifo_ptr' = fifo_ptr
      BY <1>4 DEF Insert, Update, PtrAfterUpdate, NotOnUpdate
    <2>4. entries' = entries
      <3>. HIDE DEF s, p
      <3>. QED  BY <2>2, <2>3 DEF Inv, Types, Entry
    <2>5. Types' /\ UniqueEntry'
      BY <2>3, <2>4 DEF Inv, Types, UniqueEntry
    <2>6. Coherent'
      <3>1. \A u \in Slots : entries[u].asid \in Asids /\ entries[u].vpn \in Vpns
        BY DEF Inv, Types, Entry
      <3>. QED  BY <1>3, <2>4, <3>1 DEF Inv, Coherent
    <2>. QED  BY <2>5, <2>6 DEF Inv
  <1>5. CASE Existing(a, v) = {}
    <2>. DEFINE e == [valid |-> TRUE, asid |-> a, vpn |-> v, ppn |-> p]
    <2>1. /\ entries' = [entries EXCEPT ![fifo_ptr] = e]
          /\ fifo_ptr' = (fifo_ptr + 1) % Capacity
      BY <1>5 DEF Insert, Replace
    <2>2. e \in Entry
      BY <1>1 DEF Entry
    <2>3. Types'
      <3>1. fifo_ptr' \in Slots
        BY <2>1, TlbAssumption DEF Inv, Types, Slots, TlbAssumption
      <3>. QED  BY <2>1, <2>2, <3>1 DEF Inv, Types
    <2>4. entries'[fifo_ptr] = e /\ \A s \in Slots : s # fifo_ptr => entries'[s] = entries[s]
      BY <2>1 DEF Inv, Types
    <2>5. UniqueEntry'
      BY <1>2, <1>5, <2>4 DEF Inv, UniqueEntry
    <2>6. Coherent'
      <3>. SUFFICES ASSUME NEW s \in Slots
                    PROVE  (entries[s].valid =>
                              entries[s].ppn = Walk(entries[s].asid, entries[s].vpn))'
        BY DEF Coherent
      <3>1. CASE s = fifo_ptr
        BY <1>3, <2>4, <3>1
      <3>2. CASE s # fifo_ptr
        <4>1. entries'[s] = entries[s] /\ entries[s].asid \in Asids /\ entries[s].vpn \in Vpns
          BY <2>4, <3>2 DEF Inv, Types, Entry
        <4>. QED  BY <1>3, <4>1 DEF Inv, Coherent
      <3>. QED  BY <3>1, <3>2
    <2>. QED  BY <2>3, <2>5, <2>6 DEF Inv
  <1>. QED  BY <1>4, <1>5

-----------------------------------------------------------------------------
LEMMA InvInit == Init => Inv
  BY TlbAssumption, SlotsAreNaturals
  DEF TlbAssumption, Init, TlbInit, Empty, Entry, Inv, Types, UniqueEntry, Coherent

\* Entries that keep their contents, or lose their validity, stay unique and
\* coherent while no page changes its translation.
LEMMA FewerEntries ==
    ASSUME Inv, NEW S \in SUBSET Slots, Invalidate(S),
           UNCHANGED <<page_table, current_asid>>
    PROVE  Inv'
  <1>1. \A s \in Slots : /\ entries'[s] \in Entry
                         /\ entries'[s].valid => entries'[s] = entries[s]
    BY DEF Inv, Types, Entry, Invalidate
  <1>2. \A b \in Asids, w \in Vpns : Walk(b, w)' = Walk(b, w)
    BY DEF Walk, Matching, Chosen, First
  <1>3. Types'
    BY <1>1 DEF Inv, Types, Invalidate
  <1>4. UniqueEntry'
    BY <1>1 DEF Inv, UniqueEntry
  <1>5. Coherent'
    BY <1>1, <1>2 DEF Inv, Coherent, Entry
  <1>. QED  BY <1>3, <1>4, <1>5 DEF Inv

LEMMA InvAdd ==
    ASSUME Inv, NEW a \in Asids, NEW v \in Vpns, NEW p \in Ppns, AddMapping(a, v, p)
    PROVE  Inv'
  <1>1. page_table' = Append(page_table, [asid |-> a, vpn |-> v, ppn |-> p])
          /\ UNCHANGED <<entries, fifo_ptr, current_asid>>
    BY DEF AddMapping
  <1>2. Types' /\ UniqueEntry'
    BY <1>1 DEF Inv, Types, UniqueEntry, Mapping
  <1>3. Coherent'
    <2>. SUFFICES ASSUME NEW s \in Slots
                  PROVE  (entries[s].valid =>
                            entries[s].ppn = Walk(entries[s].asid, entries[s].vpn))'
      BY DEF Coherent
    <2>1. entries[s].asid \in Asids /\ entries[s].vpn \in Vpns /\ entries[s].ppn \in Ppns
      BY DEF Inv, Types, Entry
    <2>2. CASE entries[s].valid
      <3>1. entries[s].ppn = Walk(entries[s].asid, entries[s].vpn)
        BY <2>2 DEF Inv, Coherent
      <3>2. Walk(entries[s].asid, entries[s].vpn) # Fault
        BY <2>1, <3>1, TlbAssumption DEF TlbAssumption
      <3>. DEFINE b == entries[s].asid
                  w == entries[s].vpn
      <3>3. \A c \in Asids, u \in Vpns : Walk(c, u) # Fault => Walk(c, u)' = Walk(c, u)
        BY <1>1, WalkAppend DEF Inv
      <3>. QED  BY <1>1, <2>1, <3>1, <3>2, <3>3
    <2>3. CASE ~entries[s].valid
      BY <1>1, <2>3
    <2>. QED  BY <2>2, <2>3
  <1>. QED  BY <1>2, <1>3 DEF Inv

LEMMA InvSame ==
    ASSUME Inv, UNCHANGED <<entries, fifo_ptr, page_table>>, current_asid' \in Asids
    PROVE  Inv'
  <1>1. \A b \in Asids, w \in Vpns : Walk(b, w)' = Walk(b, w)
    BY DEF Walk, Matching, Chosen, First
  <1>2. Types' /\ UniqueEntry'
    BY DEF Inv, Types, UniqueEntry
  <1>3. \A u \in Slots : entries[u].asid \in Asids /\ entries[u].vpn \in Vpns
    BY DEF Inv, Types, Entry
  <1>4. Coherent'
    BY <1>1, <1>3 DEF Inv, Coherent
  <1>. QED  BY <1>2, <1>4 DEF Inv

LEMMA InvStep == Inv /\ [Next]_vars => Inv'
  <1>. SUFFICES ASSUME Inv, [Next]_vars PROVE Inv'
    OBVIOUS
  <1>1. ASSUME NEW a \in Asids, NEW v \in Vpns, NEW p \in Ppns, AddMapping(a, v, p)
        PROVE  Inv'
    BY <1>1, InvAdd
  <1>2. ASSUME NEW a \in Asids, SwitchAsid(a) PROVE Inv'
    BY <1>2, InvSame DEF SwitchAsid
  <1>3. ASSUME NEW v \in Vpns, TranslateHit(v) PROVE Inv'
    BY <1>3, InvSame DEF TranslateHit, Lookup, Inv, Types
  <1>4. ASSUME NEW v \in Vpns, TranslateMiss(v) PROVE Inv'
    <2>1. current_asid \in Asids
      BY DEF Inv, Types
    <2>2. CASE Walk(current_asid, v) # Fault
      BY <1>4, <2>1, <2>2, InsertKeeps DEF TranslateMiss
    <2>3. CASE Walk(current_asid, v) = Fault
      BY <1>4, <2>1, <2>3, InvSame DEF TranslateMiss
    <2>. QED  BY <2>2, <2>3
  <1>5. ASSUME NEW a \in Asids, NEW v \in Vpns, Prefill(a, v) PROVE Inv'
    BY <1>5, InsertKeeps DEF Prefill
  <1>6. ASSUME FlushTlb PROVE Inv'
    BY <1>6, FewerEntries DEF FlushTlb, Flush, FlushAll, FlushByVpn, FlushByAsid
  <1>7. CASE UNCHANGED vars
    BY <1>7, InvSame DEF vars, Inv, Types
  <1>. QED  BY <1>1, <1>2, <1>3, <1>4, <1>5, <1>6, <1>7 DEF Next

LEMMA Invariant == Spec => []Inv
  BY InvInit, InvStep, PTL DEF Spec

\* The TLB never holds anything but what the page table says of a page.
THEOREM TlbCoherent == Spec => []Coherent
  <1>1. Inv => Coherent
    BY DEF Inv
  <1>. QED  BY <1>1, Invariant, PTL

\* No page of an address space is in two slots.
THEOREM OneEntryPerPage == Spec => []UniqueEntry
  <1>1. Inv => UniqueEntry
    BY DEF Inv
  <1>. QED  BY <1>1, Invariant, PTL

\* The TLB is invisible: whatever it holds, evicts or loses to a flush, the Mmu
\* translates as address spaces without a cache do.
THEOREM TlbIsInvisible == Spec => CacheIsTransparent
  <1>. USE DEF CacheIsTransparent
  <1>1. Init => Spaces!Init
    BY TlbAssumption
    DEF TlbAssumption, Init, TlbInit, Spaces!Init, Walk, Matching
  <1>2. Inv /\ [Next]_vars => [Spaces!Next]_Spaces!vars
    <2>. SUFFICES ASSUME Inv, [Next]_vars PROVE [Spaces!Next]_Spaces!vars
      OBVIOUS
    <2>. DEFINE space == [a \in Asids |-> [v \in Vpns |-> Walk(a, v)]]
    <2>. current_asid \in Asids
      BY DEF Inv, Types
    <2>1. ASSUME page_table' = page_table PROVE space' = space
      BY <2>1 DEF Walk, Matching, Chosen, First
    <2>2. ASSUME NEW a \in Asids, NEW v \in Vpns, NEW p \in Ppns, AddMapping(a, v, p)
          PROVE  Spaces!Map(a, v, p)
      <3>1. \A b \in Asids, w \in Vpns :
               Walk(b, w)' = IF b = a /\ w = v /\ Walk(b, w) = Fault THEN p ELSE Walk(b, w)
        BY <2>2, WalkAppend DEF AddMapping, Inv
      <3>2. space' = IF space[a][v] = Fault THEN [space EXCEPT ![a][v] = p] ELSE space
        BY <3>1
      <3>. QED  BY <2>2, <3>2 DEF Spaces!Map, AddMapping
    <2>3. ASSUME NEW a \in Asids, SwitchAsid(a) PROVE Spaces!Switch(a)
      BY <2>1, <2>3 DEF SwitchAsid, Spaces!Switch
    <2>4. ASSUME NEW v \in Vpns, TranslateHit(v) PROVE Spaces!Translate(v)
      <3>1. answer' = Walk(current_asid, v)
        BY <2>4, HitAgrees DEF TranslateHit, Lookup
      <3>. QED  BY <2>1, <2>4, <3>1 DEF TranslateHit, Spaces!Translate
    <2>5. ASSUME NEW v \in Vpns, TranslateMiss(v) PROVE Spaces!Translate(v)
      BY <2>1, <2>5 DEF TranslateMiss, Spaces!Translate
    <2>6. ASSUME NEW a \in Asids, NEW v \in Vpns, Prefill(a, v)
          PROVE  UNCHANGED Spaces!vars
      BY <2>1, <2>6 DEF Prefill, Spaces!vars
    <2>7. ASSUME FlushTlb PROVE UNCHANGED Spaces!vars
      BY <2>1, <2>7
      DEF FlushTlb, Flush, FlushAll, FlushByVpn, FlushByAsid, Invalidate, Spaces!vars
    <2>8. CASE UNCHANGED vars
      BY <2>1, <2>8 DEF vars, Spaces!vars
    <2>. QED
      BY <2>2, <2>3, <2>4, <2>5, <2>6, <2>7, <2>8 DEF Next, Spaces!Next
  <1>. QED  BY <1>1, <1>2, Invariant, PTL DEF Spec, Spaces!Spec

-----------------------------------------------------------------------------
(* The order of replacement. *)

\* How many slots lie between s and the slot filled last, in FIFO order.
Turn(s) == IF s < fifo_ptr THEN fifo_ptr - 1 - s ELSE fifo_ptr + Capacity - 1 - s

\* The age of an entry is given by its slot; a slot that was never filled is
\* older than any other and holds nothing.
Ages ==
    /\ fifo_ptr \in Slots
    /\ DOMAIN entries = Slots
    /\ DOMAIN age = Slots
    /\ \A s \in Slots :
          age[s] = Turn(s) \/ (age[s] = Capacity /\ ~entries[s].valid)

\* A step replaces the entry at the pointer, or leaves all entries their keys.
EvictsTurn ==
    \A s \in Slots :
        Key(entries'[s]) # Key(entries[s]) => s = fifo_ptr

LEMMA TurnBounds ==
    ASSUME fifo_ptr \in Slots, NEW s \in Slots
    PROVE  Turn(s) \in 0 .. Capacity - 1 /\ (Turn(s) = Capacity - 1 <=> s = fifo_ptr)
  BY TlbAssumption DEF TlbAssumption, Turn, Slots

\* Filling the slot at the pointer makes every other entry one older.
LEMMA ReplaceAges ==
    ASSUME Ages, NEW a, NEW v, NEW p, Replace(a, v, p)
    PROVE  Ages' /\ EvictsTurn
  <1>. DEFINE e == [valid |-> TRUE, asid |-> a, vpn |-> v, ppn |-> p]
  <1>1. /\ fifo_ptr \in Slots /\ fifo_ptr' \in Slots
        /\ fifo_ptr' = IF fifo_ptr = Capacity - 1 THEN 0 ELSE fifo_ptr + 1
    <2>1. /\ Capacity \in Nat \ {0} /\ fifo_ptr \in 0 .. Capacity - 1
          /\ fifo_ptr' = (fifo_ptr + 1) % Capacity
      BY TlbAssumption DEF Ages, Replace, Slots, TlbAssumption
    <2>2. CASE fifo_ptr = Capacity - 1
      <3>1. Capacity % Capacity = 0
        BY <2>1
      <3>. QED  BY <2>1, <2>2, <3>1 DEF Slots
    <2>3. CASE fifo_ptr # Capacity - 1
      <3>1. fifo_ptr + 1 \in 0 .. Capacity - 1
        BY <2>1, <2>3
      <3>2. (fifo_ptr + 1) % Capacity = fifo_ptr + 1
        BY <2>1, <3>1
      <3>. QED  BY <2>1, <2>3, <3>1, <3>2 DEF Slots
    <2>. QED  BY <2>2, <2>3
  <1>2. /\ DOMAIN entries' = Slots
        /\ entries'[fifo_ptr] = e
        /\ \A s \in Slots : s # fifo_ptr => entries'[s] = entries[s]
    BY <1>1 DEF Ages, Replace
  <1>3. /\ DOMAIN age' = Slots
        /\ \A s \in Slots : age'[s] = IF s = fifo_ptr THEN 0
                                      ELSE IF age[s] < Capacity THEN age[s] + 1 ELSE Capacity
    BY DEF Replace
  <1>. HIDE DEF e
  <1>4. ASSUME NEW s \in Slots
        PROVE  age'[s] = Turn(s)' \/ (age'[s] = Capacity /\ ~entries'[s].valid)
    <2>1. CASE s = fifo_ptr
      <3>1. Turn(s)' = 0
        BY <1>1, <2>1, TlbAssumption DEF Turn, Slots, TlbAssumption
      <3>. QED  BY <1>3, <2>1, <3>1
    <2>2. CASE s # fifo_ptr
      <3>1. Turn(s) \in Nat /\ Turn(s) < Capacity - 1 /\ Turn(s)' = Turn(s) + 1
        BY <1>1, <2>2, TlbAssumption DEF Turn, Slots, TlbAssumption
      <3>2. age[s] = Turn(s) \/ (age[s] = Capacity /\ ~entries[s].valid)
        BY DEF Ages
      <3>. QED  BY <1>2, <1>3, <2>2, <3>1, <3>2, TlbAssumption DEF TlbAssumption
    <2>. QED  BY <2>1, <2>2
  <1>. QED  BY <1>1, <1>2, <1>3, <1>4 DEF Ages, EvictsTurn

\* An update keeps the key, the slot and the turn.
LEMMA UpdateAges ==
    ASSUME Ages, NEW a, NEW v, NEW p,
           Existing(a, v) # {}, Update(a, v, p)
    PROVE  Ages' /\ EvictsTurn
  <1>. DEFINE u == First(Existing(a, v))
  <1>1. u \in Slots
    BY SlotsAreNaturals, FirstIsLeast DEF Existing, Hits
  <1>2. entries' = [entries EXCEPT ![u] = [entries[u] EXCEPT !.ppn = p]]
        /\ fifo_ptr' = fifo_ptr /\ age' = age
    BY <1>1 DEF Update, PtrAfterUpdate, NotOnUpdate
  <1>. HIDE DEF u
  <1>3. DOMAIN entries' = Slots
    BY <1>2 DEF Ages
  <1>4. \A s \in Slots : /\ entries'[s].valid = entries[s].valid
                         /\ Key(entries'[s]) = Key(entries[s])
    BY <1>1, <1>2 DEF Ages, Key
  <1>. QED  BY <1>2, <1>3, <1>4 DEF Ages, Turn, EvictsTurn

\* A flush keeps the keys of what it invalidates.
LEMMA FlushAges ==
    ASSUME Ages, NEW S, Invalidate(S)
    PROVE  Ages' /\ EvictsTurn
  <1>1. /\ DOMAIN entries' = Slots
        /\ \A s \in Slots : /\ Key(entries'[s]) = Key(entries[s])
                            /\ entries'[s].valid => entries[s].valid
    BY DEF Invalidate, Key
  <1>2. fifo_ptr' = fifo_ptr /\ age' = age
    BY DEF Invalidate
  <1>. QED  BY <1>1, <1>2 DEF Ages, Turn, EvictsTurn

LEMMA AgesStep ==
    ASSUME Ages, [Next]_vars
    PROVE  Ages' /\ EvictsTurn
  <1>1. ASSUME UNCHANGED <<entries, fifo_ptr, age>> PROVE Ages' /\ EvictsTurn
    BY <1>1 DEF Ages, Turn, EvictsTurn
  <1>2. ASSUME NEW a, NEW v, NEW p, Insert(a, v, p)
        PROVE  Ages' /\ EvictsTurn
    BY <1>2, ReplaceAges, UpdateAges DEF Insert
  <1>3. ASSUME NEW v \in Vpns, TranslateMiss(v) PROVE Ages' /\ EvictsTurn
    <2>1. CASE Walk(current_asid, v) # Fault
      BY <1>2, <1>3, <2>1 DEF TranslateMiss
    <2>2. CASE Walk(current_asid, v) = Fault
      BY <1>1, <1>3, <2>2 DEF TranslateMiss
    <2>. QED  BY <2>1, <2>2
  <1>4. ASSUME FlushTlb PROVE Ages' /\ EvictsTurn
    BY <1>4, FlushAges DEF FlushTlb, Flush, FlushAll, FlushByVpn, FlushByAsid
  <1>. QED
    BY <1>1, <1>2, <1>3, <1>4
    DEF Next, vars, AddMapping, SwitchAsid, TranslateHit, Lookup, Prefill

\* Whatever is updated, flushed and refilled, the TLB is first in, first out:
\* a valid entry makes room for another only when it is the oldest of all.
THEOREM FirstInFirstOut == Spec => EvictsOldest
  <1>1. Init => Ages
    BY SlotsAreNaturals DEF Init, TlbInit, Ages, Empty
  <1>2. Ages /\ [Next]_vars => Ages'
    BY AgesStep
  <1>3. ASSUME Ages, [Next]_vars, NEW s \in Slots, entries[s].valid,
               Key(entries'[s]) # Key(entries[s]), NEW u \in Slots, entries[u].valid
        PROVE  age[u] <= age[s]
    <2>1. s = fifo_ptr
      BY <1>3, AgesStep DEF EvictsTurn
    <2>2. age[s] = Turn(s) /\ age[u] = Turn(u)
      BY <1>3 DEF Ages
    <2>3. /\ Turn(s) = Capacity - 1
          /\ Turn(u) \in 0 .. Capacity - 1
      BY <1>3, <2>1, TurnBounds DEF Ages
    <2>. QED  BY <2>2, <2>3, TlbAssumption DEF TlbAssumption
  <1>4. Ages /\ [Next]_vars =>
          [\A s \in Slots :
             entries[s].valid /\ Key(entries'[s]) # Key(entries[s])
               => \A u \in Slots : entries[u].valid => age[u] <= age[s]]_tlbVars
    BY <1>3
  <1>. QED  BY <1>1, <1>2, <1>4, PTL DEF Spec, EvictsOldest
=============================================================================
