--------------------------------- MODULE Tlb ---------------------------------
(***************************************************************************)
(* The translation look-aside buffer of src/exercises/06_page_table/       *)
(* 04_tlb_sim: a fixed number of slots, filled in turn (FIFO).  An entry's *)
(* flags are stored and never looked at, and stats counts the outcomes of  *)
(* Lookup: both are left out.                                              *)
(***************************************************************************)
EXTENDS Naturals

CONSTANTS
    Capacity,   \* number of slots
    Asids,      \* address space identifiers
    Vpns,       \* virtual page numbers
    Ppns,       \* physical page numbers
    Fault       \* None

ASSUME TlbAssumption ==
    /\ Capacity \in Nat \ {0}
    /\ 0 \in Asids /\ 0 \in Vpns /\ 0 \in Ppns
    /\ Fault \notin Ppns

VARIABLES
    entries,    \* the slots
    fifo_ptr,   \* the slot the next new entry goes to
    age,        \* age[s]: how many new entries came after the one in s
    answer      \* what the last lookup or translation returned

tlbVars == <<entries, fifo_ptr, age, answer>>

Slots == 0..(Capacity - 1)

Entry == [valid : BOOLEAN, asid : Asids, vpn : Vpns, ppn : Ppns]
Empty == [valid |-> FALSE, asid |-> 0, vpn |-> 0, ppn |-> 0]

TlbInit ==
    /\ entries = [s \in Slots |-> Empty]
    /\ fifo_ptr = 0
    /\ age = [s \in Slots |-> Capacity]
    /\ answer = Fault

MatchesVpn(s, a, v) == entries[s].valid /\ entries[s].vpn = v  \* mutant
MatchesBoth(s, a, v) ==
    entries[s].valid /\ entries[s].vpn = v /\ entries[s].asid = a
Matches(s, a, v) == MatchesBoth(s, a, v)

\* The slots a loop over the entries stops at; it stops at the first.
Hits(a, v) == {s \in Slots : Matches(s, a, v)}
First(S) == CHOOSE s \in S : \A u \in S : s <= u

\* lookup(vpn, asid), its return value.
Found(a, v) == IF Hits(a, v) = {} THEN Fault ELSE entries[First(Hits(a, v))].ppn

Lookup(a, v) ==
    /\ answer' = Found(a, v)
    /\ UNCHANGED <<entries, fifo_ptr, age>>

Existing(a, v) == Hits(a, v)
OnUpdateToo == (fifo_ptr + 1) % Capacity  \* mutant: an update advances as well
NotOnUpdate == fifo_ptr
PtrAfterUpdate == NotOnUpdate

\* insert(vpn, ppn, asid): an entry of the same key is updated in its place, ...
Update(a, v, p) ==
    /\ entries' = [entries EXCEPT ![First(Existing(a, v))].ppn = p]
    /\ fifo_ptr' = PtrAfterUpdate
    /\ UNCHANGED age

\* ... another takes the next slot, whatever that holds.
Replace(a, v, p) ==
    /\ entries' = [entries EXCEPT ![fifo_ptr] =
                      [valid |-> TRUE, asid |-> a, vpn |-> v, ppn |-> p]]
    /\ fifo_ptr' = (fifo_ptr + 1) % Capacity
    /\ age' = [s \in Slots |-> IF s = fifo_ptr THEN 0
                               ELSE IF age[s] < Capacity THEN age[s] + 1
                               ELSE Capacity]

Insert(a, v, p) == IF Existing(a, v) # {} THEN Update(a, v, p) ELSE Replace(a, v, p)

Invalidate(S) ==
    /\ entries' = [s \in Slots |->
                      IF s \in S THEN [entries[s] EXCEPT !.valid = FALSE] ELSE entries[s]]
    /\ UNCHANGED <<fifo_ptr, age, answer>>

FlushAll == Invalidate(Slots)
FlushByVpn(v) == Invalidate({s \in Slots : entries[s].vpn = v})
FlushByAsid(a) == Invalidate({s \in Slots : entries[s].asid = a})

Flush ==
    \/ FlushAll
    \/ \E v \in Vpns : FlushByVpn(v)
    \/ \E a \in Asids : FlushByAsid(a)

-----------------------------------------------------------------------------
\* UniqueEntry: a page of an address space is in one slot at most, so that an
\* update or a flush leaves no second, older translation behind.
UniqueEntry ==
    \A s, u \in Slots :
        /\ entries[s].valid /\ entries[u].valid
        /\ entries[s].asid = entries[u].asid /\ entries[s].vpn = entries[u].vpn
        => s = u

Key(e) == <<e.asid, e.vpn>>

\* EvictsOldest: the replacement is first in, first out ("FIFO", 04_tlb_sim,
\* lines 61 and 107) whatever was updated and flushed in between: a valid entry
\* is only replaced when it is the oldest valid one.
EvictsOldest ==
    [][\A s \in Slots :
          entries[s].valid /\ Key(entries'[s]) # Key(entries[s])
             => \A u \in Slots : entries[u].valid => age[u] <= age[s]]_tlbVars
=============================================================================
