--------------------------------- MODULE Mmu ---------------------------------
(***************************************************************************)
(* The memory management unit of src/exercises/06_page_table/04_tlb_sim:   *)
(* a TLB in front of a page table to which mappings are only ever added    *)
(* and which is searched from its beginning.  An Mmu's tlb is public: its  *)
(* users call the flushes, and insert, here with what the page table says. *)
(***************************************************************************)
EXTENDS Tlb, Sequences

CONSTANT MaxMappings   \* bound: mappings added

VARIABLES
    page_table,     \* sequence of mappings
    current_asid

vars == <<entries, fifo_ptr, age, answer, page_table, current_asid>>

Mapping == [asid : Asids, vpn : Vpns, ppn : Ppns]

Init ==
    /\ TlbInit
    /\ page_table = <<>>
    /\ current_asid = 0

\* The search of the page table: the first mapping of the page counts.
Matching(a, v) ==
    {i \in 1..Len(page_table) : page_table[i].asid = a /\ page_table[i].vpn = v}

Last(S) == CHOOSE i \in S : \A j \in S : j <= i  \* mutant: the newest counts
Chosen(S) == First(S)

Walk(a, v) ==
    IF Matching(a, v) = {} THEN Fault ELSE page_table[Chosen(Matching(a, v))].ppn

AddMapping(a, v, p) ==
    /\ Len(page_table) < MaxMappings
    /\ page_table' = Append(page_table, [asid |-> a, vpn |-> v, ppn |-> p])
    /\ UNCHANGED <<entries, fifo_ptr, age, answer, current_asid>>

SwitchAsid(a) ==
    /\ current_asid' = a
    /\ UNCHANGED <<entries, fifo_ptr, age, answer, page_table>>

\* translate(vpn): a hit, ...
TranslateHit(v) ==
    /\ Found(current_asid, v) # Fault
    /\ Lookup(current_asid, v)
    /\ UNCHANGED <<page_table, current_asid>>

\* ... or a miss: walk the table, refill on success, fault otherwise.
TranslateMiss(v) ==
    LET p == Walk(current_asid, v) IN
    /\ Found(current_asid, v) = Fault
    /\ answer' = p
    /\ IF p # Fault THEN Insert(current_asid, v, p)
                    ELSE UNCHANGED <<entries, fifo_ptr, age>>
    /\ UNCHANGED <<page_table, current_asid>>

Prefill(a, v) ==
    /\ Walk(a, v) # Fault
    /\ Insert(a, v, Walk(a, v))
    /\ UNCHANGED <<answer, page_table, current_asid>>

FlushTlb == Flush /\ UNCHANGED <<page_table, current_asid>>

Next ==
    \/ \E a \in Asids, v \in Vpns, p \in Ppns : AddMapping(a, v, p)
    \/ \E a \in Asids : SwitchAsid(a)
    \/ \E v \in Vpns : TranslateHit(v) \/ TranslateMiss(v)
    \/ \E a \in Asids, v \in Vpns : Prefill(a, v)
    \/ FlushTlb

Spec == Init /\ [][Next]_vars

-----------------------------------------------------------------------------
\* Coherent: what the TLB holds is what the page table says, for every address
\* space, without a flush after add_mapping or switch_asid: a second mapping of
\* a cached page changes neither.
Coherent ==
    \A s \in Slots :
        entries[s].valid => entries[s].ppn = Walk(entries[s].asid, entries[s].vpn)

\* CacheIsTransparent: translate answers as the page table alone would,
\* whatever was cached, evicted or flushed before.
Spaces == INSTANCE AddressSpaces
             WITH space <- [a \in Asids |-> [v \in Vpns |-> Walk(a, v)]],
                  current <- current_asid
CacheIsTransparent == Spaces!Spec
=============================================================================
