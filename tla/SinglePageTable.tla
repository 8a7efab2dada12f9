--------------------------- MODULE SinglePageTable ---------------------------
(***************************************************************************)
(* The page table with one level of src/exercises/06_page_table/           *)
(* 02_page_table_walk.  An Option is a set of at most one element; flags   *)
(* are the set of those that are set.                                      *)
(***************************************************************************)
EXTENDS Naturals

CONSTANTS
    OffsetBits,    \* PAGE_OFFSET_BITS (12)
    AddressBits,   \* bits of an address, virtual or physical (32)
    MaxPages,      \* max_pages
    TablePpns      \* the page numbers that are mapped: u32, of more bits than a frame's

VARIABLES
    slots,    \* the vector of entries
    answer    \* the last call of translate, and its TranslateResult or a panic

vars == <<slots, answer>>

PageSize == 2^OffsetBits
Addresses == 0..(2^AddressBits - 1)
Flags == SUBSET {"VALID", "WRITE"}

Init ==
    /\ slots = [vpn \in 0..MaxPages-1 |-> {}]
    /\ answer = <<>>

VaToVpn(va) == va \div PageSize
VaToOffset(va) == va % PageSize

\* ppn << PAGE_OFFSET_BITS loses the bits that leave the u32.
MakePaUnshifted(ppn, offset) == (ppn + offset) % (2^AddressBits)  \* mutant
MakePa(ppn, offset) == ((ppn * PageSize) % (2^AddressBits)) + offset

\* A virtual page number indexes the vector: past its end that panics.
Translate(va, is_write) ==
    LET vpn == VaToVpn(va) IN
    IF vpn >= MaxPages THEN <<"panic">>
    ELSE IF slots[vpn] = {} THEN <<"PageFault">>
    ELSE LET pte == CHOOSE e \in slots[vpn] : TRUE IN
         CASE "VALID" \notin pte.flags -> <<"PageFault">>
           [] "VALID" \in pte.flags /\ is_write /\ "WRITE" \notin pte.flags -> <<"PermissionDenied">>
           [] OTHER -> <<"Ok", MakePa(pte.ppn, VaToOffset(va))>>

-----------------------------------------------------------------------------
Map(vpn, ppn, flags) ==
    /\ slots' = [slots EXCEPT ![vpn] = {[ppn |-> ppn, flags |-> flags]}]
    /\ answer' = <<>>

Unmap(vpn) ==
    /\ slots' = [slots EXCEPT ![vpn] = {}]
    /\ answer' = <<>>

\* After a panic the program is at its end.
TranslateCall(va, is_write) ==
    /\ answer' = <<va, is_write, Translate(va, is_write)>>
    /\ UNCHANGED slots

Running == answer # <<>> => answer[3] # <<"panic">>

Next ==
    /\ Running
    /\ \/ \E vpn \in 0..MaxPages-1, ppn \in TablePpns, flags \in Flags : Map(vpn, ppn, flags)
       \/ \E vpn \in 0..MaxPages-1 : Unmap(vpn)
       \/ \E va \in Addresses, is_write \in BOOLEAN : TranslateCall(va, is_write)

-----------------------------------------------------------------------------
Reaches(va, ppn) ==
    \E vpn \in 0..MaxPages-1 :
        vpn = VaToVpn(va) /\ \E pte \in slots[vpn] : pte.ppn = ppn /\ "VALID" \in pte.flags

InMemory(ppn) == ppn * PageSize + PageSize <= 2^AddressBits

\* FramesApart: two addresses translate to one physical address only when they
\* are mapped to the same frame at the same offset, and that address is in the
\* frame: "ppn * PAGE_SIZE + offset".  Frames past the end of memory, whose
\* numbers make_pa cuts off, are excluded.
FramesApart ==
    \A va, vb \in Addresses, ppn, qpn \in {p \in TablePpns : InMemory(p)} :
        Reaches(va, ppn) /\ Reaches(vb, qpn) =>
            LET pa == Translate(va, FALSE) IN
            /\ pa = <<"Ok", ppn * PageSize + VaToOffset(va)>>
            /\ pa = Translate(vb, FALSE) => ppn = qpn /\ VaToOffset(va) = VaToOffset(vb)
=============================================================================
