------------------------------ MODULE PteFlags ------------------------------
(***************************************************************************)
(* The SV39 page table entry of src/exercises/06_page_table/01_pte_flags:  *)
(* an unsigned integer with the flags in its low bits, from V on, two bits *)
(* for software above them, and the page number.                           *)
(***************************************************************************)
EXTENDS Naturals

CONSTANTS
    FlagBits,   \* the flags: 8, of which V, R, W and X are looked at
    PpnShift,   \* PPN_SHIFT (10)
    PpnBits,    \* ones in PPN_MASK (44)
    Width,      \* bits of an entry (64)
    PpnArgs, FlagArgs   \* the words entries are made from, wider than their fields

VARIABLES
    pte,
    made,      \* the page number and the flags it was made from
    checked    \* the last check_permission: the access, and whether it is permitted

vars == <<pte, made, checked>>

Low(x, n) == x % 2^n
Bit(x, n) == (x \div 2^n) % 2 = 1

PTE_V == 0
PTE_R == 1
PTE_W == 2
PTE_X == 3

MakePteUnmasked(ppn, flags) ==  \* mutant: the flags are not masked
    Low(Low(ppn, PpnBits) * 2^PpnShift + flags, Width)
MakePte(ppn, flags) == Low(ppn, PpnBits) * 2^PpnShift + Low(flags, FlagBits)

ExtractPpn(e) == Low(e \div 2^PpnShift, PpnBits)
ExtractFlags(e) == Low(e, FlagBits)
IsValid(e) == Bit(e, PTE_V)
IsLeaf(e) == Bit(e, PTE_R) \/ Bit(e, PTE_W) \/ Bit(e, PTE_X)

CheckPermission(e, access) ==
    /\ IsValid(e)
    /\ "read" \in access => Bit(e, PTE_R)
    /\ "write" \in access => Bit(e, PTE_W)
    /\ "execute" \in access => Bit(e, PTE_X)

-----------------------------------------------------------------------------
Init == pte = 0 /\ made = <<0, 0>> /\ checked = <<>>

Make(ppn, flags) ==
    /\ pte' = MakePte(ppn, flags)
    /\ made' = <<ppn, flags>>
    /\ checked' = <<>>

Check(access) ==
    /\ checked' = <<access, CheckPermission(pte, access)>>
    /\ UNCHANGED <<pte, made>>

Next ==
    \/ \E ppn \in PpnArgs, flags \in FlagArgs : Make(ppn, flags)
    \/ \E access \in SUBSET {"read", "write", "execute"} : Check(access)

-----------------------------------------------------------------------------
\* PteFields: the fields of an entry do not run into each other, whatever words
\* it was made from: the page number and the flags come out as they went in,
\* each cut to its field; an access that is permitted, other than none, is one
\* to a leaf whose flags, as they were given, hold V and what it asks for.
Asked == [read |-> PTE_R, write |-> PTE_W, execute |-> PTE_X]

PteFields ==
    /\ ExtractPpn(pte) = Low(made[1], PpnBits)
    /\ ExtractFlags(pte) = Low(made[2], FlagBits)
    /\ pte \div 2^(PpnShift + PpnBits) = 0
    /\ checked # <<>> =>
          /\ checked[2] <=>
                Bit(made[2], PTE_V) /\ \A a \in checked[1] : Bit(made[2], Asked[a])
          /\ checked[2] /\ checked[1] # {} => IsLeaf(pte)
=============================================================================
