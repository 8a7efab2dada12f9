------------------------------ MODULE MC_Paging ------------------------------
(* The components of src/exercises/06_page_table, checked in one run: each *)
(* initial state chooses one.                                              *)
EXTENDS Mmu, Sv39Format

CONSTANTS
    OffsetBits, AddressBits, MaxPages, TablePpns,      \* SinglePageTable
    FlagBits, PpnShift, PpnBits, Width,                \* PteFlags
    PpnArgs, FlagArgs

\* Page sizes and the size of memory are powers of two: 2^12 and 2^32 in the
\* code.
ASSUME SizesAssumption ==
    /\ MaxPages \in Nat /\ TablePpns \subseteq Nat
    /\ 2^OffsetBits \in Nat \ {0} /\ 2^AddressBits \in Nat \ {0}

\* The flags, which are V, R, W and X at least, and the page number are apart,
\* and 2^n is what it is (a law the provers do not know).
ASSUME FieldsAssumption ==
    /\ PpnArgs \subseteq Nat /\ FlagArgs \subseteq Nat
    /\ {2^FlagBits, 2^PpnShift, 2^PpnBits} \subseteq Nat \ {0}
    /\ 2^FlagBits % 16 = 0 /\ 2^PpnShift % 2^FlagBits = 0
    /\ 2^(PpnShift + PpnBits) = 2^PpnShift * 2^PpnBits

\* Two pages of one node, one in another node below the same root entry, and
\* one below the other root entry.
MCPages == {<<0, 0, 0>>, <<0, 0, 1>>, <<0, 1, 0>>, <<1, 0, 1>>}
MCSuperpages == {<<0, 0>>, <<1, 0>>, <<1, 1>>}

VARIABLES
    component,
    pt, panicked,               \* Sv39
    slots, translated,          \* SinglePageTable
    pte, made, checked          \* PteFlags

Sv == INSTANCE Sv39
Flat == INSTANCE SinglePageTable WITH answer <- translated
Flags == INSTANCE PteFlags

svVars == <<pt, panicked>>
flatVars == <<slots, translated>>
pteVars == <<pte, made, checked>>
mcVars == <<component, vars, svVars, flatVars, pteVars>>

MCInit ==
    /\ component \in {"mmu", "sv39", "flat", "pte"}
    /\ Init /\ Sv!Init /\ Flat!Init /\ Flags!Init

NextBut(SvNext) ==
    /\ UNCHANGED component
    /\ \/ component = "mmu" /\ Next /\ UNCHANGED <<svVars, flatVars, pteVars>>
       \/ component = "sv39" /\ SvNext /\ UNCHANGED <<vars, flatVars, pteVars>>
       \/ component = "flat" /\ Flat!Next /\ UNCHANGED <<vars, svVars, pteVars>>
       \/ component = "pte" /\ Flags!Next /\ UNCHANGED <<vars, svVars, flatVars>>

\* map_superpage as the tests call it, or in any order.
CarefulSpec == MCInit /\ [][NextBut(Sv!CarefulNext)]_mcVars
MCSpec == MCInit /\ [][NextBut(Sv!Next)]_mcVars

-----------------------------------------------------------------------------
\* The properties of the other components, stated and explained there.

\* Sv39: the nodes form a tree of depth three.
Tree == Sv!Tree
\* Sv39: translation is the flat map of what was mapped last.
ImplementsPageMap == Sv!ImplementsPageMap
\* SinglePageTable: different frames share no physical address.
FramesApart == Flat!FramesApart
\* PteFlags: the fields of an entry do not run into each other.
PteFields == Flags!PteFields
=============================================================================
