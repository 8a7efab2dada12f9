----------------------------- MODULE Sv39Format -----------------------------
(* The sizes and the entries of the SV39 page table, see Sv39.             *)
EXTENDS Naturals

CONSTANTS
    PtEntries,     \* entries of a node (512)
    Pages,         \* the pages in use, <<VPN[2], VPN[1], VPN[0]>>
    Superpages,    \* the superpages in use, <<VPN[2], VPN[1]>>
    Frames,        \* frames for pages
    SuperFrames    \* first frames for superpages

Index == 0..(PtEntries - 1)
Root == 0          \* root_ppn

ASSUME Sv39Assumption ==
    /\ PtEntries \in Nat \ {0}
    /\ Pages \subseteq Index \X Index \X Index
    /\ Superpages \subseteq Index \X Index
    /\ Frames \subseteq Nat /\ SuperFrames \subseteq Nat
    /\ \A f \in SuperFrames : f % PtEntries = 0

Invalid == [valid |-> FALSE, leaf |-> FALSE, ppn |-> 0]
Table(ppn) == [valid |-> TRUE, leaf |-> FALSE, ppn |-> ppn]
Leaf(ppn) == [valid |-> TRUE, leaf |-> TRUE, ppn |-> ppn]
=============================================================================
