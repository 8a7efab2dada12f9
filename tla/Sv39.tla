-------------------------------- MODULE Sv39 --------------------------------
(***************************************************************************)
(* The three-level page table of src/exercises/06_page_table/              *)
(* 03_multi_level_pt.  A virtual address is its three indices: the offset  *)
(* passes through, and the bits above the 39th are ignored.                *)
(* Of a PTE's flags translate looks at V and at whether any of R, W and X  *)
(* is set; the flags given to the two map functions include one of these.  *)
(* The frames mapped in the runs are none of those that hold the table.    *)
(* Some tests map such frames, which matters only to a map_page below a    *)
(* superpage (it takes the superpage's frame for a node): none makes one.  *)
(***************************************************************************)
EXTENDS Sv39Format

CONSTANT Fault   \* PageFault

VARIABLES
    pt,         \* the Sv39PageTable: its nodes by page number, and next_ppn
    panicked    \* whether an unwrap() met None

vars == <<pt, panicked>>

EmptyNode == [i \in Index |-> Invalid]

Init ==
    /\ pt = [nodes |-> [n \in {Root} |-> EmptyNode], next_ppn |-> Root + 1]
    /\ panicked = FALSE

\* alloc_node(): the table with an empty node at next_ppn.
WithNewNode(t) ==
    [nodes |-> [n \in (DOMAIN t.nodes) \cup {t.next_ppn} |->
                   IF n = t.next_ppn THEN EmptyNode ELSE t.nodes[n]],
     next_ppn |-> t.next_ppn + 1]

WithPte(t, n, i, pte) == [t EXCEPT !.nodes[n][i] = pte]

\* The page number written to the entry that leads to a new node.
AfterAlloc(t) == t.next_ppn + 1  \* mutant: read after alloc_node has moved it
Allocated(t) == t.next_ppn
NewPpn(t) == Allocated(t)

\* map_page: the table, and the node reached, after one level of the loop.
Reused(t, n, i) == t.nodes[n][i].valid
NeverReused(t, n, i) == FALSE  \* mutant: a valid PTE is not followed
Follows(t, n, i) == Reused(t, n, i)

Descend(t, n, i) ==
    IF Follows(t, n, i)
    THEN [table |-> t, node |-> t.nodes[n][i].ppn]
    ELSE [table |-> WithPte(WithNewNode(t), n, i, Table(NewPpn(t))),
          node |-> t.next_ppn]

MapPage(page, f) ==
    LET one == Descend(pt, Root, page[1])
        two == Descend(one.table, one.node, page[2])
    IN  /\ ~panicked
        /\ IF one.node \in DOMAIN one.table.nodes /\ two.node \in DOMAIN two.table.nodes
           THEN /\ pt' = WithPte(two.table, two.node, page[3], Leaf(f))
                /\ UNCHANGED panicked
           ELSE panicked' = TRUE /\ UNCHANGED pt  \* the page lies in a superpage

\* map_superpage: the node just below the new one is taken for the root.
SuperTable(super) ==
    LET i == super[1]
        new == pt.next_ppn
    IN  IF pt.nodes[Root][i].valid
        THEN [table |-> pt, node |-> pt.nodes[Root][i].ppn]
        ELSE [table |-> WithPte(WithNewNode(pt), new - 1, i, Table(new)), node |-> new]

MapSuperpage(super, f) ==
    /\ ~panicked
    /\ pt' = WithPte(SuperTable(super).table, SuperTable(super).node, super[2], Leaf(f))
    /\ UNCHANGED panicked

MapPages == \E page \in Pages, f \in Frames : MapPage(page, f)

Next ==
    \/ MapPages
    \/ \E super \in Superpages, f \in SuperFrames : MapSuperpage(super, f)

Spec == Init /\ [][Next]_vars

\* As the tests call it: map_superpage is given a fresh table, or one that
\* already has a node for the first index.
CarefulNext ==
    \/ MapPages
    \/ \E super \in Superpages, f \in SuperFrames :
          /\ pt.nodes[Root][super[1]].valid \/ pt.next_ppn = Root + 1
          /\ MapSuperpage(super, f)

CarefulSpec == Init /\ [][CarefulNext]_vars

-----------------------------------------------------------------------------
(* translate *)

\* The PTE a level looks at; a missing node is a page fault as well.
Pte(n, i) == IF n \in DOMAIN pt.nodes THEN pt.nodes[n][i] ELSE Invalid

\* What the indices below a leaf add to its frame.
Offset(page, level) ==
    CASE level = 0 -> 0
      [] level = 1 -> page[3]
      [] level = 2 -> page[2] * PtEntries + page[3]

Translate(page) ==
    LET two == Pte(Root, page[1])
        one == Pte(two.ppn, page[2])
        zero == Pte(one.ppn, page[3])
    IN  CASE ~two.valid -> Fault
          [] two.valid /\ two.leaf -> two.ppn + Offset(page, 2)
          [] two.valid /\ ~two.leaf /\ ~one.valid -> Fault
          [] two.valid /\ ~two.leaf /\ one.valid /\ one.leaf -> one.ppn + Offset(page, 1)
          [] OTHER -> IF zero.valid /\ zero.leaf THEN zero.ppn ELSE Fault

-----------------------------------------------------------------------------
\* ImplementsPageMap: pages translate to what they were last mapped to, alone or
\* as part of a superpage, and mapping one changes no other: the three levels
\* and the nodes made on the way are invisible.
Map == INSTANCE PageMap WITH frame <- [page \in Pages |-> Translate(page)]
ImplementsPageMap == Map!Spec

\* Tree: the nodes form a tree of depth three: the root's entries lead to nodes
\* of the second level, theirs to the third, leaves are found on the last two
\* levels only, and no node is entered from two places.
Tables == {e \in (DOMAIN pt.nodes) \X Index :
              pt.nodes[e[1]][e[2]].valid /\ ~pt.nodes[e[1]][e[2]].leaf}
Target(e) == pt.nodes[e[1]][e[2]].ppn
Middle == {Target(e) : e \in {d \in Tables : d[1] = Root}}

Tree ==
    /\ \A e \in Tables : Target(e) \in (DOMAIN pt.nodes) \ {Root}
    /\ \A d, e \in Tables : Target(d) = Target(e) => d = e
    /\ \A i \in Index : ~pt.nodes[Root][i].leaf
    /\ \A e \in Tables : e[1] = Root \/ e[1] \in Middle
=============================================================================
