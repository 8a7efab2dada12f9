----------------------------- MODULE PagingProofs -----------------------------
(* Theorems about the page tables of src/exercises/06_page_table, each for   *)
(* any pages and frames: Sv39 as the tests call it, SinglePageTable, and     *)
(* PteFlags for fields of any number of bits.                                *)
EXTENDS MC_Paging, TLAPS

-----------------------------------------------------------------------------
(* Sv39: tables as values, so that the tables in the middle of map_page, of  *)
(* which only the last becomes pt, can be reasoned about as well.            *)

PteRecord == [valid : BOOLEAN, leaf : BOOLEAN, ppn : Nat]
Nodes(t) == 0 .. (t.next_ppn - 1)
Row == [Index -> PteRecord]

Shape(t) ==
    /\ t = [nodes |-> t.nodes, next_ppn |-> t.next_ppn]
    /\ t.next_ppn \in Nat \ {0}
    /\ t.nodes \in [Nodes(t) -> Row]

\* PteRecord i of node n leads to another node.
Leads(t, n, i) == t.nodes[n][i].valid /\ ~t.nodes[n][i].leaf

LeadsTo(t, n, i, m) == Leads(t, n, i) /\ t.nodes[n][i].ppn = m

\* n is entered from the root.
Second(t, n) == \E i \in Index : Leads(t, Root, i) /\ t.nodes[Root][i].ppn = n

\* The tree of Tree, and where the leaves of its second level point.
Good(t) ==
    /\ Shape(t)
    /\ \A i \in Index : ~t.nodes[Root][i].leaf
    /\ \A n \in Nodes(t), i \in Index :
          Leads(t, n, i) => /\ t.nodes[n][i].ppn \in Nodes(t) /\ t.nodes[n][i].ppn # Root
                            /\ n = Root \/ Second(t, n)
    /\ \A n, m \in Nodes(t), i, j \in Index :
          Leads(t, n, i) /\ Leads(t, m, j) /\ t.nodes[n][i].ppn = t.nodes[m][j].ppn
              => n = m /\ i = j
    /\ \A n \in Nodes(t), i \in Index :
          Second(t, n) /\ t.nodes[n][i].leaf => t.nodes[n][i].ppn \in SuperFrames

SvInv == Good(pt) /\ panicked \in BOOLEAN

\* No frame given to map_superpage holds a node of the table.
FramesFree == \A n \in DOMAIN pt.nodes : n \notin SuperFrames

-----------------------------------------------------------------------------
\* Sv39 reads the entries' format through its own names.
LEMMA SvFormat ==
    /\ Sv!Root = Root /\ Sv!Index = Index /\ Sv!Invalid = Invalid
    /\ \A p : Sv!Table(p) = Table(p) /\ Sv!Leaf(p) = Leaf(p)
  BY DEF Sv!Root, Root, Sv!Index, Index, Sv!Invalid, Invalid, Sv!Table, Table, Sv!Leaf, Leaf

LEMMA RootIsNode == \A t : Shape(t) => Root \in Nodes(t)
  BY DEF Shape, Nodes, Root

LEMMA EntriesAre ==
    /\ Invalid \in PteRecord /\ ~Invalid.valid /\ ~Invalid.leaf
    /\ \A p \in Nat : /\ Table(p) \in PteRecord /\ Leaf(p) \in PteRecord
                      /\ Table(p).valid /\ ~Table(p).leaf /\ Table(p).ppn = p
                      /\ Leaf(p).valid /\ Leaf(p).leaf /\ Leaf(p).ppn = p
  BY DEF Invalid, Table, Leaf, PteRecord

LEMMA WithPteSets ==
    ASSUME NEW t, Shape(t), NEW n \in Nodes(t), NEW i \in Index, NEW e \in PteRecord,
           NEW u, u = Sv!WithPte(t, n, i, e)
    PROVE  /\ Shape(u) /\ u.next_ppn = t.next_ppn /\ Nodes(u) = Nodes(t)
           /\ u.nodes[n][i] = e
           /\ \A m \in Nodes(t), j \in Index :
                 m # n \/ j # i => u.nodes[m][j] = t.nodes[m][j]
  <1>1. u = [t EXCEPT !.nodes[n][i] = e]
    BY DEF Sv!WithPte
  <1>2. /\ t = [nodes |-> t.nodes, next_ppn |-> t.next_ppn]
        /\ t.nodes \in [Nodes(t) -> Row] /\ t.next_ppn \in Nat \ {0}
    BY DEF Shape
  <1>3. u = [nodes |-> [t.nodes EXCEPT ![n][i] = e], next_ppn |-> t.next_ppn]
    BY <1>1, <1>2
  <1>4. u.nodes = [t.nodes EXCEPT ![n][i] = e] /\ u.next_ppn = t.next_ppn
    BY <1>3
  <1>5. Nodes(u) = Nodes(t)
    BY <1>4 DEF Nodes
  <1>6. t.nodes[n] \in Row
    BY <1>2
  <1>7. [t.nodes[n] EXCEPT ![i] = e] \in Row
    BY <1>6 DEF Row
  <1>8. u.nodes \in [Nodes(t) -> Row] /\ u.nodes[n] = [t.nodes[n] EXCEPT ![i] = e]
        /\ \A m \in Nodes(t) : m # n => u.nodes[m] = t.nodes[m]
    BY <1>2, <1>4, <1>7
  <1>9. u.nodes[n][i] = e /\ \A j \in Index : j # i => u.nodes[n][j] = t.nodes[n][j]
    BY <1>6, <1>8 DEF Row
  <1>10. Shape(u)
    BY <1>2, <1>3, <1>4, <1>5, <1>8 DEF Shape
  <1>. QED  BY <1>4, <1>5, <1>8, <1>9, <1>10

LEMMA WithNewNodeAdds ==
    ASSUME NEW t, Shape(t), NEW u, u = Sv!WithNewNode(t)
    PROVE  /\ Shape(u) /\ u.next_ppn = t.next_ppn + 1
           /\ t.next_ppn \in Nodes(u) /\ t.next_ppn \notin Nodes(t) /\ t.next_ppn # Root
           /\ \A n \in Nodes(t) : n \in Nodes(u) /\ u.nodes[n] = t.nodes[n]
           /\ \A n \in Nodes(u) : n \in Nodes(t) \/ n = t.next_ppn
           /\ \A i \in Index : u.nodes[t.next_ppn][i] = Invalid
  <1>. DEFINE new == t.next_ppn
  <1>1. new \in Nat \ {0} /\ t.nodes \in [Nodes(t) -> Row] /\ DOMAIN t.nodes = Nodes(t)
    BY DEF Shape
  <1>2. u = [nodes |-> [n \in Nodes(t) \cup {new} |-> IF n = new THEN Sv!EmptyNode ELSE t.nodes[n]],
             next_ppn |-> new + 1]
    BY <1>1 DEF Sv!WithNewNode
  <1>3. /\ u.next_ppn = new + 1
        /\ u.nodes = [n \in Nodes(t) \cup {new} |-> IF n = new THEN Sv!EmptyNode ELSE t.nodes[n]]
    BY <1>2
  <1>4. Nodes(u) = Nodes(t) \cup {new} /\ new \notin Nodes(t) /\ new # Root
    BY <1>1, <1>3 DEF Nodes, Root
  <1>5. Sv!EmptyNode \in Row /\ \A i \in Index : Sv!EmptyNode[i] = Invalid
    BY EntriesAre, SvFormat DEF Sv!EmptyNode, Row
  <1>6. /\ u.nodes[new] = Sv!EmptyNode /\ \A n \in Nodes(t) : u.nodes[n] = t.nodes[n]
        /\ u.nodes \in [Nodes(u) -> Row]
    BY <1>1, <1>3, <1>4, <1>5
  <1>7. Shape(u)
    BY <1>1, <1>2, <1>3, <1>6 DEF Shape
  <1>. QED  BY <1>1, <1>3, <1>4, <1>5, <1>6, <1>7

-----------------------------------------------------------------------------
\* What translate finds in a good table below entry i of the root.
Below(t, m, j, k) ==
    IF ~t.nodes[m][j].valid THEN Fault
    ELSE IF t.nodes[m][j].leaf THEN t.nodes[m][j].ppn + k
    ELSE LET zero == t.nodes[t.nodes[m][j].ppn][k] IN
         IF zero.valid /\ zero.leaf THEN zero.ppn ELSE Fault

SvWalk(t, i, j, k) ==
    IF Leads(t, Root, i) THEN Below(t, t.nodes[Root][i].ppn, j, k) ELSE Fault

\* u translates every page as t does.
SameWalks(u, t) ==
    \A a, b, c \in Index : SvWalk(u, a, b, c) = SvWalk(t, a, b, c)

\* Nothing is mapped in node n.
EmptyAt(t, n) == \A l \in Index : t.nodes[n][l] = Invalid

LEMMA TranslateWalks ==
    ASSUME Good(pt), NEW page \in Index \X Index \X Index
    PROVE  Sv!Translate(page) = SvWalk(pt, page[1], page[2], page[3])
  <1>. DEFINE i == page[1]
              j == page[2]
              k == page[3]
              two == Sv!Pte(Root, i)
              one == Sv!Pte(two.ppn, j)
              zero == Sv!Pte(one.ppn, k)
  <1>1. i \in Index /\ j \in Index /\ k \in Index
    OBVIOUS
  <1>2. DOMAIN pt.nodes = Nodes(pt) /\ Root \in Nodes(pt)
    BY RootIsNode DEF Good, Shape
  <1>3. \A n \in Nodes(pt), l \in Index : Sv!Pte(n, l) = pt.nodes[n][l]
    BY <1>2 DEF Sv!Pte
  <1>4. two = pt.nodes[Root][i] /\ ~two.leaf
    BY <1>1, <1>2, <1>3 DEF Good
  <1>5. Sv!Translate(page) =
          CASE ~two.valid -> Fault
            [] two.valid /\ two.leaf -> two.ppn + Sv!Offset(page, 2)
            [] two.valid /\ ~two.leaf /\ ~one.valid -> Fault
            [] two.valid /\ ~two.leaf /\ one.valid /\ one.leaf -> one.ppn + Sv!Offset(page, 1)
            [] OTHER -> IF zero.valid /\ zero.leaf THEN zero.ppn ELSE Fault
    BY SvFormat DEF Sv!Translate
  <1>6. Sv!Offset(page, 1) = k
    BY DEF Sv!Offset
  <1>7. CASE ~two.valid
    BY <1>4, <1>5, <1>7 DEF SvWalk, Leads
  <1>8. CASE two.valid
    <2>1. Leads(pt, Root, i)
      BY <1>4, <1>8 DEF Leads
    <2>2. two.ppn \in Nodes(pt)
      BY <1>1, <1>2, <1>4, <2>1 DEF Good
    <2>3. one = pt.nodes[two.ppn][j]
      BY <1>1, <1>3, <2>2
    <2>4. SvWalk(pt, i, j, k) = Below(pt, two.ppn, j, k)
      BY <1>4, <2>1 DEF SvWalk
    <2>5. CASE ~one.valid
      BY <1>4, <1>5, <1>8, <2>3, <2>4, <2>5 DEF Below
    <2>6. CASE one.valid /\ one.leaf
      BY <1>4, <1>5, <1>6, <1>8, <2>3, <2>4, <2>6 DEF Below
    <2>7. CASE one.valid /\ ~one.leaf
      <3>1. Leads(pt, two.ppn, j)
        BY <2>3, <2>7 DEF Leads
      <3>2. one.ppn \in Nodes(pt)
        BY <1>1, <2>2, <2>3, <3>1 DEF Good
      <3>3. zero = pt.nodes[one.ppn][k]
        BY <1>1, <1>3, <3>2
      <3>. QED  BY <1>4, <1>5, <1>8, <2>3, <2>4, <2>7, <3>3 DEF Below
    <2>. QED  BY <2>5, <2>6, <2>7
  <1>. QED  BY <1>7, <1>8

\* An invalid entry of the root, or of a node of the second level, is made to
\* lead to a new node, which is empty: nothing translates differently.
LEMMA Enters ==
    ASSUME NEW t, Good(t), NEW n \in Nodes(t), n = Root \/ Second(t, n),
           NEW i \in Index, ~t.nodes[n][i].valid,
           NEW u, u = Sv!WithPte(Sv!WithNewNode(t), n, i, Table(t.next_ppn))
    PROVE  /\ Good(u) /\ t.next_ppn \in Nodes(u) /\ \A m \in Nodes(t) : m \in Nodes(u)
           /\ Leads(u, n, i) /\ u.nodes[n][i].ppn = t.next_ppn
           /\ EmptyAt(u, t.next_ppn)
           /\ \A m \in Nodes(t), j \in Index :
                 m # n \/ j # i => u.nodes[m][j] = t.nodes[m][j]
           /\ SameWalks(u, t)
  <1>. DEFINE new == t.next_ppn
  <1>1. Shape(t) /\ new \in Nat /\ Root \in Nodes(t)
    BY RootIsNode DEF Good, Shape
  <1>2. PICK w : w = Sv!WithNewNode(t)
    OBVIOUS
  <1>3. /\ Shape(w) /\ new \in Nodes(w) /\ new \notin Nodes(t) /\ new # Root
        /\ \A m \in Nodes(t) : m \in Nodes(w) /\ w.nodes[m] = t.nodes[m]
        /\ \A m \in Nodes(w) : m \in Nodes(t) \/ m = new
        /\ \A j \in Index : w.nodes[new][j] = Invalid
    BY <1>1, <1>2, WithNewNodeAdds
  <1>4. /\ Table(new) \in PteRecord /\ Table(new).valid /\ ~Table(new).leaf /\ Table(new).ppn = new
        /\ ~Invalid.valid /\ ~Invalid.leaf
    BY <1>1, EntriesAre
  <1>5. /\ Shape(u) /\ Nodes(u) = Nodes(w) /\ u.nodes[n][i] = Table(new)
        /\ \A m \in Nodes(w), j \in Index : m # n \/ j # i => u.nodes[m][j] = w.nodes[m][j]
    <2>1. n \in Nodes(w) /\ u = Sv!WithPte(w, n, i, Table(new))
      BY <1>2, <1>3
    <2>. QED  BY <1>3, <1>4, <2>1, WithPteSets
  <1>6. /\ \A m \in Nodes(t), j \in Index : m # n \/ j # i => u.nodes[m][j] = t.nodes[m][j]
        /\ \A j \in Index : u.nodes[new][j] = Invalid
    BY <1>3, <1>5
  <1>7. /\ Leads(u, n, i) /\ u.nodes[n][i].ppn = new /\ ~Leads(t, n, i)
        /\ \A m \in Nodes(u), j \in Index : Leads(u, m, j) /\ ~(m = n /\ j = i) =>
              m \in Nodes(t) /\ Leads(t, m, j) /\ u.nodes[m][j] = t.nodes[m][j]
        /\ \A m \in Nodes(t), j \in Index : Leads(t, m, j) =>
              Leads(u, m, j) /\ u.nodes[m][j] = t.nodes[m][j]
    BY <1>3, <1>4, <1>5, <1>6 DEF Leads
  <1>8. /\ \A m : Second(t, m) => Second(u, m)
        /\ \A m \in Nodes(t) : Second(u, m) => Second(t, m)
        /\ n = Root => Second(u, new)
        /\ Second(u, n) => Second(t, n)
    BY <1>1, <1>3, <1>5, <1>7 DEF Second
  <1>9. Good(u)
    <2>1. \A j \in Index : ~u.nodes[Root][j].leaf
      BY <1>1, <1>4, <1>5, <1>6 DEF Good
    <2>2. ASSUME NEW m \in Nodes(u), NEW j \in Index, Leads(u, m, j)
          PROVE  /\ u.nodes[m][j].ppn \in Nodes(u) /\ u.nodes[m][j].ppn # Root
                 /\ m = Root \/ Second(u, m)
      BY <1>3, <1>5, <1>7, <1>8, <2>2 DEF Good
    <2>3. ASSUME NEW m1 \in Nodes(u), NEW m2 \in Nodes(u), NEW j1 \in Index, NEW j2 \in Index,
                 Leads(u, m1, j1), Leads(u, m2, j2), u.nodes[m1][j1].ppn = u.nodes[m2][j2].ppn
          PROVE  m1 = m2 /\ j1 = j2
      <3>1. ASSUME NEW m \in Nodes(u), NEW j \in Index, Leads(u, m, j), ~(m = n /\ j = i)
            PROVE  u.nodes[m][j].ppn \in Nodes(t) /\ m \in Nodes(t) /\ Leads(t, m, j)
                   /\ u.nodes[m][j] = t.nodes[m][j]
        BY <1>7, <3>1 DEF Good
      <3>2. \A m \in Nodes(u), j \in Index : m = n /\ j = i => u.nodes[m][j].ppn \notin Nodes(t)
        BY <1>3, <1>7
      <3>. QED  BY <2>3, <3>1, <3>2 DEF Good
    <2>4. ASSUME NEW m \in Nodes(u), NEW j \in Index, Second(u, m), u.nodes[m][j].leaf
          PROVE  u.nodes[m][j].ppn \in SuperFrames
      <3>1. m # new /\ ~(m = n /\ j = i)
        BY <1>4, <1>5, <1>6, <2>4
      <3>2. m \in Nodes(t) /\ u.nodes[m][j] = t.nodes[m][j]
        BY <1>3, <1>5, <1>6, <3>1
      <3>. QED  BY <1>8, <2>4, <3>2 DEF Good
    <2>. QED  BY <1>5, <2>1, <2>2, <2>3, <2>4 DEF Good
  <1>10. ASSUME NEW j \in Index, NEW k \in Index, NEW l \in Index
         PROVE  SvWalk(u, j, k, l) = SvWalk(t, j, k, l)
    <2>1. CASE n = Root /\ j = i
      <3>1. SvWalk(t, j, k, l) = Fault
        BY <1>7, <2>1 DEF SvWalk
      <3>2. SvWalk(u, j, k, l) = Below(u, new, k, l)
        BY <1>7, <2>1 DEF SvWalk
      <3>3. Below(u, new, k, l) = Fault
        BY <1>4, <1>6 DEF Below
      <3>. QED  BY <3>1, <3>2, <3>3
    <2>2. CASE ~(n = Root /\ j = i)
      <3>1. u.nodes[Root][j] = t.nodes[Root][j]
        BY <1>1, <1>6, <2>2
      <3>2. CASE ~Leads(t, Root, j)
        BY <3>1, <3>2 DEF SvWalk, Leads
      <3>3. CASE Leads(t, Root, j)
        <4>. DEFINE m == t.nodes[Root][j].ppn
        <4>1. m \in Nodes(t) /\ m # Root /\ Second(t, m)
          BY <1>1, <3>3 DEF Good, Second
        <4>2. /\ SvWalk(t, j, k, l) = Below(t, m, k, l)
              /\ SvWalk(u, j, k, l) = Below(u, m, k, l)
          BY <3>1, <3>3 DEF SvWalk, Leads
        <4>. HIDE DEF m
        <4>3. CASE n = m /\ k = i
          <5>1. Below(t, m, k, l) = Fault
            BY <4>3 DEF Below
          <5>2. Below(u, m, k, l) = Fault
            BY <1>4, <1>5, <1>6, <4>3 DEF Below
          <5>. QED  BY <4>2, <5>1, <5>2
        <4>4. CASE ~(n = m /\ k = i)
          <5>1. u.nodes[m][k] = t.nodes[m][k]
            BY <1>6, <4>1, <4>4
          <5>2. CASE ~Leads(t, m, k)
            BY <4>2, <5>1, <5>2 DEF Below, Leads
          <5>3. CASE Leads(t, m, k)
            <6>. DEFINE z == t.nodes[m][k].ppn
            <6>1. z \in Nodes(t) /\ z # Root
              BY <4>1, <5>3 DEF Good
            <6>2. ~Second(t, z)
              BY <1>1, <4>1, <5>3 DEF Good, Second
            <6>. HIDE DEF z
            <6>3. u.nodes[z][l] = t.nodes[z][l]
              BY <1>6, <6>1, <6>2
            <6>. QED  BY <4>2, <5>1, <5>3, <6>3 DEF Below, Leads, z
          <5>. QED  BY <5>2, <5>3
        <4>. QED  BY <4>3, <4>4
      <3>. QED  BY <3>2, <3>3
    <2>. QED  BY <2>1, <2>2
  <1>. QED  BY <1>3, <1>5, <1>6, <1>7, <1>9, <1>10 DEF SameWalks, EmptyAt

\* A leaf anywhere but in the root takes no node away from where it was, and
\* leads nowhere.
LEMMA LeafSets ==
    ASSUME NEW t, Good(t), NEW x \in Nodes(t), x # Root, NEW y \in Index,
           NEW e \in PteRecord, e.valid, e.leaf, Second(t, x) => e.ppn \in SuperFrames,
           NEW u, u = Sv!WithPte(t, x, y, e)
    PROVE  /\ Good(u) /\ Nodes(u) = Nodes(t) /\ u.nodes[x][y] = e
           /\ \A n \in Nodes(t), l \in Index :
                 n # x \/ l # y => u.nodes[n][l] = t.nodes[n][l]
           /\ \A l \in Index : u.nodes[Root][l] = t.nodes[Root][l]
  <1>1. Shape(t) /\ Root \in Nodes(t)
    BY RootIsNode DEF Good
  <1>2. /\ Shape(u) /\ Nodes(u) = Nodes(t) /\ u.nodes[x][y] = e
        /\ \A n \in Nodes(t), l \in Index : n # x \/ l # y => u.nodes[n][l] = t.nodes[n][l]
    BY <1>1, WithPteSets
  <1>3. \A l \in Index : u.nodes[Root][l] = t.nodes[Root][l]
    BY <1>1, <1>2
  <1>4. \A n \in Nodes(t), l \in Index : Leads(u, n, l) =>
           Leads(t, n, l) /\ u.nodes[n][l] = t.nodes[n][l]
    BY <1>2 DEF Leads
  <1>5. \A n : Second(u, n) <=> Second(t, n)
    BY <1>3 DEF Second, Leads
  <1>6. \A l \in Index : ~u.nodes[Root][l].leaf
    BY <1>3 DEF Good
  <1>7. ASSUME NEW n \in Nodes(u), NEW l \in Index, Leads(u, n, l)
        PROVE  /\ u.nodes[n][l].ppn \in Nodes(u) /\ u.nodes[n][l].ppn # Root
               /\ n = Root \/ Second(u, n)
    <2>1. n \in Nodes(t) /\ Leads(t, n, l) /\ u.nodes[n][l] = t.nodes[n][l]
      BY <1>2, <1>4, <1>7
    <2>. QED  BY <1>2, <1>5, <2>1 DEF Good
  <1>8. ASSUME NEW n1 \in Nodes(u), NEW n2 \in Nodes(u), NEW l1 \in Index, NEW l2 \in Index,
               Leads(u, n1, l1), Leads(u, n2, l2), u.nodes[n1][l1].ppn = u.nodes[n2][l2].ppn
        PROVE  n1 = n2 /\ l1 = l2
    <2>1. /\ n1 \in Nodes(t) /\ Leads(t, n1, l1) /\ u.nodes[n1][l1] = t.nodes[n1][l1]
          /\ n2 \in Nodes(t) /\ Leads(t, n2, l2) /\ u.nodes[n2][l2] = t.nodes[n2][l2]
      BY <1>2, <1>4, <1>8
    <2>. QED  BY <1>8, <2>1 DEF Good
  <1>9. ASSUME NEW n \in Nodes(u), NEW l \in Index, Second(u, n), u.nodes[n][l].leaf
        PROVE  u.nodes[n][l].ppn \in SuperFrames
    <2>1. CASE n = x /\ l = y
      BY <1>2, <1>5, <1>9, <2>1
    <2>2. CASE n # x \/ l # y
      <3>1. n \in Nodes(t) /\ Second(t, n) /\ u.nodes[n][l] = t.nodes[n][l]
        BY <1>2, <1>5, <1>9, <2>2
      <3>. QED  BY <1>9, <3>1 DEF Good
    <2>. QED  BY <2>1, <2>2
  <1>10. Good(u)
    BY <1>2, <1>6, <1>7, <1>8, <1>9 DEF Good
  <1>. QED  BY <1>2, <1>3, <1>10

\* A leaf on the third level: one page translates to its frame.
LEMMA MapsLeaf ==
    ASSUME NEW t, Good(t), NEW i \in Index, NEW j \in Index, NEW k \in Index,
           NEW m, LeadsTo(t, Root, i, m),
           NEW z, LeadsTo(t, m, j, z),
           NEW f \in Nat, NEW u, u = Sv!WithPte(t, z, k, Leaf(f))
    PROVE  /\ Good(u)
           /\ \A a, b, c \in Index :
                 SvWalk(u, a, b, c) = IF a = i /\ b = j /\ c = k THEN f ELSE SvWalk(t, a, b, c)
  <1>1. Shape(t) /\ Root \in Nodes(t)
    BY RootIsNode DEF Good
  <1>2. m \in Nodes(t) /\ m # Root /\ Second(t, m)
    BY <1>1 DEF Good, Second, LeadsTo
  <1>3. z \in Nodes(t) /\ z # Root /\ ~Second(t, z)
    BY <1>1, <1>2 DEF Good, Second, LeadsTo
  <1>4. Leaf(f) \in PteRecord /\ Leaf(f).valid /\ Leaf(f).leaf /\ Leaf(f).ppn = f
    BY EntriesAre
  <1>5. /\ Good(u) /\ u.nodes[z][k] = Leaf(f)
        /\ \A n \in Nodes(t), l \in Index : n # z \/ l # k => u.nodes[n][l] = t.nodes[n][l]
        /\ \A l \in Index : u.nodes[Root][l] = t.nodes[Root][l]
    <2>1. PICK e : e = Leaf(f)
      OBVIOUS
    <2>2. e \in PteRecord /\ e.valid /\ e.leaf /\ u = Sv!WithPte(t, z, k, e)
      BY <1>4, <2>1
    <2>3. Second(t, z) => e.ppn \in SuperFrames
      BY <1>3
    <2>4. /\ Good(u) /\ u.nodes[z][k] = e
          /\ \A n \in Nodes(t), l \in Index : n # z \/ l # k => u.nodes[n][l] = t.nodes[n][l]
          /\ \A l \in Index : u.nodes[Root][l] = t.nodes[Root][l]
      <3>1. z \in Nodes(t) /\ z # Root
        BY <1>3
      <3>. QED  BY <2>2, <2>3, <3>1, LeafSets
    <2>. QED  BY <2>1, <2>4
  <1>10. ASSUME NEW a \in Index, NEW b \in Index, NEW c \in Index
         PROVE  SvWalk(u, a, b, c) = IF a = i /\ b = j /\ c = k THEN f ELSE SvWalk(t, a, b, c)
    <2>1. u.nodes[Root][a] = t.nodes[Root][a]
      BY <1>5
    <2>2. CASE ~Leads(t, Root, a)
      <3>1. a # i
        BY <2>2 DEF LeadsTo
      <3>2. SvWalk(u, a, b, c) = SvWalk(t, a, b, c)
        BY <2>1, <2>2 DEF SvWalk, Leads
      <3>. QED  BY <3>1, <3>2
    <2>3. CASE Leads(t, Root, a)
      <3>. DEFINE n == t.nodes[Root][a].ppn
      <3>1. n \in Nodes(t) /\ n # z /\ Second(t, n)
        BY <1>1, <1>3, <2>3 DEF Good, Second
      <3>2. n = m => a = i
        BY <1>1, <2>3 DEF Good, LeadsTo
      <3>3. /\ SvWalk(t, a, b, c) = Below(t, n, b, c)
            /\ SvWalk(u, a, b, c) = Below(u, n, b, c)
        BY <2>1, <2>3 DEF SvWalk, Leads
      <3>4. a = i => n = m
        BY DEF LeadsTo
      <3>. HIDE DEF n
      <3>5. u.nodes[n][b] = t.nodes[n][b]
        BY <1>5, <3>1
      <3>6. CASE ~Leads(t, n, b)
        <4>1. ~(a = i /\ b = j)
          BY <3>4, <3>6 DEF LeadsTo
        <4>2. Below(u, n, b, c) = Below(t, n, b, c)
          BY <3>5, <3>6 DEF Below, Leads
        <4>. QED  BY <3>3, <4>1, <4>2
      <3>7. CASE Leads(t, n, b)
        <4>. DEFINE y == t.nodes[n][b].ppn
        <4>1. y \in Nodes(t)
          BY <3>1, <3>7 DEF Good
        <4>2. y = z => n = m /\ b = j
          BY <1>2, <3>1, <3>7 DEF Good, LeadsTo
        <4>3. n = m /\ b = j => y = z
          BY DEF LeadsTo
        <4>4. /\ Below(t, n, b, c) = (IF t.nodes[y][c].valid /\ t.nodes[y][c].leaf
                                     THEN t.nodes[y][c].ppn ELSE Fault)
              /\ Below(u, n, b, c) = (IF u.nodes[y][c].valid /\ u.nodes[y][c].leaf
                                     THEN u.nodes[y][c].ppn ELSE Fault)
          BY <3>5, <3>7 DEF Below, Leads
        <4>. HIDE DEF y
        <4>5. CASE y = z /\ c = k
          <5>1. a = i /\ b = j /\ c = k
            BY <3>2, <4>2, <4>5
          <5>2. Below(u, n, b, c) = f
            BY <1>4, <1>5, <4>4, <4>5
          <5>. QED  BY <3>3, <5>1, <5>2
        <4>6. CASE ~(y = z /\ c = k)
          <5>1. ~(a = i /\ b = j /\ c = k)
            BY <3>4, <4>3, <4>6
          <5>2. u.nodes[y][c] = t.nodes[y][c]
            BY <1>5, <4>1, <4>6
          <5>. QED  BY <3>3, <4>4, <5>1, <5>2
        <4>. QED  BY <4>5, <4>6
      <3>. QED  BY <3>6, <3>7
    <2>. QED  BY <2>2, <2>3
  <1>. QED  BY <1>5, <1>10

\* A leaf on the second level: the pages below it translate to consecutive frames.
LEMMA MapsSuperLeaf ==
    ASSUME NEW t, Good(t), NEW i \in Index, NEW j \in Index,
           NEW m, LeadsTo(t, Root, i, m),
           NEW f \in SuperFrames, NEW u, u = Sv!WithPte(t, m, j, Leaf(f))
    PROVE  /\ Good(u)
           /\ \A a, b, c \in Index :
                 SvWalk(u, a, b, c) = IF a = i /\ b = j THEN f + c ELSE SvWalk(t, a, b, c)
  <1>1. Shape(t) /\ Root \in Nodes(t) /\ f \in Nat
    BY RootIsNode, Sv39Assumption DEF Good
  <1>2. m \in Nodes(t) /\ m # Root /\ Second(t, m)
    BY <1>1 DEF Good, Second, LeadsTo
  <1>4. Leaf(f) \in PteRecord /\ Leaf(f).valid /\ Leaf(f).leaf /\ Leaf(f).ppn = f
    BY <1>1, EntriesAre
  <1>5. /\ Good(u) /\ u.nodes[m][j] = Leaf(f)
        /\ \A n \in Nodes(t), l \in Index : n # m \/ l # j => u.nodes[n][l] = t.nodes[n][l]
        /\ \A l \in Index : u.nodes[Root][l] = t.nodes[Root][l]
    <2>1. PICK e : e = Leaf(f)
      OBVIOUS
    <2>2. e \in PteRecord /\ e.valid /\ e.leaf /\ u = Sv!WithPte(t, m, j, e)
      BY <1>4, <2>1
    <2>3. Second(t, m) => e.ppn \in SuperFrames
      BY <1>4, <2>1
    <2>4. /\ Good(u) /\ u.nodes[m][j] = e
          /\ \A n \in Nodes(t), l \in Index : n # m \/ l # j => u.nodes[n][l] = t.nodes[n][l]
          /\ \A l \in Index : u.nodes[Root][l] = t.nodes[Root][l]
      BY <1>2, <2>2, <2>3, LeafSets
    <2>. QED  BY <2>1, <2>4
  <1>10. ASSUME NEW a \in Index, NEW b \in Index, NEW c \in Index
         PROVE  SvWalk(u, a, b, c) = IF a = i /\ b = j THEN f + c ELSE SvWalk(t, a, b, c)
    <2>1. u.nodes[Root][a] = t.nodes[Root][a]
      BY <1>5
    <2>2. CASE ~Leads(t, Root, a)
      <3>1. a # i
        BY <2>2 DEF LeadsTo
      <3>2. SvWalk(u, a, b, c) = SvWalk(t, a, b, c)
        BY <2>1, <2>2 DEF SvWalk, Leads
      <3>. QED  BY <3>1, <3>2
    <2>3. CASE Leads(t, Root, a)
      <3>. DEFINE n == t.nodes[Root][a].ppn
      <3>1. n \in Nodes(t) /\ Second(t, n)
        BY <1>1, <2>3 DEF Good, Second
      <3>2. n = m <=> a = i
        BY <1>1, <2>3 DEF Good, LeadsTo
      <3>3. /\ SvWalk(t, a, b, c) = Below(t, n, b, c)
            /\ SvWalk(u, a, b, c) = Below(u, n, b, c)
        BY <2>1, <2>3 DEF SvWalk, Leads
      <3>. HIDE DEF n
      <3>4. CASE n = m /\ b = j
        <4>1. Below(u, n, b, c) = f + c
          BY <1>4, <1>5, <3>4 DEF Below
        <4>. QED  BY <3>2, <3>3, <3>4, <4>1
      <3>5. CASE ~(n = m /\ b = j)
        <4>1. u.nodes[n][b] = t.nodes[n][b]
          BY <1>5, <3>1, <3>5
        <4>2. CASE ~Leads(t, n, b)
          <5>1. Below(u, n, b, c) = Below(t, n, b, c)
            BY <4>1, <4>2 DEF Below, Leads
          <5>. QED  BY <3>2, <3>3, <3>5, <5>1
        <4>3. CASE Leads(t, n, b)
          <5>. DEFINE y == t.nodes[n][b].ppn
          <5>1. y \in Nodes(t) /\ y # Root
            BY <3>1, <4>3 DEF Good
          <5>2. y # m
            <6>1. n # Root
              BY <3>1 DEF Good, Second, Root, Leads
            <6>. QED  BY <1>1, <3>1, <4>3, <6>1 DEF Good, LeadsTo
          <5>3. /\ Below(t, n, b, c) = (IF t.nodes[y][c].valid /\ t.nodes[y][c].leaf
                                       THEN t.nodes[y][c].ppn ELSE Fault)
                /\ Below(u, n, b, c) = (IF u.nodes[y][c].valid /\ u.nodes[y][c].leaf
                                       THEN u.nodes[y][c].ppn ELSE Fault)
            BY <4>1, <4>3 DEF Below, Leads
          <5>. HIDE DEF y
          <5>4. u.nodes[y][c] = t.nodes[y][c]
            BY <1>5, <5>1, <5>2
          <5>. QED  BY <3>2, <3>3, <3>5, <5>3, <5>4
        <4>. QED  BY <4>2, <4>3
      <3>. QED  BY <3>4, <3>5
    <2>. QED  BY <2>2, <2>3
  <1>. QED  BY <1>5, <1>10

-----------------------------------------------------------------------------
\* One level of map_page's loop at the root: it ends in a node of the second
\* level, and nothing translates differently.
LEMMA DescendsFromRoot ==
    ASSUME NEW t, Good(t), NEW i \in Index, NEW d, d = Sv!Descend(t, Root, i)
    PROVE  /\ Good(d.table) /\ d.node \in Nodes(d.table)
           /\ LeadsTo(d.table, Root, i, d.node)
           /\ SameWalks(d.table, t)
           /\ \/ d.table = t
              \/ EmptyAt(d.table, d.node)
  <1>1. Root \in Nodes(t)
    BY RootIsNode DEF Good
  <1>2. CASE t.nodes[Root][i].valid
    <2>1. d = [table |-> t, node |-> t.nodes[Root][i].ppn]
      BY <1>2 DEF Sv!Descend, Sv!Follows, Sv!Reused
    <2>2. d.table = t /\ d.node = t.nodes[Root][i].ppn
      BY <2>1
    <2>3. Leads(t, Root, i)
      BY <1>2 DEF Good, Leads
    <2>. QED  BY <1>1, <2>2, <2>3 DEF Good, LeadsTo, SameWalks
  <1>3. CASE ~t.nodes[Root][i].valid
    <2>1. d = [table |-> Sv!WithPte(Sv!WithNewNode(t), Root, i, Table(t.next_ppn)),
               node |-> t.next_ppn]
      BY <1>3, SvFormat DEF Sv!Descend, Sv!Follows, Sv!Reused, Sv!NewPpn, Sv!Allocated
    <2>2. PICK u : u = Sv!WithPte(Sv!WithNewNode(t), Root, i, Table(t.next_ppn))
      OBVIOUS
    <2>3. d.table = u /\ d.node = t.next_ppn
      BY <2>1, <2>2
    <2>4. /\ Good(u) /\ t.next_ppn \in Nodes(u)
          /\ Leads(u, Root, i) /\ u.nodes[Root][i].ppn = t.next_ppn
          /\ EmptyAt(u, t.next_ppn)
          /\ SameWalks(u, t)
      BY <1>1, <1>3, <2>2, Enters
    <2>. QED  BY <2>3, <2>4 DEF LeadsTo
  <1>. QED  BY <1>2, <1>3

\* The level below: it ends in a node of the third level, or meets a superpage.
LEMMA DescendsFromSecond ==
    ASSUME NEW t, Good(t), NEW i \in Index, NEW m, LeadsTo(t, Root, i, m),
           NEW j \in Index, NEW d, d = Sv!Descend(t, m, j)
    PROVE  \/ /\ t.nodes[m][j].valid /\ t.nodes[m][j].leaf
              /\ d.table = t /\ d.node = t.nodes[m][j].ppn /\ d.node \in SuperFrames
           \/ /\ Good(d.table) /\ d.node \in Nodes(d.table)
              /\ LeadsTo(d.table, Root, i, m)
              /\ LeadsTo(d.table, m, j, d.node)
              /\ SameWalks(d.table, t)
  <1>1. Root \in Nodes(t)
    BY RootIsNode DEF Good
  <1>2. m \in Nodes(t) /\ m # Root /\ Second(t, m)
    BY <1>1 DEF Good, Second, LeadsTo
  <1>3. CASE t.nodes[m][j].valid
    <2>1. d = [table |-> t, node |-> t.nodes[m][j].ppn]
      BY <1>3 DEF Sv!Descend, Sv!Follows, Sv!Reused
    <2>2. d.table = t /\ d.node = t.nodes[m][j].ppn
      BY <2>1
    <2>3. CASE t.nodes[m][j].leaf
      BY <1>2, <1>3, <2>2, <2>3 DEF Good
    <2>4. CASE ~t.nodes[m][j].leaf
      <3>1. Leads(t, m, j)
        BY <1>3, <2>4 DEF Leads
      <3>. QED  BY <1>2, <2>2, <3>1 DEF Good, LeadsTo, SameWalks
    <2>. QED  BY <2>3, <2>4
  <1>4. CASE ~t.nodes[m][j].valid
    <2>1. d = [table |-> Sv!WithPte(Sv!WithNewNode(t), m, j, Table(t.next_ppn)),
               node |-> t.next_ppn]
      BY <1>4, SvFormat DEF Sv!Descend, Sv!Follows, Sv!Reused, Sv!NewPpn, Sv!Allocated
    <2>2. PICK u : u = Sv!WithPte(Sv!WithNewNode(t), m, j, Table(t.next_ppn))
      OBVIOUS
    <2>3. d.table = u /\ d.node = t.next_ppn
      BY <2>1, <2>2
    <2>4. /\ Good(u) /\ t.next_ppn \in Nodes(u)
          /\ Leads(u, m, j) /\ u.nodes[m][j].ppn = t.next_ppn
          /\ \A n \in Nodes(t), l \in Index : n # m \/ l # j => u.nodes[n][l] = t.nodes[n][l]
          /\ SameWalks(u, t)
      BY <1>2, <1>4, <2>2, Enters
    <2>5. u.nodes[Root][i] = t.nodes[Root][i]
      BY <1>1, <1>2, <2>4
    <2>6. LeadsTo(u, Root, i, m)
      BY <2>5 DEF LeadsTo, Leads
    <2>. QED  BY <2>3, <2>4, <2>6 DEF LeadsTo
  <1>. QED  BY <1>3, <1>4

\* map_page maps its page and no other, or panics in a superpage.
LEMMA MapPageMaps ==
    ASSUME Good(pt), FramesFree, NEW page \in Pages, NEW f \in Frames, Sv!MapPage(page, f)
    PROVE  \/ pt' = pt
           \/ /\ Good(pt')
              /\ \A a, b, c \in Index :
                    SvWalk(pt', a, b, c) = IF a = page[1] /\ b = page[2] /\ c = page[3] THEN f
                                           ELSE SvWalk(pt, a, b, c)
  <1>1. PICK i \in Index, j \in Index, k \in Index :
          i = page[1] /\ j = page[2] /\ k = page[3] /\ f \in Nat
    BY Sv39Assumption
  <1>2. PICK one : one = Sv!Descend(pt, Root, i)
    OBVIOUS
  <1>3. PICK two : two = Sv!Descend(one.table, one.node, j)
    OBVIOUS
  <1>4. IF one.node \in DOMAIN one.table.nodes /\ two.node \in DOMAIN two.table.nodes
        THEN pt' = Sv!WithPte(two.table, two.node, k, Leaf(f))
        ELSE pt' = pt
    BY <1>1, <1>2, <1>3, SvFormat DEF Sv!MapPage
  <1>5. /\ Good(one.table) /\ one.node \in Nodes(one.table)
        /\ LeadsTo(one.table, Root, i, one.node)
        /\ SameWalks(one.table, pt)
        /\ \/ one.table = pt
           \/ EmptyAt(one.table, one.node)
    <2>1. PICK t : t = pt
      OBVIOUS
    <2>2. Good(t) /\ i \in Index /\ one = Sv!Descend(t, Root, i)
      BY <1>1, <1>2, <2>1
    <2>3. /\ Good(one.table) /\ one.node \in Nodes(one.table)
          /\ LeadsTo(one.table, Root, i, one.node)
          /\ SameWalks(one.table, t)
          /\ \/ one.table = t
             \/ EmptyAt(one.table, one.node)
      BY <2>2, DescendsFromRoot
    <2>. QED  BY <2>1, <2>3
  <1>6. \/ /\ one.table.nodes[one.node][j].valid /\ one.table.nodes[one.node][j].leaf
           /\ two.table = one.table /\ two.node = one.table.nodes[one.node][j].ppn
           /\ two.node \in SuperFrames
        \/ /\ Good(two.table) /\ two.node \in Nodes(two.table)
           /\ LeadsTo(two.table, Root, i, one.node)
           /\ LeadsTo(two.table, one.node, j, two.node)
           /\ SameWalks(two.table, one.table)
    BY <1>1, <1>3, <1>5, DescendsFromSecond
  <1>7. CASE /\ one.table.nodes[one.node][j].valid
             /\ two.table = one.table /\ two.node \in SuperFrames
    <2>1. one.table = pt
      BY <1>1, <1>5, <1>7, EntriesAre DEF EmptyAt
    <2>2. two.node \notin DOMAIN two.table.nodes
      BY <1>7, <2>1 DEF FramesFree
    <2>. QED  BY <1>4, <2>2
  <1>8. CASE /\ Good(two.table) /\ two.node \in Nodes(two.table)
             /\ LeadsTo(two.table, Root, i, one.node)
             /\ LeadsTo(two.table, one.node, j, two.node)
             /\ SameWalks(two.table, one.table)
    <2>1. pt' = pt \/ pt' = Sv!WithPte(two.table, two.node, k, Leaf(f))
      BY <1>4
    <2>2. ASSUME pt' = Sv!WithPte(two.table, two.node, k, Leaf(f))
          PROVE  /\ Good(pt')
                 /\ \A a, b, c \in Index :
                       SvWalk(pt', a, b, c) = IF a = i /\ b = j /\ c = k THEN f
                                              ELSE SvWalk(two.table, a, b, c)
      <3>1. PICK t : t = two.table
        OBVIOUS
      <3>2. PICK u : u = pt'
        OBVIOUS
      <3>3. PICK m : m = one.node
        OBVIOUS
      <3>4. PICK z : z = two.node
        OBVIOUS
      <3>5. /\ Good(t) /\ LeadsTo(t, Root, i, m)
            /\ LeadsTo(t, m, j, z) /\ u = Sv!WithPte(t, z, k, Leaf(f))
        BY <1>8, <2>2, <3>1, <3>2, <3>3, <3>4
      <3>6. /\ Good(u)
            /\ \A a, b, c \in Index :
                  SvWalk(u, a, b, c) = IF a = i /\ b = j /\ c = k THEN f ELSE SvWalk(t, a, b, c)
        BY <1>1, <3>5, MapsLeaf
      <3>. QED  BY <3>1, <3>2, <3>6
    <2>. QED  BY <1>1, <1>5, <1>8, <2>1, <2>2 DEF SameWalks
  <1>. QED  BY <1>6, <1>7, <1>8

\* map_superpage, as the tests call it, maps the pages below it and no other.
LEMMA MapSuperpageMaps ==
    ASSUME Good(pt), NEW super \in Superpages, NEW f \in SuperFrames,
           pt.nodes[Root][super[1]].valid \/ pt.next_ppn = Root + 1,
           Sv!MapSuperpage(super, f)
    PROVE  /\ Good(pt')
           /\ \A a, b, c \in Index :
                 SvWalk(pt', a, b, c) = IF a = super[1] /\ b = super[2] THEN f + c
                                        ELSE SvWalk(pt, a, b, c)
  <1>1. PICK i \in Index, j \in Index : i = super[1] /\ j = super[2]
    BY Sv39Assumption
  <1>2. PICK s : s = Sv!SuperTable(super)
    OBVIOUS
  <1>3. pt' = Sv!WithPte(s.table, s.node, j, Leaf(f))
    BY <1>1, <1>2, SvFormat DEF Sv!MapSuperpage
  <1>4. PICK t : t = pt
    OBVIOUS
  <1>5. Good(s.table) /\ LeadsTo(s.table, Root, i, s.node) /\ SameWalks(s.table, t)
    <2>1. Root \in Nodes(t) /\ Good(t)
      BY <1>4, RootIsNode DEF Good
    <2>2. CASE t.nodes[Root][i].valid
      <3>1. s = [table |-> t, node |-> t.nodes[Root][i].ppn]
        BY <1>1, <1>2, <1>4, <2>2, SvFormat DEF Sv!SuperTable
      <3>2. s.table = t /\ s.node = t.nodes[Root][i].ppn
        BY <3>1
      <3>3. Leads(t, Root, i)
        BY <2>1, <2>2 DEF Good, Leads
      <3>. QED  BY <2>1, <3>2, <3>3 DEF LeadsTo, SameWalks
    <2>3. CASE ~t.nodes[Root][i].valid
      <3>1. t.next_ppn - 1 = Root
        BY <1>1, <1>4, <2>3 DEF Root
      <3>2. PICK u : u = Sv!WithPte(Sv!WithNewNode(t), Root, i, Table(t.next_ppn))
        OBVIOUS
      <3>3. s = [table |-> u, node |-> t.next_ppn]
        BY <1>1, <1>2, <1>4, <2>3, <3>1, <3>2, SvFormat DEF Sv!SuperTable
      <3>4. s.table = u /\ s.node = t.next_ppn
        BY <3>3
      <3>5. /\ Good(u) /\ Leads(u, Root, i) /\ u.nodes[Root][i].ppn = t.next_ppn
            /\ SameWalks(u, t)
        BY <2>1, <2>3, <3>2, Enters
      <3>. QED  BY <3>4, <3>5 DEF LeadsTo
    <2>. QED  BY <2>2, <2>3
  <1>6. PICK w : w = s.table
    OBVIOUS
  <1>7. PICK m : m = s.node
    OBVIOUS
  <1>8. PICK u : u = pt'
    OBVIOUS
  <1>9. Good(w) /\ LeadsTo(w, Root, i, m) /\ u = Sv!WithPte(w, m, j, Leaf(f))
    BY <1>3, <1>5, <1>6, <1>7, <1>8
  <1>10. /\ Good(u)
         /\ \A a, b, c \in Index :
               SvWalk(u, a, b, c) = IF a = i /\ b = j THEN f + c ELSE SvWalk(w, a, b, c)
    BY <1>9, MapsSuperLeaf
  <1>. QED  BY <1>1, <1>4, <1>5, <1>6, <1>8, <1>10 DEF SameWalks

LEMMA SvInvInit == Sv!Init => SvInv /\ \A a, b, c \in Index : SvWalk(pt, a, b, c) = Fault
  <1>. SUFFICES ASSUME Sv!Init
                PROVE  SvInv /\ \A a, b, c \in Index : SvWalk(pt, a, b, c) = Fault
    OBVIOUS
  <1>1. /\ pt = [nodes |-> [n \in {Root} |-> Sv!EmptyNode], next_ppn |-> Root + 1]
        /\ panicked = FALSE
    BY SvFormat DEF Sv!Init
  <1>2. Sv!EmptyNode \in Row /\ \A i \in Index : Sv!EmptyNode[i] = Invalid
    BY EntriesAre, SvFormat DEF Sv!EmptyNode, Row
  <1>3. /\ pt.nodes = [n \in {Root} |-> Sv!EmptyNode] /\ pt.next_ppn = Root + 1
        /\ pt = [nodes |-> pt.nodes, next_ppn |-> pt.next_ppn]
    BY <1>1
  <1>4. Nodes(pt) = {Root}
    BY <1>3 DEF Nodes, Root
  <1>5. Shape(pt)
    BY <1>2, <1>3, <1>4 DEF Shape, Root
  <1>6. \A n \in Nodes(pt), i \in Index : pt.nodes[n][i] = Invalid
    BY <1>2, <1>3, <1>4
  <1>7. \A n \in Nodes(pt), i \in Index : ~Leads(pt, n, i) /\ ~pt.nodes[n][i].leaf
    BY <1>6, EntriesAre DEF Leads
  <1>8. Root \in Nodes(pt)
    BY <1>4
  <1>9. Good(pt)
    BY <1>5, <1>7, <1>8 DEF Good
  <1>10. \A a, b, c \in Index : SvWalk(pt, a, b, c) = Fault
    BY <1>7, <1>8 DEF SvWalk
  <1>. QED  BY <1>1, <1>9, <1>10 DEF SvInv

\* A step maps one page, or one superpage, or changes no table.
SvMapsPage(page, f) ==
    \A a, b, c \in Index :
        SvWalk(pt', a, b, c) = IF a = page[1] /\ b = page[2] /\ c = page[3] THEN f
                               ELSE SvWalk(pt, a, b, c)
SvMapsSuperpage(super, f) ==
    \A a, b, c \in Index :
        SvWalk(pt', a, b, c) = IF a = super[1] /\ b = super[2] THEN f + c
                               ELSE SvWalk(pt, a, b, c)

LEMMA SvStep ==
    ASSUME SvInv, FramesFree, [Sv!CarefulNext]_Sv!vars
    PROVE  /\ SvInv'
           /\ \/ pt' = pt
              \/ \E page \in Pages, f \in Frames : SvMapsPage(page, f)
              \/ \E super \in Superpages, f \in SuperFrames : SvMapsSuperpage(super, f)
  <1>1. CASE Sv!MapPages
    <2>1. PICK page \in Pages, f \in Frames : Sv!MapPage(page, f)
      BY <1>1 DEF Sv!MapPages
    <2>2. panicked' \in BOOLEAN
      BY <2>1 DEF Sv!MapPage, SvInv
    <2>3. pt' = pt \/ (Good(pt') /\ SvMapsPage(page, f))
      BY <2>1, MapPageMaps DEF SvInv, SvMapsPage
    <2>. QED  BY <2>2, <2>3 DEF SvInv
  <1>2. ASSUME NEW super \in Superpages, NEW f \in SuperFrames,
               pt.nodes[Root][super[1]].valid \/ pt.next_ppn = Root + 1,
               Sv!MapSuperpage(super, f)
        PROVE  SvInv' /\ SvMapsSuperpage(super, f)
    <2>1. panicked' \in BOOLEAN
      BY <1>2 DEF Sv!MapSuperpage, SvInv
    <2>2. Good(pt') /\ SvMapsSuperpage(super, f)
      BY <1>2, MapSuperpageMaps DEF SvInv, SvMapsSuperpage
    <2>. QED  BY <2>1, <2>2 DEF SvInv
  <1>3. CASE UNCHANGED Sv!vars
    BY <1>3 DEF Sv!vars, SvInv
  <1>. QED  BY <1>1, <1>2, <1>3, SvFormat DEF Sv!CarefulNext

LEMMA SvTree == SvInv => Tree
  <1>. SUFFICES ASSUME SvInv PROVE Tree
    OBVIOUS
  <1>1. Good(pt) /\ DOMAIN pt.nodes = Nodes(pt) /\ Root \in Nodes(pt)
    BY RootIsNode DEF SvInv, Good, Shape
  <1>2. \A e : e \in Sv!Tables <=>
           e \in Nodes(pt) \X Index /\ Leads(pt, e[1], e[2])
    BY <1>1, SvFormat DEF Sv!Tables, Leads
  <1>3. ASSUME NEW e \in Sv!Tables
        PROVE  /\ e[1] \in Nodes(pt) /\ e[2] \in Index /\ Leads(pt, e[1], e[2])
               /\ e = <<e[1], e[2]>>
               /\ Sv!Target(e) = pt.nodes[e[1]][e[2]].ppn
               /\ Sv!Target(e) \in Nodes(pt) /\ Sv!Target(e) # Root
               /\ e[1] = Root \/ Second(pt, e[1])
    <2>1. e[1] \in Nodes(pt) /\ e[2] \in Index /\ Leads(pt, e[1], e[2]) /\ e = <<e[1], e[2]>>
      BY <1>2, <1>3
    <2>. QED  BY <1>1, <2>1 DEF Good, Sv!Target
  <1>4. \A d, e \in Sv!Tables : Sv!Target(d) = Sv!Target(e) => d = e
    <2>. SUFFICES ASSUME NEW d \in Sv!Tables, NEW e \in Sv!Tables, Sv!Target(d) = Sv!Target(e)
                  PROVE  d = e
      OBVIOUS
    <2>1. d[1] = e[1] /\ d[2] = e[2]
      BY <1>1, <1>3 DEF Good
    <2>. QED  BY <1>3, <2>1
  <1>5. ASSUME NEW n, Second(pt, n) PROVE n \in Sv!Middle
    <2>1. PICK i \in Index : Leads(pt, Root, i) /\ pt.nodes[Root][i].ppn = n
      BY <1>5 DEF Second
    <2>2. <<Root, i>> \in Sv!Tables
      BY <1>1, <1>2, <2>1
    <2>3. Sv!Target(<<Root, i>>) = n
      BY <2>1 DEF Sv!Target
    <2>. QED  BY <2>2, <2>3, SvFormat DEF Sv!Middle
  <1>6. \A i \in Index : ~pt.nodes[Root][i].leaf
    BY <1>1 DEF Good
  <1>. QED  BY <1>1, <1>3, <1>4, <1>5, <1>6, SvFormat DEF Tree, Sv!Tree

\* The nodes form a tree of depth three whatever is mapped in what order, as
\* long as no frame given to map_superpage is one that holds a node.
THEOREM NodesFormTree == Sv!CarefulSpec /\ []FramesFree => []Tree
  <1>1. SvInv /\ FramesFree /\ [Sv!CarefulNext]_Sv!vars => SvInv'
    BY SvStep
  <1>2. Sv!Init => SvInv
    BY SvInvInit
  <1>. QED  BY <1>1, <1>2, SvTree, PTL DEF Sv!CarefulSpec

\* translate is the flat map of what was mapped last: the levels, the nodes made
\* on the way and the offsets below a superpage are invisible.
THEOREM TranslatesWhatWasMapped == Sv!CarefulSpec /\ []FramesFree => ImplementsPageMap
  <1>. DEFINE frame == [page \in Pages |-> Sv!Translate(page)]
              walks == [page \in Pages |-> SvWalk(pt, page[1], page[2], page[3])]
  <1>1. SvInv => frame = walks
    BY TranslateWalks, Sv39Assumption DEF SvInv
  <1>2. Sv!Init => SvInv /\ Sv!Map!Init
    <2>. SUFFICES ASSUME Sv!Init PROVE SvInv /\ Sv!Map!Init
      OBVIOUS
    <2>1. SvInv /\ \A a, b, c \in Index : SvWalk(pt, a, b, c) = Fault
      BY SvInvInit
    <2>2. \A page \in Pages : SvWalk(pt, page[1], page[2], page[3]) = Fault
      BY <2>1, Sv39Assumption
    <2>. QED  BY <1>1, <2>1, <2>2 DEF Sv!Map!Init
  <1>3. SvInv /\ FramesFree /\ [Sv!CarefulNext]_Sv!vars => SvInv'
    BY SvStep
  <1>4. SvInv /\ SvInv' /\ FramesFree /\ [Sv!CarefulNext]_Sv!vars => [Sv!Map!Next]_frame
    <2>. SUFFICES ASSUME SvInv, SvInv', FramesFree, [Sv!CarefulNext]_Sv!vars
                  PROVE  Sv!Map!Next \/ frame' = frame
      OBVIOUS
    <2>1. /\ frame = [page \in Pages |-> SvWalk(pt, page[1], page[2], page[3])]
          /\ frame' = [page \in Pages |-> SvWalk(pt', page[1], page[2], page[3])]
      <3>1. (SvInv => frame = walks)'
        BY <1>1, PTL
      <3>. QED  BY <1>1, <3>1
    <2>2. CASE pt' = pt
      BY <2>1, <2>2
    <2>3. ASSUME NEW page \in Pages, NEW f \in Frames, SvMapsPage(page, f)
          PROVE  Sv!Map!MapPage(page, f)
      <3>1. \A q \in Pages : q[1] = page[1] /\ q[2] = page[2] /\ q[3] = page[3] <=> q = page
        BY Sv39Assumption
      <3>2. \A q \in Pages : SvWalk(pt', q[1], q[2], q[3]) =
               IF q = page THEN f ELSE SvWalk(pt, q[1], q[2], q[3])
        BY <2>3, <3>1, Sv39Assumption DEF SvMapsPage
      <3>. QED  BY <2>1, <3>2 DEF Sv!Map!MapPage
    <2>4. ASSUME NEW super \in Superpages, NEW f \in SuperFrames, SvMapsSuperpage(super, f)
          PROVE  Sv!Map!MapSuperpage(super, f)
      <3>1. \A q \in Pages : q[1] = super[1] /\ q[2] = super[2] <=> <<q[1], q[2]>> = super
        BY Sv39Assumption
      <3>2. \A q \in Pages : SvWalk(pt', q[1], q[2], q[3]) =
               IF <<q[1], q[2]>> = super THEN f + q[3] ELSE SvWalk(pt, q[1], q[2], q[3])
        BY <2>4, <3>1, Sv39Assumption DEF SvMapsSuperpage
      <3>. QED  BY <2>1, <3>2 DEF Sv!Map!MapSuperpage
    <2>. QED  BY <2>2, <2>3, <2>4, SvStep DEF Sv!Map!Next
  <1>. QED  BY <1>2, <1>3, <1>4, PTL
       DEF Sv!CarefulSpec, ImplementsPageMap, Sv!ImplementsPageMap, Sv!Map!Spec
-----------------------------------------------------------------------------
(* SinglePageTable: of the sizes the proofs use that they are positive, of   *)
(* the numbers that are mapped that they are natural.                        *)

Slot == [ppn : TablePpns, flags : Flat!Flags]

SlotsInv ==
    /\ slots = [vpn \in 0..MaxPages-1 |-> slots[vpn]]
    /\ \A vpn \in 0..MaxPages-1 : slots[vpn] = {} \/ \E e \in Slot : slots[vpn] = {e}

\* Division with remainder: a pair of quotient and remainder is unique.
LEMMA FrameAndOffset ==
    ASSUME NEW P \in Nat \ {0}, NEW p \in Nat, NEW q \in Nat,
           NEW x \in 0..P-1, NEW y \in 0..P-1, p * P + x = q * P + y
    PROVE  p = q /\ x = y
<1>1. (p * P + x) \div P = p /\ (p * P + x) % P = x  OBVIOUS
<1>2. (q * P + y) \div P = q /\ (q * P + y) % P = y  OBVIOUS
<1> QED BY <1>1, <1>2

\* A frame in memory is not cut off by the shift.
LEMMA ShiftKeepsFrame ==
    ASSUME NEW ppn \in TablePpns, Flat!InMemory(ppn), NEW offset
    PROVE  Flat!MakePa(ppn, offset) = ppn * Flat!PageSize + offset
<1> DEFINE a == ppn * (2^OffsetBits)
<1>1. PICK P \in Nat \ {0} : P = 2^OffsetBits  BY SizesAssumption
<1>2. PICK M \in Nat \ {0} : M = 2^AddressBits  BY SizesAssumption
<1>3. ppn \in Nat  BY SizesAssumption
<1>4. ppn * P + P <= M  BY <1>1, <1>2 DEF Flat!InMemory, Flat!PageSize
<1>5. ppn * P \in Nat  BY <1>1, <1>3
<1>6. PICK b \in Nat : b = ppn * P  BY <1>5
<1>7. b < M  BY <1>4, <1>6
<1>8. b % M = b  BY <1>7
<1> QED BY <1>1, <1>2, <1>6, <1>8 DEF Flat!MakePa, Flat!PageSize

LEMMA OffsetIsSmall ==
    ASSUME NEW va \in Flat!Addresses
    PROVE  Flat!VaToOffset(va) \in 0..(2^OffsetBits - 1)
<1>1. PICK P \in Nat \ {0} : P = 2^OffsetBits  BY SizesAssumption
<1>2. PICK M \in Nat \ {0} : M = 2^AddressBits  BY SizesAssumption
<1>3. va \in Nat  BY <1>2 DEF Flat!Addresses
<1>4. va % P \in 0..(P - 1)  BY <1>1, <1>3
<1> QED BY <1>1, <1>4 DEF Flat!VaToOffset, Flat!PageSize

\* What translate answers for an address that is mapped.
LEMMA MappedAddress ==
    ASSUME SlotsInv, NEW va \in Flat!Addresses, NEW ppn \in TablePpns,
           Flat!InMemory(ppn), Flat!Reaches(va, ppn)
    PROVE  Flat!Translate(va, FALSE) = <<"Ok", ppn * Flat!PageSize + Flat!VaToOffset(va)>>
<1>1. PICK vpn \in 0..MaxPages-1 :
          vpn = Flat!VaToVpn(va)
          /\ \E e \in slots[vpn] : e.ppn = ppn /\ "VALID" \in e.flags
  BY DEF Flat!Reaches
<1>2. PICK e : slots[vpn] = {e}  BY <1>1 DEF SlotsInv
<1>3. e.ppn = ppn /\ "VALID" \in e.flags  BY <1>1, <1>2
<1>4. (CHOOSE f \in slots[vpn] : TRUE) = e  BY <1>2
<1>5. ~(vpn >= MaxPages) /\ slots[vpn] # {}  BY <1>1, <1>2, SizesAssumption
<1>6. PICK w : w = FALSE  OBVIOUS
<1>7. Flat!Translate(va, w) = <<"Ok", Flat!MakePa(ppn, Flat!VaToOffset(va))>>
  BY <1>1, <1>3, <1>4, <1>5, <1>6 DEF Flat!Translate
<1> QED BY <1>6, <1>7, ShiftKeepsFrame

LEMMA SlotsInit == Flat!Init => SlotsInv
  BY DEF Flat!Init, SlotsInv

LEMMA SlotsNext == SlotsInv /\ [Flat!Next]_Flat!vars => SlotsInv'
<1> SUFFICES ASSUME SlotsInv, [Flat!Next]_Flat!vars PROVE SlotsInv'
  OBVIOUS
<1> USE DEF SlotsInv
<1>1. CASE UNCHANGED slots
  BY <1>1
<1>2. ASSUME NEW vpn \in 0..MaxPages-1, NEW ppn \in TablePpns, NEW flags \in Flat!Flags,
             Flat!Map(vpn, ppn, flags)
      PROVE  SlotsInv'
  <2>1. [ppn |-> ppn, flags |-> flags] \in Slot  BY DEF Slot
  <2> QED BY <1>2, <2>1 DEF Flat!Map
<1>3. ASSUME NEW vpn \in 0..MaxPages-1, Flat!Unmap(vpn) PROVE SlotsInv'
  BY <1>3 DEF Flat!Unmap
<1> QED BY <1>1, <1>2, <1>3 DEF Flat!Next, Flat!TranslateCall, Flat!vars

\* Apart(va, vb, ppn, qpn): what FramesApart says of four of its values.
Apart(va, vb, ppn, qpn) ==
    LET pa == Flat!Translate(va, FALSE) IN
    /\ pa = <<"Ok", ppn * Flat!PageSize + Flat!VaToOffset(va)>>
    /\ pa = Flat!Translate(vb, FALSE) =>
          ppn = qpn /\ Flat!VaToOffset(va) = Flat!VaToOffset(vb)

LEMMA MappedAddressesApart ==
    ASSUME SlotsInv, NEW va \in Flat!Addresses, NEW vb \in Flat!Addresses,
           NEW ppn \in TablePpns, NEW qpn \in TablePpns,
           Flat!InMemory(ppn), Flat!InMemory(qpn),
           Flat!Reaches(va, ppn), Flat!Reaches(vb, qpn)
    PROVE  Apart(va, vb, ppn, qpn)
<1>1. PICK pa : pa = Flat!Translate(va, FALSE)  OBVIOUS
<1>2. PICK pb : pb = Flat!Translate(vb, FALSE)  OBVIOUS
<1>3. PICK P \in Nat \ {0} : P = Flat!PageSize  BY SizesAssumption DEF Flat!PageSize
<1>4. PICK x \in 0..P-1 : x = Flat!VaToOffset(va)
  BY <1>3, OffsetIsSmall DEF Flat!PageSize
<1>5. PICK y \in 0..P-1 : y = Flat!VaToOffset(vb)
  BY <1>3, OffsetIsSmall DEF Flat!PageSize
<1>6. pa = <<"Ok", ppn * P + x>>
  BY <1>1, <1>3, <1>4, MappedAddress
<1>7. pb = <<"Ok", qpn * P + y>>
  BY <1>2, <1>3, <1>5, MappedAddress
<1>8. ASSUME pa = pb PROVE ppn = qpn /\ x = y
  <2>1. ppn * P + x = qpn * P + y  BY <1>6, <1>7, <1>8
  <2>2. ppn \in Nat /\ qpn \in Nat  BY SizesAssumption
  <2> QED BY <2>1, <2>2, FrameAndOffset
<1> QED BY <1>1, <1>2, <1>3, <1>4, <1>5, <1>6, <1>8 DEF Apart

LEMMA SlotsImplyApart == SlotsInv => FramesApart
<1> SUFFICES ASSUME SlotsInv PROVE FramesApart
  OBVIOUS
<1>1. \A va, vb \in Flat!Addresses, ppn, qpn \in {p \in TablePpns : Flat!InMemory(p)} :
          Flat!Reaches(va, ppn) /\ Flat!Reaches(vb, qpn) => Apart(va, vb, ppn, qpn)
  BY MappedAddressesApart
<1> QED BY ONLY <1>1, Zenon DEF Apart, FramesApart, Flat!FramesApart

\* The page table with one level never sends two mapped addresses to one
\* physical address unless they are the same offset of the same frame, for page
\* and memory sizes of any number of bits (map, unmap, translate, make_pa).
THEOREM FramesStayApart ==
    Flat!Init /\ [][Flat!Next]_Flat!vars => []FramesApart
<1>1. Flat!Init /\ [][Flat!Next]_Flat!vars => []SlotsInv
  BY SlotsInit, SlotsNext, PTL
<1> QED BY <1>1, SlotsImplyApart, PTL

-----------------------------------------------------------------------------
(* PteFlags: p and f are the page number and the flags, each cut to its    *)
(* field; S, B and F are 2^PpnShift, 2^PpnBits and 2^FlagBits.              *)

\* A number cut to its low bits, and the part above them.
LEMMA QuotientAndRest ==
    \A x \in Nat, P \in Nat \ {0} :
        x % P \in 0..P-1 /\ x \div P \in Nat /\ x = (x \div P) * P + (x % P)
  OBVIOUS

LEMMA QuotientIs ==
    \A P \in Nat \ {0} : \A a \in Nat, r \in 0..P-1 :
        (a * P + r) \div P = a /\ (a * P + r) % P = r
  OBVIOUS

LEMMA Factor ==
    ASSUME NEW x \in Nat, NEW P \in Nat \ {0}, x % P = 0
    PROVE  \E k \in Nat : x = k * P
<1>1. PICK k \in Nat : k = x \div P  BY QuotientAndRest
<1>2. x = k * P + 0  BY <1>1, QuotientAndRest
<1>3. k * P \in Nat  OBVIOUS
<1> QED BY <1>2, <1>3

LEMMA Associate == \A a, b, c \in Nat : (a * b) * c = a * (b * c)
  OBVIOUS

\* V, R, W and X are in the low four bits.
LEMMA FourBits ==
    ASSUME NEW z \in Nat, NEW f \in Nat, NEW n \in 0..3
    PROVE  Flags!Bit(16 * z + f, n) <=> Flags!Bit(f, n)
<1>1. CASE n = 0
  BY <1>1 DEF Flags!Bit
<1>2. CASE n = 1
  BY <1>2 DEF Flags!Bit
<1>3. CASE n = 2
  BY <1>3 DEF Flags!Bit
<1>4. CASE n = 3
  BY <1>4 DEF Flags!Bit
<1> QED BY <1>1, <1>2, <1>3, <1>4

\* An entry is its two fields, each within its bits.
LEMMA EntryIs ==
    ASSUME NEW ppn \in Nat, NEW flags \in Nat,
           NEW p, p = Flags!Low(ppn, PpnBits), NEW f, f = Flags!Low(flags, FlagBits)
    PROVE  /\ p \in Nat /\ f \in Nat
           /\ Flags!MakePte(ppn, flags) \in Nat
           /\ Flags!ExtractPpn(Flags!MakePte(ppn, flags)) = p
           /\ Flags!ExtractFlags(Flags!MakePte(ppn, flags)) = f
           /\ Flags!MakePte(ppn, flags) \div 2^(PpnShift + PpnBits) = 0
           /\ \A n \in 0..3 : Flags!Bit(Flags!MakePte(ppn, flags), n) <=> Flags!Bit(flags, n)
<1>1. PICK F \in Nat \ {0} : F = 2^FlagBits  BY FieldsAssumption
<1>2. PICK S \in Nat \ {0} : S = 2^PpnShift  BY FieldsAssumption
<1>3. PICK B \in Nat \ {0} : B = 2^PpnBits  BY FieldsAssumption
<1>4. PICK e : e = Flags!MakePte(ppn, flags)  OBVIOUS
<1>5. p \in 0..B-1 /\ f \in 0..F-1
  BY <1>1, <1>3, QuotientAndRest DEF Flags!Low
<1>6. e = p * S + f
  BY <1>2, <1>4 DEF Flags!MakePte
<1>7. PICK k \in Nat : S = k * F
  BY <1>1, <1>2, FieldsAssumption, Factor
<1>8. PICK m \in Nat : F = m * 16
  BY <1>1, FieldsAssumption, Factor
<1>9. F <= S
  BY <1>7, k # 0 => k >= 1, k >= 1 => k * F >= F
<1>10. f \in 0..S-1 /\ p \in Nat /\ f \in Nat
  BY <1>5, <1>9
<1>11. e \div S = p /\ e % S = f
  BY <1>6, <1>10, QuotientIs
<1>12. p % B = p
  BY <1>5, QuotientIs, p = 0 * B + p
<1>13. p * k \in Nat /\ p * S = (p * k) * F
  BY <1>7, <1>10, Associate
<1>14. e % F = f
  BY <1>5, <1>6, <1>13, QuotientIs
<1>15. e < S * B
  <2>1. (p + 1) * S <= B * S
    BY <1>5, (B - (p + 1)) * S >= 0, (B - (p + 1)) * S = B * S - (p + 1) * S
  <2>2. (p + 1) * S = p * S + S
    BY <1>10
  <2>3. p * S \in Nat /\ B * S = S * B /\ B * S \in Nat
    BY <1>10
  <2> QED BY <2>1, <2>2, <2>3, <1>6, <1>10
<1>16. e \div (S * B) = 0
  <2>1. S * B \in Nat \ {0} /\ e \in Nat
    BY <1>6, <1>10
  <2> QED BY <1>15, <2>1, QuotientIs, e = 0 * (S * B) + e
<1>17. \A n \in 0..3 : Flags!Bit(e, n) <=> Flags!Bit(flags, n)
  <2>1. PICK q \in Nat : flags = q * F + f
    BY <1>1, QuotientAndRest DEF Flags!Low
  <2>2. PICK y \in Nat : y = q * m  OBVIOUS
  <2>3. q * F = 16 * y
    BY <1>8, <2>2, Associate
  <2>4. PICK z \in Nat : z = (p * k) * m
    BY <1>13
  <2>5. (p * k) * F = 16 * z
    BY <1>8, <1>13, <2>4, Associate
  <2>6. flags = 16 * y + f /\ e = 16 * z + f
    BY <2>1, <2>3, <2>5, <1>6, <1>13
  <2>7. \A n \in 0..3 : Flags!Bit(16 * y + f, n) <=> Flags!Bit(f, n)
    BY <1>10, FourBits
  <2>8. \A n \in 0..3 : Flags!Bit(16 * z + f, n) <=> Flags!Bit(f, n)
    BY <1>10, FourBits
  <2> QED BY <2>6, <2>7, <2>8, Zenon
<1>18. e \in Nat
  BY <1>6, <1>10
<1> QED BY <1>1, <1>2, <1>3, <1>4, <1>10, <1>11, <1>12, <1>14, <1>16, <1>17, <1>18, FieldsAssumption
     DEF Flags!ExtractPpn, Flags!ExtractFlags, Flags!Low

\* The entry is make_pte of what it was made from, and the last check is of this entry.
PteInv ==
    /\ made \in (PpnArgs \cup {0}) \X (FlagArgs \cup {0})
    /\ pte = Flags!MakePte(made[1], made[2])
    /\ checked = <<>> \/ \E access \in SUBSET {"read", "write", "execute"} :
          checked = <<access, Flags!CheckPermission(pte, access)>>

LEMMA PteInit == Flags!Init => PteInv
<1> SUFFICES ASSUME Flags!Init PROVE PteInv
  OBVIOUS
<1>1. made = <<0, 0>> /\ made[1] = 0 /\ made[2] = 0 /\ pte = 0 /\ checked = <<>>
  BY DEF Flags!Init
<1>2. \A x \in {2^FlagBits, 2^PpnBits} : 0 % x = 0
  <2>1. \A x \in Nat \ {0} : 0 % x = 0  OBVIOUS
  <2> QED BY <2>1, FieldsAssumption
<1>3. 0 * 2^PpnShift = 0
  BY FieldsAssumption
<1>4. Flags!MakePte(0, 0) = 0
  BY <1>2, <1>3 DEF Flags!MakePte, Flags!Low
<1> QED BY <1>1, <1>4 DEF PteInv

LEMMA PteNext == PteInv /\ [Flags!Next]_Flags!vars => PteInv'
<1> SUFFICES ASSUME PteInv, [Flags!Next]_Flags!vars PROVE PteInv'
  OBVIOUS
<1> USE DEF PteInv
<1>1. CASE UNCHANGED Flags!vars
  BY <1>1 DEF Flags!vars, Flags!CheckPermission, Flags!IsValid, Flags!Bit
<1>2. ASSUME NEW ppn \in PpnArgs, NEW flags \in FlagArgs, Flags!Make(ppn, flags)
      PROVE  PteInv'
  BY <1>2 DEF Flags!Make, Flags!MakePte, Flags!Low
<1>3. ASSUME NEW access \in SUBSET {"read", "write", "execute"}, Flags!Check(access)
      PROVE  PteInv'
  BY <1>3 DEF Flags!Check
<1> QED BY <1>1, <1>2, <1>3 DEF Flags!Next

LEMMA PteInvImpliesFields == PteInv => PteFields
<1> SUFFICES ASSUME PteInv PROVE PteFields
  OBVIOUS
<1>1. PICK ppn \in Nat, flags \in Nat : made[1] = ppn /\ made[2] = flags
  BY FieldsAssumption DEF PteInv
<1>2. PICK p, f : p = Flags!Low(ppn, PpnBits) /\ f = Flags!Low(flags, FlagBits)
  OBVIOUS
<1>3. pte = Flags!MakePte(ppn, flags)
  BY <1>1 DEF PteInv
<1>4. /\ Flags!ExtractPpn(pte) = p /\ Flags!ExtractFlags(pte) = f
      /\ pte \div 2^(PpnShift + PpnBits) = 0
      /\ \A n \in 0..3 : Flags!Bit(pte, n) <=> Flags!Bit(flags, n)
  BY <1>2, <1>3, EntryIs
<1>5. ASSUME NEW access \in SUBSET {"read", "write", "execute"},
             checked = <<access, Flags!CheckPermission(pte, access)>>
      PROVE  /\ checked[2] <=>
                   Flags!Bit(flags, 0) /\ \A a \in access : Flags!Bit(flags, Flags!Asked[a])
             /\ checked[2] /\ access # {} => Flags!IsLeaf(pte)
  <2>1. Flags!Asked["read"] = 1 /\ Flags!Asked["write"] = 2 /\ Flags!Asked["execute"] = 3
    BY DEF Flags!Asked, Flags!PTE_R, Flags!PTE_W, Flags!PTE_X
  <2>2. /\ Flags!Bit(pte, 0) <=> Flags!Bit(flags, 0)
        /\ Flags!Bit(pte, 1) <=> Flags!Bit(flags, 1)
        /\ Flags!Bit(pte, 2) <=> Flags!Bit(flags, 2)
        /\ Flags!Bit(pte, 3) <=> Flags!Bit(flags, 3)
    BY <1>4
  <2>3. checked[2] <=> Flags!CheckPermission(pte, access)
    BY <1>5
  <2>4. checked[2] <=>
           /\ Flags!Bit(pte, 0)
           /\ "read" \in access => Flags!Bit(pte, 1)
           /\ "write" \in access => Flags!Bit(pte, 2)
           /\ "execute" \in access => Flags!Bit(pte, 3)
    BY <2>3, Zenon DEF Flags!CheckPermission, Flags!IsValid,
       Flags!PTE_V, Flags!PTE_R, Flags!PTE_W, Flags!PTE_X
  <2>5. (\A a \in access : Flags!Bit(flags, Flags!Asked[a])) <=>
           /\ "read" \in access => Flags!Bit(flags, 1)
           /\ "write" \in access => Flags!Bit(flags, 2)
           /\ "execute" \in access => Flags!Bit(flags, 3)
    BY <2>1, Zenon
  <2>6. checked[2] /\ access # {} => Flags!Bit(pte, 1) \/ Flags!Bit(pte, 2) \/ Flags!Bit(pte, 3)
    BY <2>4, Zenon
  <2> QED BY <2>2, <2>4, <2>5, <2>6, Zenon
       DEF Flags!IsLeaf, Flags!PTE_R, Flags!PTE_W, Flags!PTE_X
<1>6. checked # <<>> =>
          /\ checked[2] <=>
                Flags!Bit(flags, 0) /\ \A a \in checked[1] : Flags!Bit(flags, Flags!Asked[a])
          /\ checked[2] /\ checked[1] # {} => Flags!IsLeaf(pte)
  <2> SUFFICES ASSUME checked # <<>> PROVE
          /\ checked[2] <=>
                Flags!Bit(flags, 0) /\ \A a \in checked[1] : Flags!Bit(flags, Flags!Asked[a])
          /\ checked[2] /\ checked[1] # {} => Flags!IsLeaf(pte)
    OBVIOUS
  <2>1. PICK access \in SUBSET {"read", "write", "execute"} :
            checked = <<access, Flags!CheckPermission(pte, access)>>
    BY DEF PteInv
  <2>2. checked[1] = access  BY <2>1
  <2> QED BY <2>1, <2>2, <1>5, Zenon
<1> QED BY <1>1, <1>2, <1>4, <1>6, Zenon DEF PteFields, Flags!PteFields, Flags!PTE_V

\* The fields of an entry never run into each other, whatever words it is made
\* from and for fields of any number of bits (make_pte, extract_ppn,
\* extract_flags, check_permission).
THEOREM FieldsStayApart ==
    Flags!Init /\ [][Flags!Next]_Flags!vars => []PteFields
<1>1. Flags!Init /\ [][Flags!Next]_Flags!vars => []PteInv
  BY PteInit, PteNext, PTL
<1> QED BY <1>1, PteInvImpliesFields, PTL
=============================================================================
