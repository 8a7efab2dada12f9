------------------------------ MODULE PageMap ------------------------------
(* What a page table with pages of two sizes promises: a map from pages to *)
(* frames.  A page is a triple of indices; a superpage is all pages that   *)
(* share the first two and is backed by consecutive frames.                *)
EXTENDS Naturals

CONSTANTS Pages, Superpages, Frames, SuperFrames, Fault

VARIABLE frame   \* frame[page]: where it is mapped, or Fault

Init == frame = [page \in Pages |-> Fault]

MapPage(page, f) == frame' = [frame EXCEPT ![page] = f]

MapSuperpage(super, f) ==
    frame' = [page \in Pages |->
                 IF <<page[1], page[2]>> = super THEN f + page[3] ELSE frame[page]]

Next ==
    \/ \E page \in Pages, f \in Frames : MapPage(page, f)
    \/ \E super \in Superpages, f \in SuperFrames : MapSuperpage(super, f)

Spec == Init /\ [][Next]_frame
=============================================================================
