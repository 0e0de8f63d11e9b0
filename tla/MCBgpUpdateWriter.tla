------------------------- MODULE MCBgpUpdateWriter -------------------------
(* Instances of BgpUpdateWriter for TLC. *)
EXTENDS BgpUpdateWriter

CONSTANTS x, y

MCItems == {x, y}

\* Fields of no, one and two items.
MCData == {<<>>, <<y>>, <<x, y>>}

\* A body with every field, and one with attributes only.
MCBodies == {<<1, x, 1, y, x>>, <<0, 2, y, y>>}
=============================================================================
