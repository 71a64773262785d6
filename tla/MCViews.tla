------------------------------ MODULE MCViews ------------------------------
(* Two elections, one of them with an account for the relay and one for the page. *)
EXTENDS Views, TLC

CONSTANTS e1, e2, meta1, meta2, block1, block2

MetaOf  == e1 :> meta1 @@ e2 :> meta2
BlockOf == e1 :> block1 @@ e2 :> block2
=============================================================================
