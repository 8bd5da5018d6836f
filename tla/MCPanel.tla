-------------------------------- MODULE MCPanel --------------------------------
(* Panel for TLC: the requests are alike, and a torn file may load with a  *)
(* setting of either text and one that neither has.                        *)
EXTENDS Panel, TLC

OneMixture == {[local |-> "new", cloudflare |-> "old"]}

RequestSymmetry == Permutations(Requests)
=============================================================================
