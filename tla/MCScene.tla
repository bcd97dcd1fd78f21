------------------------------ MODULE MCScene ------------------------------
(* Two backgrounds and one overlay that exist, one identifier that does    *)
(* not.                                                                    *)
EXTENDS Scene, TLC

Symmetry == Permutations(Params) \cup Permutations(Data)
=============================================================================
