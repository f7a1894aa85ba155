--------------------------- MODULE MCPlineRebuild ---------------------------
(* PlineRebuild with points that are alike.                                *)
EXTENDS PlineRebuild, TLC
Symm == Permutations(Points)
=============================================================================
