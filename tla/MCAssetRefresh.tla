--------------------------- MODULE MCAssetRefresh ---------------------------
(***************************************************************************)
(* An instance of AssetRefresh for TLC: two assets one article shows, and  *)
(* one asset two articles show.                                            *)
(***************************************************************************)
EXTENDS AssetRefresh

CONSTANTS x1, x2

MCFirstTables == {<<{x1, x2}, {1}>>, <<{x1}, {1, 2}>>}
=============================================================================
