---------------------------- MODULE MCAssetCache ----------------------------
(* Instances of AssetCache for TLC: one body of one byte, one of two. *)
EXTENDS AssetCache

MCBodySize == [c \in Bodies |-> IF c = "small" THEN 1 ELSE 2]
=============================================================================
