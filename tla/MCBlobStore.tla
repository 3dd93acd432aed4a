----------------------------- MODULE MCBlobStore -----------------------------
(* Instances of BlobStore for TLC. Clients are interchangeable, and so are the *)
(* contents of the same size; `long` is the one of another size.              *)
EXTENDS BlobStore, TLC

CONSTANT long

Symmetry == Permutations(Clients) \union Permutations(Contents \ {long})

MCSize == [v \in Contents |-> IF v = long THEN 2 ELSE 1]
=============================================================================
