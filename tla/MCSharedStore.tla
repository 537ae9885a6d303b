----------------------------- MODULE MCSharedStore -----------------------------
(* Small instances of SharedStore for TLC.                                   *)
EXTENDS SharedStore, TLC

Versions == {"initial", "default node", "rule"}

WithDefaults == [d \in Versions |-> IF d = "initial" THEN "default node" ELSE d]

StoreSymmetry == Permutations(Program) \union Permutations(Inode)
=============================================================================
