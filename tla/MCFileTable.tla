----------------------------- MODULE MCFileTable -----------------------------
(* Instances of FileTable for TLC.                                          *)
EXTENDS FileTable, TLC

Symmetry == Permutations(Obj) \cup Permutations(Handle)

\* The standard descriptors and numbers outside the table.
StdNumbers == {-1, PoolSize} \cup Std
=============================================================================
