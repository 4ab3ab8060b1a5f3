----------------------------- MODULE MCFileStore -----------------------------
(* FileStore for TLC: requests are interchangeable, and so are files.         *)
EXTENDS FileStore, TLC

Symmetry == Permutations(Requests) \cup Permutations(Files)
=============================================================================
