---------------------------- MODULE MCPermVersion ----------------------------
(* PermVersion for TLC: logins are interchangeable, and so are updates.       *)
EXTENDS PermVersion, TLC

RequestSymmetry == Permutations(Logins) \cup Permutations(Updates)
=============================================================================
