----------------------------- MODULE MCWebPages ------------------------------
(* The instance of WebUploads that TLC checks.  The bounds differ by page so *)
(* that two mutations meet where a page has few other fields, and a mutation *)
(* meets the change of another user on every page.                           *)
EXTENDS WebUploads, TLC

MCMaxReqs ==
  [p \in Pages |-> IF p \in {"search", "notifications", "tenants"} THEN 2 ELSE 1]
MCMaxOthers == [p \in Pages |-> IF p \in {"tenants", "files"} THEN 0 ELSE 1]

RowSymmetry == Permutations(Rows)
=============================================================================
