------------------------------ MODULE MCAuditLog ------------------------------
\* An instance of AuditLog for TLC: one old event, and a filter for every second one.
EXTENDS AuditLog
CONSTANT some
Second   == [f \in Filters |-> IF f = some THEN {e \in Events : e % 2 = 0} ELSE Events]
FirstOld == {{1}}
=============================================================================
