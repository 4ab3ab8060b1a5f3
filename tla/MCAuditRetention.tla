---------------------------- MODULE MCAuditRetention ----------------------------
EXTENDS AuditRetention

\* A calendar of short months that differ as much as January to April do.
Calendar == [m \in Months |-> CASE m = 2 -> 1 [] m = 3 -> 4 [] OTHER -> 3]
=============================================================================
