------------------------------ MODULE MCAccounts ------------------------------
\* The instances of Accounts for TLC: every user is of the tenant t1.
EXTENDS Accounts
CONSTANT t1
OneHome == [u \in Users |-> t1]
=============================================================================
