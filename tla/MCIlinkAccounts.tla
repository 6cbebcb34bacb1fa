--------------------------- MODULE MCIlinkAccounts --------------------------
EXTENDS IlinkAccounts, TLC

CONSTANT bot

MCSentTo == [m \in Messages |-> bot]

=============================================================================
