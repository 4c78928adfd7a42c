------------------------------ MODULE MCConsole ------------------------------
EXTENDS Console

\* The second guest outruns the window and the rows.
Records == <<2, 4>>
=============================================================================
