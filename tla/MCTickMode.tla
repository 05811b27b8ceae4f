------------------------------ MODULE MCTickMode ------------------------------
\* Instances of TickMode for TLC.
EXTENDS TickMode

\* The 25th vehicle makes the clusters larger and one fewer: 6 become 5.  The
\* list with it is too long, and names a vehicle twice and one that has joined.
MCLists == {<<>>, <<25, 24, 25, 26>>}
==============================================================================
