-------------------------- MODULE MCSwipeDeadline --------------------------
EXTENDS SwipeDeadline

MCExpirySec == [i \in 0 .. 1 |-> 24 + 2 * i]
=============================================================================
