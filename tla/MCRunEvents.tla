---------------------------- MODULE MCRunEvents ----------------------------
EXTENDS RunEvents, TLC
============================================================================
