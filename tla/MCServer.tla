------------------------------ MODULE MCServer ------------------------------
EXTENDS Server, TLC
=============================================================================
