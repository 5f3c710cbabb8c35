---------------------------- MODULE MCDiscussion ----------------------------
\* Instances of Discussion for TLC.
EXTENDS Discussion, TLC
=============================================================================
