------------------------------- MODULE MCBox -------------------------------
EXTENDS Box
=============================================================================
