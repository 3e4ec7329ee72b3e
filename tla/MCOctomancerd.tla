---------------------------- MODULE MCOctomancerd ----------------------------
EXTENDS Octomancerd
=============================================================================
