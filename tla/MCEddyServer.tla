---------------------------- MODULE MCEddyServer ----------------------------
EXTENDS EddyServer

Sessions == Permutations(Session)
=============================================================================
