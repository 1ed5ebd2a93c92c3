-------------------------- MODULE MCSessionRegistry --------------------------
EXTENDS SessionRegistry

CONSTANTS s1, s2, r1, home, good, stray
=============================================================================
