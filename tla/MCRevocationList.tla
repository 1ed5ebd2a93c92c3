--------------------------- MODULE MCRevocationList ---------------------------
EXTENDS RevocationList

CONSTANTS lost, sold
=============================================================================
