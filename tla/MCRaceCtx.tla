------------------------------- MODULE MCRaceCtx -------------------------------
EXTENDS RaceCtx

CONSTANTS q1, q2, d1, d2
=============================================================================
