---------------------------- MODULE MCArenaPool -----------------------------
EXTENDS ArenaPool

CONSTANTS a1, a2, a3, w1, w2, w3
=============================================================================
