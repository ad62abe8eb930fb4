--------------------------- MODULE MCHltvLimiter ---------------------------
\* Small instances of HltvLimiter.
EXTENDS HltvLimiter, TLC

CONSTANTS mapping, odds
=============================================================================
