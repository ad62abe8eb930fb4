--------------------------- MODULE MCBalanceFeed ---------------------------
\* Small instances of BalanceFeed.
EXTENDS BalanceFeed

CONSTANTS h1, h2
=============================================================================
