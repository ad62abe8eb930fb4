---------------------------- MODULE MCReplenish ----------------------------
\* Small instances of Replenish: an interval of two hours, two users.
EXTENDS Replenish, TLC

CONSTANTS u1, u2, r1, r2, r3, x1, x2, h1, h2
=============================================================================
