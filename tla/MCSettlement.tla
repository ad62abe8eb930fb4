---------------------------- MODULE MCSettlement ----------------------------
\* Small instances of Settlement: one user with a bet on each side, another user
\* with a bet of an amount and odds of its own.  The first event may be ended twice
\* (PostedAtMostTwice of EventLifecycle), the other one once.  A stake of 1.00 at odds
\* of 1.15 pays 1.14: b1 is Short.
EXTENDS Settlement, TLC

CONSTANTS u1, u2, e1, e2, b1, b2, b3

MCBetUser   == [b \in Bets |-> IF b = b3 THEN u2 ELSE u1]
MCSelection == [b \in Bets |-> IF b = b2 THEN "b" ELSE "a"]
MCAmount    == [b \in Bets |-> IF b = b1 THEN 100 ELSE IF b = b2 THEN 7 ELSE 3]
MCOdds      == [b \in Bets |-> IF b = b1 THEN 115 ELSE IF b = b2 THEN 250 ELSE 133]

MCRows      == {<<e, 1>> : e \in Events} \cup {<<e1, 2>>}
MCRowEvent  == [r \in MCRows |-> r[1]]

\* The first user's bets are on one event; the second user's on the same event,
\* or on another one.
OnOneEvent  == [b \in Bets |-> e1]
OnTwoEvents == [b \in Bets |-> IF b = b3 THEN e2 ELSE e1]
=============================================================================
