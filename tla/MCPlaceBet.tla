----------------------------- MODULE MCPlaceBet -----------------------------
\* Small instances of PlaceBet: up to three requests of one user on one event, of
\* which some two exceed the user's balance and some two the limit of the event.
EXTENDS PlaceBet, TLC

CONSTANTS u1, e1, q1, q2, q3, credit, debit

MCReqUser      == [r \in Requests |-> u1]
MCReqEvent     == [r \in Requests |-> e1]
MCReqSelection == [r \in Requests |-> IF r = q2 THEN "b" ELSE "a"]
MCReqAmount    == [r \in Requests |-> IF r = q1 THEN 60 ELSE IF r = q2 THEN 50 ELSE 30]

MCAdjUser      == [a \in Adjustments |-> u1]
MCAdjAmount    == [a \in Adjustments |-> IF a = debit THEN -40 ELSE 20]

Poor == [u \in Users |-> 85]

UpcomingCs2 == [e \in Events |->
    [status |-> "UPCOMING", soon |-> FALSE, window |-> FALSE,
     odds |-> [a |-> 190, b |-> 0], maxBet |-> 80, needsHltv |-> TRUE]]
=============================================================================
