------------------------ MODULE MCChallengeProgress ------------------------
\* Small instances of ChallengeProgress: a daily challenge for bets on two events,
\* a weekly one for money wagered; bets on two events, one of them twice, and a wager.
EXTENDS ChallengeProgress, TLC

CONSTANTS daily, weekly, p1, p2, p3, w1, h1, h2

MCKind == [c \in Challenges |-> IF c = weekly THEN "WEEKLY" ELSE "DAILY"]

MCCriteria == [c \in Challenges |->
    CASE c = daily  -> [action |-> "place_bet", game |-> "cs2", count |-> 2]
      [] c = weekly -> [action |-> "total_wagered", game |-> "any", count |-> 3]]

Bet(g, e)  == [action |-> "place_bet", game |-> g, event |-> e, amount |-> 1]
Wager(n)   == [action |-> "total_wagered", game |-> "none", event |-> NoEvent, amount |-> n]

MCContent == [m \in Messages |->
    CASE m = p1 -> Bet("cs2", "e1")
      [] m = p2 -> Bet("cs2", "e2")
      [] m = p3 -> Bet("cs2", "e1")
      [] m = w1 -> Wager(3)]
=============================================================================
