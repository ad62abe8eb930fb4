------------------------------- MODULE Ledger -------------------------------
(***************************************************************************)
(* What settlement promises: an event gets one result, and each of its     *)
(* bets is then settled once, as the result says, in one step that pays    *)
(* the user and records the profit.  No queue, no outbox, no handler.      *)
(***************************************************************************)
EXTENDS Integers

CONSTANTS Users, Events, Bets, BetUser, BetEvent, Selection, Amount, Odds, OddsUnit, Short

VARIABLES outcome,  \* event -> "open", the winning side, or "void"
          settled,  \* the bets that are settled
          balance, profit

ledgerVars == <<outcome, settled, balance, profit>>

Return(b) ==
    CASE outcome[BetEvent[b]] = "void"       -> Amount[b]
      [] outcome[BetEvent[b]] = Selection[b] -> (Amount[b] * Odds[b]) \div OddsUnit - (IF b \in Short THEN 1 ELSE 0)
      [] OTHER                               -> 0

Decide(e, result) ==
    /\ outcome[e] = "open"
    /\ outcome' = [outcome EXCEPT ![e] = result]
    /\ UNCHANGED <<settled, balance, profit>>

Settle(b) ==
    /\ outcome[BetEvent[b]] # "open"
    /\ b \notin settled
    /\ settled' = settled \cup {b}
    /\ balance' = [balance EXCEPT ![BetUser[b]] = @ + Return(b)]
    /\ profit' = [profit EXCEPT ![BetUser[b]] = @ + Return(b) - Amount[b]]
    /\ UNCHANGED outcome

LedgerInit ==
    /\ outcome = [e \in Events |-> "open"]
    /\ settled = {}
    /\ balance = [u \in Users |-> 0]
    /\ profit = [u \in Users |-> 0]

LedgerNext ==
    \/ \E e \in Events, result \in {"a", "b", "void"} : Decide(e, result)
    \/ \E b \in Bets : Settle(b)

LedgerSteps == LedgerInit /\ [][LedgerNext]_ledgerVars

LedgerSpec == LedgerSteps /\ \A b \in Bets : WF_ledgerVars(Settle(b))
=============================================================================
