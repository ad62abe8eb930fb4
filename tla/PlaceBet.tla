------------------------------ MODULE PlaceBet ------------------------------
(***************************************************************************)
(* BetsService.placeBet: one interactive transaction per request, under    *)
(* PostgreSQL's READ COMMITTED, next to everything that changes the rows   *)
(* it reads: other requests, the jobs and the admin that change the event, *)
(* the admin's balance adjustments.                                        *)
(*                                                                         *)
(* A statement of the transaction is an action.  A row the transaction has *)
(* updated stays locked until it ends; what it wrote is visible to others  *)
(* when it commits, so balance and bets hold committed rows only.          *)
(***************************************************************************)
EXTENDS Integers, FiniteSets, FiniteSetsExt

CONSTANTS
    Users, Events,
    Requests,       \* calls of POST /bets
    ReqUser, ReqEvent, ReqSelection, ReqAmount,
    Adjustments,    \* calls of the admin's balance endpoint
    AdjUser, AdjAmount,
    InitBalance,    \* users' balances, in cents
    InitEvent,      \* event rows
    OddsValues,     \* odds the admin or a job may set, in hundredths; 0 stands for null
    MaxBets,        \* limits the admin may set
    MaxEdits        \* how many times event rows and the setting change

Sides == {"a", "b"}
NoTxn == "none"

EventRow == [status   : {"UPCOMING", "LIVE", "FINISHED", "CANCELLED"},
             soon     : BOOLEAN,    \* scheduledAt is at most five minutes away
             window   : BOOLEAN,    \* bettingOpenUntil lies in the future
             odds     : [Sides -> OddsValues],
             maxBet   : MaxBets,
             needsHltv : BOOLEAN]   \* a CS2 event without an hltvId

ASSUME PlaceBetAssumption ==
    /\ NoTxn \notin Requests
    /\ ReqUser \in [Requests -> Users]
    /\ ReqEvent \in [Requests -> Events]
    /\ ReqSelection \in [Requests -> Sides]
    /\ ReqAmount \in [Requests -> Nat]
    /\ AdjUser \in [Adjustments -> Users]
    /\ AdjAmount \in [Adjustments -> Int]
    /\ InitBalance \in [Users -> Nat]
    /\ OddsValues \subseteq Nat
    /\ MaxBets \subseteq Nat
    /\ InitEvent \in [Events -> EventRow]
    /\ MaxEdits \in Nat

VARIABLES
    event,      \* events
    allowCs2,   \* settings: cs2AllowBetsWithoutHltv
    balance,    \* users.balance
    bets,       \* bets, each with the request that placed it and its odds
    rowLock,    \* the transaction that has updated the user's row, if any
    pc,         \* how far the transaction of each request is
    seen,       \* the event row it has read
    counted,    \* the bets its aggregate has summed
    adjust,     \* the admin's adjustments
    edits

txnVars == <<pc, seen, counted>>
vars    == <<event, allowCs2, balance, bets, rowLock, txnVars, adjust, edits>>

Bet == [req : Requests, odds : OddsValues]

TypeOK ==
    /\ event \in [Events -> EventRow]
    /\ allowCs2 \in BOOLEAN
    /\ balance \in [Users -> Int]
    /\ bets \subseteq Bet
    /\ rowLock \in [Users -> Requests \cup {NoTxn}]
    /\ pc \in [Requests -> {"start", "read", "summed", "priced", "deducted",
                            "committed", "rejected"}]
    /\ seen \in [Requests -> EventRow]
    /\ counted \in [Requests -> SUBSET Bet]
    /\ adjust \in [Adjustments -> {"start", "checked", "done", "refused"}]
    /\ edits \in Nat

Init ==
    /\ event = InitEvent
    /\ allowCs2 \in BOOLEAN
    /\ balance = InitBalance
    /\ bets = {}
    /\ rowLock = [u \in Users |-> NoTxn]
    /\ pc = [r \in Requests |-> "start"]
    /\ seen = [r \in Requests |-> InitEvent[ReqEvent[r]]]
    /\ counted = [r \in Requests |-> {}]
    /\ adjust = [a \in Adjustments |-> "start"]
    /\ edits = 0

-----------------------------------------------------------------------------
\* The transaction of placeBet

Open(row) ==
    \/ row.status = "UPCOMING" /\ ~row.soon
    \/ row.status = "LIVE" /\ row.window

\* The user's pending bets on the event of the request, as committed.  (A bet is
\* pending as long as its event is open for bets.)
PendingBets(r) ==
    {b \in bets : ReqUser[b.req] = ReqUser[r] /\ ReqEvent[b.req] = ReqEvent[r]}

Stakes(S) == MapThenSumSet(LAMBDA b : ReqAmount[b.req], S)

Reject(r) == pc' = [pc EXCEPT ![r] = "rejected"]

\* event.findUnique and the checks of the row
ReadEvent(r) ==
    LET row == event[ReqEvent[r]] IN
    /\ pc[r] = "start"
    /\ IF Open(row) /\ ReqAmount[r] > 0 /\ ReqAmount[r] <= row.maxBet
         THEN /\ pc' = [pc EXCEPT ![r] = "read"]
              /\ seen' = [seen EXCEPT ![r] = row]
         ELSE Reject(r) /\ UNCHANGED seen
    /\ UNCHANGED <<counted, event, allowCs2, balance, bets, rowLock, adjust, edits>>

\* Variant that compares the stake alone with the limit.
SumBetsAlone(r) ==
    /\ pc[r] = "read"
    /\ IF ReqAmount[r] <= seen[r].maxBet
         THEN /\ pc' = [pc EXCEPT ![r] = "summed"]
              /\ counted' = [counted EXCEPT ![r] = PendingBets(r)]
         ELSE Reject(r) /\ UNCHANGED counted
    /\ UNCHANGED <<seen, event, allowCs2, balance, bets, rowLock, adjust, edits>>

\* bet.aggregate and the check of the limit of the event
SumBets(r) ==
    /\ pc[r] = "read"
    /\ IF Stakes(PendingBets(r)) + ReqAmount[r] <= seen[r].maxBet
         THEN /\ pc' = [pc EXCEPT ![r] = "summed"]
              /\ counted' = [counted EXCEPT ![r] = PendingBets(r)]
         ELSE Reject(r) /\ UNCHANGED counted
    /\ UNCHANGED <<seen, event, allowCs2, balance, bets, rowLock, adjust, edits>>

\* The gate for CS2 events, and the snapshot of the odds
SnapshotOdds(r) ==
    /\ pc[r] = "summed"
    /\ IF (seen[r].needsHltv => allowCs2) /\ seen[r].odds[ReqSelection[r]] # 0
         THEN pc' = [pc EXCEPT ![r] = "priced"]
         ELSE Reject(r)
    /\ UNCHANGED <<seen, counted, event, allowCs2, balance, bets, rowLock, adjust, edits>>

\* Variant that checks the balance in a statement of its own, before the update
\* that waits for the row.
DeductUnchecked(r) ==
    LET u == ReqUser[r] IN
    /\ pc[r] = "priced"
    /\ balance[u] >= ReqAmount[r]
    /\ pc' = [pc EXCEPT ![r] = "deducted"]
    /\ UNCHANGED <<seen, counted, event, allowCs2, balance, bets, rowLock, adjust, edits>>

\* user.updateMany where balance >= amount: waits for the row, then locks it
Deduct(r) ==
    LET u == ReqUser[r] IN
    /\ pc[r] = "priced"
    /\ rowLock[u] = NoTxn
    /\ IF balance[u] >= ReqAmount[r]
         THEN /\ pc' = [pc EXCEPT ![r] = "deducted"]
              /\ rowLock' = [rowLock EXCEPT ![u] = r]
         ELSE /\ Reject(r)
              /\ UNCHANGED rowLock
    /\ UNCHANGED <<seen, counted, event, allowCs2, balance, bets, adjust, edits>>

\* Variants: one takes the odds of the event as it is now, one writes the bet in a
\* transaction of its own, which may not happen.
CommitLateOdds(r) ==
    LET u == ReqUser[r] IN
    /\ pc[r] = "deducted"
    /\ balance' = [balance EXCEPT ![u] = @ - ReqAmount[r]]
    /\ bets' = bets \cup {[req |-> r, odds |-> event[ReqEvent[r]].odds[ReqSelection[r]]]}
    /\ rowLock' = [rowLock EXCEPT ![u] = NoTxn]
    /\ pc' = [pc EXCEPT ![r] = "committed"]
    /\ UNCHANGED <<seen, counted, event, allowCs2, adjust, edits>>

CommitInParts(r) ==
    LET u == ReqUser[r] IN
    /\ pc[r] = "deducted"
    /\ balance' = [balance EXCEPT ![u] = @ - ReqAmount[r]]
    /\ \/ bets' = bets \cup {[req |-> r, odds |-> seen[r].odds[ReqSelection[r]]]}
       \/ bets' = bets
    /\ rowLock' = [rowLock EXCEPT ![u] = NoTxn]
    /\ pc' = [pc EXCEPT ![r] = "committed"]
    /\ UNCHANGED <<seen, counted, event, allowCs2, adjust, edits>>

\* bet.create and the commit
Commit(r) ==
    LET u == ReqUser[r] IN
    /\ pc[r] = "deducted"
    /\ balance' = [balance EXCEPT ![u] = @ - ReqAmount[r]]
    /\ bets' = bets \cup {[req |-> r, odds |-> seen[r].odds[ReqSelection[r]]]}
    /\ rowLock' = [rowLock EXCEPT ![u] = NoTxn]
    /\ pc' = [pc EXCEPT ![r] = "committed"]
    /\ UNCHANGED <<seen, counted, event, allowCs2, adjust, edits>>

\* The transaction times out, a statement fails or the backend stops: rollback
Abort(r) ==
    /\ pc[r] \in {"read", "summed", "priced", "deducted"}
    /\ Reject(r)
    /\ rowLock' = [u \in Users |-> IF rowLock[u] = r THEN NoTxn ELSE rowLock[u]]
    /\ UNCHANGED <<seen, counted, event, allowCs2, balance, bets, adjust, edits>>

-----------------------------------------------------------------------------
\* AdminService.adjustBalance: no transaction around the check and the update

AdjustCheck(a) ==
    /\ adjust[a] = "start"
    /\ adjust' = [adjust EXCEPT ![a] =
                    IF balance[AdjUser[a]] + AdjAmount[a] < 0 THEN "refused" ELSE "checked"]
    /\ UNCHANGED <<event, allowCs2, balance, bets, rowLock, txnVars, edits>>

AdjustUpdate(a) ==
    /\ adjust[a] = "checked"
    /\ rowLock[AdjUser[a]] = NoTxn
    /\ balance' = [balance EXCEPT ![AdjUser[a]] = @ + AdjAmount[a]]
    /\ adjust' = [adjust EXCEPT ![a] = "done"]
    /\ UNCHANGED <<event, allowCs2, bets, rowLock, txnVars, edits>>

-----------------------------------------------------------------------------
\* What happens to the event meanwhile

Edit(e, row) ==
    /\ edits < MaxEdits
    /\ edits' = edits + 1
    /\ event' = [event EXCEPT ![e] = row]
    /\ UNCHANGED <<allowCs2, balance, bets, rowLock, txnVars, adjust>>

\* The clock, or the matches job with another scheduledAt: five minutes before the
\* start come, or are to come again.
StartMoves(e) == Edit(e, [event[e] EXCEPT !.soon = ~@])

\* The live and the results job
GoLive(e) ==
    /\ event[e].status = "UPCOMING"
    /\ Edit(e, [event[e] EXCEPT !.status = "LIVE", !.soon = TRUE])

End(e) ==
    /\ event[e].status \in {"UPCOMING", "LIVE"}
    /\ \E s \in {"FINISHED", "CANCELLED"} : Edit(e, [event[e] EXCEPT !.status = s])

\* The admin, the odds job, and the end of the betting window
SetOdds(e) == \E o \in [Sides -> OddsValues] : Edit(e, [event[e] EXCEPT !.odds = o])
SetMaxBet(e) == \E m \in MaxBets : Edit(e, [event[e] EXCEPT !.maxBet = m])
SetWindow(e) == Edit(e, [event[e] EXCEPT !.window = ~event[e].window])
MapToHltv(e) == event[e].needsHltv /\ Edit(e, [event[e] EXCEPT !.needsHltv = FALSE])

SetAllowCs2 ==
    /\ edits < MaxEdits
    /\ edits' = edits + 1
    /\ allowCs2' = ~allowCs2
    /\ UNCHANGED <<event, balance, bets, rowLock, txnVars, adjust>>

-----------------------------------------------------------------------------
RequestStep(r) ==
    \/ ReadEvent(r)
    \/ SumBets(r)
    \/ SnapshotOdds(r)
    \/ Deduct(r)
    \/ Commit(r)

EventStep(e) ==
    \/ StartMoves(e)
    \/ GoLive(e)
    \/ End(e)
    \/ SetOdds(e)
    \/ SetMaxBet(e)
    \/ SetWindow(e)
    \/ MapToHltv(e)

Next ==
    \/ \E r \in Requests : RequestStep(r) \/ Abort(r)
    \/ \E a \in Adjustments : AdjustCheck(a) \/ AdjustUpdate(a)
    \/ \E e \in Events : EventStep(e)
    \/ SetAllowCs2

Spec == Init /\ [][Next]_vars

-----------------------------------------------------------------------------
\* Properties

\* A balance is never negative, however many requests of a user run at once
\* (bets.service.ts:96; the e2e test of concurrent bets).
BalanceNonNegative == \A u \in Users : balance[u] >= 0

\* A request that holds the row of its user has the funds: the check of the
\* balance is still true when the transaction commits, because whoever wants to
\* update the row waits for it.
FundsHeld ==
    \A r \in Requests : pc[r] = "deducted" =>
        /\ rowLock[ReqUser[r]] = r
        /\ balance[ReqUser[r]] >= ReqAmount[r]

\* No cent is lost or charged twice: a balance is the initial one plus the
\* adjustments made, minus the stakes of the user's bets.  A rejected or aborted
\* request has left nothing behind.
StakesAccounted ==
    \A u \in Users :
        balance[u] = InitBalance[u]
          + MapThenSumSet(LAMBDA a : AdjAmount[a],
                          {a \in Adjustments : adjust[a] = "done" /\ AdjUser[a] = u})
          - Stakes({b \in bets : ReqUser[b.req] = u})

\* The limit of an event holds for a request that no other bet of the user on the
\* event overtook between the aggregate and the commit.
LimitHoldsUndisturbed ==
    [][\A r \in Requests :
         pc[r] = "deducted" /\ pc'[r] = "committed" /\ counted[r] = PendingBets(r)
           => Stakes(PendingBets(r))' <= seen[r].maxBet]_vars

\* One version of the event row admits a bet and gives it its odds: it was open,
\* with odds, and with a limit no smaller than the stake.
PricedWhileOpen ==
    \A b \in bets : LET row == seen[b.req] IN
        /\ Open(row)
        /\ b.odds = row.odds[ReqSelection[b.req]] /\ b.odds > 0
        /\ ReqAmount[b.req] <= row.maxBet

=============================================================================
