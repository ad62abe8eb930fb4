----------------------------- MODULE Settlement -----------------------------
(***************************************************************************)
(* Settlement of the bets of an event, from the transaction that ends the  *)
(* event to the update of the user's row:                                  *)
(*                                                                         *)
(*   results job  --outbox row-->  OutboxService (cron, every 5 seconds)   *)
(*     --event.finished / event.cancelled-->  BetResolverConsumer          *)
(*     --bet.update, one per bet-->  BetUpdateConsumer  -->  users.balance *)
(*                                                                         *)
(* Each action is one database, broker or Redis operation of the code, so  *)
(* that everything that may happen between two awaits may happen between   *)
(* two actions.  Faults (a crash of the backend, a rejected publish, a     *)
(* failed statement, a lock that expires under a slow handler) are actions *)
(* too; the constant Faults says which of them a run allows.               *)
(***************************************************************************)
EXTENDS Integers, FiniteSets, FiniteSetsExt

CONSTANTS
    Users,      \* users with bets
    Events,     \* events that bets are placed on
    Rows,       \* rows of the outbox that there may come to be
    RowEvent,   \* row -> the event it is for
    Bets,       \* rows of the bets table
    BetUser,    \* bet -> its user
    BetEvent,   \* bet -> its event
    Selection,  \* bet -> the side it is on
    Amount,     \* bet -> the stake, in cents
    Odds,       \* bet -> oddsAtPlacement, in units of 1/OddsUnit
    OddsUnit,
    Short,      \* bets whose Float product falls below the whole number it stands for
    Late,       \* bets whose placement has read the event and has yet to commit
    Relays,     \* runs of the outbox cron that may be in progress at once
    BatchSize,  \* rows that one of them takes at most (50 in the code)
    Resolvers,  \* bet-resolution messages that may be in progress at once
    Updaters,   \* bet-updates messages that may be in progress at once
    Faults,     \* kinds of fault that may happen
    MaxFaults   \* how many of them may happen

Sides     == {"a", "b"}
Actions   == {"won", "lost", "refund"}
Results   == Sides \cup {"void"}
FaultKind == {"crash", "publish", "database", "expiry", "again", "overlap"}

ASSUME SettlementAssumption ==
    /\ RowEvent \in [Rows -> Events]
    /\ BetUser \in [Bets -> Users]
    /\ BetEvent \in [Bets -> Events]
    /\ Selection \in [Bets -> Sides]
    /\ Amount \in [Bets -> Nat \ {0}]
    /\ Odds \in [Bets -> Nat]
    /\ OddsUnit \in Nat \ {0}
    /\ Short \subseteq {b \in Bets : (Amount[b] * Odds[b]) % OddsUnit = 0}
    /\ BatchSize \in Nat \ {0}
    /\ Late \subseteq Bets
    /\ IsFiniteSet(Resolvers)
    /\ IsFiniteSet(Updaters)
    /\ Faults \subseteq FaultKind
    /\ MaxFaults \in Nat

VARIABLES
    result,     \* event -> "open", or what its outbox rows say: the side that won, or "void"
    outbox,     \* row -> "none" (there is none yet), "unprocessed", "processed"
    relayPc,    \* runs of processOutbox: where they are,
    todo,       \*   the rows still to publish,
    sent,       \*   the rows published
    resQ,       \* event -> messages ready in bet-resolution
    resolverPc, \* handlers of BetResolverConsumer: where they are,
    resolving,  \*   the event of their message,
    pending,    \*   the bets they found pending and have not published yet
    bet,        \* bets.status; "placing" while there is no row yet
    updQ,       \* update message -> copies ready in bet-updates
    lock,       \* the Redis keys bet-update:lock:<userId>
    updaterPc,  \* handlers of BetUpdateConsumer: where they are,
    handling,   \*   their message
    balance,    \* users.balance, relative to its value when the model starts
    profit,     \* users.totalProfit, likewise
    applied,    \* history: bet -> times its update reached the user's row
    missed,     \* history: bets that were committed when no resolution was to come
    faults      \* faults so far

relay        == <<relayPc, todo, sent>>
relayVars    == <<outbox, relay>>
resolver     == <<resolverPc, resolving, pending>>
resolverVars == <<resQ, resolver>>
updater      == <<updaterPc, handling>>
updaterVars  == <<updQ, lock, updater>>
userVars     == <<balance, profit, applied, missed>>

vars == <<result, relayVars, resolverVars, bet, updaterVars, userVars, faults>>

NoEvent  == "none"
NoMsg    == [bet |-> "none", action |-> "none"]

Msg == [bet : Bets, action : Actions]

\* Math.floor(bet.amount * bet.oddsAtPlacement), a product of Floats: one that should
\* be a whole number may come out just below it (100 * 1.15 is 114.99999999999999).
Payout(b) == (Amount[b] * Odds[b]) \div OddsUnit - (IF b \in Short THEN 1 ELSE 0)

TypeOK ==
    /\ result \in [Events -> Results \cup {"open"}]
    /\ outbox \in [Rows -> {"none", "unprocessed", "processed"}]
    /\ relayPc \in [Relays -> {"idle", "publishing"}]
    /\ todo \in [Relays -> SUBSET Rows]
    /\ sent \in [Relays -> SUBSET Rows]
    /\ resQ \in [Events -> Nat]
    /\ resolverPc \in [Resolvers -> {"idle", "marking", "publishing"}]
    /\ resolving \in [Resolvers -> Events \cup {NoEvent}]
    /\ pending \in [Resolvers -> SUBSET Bets]
    /\ bet \in [Bets -> {"placing", "PENDING", "WON", "LOST", "CANCELLED"}]
    /\ updQ \in [Msg -> Nat]
    /\ lock \in [Users -> BOOLEAN]
    /\ updaterPc \in [Updaters -> {"idle", "locked", "marked", "applied", "acked"}]
    /\ handling \in [Updaters -> Msg \cup {NoMsg}]
    /\ balance \in [Users -> Int]
    /\ profit \in [Users -> Int]
    /\ applied \in [Bets -> Nat]
    /\ missed \in SUBSET Bets
    /\ faults \in Nat

Init ==
    /\ result = [e \in Events |-> "open"]
    /\ outbox = [r \in Rows |-> "none"]
    /\ relayPc = [r \in Relays |-> "idle"]
    /\ todo = [r \in Relays |-> {}]
    /\ sent = [r \in Relays |-> {}]
    /\ resQ = [e \in Events |-> 0]
    /\ resolverPc = [w \in Resolvers |-> "idle"]
    /\ resolving = [w \in Resolvers |-> NoEvent]
    /\ pending = [w \in Resolvers |-> {}]
    /\ bet = [b \in Bets |-> IF b \in Late THEN "placing" ELSE "PENDING"]
    /\ updQ = [m \in Msg |-> 0]
    /\ lock = [u \in Users |-> FALSE]
    /\ updaterPc = [h \in Updaters |-> "idle"]
    /\ handling = [h \in Updaters |-> NoMsg]
    /\ balance = [u \in Users |-> 0]
    /\ profit = [u \in Users |-> 0]
    /\ applied = [b \in Bets |-> 0]
    /\ missed = {}
    /\ faults = 0

-----------------------------------------------------------------------------
Fault(kind) ==
    /\ kind \in Faults
    /\ faults < MaxFaults
    /\ faults' = faults + 1

-----------------------------------------------------------------------------
\* The results job: the status of the event and an outbox row are written in one
\* transaction, whatever the status is by then: the job holds a reading of its own,
\* and an event that the live job has set back to LIVE meanwhile is ended again
\* (EventLifecycle).  What follows depends on the row alone, which carries the
\* result; every row of an event carries the same one, as long as PandaScore changes
\* neither a result nor the order of the opponents (EventLifecycle's PostedIsVerdict).

\* An earlier ending of the event has bets of it still to settle.  To end it again
\* now is counted with the faults, for the settlement in progress is then repeated.
Unsettled(e) ==
    /\ result[e] # "open"
    /\ \E b \in Bets : BetEvent[b] = e /\ bet[b] = "PENDING"

EndEvent(e, how) ==
    LET unused == {r \in Rows : RowEvent[r] = e /\ outbox[r] = "none"} IN
    /\ result[e] \in {"open", how}
    /\ unused # {}
    /\ IF Unsettled(e) THEN Fault("again") ELSE UNCHANGED faults
    /\ result' = [result EXCEPT ![e] = how]
    /\ outbox' = [outbox EXCEPT ![CHOOSE r \in unused : TRUE] = "unprocessed"]
    /\ UNCHANGED <<relay, resolverVars, bet, updaterVars, userVars>>

FinishEvent(e, side) == EndEvent(e, side)

CancelEvent(e) == EndEvent(e, "void")

-----------------------------------------------------------------------------
\* BetsService.placeBet, of which only the end is seen here: a transaction that has
\* read the event while it was open, locks nothing of it, and commits when it may
\* have ended (PlaceBet has the rest).

\* A row of the event waits for a publish.
RowToCome(e) ==
    \E row \in Rows : /\ RowEvent[row] = e
                      /\ outbox[row] = "unprocessed"
                      /\ \A r \in Relays : row \notin sent[r]

\* A resolution has still to look for the pending bets of the event.
ResolutionToCome(e) == result[e] = "open" \/ RowToCome(e) \/ resQ[e] > 0

CommitBet(b) ==
    /\ bet[b] = "placing"
    /\ bet' = [bet EXCEPT ![b] = "PENDING"]
    /\ missed' = IF ResolutionToCome(BetEvent[b]) THEN missed ELSE missed \cup {b}
    /\ UNCHANGED <<result, relayVars, resolverVars, updaterVars, balance, profit, applied, faults>>

-----------------------------------------------------------------------------
\* OutboxService.processOutbox.  Nothing prevents a run from starting while an
\* earlier one still waits for its publishes, which takes a slow broker: it is
\* counted with the faults.

\* The oldest rows in the code, any here.
RelayRead(r) ==
    LET rows == {row \in Rows : outbox[row] = "unprocessed"} IN
    /\ relayPc[r] = "idle"
    /\ \E batch \in SUBSET rows \ {{}} :
         /\ Cardinality(batch) <= BatchSize
         /\ batch # rows => Cardinality(batch) = BatchSize
         /\ todo' = [todo EXCEPT ![r] = batch]
    /\ IF \E q \in Relays : relayPc[q] # "idle" THEN Fault("overlap") ELSE UNCHANGED faults
    /\ relayPc' = [relayPc EXCEPT ![r] = "publishing"]
    /\ UNCHANGED <<result, outbox, sent, resolverVars, bet, updaterVars, userVars>>

RelayPublish(r, row) ==
    /\ row \in todo[r]
    /\ todo' = [todo EXCEPT ![r] = @ \ {row}]
    /\ sent' = [sent EXCEPT ![r] = @ \cup {row}]
    /\ resQ' = [resQ EXCEPT ![RowEvent[row]] = @ + 1]
    /\ UNCHANGED <<result, outbox, relayPc, resolver, bet, updaterVars, userVars, faults>>

\* Variant that marks the rows whose publish was rejected too.
RelayMarkAll(r) ==
    /\ relayPc[r] = "publishing"
    /\ todo[r] = {}
    /\ outbox' = [row \in Rows |-> IF outbox[row] = "none" THEN "none" ELSE "processed"]
    /\ relayPc' = [relayPc EXCEPT ![r] = "idle"]
    /\ sent' = [sent EXCEPT ![r] = {}]
    /\ UNCHANGED <<result, todo, resolverVars, bet, updaterVars, userVars, faults>>

RelayMark(r) ==
    /\ relayPc[r] = "publishing"
    /\ todo[r] = {}
    /\ outbox' = [row \in Rows |-> IF row \in sent[r] THEN "processed" ELSE outbox[row]]
    /\ relayPc' = [relayPc EXCEPT ![r] = "idle"]
    /\ sent' = [sent EXCEPT ![r] = {}]
    /\ UNCHANGED <<result, todo, resolverVars, bet, updaterVars, userVars, faults>>

-----------------------------------------------------------------------------
\* BetResolverConsumer.  The channel has no prefetch limit: all ready messages
\* are delivered, and their handlers interleave at every await.

\* The handler has ended; its message is acknowledged or back in the queue.
ResolverDone(w) ==
    /\ resolverPc' = [resolverPc EXCEPT ![w] = "idle"]
    /\ resolving' = [resolving EXCEPT ![w] = NoEvent]
    /\ pending' = [pending EXCEPT ![w] = {}]

\* The bets a handler has still to publish in the phase it is in: pMap over the
\* losing bets ends before pMap over the winning ones starts.
Losing(w) == {b \in pending[w] : Selection[b] # result[resolving[w]]}

Publishable(w) ==
    IF result[resolving[w]] \in Sides /\ Losing(w) # {}
      THEN Losing(w)
      ELSE pending[w]

UpdateMsg(b) ==
    [bet |-> b,
     action |-> CASE result[BetEvent[b]] = "void"       -> "refund"
                  [] result[BetEvent[b]] = Selection[b] -> "won"
                  [] OTHER                              -> "lost"]

\* Variant whose findMany has no condition on the status of the bets.
ResolverReadAll(w, e) ==
    LET rows == {b \in Bets : BetEvent[b] = e /\ bet[b] # "placing"} IN
    /\ resolverPc[w] = "idle"
    /\ resQ[e] > 0
    /\ resQ' = [resQ EXCEPT ![e] = @ - 1]
    /\ IF rows = {} THEN UNCHANGED resolver
       ELSE /\ resolverPc' = [resolverPc EXCEPT ![w] =
                                IF result[e] \in Sides THEN "marking" ELSE "publishing"]
            /\ resolving' = [resolving EXCEPT ![w] = e]
            /\ pending' = [pending EXCEPT ![w] = rows]
    /\ UNCHANGED <<result, relayVars, bet, updaterVars, userVars, faults>>

\* Delivery and findMany; with no pending bet the message is acknowledged.
ResolverRead(w, e) ==
    LET rows == {b \in Bets : BetEvent[b] = e /\ bet[b] = "PENDING"} IN
    /\ resolverPc[w] = "idle"
    /\ resQ[e] > 0
    /\ resQ' = [resQ EXCEPT ![e] = @ - 1]
    /\ IF rows = {} THEN UNCHANGED resolver
       ELSE /\ resolverPc' = [resolverPc EXCEPT ![w] =
                                IF result[e] \in Sides THEN "marking" ELSE "publishing"]
            /\ resolving' = [resolving EXCEPT ![w] = e]
            /\ pending' = [pending EXCEPT ![w] = rows]
    /\ UNCHANGED <<result, relayVars, bet, updaterVars, userVars, faults>>

\* Variant without the condition on the selection.
ResolverMarkAllLost(w) ==
    /\ resolverPc[w] = "marking"
    /\ bet' = [b \in Bets |-> IF BetEvent[b] = resolving[w] /\ bet[b] = "PENDING"
                               THEN "LOST" ELSE bet[b]]
    /\ resolverPc' = [resolverPc EXCEPT ![w] = "publishing"]
    /\ UNCHANGED <<result, relayVars, resQ, resolving, pending, updaterVars, userVars, faults>>

\* The bulk update: every pending bet on the losing side, in the snapshot or not.
ResolverMarkLost(w) ==
    LET e == resolving[w] IN
    /\ resolverPc[w] = "marking"
    /\ bet' = [b \in Bets |->
                 IF BetEvent[b] = e /\ bet[b] = "PENDING" /\ Selection[b] # result[e]
                   THEN "LOST" ELSE bet[b]]
    /\ resolverPc' = [resolverPc EXCEPT ![w] = "publishing"]
    /\ UNCHANGED <<result, relayVars, resQ, resolving, pending, updaterVars, userVars, faults>>

ResolverPublish(w, b) ==
    /\ resolverPc[w] = "publishing"
    /\ b \in Publishable(w)
    /\ updQ' = [updQ EXCEPT ![UpdateMsg(b)] = @ + 1]
    /\ pending' = [pending EXCEPT ![w] = @ \ {b}]
    /\ UNCHANGED <<result, relayVars, resQ, resolverPc, resolving, bet, lock, updater, userVars, faults>>

ResolverAck(w) ==
    /\ resolverPc[w] = "publishing"
    /\ pending[w] = {}
    /\ ResolverDone(w)
    /\ UNCHANGED <<result, relayVars, resQ, bet, updaterVars, userVars, faults>>

-----------------------------------------------------------------------------
\* BetUpdateConsumer.  A message whose user is locked goes back to the queue at
\* once, which changes nothing here: only a delivery that gets the lock is a step.

UpdaterDone(h) ==
    /\ updaterPc' = [updaterPc EXCEPT ![h] = "idle"]
    /\ handling' = [handling EXCEPT ![h] = NoMsg]

UserOf(h) == BetUser[handling[h].bet]

\* Variant that sets the key without NX.
UpdaterTakeAnyway(h, m) ==
    /\ updaterPc[h] = "idle"
    /\ updQ[m] > 0
    /\ updQ' = [updQ EXCEPT ![m] = @ - 1]
    /\ lock' = [lock EXCEPT ![BetUser[m.bet]] = TRUE]
    /\ updaterPc' = [updaterPc EXCEPT ![h] = "locked"]
    /\ handling' = [handling EXCEPT ![h] = m]
    /\ UNCHANGED <<result, relayVars, resolverVars, bet, userVars, faults>>

UpdaterTake(h, m) ==
    /\ updaterPc[h] = "idle"
    /\ updQ[m] > 0
    /\ ~lock[BetUser[m.bet]]
    /\ updQ' = [updQ EXCEPT ![m] = @ - 1]
    /\ lock' = [lock EXCEPT ![BetUser[m.bet]] = TRUE]
    /\ updaterPc' = [updaterPc EXCEPT ![h] = "locked"]
    /\ handling' = [handling EXCEPT ![h] = m]
    /\ UNCHANGED <<result, relayVars, resolverVars, bet, userVars, faults>>

\* bet.update for a won or refunded bet, whatever the status of the bet is.
UpdaterMark(h) ==
    LET m == handling[h] IN
    /\ updaterPc[h] = "locked"
    /\ m.action \in {"won", "refund"}
    /\ bet' = [bet EXCEPT ![m.bet] = IF m.action = "won" THEN "WON" ELSE "CANCELLED"]
    /\ updaterPc' = [updaterPc EXCEPT ![h] = "marked"]
    /\ UNCHANGED <<result, relayVars, resolverVars, updQ, handling, lock, userVars, faults>>

\* Variant: the payout instead of the profit is recorded.
GainPayout(m) == IF m.action = "won" THEN Payout(m.bet) ELSE 0

Credit(m) == CASE m.action = "won"    -> Payout(m.bet)
               [] m.action = "refund" -> Amount[m.bet]
               [] m.action = "lost"   -> 0

Gain(m) == CASE m.action = "won"    -> Payout(m.bet) - Amount[m.bet]
             [] m.action = "refund" -> 0
             [] m.action = "lost"   -> 0 - Amount[m.bet]

\* user.update
UpdaterApply(h) ==
    LET m == handling[h] IN
    /\ \/ updaterPc[h] = "marked"
       \/ updaterPc[h] = "locked" /\ m.action = "lost"
    /\ balance' = [balance EXCEPT ![UserOf(h)] = @ + Credit(m)]
    /\ profit' = [profit EXCEPT ![UserOf(h)] = @ + Gain(m)]
    /\ applied' = [applied EXCEPT ![m.bet] = @ + 1]
    /\ updaterPc' = [updaterPc EXCEPT ![h] = "applied"]
    /\ UNCHANGED <<result, relayVars, resolverVars, bet, updQ, handling, lock, missed, faults>>

UpdaterAck(h) ==
    /\ updaterPc[h] = "applied"
    /\ updaterPc' = [updaterPc EXCEPT ![h] = "acked"]
    /\ UNCHANGED <<result, relayVars, resolverVars, bet, updQ, handling, lock, userVars, faults>>

\* The key is deleted without a check that it is still this handler's.
UpdaterUnlock(h) ==
    /\ updaterPc[h] = "acked"
    /\ lock' = [lock EXCEPT ![UserOf(h)] = FALSE]
    /\ UpdaterDone(h)
    /\ UNCHANGED <<result, relayVars, resolverVars, bet, updQ, userVars, faults>>

-----------------------------------------------------------------------------
\* Faults

\* A rejected publish of the outbox: Promise.allSettled, the row stays unprocessed.
RelayPublishFail(r, row) ==
    /\ Fault("publish")
    /\ row \in todo[r]
    /\ todo' = [todo EXCEPT ![r] = @ \ {row}]
    /\ UNCHANGED <<result, outbox, relayPc, sent, resolverVars, bet, updaterVars, userVars>>

\* A rejected publish or statement of the resolver: nack with requeue.  The up to
\* five publishes in flight then may reach the broker all the same.
ResolverFail(w) ==
    /\ Fault(IF resolverPc[w] = "marking" THEN "database" ELSE "publish")
    /\ \/ /\ resolverPc[w] = "marking"
          /\ UNCHANGED updQ
       \/ /\ resolverPc[w] = "publishing"
          /\ Publishable(w) # {}
          /\ \E inFlight \in SUBSET Publishable(w) :
               /\ Cardinality(inFlight) <= 5
               /\ updQ' = [m \in Msg |-> IF \E b \in inFlight : m = UpdateMsg(b)
                                           THEN updQ[m] + 1 ELSE updQ[m]]
    /\ resQ' = [resQ EXCEPT ![resolving[w]] = @ + 1]
    /\ ResolverDone(w)
    /\ UNCHANGED <<result, relayVars, bet, lock, updater, userVars>>

\* Variant that drops the message instead of requeueing it.
UpdaterDrop(h) ==
    /\ Fault("database")
    /\ updaterPc[h] \in {"locked", "marked", "applied"}
    /\ lock' = [lock EXCEPT ![UserOf(h)] = FALSE]
    /\ UpdaterDone(h)
    /\ UNCHANGED <<result, relayVars, resolverVars, bet, updQ, userVars>>

\* A statement of processBetUpdate fails, or commits and its answer is lost: the
\* lock is deleted and the message goes back.
UpdaterFail(h) ==
    /\ Fault("database")
    /\ updaterPc[h] \in {"locked", "marked", "applied"}
    /\ lock' = [lock EXCEPT ![UserOf(h)] = FALSE]
    /\ updQ' = [updQ EXCEPT ![handling[h]] = @ + 1]
    /\ UpdaterDone(h)
    /\ UNCHANGED <<result, relayVars, resolverVars, bet, userVars>>

\* The key has a time to live of five seconds.
Busy(u) == \E h \in Updaters : updaterPc[h] # "idle" /\ UserOf(h) = u

LockExpire(u) ==
    /\ lock[u]
    /\ IF Busy(u) THEN Fault("expiry") ELSE UNCHANGED faults
    /\ lock' = [lock EXCEPT ![u] = FALSE]
    /\ UNCHANGED <<result, relayVars, resolverVars, bet, updQ, updater, userVars>>

\* The backend restarts: what it held is gone, what it did not acknowledge is
\* delivered again, the keys in Redis stay until they expire.
Crash ==
    /\ Fault("crash")
    /\ relayPc' = [r \in Relays |-> "idle"]
    /\ todo' = [r \in Relays |-> {}]
    /\ sent' = [r \in Relays |-> {}]
    /\ resQ' = [e \in Events |-> resQ[e] +
                  Cardinality({w \in Resolvers : resolverPc[w] # "idle"
                                                  /\ resolving[w] = e})]
    /\ resolverPc' = [w \in Resolvers |-> "idle"]
    /\ resolving' = [w \in Resolvers |-> NoEvent]
    /\ pending' = [w \in Resolvers |-> {}]
    /\ updQ' = [m \in Msg |-> updQ[m] +
                  Cardinality({h \in Updaters : updaterPc[h] \in {"locked", "marked", "applied"}
                                                 /\ handling[h] = m})]
    /\ updaterPc' = [h \in Updaters |-> "idle"]
    /\ handling' = [h \in Updaters |-> NoMsg]
    /\ UNCHANGED <<result, outbox, bet, lock, userVars>>

-----------------------------------------------------------------------------
RelayStep(r) ==
    \/ RelayRead(r)
    \/ RelayMark(r)
    \/ \E row \in Rows : RelayPublish(r, row)

ResolverStep(w) ==
    \/ ResolverMarkLost(w)
    \/ ResolverAck(w)
    \/ \E b \in Bets : ResolverPublish(w, b)

UpdaterStep(h) ==
    \/ UpdaterMark(h)
    \/ UpdaterApply(h)
    \/ UpdaterAck(h)
    \/ UpdaterUnlock(h)

FaultStep ==
    \/ \E r \in Relays, row \in Rows : RelayPublishFail(r, row)
    \/ \E w \in Resolvers : ResolverFail(w)
    \/ \E h \in Updaters : UpdaterFail(h)
    \/ Crash

Next ==
    \/ \E e \in Events, side \in Sides : FinishEvent(e, side)
    \/ \E e \in Events : CancelEvent(e)
    \/ \E b \in Bets : CommitBet(b)
    \/ \E r \in Relays : RelayStep(r)
    \/ \E w \in Resolvers, e \in Events : ResolverRead(w, e)
    \/ \E w \in Resolvers : ResolverStep(w)
    \/ \E h \in Updaters, m \in Msg : UpdaterTake(h, m)
    \/ \E h \in Updaters : UpdaterStep(h)
    \/ \E u \in Users : LockExpire(u)
    \/ FaultStep

Spec == Init /\ [][Next]_vars

\* The cron fires, the broker delivers every ready message, a handler that was
\* started runs on, and a key in Redis expires.  No fault has to happen, an event
\* need not end, and a placement may be given up.
Fairness ==
    /\ \A r \in Relays : WF_vars(RelayStep(r))
    /\ \A e \in Events : WF_vars(\E w \in Resolvers : ResolverRead(w, e))
    /\ \A w \in Resolvers : WF_vars(ResolverStep(w))
    /\ \A m \in Msg : WF_vars(\E h \in Updaters : UpdaterTake(h, m))
    /\ \A h \in Updaters : WF_vars(UpdaterStep(h))
    /\ \A u \in Users : WF_vars(LockExpire(u) /\ ~Busy(u))

FairSpec == Spec /\ Fairness

-----------------------------------------------------------------------------
\* Properties

\* A bet has the status its event's result gives it, whatever was delivered
\* twice, retried or interrupted: the handlers write a status without reading
\* the bet (bet-update.consumer.ts:137, 179), on the word of the message.
SettledByResult ==
    \A b \in Bets : LET e == BetEvent[b] IN
        /\ bet[b] = "WON"       => result[e] = Selection[b]
        /\ bet[b] = "LOST"      => result[e] \in Sides \ {Selection[b]}
        /\ bet[b] = "CANCELLED" => result[e] = "void"

\* The event has ended, and the user is owed a payout or a refund for the bet, which
\* was there in time for a resolution.
Owed(b) ==
    /\ result[BetEvent[b]] # "open"
    /\ bet[b] # "placing" /\ b \notin missed
    /\ UpdateMsg(b).action # "lost"
    /\ applied[b] = 0

\* An update of the bet is queued or in progress.
UpdateInTransit(b) ==
    \/ updQ[UpdateMsg(b)] > 0
    \/ \E h \in Updaters : /\ updaterPc[h] \in {"locked", "marked"}
                            /\ handling[h] = UpdateMsg(b)

\* A resolution that will find the bet pending is queued or in progress.
ResolutionInTransit(b) ==
    /\ bet[b] = "PENDING"
    /\ \/ resQ[BetEvent[b]] > 0
       \/ \E w \in Resolvers : /\ resolverPc[w] # "idle"
                                /\ resolving[w] = BetEvent[b]
                                /\ b \in pending[w]

Downstream(b) == UpdateInTransit(b) \/ ResolutionInTransit(b)

\* A payout or refund that is owed is never forgotten: at every moment, crashes
\* and failures included, an unprocessed outbox row, a message or a running
\* handler will still bring it about; also for a bet that is committed after its
\* event has ended (bets.service.ts:36), as long as a resolution is to come.
NeverStranded ==
    \A b \in Bets : Owed(b) => RowToCome(BetEvent[b]) \/ Downstream(b)

\* The per-user Redis lock: two updates of one user's row are not in progress at
\* the same time (bet-update.consumer.ts:90-103).
OneHandlerPerUser ==
    \A g, h \in Updaters :
        g # h /\ updaterPc[g] # "idle" /\ updaterPc[h] # "idle" => UserOf(g) # UserOf(h)

\* A bet that has a result keeps it, under redelivery and late handlers too.
StatusIsFinal ==
    [][\A b \in Bets : bet[b] \notin {"placing", "PENDING"} => bet'[b] = bet[b]]_vars

\* What the bets table says a user should have received.
TableCredit(u) ==
    LET rows(s) == {b \in Bets : BetUser[b] = u /\ bet[b] = s} IN
    MapThenSumSet(Payout, rows("WON")) + MapThenSumSet(LAMBDA b : Amount[b], rows("CANCELLED"))

\* What the bets table says a user has won or lost.
TableProfit(u) ==
    LET rows(s) == {b \in Bets : BetUser[b] = u /\ bet[b] = s} IN
    MapThenSumSet(LAMBDA b : Payout(b) - Amount[b], rows("WON"))
      - MapThenSumSet(LAMBDA b : Amount[b], rows("LOST"))

\* Nothing is queued or in progress.
Quiescent ==
    /\ \A row \in Rows : outbox[row] # "unprocessed"
    /\ \A e \in Events : resQ[e] = 0
    /\ \A r \in Relays : relayPc[r] = "idle"
    /\ \A w \in Resolvers : resolverPc[w] = "idle"
    /\ \A m \in Msg : updQ[m] = 0
    /\ \A h \in Updaters : updaterPc[h] = "idle"

\* Once everything has been handled, users.balance has every payout and refund the
\* bets table records, and users.totalProfit is the sum over the user's settled bets
\* (schema: cumulative P/L).
BooksAgree ==
    Quiescent => \A u \in Users : balance[u] = TableCredit(u) /\ profit[u] = TableProfit(u)

\* Every bet of an event that ended, if it was there in time, gets its result, and a
\* winner or a refunded user the money, in spite of crashes, failed publishes and
\* failed statements.
EveryBetSettles ==
    \A b \in Bets :
        result[BetEvent[b]] # "open" /\ bet[b] # "placing" /\ b \notin missed
            ~> bet[b] # "PENDING" /\ ~Owed(b)

\* The abstract specification this one implements while nothing is delivered
\* twice: a bet is settled when its update reaches the user's row.
L == INSTANCE Ledger WITH
       outcome <- result,
       settled <- {b \in Bets : applied[b] > 0}

\* Seen through the bets' updates, settlement is the ledger: one result per
\* event, each bet settled exactly once by it, each of them eventually.
ImplementsLedger == L!LedgerSpec
=============================================================================
