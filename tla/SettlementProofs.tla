-------------------------- MODULE SettlementProofs --------------------------
(***************************************************************************)
(* For any number of users, events, bets, handlers and faults: the types   *)
(* of Settlement, that bets get the status their event's result gives them *)
(* and keep it, that handlers of one user exclude each other as long as no *)
(* lock expires early, and that no payout or refund is ever stranded.      *)
(* While nothing is delivered twice: that settlement takes the steps of    *)
(* the Ledger, each bet settled at most once, and that the users' rows     *)
(* agree with the bets table once everything has been handled.             *)
(***************************************************************************)
EXTENDS Settlement, FiniteSums, FiniteSetTheorems, TLAPS

USE SettlementAssumption

\* A handler at work has a message, and a resolution at work an event.
AtWork ==
    /\ \A h \in Updaters : updaterPc[h] # "idle" => handling[h] \in Msg
    /\ \A w \in Resolvers : resolverPc[w] # "idle" => resolving[w] \in Events

TypeInv == TypeOK /\ AtWork

\* A payout is a whole number of cents.
LEMMA PayoutInt == \A b \in Bets : Payout(b) \in Int
<1> SUFFICES ASSUME NEW b \in Bets PROVE Payout(b) \in Int
  OBVIOUS
<1> DEFINE product == Amount[b] * Odds[b]
<1>1. product \in Int /\ OddsUnit \in Int /\ OddsUnit > 0
  OBVIOUS
<1>2. product \div OddsUnit \in Int
  <2> HIDE DEF product
  <2>1. QED BY <1>1
<1>3. QED BY <1>2 DEF Payout

\* What a message does to the user's row is a whole number of cents.
LEMMA CreditInt == \A m \in Msg : Credit(m) \in Int /\ Gain(m) \in Int
<1> SUFFICES ASSUME NEW m \in Msg PROVE Credit(m) \in Int /\ Gain(m) \in Int
  OBVIOUS
<1>1. m.bet \in Bets /\ m.action \in Actions
  BY DEF Msg
<1>2. Amount[m.bet] \in Nat /\ Odds[m.bet] \in Nat
  BY <1>1
<1>3. Payout(m.bet) \in Int
  BY <1>1, PayoutInt
<1>4. Amount[m.bet] \in Int
  BY <1>2
<1>5. QED BY <1>1, <1>3, <1>4 DEF Credit, Gain, Actions

\* The message for a bet is a message of that bet.
LEMMA UpdateMsgType == \A b \in Bets : UpdateMsg(b) \in Msg /\ UpdateMsg(b).bet = b
  BY DEF UpdateMsg, Msg, Actions

\* What it says, the result of the event decides.
LEMMA UpdateAction ==
  \A b \in Bets : UpdateMsg(b).action = IF result[BetEvent[b]] = "void" THEN "refund"
                                        ELSE IF result[BetEvent[b]] = Selection[b] THEN "won"
                                        ELSE "lost"
  BY DEF UpdateMsg, Sides

\* A handler at work serves a user, and a bet.
LEMMA HandlerServes ==
  ASSUME TypeInv, NEW h \in Updaters, updaterPc[h] # "idle"
  PROVE  /\ handling[h] \in Msg
         /\ handling[h].bet \in Bets
         /\ UserOf(h) \in Users
  BY DEF TypeInv, AtWork, Msg, UserOf

\* An event is ended with a row that there was not before.
LEMMA EndEventRow ==
  ASSUME TypeInv, NEW e \in Events, NEW how \in Results, EndEvent(e, how)
  PROVE  /\ result[e] \in {"open", how} /\ result' = [result EXCEPT ![e] = how]
         /\ \E row \in Rows : /\ RowEvent[row] = e /\ outbox[row] = "none"
                              /\ outbox' = [outbox EXCEPT ![row] = "unprocessed"]
         /\ faults' \in Nat
         /\ UNCHANGED <<relay, resolverVars, bet, updaterVars, userVars>>
<1> DEFINE unused == {r \in Rows : RowEvent[r] = e /\ outbox[r] = "none"}
           row    == CHOOSE r \in unused : TRUE
<1>1. unused # {} /\ outbox' = [outbox EXCEPT ![row] = "unprocessed"]
  BY DEF EndEvent
<1>2. row \in unused
  BY <1>1
<1>3. faults' \in Nat
  BY DEF EndEvent, Fault, TypeInv, TypeOK
<1> HIDE DEF row
<1>4. QED BY <1>1, <1>2, <1>3 DEF EndEvent

\* Every step keeps the types.
LEMMA TypeInvStep ==
  ASSUME TypeInv, [Next]_vars
  PROVE  TypeInv'
<1> USE DEF TypeInv, TypeOK, AtWork
<1> USE DEF relay, relayVars, resolver, resolverVars, updater, updaterVars, userVars
<1>1. ASSUME NEW e \in Events, NEW how \in Results, EndEvent(e, how) PROVE TypeInv'
  <2>1. result' \in [Events -> Results \cup {"open"}]
    BY <1>1, EndEventRow
  <2>2. outbox' \in [Rows -> {"none", "unprocessed", "processed"}]
    BY <1>1, EndEventRow
  <2>3. QED BY <1>1, <2>1, <2>2, EndEventRow
<1>2. ASSUME \/ \E e \in Events, side \in Sides : FinishEvent(e, side)
             \/ \E e \in Events : CancelEvent(e)
      PROVE  TypeInv'
  BY <1>1, <1>2 DEF FinishEvent, CancelEvent, Results
<1>3. ASSUME NEW r \in Relays, RelayStep(r) PROVE TypeInv'
  <2>1. CASE RelayRead(r)
    <3>1. todo' \in [Relays -> SUBSET Rows] /\ faults' \in Nat
      BY <2>1 DEF RelayRead, Fault
    <3>2. QED BY <2>1, <3>1 DEF RelayRead
  <2>2. CASE RelayMark(r)
    <3>1. outbox' \in [Rows -> {"none", "unprocessed", "processed"}]
      BY <2>2 DEF RelayMark
    <3>2. QED BY <2>2, <3>1 DEF RelayMark
  <2>3. ASSUME NEW row \in Rows, RelayPublish(r, row) PROVE TypeInv'
    <3>1. resQ' \in [Events -> Nat]
      BY <2>3 DEF RelayPublish
    <3>2. QED BY <2>3, <3>1 DEF RelayPublish
  <2>4. QED BY <1>3, <2>1, <2>2, <2>3 DEF RelayStep
<1>4. ASSUME NEW w \in Resolvers, NEW e \in Events, ResolverRead(w, e) PROVE TypeInv'
  <2>1. resQ' \in [Events -> Nat]
    BY <1>4 DEF ResolverRead
  <2>2. CASE UNCHANGED resolver
    BY <1>4, <2>1, <2>2 DEF ResolverRead
  <2>3. CASE ~UNCHANGED resolver
    <3>1. /\ resolverPc' \in [Resolvers -> {"idle", "marking", "publishing"}]
          /\ resolving' = [resolving EXCEPT ![w] = e]
          /\ pending' \in [Resolvers -> SUBSET Bets]
          /\ \A v \in Resolvers \ {w} : resolverPc'[v] = resolverPc[v]
      BY <1>4, <2>3 DEF ResolverRead
    <3>2. QED BY <1>4, <2>1, <3>1 DEF ResolverRead
  <2>4. QED BY <2>2, <2>3
<1>5. ASSUME NEW w \in Resolvers, ResolverStep(w) PROVE TypeInv'
  <2>1. CASE ResolverMarkLost(w)
    BY <2>1 DEF ResolverMarkLost
  <2>2. CASE ResolverAck(w)
    BY <2>2 DEF ResolverAck, ResolverDone
  <2>3. ASSUME NEW b \in Bets, ResolverPublish(w, b) PROVE TypeInv'
    <3>1. updQ' \in [Msg -> Nat]
      BY <2>3, UpdateMsgType DEF ResolverPublish
    <3>2. QED BY <2>3, <3>1 DEF ResolverPublish
  <2>4. QED BY <1>5, <2>1, <2>2, <2>3 DEF ResolverStep
<1>6. ASSUME NEW h \in Updaters, NEW m \in Msg, UpdaterTake(h, m) PROVE TypeInv'
  <2>1. lock' \in [Users -> BOOLEAN]
    BY <1>6 DEF UpdaterTake
  <2>2. QED BY <1>6, <2>1 DEF UpdaterTake
<1>7. ASSUME NEW h \in Updaters, UpdaterStep(h) PROVE TypeInv'
  <2>1. CASE UpdaterMark(h)
    BY <2>1 DEF UpdaterMark
  <2>2. CASE UpdaterApply(h)
    <3>1. handling[h] \in Msg /\ handling[h].bet \in Bets /\ UserOf(h) \in Users
      BY <2>2, HandlerServes DEF UpdaterApply
    <3>2. Credit(handling[h]) \in Int /\ Gain(handling[h]) \in Int
      BY <3>1, CreditInt
    <3>3. balance' \in [Users -> Int] /\ profit' \in [Users -> Int]
      BY <2>2, <3>1, <3>2 DEF UpdaterApply
    <3>4. applied' \in [Bets -> Nat]
      BY <2>2, <3>1 DEF UpdaterApply
    <3>5. QED BY <2>2, <3>3, <3>4 DEF UpdaterApply
  <2>3. CASE UpdaterAck(h)
    BY <2>3 DEF UpdaterAck
  <2>4. CASE UpdaterUnlock(h)
    BY <2>4 DEF UpdaterUnlock, UpdaterDone
  <2>5. QED BY <1>7, <2>1, <2>2, <2>3, <2>4 DEF UpdaterStep
<1>8. ASSUME NEW u \in Users, LockExpire(u) PROVE TypeInv'
  BY <1>8 DEF LockExpire, Fault
<1>9. CASE FaultStep
  <2>1. ASSUME NEW r \in Relays, NEW row \in Rows, RelayPublishFail(r, row) PROVE TypeInv'
    BY <2>1 DEF RelayPublishFail, Fault
  <2>2. ASSUME NEW w \in Resolvers, ResolverFail(w) PROVE TypeInv'
    <3>1. updQ' \in [Msg -> Nat]
      BY <2>2 DEF ResolverFail
    <3>2. resQ' \in [Events -> Nat]
      BY <2>2 DEF ResolverFail
    <3>3. faults' \in Nat
      BY <2>2 DEF ResolverFail, Fault
    <3>4. QED BY <2>2, <3>1, <3>2, <3>3 DEF ResolverFail, ResolverDone
  <2>3. ASSUME NEW h \in Updaters, UpdaterFail(h) PROVE TypeInv'
    <3>1. handling[h] \in Msg /\ UserOf(h) \in Users
      BY <2>3, HandlerServes DEF UpdaterFail
    <3>2. updQ' \in [Msg -> Nat]
      BY <2>3, <3>1 DEF UpdaterFail
    <3>3. lock' \in [Users -> BOOLEAN] /\ faults' \in Nat
      <4>1. lock' = [lock EXCEPT ![UserOf(h)] = FALSE] /\ faults' = faults + 1
        BY <2>3 DEF UpdaterFail, Fault
      <4>2. QED BY <3>1, <4>1
    <3>4. /\ updaterPc' = [updaterPc EXCEPT ![h] = "idle"]
          /\ handling' = [handling EXCEPT ![h] = NoMsg]
      BY <2>3 DEF UpdaterFail, UpdaterDone
    <3>5. QED BY <2>3, <3>2, <3>3, <3>4 DEF UpdaterFail
  <2>4. CASE Crash
    <3>1. \A S \in SUBSET Resolvers : Cardinality(S) \in Nat
      BY FS_Subset, FS_CardinalityType
    <3>2. \A S \in SUBSET Updaters : Cardinality(S) \in Nat
      BY FS_Subset, FS_CardinalityType
    <3>3. resQ' \in [Events -> Nat]
      <4>1. ASSUME NEW e \in Events
            PROVE  resQ[e] + Cardinality({w \in Resolvers : resolverPc[w] # "idle"
                                                            /\ resolving[w] = e}) \in Nat
        <5> DEFINE S == {w \in Resolvers : resolverPc[w] # "idle" /\ resolving[w] = e}
        <5>1. Cardinality(S) \in Nat
          BY <3>1
        <5> HIDE DEF S
        <5>2. resQ[e] + Cardinality(S) \in Nat
          BY <5>1
        <5>3. QED BY <5>2 DEF S
      <4>2. QED BY <2>4, <4>1 DEF Crash
    <3>4. updQ' \in [Msg -> Nat]
      <4>1. ASSUME NEW m \in Msg
            PROVE  updQ[m] + Cardinality({h \in Updaters :
                                updaterPc[h] \in {"locked", "marked", "applied"}
                                /\ handling[h] = m}) \in Nat
        BY <3>2
      <4>2. QED BY <2>4, <4>1 DEF Crash
    <3>5. QED BY <2>4, <3>3, <3>4 DEF Crash, Fault
  <2>5. QED BY <1>9, <2>1, <2>2, <2>3, <2>4 DEF FaultStep
<1>10. ASSUME NEW b \in Bets, CommitBet(b) PROVE TypeInv'
  BY <1>10 DEF CommitBet
<1>11. CASE UNCHANGED vars
  BY <1>11 DEF vars
<1>12. QED
  BY <1>1, <1>2, <1>3, <1>4, <1>5, <1>6, <1>7, <1>8, <1>9, <1>10, <1>11 DEF Next

\* The types hold at the start.
LEMMA TypeInvInit == Init => TypeInv
  BY DEF Init, TypeInv, TypeOK, AtWork

\* The types hold always.
LEMMA TypeInvariant == Spec => []TypeInv
  BY TypeInvInit, TypeInvStep, PTL DEF Spec

\* Type correctness of every reachable state, faults included.
THEOREM TypeCorrect == Spec => []TypeOK
<1>1. TypeInv => TypeOK
  BY DEF TypeInv
<1>2. QED BY TypeInvariant, <1>1, PTL

-----------------------------------------------------------------------------
\* Only ended events have rows, messages and resolutions, and a resolution looks
\* at committed bets of its event.
OnlyEnded ==
    /\ \A row \in Rows : outbox[row] # "none" => result[RowEvent[row]] # "open"
    /\ \A e \in Events : resQ[e] > 0 => result[e] # "open"
    /\ \A r \in Relays : \A row \in todo[r] \cup sent[r] : result[RowEvent[row]] # "open"
    /\ \A w \in Resolvers : resolverPc[w] # "idle" =>
         /\ result[resolving[w]] # "open"
         /\ resolverPc[w] = "marking" => result[resolving[w]] \in Sides
         /\ \A b \in pending[w] : BetEvent[b] = resolving[w] /\ bet[b] # "placing"

\* The message is for a committed bet and says what the result of the event says.
Right(m) ==
    /\ bet[m.bet] # "placing"
    /\ result[BetEvent[m.bet]] # "open"
    /\ m = UpdateMsg(m.bet)

RightMessages ==
    /\ \A m \in Msg : updQ[m] > 0 => Right(m)
    /\ \A h \in Updaters : updaterPc[h] # "idle" => Right(handling[h])

ResultInv == OnlyEnded /\ RightMessages /\ SettledByResult

\* The result of an event that has ended does not change any more.
LEMMA EndedFrozen ==
  ASSUME TypeInv, [Next]_vars, NEW e \in Events, result[e] # "open"
  PROVE  result'[e] = result[e]
<1> USE DEF TypeInv, TypeOK, vars
<1>1. CASE UNCHANGED result
  BY <1>1
<1>2. ASSUME NEW d \in Events, NEW how, EndEvent(d, how) PROVE result'[e] = result[e]
  BY <1>2 DEF EndEvent
<1>3. QED
  BY <1>1, <1>2
     DEF Next, FinishEvent, CancelEvent, CommitBet, RelayStep, RelayRead, RelayPublish, RelayMark,
         ResolverRead, ResolverStep, ResolverMarkLost, ResolverAck, ResolverPublish, UpdaterTake,
         UpdaterStep, UpdaterMark, UpdaterApply, UpdaterAck, UpdaterUnlock, LockExpire, FaultStep,
         RelayPublishFail, ResolverFail, UpdaterFail, Crash

\* A bet that is committed stays so.
LEMMA CommittedStays ==
  ASSUME TypeInv, [Next]_vars, NEW b \in Bets, bet[b] # "placing"
  PROVE  bet'[b] # "placing"
<1> USE DEF TypeInv, TypeOK, vars
<1>1. CASE UNCHANGED bet
  BY <1>1
<1>2. ASSUME NEW w \in Resolvers, ResolverMarkLost(w) PROVE bet'[b] # "placing"
  BY <1>2 DEF ResolverMarkLost
<1>3. ASSUME NEW h \in Updaters, UpdaterMark(h) PROVE bet'[b] # "placing"
  BY <1>3 DEF UpdaterMark
<1>4. ASSUME NEW c \in Bets, CommitBet(c) PROVE bet'[b] # "placing"
  BY <1>4 DEF CommitBet
<1>5. QED
  BY <1>1, <1>2, <1>3, <1>4
     DEF Next, FinishEvent, CancelEvent, EndEvent, RelayStep, RelayRead, RelayPublish, RelayMark,
         ResolverRead, ResolverStep, ResolverAck, ResolverPublish, UpdaterTake, UpdaterStep,
         UpdaterApply, UpdaterAck, UpdaterUnlock, LockExpire, FaultStep, RelayPublishFail,
         ResolverFail, UpdaterFail, Crash

\* Nor do, then, the messages for its bets.
LEMMA RightStaysRight ==
  ASSUME TypeInv, [Next]_vars, NEW m \in Msg, Right(m)
  PROVE  Right(m)'
<1>1. m.bet \in Bets /\ BetEvent[m.bet] \in Events
  BY DEF Msg
<1>2. result'[BetEvent[m.bet]] = result[BetEvent[m.bet]]
  BY <1>1, EndedFrozen DEF Right
<1>3. bet'[m.bet] # "placing"
  BY <1>1, CommittedStays DEF Right
<1>4. QED BY <1>1, <1>2, <1>3 DEF Right, UpdateMsg

\* Events only end, one by one.
LEMMA OnlyEndedStep ==
  ASSUME TypeInv, OnlyEnded, [Next]_vars
  PROVE  OnlyEnded'
<1> USE DEF TypeInv, TypeOK, AtWork, OnlyEnded
<1> USE DEF relay, relayVars, resolver, resolverVars, updater, updaterVars, userVars
<1> DEFINE Ended == /\ \A row \in Rows : outbox'[row] # "none" => result'[RowEvent[row]] # "open"
                    /\ \A e \in Events : resQ'[e] > 0 => result'[e] # "open"
                    /\ \A r \in Relays : \A row \in todo'[r] \cup sent'[r] :
                         result'[RowEvent[row]] # "open"
                    /\ \A w \in Resolvers : resolverPc'[w] # "idle" =>
                         /\ result'[resolving'[w]] # "open"
                         /\ resolverPc'[w] = "marking" => result'[resolving'[w]] \in Sides
                         /\ \A b \in pending'[w] : BetEvent[b] = resolving'[w] /\ bet[b] # "placing"
<1>1. ASSUME NEW e \in Events, NEW how \in Results, EndEvent(e, how) PROVE Ended
  <2>1. \A d \in Events : result[d] # "open" => result'[d] = result[d]
    BY <1>1, EndEventRow
  <2>2. result'[e] # "open" /\ UNCHANGED <<resQ, todo, sent, resolver>>
    BY <1>1, EndEventRow DEF Results, Sides
  <2>3. \A row \in Rows : outbox'[row] # "none" => outbox[row] # "none" \/ RowEvent[row] = e
    BY <1>1, EndEventRow
  <2>4. QED BY <2>1, <2>2, <2>3
<1>2. ASSUME \/ \E e \in Events, side \in Sides : FinishEvent(e, side)
             \/ \E e \in Events : CancelEvent(e)
      PROVE  Ended
  BY <1>1, <1>2 DEF FinishEvent, CancelEvent, Results
<1>3. ASSUME NEW r \in Relays, RelayStep(r) PROVE Ended
  <2>1. ASSUME RelayRead(r) PROVE Ended
    BY <2>1 DEF RelayRead
  <2>2. ASSUME RelayMark(r) PROVE Ended
    BY <2>2 DEF RelayMark
  <2>3. ASSUME NEW row \in Rows, RelayPublish(r, row) PROVE Ended
    BY <2>3 DEF RelayPublish
  <2>4. QED BY <1>3, <2>1, <2>2, <2>3 DEF RelayStep
<1>4. ASSUME NEW w \in Resolvers, NEW e \in Events, ResolverRead(w, e) PROVE Ended
  <2>1. resQ[e] > 0 /\ result[e] # "open"
    BY <1>4 DEF ResolverRead
  <2>2. \A d \in Events : resQ'[d] > 0 => resQ[d] > 0
    BY <1>4 DEF ResolverRead
  <2>3. \A v \in Resolvers : resolverPc'[v] # "idle" =>
          /\ result[resolving'[v]] # "open"
          /\ resolverPc'[v] = "marking" => result[resolving'[v]] \in Sides
          /\ \A b \in pending'[v] : BetEvent[b] = resolving'[v] /\ bet[b] # "placing"
    BY <1>4, <2>1 DEF ResolverRead
  <2>4. QED BY <1>4, <2>2, <2>3 DEF ResolverRead
<1>5. ASSUME NEW w \in Resolvers, ResolverStep(w) PROVE Ended
  <2>1. ASSUME ResolverMarkLost(w) PROVE Ended
    BY <2>1 DEF ResolverMarkLost
  <2>2. ASSUME ResolverAck(w) PROVE Ended
    BY <2>2 DEF ResolverAck, ResolverDone
  <2>3. ASSUME NEW b \in Bets, ResolverPublish(w, b) PROVE Ended
    BY <2>3 DEF ResolverPublish
  <2>4. QED BY <1>5, <2>1, <2>2, <2>3 DEF ResolverStep
<1>6. ASSUME NEW h \in Updaters, NEW m \in Msg, UpdaterTake(h, m) PROVE Ended
  BY <1>6 DEF UpdaterTake
<1>7. ASSUME NEW h \in Updaters, UpdaterStep(h) PROVE Ended
  BY <1>7 DEF UpdaterStep, UpdaterMark, UpdaterApply, UpdaterAck, UpdaterUnlock
<1>8. ASSUME NEW u \in Users, LockExpire(u) PROVE Ended
  BY <1>8 DEF LockExpire
<1>9. ASSUME FaultStep PROVE Ended
  <2>1. ASSUME NEW r \in Relays, NEW row \in Rows, RelayPublishFail(r, row) PROVE Ended
    BY <2>1 DEF RelayPublishFail
  <2>2. ASSUME NEW w \in Resolvers, ResolverFail(w) PROVE Ended
    <3>1. resolverPc[w] # "idle"
      BY <2>2 DEF ResolverFail
    <3>2. QED BY <2>2, <3>1 DEF ResolverFail, ResolverDone
  <2>3. ASSUME NEW h \in Updaters, UpdaterFail(h) PROVE Ended
    BY <2>3 DEF UpdaterFail
  <2>4. ASSUME Crash PROVE Ended
    <3>1. ASSUME NEW e \in Events, resQ'[e] > 0, result[e] = "open" PROVE FALSE
      <4> DEFINE S == {w \in Resolvers : resolverPc[w] # "idle" /\ resolving[w] = e}
      <4>1. S = {}
        BY <3>1
      <4>2. resQ'[e] = resQ[e] + Cardinality(S)
        BY <2>4 DEF Crash
      <4>3. Cardinality(S) = 0
        BY <4>1, FS_EmptySet
      <4> HIDE DEF S
      <4>4. QED BY <3>1, <4>2, <4>3
    <3>2. QED BY <2>4, <3>1 DEF Crash
  <2>5. QED BY <1>9, <2>1, <2>2, <2>3, <2>4 DEF FaultStep
<1>10. ASSUME NEW b \in Bets, CommitBet(b) PROVE Ended
  BY <1>10 DEF CommitBet
<1>11. ASSUME UNCHANGED vars PROVE Ended
  BY <1>11 DEF vars
<1>12. Ended
  BY <1>1, <1>2, <1>3, <1>4, <1>5, <1>6, <1>7, <1>8, <1>9, <1>10, <1>11 DEF Next
<1>13. \A w \in Resolvers : pending'[w] \subseteq Bets
  BY TypeInvStep
<1>14. QED BY <1>12, <1>13, CommittedStays

\* A step sends, requeues and takes right messages only.
LEMMA RightMessagesStep ==
  ASSUME TypeInv, OnlyEnded, RightMessages, [Next]_vars
  PROVE  RightMessages'
<1> USE DEF TypeInv, TypeOK, AtWork, RightMessages
<1> USE DEF relay, relayVars, resolver, resolverVars, updater, updaterVars, userVars
<1> DEFINE Queued  == \A m \in Msg : updQ'[m] > 0 => Right(m)
           Handled == \A h \in Updaters : updaterPc'[h] # "idle" =>
                        handling'[h] \in Msg /\ Right(handling'[h])
           Both    == Queued /\ Handled
<1>1. ASSUME NEW e \in Events, NEW how \in Results, EndEvent(e, how) PROVE Both
  BY <1>1, EndEventRow
<1>2. ASSUME \/ \E e \in Events, side \in Sides : FinishEvent(e, side)
             \/ \E e \in Events : CancelEvent(e)
      PROVE  Both
  BY <1>1, <1>2 DEF FinishEvent, CancelEvent, Results
<1>3. ASSUME NEW r \in Relays, RelayStep(r) PROVE Both
  BY <1>3 DEF RelayStep, RelayRead, RelayMark, RelayPublish
<1>4. ASSUME NEW w \in Resolvers, NEW e \in Events, ResolverRead(w, e) PROVE Both
  BY <1>4 DEF ResolverRead
<1>5. ASSUME NEW w \in Resolvers, ResolverStep(w) PROVE Both
  <2>1. CASE ResolverMarkLost(w) \/ ResolverAck(w)
    BY <2>1 DEF ResolverMarkLost, ResolverAck
  <2>2. ASSUME NEW b \in Bets, ResolverPublish(w, b) PROVE Both
    <3>1. Right(UpdateMsg(b))
      <4>1. b \in pending[w] /\ resolverPc[w] # "idle"
        BY <2>2 DEF ResolverPublish, Publishable, Losing
      <4>2. result[BetEvent[b]] # "open" /\ bet[b] # "placing"
        BY <4>1 DEF OnlyEnded
      <4>3. QED BY <4>2, UpdateMsgType DEF Right
    <3>2. \A m \in Msg : m # UpdateMsg(b) => updQ'[m] = updQ[m]
      BY <2>2, UpdateMsgType DEF ResolverPublish
    <3>3. Queued
      BY <3>1, <3>2
    <3>4. QED BY <2>2, <3>3 DEF ResolverPublish
  <2>3. QED BY <1>5, <2>1, <2>2 DEF ResolverStep
<1>6. ASSUME NEW h \in Updaters, NEW m \in Msg, UpdaterTake(h, m) PROVE Both
  <2>1. Right(m)
    BY <1>6 DEF UpdaterTake
  <2>2. \A n \in Msg : updQ'[n] > 0 => updQ[n] > 0
    BY <1>6 DEF UpdaterTake
  <2>3. Handled
    BY <1>6, <2>1 DEF UpdaterTake
  <2>4. QED BY <2>2, <2>3
<1>7. ASSUME NEW h \in Updaters, UpdaterStep(h) PROVE Both
  BY <1>7 DEF UpdaterStep, UpdaterMark, UpdaterApply, UpdaterAck, UpdaterUnlock, UpdaterDone
<1>8. ASSUME NEW u \in Users, LockExpire(u) PROVE Both
  BY <1>8 DEF LockExpire
<1>9. ASSUME FaultStep PROVE Both
  <2>1. ASSUME NEW r \in Relays, NEW row \in Rows, RelayPublishFail(r, row) PROVE Both
    BY <2>1 DEF RelayPublishFail
  <2>2. ASSUME NEW w \in Resolvers, ResolverFail(w) PROVE Both
    <3>1. ASSUME NEW b \in Publishable(w), resolverPc[w] # "idle" PROVE Right(UpdateMsg(b))
      <4>1. b \in Bets /\ b \in pending[w]
        BY <3>1 DEF Publishable, Losing
      <4>2. result[BetEvent[b]] # "open" /\ bet[b] # "placing"
        BY <3>1, <4>1 DEF OnlyEnded
      <4>3. QED BY <4>1, <4>2, UpdateMsgType DEF Right
    <3>2. Queued
      <4>1. CASE UNCHANGED updQ
        BY <4>1
      <4>2. ASSUME NEW inFlight \in SUBSET Publishable(w), resolverPc[w] # "idle",
                   updQ' = [m \in Msg |-> IF \E b \in inFlight : m = UpdateMsg(b)
                                            THEN updQ[m] + 1 ELSE updQ[m]]
            PROVE  Queued
        BY <3>1, <4>2
      <4>3. QED BY <2>2, <4>1, <4>2 DEF ResolverFail
    <3>3. QED BY <2>2, <3>2 DEF ResolverFail
  <2>3. ASSUME NEW h \in Updaters, UpdaterFail(h) PROVE Both
    <3>1. handling[h] \in Msg /\ Right(handling[h])
      BY <2>3 DEF UpdaterFail
    <3>2. \A m \in Msg : m # handling[h] => updQ'[m] = updQ[m]
      BY <2>3, <3>1 DEF UpdaterFail
    <3>3. Queued
      BY <3>1, <3>2
    <3>4. Handled
      BY <2>3 DEF UpdaterFail, UpdaterDone
    <3>5. QED BY <3>3, <3>4
  <2>4. ASSUME Crash PROVE Both
    <3>1. Handled
      BY <2>4 DEF Crash
    <3>2. ASSUME NEW m \in Msg, updQ'[m] > 0 PROVE Right(m)
      <4> DEFINE S == {h \in Updaters : updaterPc[h] \in {"locked", "marked", "applied"}
                                        /\ handling[h] = m}
      <4>1. CASE S = {}
        <5>1. updQ'[m] = updQ[m] + Cardinality(S)
          BY <2>4 DEF Crash
        <5>2. Cardinality(S) = 0
          BY <4>1, FS_EmptySet
        <5> HIDE DEF S
        <5>3. updQ[m] > 0
          BY <3>2, <5>1, <5>2
        <5>4. QED BY <5>3
      <4>2. CASE S # {}
        BY <4>2
      <4>3. QED BY <4>1, <4>2
    <3>3. QED BY <3>1, <3>2
  <2>5. QED BY <1>9, <2>1, <2>2, <2>3, <2>4 DEF FaultStep
<1>10. ASSUME NEW b \in Bets, CommitBet(b) PROVE Both
  BY <1>10 DEF CommitBet
<1>11. ASSUME UNCHANGED vars PROVE Both
  BY <1>11 DEF vars
<1>12. Both
  BY <1>1, <1>2, <1>3, <1>4, <1>5, <1>6, <1>7, <1>8, <1>9, <1>10, <1>11 DEF Next
<1>13. \A m \in Msg : Right(m) => Right(m)'
  BY RightStaysRight
<1>14. \A m \in Msg : updQ'[m] > 0 => Right(m)'
  BY <1>12, <1>13
<1>15. \A h \in Updaters : updaterPc'[h] # "idle" => Right(handling[h])'
  BY <1>12, <1>13 DEF Right, UpdateMsg
<1>16. QED BY <1>14, <1>15 DEF Right, UpdateMsg

\* The statuses that bets get agree with the result, and with the status they have.
LEMMA BetStep ==
  ASSUME TypeInv, ResultInv, [Next]_vars, NEW b \in Bets,
         bet[b] # "placing", bet'[b] # bet[b]
  PROVE  /\ bet[b] = "PENDING"
         /\ result[BetEvent[b]] # "open"
         /\ bet'[b] = CASE UpdateMsg(b).action = "won"    -> "WON"
                        [] UpdateMsg(b).action = "lost"   -> "LOST"
                        [] UpdateMsg(b).action = "refund" -> "CANCELLED"
<1> USE DEF TypeInv, TypeOK, AtWork, ResultInv
<1> USE DEF relay, relayVars, resolver, resolverVars, updater, updaterVars, userVars
<1>1. \/ \E w \in Resolvers : ResolverMarkLost(w)
      \/ \E h \in Updaters : UpdaterMark(h)
  BY DEF Next, vars, FinishEvent, CancelEvent, EndEvent, CommitBet, RelayStep, RelayRead, RelayPublish, RelayMark,
         ResolverRead, ResolverStep, ResolverAck, ResolverPublish, UpdaterTake, UpdaterStep,
         UpdaterApply, UpdaterAck, UpdaterUnlock, LockExpire, FaultStep, RelayPublishFail,
         ResolverFail, UpdaterFail, Crash
<1>2. ASSUME NEW w \in Resolvers, ResolverMarkLost(w)
      PROVE  /\ bet[b] = "PENDING" /\ bet'[b] = "LOST"
             /\ result[BetEvent[b]] \in Sides /\ Selection[b] # result[BetEvent[b]]
  BY <1>2 DEF ResolverMarkLost, OnlyEnded
<1>3. ASSUME NEW h \in Updaters, UpdaterMark(h)
      PROVE  /\ UpdateMsg(b).action # "lost" /\ result[BetEvent[b]] # "open"
             /\ bet'[b] = IF UpdateMsg(b).action = "won" THEN "WON" ELSE "CANCELLED"
  <2>1. handling[h].bet = b /\ Right(handling[h])
    BY <1>3 DEF UpdaterMark, RightMessages
  <2>2. QED BY <1>3, <2>1 DEF UpdaterMark, Right
<1>4. ASSUME bet[b] # "PENDING"
      PROVE  bet[b] = CASE UpdateMsg(b).action = "won"    -> "WON"
                        [] UpdateMsg(b).action = "lost"   -> "LOST"
                        [] UpdateMsg(b).action = "refund" -> "CANCELLED"
  <2>1. bet[b] \in {"WON", "LOST", "CANCELLED"} /\ Selection[b] \in Sides
    BY <1>4
  <2>2. QED BY <2>1, UpdateAction DEF SettledByResult, Sides
<1>5. UpdateMsg(b).action \in Actions
  BY UpdateMsgType DEF Msg
<1>6. CASE \E w \in Resolvers : ResolverMarkLost(w)
  <2>1. UpdateMsg(b).action = "lost"
    BY <1>2, <1>6, UpdateAction DEF Sides
  <2>2. QED BY <1>2, <1>6, <2>1 DEF Sides
<1>7. CASE \E h \in Updaters : UpdaterMark(h)
  BY <1>3, <1>4, <1>5, <1>7 DEF Actions
<1>8. QED BY <1>1, <1>6, <1>7

\* A placement ends in a pending bet.
LEMMA PlacingStep ==
  ASSUME TypeInv, ResultInv, [Next]_vars, NEW b \in Bets, bet[b] = "placing"
  PROVE  bet'[b] \in {"placing", "PENDING"}
<1> USE DEF TypeInv, TypeOK, vars
<1>1. CASE UNCHANGED bet
  BY <1>1
<1>2. ASSUME NEW w \in Resolvers, ResolverMarkLost(w) PROVE bet'[b] = bet[b]
  BY <1>2 DEF ResolverMarkLost
<1>3. ASSUME NEW h \in Updaters, UpdaterMark(h) PROVE bet'[b] = bet[b]
  <2>1. handling[h].bet # b
    BY <1>3 DEF UpdaterMark, ResultInv, RightMessages, Right
  <2>2. QED BY <1>3, <2>1 DEF UpdaterMark
<1>4. ASSUME NEW c \in Bets, CommitBet(c) PROVE bet'[b] \in {"placing", "PENDING"}
  BY <1>4 DEF CommitBet
<1>5. QED
  BY <1>1, <1>2, <1>3, <1>4
     DEF Next, FinishEvent, CancelEvent, EndEvent, RelayStep, RelayRead, RelayPublish, RelayMark,
         ResolverRead, ResolverStep, ResolverAck, ResolverPublish, UpdaterTake, UpdaterStep,
         UpdaterApply, UpdaterAck, UpdaterUnlock, LockExpire, FaultStep, RelayPublishFail,
         ResolverFail, UpdaterFail, Crash

\* Every step keeps what is said of the results.
LEMMA ResultInvStep ==
  ASSUME TypeInv, ResultInv, [Next]_vars
  PROVE  ResultInv'
<1>1. OnlyEnded'
  BY OnlyEndedStep DEF ResultInv
<1>2. RightMessages'
  BY RightMessagesStep DEF ResultInv
<1>3. ASSUME NEW b \in Bets
      PROVE  LET e == BetEvent[b] IN
             /\ bet'[b] = "WON"       => result'[e] = Selection[b]
             /\ bet'[b] = "LOST"      => result'[e] \in Sides \ {Selection[b]}
             /\ bet'[b] = "CANCELLED" => result'[e] = "void"
  <2> DEFINE e == BetEvent[b]
  <2>1. e \in Events
    OBVIOUS
  <2>2. CASE bet'[b] = bet[b] /\ result[e] = "open"
    <3>1. bet[b] \in {"placing", "PENDING"}
      BY <2>2 DEF ResultInv, SettledByResult, TypeInv, TypeOK, Sides
    <3>2. QED BY <2>2, <3>1
  <2>3. CASE bet'[b] = bet[b] /\ result[e] # "open"
    BY <2>1, <2>3, EndedFrozen DEF ResultInv, SettledByResult
  <2>4. CASE bet'[b] # bet[b] /\ bet[b] # "placing"
    <3>1. /\ result[e] # "open"
          /\ bet'[b] = CASE UpdateMsg(b).action = "won"    -> "WON"
                         [] UpdateMsg(b).action = "lost"   -> "LOST"
                         [] UpdateMsg(b).action = "refund" -> "CANCELLED"
      BY <2>4, BetStep
    <3>2. result'[e] = result[e]
      BY <2>1, <3>1, EndedFrozen
    <3>3. result[e] \in Sides \cup {"void"} /\ "void" \notin Sides
      BY <3>1 DEF TypeInv, TypeOK, Results, Sides
    <3>4. QED BY <3>1, <3>2, <3>3 DEF UpdateMsg
  <2>5. CASE bet[b] = "placing"
    BY <2>5, PlacingStep
  <2>6. QED BY <2>2, <2>3, <2>4, <2>5
<1>4. SettledByResult'
  BY <1>3 DEF SettledByResult
<1>5. QED BY <1>1, <1>2, <1>4 DEF ResultInv

\* No event has a result at the start.
LEMMA ResultInvInit == Init => ResultInv
  BY DEF Init, ResultInv, OnlyEnded, RightMessages, SettledByResult, Msg

\* What is said of the results holds always.
LEMMA ResultInvariant == Spec => []ResultInv
  BY TypeInvariant, ResultInvInit, ResultInvStep, PTL DEF Spec

\* In every reachable state, whatever faults happened before, a bet that is not
\* pending any more has the status that its event's result gives it.
THEOREM BetsSettledByResult == Spec => []SettledByResult
<1>1. ResultInv => SettledByResult
  BY DEF ResultInv
<1>2. QED BY ResultInvariant, <1>1, PTL

\* No step, be it of a duplicate or a late handler, changes the status of a bet
\* that is not pending any more.
THEOREM StatusFinal == Spec => StatusIsFinal
<1>1. TypeInv /\ ResultInv /\ [Next]_vars
        => [\A b \in Bets : bet[b] \notin {"placing", "PENDING"} => bet'[b] = bet[b]]_vars
  BY BetStep
<1>2. QED BY TypeInvariant, ResultInvariant, <1>1, PTL DEF Spec, StatusIsFinal

-----------------------------------------------------------------------------
\* The lock: whoever is at work holds the key of its user, and alone.
LockInv ==
    /\ \A h \in Updaters : updaterPc[h] # "idle" => lock[UserOf(h)]
    /\ OneHandlerPerUser

\* Every step keeps what is said of the locks.
LEMMA LockInvStep ==
  ASSUME "expiry" \notin Faults, TypeInv, LockInv, [Next]_vars
  PROVE  LockInv'
<1> USE DEF TypeInv, TypeOK, AtWork, LockInv, OneHandlerPerUser, UserOf
<1> USE DEF relay, relayVars, resolver, resolverVars, updater, updaterVars, userVars
<1>1. ASSUME UNCHANGED <<updaterPc, handling, lock>> PROVE LockInv'
  BY <1>1
<1>2. ASSUME NEW h \in Updaters, NEW m \in Msg, UpdaterTake(h, m) PROVE LockInv'
  <2>1. \A g \in Updaters : updaterPc[g] # "idle" => UserOf(g) # BetUser[m.bet]
    BY <1>2 DEF UpdaterTake
  <2>2. BetUser[m.bet] \in Users
    BY DEF Msg
  <2>3. /\ lock' = [lock EXCEPT ![BetUser[m.bet]] = TRUE]
        /\ updaterPc' = [updaterPc EXCEPT ![h] = "locked"]
        /\ handling' = [handling EXCEPT ![h] = m]
    BY <1>2 DEF UpdaterTake
  <2>4. QED BY <2>1, <2>2, <2>3
<1>3. ASSUME NEW h \in Updaters, UpdaterMark(h) \/ UpdaterApply(h) \/ UpdaterAck(h) PROVE LockInv'
  <2>1. /\ lock' = lock /\ handling' = handling /\ updaterPc[h] # "idle"
        /\ \E pc \in {"marked", "applied", "acked"} : updaterPc' = [updaterPc EXCEPT ![h] = pc]
    BY <1>3 DEF UpdaterMark, UpdaterApply, UpdaterAck
  <2>2. \A g \in Updaters : updaterPc'[g] # "idle" => updaterPc[g] # "idle"
    BY <2>1
  <2>3. QED BY <2>1, <2>2
<1>4. ASSUME NEW h \in Updaters, UpdaterUnlock(h) \/ UpdaterFail(h) PROVE LockInv'
  <2>1. /\ lock' = [lock EXCEPT ![UserOf(h)] = FALSE] /\ updaterPc[h] # "idle"
        /\ updaterPc' = [updaterPc EXCEPT ![h] = "idle"]
        /\ handling' = [handling EXCEPT ![h] = NoMsg]
    BY <1>4 DEF UpdaterUnlock, UpdaterFail, UpdaterDone
  <2>2. \A g \in Updaters : updaterPc'[g] # "idle" => g # h /\ UserOf(g) # UserOf(h)
    BY <2>1
  <2>3. QED BY <2>1, <2>2
<1>5. ASSUME NEW u \in Users, LockExpire(u) PROVE LockInv'
  <2>1. ~Busy(u) /\ lock' = [lock EXCEPT ![u] = FALSE] /\ UNCHANGED <<updaterPc, handling>>
    BY <1>5 DEF LockExpire, Fault
  <2>2. QED BY <2>1 DEF Busy
<1>6. ASSUME Crash PROVE LockInv'
  BY <1>6 DEF Crash
<1>7. QED
  BY <1>1, <1>2, <1>3, <1>4, <1>5, <1>6
     DEF Next, vars, FinishEvent, CancelEvent, EndEvent, CommitBet, RelayStep, RelayRead, RelayPublish,
         RelayMark, ResolverRead, ResolverStep, ResolverMarkLost, ResolverAck, ResolverPublish,
         UpdaterStep, FaultStep, RelayPublishFail, ResolverFail

\* At the start no handler is at work.
LEMMA LockInvInit == Init => LockInv
  BY DEF Init, LockInv, OneHandlerPerUser

\* The per-user lock is a lock, crashes and failures included, as long as every
\* handler is done before its key expires (rabbitmq.module.ts:23 promises it
\* without that condition).
THEOREM LockExcludes ==
  ASSUME "expiry" \notin Faults
  PROVE  Spec => []OneHandlerPerUser
<1>1. LockInv => OneHandlerPerUser
  BY DEF LockInv
<1>2. QED BY TypeInvariant, LockInvInit, LockInvStep, <1>1, PTL DEF Spec

-----------------------------------------------------------------------------
\* Nothing is stranded.  A debt is handed over three times: from the row to the
\* resolution, from the resolution to the update, from the update to the user's
\* row; the giver lets go only when the taker has it.
HandedOver ==
    /\ \A b \in Bets : Owed(b) => RowToCome(BetEvent[b]) \/ Downstream(b)
    /\ \A b \in Bets : bet[b] # "PENDING" /\ Owed(b) => UpdateInTransit(b)

\* An update that a bet needs stays in transit until it has reached the user's row.
LEMMA UpdateStays ==
  ASSUME TypeInv, ResultInv, [Next]_vars, NEW b \in Bets,
         Owed(b), applied'[b] = 0, UpdateInTransit(b)
  PROVE  \/ updQ'[UpdateMsg(b)] > 0
         \/ \E h \in Updaters : /\ updaterPc'[h] \in {"locked", "marked"}
                                 /\ handling'[h] = UpdateMsg(b)
<1> DEFINE M == UpdateMsg(b)
           Goal == \/ updQ'[M] > 0
                   \/ \E h \in Updaters : updaterPc'[h] \in {"locked", "marked"} /\ handling'[h] = M
<1>0. M \in Msg /\ M.bet = b
  BY UpdateMsgType
<1>a. \/ updQ[M] > 0
      \/ \E h \in Updaters : updaterPc[h] \in {"locked", "marked"} /\ handling[h] = M
  BY DEF UpdateInTransit
<1> HIDE DEF M
<1> USE DEF TypeInv, TypeOK, AtWork
<1> USE DEF relay, relayVars, resolver, resolverVars, updater, updaterVars, userVars
<1>1. ASSUME UNCHANGED <<updQ, updaterPc, handling>> PROVE Goal
  BY <1>1, <1>a
<1>2. ASSUME NEW w \in Resolvers, NEW c \in Bets, ResolverPublish(w, c) PROVE Goal
  BY <1>0, <1>2, <1>a, UpdateMsgType DEF ResolverPublish
<1>3. ASSUME NEW h \in Updaters, NEW m \in Msg, UpdaterTake(h, m) PROVE Goal
  BY <1>0, <1>3, <1>a DEF UpdaterTake
<1>4. ASSUME NEW h \in Updaters, UpdaterMark(h) PROVE Goal
  BY <1>4, <1>a DEF UpdaterMark
<1>5. ASSUME NEW h \in Updaters, UpdaterApply(h) PROVE Goal
  <2>1. handling[h] # M
    <3>1. applied'[handling[h].bet] # 0
      BY <1>5, HandlerServes DEF UpdaterApply
    <3>2. QED BY <1>0, <3>1
  <2>2. QED BY <1>5, <1>a, <2>1 DEF UpdaterApply
<1>6. ASSUME NEW h \in Updaters, UpdaterAck(h) \/ UpdaterUnlock(h) PROVE Goal
  BY <1>6, <1>a DEF UpdaterAck, UpdaterUnlock, UpdaterDone
<1>7. ASSUME NEW w \in Resolvers, ResolverFail(w) PROVE Goal
  <2>1. updQ'[M] \in {updQ[M], updQ[M] + 1} /\ UNCHANGED <<updaterPc, handling>>
    BY <1>0, <1>7 DEF ResolverFail
  <2>2. QED BY <1>0, <1>a, <2>1
<1>8. ASSUME NEW h \in Updaters, UpdaterFail(h) PROVE Goal
  <2>1. updQ' = [updQ EXCEPT ![handling[h]] = @ + 1]
    BY <1>8 DEF UpdaterFail
  <2>2. \A g \in Updaters \ {h} : updaterPc'[g] = updaterPc[g] /\ handling'[g] = handling[g]
    BY <1>8 DEF UpdaterFail, UpdaterDone
  <2>3. QED BY <1>0, <1>a, <2>1, <2>2
<1>9. ASSUME Crash PROVE Goal
  <2> DEFINE S == {h \in Updaters : updaterPc[h] \in {"locked", "marked", "applied"}
                                    /\ handling[h] = M}
  <2>1. updQ'[M] = updQ[M] + Cardinality(S)
    BY <1>0, <1>9 DEF Crash
  <2>2. IsFiniteSet(S)
    BY FS_Subset
  <2>3. Cardinality(S) \in Nat /\ (S # {} => Cardinality(S) # 0)
    BY <2>2, FS_CardinalityType, FS_EmptySet
  <2>4. updQ[M] > 0 \/ S # {}
    BY <1>a
  <2> HIDE DEF S
  <2>5. QED BY <1>0, <2>1, <2>3, <2>4
<1>10. Goal
  BY <1>1, <1>2, <1>3, <1>4, <1>5, <1>6, <1>7, <1>8, <1>9
     DEF Next, vars, FinishEvent, CancelEvent, EndEvent, CommitBet, RelayStep, RelayRead, RelayPublish,
         RelayMark, ResolverRead, ResolverStep, ResolverMarkLost, ResolverAck, UpdaterStep, LockExpire,
         FaultStep, RelayPublishFail
<1>11. QED BY <1>10 DEF M

\* A resolution that will find the bet stays in transit until the update is.
LEMMA ResolutionStays ==
  ASSUME TypeInv, ResultInv, [Next]_vars, NEW b \in Bets,
         Owed(b), ResolutionInTransit(b)
  PROVE  \/ updQ'[UpdateMsg(b)] > 0
         \/ \E h \in Updaters : /\ updaterPc'[h] \in {"locked", "marked"}
                                 /\ handling'[h] = UpdateMsg(b)
         \/ ResolutionInTransit(b)'
<1> DEFINE M    == UpdateMsg(b)
           e    == BetEvent[b]
           Goal == \/ updQ'[M] > 0
                   \/ \E h \in Updaters : updaterPc'[h] \in {"locked", "marked"} /\ handling'[h] = M
                   \/ ResolutionInTransit(b)'
<1>0. /\ M \in Msg /\ M.bet = b /\ e \in Events /\ bet[b] = "PENDING"
      /\ result[e] # "open" /\ M.action # "lost"
  BY UpdateMsgType DEF ResolutionInTransit, Owed
<1>a. \/ resQ[e] > 0
      \/ \E w \in Resolvers : resolverPc[w] # "idle" /\ resolving[w] = e /\ b \in pending[w]
  BY DEF ResolutionInTransit
<1> USE DEF TypeInv, TypeOK, AtWork, ResolutionInTransit
<1> USE DEF relay, relayVars, resolver, resolverVars, updater, updaterVars, userVars
<1>1. ASSUME UNCHANGED <<resQ, resolverPc, resolving, pending, bet>> PROVE Goal
  BY <1>0, <1>1, <1>a
<1>2. ASSUME NEW r \in Relays, NEW row \in Rows, RelayPublish(r, row) PROVE Goal
  BY <1>0, <1>2, <1>a DEF RelayPublish
<1>3. ASSUME NEW w \in Resolvers, NEW d \in Events, ResolverRead(w, d) PROVE Goal
  <2>1. CASE d = e
    <3>1. resolverPc'[w] # "idle" /\ resolving'[w] = e /\ b \in pending'[w] /\ bet'[b] = "PENDING"
      BY <1>0, <1>3, <2>1 DEF ResolverRead
    <3>2. QED BY <3>1
  <2>2. CASE d # e
    <3>1. resQ'[e] = resQ[e] /\ bet' = bet /\ resolverPc[w] = "idle"
      BY <1>0, <1>3, <2>2 DEF ResolverRead
    <3>2. \A v \in Resolvers \ {w} : /\ resolverPc'[v] = resolverPc[v]
                                    /\ resolving'[v] = resolving[v] /\ pending'[v] = pending[v]
      BY <1>3 DEF ResolverRead
    <3>3. QED BY <1>0, <1>a, <3>1, <3>2
  <2>3. QED BY <2>1, <2>2
<1>4. ASSUME NEW w \in Resolvers, ResolverMarkLost(w) PROVE Goal
  <2>1. bet'[b] = "PENDING"
    <3>1. CASE resolving[w] = e
      <4>1. result[e] \in Sides
        BY <1>4, <3>1 DEF ResolverMarkLost, ResultInv, OnlyEnded
      <4>2. Selection[b] = result[e]
        BY <1>0, <4>1, UpdateAction DEF Sides
      <4>3. QED BY <1>0, <1>4, <3>1, <4>2 DEF ResolverMarkLost
    <3>2. CASE resolving[w] # e
      BY <1>0, <1>4, <3>2 DEF ResolverMarkLost
    <3>3. QED BY <3>1, <3>2
  <2>2. /\ UNCHANGED <<resQ, resolving, pending>>
        /\ \A v \in Resolvers : resolverPc[v] # "idle" => resolverPc'[v] # "idle"
    BY <1>4 DEF ResolverMarkLost
  <2>3. QED BY <1>0, <1>a, <2>1, <2>2
<1>5. ASSUME NEW w \in Resolvers, ResolverAck(w) PROVE Goal
  BY <1>0, <1>5, <1>a DEF ResolverAck, ResolverDone
<1>6. ASSUME NEW w \in Resolvers, NEW c \in Bets, ResolverPublish(w, c) PROVE Goal
  <2>1. CASE c = b
    <3>1. updQ'[M] = updQ[M] + 1
      BY <1>0, <1>6, <2>1 DEF ResolverPublish
    <3>2. updQ[M] \in Nat
      BY <1>0
    <3> HIDE DEF M
    <3>3. QED BY <3>1, <3>2
  <2>2. CASE c # b
    <3>1. UNCHANGED <<resQ, resolverPc, resolving, bet>>
      BY <1>6 DEF ResolverPublish
    <3>2. \A v \in Resolvers : b \in pending[v] => b \in pending'[v]
      BY <1>6, <2>2 DEF ResolverPublish
    <3>3. QED BY <1>0, <1>a, <3>1, <3>2
  <2>3. QED BY <2>1, <2>2
<1>7. ASSUME NEW h \in Updaters, UpdaterMark(h) PROVE Goal
  <2>1. CASE handling[h].bet = b
    <3>1. handling[h] = M
      BY <1>7, <2>1 DEF UpdaterMark, ResultInv, RightMessages, Right
    <3>2. updaterPc'[h] = "marked" /\ handling'[h] = M
      BY <1>7, <3>1 DEF UpdaterMark
    <3>3. QED BY <3>2
  <2>2. CASE handling[h].bet # b
    BY <1>0, <1>7, <1>a, <2>2 DEF UpdaterMark
  <2>3. QED BY <2>1, <2>2
<1>8. ASSUME NEW w \in Resolvers, ResolverFail(w) PROVE Goal
  <2>1. /\ resQ' = [resQ EXCEPT ![resolving[w]] = @ + 1] /\ bet' = bet
        /\ \A v \in Resolvers \ {w} : /\ resolverPc'[v] = resolverPc[v]
                                      /\ resolving'[v] = resolving[v] /\ pending'[v] = pending[v]
    BY <1>8 DEF ResolverFail, ResolverDone
  <2>2. resolving[w] = e => resQ'[e] > 0
    BY <1>0, <2>1
  <2>3. resQ[e] > 0 => resQ'[e] > 0
    BY <1>0, <2>1
  <2>4. QED BY <1>0, <1>a, <2>1, <2>2, <2>3
<1>9. ASSUME Crash PROVE Goal
  <2> DEFINE S == {w \in Resolvers : resolverPc[w] # "idle" /\ resolving[w] = e}
  <2>1. resQ'[e] = resQ[e] + Cardinality(S) /\ bet' = bet
    BY <1>0, <1>9 DEF Crash
  <2>2. IsFiniteSet(S)
    BY FS_Subset
  <2>3. Cardinality(S) \in Nat /\ (S # {} => Cardinality(S) # 0)
    BY <2>2, FS_CardinalityType, FS_EmptySet
  <2>4. resQ[e] > 0 \/ S # {}
    BY <1>a
  <2> HIDE DEF S
  <2>5. resQ'[e] > 0
    BY <1>0, <2>1, <2>3, <2>4
  <2>6. QED BY <1>0, <2>1, <2>5
<1>10. ASSUME NEW c \in Bets, CommitBet(c) PROVE Goal
  BY <1>0, <1>10, <1>a DEF CommitBet
<1>11. Goal
  BY <1>1, <1>2, <1>3, <1>4, <1>5, <1>6, <1>7, <1>8, <1>9, <1>10
     DEF Next, vars, FinishEvent, CancelEvent, EndEvent, RelayStep, RelayRead, RelayMark,
         ResolverStep, UpdaterTake, UpdaterStep, UpdaterApply, UpdaterAck,
         UpdaterUnlock, LockExpire, FaultStep, RelayPublishFail, UpdaterFail
<1>12. QED BY <1>11

\* So what is downstream stays downstream.
LEMMA DownstreamStays ==
  ASSUME TypeInv, ResultInv, [Next]_vars, NEW b \in Bets,
         Owed(b), applied'[b] = 0, Downstream(b)
  PROVE  Downstream(b)'
<1>1. UpdateMsg(b)' = UpdateMsg(b)
  BY EndedFrozen DEF Owed, UpdateMsg
<1>2. \/ updQ'[UpdateMsg(b)] > 0
      \/ \E h \in Updaters : /\ updaterPc'[h] \in {"locked", "marked"}
                              /\ handling'[h] = UpdateMsg(b)
      \/ ResolutionInTransit(b)'
  BY UpdateStays, ResolutionStays DEF Downstream
<1>3. QED BY <1>1, <1>2 DEF Downstream, UpdateInTransit

\* No update is undone.
LEMMA AppliedGrows ==
  ASSUME TypeInv, [Next]_vars, NEW b \in Bets, applied'[b] = 0
  PROVE  applied[b] = 0
<1> USE DEF TypeInv, TypeOK
<1>1. CASE UNCHANGED applied
  BY <1>1
<1>2. ASSUME NEW h \in Updaters, UpdaterApply(h) PROVE applied[b] = 0
  <2>1. handling[h].bet \in Bets
    BY <1>2, HandlerServes DEF UpdaterApply
  <2>2. applied' = [applied EXCEPT ![handling[h].bet] = @ + 1]
    BY <1>2 DEF UpdaterApply
  <2>3. QED BY <2>1, <2>2
<1>3. QED
  BY <1>1, <1>2
     DEF Next, vars, userVars, FinishEvent, CancelEvent, EndEvent, CommitBet, RelayStep, RelayRead, RelayPublish,
         RelayMark, ResolverRead, ResolverStep, ResolverMarkLost, ResolverAck, ResolverPublish,
         UpdaterTake, UpdaterStep, UpdaterMark, UpdaterAck, UpdaterUnlock, LockExpire, FaultStep,
         RelayPublishFail, ResolverFail, UpdaterFail, Crash

\* A bet that was missed stays so.
LEMMA MissedGrows ==
  ASSUME TypeInv, [Next]_vars
  PROVE  missed \subseteq missed'
  BY DEF TypeInv, TypeOK, Next, vars, userVars, FinishEvent, CancelEvent, EndEvent, CommitBet, RelayStep,
         RelayRead, RelayPublish, RelayMark, ResolverRead, ResolverStep, ResolverMarkLost,
         ResolverAck, ResolverPublish, UpdaterTake, UpdaterStep, UpdaterMark, UpdaterApply,
         UpdaterAck, UpdaterUnlock, LockExpire, FaultStep, RelayPublishFail, ResolverFail,
         UpdaterFail, Crash

\* A debt arises for a pending bet: when its event ends, with a fresh row, or when it
\* is committed while a resolution is to come.
LEMMA DebtArises ==
  ASSUME TypeInv, ResultInv, [Next]_vars, NEW b \in Bets, Owed(b)', ~Owed(b)
  PROVE  /\ bet'[b] = "PENDING"
         /\ RowToCome(BetEvent[b])' \/ resQ'[BetEvent[b]] > 0
<1> USE DEF TypeInv, TypeOK, vars, relay, resolverVars, relayVars
<1> DEFINE e    == BetEvent[b]
           Goal == /\ bet'[b] = "PENDING"
                   /\ RowToCome(e)' \/ resQ'[e] > 0
<1>1. applied[b] = 0
  BY AppliedGrows DEF Owed
<1>2. ASSUME bet[b] = "placing" PROVE Goal
  <2>1. ASSUME NEW c \in Bets, CommitBet(c) PROVE Goal
    <3>1. c = b
      BY <1>2, <2>1 DEF CommitBet, Owed
    <3>2. ResolutionToCome(e)
      BY <2>1, <3>1 DEF CommitBet, Owed
    <3>3. /\ bet'[b] = "PENDING" /\ UNCHANGED <<result, outbox, sent, resQ>>
      BY <2>1, <3>1 DEF CommitBet
    <3>4. QED BY <3>2, <3>3 DEF ResolutionToCome, RowToCome, Owed
  <2>2. bet'[b] = "PENDING"
    BY <1>2, PlacingStep DEF Owed
  <2>3. \E c \in Bets : CommitBet(c)
    BY <1>2, <2>2
       DEF Next, FinishEvent, CancelEvent, EndEvent, RelayStep, RelayRead, RelayPublish, RelayMark,
           ResolverRead, ResolverStep, ResolverMarkLost, ResolverAck, ResolverPublish, UpdaterTake,
           UpdaterStep, UpdaterMark, UpdaterApply, UpdaterAck, UpdaterUnlock, LockExpire, FaultStep,
           RelayPublishFail, ResolverFail, UpdaterFail, Crash
  <2>4. QED BY <2>1, <2>3
<1>3. ASSUME bet[b] # "placing" PROVE Goal
  <2>1. b \notin missed
    BY MissedGrows DEF Owed
  <2>2. result[e] = "open" /\ result'[e] # "open"
    <3>1. CASE result[e] # "open"
      BY <1>1, <1>3, <2>1, <3>1, EndedFrozen DEF Owed, UpdateMsg
    <3>2. QED BY <3>1 DEF Owed
  <2>3. /\ bet[b] = "PENDING"
        /\ \A r \in Relays : \A row \in sent[r] : RowEvent[row] # e
    BY <1>3, <2>2 DEF ResultInv, SettledByResult, OnlyEnded, Sides
  <2>4. ASSUME NEW d \in Events, NEW how \in Results, EndEvent(d, how) PROVE Goal
    <3>1. /\ result' = [result EXCEPT ![d] = how] /\ UNCHANGED <<sent, bet>>
          /\ \E row \in Rows : /\ RowEvent[row] = d
                               /\ outbox' = [outbox EXCEPT ![row] = "unprocessed"]
      BY <2>4, EndEventRow
    <3>2. d = e
      BY <2>2, <3>1
    <3>3. QED BY <2>3, <3>1, <3>2 DEF RowToCome
  <2>5. \/ \E d \in Events, side \in Sides : FinishEvent(d, side)
        \/ \E d \in Events : CancelEvent(d)
    BY <2>2
       DEF Next, CommitBet, RelayStep, RelayRead, RelayPublish, RelayMark, ResolverRead,
           ResolverStep, ResolverMarkLost, ResolverAck, ResolverPublish, UpdaterTake, UpdaterStep,
           UpdaterMark, UpdaterApply, UpdaterAck, UpdaterUnlock, LockExpire, FaultStep,
           RelayPublishFail, ResolverFail, UpdaterFail, Crash
  <2>6. QED BY <2>4, <2>5 DEF FinishEvent, CancelEvent, Results
<1>4. QED BY <1>2, <1>3

\* A handler that gives a bet its status keeps the update it is for.
LEMMA SettledInTransit ==
  ASSUME TypeInv, ResultInv, HandedOver, [Next]_vars, NEW b \in Bets,
         Owed(b), Owed(b)', bet'[b] # "PENDING"
  PROVE  UpdateInTransit(b)'
<1> USE DEF TypeInv, TypeOK, AtWork
<1>1. UpdateMsg(b)' = UpdateMsg(b)
  BY EndedFrozen DEF Owed, UpdateMsg
<1>2. CASE bet[b] # "PENDING"
  <2>1. UpdateInTransit(b) /\ applied'[b] = 0
    BY <1>2 DEF HandedOver, Owed
  <2>2. QED BY <1>1, <2>1, UpdateStays DEF UpdateInTransit
<1>3. CASE bet[b] = "PENDING"
  <2>1. ASSUME NEW w \in Resolvers, ResolverMarkLost(w) PROVE FALSE
    <3>1. bet'[b] = "LOST"
      BY <1>3, <2>1 DEF ResolverMarkLost
    <3>2. UpdateMsg(b).action = "lost"
      BY <1>3, <3>1, BetStep, UpdateMsgType DEF Msg, Actions
    <3>3. QED BY <3>2 DEF Owed
  <2>2. ASSUME NEW h \in Updaters, UpdaterMark(h) PROVE UpdateInTransit(b)'
    <3>1. handling[h].bet = b
      BY <1>3, <2>2 DEF UpdaterMark
    <3>2. handling[h] = UpdateMsg(b)
      BY <2>2, <3>1 DEF UpdaterMark, ResultInv, RightMessages, Right
    <3>3. updaterPc'[h] = "marked" /\ handling'[h] = UpdateMsg(b)
      BY <2>2, <3>2 DEF UpdaterMark, updater
    <3>4. QED BY <1>1, <3>3 DEF UpdateInTransit
  <2>3. \/ \E w \in Resolvers : ResolverMarkLost(w)
        \/ \E h \in Updaters : UpdaterMark(h)
    BY <1>3
       DEF Next, vars, FinishEvent, CancelEvent, EndEvent, CommitBet, RelayStep, RelayRead, RelayPublish,
           RelayMark, ResolverRead, ResolverStep, ResolverAck, ResolverPublish, UpdaterTake, UpdaterStep,
           UpdaterApply, UpdaterAck, UpdaterUnlock, LockExpire, FaultStep, RelayPublishFail,
           ResolverFail, UpdaterFail, Crash
  <2>4. QED BY <2>1, <2>2, <2>3
<1>4. QED BY <1>2, <1>3

\* The relay lets go of a row only when its message is downstream.
LEMMA RelayHandsOver ==
  ASSUME TypeInv, ResultInv, HandedOver, [Next]_vars, NEW b \in Bets, Owed(b), Owed(b)'
  PROVE  RowToCome(BetEvent[b])' \/ Downstream(b)'
<1> USE DEF TypeInv, TypeOK
<1> DEFINE e == BetEvent[b]
<1>1. CASE Downstream(b)
  BY <1>1, DownstreamStays DEF Owed
<1>2. CASE ~Downstream(b)
  <2>1. bet[b] = "PENDING" /\ RowToCome(e)
    BY <1>2 DEF HandedOver, Downstream
  <2>2. PICK row \in Rows : /\ RowEvent[row] = e /\ outbox[row] = "unprocessed"
                            /\ \A r \in Relays : row \notin sent[r]
    BY <2>1 DEF RowToCome
  <2>3. ASSUME outbox'[row] = "unprocessed", \A r \in Relays : row \notin sent'[r]
        PROVE  RowToCome(e)'
    BY <2>2, <2>3 DEF RowToCome
  <2>4. ASSUME NEW r \in Relays, RelayMark(r) PROVE RowToCome(e)'
    <3>1. outbox' = [d \in Rows |-> IF d \in sent[r] THEN "processed" ELSE outbox[d]]
      BY <2>4 DEF RelayMark
    <3>2. \A q \in Relays : sent'[q] \in {{}, sent[q]}
      BY <2>4 DEF RelayMark
    <3>3. QED BY <2>2, <2>3, <3>1, <3>2
  <2>5. ASSUME NEW r \in Relays, NEW d \in Rows, RelayPublish(r, d)
        PROVE  RowToCome(e)' \/ Downstream(b)'
    <3>1. /\ outbox' = outbox /\ bet' = bet
          /\ sent' = [sent EXCEPT ![r] = @ \cup {d}]
          /\ resQ' = [resQ EXCEPT ![RowEvent[d]] = @ + 1]
      BY <2>5 DEF RelayPublish
    <3>2. CASE d = row
      <4>1. resQ'[e] > 0 /\ bet'[b] = "PENDING"
        BY <2>1, <2>2, <3>1, <3>2
      <4>2. QED BY <4>1 DEF Downstream, ResolutionInTransit
    <3>3. CASE d # row
      BY <2>2, <2>3, <3>1, <3>3
    <3>4. QED BY <3>2, <3>3
  <2>6. ASSUME UNCHANGED <<outbox, sent>> PROVE RowToCome(e)'
    BY <2>2, <2>3, <2>6
  <2>7. ASSUME NEW d \in Events, NEW how \in Results, EndEvent(d, how) PROVE RowToCome(e)'
    <3>1. UNCHANGED sent /\ \E x \in Rows : /\ outbox[x] = "none"
                                           /\ outbox' = [outbox EXCEPT ![x] = "unprocessed"]
      BY <2>7, EndEventRow DEF relay
    <3>2. QED BY <2>2, <2>3, <3>1
  <2>8. ASSUME Crash PROVE RowToCome(e)'
    BY <2>2, <2>3, <2>8 DEF Crash
  <2>9. ASSUME \/ \E d \in Events, side \in Sides : FinishEvent(d, side)
               \/ \E d \in Events : CancelEvent(d)
        PROVE  RowToCome(e)'
    BY <2>7, <2>9 DEF FinishEvent, CancelEvent, Results
  <2>10. QED
    BY <2>4, <2>5, <2>6, <2>8, <2>9
       DEF Next, vars, relayVars, relay, CommitBet, RelayStep, RelayRead,
           ResolverRead, ResolverStep, ResolverMarkLost, ResolverAck, ResolverPublish,
           UpdaterTake, UpdaterStep, UpdaterMark, UpdaterApply, UpdaterAck, UpdaterUnlock,
           LockExpire, FaultStep, RelayPublishFail, ResolverFail, UpdaterFail
<1>3. QED BY <1>1, <1>2

\* Every step keeps what was handed over.
LEMMA HandedOverStep ==
  ASSUME TypeInv, ResultInv, HandedOver, [Next]_vars
  PROVE  HandedOver'
<1>1. ASSUME NEW b \in Bets, Owed(b)', Owed(b)
      PROVE  /\ RowToCome(BetEvent[b])' \/ Downstream(b)'
             /\ bet'[b] # "PENDING" => UpdateInTransit(b)'
  BY <1>1, RelayHandsOver, SettledInTransit
<1>2. ASSUME NEW b \in Bets, Owed(b)', ~Owed(b)
      PROVE  /\ RowToCome(BetEvent[b])' \/ Downstream(b)'
             /\ bet'[b] # "PENDING" => UpdateInTransit(b)'
  BY <1>2, DebtArises DEF Downstream, ResolutionInTransit
<1>3. QED BY <1>1, <1>2 DEF HandedOver

\* At the start nothing is owed.
LEMMA HandedOverInit == Init => HandedOver
  BY DEF Init, HandedOver, Owed

\* Whatever crashes, rejected publishes and failed statements there were, a
\* payout or refund that is owed still has a row, a message or a handler that
\* will bring it about (outbox.service.ts:20-65 and the acknowledgements of the
\* two consumers).
THEOREM NothingStranded == Spec => []NeverStranded
<1>1. HandedOver => NeverStranded
  BY DEF HandedOver, NeverStranded
<1>2. QED BY TypeInvariant, ResultInvariant, HandedOverInit, HandedOverStep, <1>1, PTL DEF Spec

-----------------------------------------------------------------------------
\* Exactly once.  While no message is delivered twice, the update of each bet is in one
\* place at a time; so is its event, as long as it has bets to settle: ended again
\* later, it finds none.

\* Nothing is delivered twice: no fault but a lock that expires early, and no placement
\* under way when the model starts.
Exact == Faults \subseteq {"expiry"} /\ Late = {}

\* The message of a row has been published, or that of some row of the event; a
\* resolution is at work on the event; bets of it are to settle, and none is touched.
RowSent(row)  == outbox[row] = "processed" \/ \E r \in Relays : row \in sent[r]
Published(e)  == \E row \in Rows : RowEvent[row] = e /\ RowSent(row)
WorksOn(w, e) == resolverPc[w] # "idle" /\ resolving[w] = e
Open(e)       == \E b \in Bets : BetEvent[b] = e /\ bet[b] = "PENDING"
Untouched(e)  ==
    /\ Open(e)
    /\ \/ ~Published(e) \/ resQ[e] > 0
       \/ \E w \in Resolvers : WorksOn(w, e) /\ resolverPc[w] = "marking"

\* A row is with one relay, and there is one of each event with bets to settle.
RowOnce ==
    /\ \A r \in Relays :
        /\ \A row \in todo[r] \cup sent[r] : outbox[row] = "unprocessed"
        /\ todo[r] \cap sent[r] = {}
        /\ relayPc[r] = "idle" => todo[r] = {} /\ sent[r] = {}
    /\ \A q, r \in Relays : relayPc[q] # "idle" /\ relayPc[r] # "idle" => q = r
    /\ \A x, y \in Rows : /\ outbox[x] # "none" /\ outbox[y] # "none"
                          /\ RowEvent[x] = RowEvent[y] /\ Open(RowEvent[x])
                         => x = y

\* An event with bets to settle is in its row, in the queue, or with one resolution.
ResolutionOnce ==
    /\ \A e \in Events : Open(e) /\ resQ[e] > 0 => Published(e) /\ resQ[e] = 1
    /\ \A w \in Resolvers : resolverPc[w] # "idle" =>
          /\ Published(resolving[w])
          /\ Open(resolving[w]) => resQ[resolving[w]] = 0
          /\ \A v \in Resolvers : WorksOn(v, resolving[w]) => v = w
          /\ \A b \in pending[w] : BetEvent[b] = resolving[w]
          /\ resolverPc[w] = "marking" => \A b \in Bets : BetEvent[b] = resolving[w] => b \in pending[w]

EventOnce == RowOnce /\ ResolutionOnce

\* A bet's update is in one place: unsent, in the queue, with one handler, or applied.
Unsent(b) ==
    \/ bet[b] = "PENDING" /\ (~Published(BetEvent[b]) \/ resQ[BetEvent[b]] > 0)
    \/ \E w \in Resolvers : resolverPc[w] # "idle" /\ b \in pending[w]
Holds(h, b) == updaterPc[h] \in {"locked", "marked"} /\ handling[h].bet = b
Held(b)     == \E h \in Updaters : Holds(h, b)
Queued(b)   == updQ[UpdateMsg(b)] > 0

OneUpdate(b) ==
    /\ Unsent(b) \/ Queued(b) \/ Held(b) \/ applied[b] > 0
    /\ Queued(b) => ~Unsent(b) /\ ~Held(b) /\ applied[b] = 0 /\ updQ[UpdateMsg(b)] = 1
    /\ Held(b) => ~Unsent(b) /\ applied[b] = 0
    /\ applied[b] > 0 => ~Unsent(b) /\ applied[b] = 1
    /\ \A g, h \in Updaters : Holds(g, b) /\ Holds(h, b) => g = h

\* The status of a bet goes with the place of its update.
InStep(b) ==
    /\ bet[b] # "placing"
    /\ Untouched(BetEvent[b]) => bet[b] = "PENDING"
    /\ ~Untouched(BetEvent[b]) /\ UpdateMsg(b).action = "lost" => bet[b] = "LOST"
    /\ applied[b] > 0 => bet[b] # "PENDING"
    /\ \A h \in Updaters : Holds(h, b) /\ updaterPc[h] = "marked" => bet[b] # "PENDING"

OnceInv == EventOnce /\ \A b \in Bets : OneUpdate(b) /\ InStep(b)

\* No fault but an early expiry, and no late commit, is left.
LEMMA ExactStep ==
  ASSUME Exact, TypeInv, \A b \in Bets : bet[b] # "placing"
  PROVE  ~FaultStep /\ \A b \in Bets : ~CommitBet(b)
  BY DEF Exact, FaultStep, RelayPublishFail, ResolverFail, UpdaterFail, Crash, Fault, CommitBet

\* A bet that is not pending any more does not become so again.
LEMMA PendingBefore ==
  ASSUME TypeInv, ResultInv, [Next]_vars, \A b \in Bets : bet[b] # "placing"
  PROVE  /\ \A b \in Bets : bet'[b] = "PENDING" => bet[b] = "PENDING"
         /\ \A e \in Events : Open(e)' => Open(e)
<1>1. \A b \in Bets : bet'[b] = "PENDING" => bet[b] = "PENDING"
  BY BetStep
<1>2. QED BY <1>1 DEF Open

\* Without a fault, an event is ended again only when its bets are settled.
LEMMA EndedAgain ==
  ASSUME Exact, NEW e \in Events, NEW how, EndEvent(e, how)
  PROVE  result[e] = "open" \/ ~Open(e)
  BY DEF Exact, EndEvent, Fault, Unsettled, Open

\* A row is published by one step, and stays so.
LEMMA RowOnceStep ==
  ASSUME Exact, TypeInv, ResultInv, RowOnce, [Next]_vars, ~FaultStep,
         \A b \in Bets : bet[b] # "placing"
  PROVE  /\ RowOnce'
         /\ \A row \in Rows : RowSent(row)' <=> RowSent(row) \/ \E r \in Relays : RelayPublish(r, row)
<1> USE DEF TypeInv, TypeOK, RowOnce, RowSent
<1> USE DEF relay, relayVars, resolver, resolverVars, updater, updaterVars, userVars
<1> DEFINE Sent == \A row \in Rows :
                     RowSent(row)' <=> RowSent(row) \/ \E r \in Relays : RelayPublish(r, row)
           Goal == RowOnce' /\ Sent
<1>0. \A e \in Events : Open(e)' => Open(e)
  BY PendingBefore
<1>a. ASSUME UNCHANGED sent, NEW r \in Relays, NEW row \in Rows, RelayPublish(r, row) PROVE FALSE
  BY <1>a DEF RelayPublish
<1>1. ASSUME UNCHANGED <<relayPc, outbox, sent, todo>> PROVE Goal
  BY <1>0, <1>1, <1>a
<1>2. ASSUME NEW e \in Events, NEW how \in Results, EndEvent(e, how) PROVE Goal
  <2>1. PICK x \in Rows : /\ RowEvent[x] = e /\ outbox[x] = "none" /\ UNCHANGED relay
                          /\ outbox' = [outbox EXCEPT ![x] = "unprocessed"]
    BY <1>2, EndEventRow
  <2>2. Sent
    BY <1>a, <2>1
  <2>3. Open(e)' => \A y \in Rows : RowEvent[y] = e => outbox[y] = "none"
    BY <1>0, <1>2, EndedAgain DEF ResultInv, OnlyEnded
  <2>4. ASSUME NEW y \in Rows, NEW z \in Rows, outbox'[y] # "none", outbox'[z] # "none",
               RowEvent[y] = RowEvent[z], Open(RowEvent[y])'
        PROVE  y = z
    <3>1. CASE RowEvent[y] = e
      <4>1. outbox[y] = "none" /\ outbox[z] = "none"
        BY <2>3, <2>4, <3>1 DEF Open
      <4>2. QED BY <2>1, <2>4, <4>1
    <3>2. CASE RowEvent[y] # e
      BY <1>0, <2>1, <2>4, <3>2
    <3>3. QED BY <3>1, <3>2
  <2>5. /\ \A r \in Relays : \A row \in todo[r] \cup sent[r] : outbox'[row] = "unprocessed"
        /\ UNCHANGED relay
    BY <2>1
  <2>6. RowOnce'
    BY <2>4, <2>5
  <2>7. QED BY <2>2, <2>6
<1>3. ASSUME NEW r \in Relays, RelayRead(r) PROVE Goal
  <2>1. \A q \in Relays : relayPc[q] = "idle"
    BY <1>3 DEF RelayRead, Fault, Exact
  <2>2. /\ relayPc' = [relayPc EXCEPT ![r] = "publishing"] /\ UNCHANGED <<outbox, sent>>
        /\ \E batch \in SUBSET {row \in Rows : outbox[row] = "unprocessed"} :
             todo' = [todo EXCEPT ![r] = batch]
    BY <1>3 DEF RelayRead
  <2>3. QED BY <1>0, <1>a, <2>1, <2>2
<1>4. ASSUME NEW r \in Relays, RelayMark(r) PROVE Goal
  <2>1. /\ relayPc[r] = "publishing" /\ relayPc' = [relayPc EXCEPT ![r] = "idle"]
        /\ todo[r] = {} /\ UNCHANGED todo /\ sent' = [sent EXCEPT ![r] = {}]
        /\ outbox' = [row \in Rows |-> IF row \in sent[r] THEN "processed" ELSE outbox[row]]
    BY <1>4 DEF RelayMark
  <2>2. \A q \in Relays : q # r => relayPc[q] = "idle" /\ sent[q] = {} /\ todo[q] = {}
    BY <2>1
  <2>3. \A row \in Rows : RowSent(row)' <=> RowSent(row)
    BY <2>1, <2>2
  <2>4. ASSUME NEW q \in Relays, NEW row \in Rows, RelayPublish(q, row) PROVE FALSE
    BY <2>1, <2>2, <2>4 DEF RelayPublish
  <2>5. RowOnce'
    BY <1>0, <2>1, <2>2
  <2>6. QED BY <2>3, <2>4, <2>5
<1>5. ASSUME NEW r \in Relays, NEW d \in Rows, RelayPublish(r, d) PROVE Goal
  <2>1. /\ todo' = [todo EXCEPT ![r] = @ \ {d}] /\ sent' = [sent EXCEPT ![r] = @ \cup {d}]
        /\ d \in todo[r] /\ outbox' = outbox /\ relayPc' = relayPc
    BY <1>5 DEF RelayPublish
  <2>2. RowOnce'
    BY <1>0, <2>1
  <2>3. \A row \in Rows : RowSent(row)' <=> RowSent(row) \/ row = d
    BY <2>1
  <2>4. ASSUME NEW row \in Rows, NEW q \in Relays, RelayPublish(q, row) PROVE row = d
    <3>1. row \in todo[q] /\ todo' = [todo EXCEPT ![q] = @ \ {row}]
      BY <2>4 DEF RelayPublish
    <3>2. row \notin todo'[q] /\ row \in todo[q]
      BY <3>1
    <3>3. QED BY <2>1, <3>2
  <2>5. QED BY <1>5, <2>2, <2>3, <2>4
<1>6. QED
  BY <1>1, <1>2, <1>3, <1>4, <1>5
     DEF Next, vars, FinishEvent, CancelEvent, Results, CommitBet, RelayStep, ResolverRead, ResolverStep,
         ResolverMarkLost, ResolverAck, ResolverPublish, UpdaterTake, UpdaterStep, UpdaterMark,
         UpdaterApply, UpdaterAck, UpdaterUnlock, LockExpire

\* So an event is published by publishing a row of it.
LEMMA PublishedStep ==
  ASSUME Exact, TypeInv, ResultInv, RowOnce, [Next]_vars, ~FaultStep,
         \A b \in Bets : bet[b] # "placing", NEW e \in Events
  PROVE  Published(e)' <=> \/ Published(e)
                           \/ \E r \in Relays, row \in Rows : RowEvent[row] = e /\ RelayPublish(r, row)
  BY RowOnceStep DEF Published

\* The row of an event with bets to settle is published once.
LEMMA FirstPublish ==
  ASSUME TypeInv, RowOnce, NEW r \in Relays, NEW row \in Rows, RelayPublish(r, row)
  PROVE  /\ RowEvent[row] \in Events
         /\ Open(RowEvent[row]) => ~Published(RowEvent[row])
<1>1. row \in todo[r] /\ outbox[row] = "unprocessed" /\ relayPc[r] # "idle"
  BY DEF RelayPublish, RowOnce
<1>2. ASSUME NEW y \in Rows, RowEvent[y] = RowEvent[row], RowSent(y), Open(RowEvent[row]) PROVE FALSE
  <2>1. outbox[y] # "none"
    BY <1>2 DEF RowSent, RowOnce
  <2>2. y = row
    BY <1>1, <1>2, <2>1 DEF RowOnce
  <2>3. PICK q \in Relays : row \in sent[q]
    BY <1>1, <1>2, <2>2 DEF RowSent
  <2>4. q = r
    BY <1>1, <2>3 DEF RowOnce
  <2>5. QED BY <1>1, <2>3, <2>4 DEF RowOnce
<1>3. QED BY <1>2 DEF Published

\* A resolution is queued once, taken once, and works on all bets of its event.
LEMMA ResolutionOnceStep ==
  ASSUME Exact, TypeInv, ResultInv, EventOnce, [Next]_vars, ~FaultStep,
         \A b \in Bets : bet[b] # "placing",
         \A b \in Bets : Untouched(BetEvent[b]) => bet[b] = "PENDING"
  PROVE  ResolutionOnce'
<1> USE DEF TypeInv, TypeOK, AtWork
<1> USE DEF relay, relayVars, resolver, resolverVars
<1>0. \A e \in Events : Open(e)' => Open(e)
  BY PendingBefore
<1>1. \A e \in Events : Published(e) => Published(e)'
  BY PublishedStep DEF EventOnce
<1>2. ResolutionOnce
  BY DEF EventOnce
<1>3. ASSUME UNCHANGED <<resQ, resolving, pending>>,
             \A w \in Resolvers : /\ resolverPc'[w] = "idle" <=> resolverPc[w] = "idle"
                                  /\ resolverPc'[w] = "marking" => resolverPc[w] = "marking"
      PROVE  ResolutionOnce'
  BY <1>0, <1>1, <1>2, <1>3 DEF ResolutionOnce, WorksOn
<1>4. ASSUME NEW r \in Relays, NEW row \in Rows, RelayPublish(r, row) PROVE ResolutionOnce'
  <2> DEFINE d == RowEvent[row]
  <2>1. d \in Events /\ (Open(d) => ~Published(d))
    BY <1>4, FirstPublish DEF EventOnce
  <2>2. resQ' = [resQ EXCEPT ![d] = @ + 1] /\ UNCHANGED resolver
    BY <1>4 DEF RelayPublish
  <2>3. Open(d) => resQ[d] = 0 /\ \A w \in Resolvers : ~WorksOn(w, d)
    BY <1>2, <2>1 DEF ResolutionOnce, WorksOn
  <2>4. Published(d)'
    BY <1>4, <2>1, PublishedStep DEF EventOnce
  <2> HIDE DEF d
  <2>5. \A e \in Events : Open(e)' /\ resQ'[e] > 0 => Published(e)' /\ resQ'[e] = 1
    BY <1>0, <1>1, <1>2, <2>1, <2>2, <2>3, <2>4 DEF ResolutionOnce
  <2>6. \A w \in Resolvers : resolverPc[w] # "idle" =>
           /\ Published(resolving[w])'
           /\ Open(resolving[w])' => resQ'[resolving[w]] = 0
    BY <1>0, <1>1, <1>2, <2>1, <2>2, <2>3, <2>4 DEF ResolutionOnce, WorksOn
  <2>7. QED BY <1>2, <2>2, <2>5, <2>6 DEF ResolutionOnce, WorksOn
<1>5. ASSUME NEW w \in Resolvers, NEW e \in Events, ResolverRead(w, e) PROVE ResolutionOnce'
  <2> DEFINE rows == {b \in Bets : BetEvent[b] = e /\ bet[b] = "PENDING"}
  <2>1. /\ resQ[e] > 0 /\ resolverPc[w] = "idle"
        /\ resQ' = [resQ EXCEPT ![e] = @ - 1] /\ UNCHANGED relayVars
    BY <1>5 DEF ResolverRead
  <2>2. Open(e) => /\ resQ[e] = 1 /\ Published(e)
                   /\ \A v \in Resolvers : ~WorksOn(v, e)
    BY <1>2, <2>1 DEF ResolutionOnce, WorksOn
  <2>3. rows # {} => Open(e) /\ rows = {b \in Bets : BetEvent[b] = e}
    <3>1. rows # {} => Open(e)
      BY DEF Open
    <3>2. Open(e) => Untouched(e)
      BY <2>1 DEF Untouched
    <3>3. QED BY <3>1, <3>2
  <2>4. \A d \in Events : Published(d)' <=> Published(d)
    BY <2>1 DEF Published, RowSent
  <2>5. \A d \in Events : Open(d)' /\ resQ'[d] > 0 => Published(d)' /\ resQ'[d] = 1
    BY <1>0, <1>2, <2>1, <2>2, <2>4 DEF ResolutionOnce
  <2>6. CASE UNCHANGED resolver
    <3>1. \A v \in Resolvers : resolverPc[v] # "idle" /\ Open(e) => resolving[v] # e
      BY <2>2 DEF WorksOn
    <3>2. QED BY <1>0, <1>2, <2>1, <2>4, <2>5, <2>6, <3>1 DEF ResolutionOnce, WorksOn
  <2>7. CASE ~UNCHANGED resolver
    <3>0. rows # {}
      BY <1>5, <2>7 DEF ResolverRead
    <3>1. /\ resolverPc'[w] # "idle" /\ resolving'[w] = e /\ pending'[w] = rows
          /\ \A v \in Resolvers \ {w} : /\ resolverPc'[v] = resolverPc[v]
                                        /\ resolving'[v] = resolving[v] /\ pending'[v] = pending[v]
      BY <1>5, <2>7 DEF ResolverRead
    <3>a. rows = {b \in Bets : BetEvent[b] = e} /\ Open(e)
      BY <2>3, <3>0
    <3> HIDE DEF rows
    <3>2. \A v \in Resolvers : WorksOn(v, e)' => v = w
      BY <2>2, <3>1, <3>a DEF WorksOn
    <3>3. ASSUME NEW v \in Resolvers \ {w}, resolverPc'[v] # "idle"
          PROVE  /\ Published(resolving[v])' /\ (Open(resolving[v])' => resQ'[resolving'[v]] = 0)
                 /\ \A u \in Resolvers : WorksOn(u, resolving[v])' => u = v
                 /\ \A b \in pending'[v] : BetEvent[b] = resolving'[v]
                 /\ resolverPc'[v] = "marking" =>
                      \A b \in Bets : BetEvent[b] = resolving'[v] => b \in pending'[v]
      <4>1. resolverPc[v] # "idle" /\ resolving'[v] = resolving[v] /\ resolving[v] # e
        BY <2>2, <3>1, <3>3, <3>a DEF WorksOn
      <4>2. QED BY <1>0, <1>2, <2>1, <2>4, <3>1, <3>3, <4>1 DEF ResolutionOnce, WorksOn
    <3>4. Published(resolving[w])' /\ resQ'[resolving'[w]] = 0
      BY <2>1, <2>2, <2>4, <3>1, <3>a
    <3>5. /\ \A b \in pending'[w] : BetEvent[b] = resolving'[w]
          /\ \A b \in Bets : BetEvent[b] = resolving'[w] => b \in pending'[w]
      BY <3>1, <3>a
    <3>6. QED BY <2>5, <3>1, <3>2, <3>3, <3>4, <3>5 DEF ResolutionOnce
  <2>8. QED BY <2>6, <2>7
<1>6. ASSUME NEW w \in Resolvers, ResolverAck(w) PROVE ResolutionOnce'
  BY <1>0, <1>1, <1>2, <1>6 DEF ResolutionOnce, WorksOn, ResolverAck, ResolverDone
<1>7. ASSUME NEW w \in Resolvers, NEW b \in Bets, ResolverPublish(w, b) PROVE ResolutionOnce'
  BY <1>0, <1>1, <1>2, <1>7 DEF ResolutionOnce, WorksOn, ResolverPublish
<1>8. ASSUME NEW w \in Resolvers, ResolverMarkLost(w) PROVE ResolutionOnce'
  BY <1>3, <1>8 DEF ResolverMarkLost
<1>9. QED
  BY <1>3, <1>4, <1>5, <1>6, <1>7, <1>8
     DEF Next, vars, FinishEvent, CancelEvent, EndEvent, CommitBet, RelayStep, RelayRead, RelayMark, ResolverStep,
         UpdaterTake, UpdaterStep, UpdaterMark, UpdaterApply, UpdaterAck, UpdaterUnlock, LockExpire

\* The update of a bet is unsent until the step that publishes it.
LEMMA UnsentStep ==
  ASSUME Exact, TypeInv, ResultInv, EventOnce, [Next]_vars, ~FaultStep, NEW b \in Bets,
         \A c \in Bets : bet[c] # "placing", OneUpdate(b)
  PROVE  /\ Unsent(b)' <=> Unsent(b) /\ ~\E w \in Resolvers : ResolverPublish(w, b)
         /\ \A w \in Resolvers : ResolverPublish(w, b) => Unsent(b) /\ ~Unsent(b)'
<1> USE DEF TypeInv, TypeOK, AtWork
<1> USE DEF relay, relayVars, resolver, resolverVars
<1> DEFINE e    == BetEvent[b]
           Goal == /\ Unsent(b)' <=> Unsent(b) /\ ~\E w \in Resolvers : ResolverPublish(w, b)
                   /\ \A w \in Resolvers : ResolverPublish(w, b) => Unsent(b) /\ ~Unsent(b)'
<1>0. e \in Events /\ (bet[b] = "PENDING" => Open(e))
  BY DEF Open
<1>1. Published(e)' <=> \/ Published(e)
                        \/ \E r \in Relays, row \in Rows : RowEvent[row] = e /\ RelayPublish(r, row)
  BY <1>0, PublishedStep DEF EventOnce
<1>2. ResolutionOnce
  BY DEF EventOnce
<1>3. ASSUME UNCHANGED <<resQ, pending>>,
             \A w \in Resolvers : resolverPc'[w] = "idle" <=> resolverPc[w] = "idle"
      PROVE  /\ ~\E w \in Resolvers : ResolverPublish(w, b)
             /\ Published(e)' <=> Published(e)
  <2>1. ASSUME NEW r \in Relays, NEW row \in Rows, RowEvent[row] = e, RelayPublish(r, row) PROVE FALSE
    BY <1>0, <1>3, <2>1 DEF RelayPublish
  <2>2. ASSUME NEW w \in Resolvers, ResolverPublish(w, b) PROVE FALSE
    BY <1>3, <2>2 DEF ResolverPublish, Publishable, Losing
  <2>3. QED BY <1>1, <2>1, <2>2
<1>a. ASSUME UNCHANGED <<resQ, pending>>, bet'[b] = bet[b],
             \A w \in Resolvers : resolverPc'[w] = "idle" <=> resolverPc[w] = "idle"
      PROVE  Goal
  BY <1>3, <1>a DEF Unsent
<1>4. ASSUME NEW r \in Relays, NEW row \in Rows, RelayPublish(r, row) PROVE Goal
  <2>1. /\ resQ' = [resQ EXCEPT ![RowEvent[row]] = @ + 1] /\ UNCHANGED <<resolver, bet>>
        /\ ~(\E w \in Resolvers : ResolverPublish(w, b))
    BY <1>4 DEF RelayPublish, ResolverPublish, Publishable, Losing
  <2>2. RowEvent[row] \in Events /\ (Open(RowEvent[row]) => ~Published(RowEvent[row]))
    BY <1>4, FirstPublish DEF EventOnce
  <2>3. CASE RowEvent[row] = e
    BY <1>0, <2>1, <2>2, <2>3 DEF Unsent
  <2>4. CASE RowEvent[row] # e
    <3>1. ASSUME NEW q \in Relays, NEW x \in Rows, RowEvent[x] = e, RelayPublish(q, x) PROVE FALSE
      <4>1. resQ'[e] = resQ[e] + 1
        BY <1>0, <3>1 DEF RelayPublish
      <4>2. resQ'[e] = resQ[e]
        BY <2>1, <2>4
      <4>3. QED BY <1>0, <4>1, <4>2
    <3>2. QED BY <1>1, <2>1, <2>4, <3>1 DEF Unsent
  <2>5. QED BY <2>3, <2>4
<1>5. ASSUME NEW w \in Resolvers, NEW d \in Events, ResolverRead(w, d) PROVE Goal
  <2>1. /\ resQ[d] > 0 /\ resolverPc[w] = "idle" /\ bet' = bet
        /\ resQ' = [resQ EXCEPT ![d] = @ - 1] /\ UNCHANGED relayVars
    BY <1>5 DEF ResolverRead
  <2>2. ~(\E v \in Resolvers : ResolverPublish(v, b)) /\ (Published(e)' <=> Published(e))
    BY <2>1 DEF ResolverPublish, Published, RowSent
  <2>3. CASE d = e /\ bet[b] = "PENDING"
    <3>1. resolverPc'[w] # "idle" /\ b \in pending'[w]
      BY <1>5, <2>3 DEF ResolverRead
    <3>2. Unsent(b)
      BY <2>1, <2>3 DEF Unsent
    <3>3. QED BY <2>2, <3>1, <3>2 DEF Unsent
  <2>4. CASE ~(d = e /\ bet[b] = "PENDING")
    <3>1. bet[b] = "PENDING" => resQ'[e] = resQ[e]
      BY <2>1, <2>4
    <3>2. \A v \in Resolvers : resolverPc'[v] # "idle" /\ b \in pending'[v]
                                 <=> resolverPc[v] # "idle" /\ b \in pending[v]
      BY <1>5, <2>1, <2>4 DEF ResolverRead
    <3>3. QED BY <2>1, <2>2, <3>1, <3>2 DEF Unsent
  <2>5. QED BY <2>3, <2>4
<1>6. ASSUME NEW w \in Resolvers, ResolverAck(w) PROVE Goal
  <2>1. ~(\E v \in Resolvers : ResolverPublish(v, b)) /\ UNCHANGED <<outbox, sent, resQ, bet>>
    BY <1>6 DEF ResolverAck, ResolverPublish, ResolverDone, updaterVars
  <2>2. QED BY <1>6, <2>1 DEF Unsent, Published, RowSent, ResolverAck, ResolverDone
<1>7. ASSUME NEW w \in Resolvers, NEW c \in Bets, ResolverPublish(w, c) PROVE Goal
  <2>1. /\ resolverPc[w] # "idle" /\ c \in pending[w] /\ pending' = [pending EXCEPT ![w] = @ \ {c}]
        /\ UNCHANGED <<resQ, resolverPc, outbox, sent, bet>>
    BY <1>7 DEF ResolverPublish, Publishable, Losing
  <2>2. \A v \in Resolvers, a \in Bets : ResolverPublish(v, a) => a = c
    BY <2>1 DEF ResolverPublish, Publishable, Losing
  <2>3. CASE c = b
    <3>1. WorksOn(w, e) /\ Published(e) /\ (Open(e) => resQ[e] = 0)
      BY <1>2, <2>1, <2>3 DEF ResolutionOnce, WorksOn
    <3>2. \A v \in Resolvers : resolverPc[v] # "idle" /\ b \in pending[v] => v = w
      BY <1>2, <2>1, <3>1 DEF ResolutionOnce, WorksOn
    <3>3. Unsent(b) /\ ~Unsent(b)'
      BY <1>0, <2>1, <2>3, <3>1, <3>2 DEF Unsent, Published, RowSent
    <3>4. QED BY <1>7, <2>3, <3>3
  <2>4. CASE c # b
    BY <2>1, <2>2, <2>4 DEF Unsent, Published, RowSent
  <2>5. QED BY <2>3, <2>4
<1>8. ASSUME NEW w \in Resolvers, ResolverMarkLost(w) PROVE Goal
  <2>1. /\ resolverPc[w] = "marking" /\ UNCHANGED <<resQ, pending>>
        /\ \A v \in Resolvers : resolverPc'[v] = "idle" <=> resolverPc[v] = "idle"
    BY <1>8 DEF ResolverMarkLost
  <2>2. CASE bet'[b] = bet[b]
    BY <1>a, <2>1, <2>2
  <2>3. CASE bet'[b] # bet[b]
    <3>1. e = resolving[w]
      BY <1>8, <2>3 DEF ResolverMarkLost
    <3>2. b \in pending[w]
      BY <1>2, <2>1, <3>1 DEF ResolutionOnce
    <3>3. QED BY <1>3, <2>1, <3>2 DEF Unsent
  <2>4. QED BY <2>2, <2>3
<1>9. ASSUME NEW h \in Updaters, UpdaterMark(h) PROVE Goal
  <2>1. UNCHANGED <<resQ, pending, resolverPc>> /\ updaterPc[h] = "locked"
        /\ (bet'[b] # bet[b] => handling[h].bet = b /\ bet'[b] # "PENDING")
    BY <1>9 DEF UpdaterMark
  <2>2. CASE bet'[b] = bet[b]
    BY <1>a, <2>1, <2>2
  <2>3. CASE bet'[b] # bet[b]
    <3>1. ~Unsent(b)
      BY <2>1, <2>3 DEF OneUpdate, Held, Holds
    <3>2. ~Unsent(b)'
      BY <2>1, <2>3, <3>1 DEF Unsent
    <3>3. QED BY <1>3, <2>1, <3>1, <3>2
  <2>4. QED BY <2>2, <2>3
<1>10. QED
  BY <1>a, <1>4, <1>5, <1>6, <1>7, <1>8, <1>9
     DEF Next, vars, FinishEvent, CancelEvent, EndEvent, CommitBet, RelayStep, RelayRead, RelayMark, ResolverStep,
         UpdaterTake, UpdaterStep, UpdaterApply, UpdaterAck, UpdaterUnlock, LockExpire

\* The message of a bet whose event has ended is settled too.
LEMMA UpdateMsgStays ==
  ASSUME TypeInv, [Next]_vars, NEW b \in Bets, result[BetEvent[b]] # "open"
  PROVE  UpdateMsg(b)' = UpdateMsg(b)
  BY EndedFrozen DEF UpdateMsg

\* A queued or handled update is the one the bet has; an applied one is of an ended event.
LEMMA UpdateIsRight ==
  ASSUME TypeInv, ResultInv, NEW b \in Bets, InStep(b)
  PROVE  /\ Queued(b) \/ Held(b) \/ applied[b] > 0 => result[BetEvent[b]] # "open"
         /\ \A m \in Msg : updQ[m] > 0 /\ m.bet = b => m = UpdateMsg(b)
         /\ \A h \in Updaters : Holds(h, b) => handling[h] = UpdateMsg(b)
<1>1. \A m \in Msg : updQ[m] > 0 /\ m.bet = b => m = UpdateMsg(b) /\ result[BetEvent[b]] # "open"
  BY DEF ResultInv, RightMessages, Right
<1>2. \A h \in Updaters : Holds(h, b) => handling[h] = UpdateMsg(b) /\ result[BetEvent[b]] # "open"
  BY DEF ResultInv, RightMessages, Right, Holds
<1>3. ASSUME applied[b] > 0 PROVE result[BetEvent[b]] # "open"
  BY <1>3 DEF InStep, ResultInv, SettledByResult, TypeInv, TypeOK, Sides
<1>4. Queued(b) => result[BetEvent[b]] # "open"
  BY <1>1, UpdateMsgType DEF Queued
<1>5. QED BY <1>1, <1>2, <1>3, <1>4 DEF Held

\* An update goes from one place to the next.
LEMMA OneUpdateStep ==
  ASSUME Exact, TypeInv, ResultInv, EventOnce, [Next]_vars, ~FaultStep, NEW b \in Bets,
         \A c \in Bets : bet[c] # "placing", OneUpdate(b), InStep(b)
  PROVE  OneUpdate(b)'
<1> USE DEF TypeInv, TypeOK, AtWork
<1> USE DEF updater, updaterVars, userVars
<1> DEFINE M == UpdateMsg(b)
<1>0. M \in Msg /\ M.bet = b /\ updQ[M] \in Nat /\ applied[b] \in Nat
  BY UpdateMsgType
<1>1. /\ Unsent(b)' <=> Unsent(b) /\ ~\E w \in Resolvers : ResolverPublish(w, b)
      /\ \A w \in Resolvers : ResolverPublish(w, b) => Unsent(b) /\ ~Unsent(b)'
  BY UnsentStep
<1>2. /\ Queued(b) \/ Held(b) \/ applied[b] > 0 => result[BetEvent[b]] # "open"
      /\ \A m \in Msg : updQ[m] > 0 /\ m.bet = b => m = M
      /\ \A h \in Updaters : Holds(h, b) => handling[h] = M
  BY UpdateIsRight
<1>3. result[BetEvent[b]] # "open" => UpdateMsg(b)' = M
  BY UpdateMsgStays
<1>4. UpdateMsg(b)' \in Msg /\ UpdateMsg(b)'.bet = b
  BY <1>0, UpdateMsgType, TypeInvStep DEF UpdateMsg, Msg, Actions
<1> HIDE DEF M
<1>5. ASSUME ~\E w \in Resolvers : ResolverPublish(w, b),
             \A m \in Msg : m.bet = b => updQ'[m] = updQ[m],
             \A h \in Updaters : Holds(h, b)' <=> Holds(h, b),
             applied'[b] = applied[b]
      PROVE  OneUpdate(b)'
  <2>1. Unsent(b)' <=> Unsent(b)
    BY <1>1, <1>5
  <2>2. Queued(b)' => updQ[UpdateMsg(b)'] > 0
    BY <1>4, <1>5 DEF Queued
  <2>3. Queued(b)' <=> Queued(b)
    BY <1>0, <1>2, <1>3, <1>4, <1>5, <2>2 DEF Queued, M
  <2>4. Queued(b)' => updQ'[UpdateMsg(b)'] = updQ[M]
    BY <1>2, <1>3, <1>4, <1>5, <2>3
  <2>5. Held(b)' <=> Held(b)
    BY <1>5 DEF Held
  <2>6. QED BY <1>5, <2>1, <2>3, <2>4, <2>5 DEF OneUpdate, M
<1>6. ASSUME NEW w \in Resolvers, ResolverPublish(w, b) PROVE OneUpdate(b)'
  <2>1. Unsent(b) /\ ~Unsent(b)'
    BY <1>1, <1>6
  <2>2. ~Queued(b) /\ ~Held(b) /\ applied[b] = 0
    BY <1>0, <2>1 DEF OneUpdate
  <2>3. updQ' = [updQ EXCEPT ![M] = @ + 1] /\ UNCHANGED <<result, updaterPc, handling, applied>>
    BY <1>6 DEF ResolverPublish, M
  <2>4. UpdateMsg(b)' = M /\ updQ'[M] = 1
    BY <1>0, <2>2, <2>3 DEF UpdateMsg, M, Queued
  <2>5. ~Held(b)' /\ applied'[b] = 0
    BY <2>2, <2>3 DEF Held, Holds
  <2>6. QED BY <2>1, <2>4, <2>5 DEF OneUpdate, Queued, Held
<1>7. ASSUME NEW w \in Resolvers, NEW c \in Bets, c # b, ResolverPublish(w, c) PROVE OneUpdate(b)'
  <2>1. \A v \in Resolvers : ~ResolverPublish(v, b)
    BY <1>7 DEF ResolverPublish, Publishable, Losing
  <2>2. \A m \in Msg : m.bet = b => updQ'[m] = updQ[m]
    BY <1>7, UpdateMsgType DEF ResolverPublish
  <2>3. QED BY <1>5, <1>7, <2>1, <2>2 DEF ResolverPublish, Holds
<1>8. ASSUME NEW h \in Updaters, NEW m \in Msg, UpdaterTake(h, m) PROVE OneUpdate(b)'
  <2>1. /\ updQ[m] > 0 /\ updQ' = [updQ EXCEPT ![m] = @ - 1] /\ updaterPc[h] = "idle"
        /\ updaterPc' = [updaterPc EXCEPT ![h] = "locked"] /\ handling' = [handling EXCEPT ![h] = m]
        /\ applied' = applied /\ UNCHANGED <<result, pending>>
    BY <1>8 DEF UpdaterTake, resolverVars, resolver
  <2>2. \A v \in Resolvers : ~ResolverPublish(v, b)
    BY <2>1 DEF ResolverPublish, Publishable, Losing
  <2>3. CASE m.bet = b
    <3>1. m = M /\ Queued(b)
      BY <1>2, <2>1, <2>3 DEF Queued, M
    <3>2. ~Unsent(b) /\ ~Held(b) /\ applied[b] = 0 /\ updQ[M] = 1
      BY <3>1 DEF OneUpdate, M
    <3>3. UpdateMsg(b)' = M /\ updQ'[M] = 0
      BY <1>0, <2>1, <3>1, <3>2 DEF UpdateMsg, M
    <3>4. \A g \in Updaters : Holds(g, b)' <=> g = h
      BY <2>1, <2>3, <3>2 DEF Holds, Held
    <3>5. ~Unsent(b)' /\ ~Queued(b)' /\ applied'[b] = 0
      BY <1>1, <2>1, <3>2, <3>3 DEF Queued
    <3>6. QED BY <3>4, <3>5 DEF OneUpdate, Held
  <2>4. CASE m.bet # b
    BY <1>5, <2>1, <2>2, <2>4 DEF Holds
  <2>5. QED BY <2>3, <2>4
<1>9. ASSUME NEW h \in Updaters, UpdaterApply(h) PROVE OneUpdate(b)'
  <2>1. /\ handling[h].bet \in Bets /\ updaterPc[h] \in {"locked", "marked"}
        /\ applied' = [applied EXCEPT ![handling[h].bet] = @ + 1]
        /\ updaterPc' = [updaterPc EXCEPT ![h] = "applied"]
        /\ UNCHANGED <<result, updQ, handling, pending>>
    BY <1>9, HandlerServes DEF UpdaterApply, resolverVars, resolver
  <2>2. \A v \in Resolvers : ~ResolverPublish(v, b)
    BY <2>1 DEF ResolverPublish, Publishable, Losing
  <2>3. CASE handling[h].bet = b
    <3>1. Holds(h, b) /\ Held(b)
      BY <2>1, <2>3 DEF Holds, Held
    <3>2. ~Unsent(b) /\ ~Queued(b) /\ applied[b] = 0
      BY <3>1 DEF OneUpdate
    <3>3. \A g \in Updaters : ~Holds(g, b)'
      BY <2>1, <3>1 DEF OneUpdate, Holds
    <3>4. ~Unsent(b)' /\ ~Queued(b)' /\ applied'[b] = 1
      BY <1>1, <2>1, <2>3, <3>2 DEF Queued, UpdateMsg
    <3>5. QED BY <3>3, <3>4 DEF OneUpdate, Held
  <2>4. CASE handling[h].bet # b
    BY <1>5, <2>1, <2>2, <2>4 DEF Holds
  <2>5. QED BY <2>3, <2>4
<1>10. ASSUME NEW h \in Updaters, UpdaterMark(h) \/ UpdaterAck(h) \/ UpdaterUnlock(h) PROVE OneUpdate(b)'
  <2>1. /\ UNCHANGED <<updQ, applied, pending>>
        /\ \A v \in Resolvers : ~ResolverPublish(v, b)
    BY <1>10 DEF UpdaterMark, UpdaterAck, UpdaterUnlock, resolverVars, resolver,
                 ResolverPublish, Publishable, Losing
  <2>2. \A g \in Updaters : Holds(g, b)' <=> Holds(g, b)
    BY <1>10 DEF UpdaterMark, UpdaterAck, UpdaterUnlock, UpdaterDone, Holds
  <2>3. QED BY <1>5, <2>1, <2>2
<1>11. ASSUME UNCHANGED <<updQ, applied, updaterPc, handling>> PROVE OneUpdate(b)'
  <2>1. ASSUME NEW w \in Resolvers PROVE ~ResolverPublish(w, b)
    <3>1. ASSUME ResolverPublish(w, b) PROVE FALSE
      <4>1. updQ'[M] = updQ[M] + 1
        BY <1>0, <3>1 DEF ResolverPublish, M
      <4>2. QED BY <1>0, <1>11, <4>1
    <3>2. QED BY <3>1
  <2>2. QED BY <1>5, <1>11, <2>1 DEF Holds
<1>12. QED
  BY <1>6, <1>7, <1>8, <1>9, <1>10, <1>11
     DEF Next, vars, FinishEvent, CancelEvent, EndEvent, CommitBet, RelayStep, RelayRead, RelayPublish, RelayMark,
         ResolverRead, ResolverStep, ResolverMarkLost, ResolverAck, UpdaterStep, LockExpire

\* A handler has a bet only after its resolution has touched it.
LEMMA HeldIsTouched ==
  ASSUME EventOnce, NEW b \in Bets, OneUpdate(b), InStep(b), Held(b) \/ applied[b] > 0
  PROVE  ~Untouched(BetEvent[b])
<1>1. SUFFICES ASSUME Untouched(BetEvent[b]) PROVE FALSE
  OBVIOUS
<1>2. bet[b] = "PENDING" /\ ~Unsent(b)
  BY <1>1 DEF InStep, OneUpdate
<1>3. PICK w \in Resolvers : WorksOn(w, BetEvent[b]) /\ resolverPc[w] = "marking"
  BY <1>1, <1>2 DEF Untouched, Unsent
<1>4. b \in pending[w]
  BY <1>3 DEF EventOnce, ResolutionOnce, WorksOn
<1>5. QED BY <1>2, <1>3, <1>4 DEF Unsent, WorksOn

\* The bets of an event stay touched, and only the bulk update touches those of one
\* that is not cancelled.
LEMMA UntouchedStep ==
  ASSUME Exact, TypeInv, ResultInv, OnceInv, [Next]_vars, ~FaultStep, NEW e \in Events,
         \A b \in Bets : bet[b] # "placing"
  PROVE  /\ Untouched(e)' => Untouched(e)
         /\ Untouched(e) /\ ~Untouched(e)' /\ result[e] # "void" =>
              \E w \in Resolvers : ResolverMarkLost(w) /\ resolving[w] = e
<1> USE DEF TypeInv, TypeOK, AtWork
<1> USE DEF relay, relayVars, resolver, resolverVars
<1> DEFINE Marks == \E w \in Resolvers : ResolverMarkLost(w) /\ resolving[w] = e
           Goal  == /\ Untouched(e)' => Untouched(e)
                    /\ Untouched(e) /\ ~Untouched(e)' /\ result[e] # "void" => Marks
<1>0. Open(e)' => Open(e)
  BY PendingBefore
<1>1. Published(e)' <=> \/ Published(e)
                        \/ \E r \in Relays, row \in Rows : RowEvent[row] = e /\ RelayPublish(r, row)
  BY PublishedStep DEF OnceInv, EventOnce
<1>2. ResolutionOnce
  BY DEF OnceInv, EventOnce
<1>3. ASSUME bet' = bet, resQ'[e] = resQ[e], Published(e)' <=> Published(e),
             \A w \in Resolvers : WorksOn(w, e)' /\ resolverPc'[w] = "marking"
                                    <=> WorksOn(w, e) /\ resolverPc[w] = "marking"
      PROVE  Goal
  BY <1>3 DEF Untouched, Open
<1>4. ASSUME bet' = bet, UNCHANGED <<resQ, resolverPc, resolving>> PROVE Goal
  <2>1. ASSUME NEW r \in Relays, NEW row \in Rows, RowEvent[row] = e, RelayPublish(r, row) PROVE FALSE
    BY <1>4, <2>1 DEF RelayPublish
  <2>2. QED BY <1>1, <1>3, <1>4, <2>1 DEF WorksOn
<1>5. ASSUME NEW r \in Relays, NEW row \in Rows, RelayPublish(r, row) PROVE Goal
  <2>1. resQ' = [resQ EXCEPT ![RowEvent[row]] = @ + 1] /\ UNCHANGED <<resolver, bet>>
    BY <1>5 DEF RelayPublish
  <2>2. RowEvent[row] \in Events /\ (Open(RowEvent[row]) => ~Published(RowEvent[row]))
    BY <1>5, FirstPublish DEF OnceInv, EventOnce
  <2>3. CASE RowEvent[row] = e
    BY <2>1, <2>2, <2>3 DEF Untouched, Open, WorksOn
  <2>4. CASE RowEvent[row] # e
    <3>1. ASSUME NEW q \in Relays, NEW x \in Rows, RowEvent[x] = e, RelayPublish(q, x) PROVE FALSE
      <4>1. resQ'[e] = resQ[e] + 1
        BY <3>1 DEF RelayPublish
      <4>2. resQ'[e] = resQ[e]
        BY <2>1, <2>4
      <4>3. QED BY <4>1, <4>2
    <3>2. QED BY <1>1, <1>3, <2>1, <2>4, <3>1 DEF WorksOn
  <2>5. QED BY <2>3, <2>4
<1>6. ASSUME NEW w \in Resolvers, NEW d \in Events, ResolverRead(w, d) PROVE Goal
  <2>1. /\ resQ[d] > 0 /\ resolverPc[w] = "idle" /\ bet' = bet
        /\ resQ' = [resQ EXCEPT ![d] = @ - 1] /\ UNCHANGED relayVars
    BY <1>6 DEF ResolverRead
  <2>2. Published(e)' <=> Published(e)
    BY <2>1 DEF Published, RowSent
  <2>3. CASE d = e
    <3>1. Open(e) => Untouched(e)
      BY <2>1, <2>3 DEF Untouched
    <3>2. ASSUME Open(e), result[e] # "void" PROVE Untouched(e)'
      <4>1. result[e] \in Sides
        BY <2>1, <2>3, <3>2 DEF ResultInv, OnlyEnded, Results
      <4>2. WorksOn(w, e)' /\ resolverPc'[w] = "marking"
        BY <1>6, <2>3, <3>2, <4>1 DEF ResolverRead, WorksOn, Open
      <4>3. QED BY <2>1, <3>2, <4>2 DEF Untouched, Open
    <3>3. QED BY <1>0, <3>1, <3>2 DEF Untouched
  <2>4. CASE d # e
    <3>1. resQ'[e] = resQ[e]
      BY <2>1, <2>4
    <3>2. \A v \in Resolvers : WorksOn(v, e)' /\ resolverPc'[v] = "marking"
                                 <=> WorksOn(v, e) /\ resolverPc[v] = "marking"
      BY <1>6, <2>1, <2>4 DEF ResolverRead, WorksOn
    <3>3. QED BY <1>3, <2>1, <2>2, <3>1, <3>2
  <2>5. QED BY <2>3, <2>4
<1>7. ASSUME NEW w \in Resolvers, ResolverAck(w) \/ \E b \in Bets : ResolverPublish(w, b) PROVE Goal
  <2>1. /\ resolverPc[w] = "publishing" /\ resolverPc'[w] # "marking" /\ UNCHANGED <<outbox, sent, resQ, bet>>
        /\ \A v \in Resolvers \ {w} : resolverPc'[v] = resolverPc[v] /\ resolving'[v] = resolving[v]
    BY <1>7 DEF ResolverAck, ResolverPublish, ResolverDone
  <2>2. Published(e)' <=> Published(e)
    BY <2>1 DEF Published, RowSent
  <2>3. QED BY <1>3, <2>1, <2>2 DEF WorksOn
<1>8. ASSUME NEW w \in Resolvers, ResolverMarkLost(w) PROVE Goal
  <2>1. /\ resolverPc[w] = "marking" /\ resolverPc' = [resolverPc EXCEPT ![w] = "publishing"]
        /\ UNCHANGED <<outbox, sent, resQ, resolving>>
        /\ \A b \in Bets : BetEvent[b] # resolving[w] => bet'[b] = bet[b]
    BY <1>8 DEF ResolverMarkLost
  <2>2. Published(e)' <=> Published(e)
    BY <2>1 DEF Published, RowSent
  <2>3. CASE resolving[w] = e
    <3>1. Untouched(e)' => Untouched(e)
      BY <1>0, <2>1, <2>2 DEF Untouched, WorksOn
    <3>2. QED BY <1>8, <2>3, <3>1
  <2>4. CASE resolving[w] # e
    <3>1. Open(e)' <=> Open(e)
      BY <2>1, <2>4 DEF Open
    <3>2. QED BY <2>1, <2>2, <2>4, <3>1 DEF Untouched, WorksOn
  <2>5. QED BY <2>3, <2>4
<1>9. ASSUME NEW h \in Updaters, UpdaterMark(h) PROVE Goal
  <2>1. /\ updaterPc[h] = "locked" /\ UNCHANGED <<resQ, resolverPc, resolving>>
        /\ \A b \in Bets : b # handling[h].bet => bet'[b] = bet[b]
    BY <1>9 DEF UpdaterMark
  <2>2. CASE BetEvent[handling[h].bet] = e
    <3>1. handling[h].bet \in Bets /\ Held(handling[h].bet)
      BY <2>1, HandlerServes DEF Held, Holds
    <3>2. ~Untouched(e)
      BY <2>2, <3>1, HeldIsTouched DEF OnceInv
    <3>3. ASSUME NEW r \in Relays, NEW row \in Rows, RowEvent[row] = e, RelayPublish(r, row) PROVE FALSE
      BY <2>1, <3>3 DEF RelayPublish
    <3>4. ~Untouched(e)'
      BY <1>0, <1>1, <2>1, <3>2, <3>3 DEF Untouched, WorksOn
    <3>5. QED BY <3>2, <3>4
  <2>3. CASE BetEvent[handling[h].bet] # e
    <3>1. Open(e)' <=> Open(e)
      BY <2>1, <2>3 DEF Open
    <3>2. ASSUME NEW r \in Relays, NEW row \in Rows, RowEvent[row] = e, RelayPublish(r, row) PROVE FALSE
      BY <2>1, <3>2 DEF RelayPublish
    <3>3. QED BY <1>1, <2>1, <3>1, <3>2 DEF Untouched, WorksOn
  <2>4. QED BY <2>2, <2>3
<1>10. QED
  BY <1>4, <1>5, <1>6, <1>7, <1>8, <1>9, ExactStep
     DEF Next, vars, FinishEvent, CancelEvent, EndEvent, RelayStep, RelayRead, RelayMark, ResolverStep,
         UpdaterTake, UpdaterStep, UpdaterApply, UpdaterAck, UpdaterUnlock, LockExpire

\* The status of a bet keeps step.
LEMMA InStepStep ==
  ASSUME Exact, TypeInv, ResultInv, OnceInv, [Next]_vars, ~FaultStep, NEW b \in Bets,
         \A c \in Bets : bet[c] # "placing"
  PROVE  InStep(b)'
<1> USE DEF TypeInv, TypeOK, AtWork
<1> DEFINE e == BetEvent[b]
           M == UpdateMsg(b)
<1>0. e \in Events /\ M \in Msg /\ M.bet = b /\ M.action \in Actions
  BY UpdateMsgType DEF Msg
<1>a. EventOnce /\ OneUpdate(b) /\ InStep(b)
  BY DEF OnceInv
<1>b. /\ Untouched(e)' => Untouched(e)
      /\ Untouched(e) /\ ~Untouched(e)' /\ result[e] # "void" =>
           \E w \in Resolvers : ResolverMarkLost(w) /\ resolving[w] = e
  BY <1>0, UntouchedStep
<1>1. bet'[b] # "placing"
  BY CommittedStays DEF InStep
<1>2. bet[b] # "PENDING" => bet'[b] = bet[b]
  BY BetStep, <1>a DEF InStep
<1>3. Untouched(e)' => bet'[b] = "PENDING"
  <2>1. SUFFICES ASSUME Untouched(e)' PROVE bet'[b] = "PENDING"
    OBVIOUS
  <2>2. Untouched(e)
    BY <1>b, <2>1
  <2>3. bet[b] = "PENDING" /\ ~Held(b)
    BY <1>a, <2>2, HeldIsTouched DEF InStep
  <2>4. ASSUME NEW w \in Resolvers, ResolverMarkLost(w) PROVE bet'[b] = "PENDING"
    <3>1. CASE resolving[w] = e
      <4>1. /\ resolverPc[w] = "marking" /\ resolverPc' = [resolverPc EXCEPT ![w] = "publishing"]
            /\ UNCHANGED <<outbox, sent, resQ, resolving>>
        BY <2>4 DEF ResolverMarkLost, relay, relayVars
      <4>2. \A v \in Resolvers : WorksOn(v, e) => v = w
        BY <1>a, <3>1, <4>1 DEF EventOnce, ResolutionOnce, WorksOn
      <4>3. resQ[e] = 0 /\ Published(e)
        BY <1>a, <2>2, <3>1, <4>1 DEF EventOnce, ResolutionOnce, Untouched
      <4>4. QED BY <2>1, <4>1, <4>2, <4>3 DEF Untouched, Published, RowSent, WorksOn
    <3>2. CASE resolving[w] # e
      BY <2>3, <2>4, <3>2 DEF ResolverMarkLost
    <3>3. QED BY <3>1, <3>2
  <2>5. ASSUME NEW h \in Updaters, UpdaterMark(h) PROVE bet'[b] = "PENDING"
    BY <2>3, <2>5 DEF UpdaterMark, Held, Holds
  <2>6. QED
    BY <2>3, <2>4, <2>5
       DEF Next, vars, FinishEvent, CancelEvent, EndEvent, CommitBet, RelayStep, RelayRead, RelayPublish,
           RelayMark, ResolverRead, ResolverStep, ResolverAck, ResolverPublish, UpdaterTake, UpdaterStep,
           UpdaterApply, UpdaterAck, UpdaterUnlock, LockExpire
<1>4. ~Untouched(e)' /\ UpdateMsg(b)'.action = "lost" => bet'[b] = "LOST"
  <2>1. SUFFICES ASSUME ~Untouched(e)', UpdateMsg(b)'.action = "lost" PROVE bet'[b] = "LOST"
    OBVIOUS
  <2>2. ASSUME Untouched(e), result[e] # "void", bet[b] = "PENDING" PROVE bet'[b] = "LOST"
    <3>1. PICK w \in Resolvers : ResolverMarkLost(w) /\ resolving[w] = e
      BY <1>b, <2>1, <2>2
    <3>2. result[e] # "open"
      BY <3>1 DEF ResultInv, OnlyEnded, ResolverMarkLost
    <3>3. M.action = "lost"
      BY <2>1, <3>2, UpdateMsgStays
    <3>4. Selection[b] # result[e]
      BY <1>0, <2>2, <3>3 DEF UpdateMsg
    <3>5. QED BY <2>2, <3>1, <3>4 DEF ResolverMarkLost
  <2>3. CASE result[e] = "open"
    <3>1. bet[b] = "PENDING"
      BY <1>0, <1>a, <2>3 DEF InStep, ResultInv, SettledByResult, Sides
    <3>2. M.action = "lost"
      BY <1>0, <2>3 DEF UpdateMsg, Sides
    <3>3. Untouched(e)
      BY <1>a, <3>1, <3>2 DEF InStep
    <3>4. QED BY <2>2, <2>3, <3>1, <3>3
  <2>4. CASE result[e] # "open"
    <3>1. UpdateMsg(b)' = M /\ M.action = "lost"
      BY <2>1, <2>4, UpdateMsgStays
    <3>2. result[e] # "void"
      BY <3>1 DEF UpdateMsg
    <3>3. CASE ~Untouched(e)
      BY <1>2, <1>a, <3>1, <3>3 DEF InStep
    <3>4. CASE Untouched(e)
      BY <1>a, <2>2, <3>2, <3>4 DEF InStep
    <3>5. QED BY <3>3, <3>4
  <2>5. QED BY <2>3, <2>4
<1>5. ASSUME NEW h \in Updaters, Holds(h, b)', updaterPc'[h] = "marked" PROVE bet'[b] # "PENDING"
  <2>1. CASE Holds(h, b) /\ updaterPc[h] = "marked"
    BY <1>2, <1>a, <2>1 DEF InStep
  <2>2. CASE ~(Holds(h, b) /\ updaterPc[h] = "marked")
    <3>1. UpdaterMark(h) /\ handling[h].bet = b
      BY <1>5, <2>2
         DEF Holds, Next, vars, updater, updaterVars, FinishEvent, CancelEvent, EndEvent, CommitBet, RelayStep,
             RelayRead, RelayPublish, RelayMark, ResolverRead, ResolverStep, ResolverMarkLost,
             ResolverAck, ResolverPublish, UpdaterTake, UpdaterStep, UpdaterMark, UpdaterApply,
             UpdaterAck, UpdaterUnlock, UpdaterDone, LockExpire
    <3>2. QED BY <3>1 DEF UpdaterMark
  <2>3. QED BY <2>1, <2>2
<1>6. applied'[b] > 0 => bet'[b] # "PENDING"
  <2>1. SUFFICES ASSUME applied'[b] > 0 PROVE bet'[b] # "PENDING"
    OBVIOUS
  <2>2. CASE applied[b] > 0
    BY <1>2, <1>a, <2>2 DEF InStep
  <2>3. CASE ~(applied[b] > 0)
    <3>1. PICK h \in Updaters : UpdaterApply(h) /\ handling[h].bet = b
      <4>1. \E h \in Updaters : UpdaterApply(h)
        BY <2>1, <2>3
           DEF Next, vars, userVars, FinishEvent, CancelEvent, EndEvent, CommitBet, RelayStep, RelayRead, RelayPublish,
               RelayMark, ResolverRead, ResolverStep, ResolverMarkLost, ResolverAck, ResolverPublish,
               UpdaterTake, UpdaterStep, UpdaterMark, UpdaterAck, UpdaterUnlock, LockExpire
      <4>2. QED BY <2>1, <2>3, <4>1, ZenonT(30) DEF UpdaterApply
    <3>2. Holds(h, b) /\ bet'[b] = bet[b]
      BY <3>1 DEF UpdaterApply, Holds
    <3>3. handling[h] = M
      BY <1>a, <3>2, UpdateIsRight
    <3>4. CASE updaterPc[h] = "marked"
      BY <1>a, <3>2, <3>4 DEF InStep
    <3>5. CASE updaterPc[h] # "marked"
      <4>1. M.action = "lost"
        BY <3>1, <3>3, <3>5 DEF UpdaterApply
      <4>2. ~Untouched(e)
        BY <1>a, <3>2, HeldIsTouched DEF Held
      <4>3. QED BY <1>a, <3>2, <4>1, <4>2 DEF InStep
    <3>6. QED BY <3>4, <3>5
  <2>4. QED BY <2>2, <2>3
<1>7. QED BY <1>1, <1>3, <1>4, <1>5, <1>6 DEF InStep

\* At the start every event is in its row to be, and nothing is sent.
LEMMA OnceInvInit == Exact /\ Init => OnceInv
<1> SUFFICES ASSUME Exact, Init PROVE OnceInv
  OBVIOUS
<1>1. EventOnce /\ \A e \in Events : ~Published(e)
  BY DEF Init, EventOnce, RowOnce, ResolutionOnce, Published, RowSent
<1>2. \A b \in Bets : Unsent(b) /\ updQ[UpdateMsg(b)] = 0 /\ ~Held(b) /\ applied[b] = 0 /\ bet[b] = "PENDING"
  BY <1>1, UpdateMsgType DEF Init, Unsent, Held, Holds, Exact
<1>3. \A b \in Bets : Untouched(BetEvent[b])
  BY <1>1, <1>2 DEF Untouched, Open
<1>4. QED BY <1>1, <1>2, <1>3 DEF Init, OnceInv, OneUpdate, InStep, Queued, Held, Holds

\* Every step keeps events and updates in one place.
LEMMA OnceInvStep ==
  ASSUME Exact, TypeInv, ResultInv, OnceInv, [Next]_vars
  PROVE  OnceInv' /\ ~FaultStep /\ \A b \in Bets : ~CommitBet(b)
<1>1. \A b \in Bets : bet[b] # "placing"
  BY DEF OnceInv, InStep
<1>2. ~FaultStep /\ \A b \in Bets : ~CommitBet(b)
  BY <1>1, ExactStep
<1>3. RowOnce'
  BY <1>1, <1>2, RowOnceStep DEF OnceInv, EventOnce
<1>4. ResolutionOnce'
  BY <1>1, <1>2, ResolutionOnceStep DEF OnceInv, InStep
<1>5. \A b \in Bets : OneUpdate(b)' /\ InStep(b)'
  BY <1>1, <1>2, OneUpdateStep, InStepStep DEF OnceInv
<1>6. QED BY <1>2, <1>3, <1>4, <1>5 DEF OnceInv, EventOnce

\* So they are in one place in every reachable state.
LEMMA OnceInvariant ==
  ASSUME Exact
  PROVE  Spec => []OnceInv
  BY TypeInvariant, ResultInvariant, OnceInvInit, OnceInvStep, PTL DEF Spec

-----------------------------------------------------------------------------
\* The refinement: an update that reaches the user's row settles the bet.

\* A handler that updates a user's row holds the one update of a bet that has none yet.
LEMMA ApplyIsFirst ==
  ASSUME TypeInv, ResultInv, OnceInv, NEW h \in Updaters, UpdaterApply(h)
  PROVE  /\ handling[h].bet \in Bets /\ applied[handling[h].bet] = 0
         /\ handling[h] = UpdateMsg(handling[h].bet)
         /\ result[BetEvent[handling[h].bet]] # "open"
<1> DEFINE b == handling[h].bet
<1>1. b \in Bets /\ Holds(h, b)
  BY HandlerServes DEF UpdaterApply, Holds
<1>2. OneUpdate(b) /\ InStep(b)
  BY <1>1 DEF OnceInv
<1>3. applied[b] = 0
  BY <1>1, <1>2 DEF OneUpdate, Held
<1>4. handling[h] = UpdateMsg(b) /\ result[BetEvent[b]] # "open"
  BY <1>1, <1>2, UpdateIsRight DEF Held
<1>5. QED BY <1>1, <1>3, <1>4

\* What the message of a bet credits is what the ledger returns for it.
LEMMA CreditIsReturn ==
  ASSUME TypeInv, NEW b \in Bets, result[BetEvent[b]] # "open"
  PROVE  /\ Credit(UpdateMsg(b)) = L!Return(b)
         /\ Gain(UpdateMsg(b)) = L!Return(b) - Amount[b]
<1>1. BetEvent[b] \in Events /\ Selection[b] \in Sides /\ result[BetEvent[b]] \in Results
  BY DEF TypeInv, TypeOK
<1>2. Amount[b] \in Int
  OBVIOUS
<1>3. CASE result[BetEvent[b]] = "void"
  <2>1. L!Return(b) = Amount[b]
    BY <1>1, <1>3 DEF L!Return, Sides
  <2>2. QED BY <1>2, <1>3, <2>1, UpdateAction, UpdateMsgType DEF Credit, Gain
<1>4. CASE Selection[b] = result[BetEvent[b]]
  <2>1. L!Return(b) = Payout(b) /\ result[BetEvent[b]] # "void"
    BY <1>1, <1>4 DEF L!Return, Payout, Sides
  <2>2. QED BY <1>4, <2>1 DEF Credit, Gain, UpdateMsg
<1>5. CASE result[BetEvent[b]] # "void" /\ Selection[b] # result[BetEvent[b]]
  <2>1. L!Return(b) = 0
    BY <1>5 DEF L!Return
  <2>2. QED BY <1>5, <2>1 DEF Credit, Gain, UpdateMsg
<1>6. QED BY <1>3, <1>4, <1>5

\* Settlement starts as an empty ledger.
LEMMA LedgerInitMaps == Init => L!LedgerInit
<1> SUFFICES ASSUME Init PROVE L!LedgerInit
  OBVIOUS
<1>1. {b \in Bets : applied[b] > 0} = {}
  BY DEF Init
<1>2. QED BY <1>1 DEF Init, L!LedgerInit

\* Every step of settlement settles a bet, decides an event, or does nothing the ledger sees.
LEMMA LedgerStepMaps ==
  ASSUME Exact, TypeInv, ResultInv, OnceInv, [Next]_vars
  PROVE  [L!LedgerNext]_(L!ledgerVars)
<1> DEFINE settled == {b \in Bets : applied[b] > 0}
<1> USE DEF TypeInv, TypeOK
<1>1. ASSUME UNCHANGED <<result, applied, balance, profit>> PROVE UNCHANGED L!ledgerVars
  <2>1. settled' = settled
    BY <1>1
  <2>2. QED BY <1>1, <2>1 DEF L!ledgerVars
<1>2. ASSUME NEW e \in Events, NEW how \in Results, EndEvent(e, how)
      PROVE  L!Decide(e, how) \/ UNCHANGED L!ledgerVars
  <2>1. /\ result[e] \in {"open", how} /\ result' = [result EXCEPT ![e] = how]
        /\ UNCHANGED <<applied, balance, profit>>
    BY <1>2 DEF EndEvent, userVars
  <2>2. settled' = settled
    BY <2>1
  <2>3. CASE result[e] = "open"
    BY <2>1, <2>2, <2>3 DEF L!Decide
  <2>4. CASE result[e] = how
    BY <1>1, <2>1, <2>4
  <2>5. QED BY <2>1, <2>3, <2>4
<1>4. ASSUME NEW h \in Updaters, NEW b \in Bets, UpdaterApply(h), handling[h].bet = b PROVE L!Settle(b)
  <2>1. /\ b \in Bets /\ applied[b] = 0 /\ handling[h] = UpdateMsg(b) /\ result[BetEvent[b]] # "open"
    BY <1>4, ApplyIsFirst
  <2>2. /\ balance' = [balance EXCEPT ![BetUser[b]] = @ + Credit(UpdateMsg(b))]
        /\ profit' = [profit EXCEPT ![BetUser[b]] = @ + Gain(UpdateMsg(b))]
        /\ applied' = [applied EXCEPT ![b] = @ + 1] /\ UNCHANGED <<result>>
    BY <1>4, <2>1 DEF UpdaterApply, UserOf
  <2>3. Credit(UpdateMsg(b)) = L!Return(b) /\ Gain(UpdateMsg(b)) = L!Return(b) - Amount[b]
    BY <2>1, CreditIsReturn
  <2>4. L!Return(b) \in Int /\ Amount[b] \in Int /\ BetUser[b] \in Users
    BY <2>1, <2>3, CreditInt, UpdateMsgType
  <2>5. profit' = [profit EXCEPT ![BetUser[b]] = @ + L!Return(b) - Amount[b]]
    BY <2>2, <2>3, <2>4
  <2>6. balance' = [balance EXCEPT ![BetUser[b]] = @ + L!Return(b)]
    BY <2>2, <2>3
  <2>8. b \notin settled /\ settled' = settled \cup {b}
    BY <2>1, <2>2
  <2>9. QED BY <2>1, <2>2, <2>5, <2>6, <2>8 DEF L!Settle
<1>5. \/ UNCHANGED <<result, applied, balance, profit>>
      \/ \E e \in Events, how \in Results : EndEvent(e, how)
      \/ \E h \in Updaters : UpdaterApply(h)
  BY OnceInvStep
     DEF Next, vars, userVars, FinishEvent, CancelEvent, Results, RelayStep, RelayRead, RelayPublish, RelayMark, ResolverRead,
         ResolverStep, ResolverMarkLost, ResolverAck, ResolverPublish, UpdaterTake, UpdaterStep, UpdaterMark,
         UpdaterAck, UpdaterUnlock, LockExpire
<1>6. ASSUME NEW e \in Events, NEW how \in Results, L!Decide(e, how) PROVE L!LedgerNext
  BY <1>6 DEF L!LedgerNext, Results, Sides
<1>8. ASSUME NEW b \in Bets, L!Settle(b) PROVE L!LedgerNext
  BY <1>8 DEF L!LedgerNext
<1>9. ASSUME NEW h \in Updaters, UpdaterApply(h) PROVE L!LedgerNext
  <2>1. PICK b \in Bets : handling[h].bet = b
    BY <1>9, ApplyIsFirst
  <2>2. QED BY <1>4, <1>8, <1>9, <2>1
<1>10. QED BY <1>1, <1>2, <1>5, <1>6, <1>9

\* While nothing is delivered twice, the queues, handlers and locks of settlement are
\* one ledger: an event gets one result, and each of its bets is settled by it at most
\* once, in one step, with the payout and the profit the ledger says.
THEOREM SettlesLikeLedger ==
  ASSUME Exact
  PROVE  Spec => L!LedgerSteps
<1>1. QED
  BY TypeInvariant, ResultInvariant, OnceInvariant, LedgerInitMaps, LedgerStepMaps, PTL
     DEF Spec, L!LedgerSteps

-----------------------------------------------------------------------------
\* The books.  What a user's row has is the sum over the bets whose update has reached it.
Updated(u) == {b \in Bets : BetUser[b] = u /\ applied[b] > 0}

\* What a bet's update adds to the balance and to the profit, and takes from the profit.
CreditOf == [b \in Bets |-> Credit(UpdateMsg(b))]
WonOf    == [b \in Bets |-> IF UpdateMsg(b).action = "won" THEN Payout(b) - Amount[b] ELSE 0]
LostOf   == [b \in Bets |-> IF UpdateMsg(b).action = "lost" THEN Amount[b] ELSE 0]

RowIsSum(u) ==
    /\ IsFiniteSet(Updated(u))
    /\ balance[u] = Sum(CreditOf, Updated(u))
    /\ profit[u] = Sum(WonOf, Updated(u)) - Sum(LostOf, Updated(u))

\* The terms of the sums are numbers.
LEMMA TermsInt ==
  \A b \in Bets : CreditOf[b] \in Int /\ WonOf[b] \in Int /\ LostOf[b] \in Int
<1> SUFFICES ASSUME NEW b \in Bets PROVE CreditOf[b] \in Int /\ WonOf[b] \in Int /\ LostOf[b] \in Int
  OBVIOUS
<1>1. CreditOf[b] \in Int
  BY UpdateMsgType, CreditInt DEF CreditOf
<1>2. Amount[b] \in Int
  OBVIOUS
<1>3. Payout(b) \in Int
  BY PayoutInt
<1>4. QED BY <1>1, <1>2, <1>3 DEF WonOf, LostOf

\* What an update adds or takes does not change once the event has ended.
LEMMA TermsStay ==
  ASSUME TypeInv, [Next]_vars, NEW b \in Bets, result[BetEvent[b]] # "open"
  PROVE  CreditOf'[b] = CreditOf[b] /\ WonOf'[b] = WonOf[b] /\ LostOf'[b] = LostOf[b]
<1>1. UpdateMsg(b)' = UpdateMsg(b)
  BY UpdateMsgStays
<1>2. CreditOf'[b] = Credit(UpdateMsg(b)')
  BY DEF CreditOf, Credit
<1>3. QED BY <1>1, <1>2 DEF CreditOf, WonOf, LostOf

\* The bets in the sums are of ended events.
LEMMA UpdatedEnded ==
  ASSUME TypeInv, ResultInv, OnceInv, NEW u \in Users
  PROVE  \A b \in Updated(u) : b \in Bets /\ result[BetEvent[b]] # "open"
  BY UpdateIsRight DEF Updated, OnceInv

\* So the sums over them stay, too.
LEMMA SumsStay ==
  ASSUME TypeInv, ResultInv, OnceInv, [Next]_vars, NEW u \in Users, IsFiniteSet(Updated(u))
  PROVE  /\ Sum(CreditOf', Updated(u)) = Sum(CreditOf, Updated(u))
         /\ Sum(WonOf', Updated(u)) = Sum(WonOf, Updated(u))
         /\ Sum(LostOf', Updated(u)) = Sum(LostOf, Updated(u))
<1> DEFINE S == Updated(u)
<1>1. \A b \in S : CreditOf'[b] = CreditOf[b] /\ WonOf'[b] = WonOf[b] /\ LostOf'[b] = LostOf[b]
  BY UpdatedEnded, TermsStay
<1>2. IsFiniteSet(S)
  OBVIOUS
<1> HIDE DEF S
<1>3. Sum(CreditOf', S) = Sum(CreditOf, S)
  BY <1>1, <1>2, SumSame
<1>4. Sum(WonOf', S) = Sum(WonOf, S)
  BY <1>1, <1>2, SumSame
<1>5. Sum(LostOf', S) = Sum(LostOf, S)
  BY <1>1, <1>2, SumSame
<1>6. QED BY <1>3, <1>4, <1>5 DEF S

\* The user's rows start at zero, with no update.
LEMMA RowIsSumInit == Init => \A u \in Users : RowIsSum(u)
<1> SUFFICES ASSUME Init, NEW u \in Users PROVE RowIsSum(u)
  OBVIOUS
<1>1. Updated(u) = {} /\ balance[u] = 0 /\ profit[u] = 0
  BY DEF Init, Updated
<1>2. QED BY <1>1, SumEmpty, FS_EmptySet DEF RowIsSum

\* An update adds its term to the sums and to the row; no other step touches either.
LEMMA RowIsSumStep ==
  ASSUME Exact, TypeInv, ResultInv, OnceInv, [Next]_vars, NEW u \in Users, RowIsSum(u)
  PROVE  RowIsSum(u)'
<1>1. /\ IsFiniteSet(Updated(u))
      /\ Sum(CreditOf', Updated(u)) = balance[u]
      /\ Sum(WonOf', Updated(u)) - Sum(LostOf', Updated(u)) = profit[u]
  BY SumsStay DEF RowIsSum
<1>2. \A b \in Bets : result[BetEvent[b]] # "open" =>
        CreditOf'[b] \in Int /\ WonOf'[b] \in Int /\ LostOf'[b] \in Int
  BY TermsInt, TermsStay
<1>3. ASSUME Updated(u)' = Updated(u), balance'[u] = balance[u], profit'[u] = profit[u]
      PROVE  RowIsSum(u)'
  BY <1>1, <1>3 DEF RowIsSum
<1>4. ASSUME NEW h \in Updaters, UpdaterApply(h) PROVE RowIsSum(u)'
  <2>1. PICK b \in Bets : handling[h].bet = b
    BY <1>4, ApplyIsFirst
  <2>2. applied[b] = 0 /\ handling[h] = UpdateMsg(b) /\ result[BetEvent[b]] # "open"
    BY <1>4, <2>1, ApplyIsFirst
  <2>3. /\ balance' = [balance EXCEPT ![BetUser[b]] = @ + Credit(UpdateMsg(b))]
        /\ profit' = [profit EXCEPT ![BetUser[b]] = @ + Gain(UpdateMsg(b))]
        /\ applied' = [applied EXCEPT ![b] = @ + 1] /\ UNCHANGED <<result>>
    BY <1>4, <2>1, <2>2 DEF UpdaterApply, UserOf
  <2>4. CASE BetUser[b] # u
    <3>1. Updated(u)' = Updated(u)
      BY <2>2, <2>3, <2>4 DEF Updated, TypeInv, TypeOK
    <3>2. QED BY <1>3, <2>3, <2>4, <3>1 DEF TypeInv, TypeOK
  <2>5. CASE BetUser[b] = u
    <3> DEFINE S == Updated(u)
    <3>1. b \notin S /\ S \subseteq Bets /\ Updated(u)' = S \cup {b}
      BY <2>2, <2>3, <2>5 DEF Updated, TypeInv, TypeOK
    <3>2. IsFiniteSet(S) /\ IsFiniteSet(S \cup {b})
      BY <1>1, FS_AddElement
    <3>a. \A y \in S : result[BetEvent[y]] # "open"
      BY UpdatedEnded
    <3>b. Sum(CreditOf', S) = balance[u] /\ Sum(WonOf', S) - Sum(LostOf', S) = profit[u]
      BY <1>1
    <3> HIDE DEF S
    <3>3. \A y \in S \cup {b} : CreditOf'[y] \in Int /\ WonOf'[y] \in Int /\ LostOf'[y] \in Int
      BY <1>2, <2>2, <3>1, <3>a
    <3>c. CreditOf'[b] \in Int /\ WonOf'[b] \in Int /\ LostOf'[b] \in Int
      BY <3>3
    <3>4. Sum(CreditOf', S \cup {b}) = CreditOf'[b] + Sum(CreditOf', S)
      BY <3>1, <3>2, <3>3, SumAdd
    <3>5. Sum(WonOf', S \cup {b}) = WonOf'[b] + Sum(WonOf', S)
      BY <3>1, <3>2, <3>3, SumAdd
    <3>6. Sum(LostOf', S \cup {b}) = LostOf'[b] + Sum(LostOf', S)
      BY <3>1, <3>2, <3>3, SumAdd
    <3>7. /\ Sum(CreditOf', S) \in Int /\ Sum(WonOf', S) \in Int /\ Sum(LostOf', S) \in Int
      <4>1. \A y \in S : CreditOf'[y] \in Int /\ WonOf'[y] \in Int /\ LostOf'[y] \in Int
        BY <3>3
      <4>2. Sum(CreditOf', S) \in Int
        BY <3>2, <4>1, SumInt
      <4>3. Sum(WonOf', S) \in Int
        BY <3>2, <4>1, SumInt
      <4>4. Sum(LostOf', S) \in Int
        BY <3>2, <4>1, SumInt
      <4>5. QED BY <4>2, <4>3, <4>4
    <3>8. CreditOf'[b] = Credit(UpdateMsg(b)) /\ WonOf'[b] - LostOf'[b] = Gain(UpdateMsg(b))
      <4>1. CreditOf'[b] = CreditOf[b] /\ WonOf'[b] = WonOf[b] /\ LostOf'[b] = LostOf[b]
        BY <2>2, TermsStay
      <4>2. UpdateMsg(b).action \in Actions /\ UpdateMsg(b).bet = b
        BY UpdateMsgType DEF Msg
      <4>3. Amount[b] \in Int /\ WonOf[b] \in Int
        BY TermsInt
      <4>4. QED BY <4>1, <4>2, <4>3 DEF CreditOf, WonOf, LostOf, Gain, Actions
    <3>9. balance'[u] = balance[u] + Credit(UpdateMsg(b)) /\ profit'[u] = profit[u] + Gain(UpdateMsg(b))
      BY <2>3, <2>5 DEF TypeInv, TypeOK
    <3>10. balance'[u] = Sum(CreditOf', S \cup {b})
      BY <3>b, <3>c, <3>4, <3>7, <3>8, <3>9
    <3>11. profit'[u] = Sum(WonOf', S \cup {b}) - Sum(LostOf', S \cup {b})
      BY <3>b, <3>c, <3>5, <3>6, <3>7, <3>8, <3>9
    <3>12. QED BY <3>1, <3>2, <3>10, <3>11 DEF RowIsSum
  <2>6. QED BY <2>4, <2>5
<1>5. ASSUME UNCHANGED <<applied, balance, profit>> PROVE RowIsSum(u)'
  BY <1>3, <1>5 DEF Updated
<1>6. QED
  BY <1>4, <1>5, OnceInvStep
     DEF Next, vars, userVars, FinishEvent, CancelEvent, EndEvent, RelayStep, RelayRead, RelayPublish, RelayMark,
         ResolverRead, ResolverStep, ResolverMarkLost, ResolverAck, ResolverPublish, UpdaterTake,
         UpdaterStep, UpdaterMark, UpdaterAck, UpdaterUnlock, LockExpire

\* The sums of the bets table, as sums of functions.
PayoutOf == [b \in Bets |-> Payout(b)]
ProfitOf == [b \in Bets |-> Payout(b) - Amount[b]]

\* The payouts of the table.
LEMMA PayoutsSum ==
  ASSUME NEW S \in SUBSET Bets, IsFiniteSet(S)
  PROVE  MapThenSumSet(Payout, S) = Sum(PayoutOf, S)
<1> DEFINE Eq(g) == g = [s \in SUBSET S |-> IF s = {} THEN 0
                           ELSE Payout(Pick(s)) + g[s \ {Pick(s)}]]
           I == CHOOSE g : Eq(g)
<1>1. MapThenSumSet(Payout, S) = I[S]
  BY DEF MapThenSumSet, MapThenFoldSet, Pick
<1>2. ASSUME NEW g PROVE Eq(g) <=> Sums(g, PayoutOf, SUBSET S)
  <2>1. \A s \in SUBSET S : s # {} => PayoutOf[Pick(s)] = Payout(Pick(s))
    BY PickIn DEF PayoutOf
  <2>2. [s \in SUBSET S |-> IF s = {} THEN 0 ELSE Payout(Pick(s)) + g[s \ {Pick(s)}]]
        = [s \in SUBSET S |-> IF s = {} THEN 0 ELSE PayoutOf[Pick(s)] + g[s \ {Pick(s)}]]
    BY <2>1
  <2>3. QED BY <2>2 DEF Sums
<1>3. \E g : Sums(g, PayoutOf, SUBSET S)
  BY SumsExist
<1> HIDE DEF Eq
<1>4. Sums(I, PayoutOf, SUBSET S)
  BY <1>2, <1>3
<1>5. QED BY <1>1, <1>4, SumOfSums

\* The profits of the table.
LEMMA ProfitsSum ==
  ASSUME NEW S \in SUBSET Bets, IsFiniteSet(S)
  PROVE  MapThenSumSet(LAMBDA b : Payout(b) - Amount[b], S) = Sum(ProfitOf, S)
<1> DEFINE Eq(g) == g = [s \in SUBSET S |-> IF s = {} THEN 0
                           ELSE (Payout(Pick(s)) - Amount[Pick(s)]) + g[s \ {Pick(s)}]]
           I == CHOOSE g : Eq(g)
<1>1. MapThenSumSet(LAMBDA b : Payout(b) - Amount[b], S) = I[S]
  BY DEF MapThenSumSet, MapThenFoldSet, Pick
<1>2. ASSUME NEW g PROVE Eq(g) <=> Sums(g, ProfitOf, SUBSET S)
  <2>1. \A s \in SUBSET S : s # {} => ProfitOf[Pick(s)] = (Payout(Pick(s)) - Amount[Pick(s)])
    BY PickIn DEF ProfitOf
  <2>2. [s \in SUBSET S |-> IF s = {} THEN 0 ELSE (Payout(Pick(s)) - Amount[Pick(s)]) + g[s \ {Pick(s)}]]
        = [s \in SUBSET S |-> IF s = {} THEN 0 ELSE ProfitOf[Pick(s)] + g[s \ {Pick(s)}]]
    BY <2>1
  <2>3. QED BY <2>2 DEF Sums
<1>3. \E g : Sums(g, ProfitOf, SUBSET S)
  BY SumsExist
<1> HIDE DEF Eq
<1>4. Sums(I, ProfitOf, SUBSET S)
  BY <1>2, <1>3
<1>5. QED BY <1>1, <1>4, SumOfSums

\* The stakes of the table.
LEMMA AmountsSum ==
  ASSUME NEW S \in SUBSET Bets, IsFiniteSet(S)
  PROVE  MapThenSumSet(LAMBDA b : Amount[b], S) = Sum(Amount, S)
<1> DEFINE I == CHOOSE g : Sums(g, Amount, SUBSET S)
<1>1. MapThenSumSet(LAMBDA b : Amount[b], S) = I[S]
  BY DEF MapThenSumSet, MapThenFoldSet, Sums, Pick
<1>2. QED BY <1>1 DEF Sum

\* When nothing is queued or in progress, the settled bets of a user are those whose
\* update has reached the user's row, each by the result of its event.
LEMMA SettledIsUpdated ==
  ASSUME TypeInv, ResultInv, OnceInv, Quiescent, NEW b \in Bets
  PROVE  /\ applied[b] > 0 <=> bet[b] \in {"WON", "LOST", "CANCELLED"}
         /\ bet[b] = "WON"       => UpdateMsg(b).action = "won"
         /\ bet[b] = "LOST"      => UpdateMsg(b).action = "lost"
         /\ bet[b] = "CANCELLED" => UpdateMsg(b).action = "refund"
<1>1. EventOnce /\ OneUpdate(b) /\ InStep(b)
  BY DEF OnceInv
<1>2. ~Queued(b) /\ ~Held(b) /\ \A w \in Resolvers : resolverPc[w] = "idle"
  BY UpdateMsgType DEF Quiescent, Queued, Held, Holds
<1>3. bet[b] \in {"PENDING", "WON", "LOST", "CANCELLED"} /\ applied[b] \in Nat
  BY <1>1 DEF InStep, TypeInv, TypeOK
<1>4. ASSUME bet[b] # "PENDING" PROVE applied[b] > 0
  <2>1. ~Unsent(b)
    BY <1>2, <1>4 DEF Unsent
  <2>2. QED BY <1>1, <1>2, <2>1 DEF OneUpdate
<1>5. applied[b] > 0 => bet[b] # "PENDING"
  BY <1>1 DEF InStep
<1>6. QED BY <1>3, <1>4, <1>5, UpdateAction DEF ResultInv, SettledByResult, Sides

\* Three disjoint parts.
LEMMA SumOfThree ==
  ASSUME NEW A, NEW B, NEW C, IsFiniteSet(A), IsFiniteSet(B), IsFiniteSet(C),
         A \cap B = {}, A \cap C = {}, B \cap C = {},
         NEW f, \A x \in A \cup B \cup C : f[x] \in Int
  PROVE  Sum(f, A \cup B \cup C) = Sum(f, A) + Sum(f, B) + Sum(f, C)
<1>1. IsFiniteSet(A \cup B)
  BY FS_Union
<1>2. Sum(f, A \cup B) = Sum(f, A) + Sum(f, B)
  BY SumUnion
<1>3. Sum(f, (A \cup B) \cup C) = Sum(f, A \cup B) + Sum(f, C)
  <2>1. (A \cup B) \cap C = {}
    OBVIOUS
  <2>2. QED BY <1>1, <2>1, SumUnion
<1>4. QED BY <1>2, <1>3

\* Then the sums over updates are the sums over the rows of the bets table.
LEMMA QuiescentBooks ==
  ASSUME TypeInv, ResultInv, OnceInv, Quiescent, NEW u \in Users, RowIsSum(u)
  PROVE  balance[u] = TableCredit(u) /\ profit[u] = TableProfit(u)
<1> DEFINE rows(s) == {b \in Bets : BetUser[b] = u /\ bet[b] = s}
           W == rows("WON")
           N == rows("LOST")
           C == rows("CANCELLED")
<1>1. Updated(u) = W \cup N \cup C
  BY SettledIsUpdated DEF Updated
<1>2. IsFiniteSet(W) /\ IsFiniteSet(N) /\ IsFiniteSet(C)
  BY <1>1, FS_Subset DEF RowIsSum
<1>3. W \cap N = {} /\ W \cap C = {} /\ N \cap C = {}
  OBVIOUS
<1>4. W \in SUBSET Bets /\ N \in SUBSET Bets /\ C \in SUBSET Bets
  OBVIOUS
<1>5. /\ \A b \in W : UpdateMsg(b).action = "won"
      /\ \A b \in N : UpdateMsg(b).action = "lost"
      /\ \A b \in C : UpdateMsg(b).action = "refund"
  BY SettledIsUpdated
<1>6. /\ TableCredit(u) = MapThenSumSet(Payout, W) + MapThenSumSet(LAMBDA b : Amount[b], C)
      /\ TableProfit(u) = MapThenSumSet(LAMBDA b : Payout(b) - Amount[b], W)
                            - MapThenSumSet(LAMBDA b : Amount[b], N)
  BY DEF TableCredit, TableProfit
<1> HIDE DEF W, N, C
<1>7. /\ TableCredit(u) = Sum(PayoutOf, W) + Sum(Amount, C)
      /\ TableProfit(u) = Sum(ProfitOf, W) - Sum(Amount, N)
  BY <1>2, <1>4, <1>6, PayoutsSum, ProfitsSum, AmountsSum
<1>8. \A b \in W \cup N \cup C : CreditOf[b] \in Int /\ WonOf[b] \in Int /\ LostOf[b] \in Int
  BY <1>4, TermsInt
<1>9. Sum(CreditOf, W \cup N \cup C) = Sum(CreditOf, W) + Sum(CreditOf, N) + Sum(CreditOf, C)
  BY <1>2, <1>3, <1>8, SumOfThree
<1>10. Sum(WonOf, W \cup N \cup C) = Sum(WonOf, W) + Sum(WonOf, N) + Sum(WonOf, C)
  BY <1>2, <1>3, <1>8, SumOfThree
<1>11. Sum(LostOf, W \cup N \cup C) = Sum(LostOf, W) + Sum(LostOf, N) + Sum(LostOf, C)
  BY <1>2, <1>3, <1>8, SumOfThree
<1>12. /\ \A b \in W : CreditOf[b] = PayoutOf[b] /\ WonOf[b] = ProfitOf[b] /\ LostOf[b] = 0
       /\ \A b \in N : CreditOf[b] = 0 /\ WonOf[b] = 0 /\ LostOf[b] = Amount[b]
       /\ \A b \in C : CreditOf[b] = Amount[b] /\ WonOf[b] = 0 /\ LostOf[b] = 0
  BY <1>4, <1>5, UpdateMsgType DEF CreditOf, WonOf, LostOf, PayoutOf, ProfitOf, Credit
<1>13. Sum(CreditOf, W) = Sum(PayoutOf, W) /\ Sum(CreditOf, N) = 0 /\ Sum(CreditOf, C) = Sum(Amount, C)
  BY <1>2, <1>12, SumSame, SumZero
<1>14. Sum(WonOf, W) = Sum(ProfitOf, W) /\ Sum(WonOf, N) = 0 /\ Sum(WonOf, C) = 0
  BY <1>2, <1>12, SumSame, SumZero
<1>15. Sum(LostOf, W) = 0 /\ Sum(LostOf, N) = Sum(Amount, N) /\ Sum(LostOf, C) = 0
  BY <1>2, <1>12, SumSame, SumZero
<1>16. /\ Sum(CreditOf, W) \in Int /\ Sum(CreditOf, C) \in Int
       /\ Sum(WonOf, W) \in Int /\ Sum(LostOf, N) \in Int
  BY <1>2, <1>8, SumInt
<1>17. /\ balance[u] = Sum(CreditOf, W \cup N \cup C)
       /\ profit[u] = Sum(WonOf, W \cup N \cup C) - Sum(LostOf, W \cup N \cup C)
  BY <1>1 DEF RowIsSum
<1>18. balance[u] = TableCredit(u)
  BY <1>7, <1>9, <1>13, <1>16, <1>17
<1>19. profit[u] = TableProfit(u)
  BY <1>7, <1>10, <1>11, <1>14, <1>15, <1>16, <1>17
<1>20. QED BY <1>18, <1>19

\* While nothing is delivered twice, a user's row has, once everything has been handled,
\* every payout and refund the bets table records, and the profit of all settled bets
\* (bet-update.consumer.ts:151-156, 192-197, 230-234).
THEOREM BooksBalance ==
  ASSUME Exact
  PROVE  Spec => []BooksAgree
<1> DEFINE RowsAreSums == \A u \in Users : RowIsSum(u)
<1>1. Init => RowsAreSums
  BY RowIsSumInit
<1>2. TypeInv /\ ResultInv /\ OnceInv /\ RowsAreSums /\ [Next]_vars => RowsAreSums'
  BY RowIsSumStep
<1>3. TypeInv /\ ResultInv /\ OnceInv /\ RowsAreSums => BooksAgree
  BY QuiescentBooks DEF BooksAgree
<1> HIDE DEF RowsAreSums
<1>4. QED BY TypeInvariant, ResultInvariant, OnceInvariant, <1>1, <1>2, <1>3, PTL DEF Spec
=============================================================================
