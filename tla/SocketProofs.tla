---------------------------- MODULE SocketProofs ----------------------------
(*************************************************************************)
(* What holds of the audit log and of the page for any number of changes,*)
(* handlers and faults.  Every change that has been made is somewhere    *)
(* between its commit and its row (Tracked), a handler that acknowledges *)
(* has written the row (Written), and what a handler has read is at least*)
(* as new as its change (Newer).                                         *)
(*                                                                       *)
(* And of the chat, for any number of widgets, rooms, messages, links and*)
(* failures: a message is stored in the room its sender saw chosen, for  *)
(* what a socket has on its way goes where it was to go (SentInv); and a *)
(* widget shows the messages of its room, for its newest join is in one  *)
(* place and what it is answered tells each of them once (ToldInv).      *)
(*************************************************************************)
EXTENDS BalanceFeed, Chat, FiniteSetTheorems, SequenceTheorems, TLAPS

Made == /\ untold \subseteq 1 .. balance
        /\ audits \subseteq 1 .. balance
        /\ \A h \in Handlers : work[h] # Idle => work[h] \in 1 .. balance
        /\ \A r \in log : r.change \in 1 .. balance

Tracked ==
    \A c \in 1 .. balance :
        \/ c \in untold \cup unheard \cup audits
        \/ \E h \in Handlers : work[h] = c
        \/ Recorded(c)

Written ==
    \A h \in recorded : work[h] # Idle /\ Recorded(work[h])

Newer ==
    /\ \A h \in Handlers : snapshot[h] # Idle => work[h] # Idle /\ snapshot[h] >= work[h]
    /\ SnapshotNotOlder

IInv == TypeOK /\ Made /\ Tracked /\ Written /\ Newer

-----------------------------------------------------------------------------
\* The invariant holds at first.
LEMMA IndInit == Init => IInv
BY BalanceFeedAssumption
   DEF Init, IInv, TypeOK, Made, Tracked, Written, Newer, SnapshotNotOlder, Recorded, Idle, Asked,
       Balances, Changes

\* What neither the backend's variables nor the type of the page's changes.
LEMMA PageStep ==
  ASSUME IInv, UNCHANGED <<balance, untold, unheard, audits, work, snapshot, recorded, log>>
  PROVE  Made' /\ Tracked' /\ Written' /\ Newer'
BY DEF IInv, Made, Tracked, Written, Newer, SnapshotNotOlder, Recorded

\* Every step keeps the types,
LEMMA TypeStep == TypeOK /\ [Next]_vars => TypeOK'
<1> SUFFICES ASSUME TypeOK, [Next]_vars PROVE TypeOK'
  OBVIOUS
<1> USE BalanceFeedAssumption DEF TypeOK, Balances, Changes, Idle, Asked
<1>1. CASE Change
  BY <1>1 DEF Change, page, budget
<1>2. ASSUME NEW c \in Changes, Tell(c) PROVE TypeOK'
  BY <1>2 DEF Tell, page, budget, Fault
<1>3. ASSUME NEW h \in Handlers, NEW c \in Changes, Take(h, c) PROVE TypeOK'
  BY <1>3 DEF Take, page, budget
<1>4. ASSUME NEW h \in Handlers, Read(h) PROVE TypeOK'
  BY <1>4 DEF Read, page, budget
<1>5. ASSUME NEW h \in Handlers, Record(h) PROVE TypeOK'
  BY <1>5 DEF Record, page, budget
<1>6. ASSUME NEW h \in Handlers, Notify(h) \/ HandlerFails(h) PROVE TypeOK'
  <2>1. snapshot[h] # Idle => Append(notices, snapshot[h]) \in Seq(Balances)
    BY AppendProperties
  <2>2. h \in recorded => Append(notices, snapshot[h]) \in Seq(Balances)
    BY <2>1
  <2>3. notices' \in Seq(Balances)
    <3>1. UNCHANGED notices \/ (h \in recorded /\ notices' = Append(notices, snapshot[h]))
      BY <1>6 DEF Notify, HandlerFails
    <3> QED
      BY <3>1, <2>2
  <2>4. /\ work' \in [Handlers -> Changes \cup {Idle}]
        /\ snapshot' \in [Handlers -> Balances \cup {Idle}]
        /\ recorded' \subseteq Handlers
        /\ \A g \in Handlers : snapshot'[g] # Idle => work'[g] # Idle
        /\ \A g \in recorded' : snapshot'[g] # Idle
    BY <1>6 DEF Notify, HandlerFails, Finished
  <2>5. audits' \subseteq Changes
    <3>1. audits' = audits \/ (audits' = audits \cup {work[h]} /\ work[h] # Idle)
      BY <1>6 DEF Notify, HandlerFails
    <3>2. work[h] # Idle => work[h] \in Changes
      OBVIOUS
    <3> QED
      BY <3>1, <3>2
  <2> QED
    BY <1>6, <2>3, <2>4, <2>5 DEF Notify, HandlerFails, Fault, page, budget
<1>7. CASE Push
  <2>1. Tail(notices) \in Seq(Balances) /\ Head(notices) \in Balances
    BY <1>7, HeadTailProperties DEF Push
  <2>2. Append(wire, Head(notices)) \in Seq(Balances)
    BY <2>1, AppendProperties
  <2> QED
    BY <1>7, <2>1, <2>2 DEF Push, budget
<1>8. CASE Receive \/ Drop \/ Join
  <2>1. wire # << >> => Tail(wire) \in Seq(Balances) /\ Head(wire) \in Balances
    BY HeadTailProperties
  <2>2. << >> \in Seq(Balances)
    BY EmptySeq
  <2> QED
    BY <1>8, <2>1, <2>2 DEF Receive, Drop, Join, backend, budget
<1>9. CASE Refresh \/ Answer \/ Show
  BY <1>9 DEF Refresh, Answer, Show, backend, budget
<1>10. CASE UNCHANGED vars
  BY <1>10 DEF vars, backend, page, budget
<1> QED
  BY <1>1, <1>2, <1>3, <1>4, <1>5, <1>6, <1>7, <1>8, <1>9, <1>10 DEF Next, Step

\* and the rest of the invariant.
LEMMA IndStep == IInv /\ [Next]_vars => IInv'
<1> SUFFICES ASSUME IInv, [Next]_vars PROVE IInv'
  OBVIOUS
<1>0. TypeOK /\ TypeOK'
  BY TypeStep DEF IInv
<1> DEFINE Goal == Made /\ Tracked /\ Written /\ Newer
<1> USE DEF Balances, Changes, Idle
<1>1. ASSUME Change PROVE Goal'
  <2>1. balance' = balance + 1 /\ untold' = untold \cup {balance + 1} /\ balance \in Nat
    BY <1>1, <1>0 DEF Change, TypeOK
  <2>2. UNCHANGED <<unheard, audits, work, snapshot, recorded, log>>
    BY <1>1 DEF Change
  <2> QED
    BY <2>1, <2>2, <1>0 DEF IInv, TypeOK, Made, Tracked, Written, Newer, SnapshotNotOlder, Recorded
<1>2. ASSUME NEW c \in Changes, Tell(c) PROVE Goal'
  BY <1>2, <1>0 DEF Tell, IInv, TypeOK, Made, Tracked, Written, Newer, SnapshotNotOlder, Recorded
<1>3. ASSUME NEW h \in Handlers, NEW c \in Changes, Take(h, c) PROVE Goal'
  <2>1. /\ UNCHANGED <<balance, untold, unheard, snapshot, recorded, log>>
        /\ audits' = audits \ {c}
        /\ work' = [work EXCEPT ![h] = c]
        /\ work[h] = Idle /\ c \in audits
    BY <1>3 DEF Take
  <2>2. work'[h] = c /\ \A g \in Handlers : g # h => work'[g] = work[g]
    BY <2>1, <1>0 DEF TypeOK
  <2>3. Made'
    BY <2>1, <2>2, <1>0 DEF IInv, Made, TypeOK
  <2>4. Tracked'
    <3>1. ASSUME NEW d \in 1 .. balance
          PROVE  \/ d \in untold \cup unheard' \cup audits'
                 \/ \E g \in Handlers : work'[g] = d
                 \/ Recorded(d)
      <4>1. \/ d \in untold \cup unheard \cup audits
            \/ \E g \in Handlers : work[g] = d
            \/ Recorded(d)
        BY <1>0 DEF IInv, Tracked
      <4>2. \A g \in Handlers : work[g] = d => g # h
        BY <2>1, <1>0 DEF TypeOK
      <4>3. QED BY <2>1, <2>2, <4>1, <4>2
    <3>2. QED BY <2>1, <3>1 DEF Tracked, Recorded
  <2>5. Written'
    BY <2>1, <2>2, <1>0 DEF IInv, Written, Recorded, TypeOK
  <2>6. Newer'
    BY <2>1, <2>2, <1>0 DEF IInv, Newer, SnapshotNotOlder, TypeOK
  <2> QED
    BY <2>3, <2>4, <2>5, <2>6
<1>4. ASSUME NEW h \in Handlers, Read(h) PROVE Goal'
  BY <1>4, <1>0 DEF Read, IInv, TypeOK, Made, Tracked, Written, Newer, SnapshotNotOlder, Recorded
<1>5. ASSUME NEW h \in Handlers, Record(h) PROVE Goal'
  <2> DEFINE row == [change |-> work[h], balanceAfter |-> snapshot[h]]
  <2>1. log' = log \cup {row} /\ recorded' = recorded \cup {h}
    BY <1>5 DEF Record
  <2>2. UNCHANGED <<balance, untold, unheard, audits, work, snapshot>>
    BY <1>5 DEF Record
  <2>3. work[h] \in 1 .. balance /\ snapshot[h] >= work[h] /\ work[h] # Idle
    BY <1>5 DEF Record, IInv, Newer, Made
  <2>4. row.change = work[h] /\ row.balanceAfter = snapshot[h]
    OBVIOUS
  <2> HIDE DEF row
  <2>5. Made'
    BY <2>1, <2>2, <2>3, <2>4 DEF IInv, Made
  <2>6. Tracked'
    BY <2>1, <2>2 DEF IInv, Tracked, Recorded
  <2>7. Written'
    BY <2>1, <2>2, <2>3, <2>4 DEF IInv, Written, Recorded
  <2>8. Newer'
    BY <2>1, <2>2, <2>3, <2>4 DEF IInv, Newer, SnapshotNotOlder
  <2> QED
    BY <2>5, <2>6, <2>7, <2>8
<1>6. ASSUME NEW h \in Handlers, Notify(h) \/ HandlerFails(h) PROVE Goal'
  <2>1. /\ UNCHANGED <<balance, untold, unheard, log>>
        /\ work' = [work EXCEPT ![h] = Idle]
        /\ snapshot' = [snapshot EXCEPT ![h] = Idle]
        /\ recorded' = recorded \ {h}
    BY <1>6 DEF Notify, HandlerFails, Finished
  <2>2. /\ audits \subseteq audits'
        /\ audits' \subseteq audits \cup {work[h]}
        /\ work[h] # Idle
        /\ work[h] \in audits' \/ Recorded(work[h])
    BY <1>6, <1>0 DEF Notify, HandlerFails, IInv, Written
  <2>3. Made'
    BY <2>1, <2>2, <1>0 DEF IInv, Made, TypeOK
  <2>4. Tracked'
    BY <2>1, <2>2, <1>0 DEF IInv, Tracked, Recorded, TypeOK
  <2>5. Written'
    BY <2>1, <1>0 DEF IInv, Written, Recorded, TypeOK
  <2>6. Newer'
    BY <2>1, <1>0 DEF IInv, Newer, SnapshotNotOlder, TypeOK
  <2> QED
    BY <2>3, <2>4, <2>5, <2>6
<1>7. ASSUME Push \/ Receive \/ Drop \/ Join \/ Refresh \/ Answer \/ Show \/ UNCHANGED vars PROVE Goal'
  BY <1>7, PageStep DEF Push, Receive, Drop, Join, Refresh, Answer, Show, vars, backend
<1>8. Goal'
  BY <1>1, <1>2, <1>3, <1>4, <1>5, <1>6, <1>7 DEF Next, Step
<1> QED
  BY <1>0, <1>8 DEF IInv

-----------------------------------------------------------------------------
\* THEOREM TypeCorrect: every variable keeps its type.
THEOREM TypeCorrect == Spec => []TypeOK
<1>1. Init => TypeOK
  BY IndInit DEF IInv
<1> QED
  BY <1>1, TypeStep, PTL DEF Spec

\* THEOREM AllAudited: once nothing is on its way, every change whose message could
\* be published has its row, and rows are of changes that were made.
THEOREM AllAudited == Spec => []EveryChangeAudited
<1>1. IInv => EveryChangeAudited
  <2> SUFFICES ASSUME IInv PROVE EveryChangeAudited
    OBVIOUS
  <2>1. \A r \in log : r.change <= balance
    BY DEF IInv, Made, TypeOK, Balances
  <2>2. ASSUME LogAtRest, NEW c \in 1 .. balance PROVE c \in unheard \/ Recorded(c)
    <3>1. c # Idle
      BY DEF IInv, TypeOK, Balances, Idle
    <3> QED
      BY <2>2, <3>1 DEF LogAtRest, IInv, Tracked
  <2> QED
    BY <2>1, <2>2 DEF EveryChangeAudited
<1> QED
  BY <1>1, IndInit, IndStep, PTL DEF Spec

\* THEOREM NotOlder: no audit row shows a balance from before its change.
THEOREM NotOlder == Spec => []SnapshotNotOlder
<1>1. IInv => SnapshotNotOlder
  BY DEF IInv, Newer
<1> QED
  BY <1>1, IndInit, IndStep, PTL DEF Spec

-----------------------------------------------------------------------------
\* The page is current.  While messages are handled one by one, what is on its way to
\* the page ends in the balance, or the balance will be read again.

\* One handler at work, at most.
Single == \A g, h \in Handlers : work[g] # Idle /\ work[h] # Idle => g = h

\* The balance will be read once more,
Pending ==
    \/ untold # {} \/ audits # {}
    \/ \E h \in Handlers : work[h] # Idle /\ snapshot[h] = Idle

\* or what was read last, wherever it is on its way to the page, is the balance.
SomeRead == \E h \in Handlers : snapshot[h] # Idle
Newest ==
    IF SomeRead THEN \A h \in Handlers : snapshot[h] # Idle => snapshot[h] = balance
    ELSE IF notices # << >> THEN notices[Len(notices)] = balance
    ELSE IF wire # << >> THEN wire[Len(wire)] = balance
    ELSE shown = balance

Counts == refreshes \in Nat /\ drops \in Nat /\ faults \in Nat

Current ==
    /\ joined /\ shown # Idle /\ request = Idle
    /\ Single
    /\ Pending \/ Newest

CurrentInv == Counts /\ (InOrder /\ refreshes = 0 => Current)

\* The last of a sequence: of its rest, and of one that grows.
LEMMA LastOf ==
  ASSUME NEW S, NEW q \in Seq(S)
  PROVE  /\ q # << >> => /\ Tail(q) # << >> => Tail(q)[Len(Tail(q))] = q[Len(q)]
                         /\ Tail(q) = << >> => Head(q) = q[Len(q)]
         /\ \A x \in S : Append(q, x) # << >> /\ Append(q, x)[Len(Append(q, x))] = x
<1>0. q # << >> => /\ Len(q) \in Nat /\ Len(q) > 0 /\ Len(Tail(q)) = Len(q) - 1
                   /\ Tail(q) \in Seq(S) /\ Head(q) = q[1]
                   /\ \A i \in 1 .. Len(q) - 1 : Tail(q)[i] = q[i + 1]
  OBVIOUS
<1>1. ASSUME q # << >>, Tail(q) # << >> PROVE Tail(q)[Len(Tail(q))] = q[Len(q)]
  <2>1. /\ Len(q) \in Nat /\ Len(q) > 0 /\ Len(Tail(q)) = Len(q) - 1 /\ Tail(q) \in Seq(S)
        /\ \A i \in 1 .. Len(q) - 1 : Tail(q)[i] = q[i + 1]
    BY <1>0, <1>1
  <2>2. Len(Tail(q)) # 0
    BY <1>1, <2>1
  <2>3. Tail(q)[Len(q) - 1] = q[(Len(q) - 1) + 1] /\ (Len(q) - 1) + 1 = Len(q)
    BY <2>1, <2>2
  <2>4. QED BY <2>1, <2>3
<1>2. ASSUME q # << >>, Tail(q) = << >> PROVE Head(q) = q[Len(q)]
  <2>1. Len(q) \in Nat /\ Len(q) > 0 /\ Len(Tail(q)) = Len(q) - 1 /\ Head(q) = q[1]
    BY <1>0, <1>2
  <2>2. Len(<< >>) = 0
    OBVIOUS
  <2>3. Len(Tail(q)) = 0
    BY <1>2, <2>2, Zenon
  <2>4. QED BY <2>1, <2>3
<1>3. ASSUME NEW x \in S PROVE Append(q, x) # << >> /\ Append(q, x)[Len(Append(q, x))] = x
  OBVIOUS
<1>4. QED BY <1>1, <1>2, <1>3

\* It holds at first.
LEMMA CurrentInit == Init => CurrentInv
  BY DEF Init, CurrentInv, Counts, Current, Single, Newest, SomeRead, Idle

\* Failures, refreshes and drops are counted up.
LEMMA CountsStep ==
  ASSUME Counts, [Next]_vars
  PROVE  /\ Counts'
         /\ InOrder' /\ refreshes' = 0 => InOrder /\ refreshes = 0 /\ UNCHANGED <<refreshes, faults, drops>>
<1> USE DEF Counts, InOrder
<1>1. ASSUME UNCHANGED budget PROVE UNCHANGED <<refreshes, drops, faults, overlapped>>
  BY <1>1 DEF budget
<1>2. ASSUME Change \/ Push \/ Receive \/ Join \/ Answer \/ Show PROVE UNCHANGED budget
  BY <1>2, Zenon DEF Change, Push, Receive, Join, Answer, Show
<1>3. CASE Drop \/ Refresh
  <2>1. \/ drops' = drops + 1 /\ UNCHANGED <<refreshes, faults>>
        \/ refreshes' = refreshes + 1 /\ UNCHANGED <<drops, faults>>
    BY <1>3 DEF Drop, Refresh
  <2>2. Counts' /\ (drops' # 0 \/ refreshes' # 0)
    BY <2>1
  <2>3. QED BY <2>2
<1>4. ASSUME Fault PROVE Counts' /\ faults' # 0
  BY <1>4 DEF Fault
<1>5. ASSUME NEW c \in Changes, Tell(c) PROVE Fault \/ UNCHANGED budget
  BY <1>5 DEF Tell
<1>6. ASSUME NEW h \in Handlers, NEW c \in Changes, Take(h, c)
      PROVE  UNCHANGED <<refreshes, drops, faults>> /\ (~overlapped' => ~overlapped)
  BY <1>6, Zenon DEF Take
<1>7. ASSUME NEW h \in Handlers, Read(h) \/ Record(h) \/ Notify(h) PROVE UNCHANGED budget
  BY <1>7, Zenon DEF Read, Record, Notify
<1>8. ASSUME NEW h \in Handlers, HandlerFails(h) PROVE Fault
  BY <1>8 DEF HandlerFails
<1>9. ASSUME UNCHANGED vars PROVE UNCHANGED budget
  BY <1>9, Zenon DEF vars
<1>10. \/ UNCHANGED <<refreshes, drops, faults>> /\ (~overlapped' => ~overlapped)
       \/ Fault \/ Drop \/ Refresh
  BY <1>1, <1>2, <1>5, <1>6, <1>7, <1>8, <1>9, Zenon DEF Next, Step
<1>11. QED BY <1>3, <1>4, <1>10

\* Every step keeps it.
LEMMA CurrentStep == IInv /\ CurrentInv /\ [Next]_vars => CurrentInv'
<1> SUFFICES ASSUME IInv, CurrentInv, [Next]_vars, InOrder', refreshes' = 0 PROVE Current'
  BY CountsStep DEF CurrentInv
<1>a. TypeOK /\ TypeOK' /\ Idle \notin Balances /\ Idle \notin Changes
  BY TypeStep DEF IInv, Idle, Balances, Changes
<1>b. InOrder /\ refreshes = 0 /\ UNCHANGED <<refreshes, faults, drops>> /\ Current /\ Counts
  BY CountsStep DEF CurrentInv
<1>c. ~Fault
  BY <1>b DEF Fault, Counts
<1>d. joined /\ shown # Idle /\ request = Idle /\ Single /\ (Pending \/ Newest)
  BY <1>b DEF Current
<1>1. CASE Change
  <2>1. UNCHANGED <<work, joined, shown, request>> /\ untold' # {}
    BY <1>1, Zenon DEF Change, page
  <2>2. QED BY <1>d, <2>1, Zenon DEF Current, Single, Pending
<1>2. ASSUME NEW c \in Changes, Tell(c) PROVE Current'
  <2>1. UNCHANGED <<work, joined, shown, request>> /\ audits' # {}
    BY <1>2, <1>c, Zenon DEF Tell, page
  <2>2. QED BY <1>d, <2>1, Zenon DEF Current, Single, Pending
<1>3. ASSUME NEW h \in Handlers, NEW c \in Changes, Take(h, c) PROVE Current'
  <2>1. /\ work[h] = Idle /\ work' = [work EXCEPT ![h] = c]
        /\ UNCHANGED <<snapshot, joined, shown, request>>
        /\ overlapped' = (overlapped \/ \E g \in Handlers : work[g] # Idle)
    BY <1>3 DEF Take, page
  <2>2. \A g \in Handlers : work[g] = Idle
    BY <2>1, Zenon DEF InOrder
  <2>3. work'[h] = c /\ \A g \in Handlers : g # h => work'[g] = Idle
    BY <1>a, <2>1, <2>2 DEF TypeOK
  <2>4. Single'
    BY <2>3 DEF Single
  <2>5. work'[h] # Idle /\ snapshot'[h] = Idle
    BY <1>a, <2>1, <2>3 DEF TypeOK
  <2>6. QED BY <1>d, <2>1, <2>4, <2>5 DEF Current, Pending
<1>4. ASSUME NEW h \in Handlers, Read(h) PROVE Current'
  <2>1. /\ work[h] # Idle /\ snapshot' = [snapshot EXCEPT ![h] = balance]
        /\ UNCHANGED <<balance, work, joined, shown, request>>
    BY <1>4 DEF Read, page
  <2>2. \A g \in Handlers : g # h => work[g] = Idle
    BY <1>d, <2>1 DEF Single
  <2>3. \A g \in Handlers : snapshot'[g] = IF g = h THEN balance ELSE Idle
    BY <1>a, <2>1, <2>2 DEF TypeOK
  <2>4. balance # Idle
    BY <1>a DEF TypeOK
  <2>5. Newest'
    BY <2>1, <2>3, <2>4 DEF Newest, SomeRead
  <2>6. QED BY <1>d, <2>1, <2>5 DEF Current, Single
<1>5. ASSUME NEW h \in Handlers, Record(h) PROVE Current'
  BY <1>5, <1>d, Zenon DEF Record, page, Current, Single, Pending, Newest, SomeRead
<1>6. ASSUME NEW h \in Handlers, Notify(h) PROVE Current'
  <2>1. /\ h \in recorded /\ notices' = Append(notices, snapshot[h])
        /\ work' = [work EXCEPT ![h] = Idle] /\ snapshot' = [snapshot EXCEPT ![h] = Idle]
        /\ UNCHANGED <<balance, untold, audits, joined, shown, request>>
    BY <1>6 DEF Notify, Finished, page
  <2>2. snapshot[h] # Idle /\ snapshot[h] \in Balances /\ work[h] # Idle
    BY <1>a, <2>1 DEF TypeOK
  <2>3. \A g \in Handlers : g # h => work[g] = Idle /\ snapshot[g] = Idle
    BY <1>a, <1>d, <2>2 DEF Single, TypeOK
  <2>4. \A g \in Handlers : work'[g] = Idle /\ snapshot'[g] = Idle
    BY <1>a, <2>1, <2>3 DEF TypeOK
  <2>5. CASE Pending
    <3>1. untold # {} \/ audits # {}
      BY <2>2, <2>3, <2>5 DEF Pending
    <3>2. QED BY <1>d, <2>1, <2>4, <3>1 DEF Current, Single, Pending
  <2>6. CASE Newest
    <3>1. snapshot[h] = balance
      BY <2>2, <2>6 DEF Newest, SomeRead
    <3>2. notices' # << >> /\ notices'[Len(notices')] = balance
      <4>1. notices \in Seq(Balances)
        BY <1>a DEF TypeOK
      <4>2. QED BY <2>1, <2>2, <3>1, <4>1, LastOf
    <3>3. Newest'
      BY <2>1, <2>4, <3>2 DEF Newest, SomeRead
    <3>4. QED BY <1>d, <2>1, <2>4, <3>3 DEF Current, Single
  <2>7. QED BY <1>d, <2>5, <2>6
<1>7. CASE Push
  <2>1. /\ notices # << >> /\ notices' = Tail(notices) /\ wire' = Append(wire, Head(notices))
        /\ UNCHANGED <<balance, untold, audits, work, snapshot, joined, shown, request>>
    BY <1>7, <1>d DEF Push
  <2>2. notices \in Seq(Balances) /\ wire \in Seq(Balances) /\ Head(notices) \in Balances
    BY <1>a, <2>1, HeadTailProperties DEF TypeOK
  <2>3. /\ notices' # << >> => notices'[Len(notices')] = notices[Len(notices)]
        /\ notices' = << >> => Head(notices) = notices[Len(notices)]
        /\ wire' # << >> /\ wire'[Len(wire')] = Head(notices)
    BY <2>1, <2>2, LastOf
  <2>4. Newest => Newest'
    BY <2>1, <2>3 DEF Newest, SomeRead
  <2>5. Pending => Pending'
    BY <2>1 DEF Pending
  <2>6. QED BY <1>d, <2>1, <2>4, <2>5 DEF Current, Single
<1>8. CASE Receive
  <2>1. /\ wire # << >> /\ wire' = Tail(wire) /\ shown' = Head(wire)
        /\ UNCHANGED <<balance, untold, audits, work, snapshot, notices, joined, request>>
    BY <1>8, <1>d DEF Receive, backend
  <2>2. wire \in Seq(Balances) /\ Head(wire) \in Balances
    BY <1>a, <2>1, HeadTailProperties DEF TypeOK
  <2>3. /\ wire' # << >> => wire'[Len(wire')] = wire[Len(wire)]
        /\ wire' = << >> => Head(wire) = wire[Len(wire)]
    BY <2>1, <2>2, LastOf
  <2>4. Newest => Newest'
    BY <2>1, <2>3 DEF Newest, SomeRead
  <2>5. Pending => Pending'
    BY <2>1 DEF Pending
  <2>6. shown' # Idle
    BY <1>a, <2>1, <2>2
  <2>7. QED BY <1>d, <2>1, <2>4, <2>5, <2>6 DEF Current, Single
<1>9. ~(Join \/ Answer \/ Show \/ Drop \/ Refresh)
  <2>1. ~Join
    BY <1>d DEF Join
  <2>2. ~Show
    BY <1>a, <1>d DEF Show
  <2>3. ~Drop /\ ~Refresh
    BY <1>b DEF Drop, Refresh, Counts
  <2>4. ~Answer
    BY <1>d DEF Answer, Idle, Asked
  <2>5. QED BY <2>1, <2>2, <2>3, <2>4
<1>10. \A h \in Handlers : ~HandlerFails(h)
  BY <1>c DEF HandlerFails
<1>11. CASE UNCHANGED vars
  BY <1>11, <1>d, Zenon DEF vars, backend, page, Current, Single, Pending, Newest, SomeRead
<1>12. QED
  BY <1>1, <1>2, <1>3, <1>4, <1>5, <1>6, <1>7, <1>8, <1>9, <1>10, <1>11, Zenon DEF Next, Step

\* THEOREM Live: a page that has stayed connected and asked for nothing shows the balance
\* as soon as nothing is on its way, if the user's messages were handled one by one
\* (balance-audit.consumer.ts, balance-notify.consumer.ts, useNotifications.ts).
THEOREM Live == Spec => []PageIsCurrent
<1>1. ASSUME IInv, CurrentInv PROVE PageIsCurrent
  <2> SUFFICES ASSUME PageAtRest, InOrder, refreshes = 0 PROVE shown = balance
    BY DEF PageIsCurrent
  <2>1. Pending \/ Newest
    BY <1>1 DEF CurrentInv, Current
  <2>2. ~Pending
    BY DEF PageAtRest, LogAtRest, Pending
  <2>3. ~SomeRead
    BY <1>1 DEF IInv, TypeOK, PageAtRest, LogAtRest, SomeRead
  <2>4. QED BY <2>1, <2>2, <2>3 DEF Newest, PageAtRest
<1>2. QED BY <1>1, IndInit, IndStep, CurrentInit, CurrentStep, PTL DEF Spec

-----------------------------------------------------------------------------
\* What is on its way

\* What is put on the way of some clients.
LEMMA PutOnTheWay ==
  ASSUME NEW S, NEW q \in [Clients -> Seq(S)], NEW T, NEW m \in S
  PROVE  /\ Put(q, T, m) \in [Clients -> Seq(S)]
         /\ \A c \in Clients : Put(q, T, m)[c] = IF c \in T THEN Append(q[c], m) ELSE q[c]
<1>1. \A c \in Clients : Append(q[c], m) \in Seq(S)
  BY AppendProperties
<1>2. QED BY <1>1 DEF Put

\* What is taken from the way of one.
LEMMA TakenFromTheWay ==
  ASSUME NEW S, NEW q \in [Clients -> Seq(S)], NEW c \in Clients, q[c] # << >>
  PROVE  /\ Tail1(q, c) \in [Clients -> Seq(S)]
         /\ Tail1(q, c)[c] = Tail(q[c])
         /\ \A d \in Clients : d # c => Tail1(q, c)[d] = q[d]
         /\ Head(q[c]) \in S /\ Head(q[c]) = q[c][1]
<1>1. q[c] \in Seq(S)
  OBVIOUS
<1>2. Tail(q[c]) \in Seq(S) /\ Head(q[c]) \in S
  BY <1>1, HeadTailProperties
<1>3. Head(q[c]) = q[c][1]
  BY <1>1
<1>4. QED BY <1>2, <1>3 DEF Tail1

\* The events of a socket have their types.
LEMMA WireEvents ==
  /\ \A r \in Rooms, n \in Nat : [ev |-> "join", room |-> r, n |-> n] \in Upward
  /\ \A r, s \in Rooms : [ev |-> "send", shown |-> r, asked |-> s] \in Upward
  /\ \A x \in Upward : /\ x.ev = "join" \/ x.ev = "send"
                       /\ x.ev = "join" => x.room \in Rooms /\ x.n \in Nat
                       /\ x.ev = "send" => x.shown \in Rooms /\ x.asked \in Rooms
  /\ \A n \in Nat, h \in Seq(Nat), b \in SUBSET Nat :
        [ev |-> "history", n |-> n, history |-> h, blurred |-> b] \in Downward
  /\ \A i \in Nat : [ev |-> "new_message", id |-> i] \in Downward
  /\ \A x \in Downward :
        /\ x.ev = "history" \/ x.ev = "new_message"
        /\ x.ev = "history" => x.n \in Nat /\ x.history \in Seq(Nat) /\ x.blurred \in SUBSET Nat
        /\ x.ev = "new_message" => x.id \in Nat
  BY DEF Upward, Downward

\* A new message is one more.
LEMMA MoreRows ==
  ASSUME rows \in Seq([room : Rooms, shown : Rooms, asked : Rooms]),
         NEW x \in [room : Rooms, shown : Rooms, asked : Rooms], rows' = Append(rows, x)
  PROVE  /\ rows' \in Seq([room : Rooms, shown : Rooms, asked : Rooms])
         /\ Len(rows) \in Nat /\ Len(rows') = Len(rows) + 1 /\ Ids \subseteq Ids'
         /\ rows'[Len(rows')] = x /\ \A i \in Ids : rows'[i] = rows[i]
         /\ Len(rows') \in Ids' /\ Len(rows') \notin Ids /\ Ids' = Ids \cup {Len(rows')}
         /\ \A i \in Ids : rows[i] \in [room : Rooms, shown : Rooms, asked : Rooms]
<1>1. /\ rows' \in Seq([room : Rooms, shown : Rooms, asked : Rooms])
      /\ Len(rows') = Len(rows) + 1 /\ rows'[Len(rows) + 1] = x
      /\ \A i \in 1 .. Len(rows) : rows'[i] = rows[i]
  BY AppendProperties
<1>2. Len(rows) \in Nat /\ \A i \in 1 .. Len(rows) : rows[i] \in [room : Rooms, shown : Rooms, asked : Rooms]
  BY LenProperties, ElementOfSeq
<1>3. QED BY <1>1, <1>2 DEF Ids

-----------------------------------------------------------------------------
\* What a handler reads

\* A set of one element.
OneOf(S) == \E x \in S : S = {x}

\* A message of rw is old: cleaned up, or followed by a history of newer ones.
Old(rw, d, i) ==
    \/ i <= d
    \/ Cardinality({k \in 1 .. Len(rw) : k > i /\ rw[k].room = rw[i].room}) >= HistoryLimit

\* What a handler has read of room r, h: the messages up to the n-th, each once or old.
Recalls(rw, d, h, n, r) ==
    /\ \A k \in 1 .. Len(h) : h[k] \in 1 .. n /\ rw[h[k]].room = r
    /\ \A i \in 1 .. n : rw[i].room = r =>
          \/ OneOf(Places(h, i))
          \/ Places(h, i) = {} /\ Old(rw, d, i)

\* The elements of a finite set of numbers are told by how many of them are no larger.
LEMMA Ranks ==
  ASSUME NEW S \in SUBSET Nat, IsFiniteSet(S)
  PROVE  /\ Cardinality(S) \in Nat
         /\ \A i \in S : Cardinality({m \in S : m <= i}) \in 1 .. Cardinality(S)
         /\ \A i, j \in S : Cardinality({m \in S : m <= i}) = Cardinality({m \in S : m <= j}) => i = j
         /\ \A k \in 1 .. Cardinality(S) : \E i \in S : Cardinality({m \in S : m <= i}) = k
<1> DEFINE below(i) == {m \in S : m <= i}
           f == [i \in S |-> Cardinality(below(i))]
<1>1. Cardinality(S) \in Nat
  BY FS_CardinalityType
<1>2. ASSUME NEW i \in S
      PROVE  /\ IsFiniteSet(below(i)) /\ Cardinality(below(i)) \in 1 .. Cardinality(S)
  <2>1. below(i) \in SUBSET S /\ i \in below(i)
    OBVIOUS
  <2> HIDE DEF below
  <2>2. IsFiniteSet(below(i)) /\ Cardinality(below(i)) <= Cardinality(S)
    BY <2>1, FS_Subset
  <2>3. Cardinality(below(i)) \in Nat /\ Cardinality(below(i)) # 0
    BY <2>1, <2>2, FS_CardinalityType, FS_EmptySet
  <2>4. QED BY <1>1, <2>2, <2>3
<1>3. ASSUME NEW i \in S, NEW j \in S, i < j PROVE Cardinality(below(i)) # Cardinality(below(j))
  <2>1. \A m \in S : m \in Nat
    OBVIOUS
  <2>2. i \in Nat /\ j \in Nat
    BY <2>1
  <2>3. \A m \in below(i) : m \in below(j)
    BY <1>3, <2>1, <2>2
  <2>4. j \in below(j) /\ j \notin below(i)
    BY <1>3, <2>2
  <2>5. below(i) \in SUBSET below(j)
    BY <2>3
  <2> HIDE DEF below
  <2>6. QED BY <1>2, <2>4, <2>5, FS_Subset
<1>4. \A i, j \in S : Cardinality(below(i)) = Cardinality(below(j)) => i = j
  <2>1. \A i, j \in S : i = j \/ i < j \/ j < i
    OBVIOUS
  <2> HIDE DEF below
  <2>2. QED BY <1>3, <2>1
<1>5. f \in [S -> 1 .. Cardinality(S)] /\ \A i \in S : f[i] = Cardinality(below(i))
  <2> HIDE DEF below
  <2>1. QED BY <1>2
<1> HIDE DEF f, below
<1>6. f \in Injection(S, 1 .. Cardinality(S))
  BY <1>4, <1>5 DEF Injection, IsInjective
<1>7. IsFiniteSet(1 .. Cardinality(S)) /\ Cardinality(1 .. Cardinality(S)) = Cardinality(S)
  BY <1>1, FS_Interval
<1>8. f \in Surjection(S, 1 .. Cardinality(S))
  BY <1>6, <1>7, FS_Injection
<1>9. \A k \in 1 .. Cardinality(S) : \E i \in S : f[i] = k
  BY <1>8 DEF Surjection
<1>10. \A k \in 1 .. Cardinality(S) : \E i \in S : Cardinality(below(i)) = k
  BY <1>5, <1>9
<1>11. QED BY <1>1, <1>2, <1>4, <1>10 DEF below

\* getHistory reads the latest messages of the room, each once; those it leaves are old.
LEMMA HistoryTells ==
  ASSUME Len(rows) \in Nat, dropped \in Nat, NEW r
  PROVE  History(r) \in Seq(Nat) /\ Recalls(rows, dropped, History(r), Len(rows), r)
<1> DEFINE S == Latest(r)
           h == History(r)
           rank(i) == Cardinality({m \in S : m <= i})
<1>1. S \in SUBSET (1 .. Len(rows)) /\ \A i \in S : rows[i].room = r
  BY DEF Latest, Ids
<1>2. S \in SUBSET Nat /\ IsFiniteSet(S)
  <2>1. IsFiniteSet(1 .. Len(rows))
    BY FS_Interval
  <2>2. QED BY <1>1, <2>1, FS_Subset
<1>3. h = [k \in 1 .. Cardinality(S) |-> CHOOSE i \in S : rank(i) = k]
  BY DEF History
<1>4. ASSUME NEW i \in Ids, i \notin S, rows[i].room = r PROVE Old(rows, dropped, i)
  <2>1. \/ ~(i > dropped)
        \/ ~(Cardinality(Later(i)) < HistoryLimit)
    BY <1>4 DEF Latest
  <2>2. Later(i) = {k \in 1 .. Len(rows) : k > i /\ rows[k].room = rows[i].room}
    BY DEF Later, Ids
  <2>3. Cardinality(Later(i)) \in Nat
    <3>1. Later(i) \in SUBSET (1 .. Len(rows))
      BY <2>2
    <3>2. IsFiniteSet(1 .. Len(rows))
      BY FS_Interval
    <3>3. QED BY <3>1, <3>2, FS_Subset, FS_CardinalityType
  <2>4. i <= dropped \/ Cardinality(Later(i)) >= HistoryLimit
    BY <1>4, <2>1, <2>3, ChatAssumption DEF Ids
  <2>5. QED BY <2>2, <2>4 DEF Old
<1> HIDE DEF S, h
<1>5. /\ Cardinality(S) \in Nat
      /\ \A i \in S : rank(i) \in 1 .. Cardinality(S)
      /\ \A i, j \in S : rank(i) = rank(j) => i = j
      /\ \A k \in 1 .. Cardinality(S) : \E i \in S : rank(i) = k
  BY <1>2, Ranks
<1> HIDE DEF rank
<1>6. \A k \in 1 .. Cardinality(S) : h[k] \in S /\ rank(h[k]) = k
  BY <1>3, <1>5
<1>7. h \in Seq(Nat) /\ Len(h) = Cardinality(S)
  <2>1. h \in [1 .. Cardinality(S) -> Nat]
    BY <1>2, <1>3, <1>6
  <2>2. QED BY <1>5, <2>1
<1>8. \A i \in S : Places(h, i) = {rank(i)}
  BY <1>5, <1>6, <1>7 DEF Places
<1>9. \A i : i \notin S => Places(h, i) = {}
  BY <1>6, <1>7 DEF Places
<1>10. Recalls(rows, dropped, h, Len(rows), r)
  BY <1>1, <1>4, <1>6, <1>7, <1>8, <1>9 DEF Recalls, OneOf, Ids
<1>11. QED BY <1>7, <1>10 DEF h

-----------------------------------------------------------------------------
\* Types

\* What a socket is forgotten with.
LEMMA ForgottenTypes ==
  ASSUME ChatTypeOK, NEW c \in Clients, Forget(c)
  PROVE  /\ sock' \in [Clients -> [rooms : SUBSET Rooms, room : Rooms \cup {NoRoom}]]
         /\ up' \in [Clients -> Seq(Upward)] /\ down' \in [Clients -> Seq(Downward)]
         /\ linked' = linked \ {c} /\ cooling' \subseteq linked'
         /\ \A j \in joins' : j \in joins /\ j.c \in linked'
<1>1. sock' \in [Clients -> [rooms : SUBSET Rooms, room : Rooms \cup {NoRoom}]]
  BY DEF ChatTypeOK, Forget, Closed
<1>2. up' \in [Clients -> Seq(Upward)] /\ down' \in [Clients -> Seq(Downward)]
  <2>1. up \in [Clients -> Seq(Upward)] /\ down \in [Clients -> Seq(Downward)]
    BY DEF ChatTypeOK
  <2>2. up' = [up EXCEPT ![c] = << >>] /\ down' = [down EXCEPT ![c] = << >>]
    BY DEF Forget
  <2>3. << >> \in Seq(Upward) /\ << >> \in Seq(Downward)
    BY EmptySeq
  <2>4. QED BY <2>1, <2>2, <2>3
<1>3. QED BY <1>1, <1>2 DEF ChatTypeOK, Forget

\* The widget keeps the types.
LEMMA WidgetTypes ==
  ASSUME ChatTypeOK, NEW c \in Clients,
         \/ Connect(c) \/ Refuse(c) \/ HandleSend(c) \/ ShowHistory(c) \/ ShowMessage(c)
         \/ Disconnect(c) \/ Remount(c) \/ (\E r \in Rooms : SwitchRoom(c, r))
  PROVE  ChatTypeOK'
<1>1. /\ up \in [Clients -> Seq(Upward)] /\ down \in [Clients -> Seq(Downward)]
      /\ room \in [Clients -> Rooms] /\ asked \in [Clients -> Rooms]
      /\ messages \in [Clients -> Seq(Nat)] /\ blurred \in [Clients -> SUBSET Nat]
      /\ latest \in [Clients -> Nat] /\ shows \in [Clients -> Nat]
      /\ steps \in 0 .. MaxSteps /\ FirstRoom \in Rooms
      /\ linked \cup refused \cup astray \subseteq Clients
  BY ChatAssumption DEF ChatTypeOK
<1>2. Bounded => steps' \in 0 .. MaxSteps
  BY <1>1, ChatAssumption DEF Bounded
<1>3. << >> \in Seq(Nat)
  BY EmptySeq
<1>4. ASSUME NEW r \in Rooms, EmitJoin(c, r)
      PROVE  /\ asked' \in [Clients -> Rooms] /\ latest' \in [Clients -> Nat]
             /\ up' \in [Clients -> Seq(Upward)] /\ \A d \in Clients : latest[d] <= latest'[d]
             /\ astray' \subseteq Clients /\ shows' = shows /\ blurred' = blurred
  <2>1. /\ asked' \in [Clients -> Rooms] /\ latest' \in [Clients -> Nat]
        /\ \A d \in Clients : latest[d] <= latest'[d]
        /\ astray' \subseteq Clients /\ shows' = shows /\ blurred' = blurred
    BY <1>1, <1>4 DEF EmitJoin
  <2>2. JoinEvent(c) \in Upward
    BY <2>1, WireEvents DEF JoinEvent
  <2>3. up' = Put(up, {c}, JoinEvent(c))
    BY <1>4 DEF EmitJoin
  <2>4. PICK m \in Upward : m = JoinEvent(c)
    BY <2>2
  <2>5. Put(up, {c}, m) \in [Clients -> Seq(Upward)]
    BY <1>1, PutOnTheWay
  <2>6. QED BY <2>1, <2>3, <2>4, <2>5
<1>5. CASE Connect(c)
  <2>1. /\ EmitJoin(c, FirstRoom) /\ linked' = linked \cup {c} /\ c \notin refused
        /\ UNCHANGED <<stored, gateway, refused, down, widget, steps>>
    BY <1>5 DEF Connect
  <2>2. \A j \in joins' : j \in Handler /\ j.c \in linked' /\ j.n <= latest'[j.c]
    <3>1. \A j \in joins : j \in Handler /\ j.c \in linked /\ j.n <= latest[j.c]
                           /\ j.c \in Clients /\ j.n \in Nat
      BY DEF ChatTypeOK, Handler
    <3>2. QED BY <1>1, <1>4, <2>1, <3>1 DEF gateway
  <2>3. QED BY <1>1, <1>4, <2>1, <2>2 DEF ChatTypeOK, stored, gateway, widget, Ids
<1>6. CASE Refuse(c)
  BY <1>2, <1>6 DEF Refuse, ChatTypeOK, stored, gateway, widget, seen, Ids
<1>7. CASE HandleSend(c)
  <2>1. [ev |-> "send", shown |-> room[c], asked |-> asked[c]] \in Upward
    BY <1>1, WireEvents
  <2>2. up' \in [Clients -> Seq(Upward)]
    <3>1. PICK m \in Upward : m = [ev |-> "send", shown |-> room[c], asked |-> asked[c]]
      BY <2>1
    <3>2. Put(up, {c}, m) \in [Clients -> Seq(Upward)]
      BY <1>1, PutOnTheWay
    <3>3. QED BY <1>7, <3>1, <3>2 DEF HandleSend
  <2>3. Bounded /\ UNCHANGED <<stored, gateway, linked, refused, down, widget, seen>>
    BY <1>7 DEF HandleSend
  <2>4. QED BY <1>2, <2>2, <2>3 DEF ChatTypeOK, stored, gateway, widget, seen, Ids
<1>8. CASE ShowHistory(c)
  <2> DEFINE m == Head(down[c])
  <2>1. /\ down[c] # << >> /\ m.ev = "history"
        /\ messages' = [messages EXCEPT ![c] = m.history] /\ shows' = [shows EXCEPT ![c] = m.n]
        /\ blurred' = [blurred EXCEPT ![c] = m.blurred] /\ down' = Tail1(down, c)
        /\ astray' \subseteq astray \cup {c}
        /\ UNCHANGED <<stored, gateway, linked, refused, up, room, asked, latest, steps>>
    BY <1>8 DEF ShowHistory
  <2>2. m \in Downward /\ down' \in [Clients -> Seq(Downward)]
    BY <1>1, <2>1, TakenFromTheWay
  <2> HIDE DEF m
  <2>4. m.n \in Nat /\ m.history \in Seq(Nat) /\ m.blurred \in SUBSET Nat
    BY <2>1, <2>2, WireEvents
  <2>5. /\ messages' \in [Clients -> Seq(Nat)] /\ shows' \in [Clients -> Nat]
        /\ blurred' \in [Clients -> SUBSET Nat]
    BY <1>1, <2>1, <2>4
  <2>6. QED BY <1>1, <2>1, <2>2, <2>5 DEF ChatTypeOK, stored, gateway, Ids
<1>9. CASE ShowMessage(c)
  <2> DEFINE m == Head(down[c])
  <2>1. /\ down[c] # << >> /\ m.ev = "new_message"
        /\ messages' = [messages EXCEPT ![c] = Append(@, m.id)] /\ down' = Tail1(down, c)
        /\ UNCHANGED <<stored, gateway, linked, refused, up, room, seen, steps>>
    BY <1>9 DEF ShowMessage
  <2>2. m \in Downward /\ down' \in [Clients -> Seq(Downward)]
    BY <1>1, <2>1, TakenFromTheWay
  <2> HIDE DEF m
  <2>3. m.id \in Nat
    BY <2>1, <2>2, WireEvents
  <2>4. messages' \in [Clients -> Seq(Nat)]
    <3>1. Append(messages[c], m.id) \in Seq(Nat)
      BY <1>1, <2>3, AppendProperties
    <3>2. QED BY <1>1, <2>1, <3>1
  <2>5. QED BY <2>1, <2>2, <2>4 DEF ChatTypeOK, stored, gateway, seen, Ids
<1>10. CASE Disconnect(c)
  <2>1. Forget(c) /\ Bounded /\ UNCHANGED <<stored, refused, widget, seen>>
    BY <1>10 DEF Disconnect
  <2>2. QED BY <1>2, <2>1, ForgottenTypes DEF ChatTypeOK, stored, widget, seen, Ids
<1>11. CASE Remount(c)
  <2>1. /\ Forget(c) /\ Bounded /\ UNCHANGED <<stored, seen>> /\ refused' = refused \ {c}
        /\ room' = [room EXCEPT ![c] = FirstRoom]
        /\ messages' = [messages EXCEPT ![c] = << >>]
    BY <1>11 DEF Remount
  <2>2. room' \in [Clients -> Rooms] /\ messages' \in [Clients -> Seq(Nat)]
    BY <1>1, <1>3, <2>1
  <2>3. QED BY <1>2, <2>1, <2>2, ForgottenTypes DEF ChatTypeOK, stored, seen, Ids
<1>12. ASSUME NEW r \in Rooms, SwitchRoom(c, r) PROVE ChatTypeOK'
  <2>1. /\ Bounded /\ room' = [room EXCEPT ![c] = r]
        /\ UNCHANGED <<stored, gateway, linked, refused, down>>
    BY <1>12 DEF SwitchRoom
  <2>2. room' \in [Clients -> Rooms]
    BY <1>1, <2>1
  <2>3. CASE c \in linked
    <3>1. EmitJoin(c, r) /\ messages' = [messages EXCEPT ![c] = << >>]
      BY <1>12, <2>3 DEF SwitchRoom
    <3>2. messages' \in [Clients -> Seq(Nat)]
      BY <1>1, <1>3, <3>1
    <3>3. \A j \in joins : j \in Handler /\ j.c \in linked /\ j.n <= latest'[j.c]
      <4>1. \A j \in joins : j \in Handler /\ j.c \in linked /\ j.n <= latest[j.c]
                             /\ j.c \in Clients /\ j.n \in Nat
        BY DEF ChatTypeOK, Handler
      <4>2. QED BY <1>1, <1>4, <3>1, <4>1
    <3>4. QED BY <1>1, <1>2, <1>4, <2>1, <2>2, <3>1, <3>2, <3>3
              DEF ChatTypeOK, stored, gateway, Ids
  <2>4. CASE c \notin linked
    <3>1. UNCHANGED <<messages, seen, up>>
      BY <1>12, <2>4 DEF SwitchRoom
    <3>2. QED BY <1>2, <2>1, <2>2, <3>1 DEF ChatTypeOK, stored, gateway, seen, Ids
  <2>5. QED BY <2>3, <2>4
<1>13. QED BY <1>5, <1>6, <1>7, <1>8, <1>9, <1>10, <1>11, <1>12

\* A socket's next message is taken.
LEMMA TakeUp ==
  ASSUME ChatTypeOK, NEW c \in Clients, up[c] # << >>
  PROVE  /\ Head(up[c]) \in Upward /\ Head(up[c]) = up[c][1]
         /\ Tail1(up, c) \in [Clients -> Seq(Upward)]
<1>1. up \in [Clients -> Seq(Upward)]
  BY DEF ChatTypeOK
<1>2. QED BY <1>1, TakenFromTheWay

\* A message that is stored keeps the types.
LEMMA SavedTypes ==
  ASSUME ChatTypeOK, NEW x \in [room : Rooms, shown : Rooms, asked : Rooms],
         rows' = Append(rows, x), sending' = sending \cup {Len(rows')}, dropped' = dropped
  PROVE  /\ rows' \in Seq([room : Rooms, shown : Rooms, asked : Rooms])
         /\ dropped' \in 0 .. Len(rows') /\ sending' \subseteq Ids'
<1>1. /\ rows \in Seq([room : Rooms, shown : Rooms, asked : Rooms])
      /\ dropped \in 0 .. Len(rows) /\ sending \subseteq Ids
  BY DEF ChatTypeOK
<1>2. /\ rows' \in Seq([room : Rooms, shown : Rooms, asked : Rooms])
      /\ Len(rows) \in Nat /\ Len(rows') = Len(rows) + 1
      /\ Len(rows') \in Ids' /\ Ids \subseteq Ids'
  BY <1>1, MoreRows
<1>3. dropped' \in 0 .. Len(rows')
  BY <1>1, <1>2
<1>4. QED BY <1>1, <1>2, <1>3

\* The gateway keeps the types.
LEMMA GatewayTypes ==
  ASSUME ChatTypeOK, NEW c \in Clients,
         HandleJoinRoom(c) \/ RefuseMessage(c) \/ SaveMessage(c) \/ FailMessage(c) \/ TwoSecondsPass(c),
         up[c] # << >> /\ Head(up[c]).ev = "join" => Head(up[c]).n <= latest[c] /\ c \in linked,
         up[c] # << >> => c \in linked
  PROVE  ChatTypeOK'
<1>1. /\ steps \in 0 .. MaxSteps /\ up \in [Clients -> Seq(Upward)]
      /\ sock \in [Clients -> [rooms : SUBSET Rooms, room : Rooms \cup {NoRoom}]]
      /\ NoRoom \notin Rooms
  BY ChatAssumption DEF ChatTypeOK
<1>2. Bounded => steps' \in 0 .. MaxSteps
  BY <1>1, ChatAssumption DEF Bounded
<1>3. CASE HandleJoinRoom(c)
  <2> DEFINE m == Head(up[c])
             e == [c |-> c, n |-> m.n, room |-> m.room, read |-> FALSE, history |-> << >>, upto |-> 0]
  <2>1. /\ up[c] # << >> /\ m.ev = "join" /\ up' = Tail1(up, c)
        /\ sock' = [sock EXCEPT ![c] = In(m.room)] /\ joins' = joins \cup {e}
        /\ UNCHANGED <<stored, cooling, linked, refused, down, widget, seen, steps>>
    BY <1>3 DEF HandleJoinRoom, JoinTo
  <2>2. m \in Upward /\ up' \in [Clients -> Seq(Upward)]
    BY <2>1, TakeUp
  <2>3. m.n <= latest[c] /\ c \in linked
    BY <2>1
  <2> HIDE DEF m
  <2>4. m.room \in Rooms /\ m.n \in Nat
    BY <2>1, <2>2, WireEvents
  <2>5. sock' \in [Clients -> [rooms : SUBSET Rooms, room : Rooms \cup {NoRoom}]]
    BY <1>1, <2>1, <2>4 DEF In
  <2>6. e \in Handler /\ e.c \in linked /\ e.n <= latest[e.c]
    <3>1. << >> \in Seq(Nat)
      BY EmptySeq
    <3>2. QED BY <2>3, <2>4, <3>1 DEF Handler
  <2> HIDE DEF e
  <2>7. QED BY <2>1, <2>2, <2>5, <2>6 DEF ChatTypeOK, stored, widget, seen, Ids
<1>4. CASE RefuseMessage(c)
  <2>1. /\ up[c] # << >> /\ up' = Tail1(up, c)
        /\ UNCHANGED <<stored, gateway, linked, refused, down, widget, seen, steps>>
    BY <1>4 DEF RefuseMessage
  <2>2. up' \in [Clients -> Seq(Upward)]
    BY <2>1, TakeUp
  <2>3. QED BY <2>1, <2>2 DEF ChatTypeOK, stored, gateway, widget, seen, Ids
<1>5. ASSUME Accept(c)
      PROVE  /\ up' \in [Clients -> Seq(Upward)] /\ cooling' \subseteq linked'
             /\ sock[c].room \in Rooms /\ Head(up[c]).shown \in Rooms /\ Head(up[c]).asked \in Rooms
             /\ UNCHANGED <<dropped, joins, sock, linked, refused, down, widget, seen>>
  <2>1. /\ up[c] # << >> /\ up' = Tail1(up, c) /\ Head(up[c]).ev = "send"
        /\ sock[c].room # NoRoom /\ cooling' = cooling \cup {c}
        /\ UNCHANGED <<dropped, joins, sock, linked, refused, down, widget, seen>>
    BY <1>5 DEF Accept
  <2>2. up' \in [Clients -> Seq(Upward)] /\ Head(up[c]) \in Upward
    BY <2>1, TakeUp
  <2>3. Head(up[c]).shown \in Rooms /\ Head(up[c]).asked \in Rooms
    BY <2>1, <2>2, WireEvents
  <2>4. cooling' \subseteq linked'
    BY <2>1 DEF ChatTypeOK
  <2>5. sock[c].room \in Rooms
    BY <1>1, <2>1
  <2>6. QED BY <2>1, <2>2, <2>3, <2>4, <2>5
<1>6. CASE SaveMessage(c)
  <2> DEFINE x == [room |-> sock[c].room, shown |-> Head(up[c]).shown, asked |-> Head(up[c]).asked]
  <2>1. /\ Accept(c) /\ rows' = Append(rows, x) /\ sending' = sending \cup {Len(rows')}
        /\ UNCHANGED steps
    BY <1>6 DEF SaveMessage
  <2>2. x \in [room : Rooms, shown : Rooms, asked : Rooms]
    BY <1>5, <2>1
  <2> HIDE DEF x
  <2>3. /\ rows' \in Seq([room : Rooms, shown : Rooms, asked : Rooms])
        /\ dropped' \in 0 .. Len(rows') /\ sending' \subseteq Ids'
    BY <1>5, <2>1, <2>2, SavedTypes
  <2>4. QED BY <1>5, <2>1, <2>3 DEF ChatTypeOK, widget, seen
<1>7. CASE FailMessage(c)
  BY <1>2, <1>5, <1>7 DEF FailMessage, ChatTypeOK, widget, seen, Ids
<1>8. CASE TwoSecondsPass(c)
  BY <1>8 DEF TwoSecondsPass, ChatTypeOK, stored, link, widget, seen, Ids
<1>9. QED BY <1>3, <1>4, <1>6, <1>7, <1>8

\* So do the handlers of a join.
LEMMA HandlerTypes ==
  ASSUME ChatTypeOK, NEW j \in joins, GetHistory(j) \/ AnswerJoin(j) \/ FailJoin(j)
  PROVE  ChatTypeOK'
<1>1. /\ j \in Handler /\ j.c \in linked /\ j.n <= latest[j.c]
      /\ j.c \in Clients /\ j.n \in Nat /\ j.room \in Rooms /\ j.history \in Seq(Nat)
  BY DEF ChatTypeOK, Handler
<1>2. Len(rows) \in Nat /\ dropped \in Nat
  BY LenProperties DEF ChatTypeOK
<1>3. CASE GetHistory(j)
  <2> DEFINE e == [j EXCEPT !.read = TRUE, !.history = History(j.room), !.upto = Len(rows)]
  <2>1. /\ joins' = (joins \ {j}) \cup {e}
        /\ UNCHANGED <<stored, sock, cooling, link, widget, seen, steps>>
    BY <1>3 DEF GetHistory
  <2>2. PICK h \in Seq(Nat) : h = History(j.room)
    BY <1>2, HistoryTells
  <2>3. e = [j EXCEPT !.read = TRUE, !.history = h, !.upto = Len(rows)]
    BY <2>2
  <2>4. e \in Handler /\ e.c = j.c /\ e.n = j.n
    BY <1>1, <1>2, <2>3 DEF Handler
  <2> HIDE DEF e
  <2>5. \A k \in joins' : k \in Handler /\ k.c \in linked /\ k.n <= latest[k.c]
    BY <1>1, <2>1, <2>4 DEF ChatTypeOK
  <2>6. QED BY <2>1, <2>5 DEF ChatTypeOK, stored, link, widget, seen, Ids
<1>4. CASE AnswerJoin(j)
  <2> DEFINE m == [ev |-> "history", n |-> j.n, history |-> j.history, blurred |-> Blurred(j)]
  <2>1. /\ joins' = joins \ {j} /\ down' = Put(down, {j.c}, m)
        /\ UNCHANGED <<stored, sock, cooling, linked, refused, up, widget, seen, steps>>
    BY <1>4 DEF AnswerJoin
  <2>2. m \in Downward
    <3>1. Blurred(j) \in SUBSET Nat
      BY DEF Blurred, Ids
    <3>2. QED BY <1>1, <3>1, WireEvents
  <2> HIDE DEF m
  <2>3. PICK x \in Downward : x = m
    BY <2>2
  <2>4. down \in [Clients -> Seq(Downward)]
    BY DEF ChatTypeOK
  <2>5. Put(down, {j.c}, x) \in [Clients -> Seq(Downward)]
    BY <2>4, PutOnTheWay
  <2>6. QED BY <2>1, <2>3, <2>5 DEF ChatTypeOK, stored, widget, seen, Ids
<1>5. CASE FailJoin(j)
  <2>1. /\ Bounded /\ joins' = joins \ {j} /\ astray' \subseteq astray \cup {j.c}
        /\ UNCHANGED <<stored, sock, cooling, link, widget, asked, latest, shows, blurred>>
    BY <1>5 DEF FailJoin
  <2>2. steps' \in 0 .. MaxSteps
    BY <2>1, ChatAssumption DEF Bounded, ChatTypeOK
  <2>3. QED BY <1>1, <2>1, <2>2 DEF ChatTypeOK, stored, link, widget, Ids
<1>6. QED BY <1>3, <1>4, <1>5

\* So do the messages of others, the pushes and the cleanup.
LEMMA StoredTypes ==
  ASSUME ChatTypeOK,
         \/ \E i \in sending : PushMessage(i)
         \/ \E r \in Rooms : SaveOther(r)
         \/ CleanupOldMessages
  PROVE  ChatTypeOK'
<1>1. Bounded => steps' \in 0 .. MaxSteps
  BY ChatAssumption DEF Bounded, ChatTypeOK
<1>2. ASSUME NEW i \in sending, PushMessage(i) PROVE ChatTypeOK'
  <2> DEFINE T == {c \in Clients : rows[i].room \in sock[c].rooms}
             m == [ev |-> "new_message", id |-> i]
  <2>1. /\ sending' = sending \ {i} /\ down' = Put(down, T, m)
        /\ UNCHANGED <<rows, dropped, gateway, linked, refused, up, widget, seen, steps>>
    BY <1>2 DEF PushMessage
  <2>2. down \in [Clients -> Seq(Downward)] /\ i \in Nat
    BY DEF ChatTypeOK, Ids
  <2>3. PICK x \in Downward : x = m
    BY <2>2, WireEvents
  <2> HIDE DEF T, m
  <2>4. Put(down, T, x) \in [Clients -> Seq(Downward)]
    BY <2>2, PutOnTheWay
  <2>5. QED BY <2>1, <2>3, <2>4 DEF ChatTypeOK, gateway, widget, seen, Ids
<1>3. ASSUME NEW r \in Rooms, SaveOther(r) PROVE ChatTypeOK'
  <2>1. /\ Bounded /\ rows' = Append(rows, [room |-> r, shown |-> r, asked |-> r])
        /\ sending' = sending \cup {Len(rows')}
        /\ UNCHANGED <<dropped, gateway, link, widget, seen>>
    BY <1>3 DEF SaveOther
  <2>2. PICK x \in [room : Rooms, shown : Rooms, asked : Rooms] : x = [room |-> r, shown |-> r, asked |-> r]
    OBVIOUS
  <2>3. /\ rows' \in Seq([room : Rooms, shown : Rooms, asked : Rooms])
        /\ dropped' \in 0 .. Len(rows') /\ sending' \subseteq Ids'
    BY <2>1, <2>2, SavedTypes
  <2>4. QED BY <1>1, <2>1, <2>3 DEF ChatTypeOK, gateway, link, widget, seen
<1>4. CASE CleanupOldMessages
  <2>1. /\ Bounded /\ dropped' \in dropped + 1 .. Len(rows)
        /\ UNCHANGED <<rows, sending, gateway, link, widget, seen>>
    BY <1>4 DEF CleanupOldMessages
  <2>2. dropped' \in 0 .. Len(rows')
    BY <2>1, LenProperties DEF ChatTypeOK
  <2>3. QED BY <1>1, <2>1, <2>2 DEF ChatTypeOK, gateway, link, widget, seen, Ids
<1>5. QED BY <1>2, <1>3, <1>4

-----------------------------------------------------------------------------
\* What is on its way upwards

\* Where a message or a join that is on its way was to go.
Place(x) == IF x.ev = "join" THEN x.room ELSE x.asked

\* Each message of q goes to the room asked for last, r being the one that the gateway
\* has and a the last.
Chained(q, r, a) ==
    /\ \A k \in 1 .. Len(q) :
          q[k].ev = "send" => q[k].asked = IF k = 1 THEN r ELSE Place(q[k - 1])
    /\ a = IF Len(q) = 0 THEN r ELSE Place(q[Len(q)])

\* The newest join, the n-th, of a widget that asks for room r is the last on its way.
JoinsUp(q) == {k \in 1 .. Len(q) : q[k].ev = "join"}
LastJoin(q, n, r) ==
    \A k \in JoinsUp(q) :
        /\ q[k].n <= n
        /\ q[k].n = n <=> \A m \in JoinsUp(q) : m <= k
        /\ q[k].n = n => q[k].room = r

\* A join that is emitted is the last.
LEMMA JoinAdded ==
  ASSUME NEW q \in Seq(Upward), NEW n \in Nat, NEW a, NEW r, NEW m \in Upward, m.ev = "join",
         m.n = n + 1, Chained(q, r, a) \/ q = << >>, LastJoin(q, n, a)
  PROVE  /\ Chained(Append(q, m), r, m.room)
         /\ LastJoin(Append(q, m), n + 1, m.room) /\ JoinsUp(Append(q, m)) # {}
<1>1. /\ Len(q) \in Nat /\ Len(Append(q, m)) = Len(q) + 1 /\ Append(q, m)[Len(q) + 1] = m
      /\ \A k \in 1 .. Len(q) : Append(q, m)[k] = q[k] /\ q[k] \in Upward
  BY AppendProperties, LenProperties, ElementOfSeq
<1> DEFINE p == Append(q, m)
<1> HIDE DEF p
<1>2. /\ Len(p) = Len(q) + 1 /\ p[Len(p)] = m /\ Len(q) \in Nat
      /\ \A k \in 1 .. Len(q) : p[k] = q[k] /\ q[k] \in Upward
  BY <1>1 DEF p
<1>3. Chained(p, r, m.room)
  <2>1. \A k \in 1 .. Len(q) :
           q[k].ev = "send" => q[k].asked = IF k = 1 THEN r ELSE Place(q[k - 1])
    BY EmptySeq DEF Chained
  <2>2. ASSUME NEW k \in 1 .. Len(p), p[k].ev = "send"
        PROVE  p[k].asked = IF k = 1 THEN r ELSE Place(p[k - 1])
    <3>1. k \in 1 .. Len(q)
      BY <1>2, <2>2
    <3>2. p[k] = q[k] /\ (k # 1 => p[k - 1] = q[k - 1])
      BY <1>2, <3>1
    <3>3. QED BY <2>1, <2>2, <3>1, <3>2
  <2>3. QED BY <1>2, <2>2 DEF Chained, Place
<1>4. JoinsUp(p) = JoinsUp(q) \cup {Len(p)} /\ JoinsUp(q) \subseteq 1 .. Len(q)
  BY <1>2 DEF JoinsUp
<1>5. \A k \in JoinsUp(q) : p[k] = q[k] /\ q[k].n <= n /\ q[k].n \in Nat
  BY <1>2, <1>4, WireEvents DEF LastJoin, JoinsUp
<1>6. LastJoin(p, n + 1, m.room)
  BY <1>2, <1>4, <1>5 DEF LastJoin
<1>7. QED BY <1>3, <1>4, <1>6 DEF p

\* A message that is sent goes to the room asked for last.
LEMMA SendAdded ==
  ASSUME NEW q \in Seq(Upward), NEW n, NEW a, NEW r, NEW m \in Upward, m.ev = "send",
         m.asked = a, Chained(q, r, a), LastJoin(q, n, a)
  PROVE  /\ Chained(Append(q, m), r, a)
         /\ LastJoin(Append(q, m), n, a) /\ JoinsUp(Append(q, m)) = JoinsUp(q)
<1>1. /\ Len(q) \in Nat /\ Len(Append(q, m)) = Len(q) + 1 /\ Append(q, m)[Len(q) + 1] = m
      /\ \A k \in 1 .. Len(q) : Append(q, m)[k] = q[k] /\ q[k] \in Upward
  BY AppendProperties, LenProperties, ElementOfSeq
<1> DEFINE p == Append(q, m)
<1> HIDE DEF p
<1>2. /\ Len(p) = Len(q) + 1 /\ p[Len(p)] = m /\ Len(q) \in Nat
      /\ \A k \in 1 .. Len(q) : p[k] = q[k] /\ q[k] \in Upward
  BY <1>1 DEF p
<1>3. Chained(p, r, a)
  <2>1. ASSUME NEW k \in 1 .. Len(p), p[k].ev = "send"
        PROVE  p[k].asked = IF k = 1 THEN r ELSE Place(p[k - 1])
    <3>1. CASE k \in 1 .. Len(q)
      <4>1. p[k] = q[k] /\ (k # 1 => p[k - 1] = q[k - 1])
        BY <1>2, <3>1
      <4>2. QED BY <2>1, <3>1, <4>1 DEF Chained
    <3>2. CASE k = Len(p)
      <4>1. k # 1 => k - 1 = Len(q) /\ p[k - 1] = q[Len(q)]
        BY <1>2, <3>2
      <4>2. QED BY <1>2, <3>2, <4>1 DEF Chained
    <3>3. QED BY <1>2, <3>1, <3>2
  <2>2. QED BY <1>2, <2>1 DEF Chained, Place
<1>4. JoinsUp(p) = JoinsUp(q) /\ JoinsUp(q) \subseteq 1 .. Len(q)
  BY <1>2 DEF JoinsUp
<1>5. LastJoin(p, n, a)
  BY <1>2, <1>4 DEF LastJoin
<1>6. QED BY <1>3, <1>4, <1>5 DEF p

\* What the gateway gets goes where the one before it went, or is the newest join or an older.
LEMMA UpwardTaken ==
  ASSUME NEW q \in Seq(Upward), NEW n \in Nat, NEW a, NEW r, q # << >>,
         Chained(q, r, a), LastJoin(q, n, a)
  PROVE  /\ Chained(Tail(q), Place(q[1]), a) /\ LastJoin(Tail(q), n, a)
         /\ q[1].ev = "send" => /\ q[1].asked = r /\ Place(q[1]) = r
                                /\ (JoinsUp(Tail(q)) = {} <=> JoinsUp(q) = {})
         /\ q[1].ev = "join" => /\ q[1].n <= n /\ JoinsUp(q) # {}
                                /\ q[1].n = n => q[1].room = a /\ JoinsUp(Tail(q)) = {}
                                /\ q[1].n # n => JoinsUp(Tail(q)) # {}
<1>1. /\ Len(q) \in Nat \ {0} /\ Len(Tail(q)) = Len(q) - 1
      /\ \A k \in 1 .. Len(q) - 1 : Tail(q)[k] = q[k + 1]
      /\ \A k \in 1 .. Len(q) : q[k] \in Upward
  BY HeadTailProperties, EmptySeq, LenProperties, ElementOfSeq
<1> DEFINE p == Tail(q)
<1> HIDE DEF p
<1>2. /\ Len(q) \in Nat \ {0} /\ Len(p) = Len(q) - 1
      /\ \A k \in 1 .. Len(p) : p[k] = q[k + 1]
      /\ \A k \in 1 .. Len(q) : q[k] \in Upward
  BY <1>1 DEF p
<1>3. Chained(p, Place(q[1]), a)
  <2>1. ASSUME NEW k \in 1 .. Len(p), p[k].ev = "send"
        PROVE  p[k].asked = IF k = 1 THEN Place(q[1]) ELSE Place(p[k - 1])
    <3>1. /\ p[k] = q[k + 1] /\ k + 1 \in 1 .. Len(q) /\ k + 1 # 1 /\ (k + 1) - 1 = k
          /\ k # 1 => p[k - 1] = q[k]
      BY <1>2
    <3>2. q[k + 1].asked = Place(q[k])
      BY <2>1, <3>1 DEF Chained
    <3>3. QED BY <3>1, <3>2
  <2>2. Place(q[Len(q)]) = a
    BY <1>2 DEF Chained
  <2>3. Len(p) # 0 => p[Len(p)] = q[Len(q)]
    BY <1>2
  <2>4. Len(p) = 0 => Len(q) = 1
    BY <1>2
  <2>5. QED BY <2>1, <2>2, <2>3, <2>4 DEF Chained
<1>4. /\ \A k \in JoinsUp(p) : k + 1 \in JoinsUp(q) /\ p[k] = q[k + 1] /\ k \in 1 .. Len(p)
      /\ \A k \in JoinsUp(q) : k = 1 \/ (k - 1 \in JoinsUp(p) /\ k \in 2 .. Len(q))
  BY <1>2 DEF JoinsUp
<1>5. LastJoin(p, n, a)
  <2> SUFFICES ASSUME NEW k \in JoinsUp(p)
               PROVE  /\ p[k].n <= n
                      /\ p[k].n = n <=> \A m \in JoinsUp(p) : m <= k
                      /\ p[k].n = n => p[k].room = a
    BY DEF LastJoin
  <2>1. /\ q[k + 1].n <= n
        /\ q[k + 1].n = n <=> \A m \in JoinsUp(q) : m <= k + 1
        /\ q[k + 1].n = n => q[k + 1].room = a
    BY <1>4 DEF LastJoin
  <2>2. (\A m \in JoinsUp(q) : m <= k + 1) <=> \A m \in JoinsUp(p) : m <= k
    <3>1. k \in Nat /\ \A m \in JoinsUp(p) : m \in Nat
      BY <1>2, <1>4
    <3>2. ASSUME \A m \in JoinsUp(q) : m <= k + 1, NEW m \in JoinsUp(p) PROVE m <= k
      BY <1>4, <3>1, <3>2
    <3>3. ASSUME \A m \in JoinsUp(p) : m <= k, NEW m \in JoinsUp(q) PROVE m <= k + 1
      <4>1. CASE m = 1
        BY <3>1, <4>1
      <4>2. CASE m - 1 \in JoinsUp(p) /\ m \in 2 .. Len(q)
        BY <3>1, <3>3, <4>2
      <4>3. QED BY <1>4, <4>1, <4>2
    <3>4. QED BY <3>2, <3>3
  <2>3. QED BY <1>4, <2>1, <2>2
<1>6. ASSUME q[1].ev = "send"
      PROVE  q[1].asked = r /\ Place(q[1]) = r /\ (JoinsUp(p) = {} <=> JoinsUp(q) = {})
  <2>1. q[1].asked = r
    BY <1>2, <1>6 DEF Chained
  <2>2. Place(q[1]) = r
    BY <1>6, <2>1 DEF Place
  <2>3. 1 \notin JoinsUp(q)
    BY <1>6 DEF JoinsUp
  <2>4. QED BY <1>4, <2>1, <2>2, <2>3
<1>7. ASSUME q[1].ev = "join"
      PROVE  /\ q[1].n <= n /\ JoinsUp(q) # {}
             /\ q[1].n = n => q[1].room = a /\ JoinsUp(p) = {}
             /\ q[1].n # n => JoinsUp(p) # {}
  <2>1. 1 \in JoinsUp(q)
    BY <1>2, <1>7 DEF JoinsUp
  <2>2. /\ q[1].n <= n
        /\ q[1].n = n => q[1].room = a
        /\ q[1].n = n <=> \A m \in JoinsUp(q) : m <= 1
    BY <2>1 DEF LastJoin
  <2>3. ASSUME q[1].n = n, NEW m \in JoinsUp(p) PROVE FALSE
    <3>1. m + 1 \in JoinsUp(q) /\ m \in 1 .. Len(p)
      BY <1>4
    <3>2. m + 1 <= 1
      BY <2>2, <2>3, <3>1
    <3>3. QED BY <1>2, <3>1, <3>2
  <2>4. ASSUME q[1].n # n PROVE JoinsUp(p) # {}
    <3>1. PICK m \in JoinsUp(q) : ~(m <= 1)
      BY <2>2, <2>4
    <3>2. QED BY <1>4, <3>1
  <2>5. QED BY <2>1, <2>2, <2>3, <2>4
<1>8. QED BY <1>3, <1>5, <1>6, <1>7 DEF p

-----------------------------------------------------------------------------
\* Where messages are stored

\* What a connected widget has on its way to the gateway; another has nothing.
Sends(c) ==
    IF c \in linked THEN Chained(up[c], sock[c].room, asked[c]) /\ LastJoin(up[c], latest[c], asked[c])
    ELSE up[c] = << >>

SentInv == ChatTypeOK /\ \A c \in Clients : Sends(c)

\* What a widget has does not change with what others have.
LEMMA SendsElsewhere ==
  ASSUME NEW c, Sends(c), up'[c] = up[c], sock'[c] = sock[c], asked'[c] = asked[c],
         latest'[c] = latest[c], c \in linked <=> c \in linked'
  PROVE  Sends(c)'
BY DEF Sends

\* A join that is emitted is the newest of its widget.
LEMMA Emitted ==
  ASSUME SentInv, NEW c \in Clients, NEW r \in Rooms, EmitJoin(c, r), c \in linked', UNCHANGED sock
  PROVE  /\ asked'[c] = r /\ latest'[c] = latest[c] + 1 /\ JoinsUp(up[c]') # {} /\ Sends(c)'
         /\ \A d \in Clients \ {c} :
               up'[d] = up[d] /\ asked'[d] = asked[d] /\ latest'[d] = latest[d]
<1>1. /\ up \in [Clients -> Seq(Upward)] /\ asked \in [Clients -> Rooms]
      /\ latest \in [Clients -> Nat]
  BY DEF SentInv, ChatTypeOK
<1>2. /\ asked'[c] = r /\ latest'[c] = latest[c] + 1 /\ latest[c] \in Nat
      /\ \A d \in Clients \ {c} : asked'[d] = asked[d] /\ latest'[d] = latest[d]
  BY <1>1 DEF EmitJoin
<1>3. PICK m \in Upward : m = [ev |-> "join", room |-> r, n |-> latest[c] + 1]
  <2>1. latest[c] + 1 \in Nat
    BY <1>2
  <2>2. [ev |-> "join", room |-> r, n |-> latest[c] + 1] \in Upward
    BY <2>1, WireEvents
  <2>3. QED BY <2>2
<1>4. up' = Put(up, {c}, m)
  BY <1>2, <1>3 DEF EmitJoin, JoinEvent
<1>5. up'[c] = Append(up[c], m) /\ \A d \in Clients \ {c} : up'[d] = up[d]
  <2>1. \A d \in Clients : Put(up, {c}, m)[d] = IF d \in {c} THEN Append(up[d], m) ELSE up[d]
    BY <1>1, PutOnTheWay
  <2>2. QED BY <1>4, <2>1
<1>6. Chained(up[c], sock[c].room, asked[c]) \/ up[c] = << >>
  BY DEF SentInv, Sends
<1>7. LastJoin(up[c], latest[c], asked[c])
  <2>1. CASE c \in linked
    BY <2>1 DEF SentInv, Sends
  <2>2. CASE c \notin linked
    <3>1. up[c] = << >> /\ Len(<< >>) = 0
      BY <2>2, EmptySeq DEF SentInv, Sends
    <3>2. QED BY <3>1 DEF LastJoin, JoinsUp
  <2>3. QED BY <2>1, <2>2
<1>8. m.ev = "join" /\ m.n = latest[c] + 1 /\ m.room = r /\ up[c] \in Seq(Upward)
  BY <1>1, <1>3
<1>9. PICK q \in Seq(Upward) : q = up[c]
  BY <1>8
<1>10. /\ Chained(Append(q, m), sock[c].room, m.room)
       /\ LastJoin(Append(q, m), latest[c] + 1, m.room) /\ JoinsUp(Append(q, m)) # {}
  BY <1>2, <1>6, <1>7, <1>8, <1>9, JoinAdded
<1>11. PICK p : p = Append(q, m)
  OBVIOUS
<1>12. up'[c] = p /\ Chained(p, sock[c].room, r) /\ LastJoin(p, latest[c] + 1, r) /\ JoinsUp(p) # {}
  BY <1>5, <1>8, <1>9, <1>10, <1>11
<1>13. Sends(c)'
  BY <1>2, <1>12 DEF Sends
<1>14. QED BY <1>2, <1>5, <1>12, <1>13

\* A message that is written is sent to the room asked for last.
LEMMA SendEmitted ==
  ASSUME SentInv, NEW c \in Clients, HandleSend(c)
  PROVE  /\ Sends(c)' /\ c \in linked /\ UNCHANGED <<sock, linked, asked, latest>>
         /\ JoinsUp(up[c]') = JoinsUp(up[c]) /\ \A d \in Clients \ {c} : up'[d] = up[d]
<1>1. /\ c \in linked
      /\ up' = Put(up, {c}, [ev |-> "send", shown |-> room[c], asked |-> asked[c]])
      /\ UNCHANGED <<sock, linked, asked, latest>>
  BY DEF HandleSend, CanSend, gateway, seen
<1>2. /\ up \in [Clients -> Seq(Upward)] /\ room[c] \in Rooms /\ asked[c] \in Rooms
  BY DEF SentInv, ChatTypeOK
<1>3. PICK m \in Upward : m = [ev |-> "send", shown |-> room[c], asked |-> asked[c]]
  BY <1>2, WireEvents
<1>4. \A d \in Clients : up'[d] = IF d \in {c} THEN Append(up[d], m) ELSE up[d]
  <2>1. \A d \in Clients : Put(up, {c}, m)[d] = IF d \in {c} THEN Append(up[d], m) ELSE up[d]
    BY <1>2, PutOnTheWay
  <2>2. QED BY <1>1, <1>3, <2>1
<1>5. Chained(up[c], sock[c].room, asked[c]) /\ LastJoin(up[c], latest[c], asked[c])
  BY <1>1 DEF SentInv, Sends
<1>6. PICK q \in Seq(Upward) : q = up[c]
  BY <1>2
<1>7. m.ev = "send" /\ m.asked = asked[c]
  BY <1>3
<1>8. /\ Chained(Append(q, m), sock[c].room, asked[c]) /\ LastJoin(Append(q, m), latest[c], asked[c])
      /\ JoinsUp(Append(q, m)) = JoinsUp(q)
  <2>1. Chained(q, sock[c].room, asked[c]) /\ LastJoin(q, latest[c], asked[c])
    BY <1>5, <1>6
  <2>2. QED BY <1>7, <2>1, SendAdded
<1>9. up'[c] = Append(q, m)
  BY <1>4, <1>6
<1>10. Sends(c)'
  BY <1>1, <1>8, <1>9 DEF Sends
<1>11. JoinsUp(up[c]') = JoinsUp(up[c])
  BY <1>6, <1>8, <1>9
<1>12. QED BY <1>1, <1>4, <1>10, <1>11

\* The next of what a widget has on its way is taken.
LEMMA Taken ==
  ASSUME SentInv, NEW c \in Clients, up[c] # << >>, up' = Tail1(up, c)
  PROVE  /\ c \in linked /\ Head(up[c]) \in Upward
         /\ \A d \in Clients \ {c} : up'[d] = up[d]
         /\ Chained(up[c]', Place(Head(up[c])), asked[c]) /\ LastJoin(up[c]', latest[c], asked[c])
         /\ Head(up[c]).ev = "send" => /\ Head(up[c]).asked = sock[c].room
                                       /\ Place(Head(up[c])) = sock[c].room
                                       /\ (JoinsUp(up[c]') = {} <=> JoinsUp(up[c]) = {})
         /\ Head(up[c]).ev = "join" =>
               /\ Head(up[c]).n <= latest[c] /\ JoinsUp(up[c]) # {}
               /\ Head(up[c]).n = latest[c] => Head(up[c]).room = asked[c] /\ JoinsUp(up[c]') = {}
               /\ Head(up[c]).n # latest[c] => JoinsUp(up[c]') # {}
<1>1. up \in [Clients -> Seq(Upward)] /\ latest[c] \in Nat
  BY DEF SentInv, ChatTypeOK
<1>2. /\ up'[c] = Tail(up[c]) /\ \A d \in Clients \ {c} : up'[d] = up[d]
      /\ Head(up[c]) \in Upward /\ Head(up[c]) = up[c][1]
  <2>1. /\ Tail1(up, c)[c] = Tail(up[c])
        /\ \A d \in Clients : d # c => Tail1(up, c)[d] = up[d]
        /\ Head(up[c]) \in Upward /\ Head(up[c]) = up[c][1]
    BY <1>1, TakenFromTheWay
  <2>2. QED BY <2>1
<1>3. /\ c \in linked /\ Chained(up[c], sock[c].room, asked[c])
      /\ LastJoin(up[c], latest[c], asked[c])
  BY DEF SentInv, Sends
<1>4. PICK q \in Seq(Upward) : q = up[c]
  BY <1>1
<1>5. PICK p : p = Tail(q)
  OBVIOUS
<1>6. /\ Chained(p, Place(q[1]), asked[c]) /\ LastJoin(p, latest[c], asked[c])
      /\ q[1].ev = "send" => /\ q[1].asked = sock[c].room /\ Place(q[1]) = sock[c].room
                             /\ (JoinsUp(p) = {} <=> JoinsUp(q) = {})
      /\ q[1].ev = "join" => /\ q[1].n <= latest[c] /\ JoinsUp(q) # {}
                             /\ q[1].n = latest[c] => q[1].room = asked[c] /\ JoinsUp(p) = {}
                             /\ q[1].n # latest[c] => JoinsUp(p) # {}
  BY <1>1, <1>3, <1>4, <1>5, UpwardTaken
<1>7. up'[c] = p /\ Head(up[c]) = q[1]
  BY <1>2, <1>4, <1>5
<1>8. QED BY <1>2, <1>3, <1>4, <1>6, <1>7

\* A socket that is forgotten has nothing on its way.
LEMMA SendsForgotten ==
  ASSUME SentInv, NEW c \in Clients, Forget(c), UNCHANGED <<asked, latest>>
  PROVE  \A d \in Clients : Sends(d)'
<1>1. /\ linked' = linked \ {c} /\ up' = [up EXCEPT ![c] = << >>]
      /\ sock' = [sock EXCEPT ![c] = Closed]
      /\ up \in [Clients -> Seq(Upward)]
      /\ sock \in [Clients -> [rooms : SUBSET Rooms, room : Rooms \cup {NoRoom}]]
  BY DEF Forget, SentInv, ChatTypeOK
<1>2. Sends(c)'
  BY <1>1 DEF Sends
<1>3. ASSUME NEW d \in Clients, d # c PROVE Sends(d)'
  <2>1. up'[d] = up[d] /\ sock'[d] = sock[d] /\ (d \in linked <=> d \in linked')
    BY <1>1, <1>3
  <2>2. Sends(d) /\ asked'[d] = asked[d] /\ latest'[d] = latest[d]
    BY DEF SentInv
  <2>3. QED BY <2>1, <2>2, SendsElsewhere
<1>4. QED BY <1>2, <1>3

\* A message that the gateway takes was to go to the room it has.
LEMMA SendsTaken ==
  ASSUME SentInv, NEW c \in Clients, up[c] # << >>, up' = Tail1(up, c), Head(up[c]).ev = "send",
         UNCHANGED <<sock, linked, asked, latest>>
  PROVE  (\A d \in Clients : Sends(d)') /\ Head(up[c]).asked = sock[c].room
<1>1. /\ c \in linked /\ Head(up[c]).asked = sock[c].room
      /\ \A d \in Clients \ {c} : up'[d] = up[d]
      /\ Chained(up[c]', sock[c].room, asked[c]) /\ LastJoin(up[c]', latest[c], asked[c])
  BY Taken
<1>2. Sends(c)'
  BY <1>1 DEF Sends
<1>3. ASSUME NEW d \in Clients, d # c PROVE Sends(d)'
  <2>1. Sends(d) /\ up'[d] = up[d] /\ sock'[d] = sock[d] /\ (d \in linked <=> d \in linked')
        /\ asked'[d] = asked[d] /\ latest'[d] = latest[d]
    BY <1>1, <1>3 DEF SentInv
  <2>2. QED BY <2>1, SendsElsewhere
<1>4. QED BY <1>1, <1>2, <1>3

\* No step that leaves what is on its way upwards changes where it goes.
LEMMA SendsLeft ==
  ASSUME SentInv, UNCHANGED <<up, sock, linked, asked, latest>>
  PROVE  \A d \in Clients : Sends(d)'
BY SendsElsewhere DEF SentInv

\* Every step keeps where the messages of the widgets go.
LEMMA SendsKept ==
  ASSUME SentInv, ChatNext
  PROVE  \A d \in Clients : Sends(d)'
<1>1. ASSUME NEW c \in Clients, NEW r \in Rooms, EmitJoin(c, r), c \in linked', UNCHANGED sock,
             \A d \in Clients \ {c} : d \in linked <=> d \in linked'
      PROVE  \A d \in Clients : Sends(d)'
  <2>1. /\ Sends(c)'
        /\ \A d \in Clients \ {c} : up'[d] = up[d] /\ asked'[d] = asked[d] /\ latest'[d] = latest[d]
    BY <1>1, Emitted
  <2>2. ASSUME NEW d \in Clients, d # c PROVE Sends(d)'
    <3>1. Sends(d) /\ up'[d] = up[d] /\ sock'[d] = sock[d] /\ (d \in linked <=> d \in linked')
          /\ asked'[d] = asked[d] /\ latest'[d] = latest[d]
      BY <1>1, <2>1, <2>2 DEF SentInv
    <3>2. QED BY <3>1, SendsElsewhere
  <2>3. QED BY <2>1, <2>2
<1>2. ASSUME NEW c \in Clients, Connect(c) PROVE \A d \in Clients : Sends(d)'
  <2>1. /\ EmitJoin(c, FirstRoom) /\ linked' = linked \cup {c} /\ UNCHANGED sock
        /\ FirstRoom \in Rooms
    BY <1>2, ChatAssumption DEF Connect, gateway
  <2>2. QED BY <1>1, <2>1
<1>3. ASSUME NEW c \in Clients, NEW r \in Rooms, SwitchRoom(c, r)
      PROVE  \A d \in Clients : Sends(d)'
  <2>1. UNCHANGED <<sock, linked>>
    BY <1>3 DEF SwitchRoom, gateway
  <2>2. CASE c \in linked
    <3>1. EmitJoin(c, r)
      BY <1>3, <2>2 DEF SwitchRoom
    <3>2. QED BY <1>1, <2>1, <2>2, <3>1
  <2>3. CASE c \notin linked
    BY <1>3, <2>1, <2>3, SendsLeft DEF SwitchRoom, seen
  <2>4. QED BY <2>2, <2>3
<1>4. ASSUME NEW c \in Clients, HandleSend(c) PROVE \A d \in Clients : Sends(d)'
  <2>1. /\ Sends(c)' /\ c \in linked /\ UNCHANGED <<sock, linked, asked, latest>>
        /\ \A d \in Clients \ {c} : up'[d] = up[d]
    BY <1>4, SendEmitted
  <2>2. ASSUME NEW d \in Clients, d # c PROVE Sends(d)'
    <3>1. Sends(d) /\ up'[d] = up[d] /\ sock'[d] = sock[d] /\ (d \in linked <=> d \in linked')
          /\ asked'[d] = asked[d] /\ latest'[d] = latest[d]
      BY <2>1, <2>2 DEF SentInv
    <3>2. QED BY <3>1, SendsElsewhere
  <2>3. QED BY <2>1, <2>2
<1>5. ASSUME NEW c \in Clients, HandleJoinRoom(c) PROVE \A d \in Clients : Sends(d)'
  <2>1. /\ up[c] # << >> /\ Head(up[c]).ev = "join" /\ up' = Tail1(up, c)
        /\ sock' = [sock EXCEPT ![c] = In(Head(up[c]).room)]
        /\ UNCHANGED <<linked, asked, latest>>
    BY <1>5 DEF HandleJoinRoom, JoinTo, seen
  <2>2. /\ c \in linked /\ \A d \in Clients \ {c} : up'[d] = up[d]
        /\ Chained(up[c]', Place(Head(up[c])), asked[c]) /\ LastJoin(up[c]', latest[c], asked[c])
    BY <2>1, Taken
  <2>3. sock \in [Clients -> [rooms : SUBSET Rooms, room : Rooms \cup {NoRoom}]]
    BY DEF SentInv, ChatTypeOK
  <2>4. sock'[c].room = Place(Head(up[c])) /\ \A d \in Clients \ {c} : sock'[d] = sock[d]
    BY <2>1, <2>3 DEF In, Place
  <2>5. Sends(c)'
    BY <2>1, <2>2, <2>4 DEF Sends
  <2>6. ASSUME NEW d \in Clients, d # c PROVE Sends(d)'
    <3>1. Sends(d) /\ up'[d] = up[d] /\ sock'[d] = sock[d] /\ (d \in linked <=> d \in linked')
          /\ asked'[d] = asked[d] /\ latest'[d] = latest[d]
      BY <2>1, <2>2, <2>4, <2>6 DEF SentInv
    <3>2. QED BY <3>1, SendsElsewhere
  <2>7. QED BY <2>5, <2>6
<1>6. ASSUME NEW c \in Clients, RefuseMessage(c) PROVE \A d \in Clients : Sends(d)'
  BY <1>6, SendsTaken DEF RefuseMessage, gateway, seen
<1>7. ASSUME NEW c \in Clients, SaveMessage(c) \/ FailMessage(c) PROVE \A d \in Clients : Sends(d)'
  BY <1>7, SendsTaken DEF SaveMessage, FailMessage, Accept, seen
<1>8. ASSUME NEW c \in Clients, Disconnect(c) \/ Remount(c) PROVE \A d \in Clients : Sends(d)'
  BY <1>8, SendsForgotten DEF Disconnect, Remount, seen
<1>9. ASSUME NEW c \in Clients, Refuse(c) \/ ShowHistory(c) \/ ShowMessage(c) \/ TwoSecondsPass(c)
      PROVE  \A d \in Clients : Sends(d)'
  BY <1>9, SendsLeft DEF Refuse, ShowHistory, ShowMessage, TwoSecondsPass, gateway, link, seen
<1>10. ASSUME NEW j \in joins, GetHistory(j) \/ AnswerJoin(j) \/ FailJoin(j)
       PROVE  \A d \in Clients : Sends(d)'
  BY <1>10, SendsLeft DEF GetHistory, AnswerJoin, FailJoin, link, seen
<1>11. ASSUME \/ \E i \in sending : PushMessage(i)
              \/ \E r \in Rooms : SaveOther(r)
              \/ CleanupOldMessages
       PROVE  \A d \in Clients : Sends(d)'
  BY <1>11, SendsLeft DEF PushMessage, SaveOther, CleanupOldMessages, gateway, link, seen
<1>12. QED BY <1>2, <1>3, <1>4, <1>5, <1>6, <1>7, <1>8, <1>9, <1>10, <1>11 DEF ChatNext

\* Every step keeps the types.
LEMMA TypesKept ==
  ASSUME SentInv, ChatNext
  PROVE  ChatTypeOK'
<1>1. ChatTypeOK
  BY DEF SentInv
<1>2. ASSUME NEW c \in Clients, up[c] # << >>
      PROVE  c \in linked /\ (Head(up[c]).ev = "join" => Head(up[c]).n <= latest[c])
  <2>1. c \in linked /\ LastJoin(up[c], latest[c], asked[c])
    BY <1>2 DEF SentInv, Sends
  <2>2. up[c] \in Seq(Upward)
    BY <1>1 DEF ChatTypeOK
  <2>3. Head(up[c]) = up[c][1] /\ 1 \in 1 .. Len(up[c])
    BY <1>2, <2>2, EmptySeq
  <2>4. QED BY <2>1, <2>3 DEF LastJoin, JoinsUp
<1>3. ASSUME NEW c \in Clients,
             \/ HandleJoinRoom(c) \/ RefuseMessage(c) \/ SaveMessage(c) \/ FailMessage(c)
             \/ TwoSecondsPass(c)
      PROVE  ChatTypeOK'
  BY <1>1, <1>2, <1>3, GatewayTypes
<1>4. QED BY <1>1, <1>3, WidgetTypes, HandlerTypes, StoredTypes DEF ChatNext

\* A message is stored in the room that its widget had asked for last.
Sent == \A i \in Ids : rows[i].room = rows[i].asked

\* What every step keeps holds of the initial states.
LEMMA SentStarts == ChatInit => SentInv /\ Sent
<1> SUFFICES ASSUME ChatInit PROVE SentInv /\ Sent
  OBVIOUS
<1>1. /\ FirstRoom \in Rooms /\ MaxSteps \in Nat
  BY ChatAssumption
<1>2. /\ << >> \in Seq([room : Rooms, shown : Rooms, asked : Rooms])
      /\ << >> \in Seq(Upward) /\ << >> \in Seq(Downward) /\ << >> \in Seq(Nat) /\ Len(<< >>) = 0
  BY EmptySeq
<1>3. ChatTypeOK
  <2>1. /\ rows \in Seq([room : Rooms, shown : Rooms, asked : Rooms])
        /\ dropped \in 0 .. Len(rows) /\ sending \subseteq Ids
    BY <1>2 DEF ChatInit, Ids
  <2>2. sock \in [Clients -> [rooms : SUBSET Rooms, room : Rooms \cup {NoRoom}]]
    BY DEF ChatInit, Closed
  <2>3. /\ up \in [Clients -> Seq(Upward)] /\ down \in [Clients -> Seq(Downward)]
        /\ messages \in [Clients -> Seq(Nat)]
    BY <1>2 DEF ChatInit
  <2>4. /\ room \in [Clients -> Rooms] /\ asked \in [Clients -> Rooms]
        /\ blurred \in [Clients -> SUBSET Nat]
        /\ latest \in [Clients -> Nat] /\ shows \in [Clients -> Nat] /\ steps \in 0 .. MaxSteps
    BY <1>1 DEF ChatInit
  <2>5. QED BY <2>1, <2>2, <2>3, <2>4 DEF ChatTypeOK, ChatInit
<1>4. \A c \in Clients : Sends(c)
  BY DEF ChatInit, Sends
<1>5. QED BY <1>2, <1>3, <1>4 DEF SentInv, Sent, Ids, ChatInit

\* A step stores a message only in the room that its widget had asked for last.
LEMMA SentKept ==
  ASSUME SentInv, Sent, ChatNext
  PROVE  Sent'
<1>1. rows \in Seq([room : Rooms, shown : Rooms, asked : Rooms])
  BY DEF SentInv, ChatTypeOK
<1>2. ASSUME NEW x \in [room : Rooms, shown : Rooms, asked : Rooms], rows' = Append(rows, x),
             x.room = x.asked
      PROVE  Sent'
  <2>1. /\ rows'[Len(rows')] = x /\ \A i \in Ids : rows'[i] = rows[i]
        /\ Ids' = Ids \cup {Len(rows')}
    BY <1>1, <1>2, MoreRows
  <2>2. QED BY <1>2, <2>1 DEF Sent
<1>3. ASSUME NEW c \in Clients, SaveMessage(c) PROVE Sent'
  <2>1. /\ up[c] # << >> /\ Head(up[c]).ev = "send" /\ sock[c].room # NoRoom
        /\ up' = Tail1(up, c) /\ UNCHANGED <<sock, linked, asked, latest>>
        /\ rows' = Append(rows, [room |-> sock[c].room, shown |-> Head(up[c]).shown,
                                 asked |-> Head(up[c]).asked])
    BY <1>3 DEF SaveMessage, Accept, seen
  <2>2. Head(up[c]).asked = sock[c].room
    BY <2>1, SendsTaken
  <2>3. Head(up[c]) \in Upward
    BY <2>1, Taken
  <2>4. Head(up[c]).shown \in Rooms /\ Head(up[c]).asked \in Rooms
    BY <2>1, <2>3, WireEvents
  <2>5. PICK x \in [room : Rooms, shown : Rooms, asked : Rooms] :
           x = [room |-> sock[c].room, shown |-> Head(up[c]).shown, asked |-> Head(up[c]).asked]
    BY <2>2, <2>4
  <2>6. x.room = x.asked
    BY <2>2, <2>5
  <2>7. QED BY <1>2, <2>1, <2>5, <2>6
<1>4. ASSUME NEW r \in Rooms, SaveOther(r) PROVE Sent'
  <2>1. PICK x \in [room : Rooms, shown : Rooms, asked : Rooms] : x = [room |-> r, shown |-> r, asked |-> r]
    OBVIOUS
  <2>2. rows' = Append(rows, x) /\ x.room = x.asked
    BY <1>4, <2>1 DEF SaveOther
  <2>3. QED BY <1>2, <2>2
<1>5. ASSUME UNCHANGED rows PROVE Sent'
  BY <1>5 DEF Sent, Ids
<1>6. ASSUME NEW c \in Clients,
             \/ Connect(c) \/ Refuse(c) \/ HandleSend(c) \/ ShowHistory(c) \/ ShowMessage(c)
             \/ Disconnect(c) \/ Remount(c) \/ (\E r \in Rooms : SwitchRoom(c, r))
      PROVE  UNCHANGED rows
  BY <1>6 DEF Connect, Refuse, HandleSend, ShowHistory, ShowMessage, Disconnect, Remount,
              SwitchRoom, stored
<1>7. ASSUME NEW c \in Clients,
             HandleJoinRoom(c) \/ RefuseMessage(c) \/ FailMessage(c) \/ TwoSecondsPass(c)
      PROVE  UNCHANGED rows
  BY <1>7 DEF HandleJoinRoom, JoinTo, RefuseMessage, FailMessage, TwoSecondsPass, stored
<1>8. ASSUME NEW j \in joins, GetHistory(j) \/ AnswerJoin(j) \/ FailJoin(j)
      PROVE  UNCHANGED rows
  BY <1>8 DEF GetHistory, AnswerJoin, FailJoin, stored
<1>9. ASSUME (\E i \in sending : PushMessage(i)) \/ CleanupOldMessages
      PROVE  UNCHANGED rows
  BY <1>9 DEF PushMessage, CleanupOldMessages
<1>10. QED BY <1>3, <1>4, <1>5, <1>6, <1>7, <1>8, <1>9 DEF ChatNext

\* What stutters keeps it all.
LEMMA SentStutters == SentInv /\ Sent /\ UNCHANGED chatVars => SentInv' /\ Sent'
BY DEF SentInv, Sent, Sends, ChatTypeOK, Ids, chatVars, stored, gateway, link, widget, seen

\* What every step keeps holds always.
LEMMA SentAlways == ChatSpec => [](SentInv /\ Sent)
<1>1. ChatInit => SentInv /\ Sent
  BY SentStarts
<1>2. SentInv /\ Sent /\ [ChatNext]_chatVars => SentInv' /\ Sent'
  BY SendsKept, TypesKept, SentKept, SentStutters DEF SentInv
<1>3. QED BY <1>1, <1>2, PTL DEF ChatSpec

\* Type correctness: no join, message, answer or lost link takes a variable of the chat
\* out of its type, and no handler or number is left to a socket that is not linked.
THEOREM ChatTypes == ChatSpec => []ChatTypeOK
<1>1. SentInv /\ Sent => ChatTypeOK
  BY DEF SentInv
<1>2. QED BY <1>1, SentAlways, PTL

\* A message is stored in the room its sender saw chosen, if the widget had asked for it:
\* the handlers of a socket take the room before they await, in the order of its events.
THEOREM StoredWhereShown == ChatSpec => []SentWhereShown
<1>1. Sent => SentWhereShown
  BY DEF Sent, SentWhereShown
<1>2. QED BY <1>1, SentAlways, PTL

-----------------------------------------------------------------------------
\* What a widget is told

\* Pushes of message i in q beyond the p-th place.
Coming(q, p, i) == {k \in p + 1 .. Len(q) : q[k].ev = "new_message" /\ q[k].id = i}

\* Message i is shown by h, or on its way in q beyond p, or being sent, once; or it is old.
Once(rw, d, s, h, q, p, i) ==
    \/ OneOf(Places(h, i)) /\ Coming(q, p, i) = {} /\ i \notin s
    \/ Places(h, i) = {} /\ OneOf(Coming(q, p, i)) /\ i \notin s
    \/ Places(h, i) = {} /\ Coming(q, p, i) = {} /\ (i \in s \/ Old(rw, d, i))

\* A widget that shows h, q being on its way beyond p, shows room r, or will, but for b.
Tells(rw, d, s, h, q, p, b, r) ==
    /\ b \subseteq 1 .. Len(rw)
    /\ \A k \in 1 .. Len(h) : h[k] \in 1 .. Len(rw) /\ rw[h[k]].room = r
    /\ \A k \in p + 1 .. Len(q) :
          q[k].ev = "new_message" => q[k].id \in 1 .. Len(rw) /\ rw[q[k].id].room = r
    /\ \A i \in (1 .. Len(rw)) \ b : rw[i].room = r => Once(rw, d, s, h, q, p, i)

\* The rows as they are stored.
Rows == Seq([room : Rooms, shown : Rooms, asked : Rooms])

\* A message that is old stays so.
LEMMA OldStays ==
  ASSUME NEW rw, NEW x, Len(rw) \in Nat, Len(x) \in Nat, Len(rw) <= Len(x),
         \A i \in 1 .. Len(rw) : x[i] = rw[i],
         NEW d \in Nat, NEW e \in Nat, d <= e, NEW i \in 1 .. Len(rw), Old(rw, d, i)
  PROVE  Old(x, e, i)
<1> DEFINE V == {k \in 1 .. Len(rw) : k > i /\ rw[k].room = rw[i].room}
           W == {k \in 1 .. Len(x) : k > i /\ x[k].room = x[i].room}
<1>1. V \in SUBSET W /\ W \in SUBSET (1 .. Len(x))
  OBVIOUS
<1>2. (i <= d) \/ Cardinality(V) >= HistoryLimit
  BY DEF Old
<1>3. (i <= e) \/ Cardinality(W) >= HistoryLimit => Old(x, e, i)
  BY DEF Old
<1> HIDE DEF V, W
<1>4. IsFiniteSet(1 .. Len(x))
  <2>1. Len(x) \in Int /\ 1 \in Int
    OBVIOUS
  <2>2. QED BY <2>1, FS_Interval
<1>5. IsFiniteSet(W) /\ Cardinality(W) \in Nat
  BY <1>1, <1>4, FS_Subset, FS_CardinalityType
<1>6. Cardinality(V) <= Cardinality(W) /\ Cardinality(V) \in Nat
  BY <1>1, <1>5, FS_Subset, FS_CardinalityType
<1>7. HistoryLimit \in Nat
  BY ChatAssumption
<1>8. QED BY <1>2, <1>3, <1>5, <1>6, <1>7

\* What is cleaned up, and a message that is stored, change nothing in what a widget is told.
LEMMA TellsMore ==
  ASSUME NEW rw, NEW x, Len(rw) \in Nat, Len(x) \in Nat, Len(rw) <= Len(x),
         \A i \in 1 .. Len(rw) : x[i] = rw[i],
         NEW d \in Nat, NEW e \in Nat, d <= e,
         NEW s, NEW t, \A i \in 1 .. Len(rw) : i \in t <=> i \in s,
         \A i \in (1 .. Len(x)) \ (1 .. Len(rw)) : i \in t,
         NEW h, NEW q, NEW p \in Nat, NEW b, NEW r, Tells(rw, d, s, h, q, p, b, r)
  PROVE  Tells(x, e, t, h, q, p, b, r)
<1>1. 1 .. Len(rw) \subseteq 1 .. Len(x)
  OBVIOUS
<1>2. b \subseteq 1 .. Len(x)
  BY <1>1 DEF Tells
<1>3. \A k \in 1 .. Len(h) : h[k] \in 1 .. Len(rw) /\ h[k] \in 1 .. Len(x) /\ x[h[k]].room = r
  BY <1>1 DEF Tells
<1>4. \A k \in p + 1 .. Len(q) : q[k].ev = "new_message" =>
         q[k].id \in 1 .. Len(rw) /\ q[k].id \in 1 .. Len(x) /\ x[q[k].id].room = r
  BY <1>1 DEF Tells
<1>5. ASSUME NEW i \in (1 .. Len(x)) \ b, x[i].room = r PROVE Once(x, e, t, h, q, p, i)
  <2>1. CASE i \in 1 .. Len(rw)
    <3>1. Once(rw, d, s, h, q, p, i)
      BY <1>5, <2>1 DEF Tells
    <3>2. Old(rw, d, i) => Old(x, e, i)
      BY <2>1, OldStays
    <3>3. i \in t <=> i \in s
      BY <2>1
    <3>4. QED BY <3>1, <3>2, <3>3 DEF Once
  <2>2. CASE i \notin 1 .. Len(rw)
    <3>1. i \in t
      BY <2>2
    <3>2. Places(h, i) = {}
      BY <1>3, <2>2 DEF Places
    <3>3. Coming(q, p, i) = {}
      BY <1>4, <2>2 DEF Coming
    <3>4. QED BY <3>1, <3>2, <3>3 DEF Once
  <2>3. QED BY <2>1, <2>2
<1>6. QED BY <1>2, <1>3, <1>4, <1>5 DEF Tells

\* Nor do they in what a handler has read.
LEMMA RecallsMore ==
  ASSUME NEW rw, NEW x, Len(rw) \in Nat, Len(x) \in Nat, Len(rw) <= Len(x),
         \A i \in 1 .. Len(rw) : x[i] = rw[i],
         NEW d \in Nat, NEW e \in Nat, d <= e,
         NEW h, NEW n \in 0 .. Len(rw), NEW r, Recalls(rw, d, h, n, r)
  PROVE  Recalls(x, e, h, n, r)
<1>1. 1 .. n \subseteq 1 .. Len(rw)
  OBVIOUS
<1>2. \A k \in 1 .. Len(h) : h[k] \in 1 .. n /\ x[h[k]].room = r
  BY <1>1 DEF Recalls
<1>3. ASSUME NEW i \in 1 .. n, x[i].room = r
      PROVE  OneOf(Places(h, i)) \/ (Places(h, i) = {} /\ Old(x, e, i))
  <2>1. i \in 1 .. Len(rw) /\ rw[i].room = r
    BY <1>1, <1>3
  <2>2. Old(rw, d, i) => Old(x, e, i)
    BY <2>1, OldStays
  <2>3. QED BY <2>1, <2>2 DEF Recalls
<1>4. QED BY <1>2, <1>3 DEF Recalls

\* A history that is answered tells the room, but for what was stored or pushed across it.
LEMMA TellsAnswered ==
  ASSUME NEW rw, Len(rw) \in Nat, NEW d, NEW s, NEW h, NEW n \in 0 .. Len(rw), NEW r,
         Recalls(rw, d, h, n, r), NEW q, NEW p, Len(q) = p, p \in Nat
  PROVE  Tells(rw, d, s, h, q, p, {i \in 1 .. Len(rw) : rw[i].room = r /\ ((i \in s) = (i <= n))}, r)
<1> DEFINE b == {i \in 1 .. Len(rw) : rw[i].room = r /\ ((i \in s) = (i <= n))}
<1>1. \A i : Coming(q, p, i) = {}
  BY DEF Coming
<1>2. ASSUME NEW i \in (1 .. Len(rw)) \ b, rw[i].room = r PROVE Once(rw, d, s, h, q, p, i)
  <2>1. CASE i <= n
    <3>1. i \notin s /\ i \in 1 .. n
      BY <1>2, <2>1
    <3>2. OneOf(Places(h, i)) \/ (Places(h, i) = {} /\ Old(rw, d, i))
      BY <1>2, <3>1 DEF Recalls
    <3>3. QED BY <1>1, <3>1, <3>2 DEF Once
  <2>2. CASE ~(i <= n)
    <3>1. i \in s /\ i \notin 1 .. n
      BY <1>2, <2>2
    <3>2. Places(h, i) = {}
      BY <3>1 DEF Recalls, Places
    <3>3. QED BY <1>1, <3>1, <3>2 DEF Once
  <2>3. QED BY <2>1, <2>2
<1>3. \A k \in 1 .. Len(h) : h[k] \in 1 .. Len(rw) /\ rw[h[k]].room = r
  BY DEF Recalls
<1>4. b \subseteq 1 .. Len(rw)
  OBVIOUS
<1> HIDE DEF b
<1>5. Tells(rw, d, s, h, q, p, b, r)
  BY <1>2, <1>3, <1>4 DEF Tells
<1>6. QED BY <1>5 DEF b

\* A message that is pushed is on its way to those who are in its room.
LEMMA TellsPushed ==
  ASSUME NEW rw, NEW d, NEW s, NEW h, NEW q \in Seq(Downward), NEW p \in 0 .. Len(q), NEW b, NEW r,
         Tells(rw, d, s, h, q, p, b, r), NEW i0 \in s, i0 \in 1 .. Len(rw), Len(rw) \in Nat,
         NEW m \in Downward, m.ev = "new_message", m.id = i0
  PROVE  /\ rw[i0].room = r => Tells(rw, d, s \ {i0}, h, Append(q, m), p, b, r)
         /\ rw[i0].room # r => Tells(rw, d, s \ {i0}, h, q, p, b, r)
<1> DEFINE x == Append(q, m)
<1>1. /\ Len(q) \in Nat /\ Len(x) = Len(q) + 1 /\ x[Len(q) + 1] = m
      /\ \A k \in 1 .. Len(q) : x[k] = q[k]
  BY AppendProperties, LenProperties
<1> HIDE DEF x
<1>2. \A i : i # i0 => Coming(x, p, i) = Coming(q, p, i)
  BY <1>1 DEF Coming
<1>3. Coming(x, p, i0) = Coming(q, p, i0) \cup {Len(q) + 1}
  BY <1>1 DEF Coming
<1>4. ASSUME rw[i0].room = r PROVE Tells(rw, d, s \ {i0}, h, x, p, b, r)
  <2>1. ASSUME NEW k \in p + 1 .. Len(x), x[k].ev = "new_message"
        PROVE  x[k].id \in 1 .. Len(rw) /\ rw[x[k].id].room = r
    <3>1. CASE k = Len(q) + 1
      BY <1>1, <1>4, <3>1
    <3>2. CASE k \in p + 1 .. Len(q)
      <4>1. x[k] = q[k]
        BY <1>1, <3>2
      <4>2. QED BY <2>1, <3>2, <4>1 DEF Tells
    <3>3. QED BY <1>1, <3>1, <3>2
  <2>2. ASSUME NEW i \in (1 .. Len(rw)) \ b, rw[i].room = r
        PROVE  Once(rw, d, s \ {i0}, h, x, p, i)
    <3>1. Once(rw, d, s, h, q, p, i)
      BY <2>2 DEF Tells
    <3>2. CASE i = i0
      <4>1. Places(h, i) = {} /\ Coming(q, p, i) = {}
        BY <3>1, <3>2 DEF Once
      <4>2. OneOf(Coming(x, p, i))
        BY <1>3, <3>2, <4>1 DEF OneOf
      <4>3. QED BY <3>2, <4>1, <4>2 DEF Once
    <3>3. CASE i # i0
      BY <1>2, <3>1, <3>3 DEF Once
    <3>4. QED BY <3>2, <3>3
  <2>3. QED BY <2>1, <2>2 DEF Tells
<1>5. ASSUME rw[i0].room # r PROVE Tells(rw, d, s \ {i0}, h, q, p, b, r)
  <2>1. ASSUME NEW i \in (1 .. Len(rw)) \ b, rw[i].room = r
        PROVE  Once(rw, d, s \ {i0}, h, q, p, i)
    <3>1. Once(rw, d, s, h, q, p, i) /\ i # i0
      BY <1>5, <2>1 DEF Tells
    <3>2. QED BY <3>1 DEF Once
  <2>2. QED BY <2>1 DEF Tells
<1>6. QED BY <1>4, <1>5 DEF x

\* A history that comes after changes nothing.
LEMMA TellsAnother ==
  ASSUME NEW rw, NEW d, NEW s, NEW h, NEW q \in Seq(Downward), NEW p \in 0 .. Len(q), NEW b, NEW r,
         Tells(rw, d, s, h, q, p, b, r), NEW m \in Downward, m.ev = "history"
  PROVE  Tells(rw, d, s, h, Append(q, m), p, b, r)
<1> DEFINE x == Append(q, m)
<1>1. /\ Len(q) \in Nat /\ Len(x) = Len(q) + 1 /\ x[Len(q) + 1] = m
      /\ \A k \in 1 .. Len(q) : x[k] = q[k]
  BY AppendProperties, LenProperties
<1> HIDE DEF x
<1>2. \A i : Coming(x, p, i) = Coming(q, p, i)
  BY <1>1 DEF Coming
<1>3. ASSUME NEW k \in p + 1 .. Len(x), x[k].ev = "new_message"
      PROVE  x[k].id \in 1 .. Len(rw) /\ rw[x[k].id].room = r
  <2>1. k \in p + 1 .. Len(q) /\ x[k] = q[k]
    BY <1>1, <1>3
  <2>2. QED BY <1>3, <2>1 DEF Tells
<1>4. \A i \in (1 .. Len(rw)) \ b : rw[i].room = r => Once(rw, d, s, h, x, p, i)
  BY <1>2 DEF Tells, Once
<1>5. Tells(rw, d, s, h, x, p, b, r)
  BY <1>3, <1>4 DEF Tells
<1>6. QED BY <1>5 DEF x

\* What is shown is on its way no longer.
LEMMA TellsShown ==
  ASSUME NEW rw, NEW d, NEW s, NEW h, NEW q \in Seq(Downward), q # << >>, NEW p \in 1 .. Len(q),
         NEW b, NEW r, Tells(rw, d, s, h, q, p, b, r)
  PROVE  Tells(rw, d, s, h, Tail(q), p - 1, b, r)
<1> DEFINE x == Tail(q)
<1>1. /\ Len(q) \in Nat \ {0} /\ Len(x) = Len(q) - 1
      /\ \A k \in 1 .. Len(q) - 1 : x[k] = q[k + 1]
  BY HeadTailProperties, EmptySeq, LenProperties
<1> HIDE DEF x
<1>2. \A k \in (p - 1) + 1 .. Len(x) : k + 1 \in p + 1 .. Len(q) /\ x[k] = q[k + 1]
  BY <1>1
<1>3. \A k \in p + 1 .. Len(q) : k - 1 \in (p - 1) + 1 .. Len(x) /\ x[k - 1] = q[k] /\ (k - 1) + 1 = k
  BY <1>1
<1>4. ASSUME NEW i PROVE /\ Coming(x, p - 1, i) = {} <=> Coming(q, p, i) = {}
                         /\ OneOf(Coming(q, p, i)) => OneOf(Coming(x, p - 1, i))
  <2>1. \A k \in Coming(x, p - 1, i) : k + 1 \in Coming(q, p, i) /\ k \in Nat
    BY <1>1, <1>2 DEF Coming
  <2>2. \A k \in Coming(q, p, i) : k - 1 \in Coming(x, p - 1, i) /\ k \in Nat
    BY <1>1, <1>3 DEF Coming
  <2>3. ASSUME OneOf(Coming(q, p, i)) PROVE OneOf(Coming(x, p - 1, i))
    <3>1. PICK k : Coming(q, p, i) = {k}
      BY <2>3 DEF OneOf
    <3>2. k - 1 \in Coming(x, p - 1, i) /\ k \in Nat
      BY <2>2, <3>1
    <3>3. \A j \in Coming(x, p - 1, i) : j + 1 = k /\ j \in Nat
      BY <2>1, <3>1
    <3>4. \A j \in Coming(x, p - 1, i) : j = k - 1
      BY <3>2, <3>3
    <3>5. QED BY <3>2, <3>4 DEF OneOf
  <2>4. QED BY <2>1, <2>2, <2>3
<1>5. ASSUME NEW k \in (p - 1) + 1 .. Len(x), x[k].ev = "new_message"
      PROVE  x[k].id \in 1 .. Len(rw) /\ rw[x[k].id].room = r
  BY <1>2, <1>5 DEF Tells
<1>6. ASSUME NEW i \in (1 .. Len(rw)) \ b, rw[i].room = r PROVE Once(rw, d, s, h, x, p - 1, i)
  BY <1>4, <1>6 DEF Tells, Once
<1>7. Tells(rw, d, s, h, x, p - 1, b, r)
  BY <1>5, <1>6 DEF Tells
<1>8. QED BY <1>7 DEF x

\* A message that is shown is on its way no longer.
LEMMA TellsAppended ==
  ASSUME NEW rw, NEW d, NEW s, NEW h \in Seq(Nat), NEW q \in Seq(Downward), q # << >>, NEW b, NEW r,
         Tells(rw, d, s, h, q, 0, b, r), q[1].ev = "new_message", q[1].id \in Nat
  PROVE  Tells(rw, d, s, Append(h, q[1].id), Tail(q), 0, b, r)
<1> DEFINE g == Append(h, q[1].id)
<1>1. Len(q) \in Nat \ {0}
  BY EmptySeq, LenProperties
<1>2. /\ Len(h) \in Nat /\ Len(g) = Len(h) + 1 /\ g[Len(h) + 1] = q[1].id
      /\ \A k \in 1 .. Len(h) : g[k] = h[k]
  BY AppendProperties, LenProperties
<1> HIDE DEF g
<1>3. \A i : i # q[1].id => Places(g, i) = Places(h, i)
  BY <1>2 DEF Places
<1>4. Places(g, q[1].id) = Places(h, q[1].id) \cup {Len(h) + 1}
  BY <1>2 DEF Places
<1>5. \A i : i # q[1].id => Coming(q, 1, i) = Coming(q, 0, i)
  BY <1>1 DEF Coming
<1>6. /\ 1 \in Coming(q, 0, q[1].id) /\ 1 \notin Coming(q, 1, q[1].id)
      /\ Coming(q, 1, q[1].id) \subseteq Coming(q, 0, q[1].id)
  BY <1>1 DEF Coming
<1>7. q[1].id \in 1 .. Len(rw) /\ rw[q[1].id].room = r
  BY <1>1 DEF Tells
<1>8. Tells(rw, d, s, g, q, 1, b, r)
  <2>1. ASSUME NEW k \in 1 .. Len(g) PROVE g[k] \in 1 .. Len(rw) /\ rw[g[k]].room = r
    <3>1. CASE k = Len(h) + 1
      BY <1>2, <1>7, <3>1
    <3>2. CASE k \in 1 .. Len(h)
      BY <1>2, <3>2 DEF Tells
    <3>3. QED BY <1>2, <3>1, <3>2
  <2>2. ASSUME NEW k \in 1 + 1 .. Len(q), q[k].ev = "new_message"
        PROVE  q[k].id \in 1 .. Len(rw) /\ rw[q[k].id].room = r
    BY <1>1, <2>2 DEF Tells
  <2>3. ASSUME NEW i \in (1 .. Len(rw)) \ b, rw[i].room = r PROVE Once(rw, d, s, g, q, 1, i)
    <3>1. Once(rw, d, s, h, q, 0, i)
      BY <2>3 DEF Tells
    <3>2. CASE i = q[1].id
      <4>1. Places(h, i) = {} /\ OneOf(Coming(q, 0, i)) /\ i \notin s
        BY <1>6, <3>1, <3>2 DEF Once
      <4>2. Coming(q, 1, i) = {}
        BY <1>6, <3>2, <4>1 DEF OneOf
      <4>3. OneOf(Places(g, i))
        BY <1>4, <3>2, <4>1 DEF OneOf
      <4>4. QED BY <4>1, <4>2, <4>3 DEF Once
    <3>3. CASE i # q[1].id
      BY <1>3, <1>5, <3>1, <3>3 DEF Once
    <3>4. QED BY <3>2, <3>3
  <2>4. QED BY <2>1, <2>2, <2>3 DEF Tells
<1>9. 1 \in 1 .. Len(q)
  BY <1>1
<1>10. Tells(rw, d, s, g, Tail(q), 1 - 1, b, r)
  BY <1>8, <1>9, TellsShown
<1>11. QED BY <1>10 DEF g

\* The histories in q of the n-th join.
Histories(q, n) == {p \in 1 .. Len(q) : q[p].ev = "history" /\ q[p].n = n}

\* No join is answered before it is made.
Numbers(c) ==
    /\ shows[c] <= latest[c]
    /\ \A p \in 1 .. Len(down[c]) : down[c][p].ev = "history" => down[c][p].n <= latest[c]

\* The newest join of a widget is on its way, in a handler, answered or shown: in one place.
Answering(c) == {j \in joins : j.c = c /\ j.n = latest[c]}
NewestJoin(c) ==
    /\ JoinsUp(up[c]) # {} =>
          Answering(c) = {} /\ Histories(down[c], latest[c]) = {} /\ shows[c] # latest[c]
    /\ JoinsUp(up[c]) = {} => sock[c] = In(asked[c])
    /\ \A j \in Answering(c) : /\ j.room = asked[c] /\ Answering(c) = {j}
                               /\ Histories(down[c], latest[c]) = {} /\ shows[c] # latest[c]
    /\ \A p \in Histories(down[c], latest[c]) :
          Histories(down[c], latest[c]) = {p} /\ shows[c] # latest[c]

\* The history it is answered, and what the widget shows of it, tell the room.
Told(c) ==
    /\ \A p \in Histories(down[c], latest[c]) :
          Tells(rows, dropped, sending, down[c][p].history, down[c], p, down[c][p].blurred, asked[c])
    /\ shows[c] = latest[c] =>
          Tells(rows, dropped, sending, messages[c], down[c], 0, blurred[c], asked[c])

Whole(c) == Numbers(c) /\ (c \in linked => NewestJoin(c) /\ Told(c))

\* What a handler has read, it has read of its room.
Reads ==
    \A j \in joins : j.read => /\ j.upto \in 0 .. Len(rows)
                               /\ Recalls(rows, dropped, j.history, j.upto, j.room)

\* What there is of a widget.
Mine(c) == <<up[c], down[c], sock[c], asked[c], latest[c], shows[c], messages[c], blurred[c],
             linked \cap {c}, {j \in joins : j.c = c}>>

\* The messages stored are those of before and more, which are being sent.
Grown ==
    /\ Len(rows) <= Len(rows') /\ dropped <= dropped'
    /\ \A i \in Ids : rows'[i] = rows[i] /\ (i \in sending' <=> i \in sending)
    /\ \A i \in Ids' \ Ids : i \in sending'

\* So they are when they are left as they are.
LEMMA StoredStays == ChatTypeOK /\ UNCHANGED stored => Grown
<1> SUFFICES ASSUME ChatTypeOK, UNCHANGED stored PROVE Grown
  OBVIOUS
<1>1. Len(rows) \in Nat /\ dropped \in Nat
  BY LenProperties DEF ChatTypeOK
<1>2. QED BY <1>1 DEF stored, Grown, Ids

\* What is told stays told when messages are stored or cleaned up.
LEMMA ToldGrown ==
  ASSUME ChatTypeOK, ChatTypeOK', Grown, NEW c \in Clients, Told(c),
         down'[c] = down[c], asked'[c] = asked[c], latest'[c] = latest[c], shows'[c] = shows[c],
         messages'[c] = messages[c], blurred'[c] = blurred[c]
  PROVE  Told(c)'
<1>1. /\ Len(rows) \in Nat /\ Len(rows') \in Nat /\ dropped \in Nat /\ dropped' \in Nat
      /\ down[c] \in Seq(Downward)
  BY LenProperties DEF ChatTypeOK
<1>2. PICK x : x = rows'
  OBVIOUS
<1>3. PICK e : e = dropped'
  OBVIOUS
<1>4. PICK t : t = sending'
  OBVIOUS
<1>5. /\ Len(rows) <= Len(x) /\ Len(x) \in Nat /\ dropped <= e /\ e \in Nat
      /\ \A i \in 1 .. Len(rows) : x[i] = rows[i] /\ (i \in t <=> i \in sending)
      /\ \A i \in (1 .. Len(x)) \ (1 .. Len(rows)) : i \in t
  BY <1>1, <1>2, <1>3, <1>4 DEF Grown, Ids
<1>6. ASSUME NEW h, NEW q, NEW p \in Nat, NEW b, NEW r, Tells(rows, dropped, sending, h, q, p, b, r)
      PROVE  Tells(x, e, t, h, q, p, b, r)
  BY <1>1, <1>5, <1>6, TellsMore
<1>7. ASSUME NEW p \in Histories(down[c], latest[c])
      PROVE  Tells(x, e, t, down[c][p].history, down[c], p, down[c][p].blurred, asked[c])
  <2>1. p \in Nat
    BY DEF Histories
  <2>2. Tells(rows, dropped, sending, down[c][p].history, down[c], p, down[c][p].blurred, asked[c])
    BY DEF Told
  <2>3. QED BY <1>6, <2>1, <2>2
<1>8. shows[c] = latest[c] => Tells(x, e, t, messages[c], down[c], 0, blurred[c], asked[c])
  BY <1>6 DEF Told
<1>9. QED BY <1>2, <1>3, <1>4, <1>7, <1>8 DEF Told

\* What another has changes nothing for a widget.
LEMMA WholeElsewhere ==
  ASSUME ChatTypeOK, ChatTypeOK', Grown, NEW c \in Clients, Whole(c), UNCHANGED Mine(c)
  PROVE  Whole(c)'
<1>1. /\ up'[c] = up[c] /\ down'[c] = down[c] /\ sock'[c] = sock[c] /\ asked'[c] = asked[c]
      /\ latest'[c] = latest[c] /\ shows'[c] = shows[c] /\ messages'[c] = messages[c]
      /\ blurred'[c] = blurred[c] /\ (c \in linked' <=> c \in linked)
      /\ {j \in joins' : j.c = c} = {j \in joins : j.c = c}
  BY DEF Mine
<1>2. Answering(c)' = Answering(c)
  BY <1>1 DEF Answering
<1>3. Numbers(c)'
  BY <1>1 DEF Whole, Numbers
<1>4. NewestJoin(c) => NewestJoin(c)'
  BY <1>1, <1>2 DEF NewestJoin
<1>5. Told(c) => Told(c)'
  BY <1>1, ToldGrown
<1>6. QED BY <1>1, <1>3, <1>4, <1>5 DEF Whole

\* The histories of what is on its way when more is, or less.
LEMMA HistoriesPut ==
  ASSUME NEW q \in Seq(Downward), NEW n, NEW m \in Downward
  PROVE  /\ Len(q) \in Nat /\ Len(Append(q, m)) = Len(q) + 1 /\ Append(q, m)[Len(q) + 1] = m
         /\ \A p \in 1 .. Len(q) : Append(q, m)[p] = q[p]
         /\ Histories(Append(q, m), n) =
               Histories(q, n) \cup {p \in {Len(q) + 1} : m.ev = "history" /\ m.n = n}
<1>1. /\ Len(q) \in Nat /\ Len(Append(q, m)) = Len(q) + 1 /\ Append(q, m)[Len(q) + 1] = m
      /\ \A p \in 1 .. Len(q) : Append(q, m)[p] = q[p]
  BY AppendProperties, LenProperties
<1>2. QED BY <1>1 DEF Histories

\* What is left of them when the first of what is on its way is taken.
LEMMA HistoriesTaken ==
  ASSUME NEW q \in Seq(Downward), q # << >>, NEW n
  PROVE  /\ Len(q) \in Nat \ {0} /\ Len(Tail(q)) = Len(q) - 1
         /\ \A p \in 1 .. Len(Tail(q)) : Tail(q)[p] = q[p + 1] /\ p + 1 \in 2 .. Len(q)
         /\ \A p \in Histories(Tail(q), n) : p + 1 \in Histories(q, n) /\ p \in Nat \ {0}
         /\ \A p \in Histories(q, n) : p = 1 \/ p - 1 \in Histories(Tail(q), n)
<1>1. /\ Len(q) \in Nat \ {0} /\ Len(Tail(q)) = Len(q) - 1
      /\ \A k \in 1 .. Len(q) - 1 : Tail(q)[k] = q[k + 1]
  BY HeadTailProperties, EmptySeq, LenProperties
<1> DEFINE x == Tail(q)
<1>2. Len(x) = Len(q) - 1 /\ \A k \in 1 .. Len(q) - 1 : x[k] = q[k + 1]
  BY <1>1
<1> HIDE DEF x
<1>3. /\ \A p \in Histories(x, n) : p + 1 \in Histories(q, n) /\ p \in Nat \ {0}
      /\ \A p \in Histories(q, n) : p = 1 \/ p - 1 \in Histories(x, n)
  <2>1. \A p \in Histories(q, n) : p = 1 \/ (p - 1 \in 1 .. Len(x) /\ x[p - 1] = q[p])
    BY <1>1, <1>2 DEF Histories
  <2>2. QED BY <1>1, <1>2, <2>1 DEF Histories
<1>4. \A p \in 1 .. Len(x) : x[p] = q[p + 1] /\ p + 1 \in 2 .. Len(q)
  BY <1>1, <1>2
<1>5. QED BY <1>1, <1>3, <1>4 DEF x

\* A join that is emitted is the newest, and nothing has answered it.
LEMMA WholeEmitted ==
  ASSUME SentInv, ChatTypeOK', \A d \in Clients : Whole(d),
         NEW c \in Clients, NEW r \in Rooms, EmitJoin(c, r), c \in linked',
         UNCHANGED <<stored, joins, sock, down>>,
         \A d \in Clients \ {c} : (d \in linked' <=> d \in linked) /\ messages'[d] = messages[d]
  PROVE  \A d \in Clients : Whole(d)'
<1>1. /\ asked'[c] = r /\ latest'[c] = latest[c] + 1 /\ JoinsUp(up[c]') # {}
      /\ \A d \in Clients \ {c} : up'[d] = up[d] /\ asked'[d] = asked[d] /\ latest'[d] = latest[d]
      /\ shows' = shows /\ blurred' = blurred /\ down' = down /\ sock' = sock /\ joins' = joins
  BY Emitted DEF EmitJoin
<1>2. ChatTypeOK /\ latest[c] \in Nat /\ shows[c] \in Nat
  BY DEF SentInv, ChatTypeOK
<1>3. /\ shows[c] <= latest[c]
      /\ \A p \in 1 .. Len(down[c]) : down[c][p].ev = "history" => down[c][p].n <= latest[c]
  BY DEF Whole, Numbers
<1>4. \A p \in 1 .. Len(down[c]) : down[c][p].ev = "history" => down[c][p].n \in Nat
  <2>1. down[c] \in Seq(Downward)
    BY <1>2 DEF ChatTypeOK
  <2>2. \A p \in 1 .. Len(down[c]) : down[c][p] \in Downward
    BY <2>1, ElementOfSeq
  <2>3. QED BY <2>2, WireEvents
<1>5. Numbers(c)'
  BY <1>1, <1>2, <1>3, <1>4 DEF Numbers
<1>6. Histories(down[c], latest[c] + 1) = {} /\ shows[c] # latest[c] + 1
  BY <1>2, <1>3, <1>4 DEF Histories
<1>7. Answering(c)' = {}
  <2>1. \A j \in joins : j.c \in Clients /\ j.n \in Nat /\ j.n <= latest[j.c]
    BY <1>2 DEF ChatTypeOK, Handler
  <2>2. \A j \in joins : j.c = c => j.n # latest[c] + 1
    BY <1>2, <2>1
  <2>3. QED BY <1>1, <2>2 DEF Answering
<1>8. NewestJoin(c)' /\ Told(c)'
  BY <1>1, <1>6, <1>7 DEF NewestJoin, Told
<1>9. Whole(c)'
  BY <1>5, <1>8 DEF Whole
<1>10. ASSUME NEW d \in Clients, d # c PROVE Whole(d)'
  <2>1. UNCHANGED Mine(d)
    BY <1>1, <1>10 DEF Mine
  <2>2. Grown
    BY <1>2, StoredStays
  <2>3. QED BY <1>2, <2>1, <2>2, WholeElsewhere
<1>11. QED BY <1>9, <1>10

\* A message that is sent changes nothing in what its widget is told.
LEMMA WholeSent ==
  ASSUME SentInv, ChatTypeOK', \A d \in Clients : Whole(d), NEW c \in Clients, HandleSend(c)
  PROVE  \A d \in Clients : Whole(d)'
<1>1. /\ JoinsUp(up[c]') = JoinsUp(up[c]) /\ \A d \in Clients \ {c} : up'[d] = up[d]
  BY SendEmitted
<1>2. UNCHANGED <<rows, dropped, sending, joins, sock, linked, down, messages, asked, latest, shows, blurred>>
  BY DEF HandleSend, stored, gateway, widget, seen
<1>3. ChatTypeOK
  BY DEF SentInv
<1>4. Grown
  BY <1>2, <1>3, StoredStays DEF stored
<1>5. Whole(c)'
  <2>1. Numbers(c)'
    BY <1>2 DEF Whole, Numbers
  <2>2. NewestJoin(c) => NewestJoin(c)'
    BY <1>1, <1>2 DEF NewestJoin, Answering
  <2>3. Told(c) => Told(c)'
    BY <1>2 DEF Told
  <2>4. QED BY <1>2, <2>1, <2>2, <2>3 DEF Whole
<1>6. ASSUME NEW d \in Clients, d # c PROVE Whole(d)'
  <2>1. UNCHANGED Mine(d)
    BY <1>1, <1>2, <1>6 DEF Mine
  <2>2. QED BY <1>3, <1>4, <2>1, WholeElsewhere
<1>7. QED BY <1>5, <1>6

\* Nor does a message that the gateway gets, stored or not.
LEMMA WholeTaken ==
  ASSUME SentInv, ChatTypeOK', \A d \in Clients : Whole(d), Grown,
         NEW c \in Clients, up[c] # << >>, Head(up[c]).ev = "send", up' = Tail1(up, c),
         UNCHANGED <<joins, sock, linked, down, messages, asked, latest, shows, blurred>>
  PROVE  \A d \in Clients : Whole(d)'
<1>1. /\ JoinsUp(up[c]') = {} <=> JoinsUp(up[c]) = {}
      /\ \A d \in Clients \ {c} : up'[d] = up[d]
  BY Taken
<1>2. ChatTypeOK
  BY DEF SentInv
<1>3. Whole(c)'
  <2>1. Numbers(c)'
    BY DEF Whole, Numbers
  <2>2. NewestJoin(c) => NewestJoin(c)'
    BY <1>1 DEF NewestJoin, Answering
  <2>3. Told(c) => Told(c)'
    BY <1>2, ToldGrown
  <2>4. QED BY <2>1, <2>2, <2>3 DEF Whole
<1>4. ASSUME NEW d \in Clients, d # c PROVE Whole(d)'
  <2>1. UNCHANGED Mine(d)
    BY <1>1, <1>4 DEF Mine
  <2>2. QED BY <1>2, <2>1, WholeElsewhere
<1>5. QED BY <1>3, <1>4

\* A join that the gateway gets is answered by a handler: the newest, if it is that.
LEMMA WholeJoined ==
  ASSUME SentInv, ChatTypeOK', \A d \in Clients : Whole(d), NEW c \in Clients, HandleJoinRoom(c)
  PROVE  \A d \in Clients : Whole(d)'
<1> DEFINE m == Head(up[c])
           e == [c |-> c, n |-> m.n, room |-> m.room, read |-> FALSE, history |-> << >>, upto |-> 0]
<1>1. /\ up[c] # << >> /\ m.ev = "join" /\ up' = Tail1(up, c) /\ joins' = joins \cup {e}
      /\ sock' = [sock EXCEPT ![c] = In(m.room)]
      /\ UNCHANGED <<rows, dropped, sending, linked, down, messages, asked, latest, shows, blurred>>
  BY DEF HandleJoinRoom, JoinTo, stored, widget, seen
<1>2. /\ c \in linked /\ \A d \in Clients \ {c} : up'[d] = up[d]
      /\ JoinsUp(up[c]) # {}
      /\ m.n = latest[c] => m.room = asked[c] /\ JoinsUp(up[c]') = {}
      /\ m.n # latest[c] => JoinsUp(up[c]') # {}
  BY <1>1, Taken
<1>3. /\ ChatTypeOK /\ sock \in [Clients -> [rooms : SUBSET Rooms, room : Rooms \cup {NoRoom}]]
  BY DEF SentInv, ChatTypeOK
<1>4. sock'[c] = In(m.room) /\ \A d \in Clients \ {c} : sock'[d] = sock[d]
  BY <1>1, <1>3
<1>5. e.c = c /\ e.n = m.n /\ e.room = m.room
  OBVIOUS
<1> HIDE DEF m, e
<1>6. Grown
  BY <1>1, <1>3, StoredStays DEF stored
<1>7. NewestJoin(c) /\ Told(c) /\ Numbers(c)
  BY <1>2 DEF Whole
<1>8. /\ Answering(c) = {} /\ Histories(down[c], latest[c]) = {} /\ shows[c] # latest[c]
  BY <1>2, <1>7 DEF NewestJoin
<1>9. Answering(c)' = IF m.n = latest[c] THEN {e} ELSE {}
  BY <1>1, <1>5, <1>8 DEF Answering
<1>10. NewestJoin(c)'
  BY <1>1, <1>2, <1>4, <1>5, <1>8, <1>9 DEF NewestJoin
<1>11. Numbers(c)' /\ Told(c)'
  BY <1>1, <1>7 DEF Numbers, Told
<1>12. ASSUME NEW d \in Clients, d # c PROVE Whole(d)'
  <2>1. {j \in joins' : j.c = d} = {j \in joins : j.c = d}
    BY <1>1, <1>5, <1>12
  <2>2. UNCHANGED Mine(d)
    BY <1>1, <1>2, <1>4, <1>12, <2>1 DEF Mine
  <2>3. QED BY <1>3, <1>6, <2>2, WholeElsewhere
<1>13. QED BY <1>10, <1>11, <1>12 DEF Whole

\* The first of what is on its way to a widget is taken.
LEMMA DownTaken ==
  ASSUME ChatTypeOK, NEW c \in Clients, down[c] # << >>, down' = Tail1(down, c)
  PROVE  /\ down[c] \in Seq(Downward) /\ down'[c] = Tail(down[c])
         /\ \A d \in Clients \ {c} : down'[d] = down[d]
         /\ Head(down[c]) = down[c][1] /\ down[c][1] \in Downward
<1>1. down \in [Clients -> Seq(Downward)]
  BY DEF ChatTypeOK
<1>2. /\ Tail1(down, c)[c] = Tail(down[c])
      /\ \A d \in Clients : d # c => Tail1(down, c)[d] = down[d]
      /\ Head(down[c]) \in Downward /\ Head(down[c]) = down[c][1]
  BY <1>1, TakenFromTheWay
<1>3. QED BY <1>1, <1>2

\* A history that is not the newest join's tells nothing; one that is tells the room.
LEMMA WholeHistory ==
  ASSUME SentInv, ChatTypeOK', \A d \in Clients : Whole(d), NEW c \in Clients, ShowHistory(c)
  PROVE  \A d \in Clients : Whole(d)'
<1>1. /\ down[c] # << >> /\ Head(down[c]).ev = "history" /\ down' = Tail1(down, c)
      /\ messages' = [messages EXCEPT ![c] = Head(down[c]).history]
      /\ shows' = [shows EXCEPT ![c] = Head(down[c]).n]
      /\ blurred' = [blurred EXCEPT ![c] = Head(down[c]).blurred]
      /\ UNCHANGED <<rows, dropped, sending, joins, sock, linked, up, asked, latest>>
  BY DEF ShowHistory, stored, gateway
<1>2. /\ ChatTypeOK /\ messages \in [Clients -> Seq(Nat)] /\ blurred \in [Clients -> SUBSET Nat]
      /\ shows \in [Clients -> Nat]
  BY DEF SentInv, ChatTypeOK
<1>3. /\ down[c] \in Seq(Downward) /\ down'[c] = Tail(down[c])
      /\ \A d \in Clients \ {c} : down'[d] = down[d]
      /\ Head(down[c]) = down[c][1] /\ down[c][1] \in Downward
  BY <1>1, <1>2, DownTaken
<1>4. Grown
  BY <1>1, <1>2, StoredStays DEF stored
<1>5. PICK q \in Seq(Downward) : q = down[c]
  BY <1>3
<1>6. PICK x : x = Tail(q)
  OBVIOUS
<1>7. /\ q # << >> /\ q[1].ev = "history" /\ down'[c] = x /\ shows'[c] = q[1].n
      /\ messages'[c] = q[1].history /\ blurred'[c] = q[1].blurred
  BY <1>1, <1>2, <1>3, <1>5, <1>6
<1>8. /\ Len(q) \in Nat \ {0} /\ Len(x) = Len(q) - 1
      /\ \A p \in 1 .. Len(x) : x[p] = q[p + 1] /\ p + 1 \in 2 .. Len(q)
      /\ \A p \in Histories(x, latest[c]) : p + 1 \in Histories(q, latest[c]) /\ p \in Nat \ {0}
  BY <1>6, <1>7, HistoriesTaken
<1>9. /\ Numbers(c) /\ (c \in linked => NewestJoin(c) /\ Told(c))
      /\ UNCHANGED <<rows, dropped, sending, joins, sock, linked, up, asked, latest>>
  BY <1>1 DEF Whole
<1>10. Numbers(c)'
  BY <1>5, <1>7, <1>8, <1>9 DEF Numbers
<1>11. Answering(c)' = Answering(c)
  BY <1>9 DEF Answering
<1>12. ASSUME c \in linked, q[1].n = latest[c] PROVE NewestJoin(c)' /\ Told(c)'
  <2>1. 1 \in Histories(q, latest[c])
    BY <1>7, <1>8, <1>12 DEF Histories
  <2>2. Histories(q, latest[c]) = {1} /\ Answering(c) = {} /\ JoinsUp(up[c]) = {}
        /\ sock[c] = In(asked[c])
    BY <1>5, <1>9, <1>12, <2>1 DEF NewestJoin
  <2>3. Histories(x, latest[c]) = {}
    BY <1>8, <2>2
  <2>4. NewestJoin(c)'
    BY <1>7, <1>9, <1>11, <1>12, <2>2, <2>3 DEF NewestJoin
  <2>5. Tells(rows, dropped, sending, q[1].history, q, 1, q[1].blurred, asked[c])
    BY <1>5, <1>9, <1>12, <2>1 DEF Told
  <2>6. 1 \in 1 .. Len(q) /\ 1 - 1 = 0
    BY <1>8
  <2>7. Tells(rows, dropped, sending, q[1].history, Tail(q), 1 - 1, q[1].blurred, asked[c])
    BY <1>7, <2>5, <2>6, TellsShown
  <2>8. Told(c)'
    BY <1>6, <1>7, <1>9, <2>3, <2>6, <2>7 DEF Told
  <2>9. QED BY <2>4, <2>8
<1>13. ASSUME c \in linked, q[1].n # latest[c] PROVE NewestJoin(c)' /\ Told(c)'
  <2>1. /\ \A p \in Histories(x, latest[c]) : /\ p + 1 \in Histories(q, latest[c])
                                              /\ p \in 1 .. Len(x) /\ x[p] = q[p + 1]
                                              /\ p + 1 \in 1 .. Len(q) /\ (p + 1) - 1 = p
    BY <1>8 DEF Histories
  <2>2. NewestJoin(c)'
    <3>1. \A p \in Histories(x, latest[c]) : Histories(x, latest[c]) = {p}
      <4>1. \A p \in Histories(x, latest[c]) : Histories(q, latest[c]) = {p + 1}
        BY <1>5, <1>9, <1>13, <2>1 DEF NewestJoin
      <4>2. \A p, o \in Histories(x, latest[c]) : p + 1 = o + 1 /\ p \in Nat /\ o \in Nat
        BY <1>8, <2>1, <4>1
      <4>3. \A p, o \in Histories(x, latest[c]) : p = o
        BY <4>2
      <4>4. QED BY <4>3
    <3>2. Histories(q, latest[c]) = {} => Histories(x, latest[c]) = {}
      BY <1>8
    <3>3. shows'[c] # latest[c]
      BY <1>7, <1>13
    <3>4. QED BY <1>5, <1>7, <1>9, <1>11, <1>13, <3>1, <3>2, <3>3 DEF NewestJoin
  <2>3. ASSUME NEW p \in Histories(x, latest[c])
        PROVE  Tells(rows, dropped, sending, x[p].history, x, p, x[p].blurred, asked[c])
    <3>1. PICK k \in 1 .. Len(q) : k = p + 1
      BY <2>1
    <3>2. k \in Histories(q, latest[c]) /\ x[p] = q[k] /\ k - 1 = p
      BY <2>1, <3>1
    <3>3. Tells(rows, dropped, sending, q[k].history, q, k, q[k].blurred, asked[c])
      BY <1>5, <1>9, <1>13, <3>2 DEF Told
    <3>4. Tells(rows, dropped, sending, q[k].history, Tail(q), k - 1, q[k].blurred, asked[c])
      BY <1>7, <3>3, TellsShown
    <3>5. QED BY <1>6, <3>2, <3>4
  <2>4. Told(c)'
    BY <1>7, <1>9, <1>13, <2>3 DEF Told
  <2>5. QED BY <2>2, <2>4
<1>14. ASSUME NEW d \in Clients, d # c PROVE Whole(d)'
  <2>1. UNCHANGED Mine(d)
    BY <1>1, <1>2, <1>3, <1>14 DEF Mine
  <2>2. QED BY <1>2, <1>4, <2>1, WholeElsewhere
<1>15. QED BY <1>9, <1>10, <1>12, <1>13, <1>14 DEF Whole

\* A message that is shown is on its way no longer.
LEMMA WholeShown ==
  ASSUME SentInv, ChatTypeOK', \A d \in Clients : Whole(d), NEW c \in Clients, ShowMessage(c)
  PROVE  \A d \in Clients : Whole(d)'
<1>1. /\ down[c] # << >> /\ Head(down[c]).ev = "new_message" /\ down' = Tail1(down, c)
      /\ messages' = [messages EXCEPT ![c] = Append(@, Head(down[c]).id)]
      /\ UNCHANGED <<rows, dropped, sending, joins, sock, linked, up, asked, latest, shows, blurred>>
  BY DEF ShowMessage, stored, gateway, seen
<1>2. ChatTypeOK /\ messages \in [Clients -> Seq(Nat)]
  BY DEF SentInv, ChatTypeOK
<1>3. /\ down[c] \in Seq(Downward) /\ down'[c] = Tail(down[c])
      /\ \A d \in Clients \ {c} : down'[d] = down[d]
      /\ Head(down[c]) = down[c][1] /\ down[c][1] \in Downward
  BY <1>1, <1>2, DownTaken
<1>4. Grown
  BY <1>1, <1>2, StoredStays DEF stored
<1>5. PICK q \in Seq(Downward) : q = down[c]
  BY <1>3
<1>6. PICK x : x = Tail(q)
  OBVIOUS
<1>7. PICK h \in Seq(Nat) : h = messages[c]
  BY <1>2
<1>8. /\ q # << >> /\ q[1].ev = "new_message" /\ q[1].id \in Nat /\ down'[c] = x
      /\ messages'[c] = Append(h, q[1].id)
  <2>1. q[1].id \in Nat
    BY <1>1, <1>3, <1>5, WireEvents
  <2>2. QED BY <1>1, <1>2, <1>3, <1>5, <1>6, <1>7, <2>1
<1>9. /\ Len(q) \in Nat \ {0} /\ Len(x) = Len(q) - 1
      /\ \A p \in 1 .. Len(x) : x[p] = q[p + 1] /\ p + 1 \in 2 .. Len(q)
      /\ \A p \in Histories(x, latest[c]) : p + 1 \in Histories(q, latest[c]) /\ p \in Nat \ {0}
  BY <1>6, <1>8, HistoriesTaken
<1>10. /\ Numbers(c) /\ (c \in linked => NewestJoin(c) /\ Told(c))
       /\ UNCHANGED <<rows, dropped, sending, joins, sock, linked, up, asked, latest, shows, blurred>>
  BY <1>1 DEF Whole
<1>11. Numbers(c)'
  BY <1>5, <1>8, <1>9, <1>10 DEF Numbers
<1>12. Answering(c)' = Answering(c)
  BY <1>10 DEF Answering
<1>13. \A p \in Histories(x, latest[c]) : /\ p + 1 \in Histories(q, latest[c])
                                          /\ p \in 1 .. Len(x) /\ x[p] = q[p + 1]
                                          /\ p + 1 \in 1 .. Len(q) /\ (p + 1) - 1 = p
  BY <1>9 DEF Histories
<1>14. ASSUME c \in linked PROVE NewestJoin(c)'
  <2>1. \A p \in Histories(x, latest[c]) : Histories(x, latest[c]) = {p}
    <3>1. \A p \in Histories(x, latest[c]) : Histories(q, latest[c]) = {p + 1}
      BY <1>5, <1>10, <1>13, <1>14 DEF NewestJoin
    <3>2. \A p, o \in Histories(x, latest[c]) : p + 1 = o + 1 /\ p \in Nat /\ o \in Nat
      BY <1>9, <1>13, <3>1
    <3>3. \A p, o \in Histories(x, latest[c]) : p = o
      BY <3>2
    <3>4. QED BY <3>3
  <2>2. Histories(q, latest[c]) = {} => Histories(x, latest[c]) = {}
    BY <1>9
  <2>3. Histories(x, latest[c]) # {} => shows[c] # latest[c]
    BY <1>5, <1>10, <1>14, <2>2 DEF NewestJoin
  <2>4. QED BY <1>5, <1>8, <1>10, <1>12, <1>14, <2>1, <2>2, <2>3 DEF NewestJoin
<1>15. ASSUME c \in linked, NEW p \in Histories(x, latest[c])
       PROVE  Tells(rows, dropped, sending, x[p].history, x, p, x[p].blurred, asked[c])
  <2>1. PICK k \in 1 .. Len(q) : k = p + 1
    BY <1>13
  <2>2. k \in Histories(q, latest[c]) /\ x[p] = q[k] /\ k - 1 = p
    BY <1>13, <2>1
  <2>3. Tells(rows, dropped, sending, q[k].history, q, k, q[k].blurred, asked[c])
    BY <1>5, <1>10, <1>15, <2>2 DEF Told
  <2>4. Tells(rows, dropped, sending, q[k].history, Tail(q), k - 1, q[k].blurred, asked[c])
    BY <1>8, <2>3, TellsShown
  <2>5. QED BY <1>6, <2>2, <2>4
<1>16. ASSUME c \in linked, shows[c] = latest[c]
       PROVE  Tells(rows, dropped, sending, Append(h, q[1].id), x, 0, blurred[c], asked[c])
  <2>1. Tells(rows, dropped, sending, h, q, 0, blurred[c], asked[c])
    BY <1>5, <1>7, <1>10, <1>16 DEF Told
  <2>2. QED BY <1>6, <1>8, <2>1, TellsAppended
<1>17. ASSUME c \in linked PROVE Told(c)'
  BY <1>8, <1>10, <1>15, <1>16, <1>17 DEF Told
<1>18. ASSUME NEW d \in Clients, d # c PROVE Whole(d)'
  <2>1. UNCHANGED Mine(d)
    BY <1>1, <1>2, <1>3, <1>18 DEF Mine
  <2>2. QED BY <1>2, <1>4, <2>1, WholeElsewhere
<1>19. QED BY <1>10, <1>11, <1>14, <1>17, <1>18 DEF Whole

\* A widget whose socket is forgotten is told nothing more.
LEMMA WholeForgotten ==
  ASSUME SentInv, ChatTypeOK', \A d \in Clients : Whole(d), NEW c \in Clients, Forget(c),
         UNCHANGED <<stored, asked, latest, shows, blurred>>,
         \A d \in Clients \ {c} : messages'[d] = messages[d]
  PROVE  \A d \in Clients : Whole(d)'
<1>1. /\ linked' = linked \ {c} /\ up' = [up EXCEPT ![c] = << >>]
      /\ down' = [down EXCEPT ![c] = << >>] /\ sock' = [sock EXCEPT ![c] = Closed]
      /\ joins' = {j \in joins : j.c # c}
  BY DEF Forget
<1>2. /\ ChatTypeOK /\ up \in [Clients -> Seq(Upward)] /\ down \in [Clients -> Seq(Downward)]
      /\ sock \in [Clients -> [rooms : SUBSET Rooms, room : Rooms \cup {NoRoom}]]
  BY DEF SentInv, ChatTypeOK
<1>3. down'[c] = << >> /\ Len(<< >>) = 0 /\ c \notin linked'
  BY <1>1, <1>2, EmptySeq
<1>4. Whole(c)'
  <2>1. Numbers(c)
    BY DEF Whole
  <2>2. Numbers(c)'
    BY <1>3, <2>1 DEF Numbers
  <2>3. QED BY <1>3, <2>2 DEF Whole
<1>5. Grown
  BY <1>2, StoredStays
<1>6. ASSUME NEW d \in Clients, d # c PROVE Whole(d)'
  <2>1. {j \in joins' : j.c = d} = {j \in joins : j.c = d}
    BY <1>1, <1>6
  <2>2. UNCHANGED Mine(d)
    BY <1>1, <1>2, <1>6, <2>1 DEF Mine
  <2>3. QED BY <1>2, <1>5, <2>2, WholeElsewhere
<1>7. QED BY <1>4, <1>6

\* A handler that reads its history, or fails to, leaves the newest join in one place.
LEMMA WholeRead ==
  ASSUME SentInv, ChatTypeOK', \A d \in Clients : Whole(d), NEW j \in joins,
         GetHistory(j) \/ FailJoin(j)
  PROVE  \A d \in Clients : Whole(d)'
<1> DEFINE e == [j EXCEPT !.read = TRUE, !.history = History(j.room), !.upto = Len(rows)]
<1>1. /\ UNCHANGED <<rows, dropped, sending, sock, linked, up, down, messages, asked, latest, shows, blurred>>
      /\ joins' = (joins \ {j}) \cup {e} \/ joins' = joins \ {j}
  BY DEF GetHistory, FailJoin, stored, link, widget, seen
<1>2. /\ ChatTypeOK /\ j \in Handler /\ j.c \in Clients
  BY DEF SentInv, ChatTypeOK, Handler
<1>3. e.c = j.c /\ e.n = j.n /\ e.room = j.room
  BY <1>2 DEF Handler
<1> HIDE DEF e
<1>4. Grown
  BY <1>1, <1>2, StoredStays DEF stored
<1>5. ASSUME NEW d \in Clients, d # j.c PROVE Whole(d)'
  <2>1. {k \in joins' : k.c = d} = {k \in joins : k.c = d}
    BY <1>1, <1>3, <1>5
  <2>2. UNCHANGED Mine(d)
    BY <1>1, <2>1 DEF Mine
  <2>3. QED BY <1>2, <1>4, <2>2, WholeElsewhere
<1>6. PICK c \in Clients : c = j.c
  BY <1>2
<1>7. /\ Numbers(c) /\ (c \in linked => NewestJoin(c) /\ Told(c))
      /\ UNCHANGED <<rows, dropped, sending, sock, linked, up, down, messages, asked, latest, shows, blurred>>
  BY <1>1 DEF Whole
<1>8. Numbers(c)' /\ (Told(c) => Told(c)')
  BY <1>7 DEF Numbers, Told
<1>9. ASSUME NewestJoin(c) PROVE NewestJoin(c)'
  <2>1. CASE j.n = latest[c]
    <3>1. j \in Answering(c)
      BY <1>6, <2>1 DEF Answering
    <3>2. /\ j.room = asked[c] /\ Answering(c) = {j}
          /\ Histories(down[c], latest[c]) = {} /\ shows[c] # latest[c] /\ JoinsUp(up[c]) = {}
      BY <1>9, <3>1 DEF NewestJoin
    <3>3. Answering(c)' = {e} \/ Answering(c)' = {}
      BY <1>1, <1>3, <1>6, <2>1, <3>2 DEF Answering
    <3>4. QED BY <1>3, <1>7, <1>9, <3>2, <3>3 DEF NewestJoin
  <2>2. CASE j.n # latest[c]
    <3>1. Answering(c)' = Answering(c)
      BY <1>1, <1>3, <2>2 DEF Answering
    <3>2. QED BY <1>7, <1>9, <3>1 DEF NewestJoin
  <2>3. QED BY <2>1, <2>2
<1>10. Whole(c)'
  BY <1>7, <1>8, <1>9 DEF Whole
<1>11. QED BY <1>5, <1>6, <1>10

\* The history of the newest join, once it is answered, tells the room.
LEMMA WholeAnswered ==
  ASSUME SentInv, ChatTypeOK', Reads, \A d \in Clients : Whole(d), NEW j \in joins, AnswerJoin(j)
  PROVE  \A d \in Clients : Whole(d)'
<1>1. /\ UNCHANGED <<rows, dropped, sending, sock, linked, up, messages, asked, latest, shows, blurred>>
      /\ joins' = joins \ {j} /\ j.read
      /\ down' = Put(down, {j.c}, [ev |-> "history", n |-> j.n, history |-> j.history,
                                   blurred |-> Blurred(j)])
  BY DEF AnswerJoin, stored, widget, seen
<1>2. /\ ChatTypeOK /\ j \in Handler /\ j.c \in Clients /\ j.n \in Nat /\ j.history \in Seq(Nat)
      /\ down \in [Clients -> Seq(Downward)] /\ j.c \in linked /\ j.n <= latest[j.c]
      /\ rows \in Rows
  BY DEF SentInv, ChatTypeOK, Handler, Rows
<1>3. PICK b \in SUBSET Nat : b = Blurred(j)
  <2>1. Blurred(j) \in SUBSET Nat
    BY DEF Blurred, Ids
  <2>2. QED BY <2>1
<1>4. PICK m \in Downward : m = [ev |-> "history", n |-> j.n, history |-> j.history, blurred |-> b]
  BY <1>2, WireEvents
<1>5. \A d \in Clients : down'[d] = IF d \in {j.c} THEN Append(down[d], m) ELSE down[d]
  <2>1. \A d \in Clients : Put(down, {j.c}, m)[d] = IF d \in {j.c} THEN Append(down[d], m) ELSE down[d]
    BY <1>2, PutOnTheWay
  <2>2. QED BY <1>1, <1>3, <1>4, <2>1
<1>6. Grown
  BY <1>1, <1>2, StoredStays DEF stored
<1>7. ASSUME NEW d \in Clients, d # j.c PROVE Whole(d)'
  <2>1. {k \in joins' : k.c = d} = {k \in joins : k.c = d}
    BY <1>1, <1>7
  <2>2. UNCHANGED Mine(d)
    BY <1>1, <1>5, <1>7, <2>1 DEF Mine
  <2>3. QED BY <1>2, <1>6, <2>2, WholeElsewhere
<1>8. PICK c \in Clients : c = j.c
  BY <1>2
<1>9. PICK q \in Seq(Downward) : q = down[c]
  BY <1>2
<1>10. PICK x : x = Append(q, m)
  OBVIOUS
<1>11. /\ Len(q) \in Nat /\ Len(x) = Len(q) + 1 /\ x[Len(q) + 1] = m
       /\ \A p \in 1 .. Len(q) : x[p] = q[p]
       /\ Histories(x, latest[c]) =
             Histories(q, latest[c]) \cup {p \in {Len(q) + 1} : m.ev = "history" /\ m.n = latest[c]}
  BY <1>10, HistoriesPut
<1>12. /\ down'[c] = x /\ m.ev = "history" /\ m.n = j.n /\ m.history = j.history /\ m.blurred = b
  BY <1>4, <1>5, <1>8, <1>9, <1>10
<1>13. /\ Numbers(c) /\ NewestJoin(c) /\ Told(c) /\ c \in linked
       /\ UNCHANGED <<rows, dropped, sending, sock, linked, up, messages, asked, latest, shows, blurred>>
  BY <1>1, <1>2, <1>8 DEF Whole
<1>14. Numbers(c)'
  <2>1. ASSUME NEW p \in 1 .. Len(x), x[p].ev = "history" PROVE x[p].n <= latest[c]
    <3>1. CASE p = Len(q) + 1
      BY <1>2, <1>8, <1>11, <1>12, <3>1
    <3>2. CASE p \in 1 .. Len(q)
      BY <1>9, <1>11, <1>13, <2>1, <3>2 DEF Numbers
    <3>3. QED BY <1>11, <3>1, <3>2
  <2>2. QED BY <1>12, <1>13, <2>1 DEF Numbers
<1>15. \A p \in Histories(q, latest[c]) : p \in 0 .. Len(q) /\ p \in 1 .. Len(q)
  BY <1>11 DEF Histories
<1>16. ASSUME j.n = latest[c] PROVE NewestJoin(c)' /\ Told(c)'
  <2>1. j \in Answering(c)
    BY <1>8, <1>16 DEF Answering
  <2>2. /\ j.room = asked[c] /\ Answering(c) = {j}
        /\ Histories(q, latest[c]) = {} /\ shows[c] # latest[c] /\ JoinsUp(up[c]) = {}
    BY <1>9, <1>13, <2>1 DEF NewestJoin
  <2>3. Answering(c)' = {}
    BY <1>1, <1>13, <2>2 DEF Answering
  <2>4. Histories(x, latest[c]) = {Len(q) + 1}
    BY <1>11, <1>12, <1>16, <2>2
  <2>5. NewestJoin(c)'
    BY <1>12, <1>13, <2>2, <2>3, <2>4 DEF NewestJoin
  <2>6. /\ j.upto \in 0 .. Len(rows) /\ Recalls(rows, dropped, j.history, j.upto, asked[c])
    BY <1>1, <2>2 DEF Reads
  <2>7. b = {i \in 1 .. Len(rows) : rows[i].room = asked[c] /\ ((i \in sending) = (i <= j.upto))}
    BY <1>3, <2>2 DEF Blurred, Ids
  <2>8. Len(rows) \in Nat /\ Len(x) \in Nat
    BY <1>2, <1>11, LenProperties DEF Rows
  <2>9. Tells(rows, dropped, sending, j.history, x, Len(x), b, asked[c])
    BY <2>6, <2>7, <2>8, TellsAnswered
  <2>10. Told(c)'
    BY <1>11, <1>12, <1>13, <2>2, <2>4, <2>9 DEF Told
  <2>11. QED BY <2>5, <2>10
<1>17. ASSUME j.n # latest[c] PROVE NewestJoin(c)' /\ Told(c)'
  <2>1. Answering(c)' = Answering(c)
    BY <1>1, <1>13, <1>17 DEF Answering
  <2>2. Histories(x, latest[c]) = Histories(q, latest[c])
    BY <1>11, <1>12, <1>17
  <2>3. NewestJoin(c)'
    BY <1>9, <1>12, <1>13, <2>1, <2>2 DEF NewestJoin
  <2>4. ASSUME NEW h, NEW p \in 0 .. Len(q), NEW a, NEW r, Tells(rows, dropped, sending, h, q, p, a, r)
        PROVE  Tells(rows, dropped, sending, h, x, p, a, r)
    BY <1>10, <1>12, <2>4, TellsAnother
  <2>5. ASSUME NEW p \in Histories(x, latest[c])
        PROVE  Tells(rows, dropped, sending, x[p].history, x, p, x[p].blurred, asked[c])
    <3>1. p \in 0 .. Len(q) /\ x[p] = q[p] /\ p \in Histories(q, latest[c])
      BY <1>11, <1>15, <2>2
    <3>2. Tells(rows, dropped, sending, q[p].history, q, p, q[p].blurred, asked[c])
      BY <1>9, <1>13, <3>1 DEF Told
    <3>3. QED BY <2>4, <3>1, <3>2
  <2>6. shows[c] = latest[c] =>
           Tells(rows, dropped, sending, messages[c], x, 0, blurred[c], asked[c])
    <3>1. 0 \in 0 .. Len(q)
      BY <1>11
    <3>2. QED BY <1>9, <1>13, <2>4, <3>1 DEF Told
  <2>7. Told(c)'
    BY <1>12, <1>13, <2>5, <2>6 DEF Told
  <2>8. QED BY <2>3, <2>7
<1>18. Whole(c)'
  BY <1>14, <1>16, <1>17 DEF Whole
<1>19. QED BY <1>7, <1>8, <1>18

\* A message that is pushed is pushed to the widgets that are to show it.
LEMMA WholePushed ==
  ASSUME SentInv, ChatTypeOK', \A d \in Clients : Whole(d), NEW i \in sending, PushMessage(i)
  PROVE  \A d \in Clients : Whole(d)'
<1> DEFINE T == {c \in Clients : rows[i].room \in sock[c].rooms}
<1>1. /\ UNCHANGED <<rows, dropped, joins, sock, linked, up, messages, asked, latest, shows, blurred>>
      /\ sending' = sending \ {i}
      /\ down' = Put(down, T, [ev |-> "new_message", id |-> i])
  BY DEF PushMessage, gateway, widget, seen
<1>2. /\ down \in [Clients -> Seq(Downward)] /\ i \in 1 .. Len(rows) /\ i \in Nat
      /\ rows \in Rows
  BY DEF SentInv, ChatTypeOK, Ids, Rows
<1>3. PICK m \in Downward : m = [ev |-> "new_message", id |-> i]
  BY <1>2, WireEvents
<1>4. \A d \in Clients : d \in T <=> rows[i].room \in sock[d].rooms
  OBVIOUS
<1> HIDE DEF T
<1>5. \A d \in Clients : down'[d] = IF d \in T THEN Append(down[d], m) ELSE down[d]
  <2>1. \A d \in Clients : Put(down, T, m)[d] = IF d \in T THEN Append(down[d], m) ELSE down[d]
    BY <1>2, PutOnTheWay
  <2>2. QED BY <1>1, <1>3, <2>1
<1> SUFFICES ASSUME NEW c \in Clients PROVE Whole(c)'
  OBVIOUS
<1>6. PICK q \in Seq(Downward) : q = down[c]
  BY <1>2
<1>7. PICK x : x = IF c \in T THEN Append(q, m) ELSE q
  OBVIOUS
<1>8. down'[c] = x /\ m.ev = "new_message" /\ m.id = i
  BY <1>3, <1>5, <1>6, <1>7
<1>9. /\ Len(q) \in Nat /\ Histories(x, latest[c]) = Histories(q, latest[c])
      /\ \A p \in 1 .. Len(x) : x[p].ev = "history" => p \in 1 .. Len(q) /\ x[p] = q[p]
  <2>1. /\ Len(q) \in Nat /\ Len(Append(q, m)) = Len(q) + 1 /\ Append(q, m)[Len(q) + 1] = m
        /\ \A p \in 1 .. Len(q) : Append(q, m)[p] = q[p]
        /\ Histories(Append(q, m), latest[c]) = Histories(q, latest[c])
               \cup {p \in {Len(q) + 1} : m.ev = "history" /\ m.n = latest[c]}
    BY HistoriesPut
  <2>2. CASE c \in T
    <3>1. x = Append(q, m)
      BY <1>7, <2>2
    <3>2. /\ Len(x) = Len(q) + 1 /\ x[Len(q) + 1] = m /\ \A p \in 1 .. Len(q) : x[p] = q[p]
          /\ Histories(x, latest[c]) = Histories(q, latest[c])
      BY <1>8, <2>1, <3>1
    <3>3. QED BY <1>8, <2>1, <3>2
  <2>3. CASE c \notin T
    BY <1>7, <2>1, <2>3
  <2>4. QED BY <2>2, <2>3
<1>10. /\ Numbers(c) /\ (c \in linked => NewestJoin(c) /\ Told(c))
       /\ UNCHANGED <<rows, dropped, joins, sock, linked, up, messages, asked, latest, shows, blurred>>
  BY <1>1 DEF Whole
<1>11. Numbers(c)'
  BY <1>6, <1>8, <1>9, <1>10 DEF Numbers
<1>12. Answering(c)' = Answering(c)
  BY <1>10 DEF Answering
<1>13. ASSUME c \in linked PROVE NewestJoin(c)'
  BY <1>6, <1>8, <1>9, <1>10, <1>12, <1>13 DEF NewestJoin
<1>14. ASSUME c \in linked, sock[c] = In(asked[c]), NEW h, NEW p \in 0 .. Len(q), NEW a,
              Tells(rows, dropped, sending, h, q, p, a, asked[c])
       PROVE  Tells(rows, dropped, sending', h, x, p, a, asked[c])
  <2>1. Len(rows) \in Nat
    BY <1>2, LenProperties DEF Rows
  <2>2. /\ rows[i].room = asked[c] => Tells(rows, dropped, sending \ {i}, h, Append(q, m), p, a, asked[c])
        /\ rows[i].room # asked[c] => Tells(rows, dropped, sending \ {i}, h, q, p, a, asked[c])
    BY <1>2, <1>8, <1>14, <2>1, TellsPushed
  <2>3. c \in T <=> rows[i].room = asked[c]
    BY <1>4, <1>14 DEF In
  <2>4. QED BY <1>1, <1>7, <2>2, <2>3
<1>15. ASSUME c \in linked PROVE Told(c)'
  <2>1. Histories(q, latest[c]) # {} \/ shows[c] = latest[c] => sock[c] = In(asked[c])
    BY <1>6, <1>10, <1>15 DEF NewestJoin
  <2>2. ASSUME NEW p \in Histories(x, latest[c])
        PROVE  Tells(rows, dropped, sending', x[p].history, x, p, x[p].blurred, asked[c])
    <3>1. p \in Histories(q, latest[c]) /\ p \in 0 .. Len(q) /\ x[p] = q[p]
      BY <1>9, <2>2 DEF Histories
    <3>2. Tells(rows, dropped, sending, q[p].history, q, p, q[p].blurred, asked[c])
      BY <1>6, <1>10, <1>15, <3>1 DEF Told
    <3>3. QED BY <1>14, <1>15, <2>1, <3>1, <3>2
  <2>3. ASSUME shows[c] = latest[c]
        PROVE  Tells(rows, dropped, sending', messages[c], x, 0, blurred[c], asked[c])
    <3>1. Tells(rows, dropped, sending, messages[c], q, 0, blurred[c], asked[c]) /\ 0 \in 0 .. Len(q)
      BY <1>6, <1>9, <1>10, <1>15, <2>3 DEF Told
    <3>2. QED BY <1>14, <1>15, <2>1, <2>3, <3>1
  <2>4. QED BY <1>8, <1>10, <2>2, <2>3 DEF Told
<1>16. QED BY <1>10, <1>11, <1>13, <1>15 DEF Whole

\* A message that is stored is being sent.
LEMMA SavedGrows ==
  ASSUME ChatTypeOK, NEW x \in [room : Rooms, shown : Rooms, asked : Rooms],
         rows' = Append(rows, x), sending' = sending \cup {Len(rows')}, dropped' = dropped
  PROVE  Grown
<1>1. /\ rows \in Seq([room : Rooms, shown : Rooms, asked : Rooms])
      /\ dropped \in Nat
  BY LenProperties DEF ChatTypeOK
<1>2. /\ Len(rows) \in Nat /\ Len(rows') = Len(rows) + 1 /\ \A i \in Ids : rows'[i] = rows[i]
      /\ Len(rows') \notin Ids /\ Ids' = Ids \cup {Len(rows')}
  BY <1>1, MoreRows
<1>3. Len(rows) <= Len(rows') /\ dropped <= dropped'
  BY <1>1, <1>2
<1>4. \A i \in Ids : i \in sending' <=> i \in sending
  BY <1>2
<1>5. \A i \in Ids' \ Ids : i \in sending'
  BY <1>2
<1>6. QED BY <1>2, <1>3, <1>4, <1>5 DEF Grown

\* Whatever is stored or cleaned up, messages are those of before and more.
LEMMA StoredGrows ==
  ASSUME SentInv, ChatNext
  PROVE  Grown \/ \E i \in sending : PushMessage(i)
<1>1. ChatTypeOK
  BY DEF SentInv
<1>2. ASSUME NEW c \in Clients, SaveMessage(c) PROVE Grown
  <2>1. /\ up[c] # << >> /\ Head(up[c]).ev = "send" /\ sock[c].room # NoRoom
        /\ up' = Tail1(up, c) /\ dropped' = dropped /\ sending' = sending \cup {Len(rows')}
        /\ rows' = Append(rows, [room |-> sock[c].room, shown |-> Head(up[c]).shown,
                                 asked |-> Head(up[c]).asked])
    BY <1>2 DEF SaveMessage, Accept
  <2>2. /\ Head(up[c]).asked = sock[c].room /\ Head(up[c]) \in Upward
    BY <2>1, Taken
  <2>3. Head(up[c]).shown \in Rooms /\ Head(up[c]).asked \in Rooms
    BY <2>1, <2>2, WireEvents
  <2>4. PICK x \in [room : Rooms, shown : Rooms, asked : Rooms] :
           x = [room |-> sock[c].room, shown |-> Head(up[c]).shown, asked |-> Head(up[c]).asked]
    BY <2>2, <2>3
  <2>5. QED BY <1>1, <2>1, <2>4, SavedGrows
<1>3. ASSUME NEW r \in Rooms, SaveOther(r) PROVE Grown
  <2>1. PICK x \in [room : Rooms, shown : Rooms, asked : Rooms] : x = [room |-> r, shown |-> r, asked |-> r]
    OBVIOUS
  <2>2. rows' = Append(rows, x) /\ sending' = sending \cup {Len(rows')} /\ dropped' = dropped
    BY <1>3, <2>1 DEF SaveOther
  <2>3. QED BY <1>1, <2>2, SavedGrows
<1>4. CASE CleanupOldMessages
  <2>1. /\ dropped' \in dropped + 1 .. Len(rows) /\ rows' = rows /\ sending' = sending
    BY <1>4 DEF CleanupOldMessages
  <2>2. Len(rows) \in Nat /\ dropped \in Nat
    BY <1>1, LenProperties DEF ChatTypeOK
  <2>3. QED BY <2>1, <2>2 DEF Grown, Ids
<1>5. ASSUME NEW c \in Clients,
             \/ Connect(c) \/ Refuse(c) \/ HandleSend(c) \/ ShowHistory(c) \/ ShowMessage(c)
             \/ Disconnect(c) \/ Remount(c) \/ (\E r \in Rooms : SwitchRoom(c, r))
      PROVE  UNCHANGED stored
  BY <1>5 DEF Connect, Refuse, HandleSend, ShowHistory, ShowMessage, Disconnect, Remount, SwitchRoom
<1>6. ASSUME NEW c \in Clients,
             HandleJoinRoom(c) \/ RefuseMessage(c) \/ FailMessage(c) \/ TwoSecondsPass(c)
      PROVE  UNCHANGED stored
  BY <1>6 DEF HandleJoinRoom, JoinTo, RefuseMessage, FailMessage, Accept, TwoSecondsPass, stored
<1>7. ASSUME NEW j \in joins, GetHistory(j) \/ AnswerJoin(j) \/ FailJoin(j)
      PROVE  UNCHANGED stored
  BY <1>7 DEF GetHistory, AnswerJoin, FailJoin
<1>8. QED BY <1>1, <1>2, <1>3, <1>4, <1>5, <1>6, <1>7, StoredStays DEF ChatNext

\* Every step keeps what the handlers have read.
LEMMA ReadsKept ==
  ASSUME SentInv, ChatTypeOK', Reads, ChatNext
  PROVE  Reads'
<1>1. /\ Len(rows) \in Nat /\ Len(rows') \in Nat /\ dropped \in Nat /\ dropped' \in Nat
      /\ \A j \in joins : j \in Handler
  BY LenProperties DEF SentInv, ChatTypeOK
<1>2. /\ Len(rows) <= Len(rows') /\ dropped <= dropped'
      /\ \A i \in 1 .. Len(rows) : rows'[i] = rows[i]
  <2>1. CASE Grown
    BY <2>1 DEF Grown, Ids
  <2>2. ASSUME NEW i \in sending, PushMessage(i) PROVE rows' = rows /\ dropped' = dropped
    BY <2>2 DEF PushMessage
  <2>3. QED BY <1>1, <2>1, <2>2, StoredGrows
<1>3. PICK x : x = rows'
  OBVIOUS
<1>4. PICK e : e = dropped'
  OBVIOUS
<1>5. ASSUME NEW j \in joins, j.read
      PROVE  j.upto \in 0 .. Len(rows') /\ Recalls(rows', dropped', j.history, j.upto, j.room)
  <2>1. j.upto \in 0 .. Len(rows) /\ Recalls(rows, dropped, j.history, j.upto, j.room)
    BY <1>5 DEF Reads
  <2>2. /\ Len(x) \in Nat /\ Len(rows) <= Len(x) /\ e \in Nat /\ dropped <= e
        /\ \A i \in 1 .. Len(rows) : x[i] = rows[i]
    BY <1>1, <1>2, <1>3, <1>4
  <2>3. Recalls(x, e, j.history, j.upto, j.room)
    BY <1>1, <2>1, <2>2, RecallsMore
  <2>4. QED BY <1>1, <1>2, <1>3, <1>4, <2>1, <2>3
<1>6. ASSUME \A j \in joins' : j \in joins \/ ~j.read PROVE Reads'
  BY <1>5, <1>6 DEF Reads
<1>7. ASSUME NEW j \in joins, GetHistory(j) PROVE Reads'
  <2> DEFINE k == [j EXCEPT !.read = TRUE, !.history = History(j.room), !.upto = Len(rows)]
  <2>1. joins' = (joins \ {j}) \cup {k} /\ rows' = rows /\ dropped' = dropped
    BY <1>7 DEF GetHistory, stored
  <2>2. k.upto = Len(rows) /\ k.history = History(j.room) /\ k.room = j.room
    BY <1>1 DEF Handler
  <2> HIDE DEF k
  <2>3. Recalls(rows, dropped, History(j.room), Len(rows), j.room)
    BY <1>1, HistoryTells
  <2>4. \A i \in joins : i.read => i.upto \in 0 .. Len(rows) /\ Recalls(rows, dropped, i.history, i.upto, i.room)
    BY DEF Reads
  <2>5. \A i \in joins' : i.read => i.upto \in 0 .. Len(rows) /\ Recalls(rows, dropped, i.history, i.upto, i.room)
    BY <1>1, <2>1, <2>2, <2>3, <2>4
  <2>6. QED BY <2>1, <2>5 DEF Reads
<1>8. ASSUME NEW c \in Clients, HandleJoinRoom(c) PROVE Reads'
  <2>1. \A j \in joins' : j \in joins \/ ~j.read
    BY <1>8 DEF HandleJoinRoom, JoinTo
  <2>2. QED BY <1>6, <2>1
<1>9. ASSUME NEW c \in Clients, Disconnect(c) \/ Remount(c) PROVE Reads'
  BY <1>6, <1>9 DEF Disconnect, Remount, Forget
<1>10. ASSUME NEW j \in joins, AnswerJoin(j) \/ FailJoin(j) PROVE Reads'
  BY <1>6, <1>10 DEF AnswerJoin, FailJoin
<1>11. ASSUME NEW c \in Clients,
              \/ Connect(c) \/ Refuse(c) \/ HandleSend(c) \/ ShowHistory(c) \/ ShowMessage(c)
              \/ (\E r \in Rooms : SwitchRoom(c, r))
              \/ RefuseMessage(c) \/ SaveMessage(c) \/ FailMessage(c) \/ TwoSecondsPass(c)
       PROVE  Reads'
  <2>1. joins' = joins
    BY <1>11 DEF Connect, Refuse, HandleSend, ShowHistory, ShowMessage, SwitchRoom,
                 RefuseMessage, SaveMessage, FailMessage, Accept, TwoSecondsPass, gateway
  <2>2. QED BY <1>6, <2>1
<1>12. ASSUME \/ \E i \in sending : PushMessage(i)
              \/ \E r \in Rooms : SaveOther(r)
              \/ CleanupOldMessages
       PROVE  Reads'
  <2>1. joins' = joins
    BY <1>12 DEF PushMessage, SaveOther, CleanupOldMessages, gateway
  <2>2. QED BY <1>6, <2>1
<1>13. QED BY <1>7, <1>8, <1>9, <1>10, <1>11, <1>12 DEF ChatNext

\* Every step keeps what the widgets are told.
LEMMA WholeKept ==
  ASSUME SentInv, ChatTypeOK', Reads, \A d \in Clients : Whole(d), ChatNext
  PROVE  \A d \in Clients : Whole(d)'
<1>1. ChatTypeOK
  BY DEF SentInv
<1>2. ASSUME NEW c \in Clients, Connect(c) PROVE \A d \in Clients : Whole(d)'
  <2>1. /\ EmitJoin(c, FirstRoom) /\ linked' = linked \cup {c} /\ FirstRoom \in Rooms
        /\ UNCHANGED <<stored, joins, sock, down, messages>>
    BY <1>2, ChatAssumption DEF Connect, gateway, widget
  <2>2. QED BY <2>1, WholeEmitted
<1>3. ASSUME NEW c \in Clients, NEW r \in Rooms, SwitchRoom(c, r)
      PROVE  \A d \in Clients : Whole(d)'
  <2>1. UNCHANGED <<stored, joins, sock, linked, down>>
    BY <1>3 DEF SwitchRoom, gateway
  <2>2. CASE c \in linked
    <3>1. EmitJoin(c, r) /\ messages' = [messages EXCEPT ![c] = << >>]
      BY <1>3, <2>2 DEF SwitchRoom
    <3>2. \A d \in Clients \ {c} : messages'[d] = messages[d]
      BY <1>1, <3>1 DEF ChatTypeOK
    <3>3. QED BY <2>1, <2>2, <3>1, <3>2, WholeEmitted
  <2>3. CASE c \notin linked
    <3>1. UNCHANGED <<messages, asked, latest, shows, blurred, up>>
      BY <1>3, <2>3 DEF SwitchRoom, seen
    <3>2. QED BY <1>1, <2>1, <3>1, WholeElsewhere, StoredStays DEF Mine
  <2>4. QED BY <2>2, <2>3
<1>4. ASSUME NEW c \in Clients, RefuseMessage(c) \/ FailMessage(c)
      PROVE  \A d \in Clients : Whole(d)'
  <2>1. UNCHANGED stored
    BY <1>4 DEF RefuseMessage, FailMessage, Accept, stored
  <2>2. Grown
    BY <1>1, <2>1, StoredStays
  <2>3. /\ up[c] # << >> /\ Head(up[c]).ev = "send" /\ up' = Tail1(up, c)
        /\ UNCHANGED <<joins, sock, linked, down, messages, asked, latest, shows, blurred>>
    BY <1>4 DEF RefuseMessage, FailMessage, Accept, gateway, widget, seen
  <2>4. QED BY <2>2, <2>3, WholeTaken
<1>5. ASSUME NEW c \in Clients, SaveMessage(c) PROVE \A d \in Clients : Whole(d)'
  <2>1. /\ up[c] # << >> /\ Head(up[c]).ev = "send" /\ up' = Tail1(up, c)
        /\ UNCHANGED <<joins, sock, linked, down, messages, asked, latest, shows, blurred>>
    BY <1>5 DEF SaveMessage, Accept, widget, seen
  <2>2. CASE Grown
    BY <2>1, <2>2, WholeTaken
  <2>3. ASSUME NEW i \in sending, PushMessage(i) PROVE \A d \in Clients : Whole(d)'
    BY <2>3, WholePushed
  <2>4. QED BY <2>2, <2>3, StoredGrows
<1>6. ASSUME NEW c \in Clients, Disconnect(c) \/ Remount(c) PROVE \A d \in Clients : Whole(d)'
  <2>1. Forget(c) /\ UNCHANGED <<stored, asked, latest, shows, blurred>>
    BY <1>6 DEF Disconnect, Remount, seen
  <2>2. \A d \in Clients \ {c} : messages'[d] = messages[d]
    BY <1>1, <1>6 DEF Disconnect, Remount, widget, ChatTypeOK
  <2>3. QED BY <2>1, <2>2, WholeForgotten
<1>7. ASSUME UNCHANGED <<joins, sock, linked, up, down, messages, asked, latest, shows, blurred>>
      PROVE  \A d \in Clients : Whole(d)'
  <2>1. \A d \in Clients : UNCHANGED Mine(d)
    BY <1>7 DEF Mine
  <2>2. CASE Grown
    BY <1>1, <2>1, <2>2, WholeElsewhere
  <2>3. ASSUME NEW i \in sending, PushMessage(i) PROVE \A d \in Clients : Whole(d)'
    BY <2>3, WholePushed
  <2>4. QED BY <2>2, <2>3, StoredGrows
<1>8. ASSUME NEW c \in Clients, Refuse(c) \/ TwoSecondsPass(c) PROVE \A d \in Clients : Whole(d)'
  <2>1. UNCHANGED <<joins, sock, linked, up, down, messages, asked, latest, shows, blurred>>
    BY <1>8 DEF Refuse, TwoSecondsPass, gateway, link, widget, seen
  <2>2. QED BY <1>7, <2>1
<1>9. ASSUME (\E r \in Rooms : SaveOther(r)) \/ CleanupOldMessages
      PROVE  \A d \in Clients : Whole(d)'
  <2>1. UNCHANGED <<joins, sock, linked, up, down, messages, asked, latest, shows, blurred>>
    BY <1>9 DEF SaveOther, CleanupOldMessages, gateway, link, widget, seen
  <2>2. QED BY <1>7, <2>1
<1>10. QED BY <1>2, <1>3, <1>4, <1>5, <1>6, <1>8, <1>9, WholeSent, WholeJoined, WholeHistory,
              WholeShown, WholeRead, WholeAnswered, WholePushed DEF ChatNext

\* What every step keeps of the chat.
ToldInv == SentInv /\ Sent /\ Reads /\ \A c \in Clients : Whole(c)

\* A widget that nothing is on its way to shows what it has been told.
LEMMA QuietTells ==
  ASSUME SentInv, NEW c \in linked, Whole(c), Quiet(c), shows[c] = latest[c]
  PROVE  /\ \A k \in 1 .. Len(messages[c]) : rows[messages[c][k]].room = asked[c]
         /\ \A i \in Ids \ blurred[c] : rows[i].room = asked[c] =>
               \/ Cardinality(Places(messages[c], i)) = 1
               \/ /\ Places(messages[c], i) = {}
                  /\ i <= dropped \/ Cardinality(Later(i)) >= HistoryLimit
<1>1. Tells(rows, dropped, sending, messages[c], down[c], 0, blurred[c], asked[c])
  BY DEF Whole, Told
<1>2. /\ \A k \in 1 .. Len(messages[c]) : rows[messages[c][k]].room = asked[c]
      /\ \A i \in Ids \ blurred[c] : rows[i].room = asked[c] =>
            Once(rows, dropped, sending, messages[c], down[c], 0, i)
  BY <1>1 DEF Tells, Ids
<1>3. \A i : Coming(down[c], 0, i) = {} /\ i \notin sending
  <2>1. down[c] = << >> /\ Len(<< >>) = 0 /\ sending = {}
    BY EmptySeq DEF Quiet
  <2>2. QED BY <2>1 DEF Coming
<1>4. ASSUME NEW i \in Ids \ blurred[c], rows[i].room = asked[c]
      PROVE  \/ Cardinality(Places(messages[c], i)) = 1
             \/ /\ Places(messages[c], i) = {}
                /\ i <= dropped \/ Cardinality(Later(i)) >= HistoryLimit
  <2>1. OneOf(Places(messages[c], i)) \/ (Places(messages[c], i) = {} /\ Old(rows, dropped, i))
    BY <1>2, <1>3, <1>4 DEF Once, OneOf
  <2>2. OneOf(Places(messages[c], i)) => Cardinality(Places(messages[c], i)) = 1
    BY FS_Singleton DEF OneOf
  <2>3. Old(rows, dropped, i) => i <= dropped \/ Cardinality(Later(i)) >= HistoryLimit
    BY DEF Old, Later, Ids
  <2>4. QED BY <2>1, <2>2, <2>3
<1>5. QED BY <1>2, <1>4

\* Nothing is told at first.
LEMMA ToldStarts == ChatInit => ToldInv
<1> SUFFICES ASSUME ChatInit PROVE ToldInv
  OBVIOUS
<1>1. SentInv /\ Sent
  BY SentStarts
<1>2. linked = {} /\ joins = {}
  BY DEF ChatInit
<1>3. ASSUME NEW c \in Clients PROVE Whole(c)
  <2>1. shows[c] = 0 /\ latest[c] = 0 /\ down[c] = << >> /\ Len(<< >>) = 0
    BY EmptySeq DEF ChatInit
  <2>2. Numbers(c)
    BY <2>1 DEF Numbers
  <2>3. QED BY <1>2, <2>2 DEF Whole
<1>4. QED BY <1>1, <1>2, <1>3 DEF ToldInv, Reads

\* What stutters keeps what is told.
LEMMA ToldStutters == ToldInv /\ UNCHANGED chatVars => ToldInv'
<1> SUFFICES ASSUME ToldInv, UNCHANGED chatVars PROVE ToldInv'
  OBVIOUS
<1>1. UNCHANGED <<stored, joins, sock, linked, up, down, messages, asked, latest, shows, blurred>>
  BY DEF chatVars, gateway, link, widget, seen
<1>2. ChatTypeOK /\ SentInv' /\ Sent' /\ ChatTypeOK'
  BY SentStutters DEF ToldInv, SentInv
<1>3. ASSUME NEW c \in Clients PROVE Whole(c)'
  BY <1>1, <1>2, WholeElsewhere, StoredStays DEF ToldInv, Mine
<1>4. Reads'
  BY <1>1 DEF ToldInv, Reads, stored
<1>5. QED BY <1>2, <1>3, <1>4 DEF ToldInv

\* A widget that shows the history of its newest join, and that nothing is on its way to,
\* shows the messages of its room, each once or not at all when it is old enough for it,
\* but for those stored or pushed across the reading: whatever joins, links and answers
\* came in between, the newest join is always in one place, and what it was answered told
\* every message once, in the history, on its way or being sent.
THEOREM RoomShown == ChatSpec => []ShowsTheRoom
<1>1. ChatInit => ToldInv
  BY ToldStarts
<1>2. ToldInv /\ [ChatNext]_chatVars => ToldInv'
  <2>1. ASSUME ToldInv, ChatNext PROVE ToldInv'
    <3>1. SentInv /\ Sent /\ Reads /\ \A c \in Clients : Whole(c)
      BY <2>1 DEF ToldInv
    <3>2. ChatTypeOK' /\ SentInv' /\ Sent'
      BY <2>1, <3>1, TypesKept, SendsKept, SentKept DEF SentInv
    <3>3. Reads' /\ \A c \in Clients : Whole(c)'
      BY <2>1, <3>1, <3>2, ReadsKept, WholeKept
    <3>4. QED BY <3>2, <3>3 DEF ToldInv
  <2>2. QED BY <2>1, ToldStutters
<1>3. ToldInv => ShowsTheRoom
  <2>1. ToldInv => SentInv /\ linked \subseteq Clients
    BY DEF ToldInv, SentInv, ChatTypeOK
  <2>2. QED BY <2>1, QuietTells DEF ToldInv, ShowsTheRoom
<1>4. QED BY <1>1, <1>2, <1>3, PTL DEF ChatSpec
=============================================================================
