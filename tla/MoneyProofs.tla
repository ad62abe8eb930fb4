---------------------------- MODULE MoneyProofs -----------------------------
(*************************************************************************)
(* The weekly top-up, for any number of users, bets, weeks and faults: a *)
(* user is topped up early no more often than the faults excuse, if the  *)
(* relay is one and what it sends is handled in time.                    *)
(*                                                                       *)
(* And placing bets, for any number of users, events, requests and       *)
(* adjustments: the types of PlaceBet, that no balance is ever negative  *)
(* as long as the admin makes no debit, that bets are priced by one      *)
(* version of the event's row, that every cent is accounted for, and that*)
(* the limit of an event holds for bets that are not placed at once.     *)
(*************************************************************************)
EXTENDS PlaceBet, Replenish, FiniteSums, TLAPS

-----------------------------------------------------------------------------
\* The weekly top-up

\* One more fault excuses one top-up more than there were faults.
LEMMA ExcusedNext ==
  /\ Excused(0) = 0
  /\ \A n \in Nat : Excused(n) \in Nat /\ Excused(n + 1) = Excused(n) + n + 1
<1>1. Excused(0) = 0
  BY DEF Excused
<1>2. ASSUME NEW n \in Nat PROVE Excused(n) \in Nat /\ Excused(n + 1) = Excused(n) + n + 1
  <2> DEFINE x == n * (n + 1)
             y == (n + 1) * ((n + 1) + 1)
  <2>1. x \in Nat /\ y = x + 2 * (n + 1)
    OBVIOUS
  <2>2. \A a \in Nat, b \in Nat : a \div 2 \in Nat /\ (a + 2 * b) \div 2 = a \div 2 + b
    OBVIOUS
  <2>3. Excused(n) = x \div 2 /\ Excused(n + 1) = y \div 2
    BY DEF Excused
  <2> HIDE DEF x, y
  <2>4. QED BY <2>1, <2>2, <2>3
<1>3. QED BY <1>1, <1>2

\* Type correctness: the job, the relay and the handlers keep the rows, messages and
\* users what they are.
THEOREM TopUpTypes == ReplenishSpec => []ReplenishTypeOK
<1> USE ReplenishAssumption
<1>1. ReplenishInit => ReplenishTypeOK
  <2>1. 0 \in 0 .. Excused(MaxFaults) + 1
    BY ExcusedNext
  <2> SUFFICES ASSUME ReplenishInit PROVE ReplenishTypeOK
    OBVIOUS
  <2>2. early \in [Members -> 0 .. Excused(MaxFaults) + 1] /\ faults \in 0 .. MaxFaults
    BY <2>1 DEF ReplenishInit
  <2>3. QED BY <2>2 DEF ReplenishInit, ReplenishTypeOK
<1>2. ReplenishTypeOK /\ [ReplenishNext]_replenishVars => ReplenishTypeOK'
  <2> SUFFICES ASSUME ReplenishTypeOK, [ReplenishNext]_replenishVars
               PROVE  ReplenishTypeOK'
    OBVIOUS
  <2> USE DEF ReplenishTypeOK, job, table, relay, inbox, Fault
  <2>1. CASE HourPasses
    <3>1. \A u \in Members : age[u] \in 0 .. Interval + 1
      OBVIOUS
    <3>2. age' \in [Members -> 0 .. Interval + 1]
      BY <2>1, <3>1 DEF HourPasses
    <3>3. QED BY <2>1, <3>2 DEF HourPasses
  <2>2. CASE JobRead
    BY <2>2 DEF JobRead
  <2>3. ASSUME NEW u \in Members, JobWrite(u) PROVE ReplenishTypeOK'
    <3> DEFINE r == CHOOSE r \in FreeRows : TRUE
    <3>1. r \in FreeRows
      BY <2>3 DEF JobWrite
    <3>2. r \in Rows
      BY <3>1 DEF FreeRows
    <3>3. owner' = [owner EXCEPT ![r] = u] /\ processed' = processed \ {r}
      BY <2>3 DEF JobWrite
    <3> HIDE DEF r
    <3>4. QED BY <2>3, <3>2, <3>3 DEF JobWrite
  <2>4. CASE JobFails
    BY <2>4 DEF JobFails
  <2>5. ASSUME NEW x \in Relays, RelayRead(x) PROVE ReplenishTypeOK'
    BY <2>5 DEF RelayRead
  <2>6. ASSUME NEW x \in Relays, RelayMark(x) PROVE ReplenishTypeOK'
    BY <2>6 DEF RelayMark
  <2>7. ASSUME NEW x \in Relays, RelayFails(x) PROVE ReplenishTypeOK'
    BY <2>7 DEF RelayFails
  <2>8. ASSUME NEW x \in Relays, NEW r \in Rows, RelayPublish(x, r) PROVE ReplenishTypeOK'
    <3>1. queue' \in [Members -> Nat]
      BY <2>8 DEF RelayPublish
    <3>2. held' \in [Relays -> SUBSET Rows] /\ sent' \in [Relays -> SUBSET Rows]
      BY <2>8 DEF RelayPublish
    <3>3. QED BY <2>8, <3>1, <3>2 DEF RelayPublish
  <2>9. ASSUME NEW h \in Handlers, NEW u \in Members, Take(h, u) PROVE ReplenishTypeOK'
    BY <2>9 DEF Take
  <2>10. ASSUME NEW h \in Handlers, Credit(h) PROVE ReplenishTypeOK'
    <3>1. work[h] \in Members
      BY <2>10 DEF Credit
    <3>2. early'[work[h]] \in 0 .. Excused(MaxFaults) + 1
      <4>1. early[work[h]] \in 0 .. Excused(MaxFaults) + 1 /\ Excused(MaxFaults) \in Nat
        BY <3>1, ExcusedNext
      <4>2. early'[work[h]] = IF early[work[h]] <= Excused(MaxFaults) /\ age[work[h]] <= Interval
                               THEN early[work[h]] + 1 ELSE early[work[h]]
        BY <2>10, <3>1 DEF Credit
      <4>3. QED BY <4>1, <4>2
    <3>3. age' \in [Members -> 0 .. Interval + 1] /\ early' \in [Members -> 0 .. Excused(MaxFaults) + 1]
      BY <2>10, <3>1, <3>2 DEF Credit
    <3>4. QED BY <2>10, <3>3 DEF Credit
  <2>11. ASSUME NEW h \in Handlers, Ack(h) PROVE ReplenishTypeOK'
    BY <2>11 DEF Ack
  <2>12. ASSUME NEW h \in Handlers, HandlerFails(h) PROVE ReplenishTypeOK'
    <3>1. work[h] \in Members
      BY <2>12 DEF HandlerFails
    <3>2. QED BY <2>12, <3>1 DEF HandlerFails
  <2>13. CASE UNCHANGED replenishVars
    BY <2>13 DEF replenishVars
  <2>14. QED
    BY <2>1, <2>2, <2>3, <2>4, <2>5, <2>6, <2>7, <2>8, <2>9, <2>10, <2>11, <2>12, <2>13
       DEF ReplenishNext
<1>3. QED BY <1>1, <1>2, PTL DEF ReplenishSpec

\* What is under way for a user: rows not yet marked, those of them not yet published,
\* messages at work and not yet credited, and a row that the job will still write.
RowsOf(u)   == {r \in Rows \ processed : owner[r] = u}
Unsent(u)   == {r \in RowsOf(u) : \A x \in Relays : r \notin sent[x]}
Busy        == {h \in Handlers : work[h] # Nobody}
Serving(u)  == {h \in Handlers : work[h] = u /\ h \notin credited}
Expected(u) == IF u \in eligible \/ (~ran /\ age[u] > Interval) THEN 1 ELSE 0

\* The top-ups to come without another fault, and the one of them that is due.
ToCome(u) == Expected(u) + Cardinality(Unsent(u)) + queue[u] + Cardinality(Serving(u))
Due(u)    == IF age[u] > Interval THEN 1 ELSE 0

TopUpsFormed ==
    /\ eligible # {} => ran
    /\ \A x \in Relays : sent[x] \subseteq held[x] /\ held[x] \subseteq Rows \ processed
    /\ \A h \in credited : work[h] # Nobody
    /\ IsFiniteSet(Busy)

\* Of a user there is one row more, at most, than there have been faults.
RowsInv == \A u \in Members : Cardinality(RowsOf(u)) + Expected(u) <= 1 + faults

\* What is to come is excused, but for what is due.
ToComeInv == \A u \in Members : early[u] + ToCome(u) <= Excused(faults) + Due(u)

TopUpInv == TopUpsFormed /\ RowsInv /\ ToComeInv /\ OncePerWeek

\* Relay runs do not overlap.
OneRelay == \A x, y \in Relays : x = y

\* What is under way is finite, and counts are numbers.
LEMMA TopUpSizes ==
  ASSUME ReplenishTypeOK, TopUpsFormed, NEW u \in Members
  PROVE  /\ IsFiniteSet(RowsOf(u)) /\ Cardinality(RowsOf(u)) \in Nat
         /\ IsFiniteSet(Unsent(u)) /\ Cardinality(Unsent(u)) \in Nat
         /\ IsFiniteSet(Serving(u)) /\ Cardinality(Serving(u)) \in Nat
         /\ Cardinality(Unsent(u)) <= Cardinality(RowsOf(u))
         /\ Expected(u) \in {0, 1} /\ Due(u) \in {0, 1} /\ queue[u] \in Nat
         /\ early[u] \in Nat /\ faults \in Nat /\ Excused(faults) \in Nat
<1>1. RowsOf(u) \in SUBSET Rows /\ Unsent(u) \in SUBSET RowsOf(u)
  BY DEF RowsOf, Unsent
<1>2. IsFiniteSet(RowsOf(u)) /\ Cardinality(RowsOf(u)) \in Nat
  BY <1>1, FS_Subset, FS_CardinalityType, ReplenishAssumption
<1>3. IsFiniteSet(Unsent(u)) /\ Cardinality(Unsent(u)) \in Nat
      /\ Cardinality(Unsent(u)) <= Cardinality(RowsOf(u))
  BY <1>1, <1>2, FS_Subset, FS_CardinalityType
<1>4. IsFiniteSet(Serving(u)) /\ Cardinality(Serving(u)) \in Nat
  <2>1. Serving(u) \in SUBSET Busy
    BY ReplenishAssumption DEF Serving, Busy
  <2>2. QED BY <2>1, FS_Subset, FS_CardinalityType DEF TopUpsFormed
<1>5. early[u] \in Nat /\ faults \in Nat /\ Excused(faults) \in Nat /\ queue[u] \in Nat
  <2>1. faults \in Nat /\ queue[u] \in Nat /\ Excused(MaxFaults) \in Nat
    BY ExcusedNext, ReplenishAssumption DEF ReplenishTypeOK
  <2>2. early[u] \in 0 .. Excused(MaxFaults) + 1
    BY DEF ReplenishTypeOK
  <2>3. Excused(faults) \in Nat
    BY <2>1, ExcusedNext
  <2>4. early[u] \in Nat
    BY <2>1, <2>2
  <2>5. QED BY <2>1, <2>3, <2>4
<1>6. QED BY <1>2, <1>3, <1>4, <1>5 DEF Expected, Due

\* The invariant is kept when, for every user, what is to come grows with a fault by at
\* most what the fault excuses, and otherwise not beyond what falls due.
LEMMA TopUpKept ==
  ASSUME ReplenishTypeOK, TopUpInv, ReplenishTypeOK', TopUpsFormed',
         faults' = faults \/ faults' = faults + 1,
         \A u \in Members :
            /\ Cardinality(RowsOf(u)') + Expected(u)' <=
                  Cardinality(RowsOf(u)) + Expected(u) + (faults' - faults)
               \/ Cardinality(RowsOf(u)') + Expected(u)' <= 1
            /\ \/ early'[u] + ToCome(u)' <= early[u] + ToCome(u) + (Due(u)' - Due(u))
                                           + (IF faults' = faults THEN 0 ELSE faults + 1)
               \/ early'[u] <= Excused(faults) /\ ToCome(u)' <= Due(u)'
            /\ early'[u] = early[u] \/ early'[u] <= Excused(faults)
  PROVE  TopUpInv'
<1>1. faults \in Nat /\ faults' \in Nat
  BY ReplenishAssumption DEF ReplenishTypeOK
<1>2. /\ Excused(faults) \in Nat /\ Excused(faults)' \in Nat
      /\ Excused(faults)' = Excused(faults) + (IF faults' = faults THEN 0 ELSE faults + 1)
  <2>1. CASE faults' = faults
    BY <2>1, <1>1, ExcusedNext DEF Excused
  <2>2. CASE faults' = faults + 1
    <3>1. Excused(faults)' = Excused(faults + 1)
      BY <2>2 DEF Excused
    <3>2. Excused(faults) \in Nat /\ Excused(faults + 1) = Excused(faults) + faults + 1
      BY <1>1, ExcusedNext
    <3>3. QED BY <2>2, <3>1, <3>2, <1>1
  <2>3. QED BY <2>1, <2>2
<1>3. (IF faults' = faults THEN 0 ELSE faults + 1) \in Nat
  BY <1>1
<1>4. ASSUME NEW u \in Members
      PROVE  /\ Cardinality(RowsOf(u)') + Expected(u)' <= 1 + faults'
             /\ early'[u] + ToCome(u)' <= Excused(faults)' + Due(u)'
             /\ early'[u] <= Excused(faults)'
  <2>1. /\ Cardinality(RowsOf(u)) + Expected(u) <= 1 + faults
        /\ early[u] + ToCome(u) <= Excused(faults) + Due(u)
        /\ early[u] <= Excused(faults)
    BY DEF TopUpInv, RowsInv, ToComeInv, OncePerWeek
  <2>2. /\ Cardinality(RowsOf(u)) \in Nat /\ Expected(u) \in Nat /\ early[u] \in Nat
        /\ Due(u) \in Nat /\ ToCome(u) \in Nat
    BY TopUpSizes DEF TopUpInv, ToCome
  <2>3. ReplenishTypeOK' => /\ Cardinality(RowsOf(u)') \in Nat /\ Expected(u)' \in Nat
                            /\ early'[u] \in Nat /\ Due(u)' \in Nat /\ ToCome(u)' \in Nat
    <3>1. /\ Cardinality(RowsOf(u)') \in Nat /\ Cardinality(Unsent(u)') \in Nat
          /\ Cardinality(Serving(u)') \in Nat
          /\ Expected(u)' \in {0, 1} /\ Due(u)' \in {0, 1} /\ queue'[u] \in Nat
      <4>1. RowsOf(u)' \in SUBSET Rows /\ Unsent(u)' \in SUBSET Rows
        BY DEF RowsOf, Unsent
      <4>2. Serving(u)' \in SUBSET Busy' /\ IsFiniteSet(Busy)'
        BY ReplenishAssumption DEF Serving, Busy, TopUpsFormed
      <4>3. IsFiniteSet(Busy')
        BY <4>2
      <4>4. Expected(u)' \in {0, 1} /\ Due(u)' \in {0, 1} /\ queue'[u] \in Nat
        BY DEF Expected, Due, ReplenishTypeOK
      <4>5. QED BY <4>1, <4>2, <4>3, <4>4, FS_Subset, FS_CardinalityType, ReplenishAssumption
    <3>2. early'[u] \in Nat
      <4>1. early'[u] \in 0 .. Excused(MaxFaults) + 1
        BY DEF ReplenishTypeOK
      <4>2. QED BY <4>1, ExcusedNext, ReplenishAssumption
    <3>3. QED BY <3>1, <3>2 DEF ToCome
  <2>4. Cardinality(RowsOf(u)') + Expected(u)' <= 1 + faults'
    BY <2>1, <2>2, <2>3, <1>1
  <2>5. early'[u] + ToCome(u)' <= Excused(faults)' + Due(u)'
    BY <2>1, <2>2, <2>3, <1>1, <1>2
  <2>6. early'[u] <= Excused(faults)'
    BY <2>1, <2>2, <2>3, <1>1, <1>2
  <2>7. QED BY <2>4, <2>5, <2>6
<1>5. QED BY <1>4 DEF TopUpInv, RowsInv, ToComeInv, OncePerWeek

\* What there is of a user's top-ups, and how much of it there can be.
Sized(u) ==
  /\ IsFiniteSet(RowsOf(u)) /\ IsFiniteSet(Unsent(u)) /\ IsFiniteSet(Serving(u))
  /\ Cardinality(RowsOf(u)) \in Nat /\ Cardinality(Unsent(u)) \in Nat
  /\ Cardinality(Serving(u)) \in Nat
  /\ queue[u] \in Nat /\ early[u] \in Nat /\ faults \in Nat
  /\ Due(u) \in {0, 1} /\ Expected(u) \in {0, 1} /\ early[u] <= Excused(faults)

\* The same as a fact about all users.
LEMMA TopUpSized ==
  ASSUME ReplenishTypeOK, TopUpInv
  PROVE  \A u \in Members : Sized(u)
  BY TopUpSizes DEF TopUpInv, OncePerWeek, Sized

\* The job: what is expected of it is written once.
LEMMA JobKeeps ==
  ASSUME ReplenishTypeOK, TopUpInv, ReplenishTypeOK',
         JobRead \/ (\E v \in Members : JobWrite(v)) \/ JobFails
  PROVE  TopUpInv'
<1> USE DEF table, relay, inbox
<1>1. TopUpsFormed /\ \A u \in Members : Sized(u)
  BY TopUpSized DEF TopUpInv
<1> USE DEF Sized
<1>2. CASE JobRead
  <2>1. TopUpsFormed' /\ faults' = faults
    BY <1>1, <1>2 DEF JobRead, TopUpsFormed, Busy
  <2>2. \A u \in Members : /\ RowsOf(u)' = RowsOf(u) /\ Unsent(u)' = Unsent(u)
                         /\ Serving(u)' = Serving(u) /\ queue'[u] = queue[u]
                         /\ Expected(u)' = Expected(u) /\ Due(u)' = Due(u) /\ early'[u] = early[u]
    BY <1>2 DEF JobRead, RowsOf, Unsent, Serving, Expected, Due, WeekIsOver
  <2>3. QED BY <1>1, <2>1, <2>2, TopUpKept DEF ToCome
<1>3. ASSUME NEW v \in Members, JobWrite(v) PROVE TopUpInv'
  <2> DEFINE r == CHOOSE r \in FreeRows : TRUE
  <2>1. /\ r \in FreeRows /\ v \in eligible /\ eligible' = eligible \ {v}
        /\ owner' = [owner EXCEPT ![r] = v] /\ processed' = processed \ {r}
        /\ UNCHANGED <<age, ran, held, sent, queue, work, credited, early, faults>>
    BY <1>3 DEF JobWrite
  <2> HIDE DEF r
  <2>2. r \in Rows /\ r \in processed /\ \A x \in Relays : r \notin held[x] /\ r \notin sent[x]
    BY <1>1, <2>1 DEF FreeRows, ReplenishTypeOK, TopUpsFormed
  <2>3. ran
    BY <1>1, <2>1 DEF TopUpsFormed
  <2>4. TopUpsFormed'
    BY <1>1, <2>1, <2>2, <2>3 DEF TopUpsFormed, Busy
  <2>5. ASSUME NEW u \in Members, u # v
        PROVE  /\ RowsOf(u)' = RowsOf(u) /\ Unsent(u)' = Unsent(u)
               /\ Serving(u)' = Serving(u) /\ queue'[u] = queue[u]
               /\ Expected(u)' = Expected(u) /\ Due(u)' = Due(u) /\ early'[u] = early[u]
    <3>1. RowsOf(u)' = RowsOf(u)
      BY <2>1, <2>2, <2>5 DEF RowsOf, ReplenishTypeOK
    <3>2. QED BY <2>1, <2>5, <3>1 DEF Unsent, Serving, Expected, Due
  <2>6. ASSUME NEW u \in Members, u = v
        PROVE  /\ RowsOf(u)' = RowsOf(u) \cup {r} /\ Unsent(u)' = Unsent(u) \cup {r}
               /\ Serving(u)' = Serving(u) /\ queue'[u] = queue[u]
               /\ Expected(u)' = 0 /\ Expected(u) = 1 /\ Due(u)' = Due(u)
               /\ early'[u] = early[u] /\ r \notin RowsOf(u) /\ r \notin Unsent(u)
    <3>1. RowsOf(u)' = RowsOf(u) \cup {r}
      BY <2>1, <2>2, <2>6 DEF RowsOf, ReplenishTypeOK
    <3>2. Unsent(u)' = Unsent(u) \cup {r}
      BY <2>1, <2>2, <3>1 DEF Unsent
    <3>3. QED BY <2>1, <2>2, <2>3, <2>6, <3>1, <3>2 DEF Serving, Expected, Due, RowsOf, Unsent
  <2>7. ASSUME NEW u \in Members, u = v
        PROVE  /\ Cardinality(RowsOf(u)') = Cardinality(RowsOf(u)) + 1
               /\ Cardinality(Unsent(u)') = Cardinality(Unsent(u)) + 1
    <3>1. IsFiniteSet(RowsOf(u)) /\ IsFiniteSet(Unsent(u))
      BY <1>1
    <3>2. QED BY <2>6, <2>7, <3>1, FS_AddElement
  <2>8. ASSUME NEW u \in Members
        PROVE  /\ Cardinality(RowsOf(u)') + Expected(u)' = Cardinality(RowsOf(u)) + Expected(u)
               /\ ToCome(u)' = ToCome(u) /\ Due(u)' = Due(u) /\ early'[u] = early[u]
               /\ ToCome(u) \in Nat
    <3>1. CASE u = v
      BY <1>1, <2>6, <2>7, <3>1 DEF ToCome
    <3>2. CASE u # v
      BY <1>1, <2>5, <3>2 DEF ToCome
    <3>3. QED BY <3>1, <3>2
  <2>9. faults' = faults
    BY <2>1
  <2>10. QED BY <1>1, <2>4, <2>8, <2>9, TopUpKept
<1>4. CASE JobFails
  <2>1. TopUpsFormed' /\ faults' = faults + 1
    BY <1>1, <1>4 DEF JobFails, TopUpsFormed, Busy, Fault
  <2>2. \A u \in Members : /\ RowsOf(u)' = RowsOf(u) /\ Unsent(u)' = Unsent(u)
                         /\ Serving(u)' = Serving(u) /\ queue'[u] = queue[u]
                         /\ Expected(u)' \in {0, 1} /\ Due(u)' = Due(u) /\ early'[u] = early[u]
    BY <1>4 DEF JobFails, RowsOf, Unsent, Serving, Expected, Due, Fault
  <2>3. QED BY <1>1, <2>1, <2>2, TopUpKept DEF ToCome
<1>5. QED BY <1>2, <1>3, <1>4

\* A run of the relay: a row that is published becomes a message, and a row that is
\* marked has been published.
LEMMA RelayKeeps ==
  ASSUME OneRelay, ReplenishTypeOK, TopUpInv, ReplenishTypeOK', NEW x \in Relays,
         RelayRead(x) \/ RelayMark(x) \/ RelayFails(x) \/ \E r \in Rows : RelayPublish(x, r)
  PROVE  TopUpInv'
<1> USE DEF job, table, inbox
<1>1. TopUpsFormed /\ \A u \in Members : Sized(u)
  BY TopUpSized DEF TopUpInv
<1> USE DEF Sized
<1>2. CASE RelayRead(x)
  <2>1. TopUpsFormed' /\ faults' = faults
    BY <1>1, <1>2 DEF RelayRead, TopUpsFormed, Busy, ReplenishTypeOK
  <2>2. \A u \in Members : /\ RowsOf(u)' = RowsOf(u) /\ Unsent(u)' = Unsent(u)
                         /\ Serving(u)' = Serving(u) /\ queue'[u] = queue[u]
                         /\ Expected(u)' = Expected(u) /\ Due(u)' = Due(u) /\ early'[u] = early[u]
    BY <1>2 DEF RelayRead, RowsOf, Unsent, Serving, Expected, Due
  <2>3. QED BY <1>1, <2>1, <2>2, TopUpKept DEF ToCome
<1>3. CASE RelayMark(x)
  <2>1. TopUpsFormed' /\ faults' = faults
    BY <1>1, <1>3 DEF RelayMark, TopUpsFormed, Busy, ReplenishTypeOK, OneRelay
  <2>2. ASSUME NEW u \in Members
        PROVE  /\ RowsOf(u)' \in SUBSET RowsOf(u) /\ Unsent(u)' = Unsent(u)
               /\ Serving(u)' = Serving(u) /\ queue'[u] = queue[u]
               /\ Expected(u)' = Expected(u) /\ Due(u)' = Due(u) /\ early'[u] = early[u]
    <3>1. \A y \in Relays : y = x
      BY DEF OneRelay
    <3>2. RowsOf(u)' = RowsOf(u) \ sent[x]
      BY <1>3 DEF RelayMark, RowsOf
    <3>3. Unsent(u) = RowsOf(u) \ sent[x] /\ Unsent(u)' = RowsOf(u)'
      BY <1>3, <3>1 DEF RelayMark, Unsent, ReplenishTypeOK
    <3>4. QED BY <1>3, <3>2, <3>3 DEF RelayMark, Serving, Expected, Due
  <2>3. \A u \in Members : /\ Cardinality(RowsOf(u)') <= Cardinality(RowsOf(u))
                         /\ Cardinality(RowsOf(u)') \in Nat
    BY <1>1, <2>2, TopUpSizes, FS_Subset, FS_CardinalityType
  <2>4. QED BY <1>1, <2>1, <2>2, <2>3, TopUpKept DEF ToCome
<1>4. CASE RelayFails(x)
  <2>1. TopUpsFormed' /\ faults' = faults + 1
    BY <1>1, <1>4 DEF RelayFails, TopUpsFormed, Busy, ReplenishTypeOK, OneRelay, Fault
  <2>2. \A u \in Members : /\ RowsOf(u)' = RowsOf(u) /\ Unsent(u)' \in SUBSET RowsOf(u)
                         /\ Serving(u)' = Serving(u) /\ queue'[u] = queue[u]
                         /\ Expected(u)' = Expected(u) /\ Due(u)' = Due(u) /\ early'[u] = early[u]
    BY <1>4 DEF RelayFails, RowsOf, Unsent, Serving, Expected, Due, Fault
  <2>3. \A u \in Members : /\ Cardinality(Unsent(u)') <= Cardinality(RowsOf(u))
                         /\ Cardinality(Unsent(u)') \in Nat
                         /\ Cardinality(RowsOf(u)) <= 1 + faults
    BY <1>1, <2>2, TopUpSizes, FS_Subset, FS_CardinalityType DEF TopUpInv, RowsInv
  <2>4. QED BY <1>1, <2>1, <2>2, <2>3, TopUpKept DEF ToCome
<1>5. ASSUME NEW r \in Rows, RelayPublish(x, r) PROVE TopUpInv'
  <2>1. r \in held[x] /\ r \notin sent[x] /\ r \notin processed /\ owner[r] \in Members
    BY <1>1, <1>5 DEF RelayPublish, TopUpsFormed, ReplenishTypeOK
  <2>2. CASE faults' = faults /\ sent' = [sent EXCEPT ![x] = @ \cup {r}]
             /\ queue' = [queue EXCEPT ![owner[r]] = @ + 1] /\ UNCHANGED held
    <3>1. TopUpsFormed'
      BY <1>1, <1>5, <2>1, <2>2 DEF RelayPublish, TopUpsFormed, Busy, ReplenishTypeOK
    <3>2. \A u \in Members : /\ RowsOf(u)' = RowsOf(u) /\ Serving(u)' = Serving(u)
                           /\ Expected(u)' = Expected(u) /\ Due(u)' = Due(u)
                           /\ early'[u] = early[u]
      BY <1>5 DEF RelayPublish, RowsOf, Serving, Expected, Due
    <3>3. \A u \in Members : Unsent(u)' = Unsent(u) \ {r}
      BY <2>2, <3>2 DEF Unsent, ReplenishTypeOK
    <3>4. ASSUME NEW u \in Members, u # owner[r]
          PROVE  ToCome(u)' = ToCome(u)
      <4>1. r \notin Unsent(u) /\ queue'[u] = queue[u]
        BY <2>2, <3>4 DEF Unsent, RowsOf, ReplenishTypeOK
      <4>2. Unsent(u)' = Unsent(u)
        BY <3>3, <4>1
      <4>3. QED BY <1>1, <3>2, <4>1, <4>2 DEF ToCome
    <3>5. ASSUME NEW u \in Members, u = owner[r]
          PROVE  ToCome(u)' = ToCome(u)
      <4>1. r \in Unsent(u) /\ queue'[u] = queue[u] + 1
        BY <2>1, <2>2, <3>5 DEF Unsent, RowsOf, OneRelay, ReplenishTypeOK
      <4>2. Unsent(u)' = Unsent(u) \ {r} /\ IsFiniteSet(Unsent(u))
        BY <1>1, <3>3
      <4>3. Cardinality(Unsent(u)') = Cardinality(Unsent(u)) - 1
        BY <4>1, <4>2, FS_RemoveElement
      <4>4. QED BY <1>1, <3>2, <4>1, <4>3 DEF ToCome
    <3>6. \A u \in Members : ToCome(u)' = ToCome(u) /\ ToCome(u) \in Nat
      BY <1>1, <3>4, <3>5 DEF ToCome
    <3>7. faults' = faults
      BY <2>2
    <3>8. QED BY <1>1, <3>1, <3>2, <3>6, <3>7, TopUpKept
  <2>3. CASE faults' = faults + 1 /\ held' = [held EXCEPT ![x] = @ \ {r}] /\ UNCHANGED <<queue, sent>>
    <3>1. TopUpsFormed'
      BY <1>1, <1>5, <2>1, <2>3 DEF RelayPublish, TopUpsFormed, Busy, ReplenishTypeOK
    <3>2. \A u \in Members : /\ RowsOf(u)' = RowsOf(u) /\ Serving(u)' = Serving(u)
                           /\ Unsent(u)' = Unsent(u) /\ queue'[u] = queue[u]
                           /\ Expected(u)' = Expected(u) /\ Due(u)' = Due(u)
                           /\ early'[u] = early[u]
      BY <1>5, <2>3 DEF RelayPublish, RowsOf, Unsent, Serving, Expected, Due
    <3>3. QED BY <1>1, <2>3, <3>1, <3>2, TopUpKept DEF ToCome
  <2>4. QED BY <1>5, <2>2, <2>3 DEF RelayPublish, Fault
<1>6. QED BY <1>2, <1>3, <1>4, <1>5

\* The handlers: a message credits once, and once more after a fault.
LEMMA HandlersKeep ==
  ASSUME ReplenishTypeOK, TopUpInv, ReplenishTypeOK', NEW h \in Handlers,
         Credit(h) \/ Ack(h) \/ HandlerFails(h) \/ \E v \in Members : Take(h, v)
  PROVE  TopUpInv'
<1> USE DEF job, table, relay
<1>1. TopUpsFormed /\ \A u \in Members : Sized(u)
  BY TopUpSized DEF TopUpInv
<1> USE DEF Sized
<1>2. ASSUME NEW v \in Members, Take(h, v) PROVE TopUpInv'
  <2>1. faults' = faults /\ work[h] = Nobody /\ h \notin credited /\ v # Nobody
    BY <1>1, <1>2, ReplenishAssumption DEF Take, TopUpsFormed
  <2>2. TopUpsFormed'
    <3>1. Busy' \in SUBSET (Busy \cup {h})
      BY <1>2 DEF Take, Busy, ReplenishTypeOK
    <3>2. IsFiniteSet(Busy')
      BY <1>1, <3>1, FS_AddElement, FS_Subset DEF TopUpsFormed
    <3>3. \A g \in credited' : work'[g] # Nobody
      BY <1>1, <1>2, <2>1 DEF Take, TopUpsFormed, ReplenishTypeOK
    <3>4. IsFiniteSet(Busy)'
      BY <3>2
    <3>5. QED BY <1>1, <1>2, <3>3, <3>4 DEF Take, TopUpsFormed
  <2>3. \A u \in Members : /\ RowsOf(u)' = RowsOf(u) /\ Unsent(u)' = Unsent(u)
                         /\ Expected(u)' = Expected(u) /\ Due(u)' = Due(u) /\ early'[u] = early[u]
    BY <1>2 DEF Take, RowsOf, Unsent, Expected, Due
  <2>4. ASSUME NEW u \in Members, u # v PROVE ToCome(u)' = ToCome(u)
    <3>1. Serving(u)' = Serving(u) /\ queue'[u] = queue[u]
      BY <1>2, <2>1, <2>4, ReplenishAssumption DEF Take, Serving, ReplenishTypeOK
    <3>2. QED BY <1>1, <2>3, <3>1 DEF ToCome
  <2>5. ASSUME NEW u \in Members, u = v PROVE ToCome(u)' = ToCome(u)
    <3>1. Serving(u)' = Serving(u) \cup {h} /\ queue'[u] = queue[u] - 1
      BY <1>2, <2>1, <2>5 DEF Take, Serving, ReplenishTypeOK
    <3>2. h \notin Serving(u) /\ IsFiniteSet(Serving(u))
      BY <1>1, <2>1, <2>5 DEF Serving
    <3>3. Cardinality(Serving(u)') = Cardinality(Serving(u)) + 1
      BY <3>1, <3>2, FS_AddElement
    <3>4. QED BY <1>1, <2>3, <3>1, <3>3 DEF ToCome
  <2>6. \A u \in Members : ToCome(u)' = ToCome(u) /\ ToCome(u) \in Nat
    BY <1>1, <2>4, <2>5 DEF ToCome
  <2>7. QED BY <1>1, <2>1, <2>2, <2>3, <2>6, TopUpKept
<1>3. CASE Credit(h)
  <2>1. /\ work[h] \in Members /\ h \notin credited /\ faults' = faults
        /\ age' = [age EXCEPT ![work[h]] = 0] /\ credited' = credited \cup {h}
        /\ UNCHANGED <<ran, eligible, owner, processed, held, sent, queue, work>>
    BY <1>3 DEF Credit, ReplenishTypeOK
  <2>2. TopUpsFormed'
    BY <1>1, <1>3, <2>1 DEF TopUpsFormed, Busy, Credit
  <2>3. \A u \in Members : /\ RowsOf(u)' = RowsOf(u) /\ Unsent(u)' = Unsent(u)
                         /\ queue'[u] = queue[u] /\ Expected(u)' \in {0, 1}
                         /\ Expected(u)' <= Expected(u)
    BY <2>1, ReplenishAssumption DEF RowsOf, Unsent, Expected, ReplenishTypeOK
  <2>4. ASSUME NEW u \in Members, u # work[h]
        PROVE  ToCome(u)' <= ToCome(u) /\ early'[u] = early[u] /\ Due(u)' = Due(u)
    <3>1. Serving(u)' = Serving(u)
      BY <2>1, <2>4 DEF Serving, ReplenishTypeOK
    <3>2. early'[u] = early[u] /\ Due(u)' = Due(u)
      BY <1>3, <2>1, <2>4 DEF Credit, Due, ReplenishTypeOK
    <3>3. QED BY <1>1, <2>3, <3>1, <3>2 DEF ToCome
  <2>5. ASSUME NEW u \in Members, u = work[h]
        PROVE  /\ ToCome(u)' <= ToCome(u) - 1 /\ ToCome(u)' \in Nat /\ Due(u)' = 0
               /\ early'[u] \in {early[u], early[u] + 1}
               /\ Due(u) = 1 => early'[u] = early[u]
    <3>1. Serving(u)' = Serving(u) \ {h} /\ h \in Serving(u) /\ IsFiniteSet(Serving(u))
      BY <1>1, <2>1, <2>5 DEF Serving, ReplenishTypeOK
    <3>2. Cardinality(Serving(u)') = Cardinality(Serving(u)) - 1
      BY <3>1, FS_RemoveElement
    <3>3. Cardinality(Serving(u)') \in Nat
      BY <3>1, FS_RemoveElement, FS_CardinalityType
    <3>4. age'[u] = 0 /\ age[u] \in Nat
      BY <2>1, <2>5 DEF ReplenishTypeOK
    <3>5. Due(u)' = 0
      BY <3>4, ReplenishAssumption DEF Due
    <3>6. early'[u] \in {early[u], early[u] + 1} /\ (Due(u) = 1 => early'[u] = early[u])
      BY <1>3, <2>1, <2>5, <3>4, ReplenishAssumption DEF Credit, Due, ReplenishTypeOK
    <3>7. QED BY <1>1, <2>3, <3>2, <3>3, <3>5, <3>6 DEF ToCome
  <2>6. \A u \in Members : ToCome(u) \in Nat /\ early[u] + ToCome(u) <= Excused(faults) + Due(u)
                         /\ Excused(faults) \in Nat
    <3>1. faults \in Nat => Excused(faults) \in Nat
      BY ExcusedNext
    <3>2. \A u \in Members : ToCome(u) \in Nat /\ faults \in Nat
      BY <1>1 DEF ToCome
    <3>3. QED BY <3>1, <3>2 DEF TopUpInv, ToComeInv
  <2>7. ASSUME NEW u \in Members
        PROVE  /\ early'[u] + ToCome(u)' <= early[u] + ToCome(u) + (Due(u)' - Due(u))
               /\ early'[u] <= Excused(faults)
    <3>1. CASE u = work[h]
      BY <1>1, <2>5, <2>6, <3>1
    <3>2. CASE u # work[h]
      <4>1. ToCome(u)' \in Nat \/ ToCome(u)' \in Int
        <5>1. Serving(u)' = Serving(u)
          BY <2>1, <3>2 DEF Serving, ReplenishTypeOK
        <5>2. QED BY <1>1, <2>3, <5>1 DEF ToCome
      <4>2. QED BY <1>1, <2>4, <2>6, <3>2, <4>1
    <3>3. QED BY <3>1, <3>2
  <2>8. \A u \in Members : Cardinality(RowsOf(u)') + Expected(u)' <= Cardinality(RowsOf(u)) + Expected(u)
    BY <1>1, <2>3
  <2>9. faults' = faults /\ faults' - faults = 0
    BY <2>1 DEF ReplenishTypeOK
  <2>10. ASSUME NEW u \in Members
         PROVE  early'[u] + ToCome(u)' <= early[u] + ToCome(u) + (Due(u)' - Due(u)) + 0
    <3>1. early[u] + ToCome(u) + (Due(u)' - Due(u)) \in Int
      BY <1>1, <2>6 DEF Due
    <3>2. QED BY <2>7, <3>1
  <2>11. ASSUME NEW u \in Members
         PROVE  Cardinality(RowsOf(u)') + Expected(u)' <= Cardinality(RowsOf(u)) + Expected(u) + (faults' - faults)
    BY <1>1, <2>8, <2>9
  <2>12. QED BY <2>2, <2>7, <2>9, <2>10, <2>11, TopUpKept
<1>4. CASE Ack(h)
  <2>1. faults' = faults /\ work' = [work EXCEPT ![h] = Nobody] /\ h \in credited
        /\ credited' = credited \ {h}
        /\ UNCHANGED <<age, ran, eligible, owner, processed, held, sent, queue, early>>
    BY <1>4 DEF Ack
  <2>2. TopUpsFormed'
    <3>1. Busy' \in SUBSET Busy
      BY <2>1 DEF Busy, ReplenishTypeOK
    <3>2. IsFiniteSet(Busy')
      BY <1>1, <3>1, FS_Subset DEF TopUpsFormed
    <3>3. IsFiniteSet(Busy)'
      BY <3>2
    <3>4. QED BY <1>1, <2>1, <3>3 DEF TopUpsFormed, ReplenishTypeOK
  <2>3. \A u \in Members : /\ RowsOf(u)' = RowsOf(u) /\ Unsent(u)' = Unsent(u)
                         /\ Serving(u)' = Serving(u) /\ queue'[u] = queue[u]
                         /\ Expected(u)' = Expected(u) /\ Due(u)' = Due(u) /\ early'[u] = early[u]
    BY <2>1, ReplenishAssumption DEF RowsOf, Unsent, Serving, Expected, Due, ReplenishTypeOK
  <2>4. QED BY <1>1, <2>1, <2>2, <2>3, TopUpKept DEF ToCome
<1>5. CASE HandlerFails(h)
  <2>1. /\ faults' = faults + 1 /\ work' = [work EXCEPT ![h] = Nobody] /\ work[h] \in Members
        /\ credited' = credited \ {h} /\ queue' = [queue EXCEPT ![work[h]] = @ + 1]
        /\ UNCHANGED <<age, ran, eligible, owner, processed, held, sent, early>>
    BY <1>5 DEF HandlerFails, Fault, ReplenishTypeOK
  <2>2. TopUpsFormed'
    <3>1. Busy' \in SUBSET Busy
      BY <2>1 DEF Busy, ReplenishTypeOK
    <3>2. IsFiniteSet(Busy')
      BY <1>1, <3>1, FS_Subset DEF TopUpsFormed
    <3>3. IsFiniteSet(Busy)'
      BY <3>2
    <3>4. QED BY <1>1, <2>1, <3>3 DEF TopUpsFormed, ReplenishTypeOK
  <2>3. \A u \in Members : /\ RowsOf(u)' = RowsOf(u) /\ Unsent(u)' = Unsent(u)
                         /\ Serving(u)' \in SUBSET Serving(u) /\ queue'[u] \in {queue[u], queue[u] + 1}
                         /\ Expected(u)' = Expected(u) /\ Due(u)' = Due(u) /\ early'[u] = early[u]
    BY <2>1, ReplenishAssumption DEF RowsOf, Unsent, Serving, Expected, Due, ReplenishTypeOK
  <2>4. \A u \in Members : /\ Cardinality(Serving(u)') <= Cardinality(Serving(u))
                         /\ Cardinality(Serving(u)') \in Nat
    BY <1>1, <2>3, FS_Subset, FS_CardinalityType
  <2>5. QED BY <1>1, <2>1, <2>2, <2>3, <2>4, TopUpKept DEF ToCome
<1>6. QED BY <1>2, <1>3, <1>4, <1>5

\* An hour passes when nothing is under way: what is to come is what falls due.
LEMMA HourKeeps ==
  ASSUME Prompt, ReplenishTypeOK, TopUpInv, ReplenishTypeOK', HourPasses
  PROVE  TopUpInv'
<1>1. TopUpsFormed /\ \A u \in Members : Sized(u)
  BY TopUpSized DEF TopUpInv
<1>2. /\ eligible = {} /\ processed = Rows
      /\ \A u \in Members : queue[u] = 0
      /\ \A k \in Handlers : work[k] = Nobody
      /\ ran' = FALSE /\ faults' = faults /\ early' = early /\ eligible' = eligible
      /\ UNCHANGED <<owner, processed, held, sent, queue, work, credited>>
  BY DEF HourPasses, UnderWay, ReplenishTypeOK, table, relay, inbox
<1>3. TopUpsFormed'
  BY <1>1, <1>2 DEF TopUpsFormed, Busy
<1>4. ASSUME NEW u \in Members
      PROVE  RowsOf(u)' = {} /\ Unsent(u)' = {} /\ Serving(u)' = {} /\ queue'[u] = 0
             /\ Expected(u)' = Due(u)' /\ Due(u)' \in {0, 1}
  BY <1>2, ReplenishAssumption DEF RowsOf, Unsent, Serving, Expected, Due
<1>5. Cardinality({}) = 0
  BY FS_EmptySet
<1>6. ASSUME NEW u \in Members
      PROVE  /\ Cardinality(RowsOf(u)') + Expected(u)' <= 1
             /\ early'[u] <= Excused(faults) /\ ToCome(u)' <= Due(u)'
  <2>1. Cardinality(RowsOf(u)') = 0 /\ Cardinality(Unsent(u)') = 0 /\ Cardinality(Serving(u)') = 0
    BY <1>4, <1>5
  <2>2. QED BY <1>1, <1>2, <1>4, <2>1 DEF Sized, ToCome
<1>7. QED BY <1>2, <1>3, <1>6, TopUpKept

\* "Every week you receive an automatic top-up" (FaqPage.tsx), and no two within a week
\* but by a fault, when deliveries take less than an hour and runs of the relay do not
\* overlap: for any number of users, rows, handlers and faults.
THEOREM ToppedUpOnce == Prompt /\ OneRelay /\ ReplenishSpec => []OncePerWeek
<1> SUFFICES ASSUME Prompt, OneRelay PROVE ReplenishSpec => []OncePerWeek
  OBVIOUS
<1>1. ReplenishInit => TopUpInv
  <2> SUFFICES ASSUME ReplenishInit PROVE TopUpInv
    OBVIOUS
  <2>1. \A u \in Members : /\ RowsOf(u) = {} /\ Unsent(u) = {} /\ Serving(u) = {} /\ queue[u] = 0
                         /\ Expected(u) = Due(u) /\ Due(u) \in {0, 1}
                         /\ early[u] = 0 /\ faults = 0
    BY ReplenishAssumption DEF ReplenishInit, RowsOf, Unsent, Serving, Expected, Due
  <2>2. Busy = {}
    BY DEF ReplenishInit, Busy
  <2>3. TopUpsFormed
    BY <2>2, FS_EmptySet DEF ReplenishInit, TopUpsFormed
  <2>4. Excused(faults) = 0
    BY ExcusedNext DEF ReplenishInit
  <2>5. Cardinality({}) = 0
    BY FS_EmptySet
  <2>6. \A u \in Members : ToCome(u) = Due(u) /\ Cardinality(RowsOf(u)) = 0
    BY <2>1, <2>5 DEF ToCome
  <2>7. RowsInv
    BY <2>1, <2>6 DEF RowsInv
  <2>8. ToComeInv
    BY <2>1, <2>4, <2>6 DEF ToComeInv
  <2>9. OncePerWeek
    BY <2>1, <2>4 DEF OncePerWeek
  <2>10. QED BY <2>3, <2>7, <2>8, <2>9 DEF TopUpInv
<1>2. ReplenishTypeOK /\ ReplenishTypeOK' /\ TopUpInv /\ [ReplenishNext]_replenishVars => TopUpInv'
  <2> SUFFICES ASSUME ReplenishTypeOK, ReplenishTypeOK', TopUpInv, [ReplenishNext]_replenishVars
               PROVE  TopUpInv'
    OBVIOUS
  <2>1. CASE UNCHANGED replenishVars
    BY <2>1 DEF replenishVars, job, table, relay, inbox, TopUpInv, TopUpsFormed, RowsInv, ToComeInv,
                OncePerWeek, RowsOf, Unsent, Busy, Serving, Expected, ToCome, Due
  <2>2. CASE ReplenishNext
    BY <2>2, HourKeeps, JobKeeps, RelayKeeps, HandlersKeep DEF ReplenishNext
  <2>3. QED BY <2>1, <2>2
<1>3. TopUpInv => OncePerWeek
  BY DEF TopUpInv
<1>4. QED BY <1>1, <1>2, <1>3, TopUpTypes, PTL DEF ReplenishSpec

-----------------------------------------------------------------------------
\* Placing bets

\* Every adjustment is a credit.
NoDebits == \A a \in Adjustments : AdjAmount[a] >= 0

USE PlaceBetAssumption

\* Type correctness: whatever the requests, the admin and the jobs do to the rows,
\* they keep the shape that schema.prisma gives them.
THEOREM TypeCorrect == Spec => []TypeOK
<1>1. Init => TypeOK
  BY DEF Init, TypeOK, NoTxn, EventRow
<1>2. TypeOK /\ [Next]_vars => TypeOK'
  <2> SUFFICES ASSUME TypeOK, [Next]_vars
               PROVE  TypeOK'
    OBVIOUS
  <2> USE DEF TypeOK, Reject
  <2>1. ASSUME NEW r \in Requests, ReadEvent(r) PROVE TypeOK'
    BY <2>1 DEF ReadEvent, txnVars
  <2>2. ASSUME NEW r \in Requests, SumBets(r) PROVE TypeOK'
    BY <2>2 DEF SumBets, PendingBets
  <2>3. ASSUME NEW r \in Requests, SnapshotOdds(r) PROVE TypeOK'
    BY <2>3 DEF SnapshotOdds
  <2>4. ASSUME NEW r \in Requests, Deduct(r) PROVE TypeOK'
    BY <2>4 DEF Deduct
  <2>5. ASSUME NEW r \in Requests, Commit(r) PROVE TypeOK'
    <3>1. [req |-> r, odds |-> seen[r].odds[ReqSelection[r]]] \in Bet
      BY DEF Bet, EventRow
    <3>2. bets' \subseteq Bet
      BY <2>5, <3>1 DEF Commit
    <3>3. balance' \in [Users -> Int]
      BY <2>5 DEF Commit
    <3>4. QED BY <2>5, <3>2, <3>3 DEF Commit
  <2>6. ASSUME NEW r \in Requests, Abort(r) PROVE TypeOK'
    BY <2>6 DEF Abort
  <2>7. ASSUME NEW a \in Adjustments, AdjustCheck(a) PROVE TypeOK'
    BY <2>7 DEF AdjustCheck, txnVars
  <2>8. ASSUME NEW a \in Adjustments, AdjustUpdate(a) PROVE TypeOK'
    BY <2>8 DEF AdjustUpdate, txnVars
  <2>9. ASSUME NEW e \in Events, EventStep(e) PROVE TypeOK'
    <3>1. ASSUME NEW row \in EventRow, Edit(e, row) PROVE TypeOK'
      BY <3>1 DEF Edit, txnVars
    <3>2. \E row \in EventRow : Edit(e, row)
      <4>1. event[e] \in EventRow
        OBVIOUS
      <4> QED BY <2>9, <4>1 DEF EventStep, StartMoves, GoLive, End, SetOdds, SetMaxBet,
                                SetWindow, MapToHltv, EventRow
    <3>3. QED BY <3>1, <3>2
  <2>10. ASSUME SetAllowCs2 PROVE TypeOK'
    BY <2>10 DEF SetAllowCs2, txnVars
  <2>11. CASE UNCHANGED vars
    BY <2>11 DEF vars, txnVars
  <2>12. QED
    BY <2>1, <2>2, <2>3, <2>4, <2>5, <2>6, <2>7, <2>8, <2>9, <2>10, <2>11
       DEF Next, RequestStep
<1>3. QED BY <1>1, <1>2, PTL DEF Spec

-----------------------------------------------------------------------------
\* The inductive invariant.  That a balance is not negative is not preserved by
\* itself: a commit subtracts the stake without a test.  FundsHeld says why it
\* may: the test was made when the row was locked, and the row is locked still.
BalanceInv == BalanceNonNegative /\ FundsHeld

\* At the start no balance is negative, and no request holds funds.
LEMMA BalanceInvInit == Init => BalanceInv
  BY DEF Init, BalanceInv, BalanceNonNegative, FundsHeld

\* Every step keeps the balances: a request that has read one holds its lock.
LEMMA BalanceInvStep ==
  ASSUME NoDebits, TypeOK, BalanceInv, [Next]_vars
  PROVE  BalanceInv'
<1> USE DEF BalanceInv, BalanceNonNegative, FundsHeld, TypeOK
<1>1. ASSUME NEW r \in Requests, RequestStep(r) PROVE BalanceInv'
  <2>1. CASE ReadEvent(r) \/ SumBets(r) \/ SnapshotOdds(r)
    BY <2>1 DEF ReadEvent, SumBets, SnapshotOdds, Reject
  <2>2. CASE Deduct(r)
    \* The row was free, so that no request of the user was in this state.
    BY <2>2 DEF Deduct, Reject, NoTxn
  <2>3. CASE Commit(r)
    <3>1. \A u \in Users : balance'[u] >= 0
      BY <2>3 DEF Commit
    <3>2. ASSUME NEW s \in Requests, pc'[s] = "deducted"
          PROVE  rowLock'[ReqUser[s]] = s /\ balance'[ReqUser[s]] >= ReqAmount[s]
      <4>1. s # r /\ pc[s] = "deducted"
        BY <2>3, <3>2 DEF Commit
      <4>2. rowLock[ReqUser[s]] = s /\ rowLock[ReqUser[r]] = r
        BY <2>3, <4>1 DEF Commit
      <4>3. ReqUser[s] # ReqUser[r]
        BY <4>1, <4>2
      <4> QED BY <2>3, <4>1, <4>2, <4>3 DEF Commit
    <3>3. QED BY <3>1, <3>2
  <2>4. QED BY <1>1, <2>1, <2>2, <2>3 DEF RequestStep
<1>2. ASSUME NEW r \in Requests, Abort(r) PROVE BalanceInv'
  BY <1>2 DEF Abort, Reject
<1>3. ASSUME NEW a \in Adjustments, AdjustCheck(a) PROVE BalanceInv'
  BY <1>3 DEF AdjustCheck, txnVars
<1>4. ASSUME NEW a \in Adjustments, AdjustUpdate(a) PROVE BalanceInv'
  <2>1. AdjAmount[a] >= 0 /\ AdjAmount[a] \in Int /\ AdjUser[a] \in Users
    BY DEF NoDebits
  <2>2. QED BY <1>4, <2>1 DEF AdjustUpdate, txnVars
<1>5. ASSUME NEW e \in Events, EventStep(e) PROVE BalanceInv'
  BY <1>5 DEF EventStep, StartMoves, GoLive, End, SetOdds, SetMaxBet, SetWindow,
              MapToHltv, Edit, txnVars
<1>6. CASE SetAllowCs2
  BY <1>6 DEF SetAllowCs2, txnVars
<1>7. CASE UNCHANGED vars
  BY <1>7 DEF vars, txnVars
<1>8. QED BY <1>1, <1>2, <1>3, <1>4, <1>5, <1>6, <1>7 DEF Next

\* No interleaving of requests makes a balance negative: the conditional update of
\* placeBet is enough, as long as nothing debits a user but bets.  (With a debit
\* by the admin it is not: TLC finds that with a debit among the Adjustments.)
THEOREM NeverNegative ==
  ASSUME NoDebits
  PROVE  Spec => []BalanceNonNegative
<1>1. BalanceInv => BalanceNonNegative
  BY DEF BalanceInv
<1>2. QED BY TypeCorrect, BalanceInvInit, BalanceInvStep, <1>1, PTL DEF Spec

-----------------------------------------------------------------------------
\* What a transaction has checked of the row it read, it keeps: nothing but
\* another read changes the copy.
Checked(r) ==
    /\ pc[r] \in {"read", "summed", "priced", "deducted", "committed"} =>
         Open(seen[r]) /\ ReqAmount[r] <= seen[r].maxBet
    /\ pc[r] \in {"priced", "deducted", "committed"} => seen[r].odds[ReqSelection[r]] # 0

PriceInv ==
    /\ \A r \in Requests : Checked(r)
    /\ \A b \in bets : pc[b.req] = "committed" /\ b.odds = seen[b.req].odds[ReqSelection[b.req]]

\* At the start no request has read a row, and no bet is placed.
LEMMA PriceInvInit == Init => PriceInv
  BY DEF Init, PriceInv, Checked

\* Every step keeps what was checked: the copy of the row is the request's own.
LEMMA PriceInvStep ==
  ASSUME TypeOK, PriceInv, [Next]_vars
  PROVE  PriceInv'
<1> USE DEF PriceInv, Checked, TypeOK, Open, Bet
<1>1. ASSUME NEW r \in Requests, RequestStep(r) PROVE PriceInv'
  <2>1. CASE ReadEvent(r)
    <3>1. \A s \in Requests : s # r => pc'[s] = pc[s] /\ seen'[s] = seen[s]
      BY <2>1 DEF ReadEvent, Reject
    <3>2. Checked(r)'
      BY <2>1 DEF ReadEvent, Reject
    <3>3. \A b \in bets : b.req # r
      BY <2>1 DEF ReadEvent
    <3>4. bets' = bets
      BY <2>1 DEF ReadEvent
    <3>5. QED BY <3>1, <3>2, <3>3, <3>4
  <2>2. CASE SumBets(r) \/ SnapshotOdds(r) \/ Deduct(r)
    <3>1. seen' = seen /\ bets' = bets /\ pc[r] # "committed"
      BY <2>2 DEF SumBets, SnapshotOdds, Deduct
    <3>2. \A s \in Requests : s # r => pc'[s] = pc[s]
      BY <2>2 DEF SumBets, SnapshotOdds, Deduct, Reject
    <3>3. Checked(r)'
      BY <2>2 DEF SumBets, SnapshotOdds, Deduct, Reject
    <3>4. QED BY <3>1, <3>2, <3>3
  <2>3. CASE Commit(r)
    <3>1. /\ seen' = seen /\ pc[r] = "deducted" /\ pc' = [pc EXCEPT ![r] = "committed"]
          /\ bets' = bets \cup {[req |-> r, odds |-> seen[r].odds[ReqSelection[r]]]}
      BY <2>3 DEF Commit
    <3>2. \A s \in Requests : Checked(s)'
      BY <3>1
    <3>3. \A b \in bets' : pc'[b.req] = "committed" /\ b.odds = seen'[b.req].odds[ReqSelection[b.req]]
      BY <3>1
    <3>4. QED BY <3>2, <3>3
  <2>4. QED BY <1>1, <2>1, <2>2, <2>3 DEF RequestStep
<1>2. ASSUME NEW r \in Requests, Abort(r) PROVE PriceInv'
  <2>1. /\ UNCHANGED <<seen, bets>> /\ pc[r] # "committed"
        /\ pc' = [pc EXCEPT ![r] = "rejected"]
    BY <1>2 DEF Abort, Reject
  <2>2. QED BY <2>1
<1>3. ASSUME UNCHANGED <<pc, seen, bets>> PROVE PriceInv'
  BY <1>3
<1>4. QED
  BY <1>1, <1>2, <1>3
     DEF Next, vars, txnVars, AdjustCheck, AdjustUpdate, EventStep, StartMoves, GoLive, End,
         SetOdds, SetMaxBet, SetWindow, MapToHltv, Edit, SetAllowCs2

\* Whatever happens to the event while the transaction runs, there was one version
\* of its row that admitted the bet and gave it its odds (bets.service.ts:36-94).
THEOREM PricedByOneVersion == Spec => []PricedWhileOpen
<1>1. TypeOK /\ PriceInv => PricedWhileOpen
  <2> SUFFICES ASSUME TypeOK, PriceInv, NEW b \in bets
               PROVE  /\ Open(seen[b.req])
                      /\ b.odds = seen[b.req].odds[ReqSelection[b.req]] /\ b.odds > 0
                      /\ ReqAmount[b.req] <= seen[b.req].maxBet
    BY DEF PricedWhileOpen
  <2>1. b.req \in Requests /\ b.odds \in Nat
    BY DEF TypeOK, Bet
  <2>2. Checked(b.req) /\ pc[b.req] = "committed" /\ b.odds = seen[b.req].odds[ReqSelection[b.req]]
    BY <2>1 DEF PriceInv
  <2>3. b.odds # 0
    BY <2>2 DEF Checked
  <2>4. QED BY <2>1, <2>2, <2>3 DEF Checked
<1>2. QED BY TypeCorrect, PriceInvInit, PriceInvStep, <1>1, PTL DEF Spec
-----------------------------------------------------------------------------
\* The sums of the model, as sums of functions.
StakeOf == [b \in Bet |-> ReqAmount[b.req]]

\* The stakes of a user are a sum over the bets.
LEMMA StakesSum ==
  ASSUME NEW S, S \subseteq Bet, IsFiniteSet(S)
  PROVE  Stakes(S) = Sum(StakeOf, S)
<1> DEFINE Eq(g) == g = [s \in SUBSET S |-> IF s = {} THEN 0
                           ELSE ReqAmount[Pick(s).req] + g[s \ {Pick(s)}]]
           I == CHOOSE g : Eq(g)
<1>1. Stakes(S) = I[S]
  BY DEF Stakes, MapThenSumSet, MapThenFoldSet, Pick
<1>2. ASSUME NEW g PROVE Eq(g) <=> Sums(g, StakeOf, SUBSET S)
  <2>1. \A s \in SUBSET S : s # {} => StakeOf[Pick(s)] = ReqAmount[Pick(s).req]
    BY PickIn DEF StakeOf
  <2>2. [s \in SUBSET S |-> IF s = {} THEN 0 ELSE ReqAmount[Pick(s).req] + g[s \ {Pick(s)}]]
        = [s \in SUBSET S |-> IF s = {} THEN 0 ELSE StakeOf[Pick(s)] + g[s \ {Pick(s)}]]
    BY <2>1
  <2>3. QED BY <2>2 DEF Sums
<1>3. \E g : Sums(g, StakeOf, SUBSET S)
  BY SumsExist
<1> HIDE DEF Eq
<1>4. Eq(I)
  BY <1>2, <1>3
<1>5. Sums(I, StakeOf, SUBSET S)
  BY <1>2, <1>4
<1>6. QED BY <1>1, <1>5, SumOfSums

\* So are the credits.
LEMMA CreditsSum ==
  ASSUME NEW S, S \subseteq Adjustments, IsFiniteSet(S)
  PROVE  MapThenSumSet(LAMBDA a : AdjAmount[a], S) = Sum(AdjAmount, S)
<1> DEFINE I == CHOOSE g : Sums(g, AdjAmount, SUBSET S)
<1>1. MapThenSumSet(LAMBDA a : AdjAmount[a], S) = I[S]
  BY DEF MapThenSumSet, MapThenFoldSet, Sums, Pick
<1>2. QED BY <1>1 DEF Sum

\* A stake is an amount that was asked for.
LEMMA StakeInt == \A b \in Bet : StakeOf[b] = ReqAmount[b.req] /\ StakeOf[b] \in Int
  BY DEF StakeOf, Bet

\* What has been added to a balance, and what has been taken from it.
CreditsOf(u) == {a \in Adjustments : adjust[a] = "done" /\ AdjUser[a] = u}
BetsOf(u)    == {b \in bets : ReqUser[b.req] = u}

AccountInv ==
    \A u \in Users :
        /\ IsFiniteSet(CreditsOf(u)) /\ IsFiniteSet(BetsOf(u))
        /\ balance[u] = InitBalance[u] + Sum(AdjAmount, CreditsOf(u)) - Sum(StakeOf, BetsOf(u))

\* At the start every balance is the given one, and nothing is staked or credited.
LEMMA AccountInvInit == Init => AccountInv
<1> SUFFICES ASSUME Init, NEW u \in Users
             PROVE  /\ IsFiniteSet(CreditsOf(u)) /\ IsFiniteSet(BetsOf(u))
                    /\ balance[u] = InitBalance[u] + Sum(AdjAmount, CreditsOf(u)) - Sum(StakeOf, BetsOf(u))
  BY DEF AccountInv
<1>1. CreditsOf(u) = {} /\ BetsOf(u) = {}
  BY DEF Init, CreditsOf, BetsOf
<1>2. Sum(AdjAmount, {}) = 0 /\ Sum(StakeOf, {}) = 0 /\ IsFiniteSet({})
  BY SumEmpty, FS_EmptySet
<1>3. balance[u] = InitBalance[u] /\ InitBalance[u] \in Int
  BY DEF Init
<1>4. QED BY <1>1, <1>2, <1>3

\* The sums are numbers.
LEMMA AccountInt ==
  ASSUME TypeOK, AccountInv, NEW u \in Users
  PROVE  Sum(AdjAmount, CreditsOf(u)) \in Int /\ Sum(StakeOf, BetsOf(u)) \in Int
<1>1. IsFiniteSet(CreditsOf(u)) /\ IsFiniteSet(BetsOf(u))
  BY DEF AccountInv
<1>2. \A a \in CreditsOf(u) : AdjAmount[a] \in Int
  BY DEF CreditsOf
<1>3. \A b \in BetsOf(u) : StakeOf[b] \in Int
  BY StakeInt DEF BetsOf, TypeOK
<1>4. QED BY <1>1, <1>2, <1>3, SumInt

\* Every step keeps the accounts: what leaves a balance is a stake, what comes to it a credit.
LEMMA AccountInvStep ==
  ASSUME TypeOK, PriceInv, AccountInv, [Next]_vars
  PROVE  AccountInv'
<1>1. ASSUME UNCHANGED <<balance, bets, adjust>> PROVE AccountInv'
  <2>1. \A u \in Users : CreditsOf(u)' = CreditsOf(u) /\ BetsOf(u)' = BetsOf(u)
    BY <1>1 DEF CreditsOf, BetsOf
  <2>2. QED BY <1>1, <2>1 DEF AccountInv
<1>2. ASSUME NEW r \in Requests, Commit(r) PROVE AccountInv'
  <2> DEFINE new == [req |-> r, odds |-> seen[r].odds[ReqSelection[r]]]
  <2>1. new \in Bet /\ new.req = r
    BY DEF TypeOK, Bet, EventRow
  <2> HIDE DEF new
  <2>2. new \notin bets
    BY <1>2, <2>1 DEF Commit, PriceInv
  <2>3. bets' = bets \cup {new} /\ UNCHANGED adjust
    BY <1>2 DEF Commit, new
  <2>4. ASSUME NEW u \in Users
        PROVE  /\ IsFiniteSet(CreditsOf(u)') /\ IsFiniteSet(BetsOf(u)')
               /\ balance'[u] = InitBalance[u] + Sum(AdjAmount, CreditsOf(u)') - Sum(StakeOf, BetsOf(u)')
    <3>1. CreditsOf(u)' = CreditsOf(u)
      BY <2>3 DEF CreditsOf
    <3>2. /\ IsFiniteSet(CreditsOf(u)) /\ IsFiniteSet(BetsOf(u))
          /\ balance[u] = InitBalance[u] + Sum(AdjAmount, CreditsOf(u)) - Sum(StakeOf, BetsOf(u))
      BY DEF AccountInv
    <3>3. CASE u = ReqUser[r]
      <4>1. BetsOf(u)' = BetsOf(u) \cup {new}
        BY <2>1, <2>3, <3>3 DEF BetsOf
      <4>2. new \notin BetsOf(u) /\ \A b \in BetsOf(u) \cup {new} : StakeOf[b] \in Int
        BY <2>1, <2>2, StakeInt DEF BetsOf, TypeOK
      <4>3. Sum(StakeOf, BetsOf(u) \cup {new}) = StakeOf[new] + Sum(StakeOf, BetsOf(u))
        BY <3>2, <4>2, SumAdd
      <4>4. StakeOf[new] = ReqAmount[r] /\ ReqAmount[r] \in Int
        BY <2>1, StakeInt
      <4>5. balance'[u] = balance[u] - ReqAmount[r]
        BY <1>2, <3>3 DEF Commit, TypeOK
      <4>6. IsFiniteSet(BetsOf(u) \cup {new})
        BY <3>2, FS_AddElement
      <4>7. InitBalance[u] \in Int
        OBVIOUS
      <4>8. QED BY <3>1, <3>2, <4>1, <4>3, <4>4, <4>5, <4>6, <4>7, AccountInt
    <3>4. CASE u # ReqUser[r]
      <4>1. BetsOf(u)' = BetsOf(u)
        BY <2>1, <2>3, <3>4 DEF BetsOf
      <4>2. balance'[u] = balance[u]
        BY <1>2, <3>4 DEF Commit, TypeOK
      <4>3. QED BY <3>1, <3>2, <4>1, <4>2
    <3>5. QED BY <3>3, <3>4
  <2>5. QED BY <2>4 DEF AccountInv
<1>3. ASSUME NEW a \in Adjustments, AdjustUpdate(a) PROVE AccountInv'
  <2>1. /\ adjust[a] = "checked" /\ adjust' = [adjust EXCEPT ![a] = "done"]
        /\ balance' = [balance EXCEPT ![AdjUser[a]] = @ + AdjAmount[a]]
        /\ UNCHANGED bets
    BY <1>3 DEF AdjustUpdate
  <2>2. ASSUME NEW u \in Users
        PROVE  /\ IsFiniteSet(CreditsOf(u)') /\ IsFiniteSet(BetsOf(u)')
               /\ balance'[u] = InitBalance[u] + Sum(AdjAmount, CreditsOf(u)') - Sum(StakeOf, BetsOf(u)')
    <3>1. BetsOf(u)' = BetsOf(u)
      BY <2>1 DEF BetsOf
    <3>2. /\ IsFiniteSet(CreditsOf(u)) /\ IsFiniteSet(BetsOf(u))
          /\ balance[u] = InitBalance[u] + Sum(AdjAmount, CreditsOf(u)) - Sum(StakeOf, BetsOf(u))
      BY DEF AccountInv
    <3>3. CASE u = AdjUser[a]
      <4>1. CreditsOf(u)' = CreditsOf(u) \cup {a} /\ a \notin CreditsOf(u)
        BY <2>1, <3>3 DEF CreditsOf, TypeOK
      <4>2. \A b \in CreditsOf(u) \cup {a} : AdjAmount[b] \in Int
        BY DEF CreditsOf
      <4>3. Sum(AdjAmount, CreditsOf(u) \cup {a}) = AdjAmount[a] + Sum(AdjAmount, CreditsOf(u))
        BY <3>2, <4>1, <4>2, SumAdd
      <4>4. balance'[u] = balance[u] + AdjAmount[a]
        BY <2>1, <3>3 DEF TypeOK
      <4>5. IsFiniteSet(CreditsOf(u) \cup {a})
        BY <3>2, FS_AddElement
      <4>6. InitBalance[u] \in Int /\ AdjAmount[a] \in Int
        OBVIOUS
      <4>7. QED BY <3>1, <3>2, <4>1, <4>3, <4>4, <4>5, <4>6, AccountInt
    <3>4. CASE u # AdjUser[a]
      <4>1. CreditsOf(u)' = CreditsOf(u)
        BY <2>1, <3>4 DEF CreditsOf, TypeOK
      <4>2. balance'[u] = balance[u]
        BY <2>1, <3>4 DEF TypeOK
      <4>3. QED BY <3>1, <3>2, <4>1, <4>2
    <3>5. QED BY <3>3, <3>4
  <2>3. QED BY <2>2 DEF AccountInv
<1>4. ASSUME NEW a \in Adjustments, AdjustCheck(a) PROVE AccountInv'
  <2>1. /\ adjust[a] = "start" /\ UNCHANGED <<balance, bets>>
        /\ \E x \in {"refused", "checked"} : adjust' = [adjust EXCEPT ![a] = x]
    BY <1>4 DEF AdjustCheck
  <2>2. \A u \in Users : CreditsOf(u)' = CreditsOf(u) /\ BetsOf(u)' = BetsOf(u)
    BY <2>1 DEF CreditsOf, BetsOf, TypeOK
  <2>3. QED BY <2>1, <2>2 DEF AccountInv
<1>5. QED
  BY <1>1, <1>2, <1>3, <1>4
     DEF Next, vars, txnVars, RequestStep, ReadEvent, SumBets, SnapshotOdds, Deduct, Abort,
         EventStep, StartMoves, GoLive, End, SetOdds, SetMaxBet, SetWindow, MapToHltv, Edit,
         SetAllowCs2

\* No cent is lost or charged twice, in any interleaving of requests, adjustments
\* and aborted transactions (bets.service.ts:96-125): the balance is what the bets
\* and the adjustments leave of the first one.
THEOREM EveryCentAccounted == Spec => []StakesAccounted
<1>1. TypeOK /\ AccountInv => StakesAccounted
  <2> SUFFICES ASSUME TypeOK, AccountInv, NEW u \in Users
               PROVE  balance[u] = InitBalance[u]
                        + MapThenSumSet(LAMBDA a : AdjAmount[a], CreditsOf(u)) - Stakes(BetsOf(u))
    BY DEF StakesAccounted, CreditsOf, BetsOf
  <2>1. /\ IsFiniteSet(CreditsOf(u)) /\ CreditsOf(u) \subseteq Adjustments
        /\ IsFiniteSet(BetsOf(u)) /\ BetsOf(u) \subseteq Bet
    BY DEF AccountInv, CreditsOf, BetsOf, TypeOK
  <2>2. MapThenSumSet(LAMBDA a : AdjAmount[a], CreditsOf(u)) = Sum(AdjAmount, CreditsOf(u))
    BY <2>1, CreditsSum
  <2>3. Stakes(BetsOf(u)) = Sum(StakeOf, BetsOf(u))
    BY <2>1, StakesSum
  <2>4. QED BY <2>2, <2>3 DEF AccountInv
<1>2. QED
  BY TypeCorrect, PriceInvInit, PriceInvStep, AccountInvInit, AccountInvStep, <1>1, PTL DEF Spec

-----------------------------------------------------------------------------
\* The limit was checked against the bets that were counted then.
LimitInv ==
    \A r \in Requests : pc[r] \in {"summed", "priced", "deducted"} =>
        Stakes(counted[r]) + ReqAmount[r] <= seen[r].maxBet

\* At the start no request has counted bets.
LEMMA LimitInvInit == Init => LimitInv
  BY DEF Init, LimitInv

\* Every step keeps the limit: what was counted, and the copy of the row, stay.
LEMMA LimitInvStep ==
  ASSUME TypeOK, LimitInv, [Next]_vars
  PROVE  LimitInv'
<1> USE DEF LimitInv, TypeOK
<1>1. ASSUME UNCHANGED <<pc, counted, seen>> PROVE LimitInv'
  BY <1>1
<1>2. ASSUME NEW r \in Requests, ReadEvent(r) PROVE LimitInv'
  BY <1>2 DEF ReadEvent, Reject
<1>3. ASSUME NEW r \in Requests, SumBets(r) PROVE LimitInv'
  BY <1>3 DEF SumBets, Reject
<1>4. ASSUME NEW r \in Requests, SnapshotOdds(r) \/ Deduct(r) PROVE LimitInv'
  BY <1>4 DEF SnapshotOdds, Deduct, Reject
<1>5. ASSUME NEW r \in Requests, Commit(r) \/ Abort(r) PROVE LimitInv'
  BY <1>5 DEF Commit, Abort, Reject
<1>6. QED
  BY <1>1, <1>2, <1>3, <1>4, <1>5
     DEF Next, vars, txnVars, RequestStep, AdjustCheck, AdjustUpdate, EventStep, StartMoves,
         GoLive, End, SetOdds, SetMaxBet, SetWindow, MapToHltv, Edit, SetAllowCs2

\* The bets of the request's user on its event have become one more, and with it
\* they are within the limit the request has read.
LEMMA LimitAtCommit ==
  ASSUME TypeOK, PriceInv, AccountInv, LimitInv, [Next]_vars, NEW r \in Requests,
         pc[r] = "deducted", pc'[r] = "committed", counted[r] = PendingBets(r)
  PROVE  Stakes(PendingBets(r))' <= seen[r].maxBet
<1>1. Commit(r)
  BY ZenonT(30) DEF Next, vars, txnVars, RequestStep, ReadEvent, SumBets, SnapshotOdds, Deduct, Abort, Reject,
         AdjustCheck, AdjustUpdate, EventStep, StartMoves, GoLive, End, SetOdds, SetMaxBet,
         SetWindow, MapToHltv, Edit, SetAllowCs2, TypeOK, Commit
<1> DEFINE new == [req |-> r, odds |-> seen[r].odds[ReqSelection[r]]]
<1>2. new \in Bet /\ new.req = r
  BY DEF TypeOK, Bet, EventRow
<1> HIDE DEF new
<1>3. new \notin bets
  BY <1>2 DEF PriceInv
<1>4. bets' = bets \cup {new}
  BY <1>1 DEF Commit, new
<1>5. PendingBets(r)' = PendingBets(r) \cup {new}
  BY <1>2, <1>4 DEF PendingBets
<1>6. PendingBets(r) \subseteq BetsOf(ReqUser[r]) /\ PendingBets(r) \subseteq Bet
  BY DEF PendingBets, BetsOf, TypeOK
<1>7. IsFiniteSet(PendingBets(r)) /\ IsFiniteSet(PendingBets(r) \cup {new})
  <2>1. IsFiniteSet(BetsOf(ReqUser[r]))
    BY DEF AccountInv
  <2>2. IsFiniteSet(PendingBets(r))
    BY <1>6, <2>1, FS_Subset
  <2>3. QED BY <2>2, FS_AddElement
<1>8. new \notin PendingBets(r) /\ \A b \in PendingBets(r) \cup {new} : StakeOf[b] \in Int
  BY <1>2, <1>3, <1>6, StakeInt DEF PendingBets
<1>9. Sum(StakeOf, PendingBets(r) \cup {new}) = StakeOf[new] + Sum(StakeOf, PendingBets(r))
  BY <1>7, <1>8, SumAdd
<1>10. StakeOf[new] = ReqAmount[r] /\ ReqAmount[r] \in Int
  BY <1>2, StakeInt
<1>11. Stakes(PendingBets(r)) = Sum(StakeOf, PendingBets(r))
  BY <1>6, <1>7, StakesSum
<1>12. Stakes(PendingBets(r)') = Sum(StakeOf, PendingBets(r) \cup {new})
  BY <1>2, <1>5, <1>6, <1>7, StakesSum
<1>13. Sum(StakeOf, PendingBets(r)) \in Int
  BY <1>7, <1>8, SumInt
<1>14. Stakes(PendingBets(r)) + ReqAmount[r] <= seen[r].maxBet
  BY DEF LimitInv
<1>15. Stakes(PendingBets(r)') <= seen[r].maxBet
  BY <1>9, <1>10, <1>11, <1>12, <1>13, <1>14
<1>16. QED BY <1>15

\* The limit of an event holds for requests that do not overtake each other
\* (bets.service.ts:63-79): a bet that is committed when the bets of the user on the
\* event are still those that were counted leaves them within the limit.
THEOREM LimitUndisturbed == Spec => LimitHoldsUndisturbed
<1> DEFINE LimitStep == \A r \in Requests :
             pc[r] = "deducted" /\ pc'[r] = "committed" /\ counted[r] = PendingBets(r)
               => Stakes(PendingBets(r))' <= seen[r].maxBet
<1>1. TypeOK /\ PriceInv /\ AccountInv /\ LimitInv /\ [Next]_vars => [LimitStep]_vars
  BY LimitAtCommit
<1>2. QED
  BY TypeCorrect, PriceInvInit, PriceInvStep, AccountInvInit, AccountInvStep, LimitInvInit,
     LimitInvStep, <1>1, PTL DEF Spec, LimitHoldsUndisturbed
=============================================================================
