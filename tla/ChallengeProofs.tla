--------------------------- MODULE ChallengeProofs ---------------------------
(***************************************************************************)
(* What holds of challenges for any number of challenges, messages,        *)
(* handlers and faults.  EventsCountOnce is not inductive: a handler       *)
(* writes what it has read before, so that the same must hold of what the  *)
(* handlers hold, and the message in progress must be one the user caused  *)
(* and the row one the message concerns.  What holds while messages are    *)
(* handled one at a time rests on AloneInv: what a handler has read is     *)
(* what the row still holds.                                               *)
(***************************************************************************)
EXTENDS ChallengeProgress, FiniteSetTheorems, TLAPS

\* The events of the user that concern a challenge.
Bets(c) == EventsOf({m \in told : Concerns(m, c)})

Known ==
    /\ queue \subseteq told
    /\ \A h \in Handlers : work[h] # NoMsg => work[h] \in told

Matching ==
    \A h \in Handlers : \A c \in todo[h] : work[h] # NoMsg /\ Concerns(work[h], c)

HeldCountOnce ==
    \A h \in Handlers, c \in Challenges : ByEvents(c) =>
        /\ oldProgress[h][c] = Cardinality(oldCounted[h][c])
        /\ oldCounted[h][c] \subseteq Bets(c)

OwingCompleted ==
    \A h \in Handlers : \A c \in owing[h] : row[c] = "COMPLETED"

IInv == TypeOK /\ Known /\ Matching /\ HeldCountOnce /\ EventsCountOnce /\ OwingCompleted

-----------------------------------------------------------------------------
\* Finite sets of events

\* There are finitely many events to bet on.
LEMMA EventsFinite == IsFiniteSet(EventsOf(Messages))
<1> DEFINE T == {Content[m].event : m \in Messages}
           f == [m \in Messages |-> Content[m].event]
<1>0. f \in Surjection(Messages, T)
  BY DEF Surjection
<1>1. IsFiniteSet(T)
  BY <1>0, FS_Surjection, ChallengeAssumption
<1> QED
  BY <1>1, FS_Subset DEF EventsOf

\* The counted events of a row are a finite set.
LEMMA CountedFinite ==
  ASSUME NEW S \in SUBSET EventsOf(Messages)
  PROVE  IsFiniteSet(S) /\ Cardinality(S) \in Nat
<1>1. IsFiniteSet(S)
  BY EventsFinite, FS_Subset
<1> QED
  BY <1>1, FS_CardinalityType

\* What the user does more of concerns no fewer events.
LEMMA BetsGrow ==
  ASSUME TypeOK, told' \in SUBSET Messages, told \subseteq told', NEW c \in Challenges
  PROVE  /\ Bets(c) \subseteq Bets(c)'
         /\ Bets(c)' \in SUBSET EventsOf(Messages)
         /\ Cardinality(Bets(c)) \in Nat /\ Cardinality(Bets(c)') \in Nat
         /\ Cardinality(Bets(c)) <= Cardinality(Bets(c)')
<1>1. Bets(c) \subseteq Bets(c)' /\ Bets(c)' \in SUBSET EventsOf(Messages)
  BY DEF TypeOK, Bets, EventsOf, Concerns
<1>2. IsFiniteSet(Bets(c)')
  BY <1>1, CountedFinite
<1>3. Cardinality(Bets(c)) <= Cardinality(Bets(c)')
  BY <1>1, <1>2, FS_Subset
<1>4. Cardinality(Bets(c)) \in Nat /\ Cardinality(Bets(c)') \in Nat
  BY <1>1, CountedFinite
<1> QED
  BY <1>1, <1>3, <1>4

-----------------------------------------------------------------------------
\* Type correctness

\* It holds at first.
LEMMA TypeInit == Init => TypeOK
<1> SUFFICES ASSUME Init PROVE TypeOK
  OBVIOUS
<1>1. overlapped \in BOOLEAN
  BY Zenon DEF Init
<1>2. faults \in Nat
  BY DEF Init
<1> QED
  BY <1>1, <1>2, ChallengeAssumption DEF Init, TypeOK, Kinds

\* Rows are updated by a handler at work, for a message that concerns them.
LEMMA TypeStep == TypeOK /\ Known /\ Matching /\ [Next]_vars => TypeOK' /\ Known' /\ Matching'
<1> SUFFICES ASSUME TypeOK, Known, Matching, [Next]_vars PROVE TypeOK' /\ Known' /\ Matching'
  OBVIOUS
<1> USE DEF TypeOK, Known, Matching
<1> DEFINE Goal == TypeOK /\ Known /\ Matching
<1>1. ASSUME NEW c \in Challenges, Generate(c) PROVE Goal'
  BY <1>1 DEF Generate, rows, handler
<1>2. ASSUME NEW c \in Challenges, TimeIsUp(c) PROVE Goal'
  BY <1>2 DEF TimeIsUp, rows, handler
<1>3. ASSUME Expire PROVE Goal'
  BY <1>3 DEF Expire, handler
<1>4. ASSUME Enroll PROVE Goal'
  BY <1>4 DEF Enroll, handler
<1>4a. ASSUME FindToEnroll PROVE Goal'
  <2>1. enrolling' \subseteq Challenges
    BY <1>4a DEF FindToEnroll
  <2> QED
    BY <1>4a, <2>1 DEF FindToEnroll, rows, handler
<1>5. ASSUME NEW m \in Messages, Act(m) PROVE Goal'
  <2>1. faults' \in Nat /\ queue' \subseteq Messages /\ queue' \subseteq told'
    BY <1>5 DEF Act
  <2> QED
    BY <1>5, <2>1 DEF Act, rows, handler
<1>6. ASSUME NEW h \in Handlers, NEW m \in Messages, Take(h, m) PROVE Goal'
  BY <1>6, ChallengeAssumption DEF Take, rows, Concerns
<1>7. ASSUME NEW h \in Handlers, NEW c \in Challenges, UpdateRow(h, c) PROVE Goal'
  <2>1. work[h] \in Messages /\ Content[work[h]].amount \in Nat
    BY <1>7, ChallengeAssumption DEF UpdateRow
  <2>2. ProgressAfter(h, c) \in Nat
    BY <2>1 DEF ProgressAfter
  <2>3. EventsAfter(h, c) \in SUBSET EventsOf(Messages)
    BY <2>1 DEF EventsAfter, EventsOf
  <2>4. StatusAfter(h, c) \in {"absent", "ACTIVE", "COMPLETED", "EXPIRED"}
    BY DEF StatusAfter
  <2>5. ASSUME ~Skips(h, c)
        PROVE  /\ row' = [row EXCEPT ![c] = StatusAfter(h, c)]
               /\ progress' = [progress EXCEPT ![c] = ProgressAfter(h, c)]
               /\ counted' = [counted EXCEPT ![c] = EventsAfter(h, c)]
               /\ \E S \in SUBSET Challenges : owing' = [owing EXCEPT ![h] = S]
    <3>1. (IF ProgressAfter(h, c) >= Criteria[c].count THEN {c} ELSE {}) \in SUBSET Challenges
      OBVIOUS
    <3> QED
      BY <1>7, <2>5, <3>1 DEF UpdateRow
  <2>6. ASSUME Skips(h, c) PROVE UNCHANGED <<row, progress, counted, owing>>
    BY <1>7, <2>6 DEF UpdateRow, rows
  <2>7. row' \in [Challenges -> {"absent", "ACTIVE", "COMPLETED", "EXPIRED"}]
    BY <2>4, <2>5, <2>6
  <2>8. progress' \in [Challenges -> Nat]
    BY <2>2, <2>5, <2>6
  <2>9. counted' \in [Challenges -> SUBSET EventsOf(Messages)]
    BY <2>3, <2>5, <2>6
  <2>10. owing' \in [Handlers -> SUBSET Challenges]
    BY <2>5, <2>6
  <2> QED
    BY <1>7, <2>7, <2>8, <2>9, <2>10 DEF UpdateRow
<1>8. ASSUME NEW h \in Handlers, Reward(h) PROVE Goal'
  BY <1>8 DEF Reward, rows
<1>9. ASSUME NEW h \in Handlers, Ack(h) PROVE Goal'
  <2>1. Forget(h)
    BY <1>9 DEF Ack
  <2>2. oldProgress' \in [Handlers -> [Challenges -> Nat]]
    BY <2>1 DEF Forget
  <2>3. oldCounted' \in [Handlers -> [Challenges -> SUBSET EventsOf(Messages)]]
    BY <2>1 DEF Forget
  <2> QED
    BY <1>9, <2>2, <2>3 DEF Ack, rows
<1>10. ASSUME NEW h \in Handlers, HandlerFails(h) PROVE Goal'
  <2>1. Forget(h)
    BY <1>10 DEF HandlerFails
  <2>2. oldProgress' \in [Handlers -> [Challenges -> Nat]]
    BY <2>1 DEF Forget
  <2>3. oldCounted' \in [Handlers -> [Challenges -> SUBSET EventsOf(Messages)]]
    BY <2>1 DEF Forget
  <2>4. work[h] \in Messages /\ work[h] \in told /\ queue' = queue \cup {work[h]} /\ faults' = faults + 1
    BY <1>10 DEF HandlerFails
  <2>5. queue' \subseteq Messages /\ queue' \subseteq told /\ faults' \in Nat
    BY <2>4
  <2>6. UNCHANGED <<period, row, progress, counted, rewarded, enrolling, told, overlapped>>
    BY <1>10 DEF HandlerFails, rows
  <2>7. /\ work' = [work EXCEPT ![h] = NoMsg] /\ todo' = [todo EXCEPT ![h] = {}]
        /\ owing' = [owing EXCEPT ![h] = {}]
    BY <1>10 DEF HandlerFails
  <2>8. /\ work' \in [Handlers -> Messages \cup {NoMsg}]
        /\ todo' \in [Handlers -> SUBSET Challenges] /\ owing' \in [Handlers -> SUBSET Challenges]
    BY <2>7
  <2>9. Known' /\ Matching'
    BY <2>5, <2>6, <2>7 DEF Concerns
  <2> QED
    BY <2>2, <2>3, <2>5, <2>6, <2>8, <2>9
<1>11. ASSUME UNCHANGED vars PROVE Goal'
  BY <1>11 DEF vars, rows, handler
<1> QED
  BY <1>1, <1>2, <1>3, <1>4, <1>4a, <1>5, <1>6, <1>7, <1>8, <1>9, <1>10, <1>11 DEF Next, HandlerStep

\* THEOREM TypeCorrect: every variable keeps its type, with any number of
\* handlers and faults.
THEOREM TypeCorrect == Spec => []TypeOK
<1>1. Init => TypeOK /\ Known /\ Matching
  BY TypeInit DEF Init, Known, Matching
<1> QED
  BY <1>1, TypeStep, PTL DEF Spec

-----------------------------------------------------------------------------
\* An event counts once

\* One update of a row that the handler has read.
LEMMA UpdateCountsOnce ==
  ASSUME IInv, NEW h \in Handlers, NEW c \in Challenges, UpdateRow(h, c), ~Skips(h, c), ByEvents(c)
  PROVE  /\ ProgressAfter(h, c) = Cardinality(EventsAfter(h, c))
         /\ EventsAfter(h, c) \subseteq Bets(c)
         /\ ProgressAfter(h, c) <= Cardinality(Bets(c))
<1> DEFINE e == Content[work[h]].event
           S == oldCounted[h][c]
<1>1. work[h] \in Messages /\ work[h] \in told /\ Concerns(work[h], c)
  BY DEF UpdateRow, IInv, Matching, Known, TypeOK
<1>2. e # NoEvent /\ Content[work[h]].amount = 1
  BY <1>1, ChallengeAssumption DEF Concerns, ByEvents
<1>3. e \in Bets(c)
  BY <1>1, <1>2 DEF Bets, EventsOf
<1>4. S \subseteq Bets(c) /\ oldProgress[h][c] = Cardinality(S) /\ S \in SUBSET EventsOf(Messages)
  BY DEF IInv, HeldCountOnce, TypeOK
<1>5. EventsAfter(h, c) = S \cup {e} /\ ProgressAfter(h, c) = Cardinality(S) + 1
  BY <1>2, <1>4 DEF EventsAfter, ProgressAfter
<1>6. Cardinality(S \cup {e}) = Cardinality(S) + 1
  <2>1. e \notin S
    BY DEF Skips
  <2> QED
    BY <2>1, <1>4, CountedFinite, FS_AddElement
<1>7. S \cup {e} \subseteq Bets(c)
  BY <1>3, <1>4
<1>8. Cardinality(S \cup {e}) <= Cardinality(Bets(c))
  <2>1. Bets(c) \in SUBSET EventsOf(Messages)
    BY DEF IInv, TypeOK, Bets, EventsOf
  <2> QED
    BY <2>1, <1>7, CountedFinite, FS_Subset
<1> QED
  BY <1>5, <1>6, <1>7, <1>8

\* What the user does changes neither the rows nor what is read of them, but for what
\* is forgotten.
LEMMA ToldMore ==
  ASSUME IInv, told' \in SUBSET Messages, told \subseteq told', UNCHANGED rows,
         \A h \in Handlers, c \in Challenges :
            \/ oldProgress'[h][c] = oldProgress[h][c] /\ oldCounted'[h][c] = oldCounted[h][c]
            \/ oldProgress'[h][c] = 0 /\ oldCounted'[h][c] = {}
  PROVE  HeldCountOnce' /\ EventsCountOnce'
<1> USE DEF rows
<1>1. ASSUME NEW c \in Challenges
      PROVE  /\ Bets(c) \subseteq Bets(c)'
             /\ Cardinality(Bets(c)) \in Nat /\ Cardinality(Bets(c)') \in Nat
             /\ Cardinality(Bets(c)) <= Cardinality(Bets(c)')
  BY <1>1, BetsGrow DEF IInv
<1>2. HeldCountOnce'
  BY <1>1, FS_EmptySet DEF IInv, HeldCountOnce, ByEvents
<1>3. ASSUME NEW c \in Challenges, ByEvents(c), row[c] = "COMPLETED"
      PROVE  Cardinality(Bets(c)') >= Criteria[c].count
  <2>1. Cardinality(Bets(c)) >= Criteria[c].count
    BY <1>3 DEF IInv, EventsCountOnce, Bets
  <2>2. Criteria[c].count \in Nat
    BY ChallengeAssumption
  <2> QED
    BY <1>1, <2>1, <2>2
<1>4. EventsCountOnce'
  BY <1>1, <1>3 DEF IInv, EventsCountOnce, ByEvents, Bets
<1> QED
  BY <1>2, <1>4

\* Rows whose status alone changes, and not to COMPLETED, count as before.
LEMMA StatusOnly ==
  ASSUME IInv, UNCHANGED <<progress, counted, told, oldProgress, oldCounted>>,
         \A c \in Challenges : row'[c] = "COMPLETED" => row[c] = "COMPLETED"
  PROVE  HeldCountOnce' /\ EventsCountOnce'
BY DEF IInv, HeldCountOnce, EventsCountOnce, ByEvents, Bets, Concerns, EventsOf

\* The invariant holds at first,
LEMMA CountInit == Init => IInv
<1> SUFFICES ASSUME Init PROVE IInv
  OBVIOUS
<1>1. Cardinality({}) = 0
  BY FS_EmptySet
<1>2. TypeOK
  BY TypeInit
<1> QED
  BY <1>1, <1>2 DEF Init, IInv, Known, Matching, HeldCountOnce, EventsCountOnce, OwingCompleted, ByEvents

\* and every step keeps it.
LEMMA CountStep == IInv /\ [Next]_vars => IInv'
<1> SUFFICES ASSUME IInv, [Next]_vars PROVE IInv'
  OBVIOUS
<1>0. TypeOK /\ TypeOK' /\ Known' /\ Matching'
  BY TypeStep DEF IInv
<1> DEFINE Goal == HeldCountOnce /\ EventsCountOnce /\ OwingCompleted
<1>1. ASSUME NEW c \in Challenges, Generate(c) \/ TimeIsUp(c) PROVE Goal'
  <2>1. UNCHANGED <<rows, told, oldProgress, oldCounted, owing>>
    BY <1>1 DEF Generate, TimeIsUp, handler
  <2> QED
    BY <2>1, <1>0, ToldMore DEF IInv, OwingCompleted, rows, TypeOK
<1>2. ASSUME Expire \/ Enroll PROVE Goal'
  <2>1. UNCHANGED <<progress, counted, told, oldProgress, oldCounted, owing>>
    BY <1>2 DEF Expire, Enroll, handler
  <2>2. \A c \in Challenges : row'[c] = "COMPLETED" <=> row[c] = "COMPLETED"
    BY <1>2 DEF Expire, Enroll, Outdated
  <2>3. OwingCompleted'
    BY <2>1, <2>2, <1>0 DEF IInv, OwingCompleted, TypeOK
  <2> QED
    BY <2>1, <2>2, <2>3, StatusOnly
<1>2a. ASSUME FindToEnroll PROVE Goal'
  <2>1. UNCHANGED <<rows, told, oldProgress, oldCounted, owing>>
    BY <1>2a DEF FindToEnroll, handler
  <2> QED
    BY <2>1, <1>0, ToldMore DEF IInv, OwingCompleted, rows, TypeOK
<1>3. ASSUME NEW m \in Messages, Act(m) PROVE Goal'
  <2>1. told \subseteq told' /\ told' \in SUBSET Messages
    BY <1>3, <1>0 DEF Act, TypeOK
  <2>2. UNCHANGED <<rows, oldProgress, oldCounted, owing>>
    BY <1>3 DEF Act, handler
  <2> QED
    BY <2>1, <2>2, ToldMore DEF IInv, OwingCompleted, rows
<1>4. ASSUME NEW h \in Handlers, NEW m \in Messages, Take(h, m) PROVE Goal'
  <2>1. UNCHANGED <<rows, told, owing>>
    BY <1>4 DEF Take
  <2>2. /\ oldProgress' = [oldProgress EXCEPT ![h] = progress]
        /\ oldCounted' = [oldCounted EXCEPT ![h] = counted]
    BY <1>4 DEF Take
  <2>3. ASSUME NEW g \in Handlers, NEW c \in Challenges, ByEvents(c)
        PROVE  /\ oldProgress'[g][c] = Cardinality(oldCounted'[g][c])
               /\ oldCounted'[g][c] \subseteq Bets(c)
    <3>1. progress[c] = Cardinality(counted[c]) /\ counted[c] \subseteq Bets(c)
      BY <2>3 DEF IInv, EventsCountOnce, Bets
    <3>2. oldProgress[g][c] = Cardinality(oldCounted[g][c]) /\ oldCounted[g][c] \subseteq Bets(c)
      BY <2>3 DEF IInv, HeldCountOnce
    <3> QED
      BY <2>2, <3>1, <3>2, <1>0 DEF TypeOK
  <2>4. HeldCountOnce'
    BY <2>1, <2>3 DEF HeldCountOnce, Bets, ByEvents, Concerns, EventsOf
  <2>5. EventsCountOnce'
    BY <2>1 DEF IInv, EventsCountOnce, rows, ByEvents, Concerns, EventsOf
  <2>6. OwingCompleted'
    BY <2>1 DEF IInv, OwingCompleted, rows
  <2> QED
    BY <2>4, <2>5, <2>6
<1>5. ASSUME NEW h \in Handlers, NEW c \in Challenges, UpdateRow(h, c) PROVE Goal'
  <2>1. UNCHANGED <<told, oldProgress, oldCounted>>
    BY <1>5 DEF UpdateRow
  <2>2. HeldCountOnce'
    BY <2>1 DEF IInv, HeldCountOnce, Bets, ByEvents, Concerns, EventsOf
  <2>3. ASSUME Skips(h, c) PROVE Goal'
    <3>1. UNCHANGED <<rows, owing>>
      BY <1>5, <2>3 DEF UpdateRow
    <3> QED
      BY <2>1, <2>2, <3>1 DEF IInv, EventsCountOnce, OwingCompleted, rows, ByEvents, Concerns, EventsOf
  <2>4. ASSUME ~Skips(h, c) PROVE Goal'
    <3>1. /\ row' = [row EXCEPT ![c] = StatusAfter(h, c)]
          /\ progress' = [progress EXCEPT ![c] = ProgressAfter(h, c)]
          /\ counted' = [counted EXCEPT ![c] = EventsAfter(h, c)]
          /\ owing' = [owing EXCEPT ![h] =
                          IF ProgressAfter(h, c) >= Criteria[c].count THEN {c} ELSE {}]
      BY <1>5, <2>4 DEF UpdateRow
    <3>2. \A d \in Challenges : d # c => row'[d] = row[d] /\ progress'[d] = progress[d]
                                                        /\ counted'[d] = counted[d]
      BY <3>1, <1>0 DEF TypeOK
    <3>3. row'[c] = StatusAfter(h, c) /\ progress'[c] = ProgressAfter(h, c)
                                      /\ counted'[c] = EventsAfter(h, c)
      BY <3>1, <1>0 DEF TypeOK
    <3>4. \A d \in Challenges : Bets(d)' = Bets(d)
      BY <2>1 DEF Bets, Concerns, EventsOf
    <3>5. ASSUME NEW d \in Challenges, ByEvents(d)
          PROVE  /\ progress'[d] = Cardinality(counted'[d])
                 /\ counted'[d] \subseteq Bets(d)
                 /\ row'[d] = "COMPLETED" => Cardinality(Bets(d)) >= Criteria[d].count
      <4>0. /\ progress[d] = Cardinality(counted[d])
            /\ counted[d] \subseteq Bets(d)
            /\ row[d] = "COMPLETED" => Cardinality(Bets(d)) >= Criteria[d].count
        BY <3>5 DEF IInv, EventsCountOnce, Bets
      <4>1. CASE d # c
        BY <4>0, <4>1, <3>2
      <4>2. ASSUME d = c
            PROVE  /\ progress'[d] = Cardinality(counted'[d])
                   /\ counted'[d] \subseteq Bets(d)
                   /\ row'[d] = "COMPLETED" => Cardinality(Bets(d)) >= Criteria[d].count
        <5>1. /\ ProgressAfter(h, c) = Cardinality(EventsAfter(h, c))
              /\ EventsAfter(h, c) \subseteq Bets(c)
              /\ ProgressAfter(h, c) <= Cardinality(Bets(c))
          BY <4>2, <3>5, <1>5, <2>4, UpdateCountsOnce
        <5>2. /\ progress'[d] = Cardinality(counted'[d])
              /\ counted'[d] \subseteq Bets(d)
          BY <5>1, <4>2, <3>3
        <5>3. progress'[c] \in Nat /\ Criteria[c].count \in Nat /\ Cardinality(Bets(c)) \in Nat
          <6>1. Bets(c) \in SUBSET EventsOf(Messages)
            BY <1>0 DEF TypeOK, Bets, EventsOf
          <6> QED
            BY <6>1, <1>0, CountedFinite, ChallengeAssumption DEF TypeOK
        <5>4. ASSUME row'[c] = "COMPLETED" PROVE Cardinality(Bets(c)) >= Criteria[c].count
          <6>1. ProgressAfter(h, c) >= Criteria[c].count \/ row[c] = "COMPLETED"
            BY <5>4, <3>3 DEF StatusAfter
          <6> QED
            BY <6>1, <5>1, <5>3, <4>0, <4>2, <3>3
        <5> QED
          BY <5>2, <5>4, <4>2
      <4> QED
        BY <4>1, <4>2
    <3>6. EventsCountOnce'
      BY <3>4, <3>5 DEF EventsCountOnce, Bets, ByEvents
    <3>7. ASSUME NEW g \in Handlers, NEW d \in owing'[g] PROVE row'[d] = "COMPLETED"
      <4>0. d \in Challenges
        BY <1>0, <3>7 DEF TypeOK
      <4>1. d \in owing[g] \/ (d = c /\ ProgressAfter(h, c) >= Criteria[c].count)
        BY <3>1, <3>7, <1>0 DEF TypeOK
      <4>2. CASE d \in owing[g]
        <5>1. row[d] = "COMPLETED"
          BY <4>2 DEF IInv, OwingCompleted
        <5> QED
          BY <5>1, <4>0, <3>2, <3>3 DEF StatusAfter
      <4> QED
        BY <4>1, <4>2, <3>3 DEF StatusAfter
    <3>8. OwingCompleted'
      BY <3>7 DEF OwingCompleted
    <3> QED
      BY <2>2, <3>6, <3>8
  <2> QED
    BY <2>3, <2>4
<1>6. ASSUME NEW h \in Handlers, Reward(h) \/ Ack(h) \/ HandlerFails(h) PROVE Goal'
  <2>1. UNCHANGED <<rows, told>>
    BY <1>6 DEF Reward, Ack, HandlerFails
  <2>4. (UNCHANGED <<oldProgress, oldCounted>>) \/ Forget(h)
    BY <1>6 DEF Reward, Ack, HandlerFails
  <2>5. \A g \in Handlers, c \in Challenges :
           \/ oldProgress'[g][c] = oldProgress[g][c] /\ oldCounted'[g][c] = oldCounted[g][c]
           \/ oldProgress'[g][c] = 0 /\ oldCounted'[g][c] = {}
    BY <2>4, <1>0 DEF Forget, TypeOK
  <2>2. \A g \in Handlers : owing'[g] \subseteq owing[g]
    BY <1>6, <1>0 DEF Reward, Ack, HandlerFails, TypeOK
  <2>3. OwingCompleted'
    BY <2>1, <2>2 DEF IInv, OwingCompleted, rows
  <2> QED
    BY <2>1, <2>3, <2>5, <1>0, ToldMore DEF TypeOK
<1>7. ASSUME UNCHANGED vars PROVE Goal'
  <2>1. UNCHANGED <<rows, told, oldProgress, oldCounted, owing>>
    BY <1>7 DEF vars, handler
  <2> QED
    BY <2>1, <1>0, ToldMore DEF IInv, OwingCompleted, rows, TypeOK
<1>8. Goal'
  BY <1>1, <1>2, <1>2a, <1>3, <1>4, <1>5, <1>6, <1>7 DEF Next, HandlerStep
<1> QED
  BY <1>0, <1>8 DEF IInv

\* THEOREM EventsCount: progress is the number of different events, all of them
\* bet on, and a completed challenge has enough of them: for any number of
\* concurrent handlers, redeliveries and jobs.
THEOREM EventsCount == Spec => []EventsCountOnce
<1>1. IInv => EventsCountOnce
  BY DEF IInv
<1> QED
  BY <1>1, CountInit, CountStep, PTL DEF Spec

\* THEOREM Final: a completed challenge is never reopened or expired, and only a
\* completed one is rewarded.
THEOREM Final == Spec => CompletedIsFinal
<1> DEFINE Kept == \A c \in Challenges :
                     /\ row[c] = "COMPLETED" => row'[c] = "COMPLETED"
                     /\ rewarded'[c] > rewarded[c] => row'[c] = "COMPLETED"
<1>1. ASSUME IInv, [Next]_vars PROVE Kept
  <2> USE DEF TypeOK, IInv
  <2>1. ASSUME NEW c \in Challenges PROVE ~(rewarded[c] > rewarded[c])
    BY <1>1
  <2>2. ASSUME UNCHANGED rewarded, \A c \in Challenges : row[c] = "COMPLETED" => row'[c] = "COMPLETED"
        PROVE  Kept
    BY <2>1, <2>2
  <2>3. ASSUME NEW c \in Challenges, Generate(c) \/ TimeIsUp(c) PROVE Kept
    BY <2>2, <2>3 DEF Generate, TimeIsUp, rows
  <2>4. ASSUME Expire \/ Enroll PROVE Kept
    BY <2>2, <2>4 DEF Expire, Enroll, Outdated
  <2>4a. ASSUME FindToEnroll PROVE Kept
    BY <2>2, <2>4a DEF FindToEnroll, rows
  <2>5. ASSUME NEW m \in Messages, Act(m) PROVE Kept
    BY <2>2, <2>5 DEF Act, rows
  <2>6. ASSUME NEW h \in Handlers, NEW m \in Messages, Take(h, m) PROVE Kept
    BY <2>2, <2>6 DEF Take, rows
  <2>7. ASSUME NEW h \in Handlers, NEW c \in Challenges, UpdateRow(h, c) PROVE Kept
    <3>1. UNCHANGED row \/ row' = [row EXCEPT ![c] = StatusAfter(h, c)]
      BY <2>7 DEF UpdateRow, rows
    <3>2. \A d \in Challenges : row[d] = "COMPLETED" => row'[d] = "COMPLETED"
      BY <3>1, <1>1 DEF StatusAfter
    <3>3. UNCHANGED rewarded
      BY <2>7 DEF UpdateRow
    <3> QED
      BY <3>2, <3>3, <2>2
  <2>8. ASSUME NEW h \in Handlers, Reward(h) PROVE Kept
    <3>1. UNCHANGED row
      BY <2>8 DEF Reward, rows
    <3>2. ASSUME NEW c \in Challenges, rewarded'[c] > rewarded[c] PROVE c \in owing[h]
      BY <2>8, <3>2, <2>1 DEF Reward
    <3> QED
      BY <3>1, <3>2, <1>1 DEF OwingCompleted
  <2>9. ASSUME NEW h \in Handlers, Ack(h) \/ HandlerFails(h) PROVE Kept
    BY <2>2, <2>9 DEF Ack, HandlerFails, rows
  <2>10. ASSUME UNCHANGED vars PROVE Kept
    BY <2>2, <2>10 DEF vars, rows
  <2> HIDE DEF Kept
  <2> QED
    BY <1>1, <2>3, <2>4, <2>4a, <2>5, <2>6, <2>7, <2>8, <2>9, <2>10 DEF Next, HandlerStep
<1>2. IInv /\ [Next]_vars => [Kept]_vars
  BY <1>1
<1> QED
  BY <1>2, CountInit, CountStep, PTL DEF Spec, CompletedIsFinal

-----------------------------------------------------------------------------
\* While the messages of the user are handled one at a time, a handler writes on top of
\* what it has read.

\* Handlers that are at work, one at most.
AtWork(h) == work[h] # NoMsg
Single    == \A g, h \in Handlers : AtWork(g) /\ AtWork(h) => g = h

\* What a handler has read of a row it has not come to is what the row holds.
AsRead ==
    \A h \in Handlers : \A c \in todo[h] :
        /\ oldProgress[h][c] = progress[c] /\ oldCounted[h][c] = counted[c]
        /\ row[c] # "COMPLETED"

\* A challenge has been rewarded once if it is completed, and nobody owes its reward.
Owed(c) == \E h \in Handlers : c \in owing[h]
Paid    == \A c \in Challenges :
               rewarded[c] = IF row[c] = "COMPLETED" /\ ~Owed(c) THEN 1 ELSE 0

AloneInv ==
    /\ \A h \in Handlers : owing[h] # {} => AtWork(h)
    /\ ~overlapped => Single /\ AsRead /\ (faults = 0 => Paid)

\* It holds before anything is handled.
LEMMA AloneInit == Init => AloneInv
<1> SUFFICES ASSUME Init PROVE AloneInv
  OBVIOUS
<1>1. \A h \in Handlers : work[h] = NoMsg /\ todo[h] = {} /\ owing[h] = {}
  BY DEF Init
<1>2. \A c \in Challenges : row[c] = "absent" /\ rewarded[c] = 0
  BY DEF Init
<1>3. QED BY <1>1, <1>2 DEF AloneInv, AtWork, Single, AsRead, Paid

\* A handler that is at work alone: others hold nothing.
LEMMA Alone ==
  ASSUME IInv, AloneInv, ~overlapped, NEW h \in Handlers, AtWork(h)
  PROVE  \A g \in Handlers : g # h => work[g] = NoMsg /\ todo[g] = {} /\ owing[g] = {}
  BY DEF IInv, Matching, AloneInv, AtWork, Single

\* Statuses that change to or from another than COMPLETED owe and pay what they did.
LEMMA StatusPays ==
  ASSUME AloneInv, UNCHANGED <<progress, counted, rewarded, handler, faults, overlapped>>,
         \A c \in Challenges : row'[c] = "COMPLETED" <=> row[c] = "COMPLETED", TypeOK
  PROVE  AloneInv'
<1> USE DEF handler
<1>1. Single => Single'
  BY DEF Single, AtWork
<1>2. AsRead => AsRead'
  BY DEF AsRead, TypeOK
<1>3. Paid => Paid'
  BY DEF Paid, Owed
<1>4. (\A h \in Handlers : owing[h] # {} => AtWork(h))'
  BY DEF AloneInv, AtWork
<1>5. QED BY <1>1, <1>2, <1>3, <1>4 DEF AloneInv

\* A handler alone updates a row it has read: the row has not changed since.
LEMMA UpdateAlone ==
  ASSUME IInv, AloneInv, ~overlapped, NEW h \in Handlers, NEW c \in Challenges,
         UpdateRow(h, c), ~Skips(h, c)
  PROVE  /\ row[c] # "COMPLETED" /\ row' = [row EXCEPT ![c] = StatusAfter(h, c)]
         /\ progress' = [progress EXCEPT ![c] = progress[c] + Content[work[h]].amount]
         /\ Content[work[h]].amount \in Nat \ {0}
         /\ counted' = [counted EXCEPT ![c] = EventsAfter(h, c)]
         /\ counted[c] \subseteq EventsAfter(h, c)
         /\ owing' = [owing EXCEPT ![h] = IF ProgressAfter(h, c) >= Criteria[c].count
                                            THEN {c} ELSE {}]
<1>1. c \in todo[h] /\ work[h] \in Messages
  BY DEF UpdateRow, IInv, Matching, TypeOK
<1>2. /\ oldProgress[h][c] = progress[c] /\ oldCounted[h][c] = counted[c]
      /\ row[c] # "COMPLETED"
  BY <1>1 DEF AloneInv, AsRead
<1>3. /\ row' = [row EXCEPT ![c] = StatusAfter(h, c)]
      /\ progress' = [progress EXCEPT ![c] = ProgressAfter(h, c)]
      /\ counted' = [counted EXCEPT ![c] = EventsAfter(h, c)]
      /\ owing' = [owing EXCEPT ![h] = IF ProgressAfter(h, c) >= Criteria[c].count THEN {c} ELSE {}]
  BY DEF UpdateRow
<1>4. ProgressAfter(h, c) = progress[c] + Content[work[h]].amount
  BY <1>2 DEF ProgressAfter
<1>5. counted[c] \subseteq EventsAfter(h, c)
  BY <1>2 DEF EventsAfter
<1>6. Content[work[h]].amount \in Nat \ {0}
  BY <1>1, ChallengeAssumption
<1>7. QED BY <1>2, <1>3, <1>4, <1>5, <1>6

\* Every step keeps it.
LEMMA AloneStep == IInv /\ AloneInv /\ [Next]_vars => AloneInv'
<1> SUFFICES ASSUME IInv, AloneInv, [Next]_vars PROVE AloneInv'
  OBVIOUS
<1>0. TypeOK /\ TypeOK'
  BY CountStep DEF IInv
<1>1. ASSUME UNCHANGED <<rows, rewarded, handler, overlapped>>, faults' = faults \/ faults' # 0
      PROVE  AloneInv'
  BY <1>1, Zenon DEF AloneInv, AtWork, Single, AsRead, Paid, Owed, rows, handler
<1>2. ASSUME NEW c \in Challenges, Generate(c) \/ TimeIsUp(c) PROVE AloneInv'
  BY <1>1, <1>2 DEF Generate, TimeIsUp
<1>2a. CASE FindToEnroll
  BY <1>1, <1>2a DEF FindToEnroll
<1>3. CASE Expire \/ Enroll
  <2>1. UNCHANGED <<progress, counted, rewarded, handler, faults, overlapped>>
    BY <1>3 DEF Expire, Enroll
  <2>2. \A c \in Challenges : row'[c] = "COMPLETED" <=> row[c] = "COMPLETED"
    BY <1>3 DEF Expire, Enroll, Outdated
  <2>3. QED BY <1>0, <2>1, <2>2, StatusPays
<1>4. ASSUME NEW m \in Messages, Act(m) PROVE AloneInv'
  <2>1. faults' = faults \/ faults' # 0
    BY <1>0, <1>4 DEF Act, TypeOK
  <2>2. QED BY <1>1, <1>4, <2>1 DEF Act
<1>5. ASSUME NEW h \in Handlers, NEW m \in Messages, Take(h, m) PROVE AloneInv'
  <2>1. /\ work[h] = NoMsg /\ work' = [work EXCEPT ![h] = m] /\ m # NoMsg
        /\ UNCHANGED <<rows, rewarded, owing, faults>>
        /\ overlapped' = (overlapped \/ \E g \in Handlers : work[g] # NoMsg)
    BY <1>5, ChallengeAssumption DEF Take
  <2>2. \A g \in Handlers : AtWork(g)' <=> AtWork(g) \/ g = h
    BY <1>0, <2>1 DEF AtWork, TypeOK
  <2>3. \A g \in Handlers : owing'[g] # {} => AtWork(g)'
    BY <2>1, <2>2 DEF AloneInv
  <2>4. ASSUME ~overlapped' PROVE Single' /\ AsRead' /\ (faults' = 0 => Paid')
    <3>1. ~overlapped /\ \A g \in Handlers : work[g] = NoMsg
      BY <2>1, <2>4, Zenon
    <3>2. Single'
      BY <2>2, <3>1 DEF Single, AtWork
    <3>3. /\ oldProgress' = [oldProgress EXCEPT ![h] = progress]
          /\ oldCounted' = [oldCounted EXCEPT ![h] = counted]
          /\ \A c \in todo'[h] : row[c] = "ACTIVE"
      BY <1>0, <1>5 DEF Take, TypeOK
    <3>4. \A g \in Handlers : g # h => todo'[g] = {}
      BY <1>0, <1>5, <3>1 DEF Take, TypeOK, IInv, Matching
    <3>5. AsRead'
      BY <1>0, <2>1, <3>3, <3>4 DEF AsRead, TypeOK, rows
    <3>6. Paid => Paid'
      BY <2>1, Zenon DEF Paid, Owed, rows
    <3>7. QED BY <2>1, <3>1, <3>2, <3>5, <3>6 DEF AloneInv
  <2>5. QED BY <2>3, <2>4 DEF AloneInv
<1>6. ASSUME NEW h \in Handlers, NEW c \in Challenges, UpdateRow(h, c) PROVE AloneInv'
  <2>1. /\ c \in todo[h] /\ owing[h] = {} /\ todo' = [todo EXCEPT ![h] = @ \ {c}]
        /\ UNCHANGED <<rewarded, work, oldProgress, oldCounted, faults, overlapped>>
        /\ AtWork(h)
    BY <1>6 DEF UpdateRow, IInv, Matching, AtWork
  <2>2. \A g \in Handlers : g # h => owing'[g] = owing[g]
    BY <1>0, <1>6 DEF UpdateRow, TypeOK
  <2>3. \A g \in Handlers : owing'[g] # {} => AtWork(g)'
    BY <2>1, <2>2 DEF AloneInv, AtWork
  <2>4. ASSUME ~overlapped PROVE Single' /\ AsRead' /\ (faults = 0 => Paid')
    <3>1. Single'
      BY <2>1, <2>4 DEF AloneInv, Single, AtWork
    <3>2. \A g \in Handlers : g # h => todo[g] = {} /\ owing[g] = {}
      BY <2>1, <2>4, Alone
    <3>3. CASE Skips(h, c)
      <4>1. UNCHANGED <<rows, owing>>
        BY <1>6, <3>3 DEF UpdateRow
      <4>2. \A g \in Handlers : todo'[g] \subseteq todo[g]
        BY <1>0, <2>1 DEF TypeOK
      <4>3. AsRead'
        BY <2>1, <2>4, <4>1, <4>2 DEF AloneInv, AsRead, rows
      <4>4. faults = 0 => Paid'
        BY <2>1, <2>4, <4>1, Zenon DEF AloneInv, Paid, Owed, rows
      <4>5. QED BY <3>1, <4>3, <4>4
    <3>4. CASE ~Skips(h, c)
      <4>1. /\ row[c] # "COMPLETED" /\ row' = [row EXCEPT ![c] = StatusAfter(h, c)]
            /\ \A d \in Challenges : d # c => progress'[d] = progress[d] /\ counted'[d] = counted[d]
            /\ owing' = [owing EXCEPT ![h] = IF ProgressAfter(h, c) >= Criteria[c].count
                                               THEN {c} ELSE {}]
        BY <1>0, <1>6, <2>4, <3>4, UpdateAlone DEF TypeOK
      <4>2. \A g \in Handlers : todo'[g] \subseteq todo[g] \ {c}
        BY <1>0, <2>1, <3>2 DEF TypeOK
      <4>3. \A d \in Challenges : d # c => row'[d] = row[d]
        BY <1>0, <4>1 DEF TypeOK
      <4>4. AsRead'
        BY <1>0, <2>1, <2>4, <4>1, <4>2, <4>3 DEF AloneInv, AsRead, TypeOK
      <4>5. row'[c] = "COMPLETED" <=> Owed(c)'
        <5>1. row'[c] = "COMPLETED" <=> ProgressAfter(h, c) >= Criteria[c].count
          BY <1>0, <4>1 DEF StatusAfter, TypeOK
        <5>2. c \in owing'[h] <=> ProgressAfter(h, c) >= Criteria[c].count
          BY <1>0, <4>1 DEF TypeOK
        <5>3. \A g \in Handlers : g # h => owing'[g] = {}
          BY <1>0, <3>2, <4>1 DEF TypeOK
        <5>4. QED BY <5>1, <5>2, <5>3 DEF Owed
      <4>6. \A d \in Challenges : ~Owed(d) /\ (d # c => ~Owed(d)')
        BY <1>0, <2>1, <3>2, <4>1 DEF Owed, TypeOK
      <4>7. faults = 0 => Paid'
        BY <2>1, <2>4, <4>1, <4>3, <4>5, <4>6 DEF AloneInv, Paid
      <4>8. QED BY <3>1, <4>4, <4>7
    <3>5. QED BY <3>3, <3>4
  <2>5. QED BY <2>1, <2>3, <2>4 DEF AloneInv
<1>7. ASSUME NEW h \in Handlers, Reward(h) PROVE AloneInv'
  <2>1. /\ owing[h] # {} /\ owing' = [owing EXCEPT ![h] = {}]
        /\ rewarded' = [c \in Challenges |-> IF c \in owing[h] THEN rewarded[c] + 1 ELSE rewarded[c]]
        /\ UNCHANGED <<rows, work, todo, oldProgress, oldCounted, faults, overlapped>>
        /\ AtWork(h)
    BY <1>7 DEF Reward, AloneInv
  <2>2. \A g \in Handlers : owing'[g] = IF g = h THEN {} ELSE owing[g]
    BY <1>0, <2>1 DEF TypeOK
  <2>3. \A g \in Handlers : owing'[g] # {} => AtWork(g)'
    BY <2>1, <2>2 DEF AloneInv, AtWork
  <2>4. Single => Single'
    BY <2>1 DEF Single, AtWork
  <2>5. AsRead => AsRead'
    BY <2>1 DEF AsRead, rows
  <2>6. ASSUME ~overlapped, Paid PROVE Paid'
    <3>1. \A g \in Handlers : g # h => owing[g] = {}
      BY <2>1, <2>6, Alone
    <3>2. \A c \in Challenges : ~Owed(c)' /\ (Owed(c) <=> c \in owing[h])
      BY <2>2, <3>1 DEF Owed
    <3>3. \A c \in owing[h] : row[c] = "COMPLETED"
      BY DEF IInv, OwingCompleted
    <3>4. ASSUME NEW c \in Challenges
          PROVE  rewarded'[c] = IF row'[c] = "COMPLETED" /\ ~Owed(c)' THEN 1 ELSE 0
      <4>1. CASE c \in owing[h]
        <5>1. rewarded[c] = 0 /\ row'[c] = "COMPLETED" /\ rewarded'[c] = 1
          BY <2>1, <2>6, <3>2, <3>3, <4>1 DEF Paid, rows
        <5>2. QED BY <3>2, <5>1
      <4>2. CASE c \notin owing[h]
        BY <2>1, <2>6, <3>2, <4>2 DEF Paid, rows
      <4>3. QED BY <4>1, <4>2
    <3>5. QED BY <3>4 DEF Paid
  <2>7. QED BY <2>1, <2>3, <2>4, <2>5, <2>6 DEF AloneInv
<1>8. ASSUME NEW h \in Handlers, Ack(h) PROVE AloneInv'
  <2>1. /\ owing[h] = {} /\ todo[h] = {} /\ work' = [work EXCEPT ![h] = NoMsg]
        /\ UNCHANGED <<rows, rewarded, todo, owing, faults, overlapped>> /\ Forget(h)
    BY <1>8 DEF Ack
  <2>1a. \A g \in Handlers : todo[g] # {} => oldProgress'[g] = oldProgress[g] /\ oldCounted'[g] = oldCounted[g]
    BY <1>0, <2>1 DEF Forget, TypeOK
  <2>2. \A g \in Handlers : work'[g] = IF g = h THEN NoMsg ELSE work[g]
    BY <1>0, <2>1 DEF TypeOK
  <2>3. \A g \in Handlers : owing'[g] # {} => AtWork(g)'
    BY <2>1, <2>2 DEF AloneInv, AtWork
  <2>4. Single => Single'
    BY <2>2 DEF Single, AtWork
  <2>5. AsRead => AsRead'
    BY <2>1, <2>1a DEF AsRead, rows
  <2>6. Paid => Paid'
    BY <2>1, Zenon DEF Paid, Owed, rows
  <2>7. QED BY <2>1, <2>3, <2>4, <2>5, <2>6 DEF AloneInv
<1>9. ASSUME NEW h \in Handlers, HandlerFails(h) PROVE AloneInv'
  <2>1. /\ work' = [work EXCEPT ![h] = NoMsg] /\ todo' = [todo EXCEPT ![h] = {}]
        /\ owing' = [owing EXCEPT ![h] = {}] /\ faults' = faults + 1
        /\ UNCHANGED <<rows, rewarded, overlapped>> /\ Forget(h)
    BY <1>9 DEF HandlerFails
  <2>2. /\ \A g \in Handlers : /\ work'[g] = IF g = h THEN NoMsg ELSE work[g]
                               /\ todo'[g] = IF g = h THEN {} ELSE todo[g]
                               /\ owing'[g] = IF g = h THEN {} ELSE owing[g]
        /\ \A g \in Handlers : g # h => oldProgress'[g] = oldProgress[g] /\ oldCounted'[g] = oldCounted[g]
        /\ faults' # 0
    BY <1>0, <2>1 DEF Forget, TypeOK
  <2>3. \A g \in Handlers : owing'[g] # {} => AtWork(g)'
    BY <2>2 DEF AloneInv, AtWork
  <2>4. Single => Single'
    BY <2>2 DEF Single, AtWork
  <2>5. AsRead => AsRead'
    BY <2>1, <2>2 DEF AsRead, rows
  <2>6. QED BY <2>1, <2>2, <2>3, <2>4, <2>5 DEF AloneInv
<1>10. ASSUME UNCHANGED vars PROVE AloneInv'
  BY <1>1, <1>10 DEF vars
<1>11. QED
  BY <1>2, <1>2a, <1>3, <1>4, <1>5, <1>6, <1>7, <1>8, <1>9, <1>10 DEF Next, HandlerStep

\* THEOREM PaidOnce: a challenge is rewarded once, as long as the user's messages are
\* handled one at a time and no handler fails between the status and the reward
\* (challenge-progress.consumer.ts).
THEOREM PaidOnce == Spec => []RewardedOnce
<1>1. ASSUME AloneInv PROVE RewardedOnce
  <2> SUFFICES ASSUME faults = 0, ~overlapped, NEW c \in Challenges
               PROVE  /\ rewarded[c] <= 1
                      /\ AtRest /\ row[c] = "COMPLETED" => rewarded[c] = 1
    BY DEF RewardedOnce
  <2>1. rewarded[c] = IF row[c] = "COMPLETED" /\ ~Owed(c) THEN 1 ELSE 0
    BY <1>1 DEF AloneInv, Paid
  <2>2. AtRest => ~Owed(c)
    BY <1>1 DEF AloneInv, AtWork, AtRest, Owed
  <2>3. QED BY <2>1, <2>2
<1>2. QED BY <1>1, CountInit, CountStep, AloneInit, AloneStep, PTL DEF Spec

\* THEOREM Undisturbed: no update of an active row loses an event or a cent that an
\* earlier one has counted, as long as the user's messages are handled one at a time.
THEOREM Undisturbed == Spec => NothingOverwritten
<1> DEFINE Grows(c) == /\ counted[c] \subseteq counted'[c]
                       /\ progress[c] <= progress'[c]
                       /\ counted'[c] # counted[c] => progress'[c] > progress[c]
           Kept == ~overlapped => \A c \in Challenges : row[c] = "ACTIVE" => Grows(c)
<1>1. ASSUME IInv, AloneInv, [Next]_vars PROVE Kept
  <2>1. TypeOK
    BY <1>1 DEF IInv
  <2>2. CASE UNCHANGED <<progress, counted>>
    BY <2>1, <2>2 DEF TypeOK
  <2>3. ASSUME NEW h \in Handlers, NEW c \in Challenges, UpdateRow(h, c), ~Skips(h, c), ~overlapped
        PROVE  Kept
    <3>1. /\ progress' = [progress EXCEPT ![c] = progress[c] + Content[work[h]].amount]
          /\ Content[work[h]].amount \in Nat \ {0}
          /\ counted' = [counted EXCEPT ![c] = EventsAfter(h, c)]
          /\ counted[c] \subseteq EventsAfter(h, c)
      BY <1>1, <2>3, UpdateAlone
    <3>2. ASSUME NEW d \in Challenges PROVE Grows(d)
      <4>1. progress[d] \in Nat
        BY <2>1 DEF TypeOK
      <4>2. CASE d = c
        <5>1. progress'[d] = progress[d] + Content[work[h]].amount
          BY <2>1, <3>1, <4>2 DEF TypeOK
        <5>2. counted[d] \subseteq counted'[d]
          BY <2>1, <3>1, <4>2 DEF TypeOK
        <5>3. QED BY <3>1, <4>1, <5>1, <5>2
      <4>3. CASE d # c
        <5>1. progress'[d] = progress[d] /\ counted'[d] = counted[d]
          BY <2>1, <3>1, <4>3 DEF TypeOK
        <5>2. QED BY <4>1, <5>1
      <4>4. QED BY <4>2, <4>3
    <3>3. QED BY <3>2
  <2>4. \/ UNCHANGED <<progress, counted>>
        \/ \E h \in Handlers, c \in Challenges : UpdateRow(h, c) /\ ~Skips(h, c)
    BY <1>1 DEF Next, vars, rows, Generate, TimeIsUp, Expire, FindToEnroll, Enroll, Act, Take, HandlerStep, UpdateRow,
                Reward, Ack, HandlerFails
  <2>5. QED BY <2>2, <2>3, <2>4
<1>2. IInv /\ AloneInv /\ [Next]_vars => [Kept]_vars
  BY <1>1
<1>3. QED
  BY <1>2, CountInit, CountStep, AloneInit, AloneStep, PTL DEF Spec, NothingOverwritten
=============================================================================
