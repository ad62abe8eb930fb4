----------------------------- MODULE HltvProofs -----------------------------
(***************************************************************************)
(* The two parts of the way to HLTV: OddsSync, whose jobs ask, and         *)
(* HltvLimiter, which holds the requests back.                             *)
(*                                                                         *)
(* For any tournaments, events, matches and names: whatever the jobs, the  *)
(* administrator, HLTV and restarts do, odds are on the side of the team   *)
(* they were quoted for, where the names of both teams are recognised; and *)
(* for any finite set of events the jobs do not pile up.                   *)
(*                                                                         *)
(* For any number of callers and proxies and any limits: no more requests  *)
(* start in a window than the rate limit says, and none between the        *)
(* threshold of the breaker and the end of its cooldown.                   *)
(***************************************************************************)
EXTENDS OddsSync, HltvLimiter, FiniteSums, SequenceTheorems

\* Rows of events have their three columns.
RowsFormed ==
    /\ event = [e \in Events |-> event[e]]
    /\ \A e \in Events : event[e] = [hltvId |-> event[e].hltvId, open |-> event[e].open,
                                     odds |-> event[e].odds]

\* Odds of a match are on the sides its teams were matched to.
AsMatched(e, o) == o.match # None => o.first = IF MatchTeams(o.match, e) = "swapped" THEN 2 ELSE 1

OddsInv == RowsFormed /\ \A e \in Events : AsMatched(e, event[e].odds)

\* It holds when the process starts.
LEMMA OddsInvInit == Init => OddsInv
<1> SUFFICES ASSUME Init PROVE OddsInv
  OBVIOUS
<1>1. event = [e \in Events |-> [hltvId |-> None, open |-> TRUE, odds |-> NoOdds]]
  BY DEF Init
<1>2. RowsFormed
  <2>1. event = [e \in Events |-> event[e]]
    BY <1>1
  <2>2. \A e \in Events : event[e] = [hltvId |-> None, open |-> TRUE, odds |-> NoOdds]
    BY <1>1
  <2>3. QED BY <2>1, <2>2 DEF RowsFormed
<1>3. \A e \in Events : AsMatched(e, event[e].odds)
  BY <1>1 DEF AsMatched, NoOdds
<1>4. QED BY <1>2, <1>3 DEF OddsInv

\* Odds that are quoted are as matched.
LEMMA QuotedAsMatched == \A e, m, p : AsMatched(e, Quoted(e, m, p))
  BY DEF AsMatched, Quoted

\* New odds of an event that are as matched keep the invariant.
LEMMA WrittenOdds ==
  ASSUME OddsInv, NEW e, NEW o, AsMatched(e, o), event' = [event EXCEPT ![e].odds = o]
  PROVE  OddsInv'
  BY DEF OddsInv, RowsFormed, AsMatched

\* A change of the other columns does too.
LEMMA OtherColumns ==
  ASSUME OddsInv, NEW e, NEW v,
         \/ event' = [event EXCEPT ![e].hltvId = v]
         \/ event' = [event EXCEPT ![e].open = v]
  PROVE  OddsInv'
<1>1. event' = [f \in Events |-> event'[f]]
  BY DEF OddsInv, RowsFormed
<1>2. ASSUME NEW f \in Events
      PROVE  /\ event'[f] = [hltvId |-> event'[f].hltvId, open |-> event'[f].open,
                             odds |-> event'[f].odds]
             /\ event'[f].odds = event[f].odds
  <2>1. event[f] = [hltvId |-> event[f].hltvId, open |-> event[f].open, odds |-> event[f].odds]
    BY DEF OddsInv, RowsFormed
  <2>2. \/ event'[f] = event[f]
        \/ event'[f] = [event[f] EXCEPT !.hltvId = v]
        \/ event'[f] = [event[f] EXCEPT !.open = v]
    BY DEF OddsInv, RowsFormed
  <2>3. QED BY <2>1, <2>2
<1>3. QED BY <1>1, <1>2 DEF OddsInv, RowsFormed, AsMatched

\* Every step keeps it.
LEMMA OddsInvStep ==
  ASSUME OddsInv, [Next]_vars
  PROVE  OddsInv'
<1>1. CASE UNCHANGED event
  BY <1>1 DEF OddsInv, RowsFormed, AsMatched
<1>2. ASSUME NEW e \in Events, AdminPrices(e) PROVE OddsInv'
  <2>1. AsMatched(e, AdminOdds)
    BY DEF AsMatched, AdminOdds
  <2>2. QED BY <1>2, <2>1, WrittenOdds DEF AdminPrices
<1>3. ASSUME NEW e \in Events, EndEvent(e) PROVE OddsInv'
  BY <1>3, OtherColumns DEF EndEvent
<1>4. ASSUME NEW e \in Events, NEW m \in Matches, AdminMaps(e, m) PROVE OddsInv'
  BY <1>4, OtherColumns DEF AdminMaps
<1>5. ASSUME NEW e \in Events, MapEvent(e) PROVE OddsInv'
  <2>1. \/ UNCHANGED event
        \/ \E m : event' = [event EXCEPT ![e].hltvId = m]
    BY <1>5 DEF MapEvent
  <2>2. QED BY <1>1, <2>1, OtherColumns
<1>6. CASE WriteOdds
  <2> DEFINE e == work.job.event
             o == Quoted(e, work.job.hltvId, work.price)
  <2>1. UNCHANGED event \/ event' = [event EXCEPT ![e].odds = o]
    BY <1>6 DEF WriteOdds
  <2>2. AsMatched(e, o)
    BY QuotedAsMatched
  <2> HIDE DEF e, o
  <2>3. QED BY <1>1, <2>1, <2>2, WrittenOdds
<1>7. QED
  BY <1>1, <1>2, <1>3, <1>4, <1>5, <1>6
     DEF Next, vars, Move, Reprice, SyncTournaments, StartMapping, MappingUnanswered, MapTournament,
         StartSync, ReadEvents, Enqueue, StartSingle, FetchOdds, FetchPage, AddJob, Promote, Restart

\* A match that has an event's first team in its second place has the event's second
\* team in its first place: no match is mapped that has one of the teams only.
BothTeams == \A e \in Events : \A m : <<Team2[m], TeamA[e]>> \in Same => <<Team1[m], TeamB[e]>> \in Same

\* Whichever order a page names the teams in, and however often matches, prices and
\* mappings change, the odds of side A were quoted for team A (hltv.team-matcher.ts:91,
\* hltv-sync.processor.ts:355), for names that are recognised and matches of both teams.
THEOREM OddsOnSide ==
  ASSUME BothTeams
  PROVE  Spec => []OddsOnTheirSide
<1>1. ASSUME OddsInv PROVE OddsOnTheirSide
  <2> SUFFICES ASSUME NEW e \in Events, NEW o, o = event[e].odds,
                      o.match # None, Recognised(e, o.match),
                      \E n \in {Team1[o.match], Team2[o.match]} : <<n, TeamA[e]>> \in Same
               PROVE  <<IF o.first = 1 THEN Team1[o.match] ELSE Team2[o.match], TeamA[e]>> \in Same
    BY DEF OddsOnTheirSide
  <2>1. o.first = IF MatchTeams(o.match, e) = "swapped" THEN 2 ELSE 1
    BY <1>1 DEF OddsInv, AsMatched
  <2>2. \A n \in {Team1[o.match], Team2[o.match]}, k \in {TeamA[e], TeamB[e]} :
          TeamsMatch(n, k) <=> <<n, k>> \in Same
    BY DEF Recognised, TeamsMatch
  <2>3. CASE MatchTeams(o.match, e) = "swapped"
    BY <2>1, <2>2, <2>3 DEF MatchTeams
  <2>4. CASE MatchTeams(o.match, e) # "swapped"
    <3>1. o.first = 1
      BY <2>1, <2>4
    <3>2. CASE <<Team1[o.match], TeamA[e]>> \in Same
      BY <3>1, <3>2
    <3>3. CASE <<Team2[o.match], TeamA[e]>> \in Same
      <4>1. <<Team1[o.match], TeamB[e]>> \in Same
        BY <3>3 DEF BothTeams
      <4>2. MatchTeams(o.match, e) = "direct"
        BY <2>2, <2>4, <3>3, <4>1 DEF MatchTeams
      <4>3. QED BY <2>2, <3>1, <4>2 DEF MatchTeams
    <3>4. QED BY <3>2, <3>3
  <2>5. QED BY <2>3, <2>4
<1>2. QED BY OddsInvInit, OddsInvStep, <1>1, PTL DEF Spec

-----------------------------------------------------------------------------
\* The queue stays short.  What counts are its sync jobs: each will add an odds job for
\* every event at most, behind all that wait.

\* Where a job that runs at once, and where the repeated one, waits.
NowAt(q, i)   == i \in 1 .. Len(q) /\ q[i].name = "sync-now"
TimedAt(q, i) == i \in 1 .. Len(q) /\ q[i].name = "sync"
Timed(q)      == IF \E i \in 1 .. Len(q) : TimedAt(q, i) THEN 1 ELSE 0

\* A queue, while the job at work has still p odds jobs to add, of n events: jobs that run
\* at once are its first two, and while any waits there is little else; the repeated job
\* has the odds jobs of two rounds behind it at most.
Short(q, p, n) ==
    /\ \A i \in 1 .. Len(q) : q[i].name \in {"sync", "sync-now", "odds-single"}
    /\ \A i, j \in 1 .. Len(q) : TimedAt(q, i) /\ TimedAt(q, j) => i = j
    /\ \A i, j \in 1 .. Len(q) : NowAt(q, i) /\ TimedAt(q, j) => i < j
    /\ \A i \in 1 .. Len(q) : NowAt(q, i) => i <= 2
    /\ NowAt(q, 2) => p = 0 /\ Len(q) <= 2 + Timed(q)
    /\ NowAt(q, 1) /\ ~NowAt(q, 2) => Len(q) + p <= n + 1 + Timed(q)
    /\ ~NowAt(q, 1) /\ ~NowAt(q, 2) =>
         /\ Len(q) + p <= 3 * n + Timed(q)
         /\ \A i \in 1 .. Len(q) : TimedAt(q, i) => Len(q) - i + p <= 2 * n

\* A shorter rest is as good.
LEMMA ShortRest ==
  ASSUME NEW S, NEW q \in Seq(S), NEW n \in Nat, NEW p \in Nat, NEW r \in Nat,
         Short(q, p, n), r <= p
  PROVE  Short(q, r, n)
  BY DEF Short, NowAt, TimedAt, Timed

\* What the operators on sequences put where: the rest of a sequence,
LEMMA TailAt ==
  ASSUME NEW S, NEW q \in Seq(S), q # << >>
  PROVE  /\ Len(q) \in Nat \ {0} /\ Head(q) = q[1]
         /\ Tail(q) \in Seq(S) /\ Len(Tail(q)) = Len(q) - 1
         /\ \A i \in 1 .. Len(q) - 1 : Tail(q)[i] = q[i + 1]
  OBVIOUS

\* a sequence with one more at its end,
LEMMA AppendAt ==
  ASSUME NEW S, NEW q \in Seq(S), NEW x
  PROVE  /\ Len(q) \in Nat /\ \E T : Append(q, x) \in Seq(T)
         /\ Len(Append(q, x)) = Len(q) + 1
         /\ \A i \in 1 .. Len(q) : Append(q, x)[i] = q[i]
         /\ Append(q, x)[Len(q) + 1] = x
<1>1. q \in Seq(S \cup {x}) /\ x \in S \cup {x}
  OBVIOUS
<1>2. QED BY <1>1

\* and one behind another.
LEMMA ConcatAt ==
  ASSUME NEW S, NEW q \in Seq(S), NEW r \in Seq(S)
  PROVE  /\ q \o r \in Seq(S) /\ Len(q \o r) = Len(q) + Len(r)
         /\ \A i \in 1 .. Len(q) + Len(r) :
              (q \o r)[i] = IF i <= Len(q) THEN q[i] ELSE r[i - Len(q)]
  OBVIOUS

\* An odds job is taken.
LEMMA SingleTaken ==
  ASSUME NEW S, NEW q \in Seq(S), q # << >>, NEW n \in Nat \ {0}, NEW p \in Nat, Short(q, p, n),
         Head(q).name = "odds-single"
  PROVE  Short(Tail(q), p, n)
  BY TailAt DEF Short, NowAt, TimedAt, Timed

\* A sync job is taken, by a worker that had nothing to add.
LEMMA SyncTaken ==
  ASSUME NEW S, NEW q \in Seq(S), q # << >>, NEW n \in Nat \ {0}, NEW p \in 0 .. n, Short(q, 0, n),
         Head(q).name # "odds-single"
  PROVE  /\ Short(Tail(q), p, n)
         /\ Head(q).name = "sync" => Timed(Tail(q)) = 0
  BY TailAt, SMTT(30) DEF Short, NowAt, TimedAt, Timed

\* An odds job is added, one less is left to add.
LEMMA SingleAdded ==
  ASSUME NEW S, NEW q \in Seq(S), NEW n \in Nat \ {0}, NEW p \in Nat, NEW r \in Nat, r < p,
         Short(q, p, n), NEW x, x.name = "odds-single"
  PROVE  Short(Append(q, x), r, n) /\ Timed(Append(q, x)) = Timed(q)
  BY AppendAt, SMTT(30) DEF Short, NowAt, TimedAt, Timed

\* The repeated job is added.
LEMMA TimedAdded ==
  ASSUME NEW S, NEW q \in Seq(S), NEW n \in Nat \ {0}, NEW p \in 0 .. n,
         Short(q, p, n), Timed(q) = 0, NEW x, x.name = "sync"
  PROVE  Short(Append(q, x), p, n)
<1> DEFINE r == Append(q, x)
<1>1. /\ Len(q) \in Nat /\ Len(r) = Len(q) + 1 /\ r[Len(q) + 1] = x
      /\ \A i \in 1 .. Len(q) : r[i] = q[i]
  BY AppendAt
<1>2. \A i \in 1 .. Len(q) : q[i].name # "sync"
  BY DEF Timed, TimedAt
<1> HIDE DEF r
<1>3. \A i \in 1 .. Len(r) : TimedAt(r, i) <=> i = Len(q) + 1
  BY <1>1, <1>2 DEF TimedAt
<1>4. \A i \in Nat : NowAt(r, i) <=> NowAt(q, i)
  BY <1>1 DEF NowAt
<1>5. Timed(r) = 1
  BY <1>1, <1>3 DEF Timed
<1>6. \A i \in 1 .. Len(r) : r[i].name \in {"sync", "sync-now", "odds-single"}
  BY <1>1 DEF Short
<1>7. \A i, j \in 1 .. Len(r) : NowAt(r, i) /\ TimedAt(r, j) => i < j
  BY <1>1, <1>3, <1>4 DEF NowAt
<1>8. /\ \A i \in 1 .. Len(r) : NowAt(r, i) => i <= 2
      /\ NowAt(r, 2) => p = 0 /\ Len(r) <= 2 + Timed(r)
      /\ NowAt(r, 1) /\ ~NowAt(r, 2) => Len(r) + p <= n + 1 + Timed(r)
      /\ ~NowAt(r, 1) /\ ~NowAt(r, 2) => Len(r) + p <= 3 * n + Timed(r)
  BY <1>1, <1>4, <1>5 DEF Short, NowAt
<1>9. \A i \in 1 .. Len(r) : TimedAt(r, i) => Len(r) - i + p <= 2 * n
  BY <1>1, <1>3
<1>10. QED BY <1>3, <1>6, <1>7, <1>8, <1>9 DEF Short, r

\* Such a queue has the length of a few rounds.
LEMMA ShortLen ==
  ASSUME NEW S, NEW q \in Seq(S), NEW n \in Nat \ {0}, NEW p \in Nat, Short(q, p, n)
  PROVE  Len(q) <= 3 * n + 1
  BY DEF Short, NowAt, TimedAt, Timed

-----------------------------------------------------------------------------
\* The worker.  The events of some tournaments, and those the job at work may still
\* add an odds job for.
Of(T) == {e \in Events : TournamentOf[e] \in T}
Rest ==
    IF work.step \in {"events", "page", "map"} THEN Of(work.left)
    ELSE IF work.step = "add" THEN work.todo \cup Of(work.left \ {work.on})
    ELSE {}

WorkInv ==
    /\ work = [job |-> work.job, step |-> work.step, left |-> work.left, on |-> work.on,
               rows |-> work.rows, pages |-> work.pages, todo |-> work.todo, price |-> work.price]
    /\ work.step \in {"idle", "events", "page", "map", "add", "odds", "write"}
    /\ work.step \in {"page", "map", "add"} => DOMAIN work.rows \subseteq Events
    /\ work.step \in {"map", "add"} => work.on \in work.left
    /\ work.step = "add" => work.todo \subseteq Of({work.on})
    /\ work.job # None => work.job.name \in {"sync", "sync-now", "odds-single"}

\* The worker with other pages.
With(pages) == [job |-> work.job, step |-> work.step, left |-> work.left, on |-> work.on,
                rows |-> work.rows, pages |-> pages, todo |-> work.todo, price |-> work.price]

\* The worker is as it should be, and has nothing more to add than before.
Onward == WorkInv' /\ Rest' \subseteq Rest

\* A tournament that is done leaves the others.
LEMMA ThroughOnward ==
  ASSUME WorkInv, NEW t, t \in work.left, NEW pages,
         work.step = "page" \/ (work.step \in {"map", "add"} /\ t = work.on),
         work' = Through(With(pages), t)
  PROVE  WorkInv' /\ Rest' = IF work.left = {t} THEN {} ELSE Of(work.left \ {t})
<1>2. CASE work.left = {t}
  <2>1. work' = Idle
    BY <1>2 DEF Through, With
  <2>2. QED BY <1>2, <2>1 DEF Idle, WorkInv, Rest
<1>3. CASE work.left # {t}
  <2>1. work' = [job |-> work.job, step |-> "page", left |-> work.left \ {t}, on |-> None,
                 rows |-> work.rows, pages |-> pages, todo |-> {}, price |-> work.price]
    BY <1>3 DEF Through, With
  <2>2. QED BY <1>3, <2>1 DEF WorkInv, Rest
<1>4. QED BY <1>2, <1>3

\* The columns of the open events are read: of these, none is new.
LEMMA ReadOnward == ASSUME WorkInv, ReadEvents PROVE Onward
<1>1. work' = [job |-> work.job, step |-> "page", left |-> work.left, on |-> work.on,
               rows |-> work'.rows, pages |-> work.pages, todo |-> work.todo, price |-> work.price]
  BY DEF ReadEvents, WorkInv
<1>2. DOMAIN work'.rows \subseteq Events
  BY DEF ReadEvents, WorkInv
<1>3. QED BY <1>1, <1>2 DEF ReadEvents, WorkInv, Rest, Onward

\* A page comes, or does not.
LEMMA FetchOnward == ASSUME WorkInv, NEW t \in Tournaments, FetchPage(t) PROVE Onward
<1>1. work.step = "page" /\ t \in work.left
  BY DEF FetchPage
<1>2. PICK page : Page(t, page)
  BY DEF FetchPage
<1>a. \A pages : [work EXCEPT !.pages = pages] = With(pages)
  BY DEF WorkInv, With
<1>3. PICK pages :
        \/ work' = Through([work EXCEPT !.pages = pages], t)
        \/ \E todo : work' = [[work EXCEPT !.pages = pages] EXCEPT !.step = "map", !.on = t, !.todo = todo]
  BY <1>2 DEF Page
<1>4. CASE work' = Through(With(pages), t)
  <2>1. t \in work.left /\ (work.step = "page" \/ (work.step \in {"map", "add"} /\ t = work.on))
    BY <1>1
  <2>2. WorkInv' /\ Rest' = IF work.left = {t} THEN {} ELSE Of(work.left \ {t})
    BY <1>4, <2>1, ThroughOnward
  <2>3. QED BY <1>1, <2>2 DEF Onward, Rest, Of
<1>5. ASSUME NEW todo, work' = [With(pages) EXCEPT !.step = "map", !.on = t, !.todo = todo] PROVE Onward
  <2>1. work' = [job |-> work.job, step |-> "map", left |-> work.left, on |-> t, rows |-> work.rows,
                 pages |-> pages, todo |-> todo, price |-> work.price]
    BY <1>5 DEF With
  <2>2. QED BY <1>1, <2>1 DEF WorkInv, Onward, Rest
<1>6. QED BY <1>a, <1>3, <1>4, <1>5

\* An event is mapped.
LEMMA MapOnward == ASSUME WorkInv, NEW e \in Events, MapEvent(e) PROVE Onward
<1>1. work.step = "map"
  BY DEF MapEvent
<1>2. \/ work' = [work EXCEPT !.todo = @ \ {e}]
      \/ \E m : work' = [work EXCEPT !.todo = @ \ {e}, !.rows[e].hltvId = m]
  BY DEF MapEvent
<1>3. /\ work' = [job |-> work.job, step |-> "map", left |-> work.left, on |-> work.on, rows |-> work'.rows,
                  pages |-> work.pages, todo |-> work'.todo, price |-> work.price]
      /\ DOMAIN work'.rows \subseteq Events
  BY <1>1, <1>2 DEF WorkInv
<1>4. QED BY <1>1, <1>3 DEF WorkInv, Onward, Rest

\* The events of a tournament are about to be added, one by one.
LEMMA EnqueueOnward == ASSUME WorkInv, Enqueue PROVE Onward
<1>1. work.step = "map" /\ work.on \in work.left /\ Mapped \subseteq Of({work.on})
  BY DEF Enqueue, WorkInv, Mapped, Of
<1>2. CASE Mapped = {}
  <2>1. work' = Through(With(work.pages), work.on)
    BY <1>2 DEF Enqueue, WorkInv, With
  <2>2. QED BY <1>1, <2>1, ThroughOnward DEF Onward, Rest, Of
<1>3. CASE Mapped # {}
  <2>1. work' = [job |-> work.job, step |-> "add", left |-> work.left, on |-> work.on, rows |-> work.rows,
                 pages |-> work.pages, todo |-> Mapped, price |-> work.price]
    BY <1>3 DEF Enqueue, WorkInv
  <2>2. QED BY <1>1, <2>1 DEF WorkInv, Onward, Rest, Of
<1>4. QED BY <1>2, <1>3

\* The event whose job is added is not in the rest any more.
LEMMA AddOnward == ASSUME WorkInv, NEW e \in Events, AddJob(e) PROVE Onward /\ e \in Rest /\ e \notin Rest'
<1>1. work.step = "add" /\ e \in work.todo /\ work.on \in work.left /\ TournamentOf[e] = work.on
  BY DEF AddJob, WorkInv, Of
<1>2. CASE work.todo = {e}
  <2>1. work' = Through(With(work.pages), work.on)
    BY <1>2 DEF AddJob, WorkInv, With
  <2>2. WorkInv' /\ Rest' = IF work.left = {work.on} THEN {} ELSE Of(work.left \ {work.on})
    BY <1>1, <2>1, ThroughOnward
  <2>3. QED BY <1>1, <2>2 DEF Onward, Rest, Of
<1>3. CASE work.todo # {e}
  <2>1. work' = [job |-> work.job, step |-> "add", left |-> work.left, on |-> work.on, rows |-> work.rows,
                 pages |-> work.pages, todo |-> work.todo \ {e}, price |-> work.price]
    BY <1>1, <1>3 DEF AddJob, WorkInv
  <2>2. QED BY <1>1, <2>1 DEF WorkInv, Onward, Rest, Of
<1>4. QED BY <1>2, <1>3

\* An odds job is worked on.
LEMMA OddsOnward == ASSUME WorkInv, FetchOdds \/ WriteOdds PROVE Onward
<1>1. \/ work' = Idle
      \/ work' = [work EXCEPT !.step = "write", !.price = work'.price] /\ work.step = "odds"
  BY DEF FetchOdds, WriteOdds, WorkInv
<1>2. CASE work' = Idle
  BY <1>2 DEF Idle, WorkInv, Onward, Rest
<1>3. CASE work' # Idle
  <2>1. work' = [job |-> work.job, step |-> "write", left |-> work.left, on |-> work.on, rows |-> work.rows,
                 pages |-> work.pages, todo |-> work.todo, price |-> work'.price]
    BY <1>1, <1>3 DEF WorkInv
  <2>2. QED BY <1>1, <1>3, <2>1 DEF WorkInv, Onward, Rest
<1>4. QED BY <1>2, <1>3

-----------------------------------------------------------------------------
\* The queue and its worker.
QueueInv ==
    /\ WorkInv
    /\ \E S : queue \in Seq(S)
    /\ Short(queue, Cardinality(Rest), Cardinality(Events))
    /\ repeat => Timed(queue) = 0

\* Events are finitely many, and there are some.
SomeEvents == IsFiniteSet(Events) /\ Events # {}

\* The rest is a number of events.
LEMMA RestCounts ==
  ASSUME SomeEvents, NEW R \in SUBSET Events
  PROVE  /\ Cardinality(Events) \in Nat \ {0}
         /\ Cardinality(R) \in 0 .. Cardinality(Events)
         /\ \A T \in SUBSET R : Cardinality(T) <= Cardinality(R)
         /\ \A T \in SUBSET R : T # R => Cardinality(T) < Cardinality(R)
<1>1. IsFiniteSet(R) /\ Cardinality(Events) \in Nat /\ Cardinality(R) \in Nat
  BY FS_Subset, FS_CardinalityType DEF SomeEvents
<1>2. Cardinality(Events) # 0
  BY FS_EmptySet DEF SomeEvents
<1>3. Cardinality(R) <= Cardinality(Events)
  BY FS_Subset DEF SomeEvents
<1>4. \A T \in SUBSET R : Cardinality(T) <= Cardinality(R) /\ (Cardinality(R) = Cardinality(T) => T = R)
  BY <1>1, FS_Subset
<1>5. \A T \in SUBSET R : Cardinality(T) \in Nat
  BY <1>1, FS_Subset, FS_CardinalityType
<1>6. QED BY <1>1, <1>2, <1>3, <1>4, <1>5

\* The rest are events.
LEMMA RestType == WorkInv => Rest \in SUBSET Events
  BY DEF WorkInv, Rest, Of

\* A step of the worker that leaves the queue alone.
LEMMA OnwardKeeps ==
  ASSUME SomeEvents, QueueInv, Onward, UNCHANGED <<queue, repeat>>
  PROVE  QueueInv'
<1>1. Rest \in SUBSET Events /\ Rest' \in SUBSET Rest
  BY RestType DEF QueueInv, Onward
<1>2. /\ Cardinality(Events) \in Nat /\ Cardinality(Rest) \in Nat
      /\ Cardinality(Rest') \in Nat /\ Cardinality(Rest') <= Cardinality(Rest)
  BY <1>1, RestCounts
<1>3. Short(queue, Cardinality(Rest'), Cardinality(Events))
  BY <1>2, ShortRest DEF QueueInv
<1>4. QED BY <1>3 DEF QueueInv, Onward

\* It holds when the process starts.
LEMMA QueueInvInit == SomeEvents /\ Init => QueueInv
<1> SUFFICES ASSUME SomeEvents, Init PROVE QueueInv
  OBVIOUS
<1>1. WorkInv /\ Rest = {}
  BY DEF Init, Idle, WorkInv, Rest
<1>2. queue = <<Sync("sync-now")>> /\ queue \in Seq({Sync("sync-now")}) /\ Len(queue) = 1
  BY DEF Init
<1>3. queue[1].name = "sync-now"
  BY <1>2 DEF Sync
<1>4. Cardinality(Rest) = 0 /\ Cardinality(Events) \in Nat \ {0}
  BY <1>1, FS_EmptySet, RestCounts
<1>5. Timed(queue) = 0
  BY <1>2, <1>3 DEF Timed, TimedAt
<1>6. Short(queue, Cardinality(Rest), Cardinality(Events))
  BY <1>2, <1>3, <1>4, <1>5 DEF Short, NowAt, TimedAt
<1>7. QED BY <1>1, <1>2, <1>3, <1>5, <1>6 DEF QueueInv

\* Every step keeps it.
LEMMA QueueInvStep ==
  ASSUME SomeEvents, QueueInv, [Next]_vars
  PROVE  QueueInv'
<1> DEFINE n == Cardinality(Events)
           p == Cardinality(Rest)
<1>a. PICK S : queue \in Seq(S)
  BY DEF QueueInv
<1>b. WorkInv /\ Rest \in SUBSET Events /\ Short(queue, p, n)
  BY RestType DEF QueueInv
<1>c. n \in Nat \ {0} /\ p \in 0 .. n
  BY <1>b, RestCounts
<1>1. ASSUME UNCHANGED <<queue, repeat, work>> PROVE QueueInv'
  BY <1>1 DEF QueueInv, WorkInv, Rest
<1>2. ASSUME Onward, UNCHANGED <<queue, repeat>> PROVE QueueInv'
  BY <1>2, OnwardKeeps
<1>3. CASE StartSync
  <2>1. /\ Rest = {} /\ queue # << >> /\ Head(queue).name # "odds-single"
        /\ queue' = Tail(queue) /\ repeat' = (repeat \/ Head(queue).name = "sync")
    BY <1>3 DEF StartSync, Idle, Rest
  <2>2. Head(queue) = queue[1] /\ Len(queue) \in Nat \ {0} /\ Tail(queue) \in Seq(S)
        /\ Len(Tail(queue)) = Len(queue) - 1 /\ \A i \in 1 .. Len(queue) - 1 : Tail(queue)[i] = queue[i + 1]
    BY <1>a, <2>1, TailAt
  <2>3. WorkInv'
    <3>1. Head(queue).name \in {"sync", "sync-now", "odds-single"}
      BY <1>b, <2>2 DEF Short
    <3>2. \/ work' = Idle
          \/ \E mapped : work' = [Idle EXCEPT !.job = Head(queue), !.step = "events", !.left = mapped]
      BY <1>3 DEF StartSync
    <3>3. ASSUME NEW mapped,
                 work' = [Idle EXCEPT !.job = Head(queue), !.step = "events", !.left = mapped]
          PROVE  WorkInv'
      <4>1. work' = [job |-> Head(queue), step |-> "events", left |-> mapped, on |-> Idle.on,
                     rows |-> Idle.rows, pages |-> Idle.pages, todo |-> Idle.todo, price |-> Idle.price]
        BY <3>3 DEF Idle
      <4>2. QED BY <3>1, <4>1 DEF WorkInv
    <3>4. CASE work' = Idle
      BY <3>4 DEF Idle, WorkInv
    <3>5. QED BY <3>2, <3>3, <3>4
  <2>4. Cardinality(Rest') \in 0 .. n
    <3>1. Rest' \in SUBSET Events
      BY <2>3 DEF WorkInv, Rest, Of
    <3>2. QED BY <3>1, RestCounts
  <2>5. p = 0
    BY <2>1, FS_EmptySet
  <2>6. /\ Short(Tail(queue), Cardinality(Rest'), n)
        /\ Head(queue).name = "sync" => Timed(Tail(queue)) = 0
    BY <1>a, <1>b, <1>c, <2>1, <2>4, <2>5, SyncTaken
  <2>7. Timed(queue) = 0 => Timed(Tail(queue)) = 0
    BY <2>2 DEF Timed, TimedAt
  <2>8. QED BY <2>1, <2>2, <2>3, <2>6, <2>7 DEF QueueInv
<1>4. CASE StartSingle
  <2>1. /\ queue # << >> /\ Head(queue).name = "odds-single"
        /\ queue' = Tail(queue) /\ UNCHANGED repeat /\ Rest = {}
    BY <1>4 DEF StartSingle, Idle, Rest
  <2>2. Len(queue) \in Nat \ {0} /\ Tail(queue) \in Seq(S)
        /\ Len(Tail(queue)) = Len(queue) - 1 /\ \A i \in 1 .. Len(queue) - 1 : Tail(queue)[i] = queue[i + 1]
    BY <1>a, <2>1, TailAt
  <2>3. WorkInv' /\ Rest' = {}
    BY <1>4, <2>1 DEF StartSingle, Idle, WorkInv, Rest
  <2>4. Short(Tail(queue), Cardinality(Rest'), n)
    BY <1>a, <1>b, <1>c, <2>1, <2>3, SingleTaken
  <2>5. Timed(queue) = 0 => Timed(Tail(queue)) = 0
    BY <2>2 DEF Timed, TimedAt
  <2>6. QED BY <2>1, <2>2, <2>3, <2>4, <2>5 DEF QueueInv
<1>5. ASSUME NEW e \in Events, AddJob(e) PROVE QueueInv'
  <2> DEFINE x == Single(e, work.rows[e])
  <2>1. queue' = Append(queue, x) /\ UNCHANGED repeat
    BY <1>5 DEF AddJob
  <2>2. x.name = "odds-single"
    BY <2>1 DEF Single
  <2> HIDE DEF x
  <2>3. Onward /\ e \in Rest /\ e \notin Rest'
    BY <1>5, <1>b, AddOnward
  <2>4. Cardinality(Rest') \in Nat /\ Cardinality(Rest') < p
    BY <1>b, <2>3, RestCounts DEF Onward
  <2>5. Short(queue', Cardinality(Rest'), n) /\ Timed(queue') = Timed(queue)
    BY <1>a, <1>b, <1>c, <2>1, <2>2, <2>4, SingleAdded
  <2>6. \E T : queue' \in Seq(T)
    BY <1>a, <2>1, AppendAt
  <2>7. QED BY <2>1, <2>3, <2>5, <2>6 DEF QueueInv, Onward
<1>6. CASE Promote
  <2>1. queue' = Append(queue, Sync("sync")) /\ repeat /\ repeat' = FALSE /\ UNCHANGED work
    BY <1>6 DEF Promote
  <2>2. Sync("sync").name = "sync"
    BY DEF Sync
  <2>3. Timed(queue) = 0
    BY <2>1 DEF QueueInv
  <2>4. Short(queue', p, n)
    BY <1>a, <1>b, <1>c, <2>1, <2>2, <2>3, TimedAdded
  <2>5. \E T : queue' \in Seq(T)
    BY <1>a, <2>1, AppendAt
  <2>6. QED BY <1>b, <2>1, <2>4, <2>5 DEF QueueInv, WorkInv, Rest
<1>7. CASE Restart
  <2>1. WorkInv' /\ Rest' = {} /\ Cardinality(Rest') = 0
    BY <1>7, FS_EmptySet DEF Restart, Idle, WorkInv, Rest
  <2> DEFINE x == Again(work.job)
             y == Sync("sync-now")
  <2>2. \/ queue' = << >> \o <<y>>
        \/ work.job # None /\ queue' = <<x>> \o <<y>>
    BY <1>7 DEF Restart
  <2>3. y.name = "sync-now"
    BY DEF Sync
  <2>4. work.job # None => x.name \in {"sync-now", "odds-single"}
    BY <1>b, <2>3 DEF WorkInv, Again
  <2> HIDE DEF x, y
  <2>5. /\ queue' \in Seq({x, y}) /\ Len(queue') \in 1 .. 2
        /\ queue'[Len(queue')] = y
        /\ \A i \in 1 .. Len(queue') : queue'[i] = y \/ (work.job # None /\ queue'[i] = x)
    <3>1. /\ << >> \in Seq({x, y}) /\ <<x>> \in Seq({x, y}) /\ <<y>> \in Seq({x, y})
          /\ Len(<< >>) = 0 /\ Len(<<x>>) = 1 /\ Len(<<y>>) = 1 /\ <<x>>[1] = x /\ <<y>>[1] = y
      OBVIOUS
    <3>2. CASE queue' = << >> \o <<y>>
      BY <3>1, <3>2, ConcatAt
    <3>3. CASE work.job # None /\ queue' = <<x>> \o <<y>>
      BY <3>1, <3>3, ConcatAt
    <3>4. QED BY <2>2, <3>2, <3>3
  <2>6. \A i \in 1 .. Len(queue') : queue'[i].name \in {"sync-now", "odds-single"}
    BY <2>3, <2>4, <2>5
  <2>7. Timed(queue') = 0 /\ Short(queue', 0, n)
    <3>1. NowAt(queue', Len(queue'))
      <4>1. Len(queue') \in 1 .. Len(queue')
        BY <2>5
      <4>2. queue'[Len(queue')].name = "sync-now"
        BY <2>3, <2>5, Zenon
      <4>3. QED BY <4>1, <4>2 DEF NowAt
    <3>2. QED BY <1>c, <2>5, <2>6, <3>1 DEF Short, NowAt, TimedAt, Timed
  <2>8. QED BY <2>1, <2>5, <2>7 DEF QueueInv
<1>8. CASE ReadEvents
  BY <1>2, <1>8, <1>b, ReadOnward DEF ReadEvents
<1>9. ASSUME NEW t \in Tournaments, FetchPage(t) PROVE QueueInv'
  BY <1>2, <1>9, <1>b, FetchOnward DEF FetchPage
<1>10. ASSUME NEW e \in Events, MapEvent(e) PROVE QueueInv'
  BY <1>2, <1>10, <1>b, MapOnward DEF MapEvent
<1>11. CASE Enqueue
  BY <1>2, <1>11, <1>b, EnqueueOnward DEF Enqueue
<1>12. CASE FetchOdds \/ WriteOdds
  BY <1>2, <1>12, <1>b, OddsOnward DEF FetchOdds, WriteOdds
<1>13. QED
  BY <1>1, <1>3, <1>4, <1>5, <1>6, <1>7, <1>8, <1>9, <1>10, <1>11, <1>12
     DEF Next, vars, Move, Reprice, EndEvent, AdminPrices, AdminMaps, SyncTournaments, StartMapping,
         MappingUnanswered, MapTournament

\* However slowly HLTV answers, however often the process restarts and whatever is mapped
\* meanwhile, jobs do not pile up (hltv-sync.processor.ts:111-118, 231-241).
THEOREM QueueBounded ==
  ASSUME SomeEvents
  PROVE  Spec => []QueueStaysShort
<1>1. ASSUME QueueInv PROVE QueueStaysShort
  <2>1. Cardinality(Rest) \in Nat /\ Cardinality(Events) \in Nat \ {0}
    BY <1>1, RestType, RestCounts DEF QueueInv
  <2>2. QED BY <1>1, <2>1, ShortLen DEF QueueInv, QueueStaysShort
<1>2. QED BY QueueInvInit, QueueInvStep, <1>1, PTL DEF Spec

-----------------------------------------------------------------------------
\* The limiter

USE LimiterAssumption

\* The numbers of the breaker, and the stages of a request.
BreakerTyped ==
    /\ stage \in {"queued", "waiting", "loading"}
    /\ consecutiveErrors \in Nat /\ failed \in Nat
    /\ circuitOpen \in 0 .. Cooldown
    /\ quiet \in 0 .. Cooldown

\* A request may start: too few have failed in a row, or the last did long ago.
MayStart == failed < Threshold \/ quiet >= Cooldown

\* The service counts what has failed, as far as the threshold; at the threshold the
\* circuit stays open for what is left of the cooldown; and who waits for the rate
\* limit found the circuit closed, with nothing that could fail since.
BreakerInv ==
    /\ BreakerTyped
    /\ failed >= Threshold <=> consecutiveErrors >= Threshold
    /\ failed < Threshold => failed = consecutiveErrors
    /\ failed >= Threshold => circuitOpen >= Cooldown - quiet
    /\ stage = "waiting" => MayStart

\* It holds when the service starts.
LEMMA BreakerInvInit == LimiterInit => BreakerInv
  BY DEF LimiterInit, BreakerInv, BreakerTyped, MayStart

\* A closed circuit admits.
LEMMA ClosedAdmits == BreakerInv /\ circuitOpen = 0 => MayStart
  BY DEF BreakerInv, BreakerTyped, MayStart

\* Every step keeps it.
LEMMA BreakerInvStep ==
  ASSUME BreakerInv, [LimiterNext]_limiterVars
  PROVE  BreakerInv'
<1> USE DEF BreakerInv, BreakerTyped, MayStart, limiterVars, breaker, pool, history
<1>1. ASSUME NEW c \in Callers, NEW how \in {"direct", "proxied"}, EnqueueRequest(c, how)
      PROVE  BreakerInv'
  BY <1>1 DEF EnqueueRequest
<1>2. CASE Skip
  BY <1>2 DEF Skip, Answer
<1>3. CASE Admit
  BY <1>3, ClosedAdmits DEF Admit, Start
<1>4. CASE Wake
  BY <1>4 DEF Wake, Start
<1>5. CASE GetProxy \/ ProxyFails
  BY <1>5 DEF GetProxy, ProxyFails
<1>6. CASE Succeed
  BY <1>6 DEF Succeed, Answer
<1>7. CASE Fail
  <2>1. /\ stage' = "queued" /\ quiet' = 0
        /\ consecutiveErrors' = IF consecutiveErrors + 1 > Threshold + 1 THEN Threshold + 1
                                 ELSE consecutiveErrors + 1
        /\ failed' = IF failed + 1 > Threshold THEN Threshold ELSE failed + 1
        /\ circuitOpen' = IF consecutiveErrors + 1 >= Threshold THEN Cooldown ELSE circuitOpen
    BY <1>7 DEF Fail, Answer, Capped
  <2>2. BreakerTyped'
    BY <2>1
  <2>3. CASE consecutiveErrors + 1 >= Threshold
    <3>1. failed' = Threshold /\ consecutiveErrors' >= Threshold /\ circuitOpen' = Cooldown
      BY <2>1, <2>3
    <3>2. QED BY <2>1, <2>2, <3>1
  <2>4. CASE ~(consecutiveErrors + 1 >= Threshold)
    <3>1. failed' = failed + 1 /\ consecutiveErrors' = failed' /\ failed' < Threshold
      BY <2>1, <2>4
    <3>2. QED BY <2>1, <2>2, <3>1
  <2>5. QED BY <2>3, <2>4
<1>8. CASE Tick
  BY <1>8 DEF Tick, Less, Capped
<1>9. CASE UNCHANGED limiterVars
  BY <1>9
<1>10. QED
  BY <1>1, <1>2, <1>3, <1>4, <1>5, <1>6, <1>7, <1>8, <1>9 DEF LimiterNext

\* Whatever the workers ask for and however long requests, timers and the limit take,
\* no request starts from the moment enough have failed in a row until the cooldown
\* has passed since the last of them (hltv.service.ts:66-80).
THEOREM BreakerKept == LimiterSpec => BreakerHolds
<1>1. BreakerInv /\ [LimiterNext]_limiterVars
        => [stage # "loading" /\ stage' = "loading"
              => failed < Threshold \/ quiet >= Cooldown]_limiterVars
  <2> SUFFICES ASSUME BreakerInv, LimiterNext, stage # "loading", stage' = "loading" PROVE MayStart
    BY DEF MayStart
  <2>1. Admit \/ Wake
    BY DEF LimiterNext, EnqueueRequest, Skip, Answer, GetProxy, ProxyFails, Succeed, Fail, Tick
  <2>2. CASE Admit
    BY <2>2, ClosedAdmits DEF Admit
  <2>3. CASE Wake
    BY <2>3 DEF Wake, BreakerInv
  <2>4. QED BY <2>1, <2>2, <2>3
<1>2. QED BY BreakerInvInit, BreakerInvStep, <1>1, PTL DEF LimiterSpec, BreakerHolds

-----------------------------------------------------------------------------
\* What holds of the empty sequence, and of a sequence with one more at its end, holds
\* of every sequence.
LEMMA SeqInduction ==
  ASSUME NEW A, NEW G \in SUBSET Seq(A), << >> \in G,
         \A s \in G : \A x \in A : Append(s, x) \in G
  PROVE  Seq(A) \subseteq G
<1> DEFINE B == {Len(s) : s \in Seq(A) \ G}
<1> SUFFICES ASSUME B # {} PROVE FALSE
  OBVIOUS
<1>1. B \in SUBSET Nat
  OBVIOUS
<1>2. PICK n \in B : \A m \in B : ~(m < n)
  <2> HIDE DEF B
  <2>1. QED BY <1>1, NatMinimum
<1>3. PICK s \in Seq(A) : s \notin G /\ n = Len(s)
  OBVIOUS
<1>4. s # << >>
  BY <1>3
<1>5. PICK r \in Seq(A), x \in A : s = Append(r, x)
  BY <1>4, SequenceEmptyOrAppend
<1>6. Len(r) \in Nat /\ Len(r) < n
  <2>1. Len(r) \in Nat /\ Len(Append(r, x)) = Len(r) + 1
    OBVIOUS
  <2>2. QED BY <1>3, <1>5, <2>1
<1>7. r \in G
  <2>1. Len(r) \notin B
    BY <1>2, <1>6
  <2>2. QED BY <2>1
<1>8. QED BY <1>3, <1>5, <1>7

-----------------------------------------------------------------------------
\* The requests within the window: kept[n] are those of the first n.
Keeps(kept, ages, m) ==
    kept = [n \in 0 .. m |->
              IF n = 0 THEN << >>
              ELSE IF ages[n] < RateWindow THEN Append(kept[n - 1], ages[n]) ELSE kept[n - 1]]

\* What it says of one of them.
LEMMA KeepsValue ==
  ASSUME NEW kept, NEW ages, NEW m, Keeps(kept, ages, m), NEW n \in 0 .. m
  PROVE  kept[n] = IF n = 0 THEN << >>
                   ELSE IF ages[n] < RateWindow THEN Append(kept[n - 1], ages[n]) ELSE kept[n - 1]
<1> DEFINE body(k) == IF k = 0 THEN << >>
                      ELSE IF ages[k] < RateWindow THEN Append(kept[k - 1], ages[k]) ELSE kept[k - 1]
<1>1. kept = [k \in 0 .. m |-> body(k)]
  BY DEF Keeps
<1>2. [k \in 0 .. m |-> body(k)][n] = body(n)
  OBVIOUS
<1>3. QED BY <1>1, <1>2

\* There is such a function,
LEMMA KeepsExist ==
  ASSUME NEW ages, NEW m \in Nat
  PROVE  \E kept : Keeps(kept, ages, m)
<1> DEFINE Bad == {k \in Nat : ~ \E kept : Keeps(kept, ages, k)}
<1>1. Bad = {}
  <2> SUFFICES ASSUME Bad # {} PROVE FALSE
    OBVIOUS
  <2>1. PICK n \in Bad : \A k \in Bad : ~(k < n)
    <3>1. Bad \in SUBSET Nat
      OBVIOUS
    <3> HIDE DEF Bad
    <3>2. QED BY <3>1, NatMinimum
  <2>2. n # 0
    <3> DEFINE kept == [k \in 0 .. 0 |-> << >>]
    <3>1. kept = [k \in 0 .. 0 |->
                    IF k = 0 THEN << >>
                    ELSE IF ages[k] < RateWindow THEN Append(kept[k - 1], ages[k]) ELSE kept[k - 1]]
      OBVIOUS
    <3>2. Keeps(kept, ages, 0)
      BY <3>1 DEF Keeps
    <3>3. QED BY <3>2
  <2>3. n \in Nat /\ n - 1 \in Nat /\ n - 1 < n
    BY <2>2
  <2>4. PICK h : Keeps(h, ages, n - 1)
    BY <2>1, <2>3
  <2> DEFINE last == IF ages[n] < RateWindow THEN Append(h[n - 1], ages[n]) ELSE h[n - 1]
             kept == [k \in 0 .. n |-> IF k = n THEN last ELSE h[k]]
  <2>5. ASSUME NEW k \in 0 .. n
        PROVE  kept[k] = IF k = 0 THEN << >>
                         ELSE IF ages[k] < RateWindow THEN Append(kept[k - 1], ages[k]) ELSE kept[k - 1]
    <3>1. CASE k = n
      BY <2>3, <3>1
    <3>2. CASE k # n
      <4>1. k \in 0 .. n - 1
        BY <2>3, <3>2
      <4>2. h[k] = IF k = 0 THEN << >>
                   ELSE IF ages[k] < RateWindow THEN Append(h[k - 1], ages[k]) ELSE h[k - 1]
        BY <2>4, <4>1, KeepsValue
      <4>3. kept[k] = h[k] /\ (k # 0 => kept[k - 1] = h[k - 1])
        BY <2>3, <4>1
      <4> HIDE DEF kept
      <4>4. QED BY <4>2, <4>3
    <3>3. QED BY <3>1, <3>2
  <2>6. kept = [k \in 0 .. n |-> kept[k]]
    OBVIOUS
  <2> HIDE DEF kept
  <2>7. Keeps(kept, ages, n)
    BY <2>5, <2>6 DEF Keeps
  <2>8. QED BY <2>7
<1>2. QED BY <1>1

\* and what it is for the first n depends on them alone.
LEMMA KeepsAgree ==
  ASSUME NEW f, NEW g, NEW s, NEW r, NEW k \in Nat, NEW m \in Nat,
         Keeps(f, s, k), Keeps(g, r, m), k <= m, \A i \in 1 .. k : s[i] = r[i]
  PROVE  f[k] = g[k]
<1> DEFINE Bad == {n \in 0 .. k : f[n] # g[n]}
<1>1. Bad = {}
  <2> SUFFICES ASSUME Bad # {} PROVE FALSE
    OBVIOUS
  <2>1. PICK n \in Bad : \A i \in Bad : ~(i < n)
    <3>1. Bad \in SUBSET Nat
      OBVIOUS
    <3> HIDE DEF Bad
    <3>2. QED BY <3>1, NatMinimum
  <2>2. n \in 0 .. k /\ n \in 0 .. m /\ f[n] # g[n]
    OBVIOUS
  <2>3. /\ f[n] = IF n = 0 THEN << >>
                  ELSE IF s[n] < RateWindow THEN Append(f[n - 1], s[n]) ELSE f[n - 1]
        /\ g[n] = IF n = 0 THEN << >>
                  ELSE IF r[n] < RateWindow THEN Append(g[n - 1], r[n]) ELSE g[n - 1]
    BY <2>2, KeepsValue
  <2>4. n # 0
    BY <2>2, <2>3
  <2>5. n - 1 \in 0 .. k /\ n - 1 < n
    BY <2>2, <2>4
  <2>6. n - 1 \notin Bad
    BY <2>1, <2>5
  <2>7. f[n - 1] = g[n - 1] /\ s[n] = r[n]
    BY <2>2, <2>4, <2>5, <2>6
  <2>8. QED BY <2>2, <2>3, <2>7
<1>2. k \in 0 .. k
  OBVIOUS
<1>3. QED BY <1>1, <1>2

\* Young is its last value.
LEMMA YoungValue ==
  ASSUME NEW ages, Len(ages) \in Nat, NEW g, Keeps(g, ages, Len(ages))
  PROVE  Young(ages) = g[Len(ages)]
<1> DEFINE h == CHOOSE h : Keeps(h, ages, Len(ages))
<1>1. Keeps(h, ages, Len(ages))
  BY KeepsExist
<1>2. Young(ages) = h[Len(ages)]
  BY DEF Young, Keeps
<1> HIDE DEF h
<1>3. h[Len(ages)] = g[Len(ages)]
  <2>1. Keeps(g, ages, Len(ages)) /\ Len(ages) \in Nat /\ Len(ages) <= Len(ages)
    OBVIOUS
  <2>2. \A k \in Nat : Keeps(h, ages, k) /\ Keeps(g, ages, k) => h[k] = g[k]
    BY KeepsAgree
  <2>3. QED BY <1>1, <2>1, <2>2
<1>4. QED BY <1>2, <1>3

\* Of no requests none are kept,
LEMMA YoungEmpty == Young(<< >>) = << >>
<1>1. Len(<< >>) = 0
  OBVIOUS
<1>2. PICK g : Keeps(g, << >>, 0)
  BY KeepsExist
<1>3. g[0] = << >>
  BY <1>2, KeepsValue
<1>4. QED BY <1>1, <1>2, <1>3, YoungValue

\* and of one more at the end the last is kept if it is in the window.
LEMMA YoungAppend ==
  ASSUME NEW s \in Seq(Nat), NEW x \in Nat
  PROVE  Young(Append(s, x)) = IF x < RateWindow THEN Append(Young(s), x) ELSE Young(s)
<1> DEFINE r == Append(s, x)
           n == Len(s)
<1>1. n \in Nat /\ Len(r) = n + 1 /\ r[n + 1] = x /\ \A i \in 1 .. n : s[i] = r[i]
  OBVIOUS
<1>a. n + 1 \in Nat /\ n <= n + 1
  BY <1>1
<1> HIDE DEF r
<1>2. PICK f : Keeps(f, s, n)
  BY <1>1, KeepsExist
<1>3. PICK g : Keeps(g, r, n + 1)
  BY <1>a, KeepsExist
<1>4. Young(s) = f[n] /\ Young(r) = g[n + 1]
  BY <1>1, <1>2, <1>3, YoungValue
<1>5. f[n] = g[n]
  <2>1. \A i \in 1 .. n : s[i] = r[i]
    BY <1>1
  <2>2. n \in Nat /\ n + 1 \in Nat /\ n <= n + 1 /\ Keeps(f, s, n) /\ Keeps(g, r, n + 1)
    BY <1>1, <1>a, <1>2, <1>3
  <2> HIDE DEF n
  <2>3. \A k, m \in Nat :
          Keeps(f, s, k) /\ Keeps(g, r, m) /\ k <= m /\ (\A i \in 1 .. k : s[i] = r[i])
          => f[k] = g[k]
    BY KeepsAgree, SMTT(30)
  <2>4. QED BY <2>1, <2>2, <2>3
<1>6. n + 1 \in 0 .. n + 1 /\ n + 1 # 0 /\ (n + 1) - 1 = n
  BY <1>1
<1>7. g[n + 1] = IF r[n + 1] < RateWindow THEN Append(g[n], r[n + 1]) ELSE g[n]
  BY <1>3, <1>6, KeepsValue
<1>8. QED BY <1>1, <1>4, <1>5, <1>7 DEF r

-----------------------------------------------------------------------------
\* Ages of requests.
Ages == 0 .. RateWindow

\* The requests kept are in the window and not more; without the first, if that is not.
YoungFits == {s \in Seq(Ages) :
    /\ Young(s) \in Seq(Ages) /\ Len(Young(s)) <= Len(s)
    /\ \A i \in 1 .. Len(Young(s)) : Young(s)[i] < RateWindow
    /\ s # << >> /\ s[1] >= RateWindow => Len(Young(s)) < Len(s)}

\* So it is for every sequence of ages.
LEMMA YoungFit == Seq(Ages) \subseteq YoungFits
<1>1. << >> \in YoungFits
  <2>1. << >> \in Seq(Ages) /\ Len(<< >>) = 0
    OBVIOUS
  <2>2. Young(<< >>) \in Seq(Ages) /\ Len(Young(<< >>)) = 0
    BY <2>1, YoungEmpty, Zenon
  <2>3. Len(Young(<< >>)) <= Len(<< >>) /\ \A i \in 1 .. Len(Young(<< >>)) : Young(<< >>)[i] < RateWindow
    BY <2>1, <2>2
  <2>4. QED BY <2>1, <2>2, <2>3 DEF YoungFits
<1>2. ASSUME NEW s \in YoungFits, NEW x \in Ages PROVE Append(s, x) \in YoungFits
  <2>1. /\ s \in Seq(Ages) /\ Young(s) \in Seq(Ages) /\ Len(Young(s)) <= Len(s)
        /\ \A i \in 1 .. Len(Young(s)) : Young(s)[i] < RateWindow
        /\ s # << >> /\ s[1] >= RateWindow => Len(Young(s)) < Len(s)
    BY DEF YoungFits
  <2>2. Young(Append(s, x)) = IF x < RateWindow THEN Append(Young(s), x) ELSE Young(s)
    <3>1. s \in Seq(Nat) /\ x \in Nat
      BY <2>1 DEF Ages
    <3>2. QED BY <3>1, YoungAppend
  <2>3. /\ Append(s, x) \in Seq(Ages) /\ Len(Append(s, x)) = Len(s) + 1
        /\ Append(s, x)[1] = IF s = << >> THEN x ELSE s[1]
    BY <2>1
  <2>4. /\ Append(Young(s), x) \in Seq(Ages) /\ Len(Append(Young(s), x)) = Len(Young(s)) + 1
        /\ \A i \in 1 .. Len(Young(s)) : Append(Young(s), x)[i] = Young(s)[i]
        /\ Append(Young(s), x)[Len(Young(s)) + 1] = x
    BY <2>1
  <2>5. CASE x < RateWindow
    <3>1. Young(Append(s, x)) = Append(Young(s), x)
      BY <2>2, <2>5
    <3>2. \A i \in 1 .. Len(Young(s)) + 1 : Append(Young(s), x)[i] < RateWindow
      BY <2>1, <2>4, <2>5
    <3>3. Append(s, x) # << >> /\ Append(s, x)[1] >= RateWindow => s # << >> /\ s[1] >= RateWindow
      BY <2>3, <2>5 DEF Ages
    <3>4. Len(Append(Young(s), x)) <= Len(Append(s, x))
      BY <2>1, <2>3, <2>4
    <3>5. Len(Young(s)) < Len(s) => Len(Append(Young(s), x)) < Len(Append(s, x))
      BY <2>1, <2>3, <2>4
    <3> DEFINE q == Append(s, x)
               p == Append(Young(s), x)
    <3>6. \A i \in 1 .. Len(p) : p[i] < RateWindow
      BY <2>4, <3>2
    <3>7. /\ q \in Seq(Ages) /\ p \in Seq(Ages) /\ Young(q) = p /\ Len(p) <= Len(q)
          /\ q # << >> /\ q[1] >= RateWindow => Len(p) < Len(q)
      BY <2>1, <2>3, <2>4, <3>1, <3>3, <3>4, <3>5
    <3> HIDE DEF p, q
    <3>8. q \in YoungFits
      BY <3>6, <3>7 DEF YoungFits
    <3>9. QED BY <3>8 DEF q
  <2>6. CASE ~(x < RateWindow)
    <3>1. Young(Append(s, x)) = Young(s)
      BY <2>2, <2>6
    <3>2. QED BY <2>1, <2>3, <3>1 DEF YoungFits
  <2>7. QED BY <2>5, <2>6
<1>3. YoungFits \in SUBSET Seq(Ages)
  BY DEF YoungFits
<1>4. QED BY <1>1, <1>2, <1>3, SeqInduction

\* What is old stays old, whether it is forgotten now or later.
OldStays == {s \in Seq(Ages) :
    /\ Young(Young(s)) = Young(s)
    /\ Older(s) \in Seq(Ages)
    /\ Young(Older(Young(s))) = Young(Older(s))}

\* One more request ages with the others.
LEMMA OlderAppend ==
  ASSUME NEW s \in Seq(Ages), NEW x \in Ages
  PROVE  /\ Older(s) \in Seq(Ages) /\ Len(Older(s)) = Len(s)
         /\ Capped(x + 1, RateWindow) \in Ages
         /\ Older(Append(s, x)) = Append(Older(s), Capped(x + 1, RateWindow))
<1> DEFINE y == Capped(x + 1, RateWindow)
<1>1. \A a \in Ages : Capped(a + 1, RateWindow) \in Ages
  BY DEF Ages, Capped
<1>2. ASSUME NEW r \in Seq(Ages)
      PROVE  /\ Older(r) \in Seq(Ages) /\ Len(Older(r)) = Len(r)
             /\ \A i \in 1 .. Len(r) : Older(r)[i] = Capped(r[i] + 1, RateWindow)
  <2>1. Older(r) = [i \in 1 .. Len(r) |-> Capped(r[i] + 1, RateWindow)]
    BY DEF Older
  <2>2. \A i \in 1 .. Len(r) : Capped(r[i] + 1, RateWindow) \in Ages
    BY <1>1
  <2>3. QED BY <2>1, <2>2
<1>3. /\ Append(s, x) \in Seq(Ages) /\ Len(Append(s, x)) = Len(s) + 1
      /\ \A i \in 1 .. Len(s) : Append(s, x)[i] = s[i]
      /\ Append(s, x)[Len(s) + 1] = x
  OBVIOUS
<1>4. y \in Ages
  BY <1>1
<1>5. /\ Append(Older(s), y) \in Seq(Ages) /\ Len(Append(Older(s), y)) = Len(s) + 1
      /\ \A i \in 1 .. Len(s) : Append(Older(s), y)[i] = Older(s)[i]
      /\ Append(Older(s), y)[Len(s) + 1] = y
  <2> HIDE DEF y
  <2>1. QED BY <1>2, <1>4, AppendProperties, SMTT(30)
<1>6. /\ Older(Append(s, x)) \in Seq(Ages) /\ Len(Older(Append(s, x))) = Len(s) + 1
      /\ \A i \in 1 .. Len(s) + 1 : Older(Append(s, x))[i] = Capped(Append(s, x)[i] + 1, RateWindow)
  BY <1>2, <1>3
<1>7. \A i \in 1 .. Len(s) + 1 : Older(Append(s, x))[i] = Append(Older(s), y)[i]
  BY <1>2, <1>3, <1>5, <1>6
<1>8. Older(Append(s, x)) = Append(Older(s), y)
  <2> HIDE DEF y
  <2>1. QED BY <1>5, <1>6, <1>7, SeqEqual
<1>9. QED BY <1>2, <1>4, <1>8

\* So it is for every sequence of ages.
LEMMA OldStay == Seq(Ages) \subseteq OldStays
<1>1. << >> \in OldStays
  <2>1. Older(<< >>) = << >>
    BY DEF Older
  <2>2. << >> \in Seq(Ages)
    OBVIOUS
  <2>3. QED BY <2>1, <2>2, YoungEmpty DEF OldStays
<1>2. ASSUME NEW s \in OldStays, NEW x \in Ages PROVE Append(s, x) \in OldStays
  <2> DEFINE y == Capped(x + 1, RateWindow)
             r == Young(s)
  <2>1. /\ s \in Seq(Ages) /\ Young(r) = r /\ Older(s) \in Seq(Ages)
        /\ Young(Older(r)) = Young(Older(s))
    BY DEF OldStays
  <2>2. r \in Seq(Ages)
    BY <2>1, YoungFit DEF YoungFits
  <2>3. /\ y \in Ages /\ Older(r) \in Seq(Ages)
        /\ Older(Append(s, x)) = Append(Older(s), y)
        /\ Older(Append(r, x)) = Append(Older(r), y)
    BY <2>1, <2>2, OlderAppend
  <2>4. Append(Older(s), y) \in Seq(Ages) /\ Append(s, x) \in Seq(Ages)
    <3> HIDE DEF y
    <3>1. QED BY <2>1, <2>3
  <2>5. \A q \in Seq(Ages), z \in Ages :
          Young(Append(q, z)) = IF z < RateWindow THEN Append(Young(q), z) ELSE Young(q)
    <3>1. Ages \subseteq Nat
      BY DEF Ages
    <3>2. \A q \in Seq(Ages) : q \in Seq(Nat)
      BY <3>1, SeqMonotonic
    <3>3. QED BY <3>1, <3>2, YoungAppend
  <2>6. ~(x < RateWindow) => ~(y < RateWindow)
    BY DEF Capped, Ages
  <2> HIDE DEF y, r
  <2>7. CASE x < RateWindow
    <3>1. Young(Append(s, x)) = Append(r, x)
      BY <2>1, <2>5, <2>7 DEF r
    <3>2. Young(Append(r, x)) = Append(r, x)
      BY <2>1, <2>2, <2>5, <2>7
    <3>3. Young(Append(Older(r), y)) = Young(Append(Older(s), y))
      BY <2>1, <2>3, <2>5, ZenonT(30)
    <3>4. QED BY <2>3, <2>4, <3>1, <3>2, <3>3 DEF OldStays
  <2>8. CASE ~(x < RateWindow)
    <3>1. Young(Append(s, x)) = r
      BY <2>1, <2>5, <2>8 DEF r
    <3>2. Young(Append(Older(s), y)) = Young(Older(s))
      BY <2>1, <2>3, <2>5, <2>6, <2>8
    <3>3. QED BY <2>1, <2>3, <2>4, <3>1, <3>2 DEF OldStays
  <2>9. QED BY <2>7, <2>8
<1>3. OldStays \in SUBSET Seq(Ages)
  BY DEF OldStays
<1>4. QED BY <1>1, <1>2, <1>3, SeqInduction

-----------------------------------------------------------------------------
\* The requests started within the window are those the service remembers, as far as
\* they still count; and who waits for the limit remembers no more than may start, the
\* first of which is outside the window when the timer fires.
LimitInv ==
    /\ requestTimestamps \in Seq(Ages) /\ wait \in Int
    /\ started = Young(requestTimestamps)
    /\ Len(started) <= RateLimit
    /\ stage = "waiting" =>
          /\ requestTimestamps # << >> /\ Len(requestTimestamps) <= RateLimit
          /\ requestTimestamps[1] + wait >= RateWindow

\* It holds when the service starts.
LEMMA LimitInvInit == LimiterInit => LimitInv
<1> SUFFICES ASSUME LimiterInit PROVE LimitInv
  OBVIOUS
<1>1. requestTimestamps = << >> /\ started = << >> /\ wait = 0 /\ stage = "queued"
  BY DEF LimiterInit
<1>2. << >> \in Seq(Ages) /\ Len(<< >>) = 0
  OBVIOUS
<1>3. Len(started) <= RateLimit
  BY <1>1, <1>2
<1>4. QED BY <1>1, <1>2, <1>3, YoungEmpty DEF LimitInv

\* A request starts when those that count are fewer than may.
LEMMA StartInLimit ==
  ASSUME LimitInv, NEW ts \in Seq(Ages), Young(ts) = started, Len(started) < RateLimit, Start(ts)
  PROVE  LimitInv'
<1>1. /\ requestTimestamps' = Append(ts, 0) /\ started' = Append(started, 0)
      /\ stage' = "loading" /\ wait' = wait /\ wait \in Int
  BY DEF Start, LimitInv
<1>2. 0 \in Ages /\ 0 < RateWindow /\ ts \in Seq(Nat)
  <2>1. Ages \subseteq Nat
    BY DEF Ages
  <2>2. QED BY <2>1, SeqMonotonic DEF Ages
<1>3. Young(Append(ts, 0)) = Append(started, 0)
  BY <1>2, YoungAppend
<1>4. started \in Seq(Ages)
  BY YoungFit DEF YoungFits
<1>5. Append(ts, 0) \in Seq(Ages) /\ Len(Append(started, 0)) = Len(started) + 1 /\ Len(started) \in Nat
  BY <1>2, <1>4
<1>6. QED BY <1>1, <1>3, <1>5 DEF LimitInv

\* Every step keeps it.
LEMMA LimitInvStep ==
  ASSUME LimitInv, [LimiterNext]_limiterVars
  PROVE  LimitInv'
<1>a. /\ requestTimestamps \in Seq(Ages) /\ wait \in Int /\ started = Young(requestTimestamps)
      /\ Len(started) <= RateLimit
  BY DEF LimitInv
<1>b. /\ started \in Seq(Ages) /\ Len(started) \in Nat /\ Young(started) = started
      /\ \A i \in 1 .. Len(started) : started[i] < RateWindow
  <2>1. started \in Seq(Ages) /\ \A i \in 1 .. Len(started) : started[i] < RateWindow
    BY <1>a, YoungFit DEF YoungFits
  <2>2. Young(started) = started
    BY <1>a, OldStay DEF OldStays
  <2>3. QED BY <2>1, <2>2
<1>1. CASE UNCHANGED <<stage, wait, requestTimestamps, started>>
  BY <1>1 DEF LimitInv
<1>2. CASE stage' = "queued" /\ UNCHANGED <<wait, requestTimestamps, started>>
  BY <1>2 DEF LimitInv
<1>3. CASE Admit
  <2> DEFINE recent == Young(requestTimestamps)
  <2>1. CASE Len(recent) < RateLimit
    <3>1. Start(started)
      BY <1>3, <1>a, <2>1 DEF Admit
    <3>2. Len(started) < RateLimit
      BY <1>a, <2>1
    <3>3. QED BY <1>a, <1>b, <3>1, <3>2, StartInLimit
  <2>2. CASE ~(Len(recent) < RateLimit)
    <3>1. /\ wait' = RateWindow - started[1] + Margin
          /\ requestTimestamps' = started /\ UNCHANGED started
      BY <1>3, <1>a, <2>2 DEF Admit, history
    <3>2. Len(started) = RateLimit /\ started # << >>
      BY <1>a, <1>b, <2>2
    <3>3. started[1] \in Nat
      BY <1>b, <3>2 DEF Ages
    <3>4. wait' \in Int /\ started[1] + wait' >= RateWindow
      BY <3>1, <3>3
    <3>5. QED BY <1>a, <1>b, <3>1, <3>2, <3>4 DEF LimitInv
  <2>3. QED BY <2>1, <2>2
<1>4. CASE Wake
  <2>1. /\ requestTimestamps # << >> /\ Len(requestTimestamps) <= RateLimit
        /\ requestTimestamps[1] >= RateWindow
    <3>1. wait = 0 /\ requestTimestamps # << >> /\ Len(requestTimestamps) <= RateLimit
          /\ requestTimestamps[1] + wait >= RateWindow
      BY <1>4 DEF Wake, LimitInv
    <3>2. requestTimestamps[1] \in Nat
      BY <1>a, <3>1 DEF Ages
    <3>3. QED BY <3>1, <3>2
  <2>2. Len(started) < Len(requestTimestamps)
    BY <1>a, <2>1, YoungFit DEF YoungFits
  <2>3. Len(started) < RateLimit
    BY <1>a, <1>b, <2>1, <2>2
  <2>4. QED BY <1>4, <1>a, <2>3, StartInLimit DEF Wake
<1>5. CASE Tick
  <2>1. /\ requestTimestamps' = Older(requestTimestamps) /\ started' = Young(Older(started))
        /\ wait' = Less(wait) /\ UNCHANGED stage
    BY <1>5 DEF Tick
  <2>2. /\ Older(requestTimestamps) \in Seq(Ages) /\ Older(started) \in Seq(Ages)
        /\ Len(Older(requestTimestamps)) = Len(requestTimestamps)
        /\ Len(Older(started)) = Len(started)
    <3>1. 0 \in Ages
      BY DEF Ages
    <3>2. QED BY <1>a, <1>b, <3>1, OlderAppend
  <2>3. Young(Older(started)) = Young(Older(requestTimestamps))
    BY <1>a, OldStay DEF OldStays
  <2>4. Len(Young(Older(started))) <= RateLimit
    <3>1. Young(Older(started)) \in Seq(Ages) /\ Len(Young(Older(started))) <= Len(Older(started))
      BY <2>2, YoungFit DEF YoungFits
    <3>2. QED BY <1>a, <1>b, <2>2, <3>1
  <2>5. CASE stage = "waiting"
    <3>1. /\ requestTimestamps # << >> /\ Len(requestTimestamps) <= RateLimit
          /\ requestTimestamps[1] + wait >= RateWindow
      BY <2>5 DEF LimitInv
    <3>2. requestTimestamps[1] \in Ages /\ 1 \in DOMAIN requestTimestamps
      BY <1>a, <3>1
    <3>3. requestTimestamps'[1] = Capped(requestTimestamps[1] + 1, RateWindow)
      BY <2>1, <3>2 DEF Older
    <3>4. requestTimestamps'[1] + wait' >= RateWindow
      BY <1>a, <2>1, <3>1, <3>2, <3>3, SMTT(30) DEF Capped, Less, Ages
    <3>5. requestTimestamps' # << >>
      BY <1>a, <2>1, <2>2, <3>1
    <3>6. wait' \in Int
      BY <1>a, <2>1 DEF Less
    <3>7. QED BY <1>a, <2>1, <2>2, <2>3, <2>4, <3>1, <3>4, <3>5, <3>6 DEF LimitInv
  <2>6. CASE stage # "waiting"
    <3>1. wait' \in Int
      BY <1>a, <2>1 DEF Less
    <3>2. QED BY <2>1, <2>2, <2>3, <2>4, <2>6, <3>1 DEF LimitInv
  <2>7. QED BY <2>5, <2>6
<1>6. QED
  BY <1>1, <1>2, <1>3, <1>4, <1>5
     DEF LimiterNext, limiterVars, history, EnqueueRequest, Skip, Answer, GetProxy, ProxyFails,
         Succeed, Fail

\* No more requests start within a window of time than HLTV_RATE_LIMIT says
\* (hltv.service.ts:44), however long a request or a timer takes: a request whose timer
\* fires starts without another look at the limit.
THEOREM LimitKept == LimiterSpec => []RateLimited
<1>1. LimitInv => RateLimited
  BY DEF LimitInv, RateLimited
<1>2. QED BY LimitInvInit, LimitInvStep, <1>1, PTL DEF LimiterSpec
=============================================================================
