---------------------------- MODULE EventProofs -----------------------------
(*************************************************************************)
(* The pages of the events, for any number of users, events, filters,    *)
(* saves and failures: a save is seen by the user who made it, and a page*)
(* shows the odds and statuses of the rows, but for the changes of which *)
(* nobody tells it.                                                      *)
(*                                                                       *)
(* And the events, for any number of matches, edits and failures: the    *)
(* jobs post the result each match really has, end no event without      *)
(* posting it, and none more than twice.                                 *)
(*************************************************************************)
EXTENDS EventLifecycle, EventPages, FiniteSetTheorems, SequenceTheorems, TLAPS

-----------------------------------------------------------------------------
\* What the pages hold

\* Keys of the two pages are told apart, and a detail's names its event.
LEMMA PageKeys ==
  /\ \A e \in Events : Detail(e) \in DetailKeys /\ Detail(e).event = e
  /\ \A k \in DetailKeys : k.event \in Events /\ k = Detail(k.event)
  /\ \A k \in Keys : k.page = "detail" <=> k \in DetailKeys
  /\ \A f \in RowStatuses : List(f) \in ListKeys
  /\ Home \in ListKeys /\ ListKeys \cap DetailKeys = {}
  /\ Keys = ListKeys \cup DetailKeys
  BY DEF Detail, DetailKeys, List, ListKeys, Keys, Home, RowStatuses

\* An answer holds rows of some events.
LEMMA HeldRows ==
  /\ \A a \in Held : /\ DOMAIN a \subseteq Events /\ \A e \in DOMAIN a : a[e] \in Row
                     /\ a = [e \in DOMAIN a |-> a[e]]
  /\ \A S \in SUBSET Events : \A a \in [S -> Row] : a \in Held
  /\ Nothing \in Held /\ DOMAIN Nothing = {}
<1>1. \A S \in SUBSET Events : \A a \in [S -> Row] : a \in Held
  BY DEF Held
<1>2. ASSUME NEW a \in Held
      PROVE  /\ DOMAIN a \subseteq Events /\ \A e \in DOMAIN a : a[e] \in Row
             /\ a = [e \in DOMAIN a |-> a[e]]
  <2>1. PICK S \in SUBSET Events : a \in [S -> Row]
    BY DEF Held
  <2>2. QED BY <2>1
<1>3. Nothing \in [{} -> Row] /\ DOMAIN Nothing = {}
  BY DEF Nothing
<1>4. QED BY <1>1, <1>2, <1>3

\* Edits that a request has still to write.
Waiting == {i \in 1 .. Len(reqs) : reqs[i].step = "save"}

\* There is room for them.
RoomLeft == writes + Cardinality(Waiting) <= MaxSteps

\* Events of which a change has still to bust the cache.
Dirty == {e \in Events : Unbusted(e)}

\* An answer to k, by rows rw, what is gone, gn, and n changes: of its event, for a
\* detail, of odds its row has had, and of the row's own if it takes in the last change.
Fits(k, a, rw, gn, n) ==
    /\ a \in Answer
    /\ k \in DetailKeys => DOMAIN a.rows = {k.event}
    /\ \A kind \in Kinds : a.asOf[kind] <= n
    /\ \A e \in DOMAIN a.rows :
         /\ a.rows[e].odds <= rw[e].odds
         /\ rw[e].odds <= a.asOf["odds"] => a.rows[e].odds = rw[e].odds
         /\ gn[e]["status"] <= a.asOf["status"] => a.rows[e].status = rw[e].status

\* A detail that was not busted since it was read has the row's odds, or will be.
Prompt(k, a, rw, dirty) ==
    k \in DetailKeys /\ ~a.raced => a.rows[k.event].odds = rw[k.event].odds \/ k.event \in dirty

RequestFits(r, rw, gn, n, dirty) ==
    /\ r.saves => r.key \in DetailKeys
    /\ r.step \in {"save", "written"} => r.saves
    /\ r.step \in {"read", "answered"} => Fits(r.key, r.answer, rw, gn, n)
    /\ r.step = "read" => Prompt(r.key, r.answer, rw, dirty)
    /\ r.step = "answered" => r.owner = "page"

AnswersFit ==
    /\ \A k \in Keys : cache[k] # None =>
          Fits(k, cache[k], row, gone, writes) /\ Prompt(k, cache[k], row, Dirty)
    /\ \A i \in 1 .. Len(reqs) : RequestFits(reqs[i], row, gone, writes, Dirty)

\* Changes are numbered in ascending order, and told, or not, no earlier.
OddsAscend ==
    /\ \A e \in Events : row[e].odds <= writes /\ gone[e]["odds"] <= row[e].odds
    /\ job # None => job.odds <= row[job.event].odds
    /\ \A n \in 1 .. Len(wire) : wire[n].odds <= row[wire[n].event].odds

\* The last change of an event's odds is still to be told, or nobody will be told.
Telling(e, n) ==
    \/ job # None /\ job.event = e /\ job.odds = n
    \/ \E m \in 1 .. Len(wire) : wire[m].event = e /\ wire[m].odds = n
    \/ \E j \in 1 .. Len(reqs) : reqs[j].step = "written" /\ reqs[j].key = Detail(e) /\ reqs[j].wrote = n
Told == \A e \in Events : gone[e]["odds"] = row[e].odds \/ Telling(e, row[e].odds)

\* What the cache, ch, has, or a request of rs will fill it with, is no older than an
\* edit whose answer is still to be read, unless it was busted since it was read.
CacheMeets(ch, k, odds) == ch[k] # None /\ ~ch[k].raced => ch[k].rows[k.event].odds >= odds
ReadersMeet(rs, k, odds) ==
    \A j \in 1 .. Len(rs) :
        rs[j].key = k /\ rs[j].step = "read" /\ ~rs[j].answer.raced =>
            rs[j].answer.rows[k.event].odds >= odds
Saved(r, rw, ch, rs) ==
    /\ r.step \in {"written", "sent", "missed"} => r.wrote <= rw[r.key.event].odds
    /\ r.step \in {"sent", "missed"} => CacheMeets(ch, r.key, r.wrote) /\ ReadersMeet(rs, r.key, r.wrote)
    /\ r.step = "read" => r.answer.rows[r.key.event].odds >= r.wrote
    /\ r.step = "answered" /\ ~r.answer.raced => r.answer.rows[r.key.event].odds >= r.wrote
SaveInv == \A i \in 1 .. Len(reqs) : reqs[i].saves => Saved(reqs[i], row, cache, reqs)

\* The page shows the odds of the rows of which nobody has anything left to tell, and
\* their statuses, unless it is behind.
ShowsOdds(rows)   == \A e \in DOMAIN rows : gone[e]["odds"] = row[e].odds => rows[e].odds = row[e].odds
ShowsStatus(rows) == \A e \in DOMAIN rows : rows[e].status = row[e].status
CurrentInv ==
    /\ "odds" \notin behind => ShowsOdds(events) /\ ShowsOdds(cards)
    /\ "status" \notin behind => ShowsStatus(events) /\ ShowsStatus(cards)

\* On a detail page the newest request is for its event, or has been answered.
Asking(r) == r.step # "done" /\ r.owner = "page" /\ ~r.saves
RouteInv ==
    route \in DetailKeys =>
        \/ \E n \in 1 .. Len(reqs) :
              /\ Asking(reqs[n]) /\ reqs[n].key = route
              /\ \A i \in 1 .. Len(reqs) : Asking(reqs[i]) => i <= n
        \/ /\ "event" \in behind \/ DOMAIN cards \subseteq {route.event}
           /\ \A i \in 1 .. Len(reqs) : Asking(reqs[i]) => i < holds

PagesInv ==
    PagesTypeOK /\ RoomLeft /\ AnswersFit /\ OddsAscend /\ Told /\ SaveInv /\ CurrentInv /\ RouteInv

\* An answer keeps its form when its age changes.
LEMMA AnswerForm ==
  /\ \A a \in Answer : /\ a.rows \in Held /\ a.raced \in BOOLEAN
                       /\ a.asOf["odds"] \in Odds /\ a.asOf["status"] \in Odds
  /\ \A a \in Answer, b \in BOOLEAN :
       LET c == [a EXCEPT !.raced = b] IN
       c \in Answer /\ c.rows = a.rows /\ c.asOf = a.asOf /\ c.raced = b
  /\ \A a \in Answer, n \in Odds :
       LET c == [a EXCEPT !.asOf["odds"] = n] IN
       /\ c \in Answer /\ c.rows = a.rows /\ c.raced = a.raced
       /\ c.asOf["odds"] = n /\ c.asOf["status"] = a.asOf["status"]
<1>1. \A a \in Answer : /\ a.rows \in Held /\ a.raced \in BOOLEAN /\ a.asOf \in [Kinds -> Odds]
                        /\ a.asOf["odds"] \in Odds /\ a.asOf["status"] \in Odds
  BY DEF Answer, Kinds
<1>2. \A a \in Answer, b \in BOOLEAN :
        LET c == [a EXCEPT !.raced = b] IN
        c \in Answer /\ c.rows = a.rows /\ c.asOf = a.asOf /\ c.raced = b
  BY DEF Answer
<1>3. ASSUME NEW a \in Answer, NEW n \in Odds
      PROVE  LET c == [a EXCEPT !.asOf["odds"] = n] IN
             /\ c \in Answer /\ c.rows = a.rows /\ c.raced = a.raced
             /\ c.asOf["odds"] = n /\ c.asOf["status"] = a.asOf["status"]
  <2> DEFINE s == [a.asOf EXCEPT !["odds"] = n]
  <2>1. s \in [Kinds -> Odds] /\ s["odds"] = n /\ s["status"] = a.asOf["status"]
    BY <1>1 DEF Kinds
  <2>2. [a EXCEPT !.asOf["odds"] = n] = [a EXCEPT !.asOf = s]
    BY DEF Answer
  <2> HIDE DEF s
  <2>3. LET c == [a EXCEPT !.asOf = s] IN c \in Answer /\ c.rows = a.rows /\ c.raced = a.raced /\ c.asOf = s
    BY <2>1 DEF Answer
  <2> QED BY <2>1, <2>2, <2>3
<1> QED BY <1>1, <1>2, <1>3

\* No more edits wait: there is room left.
LEMMA RoomKept ==
  ASSUME reqs \in Seq(Request), reqs' \in Seq(Request), RoomLeft, writes \in Nat, writes' = writes,
         \A i \in 1 .. Len(reqs') : reqs'[i].step = "save" => i \in Waiting
  PROVE  RoomLeft'
<1>1. Waiting' \in SUBSET Waiting
  BY DEF Waiting
<1>2. Waiting \in SUBSET (1 .. Len(reqs)) /\ Len(reqs) \in Nat
  BY LenProperties DEF Waiting
<1>3. IsFiniteSet(Waiting) /\ Cardinality(Waiting) \in Nat
  <2>1. IsFiniteSet(1 .. Len(reqs))
    BY <1>2, FS_Interval
  <2>2. QED BY <1>2, <2>1, FS_Subset, FS_CardinalityType
<1>4. Cardinality(Waiting') <= Cardinality(Waiting) /\ Cardinality(Waiting') \in Nat
  BY <1>1, <1>3, FS_Subset, FS_CardinalityType
<1>5. QED BY <1>3, <1>4, EventPagesAssumption DEF RoomLeft

\* A step of the server that changes one request.
LEMMA OneRequest ==
  ASSUME reqs \in Seq(Request), NEW i \in 1 .. Len(reqs), NEW q \in Request,
         reqs' = [reqs EXCEPT ![i] = q]
  PROVE  /\ reqs' \in Seq(Request) /\ Len(reqs') = Len(reqs) /\ reqs[i] \in Request
         /\ reqs'[i] = q /\ \A j \in 1 .. Len(reqs) : j # i => reqs'[j] = reqs[j]
         /\ reqs[i] \in Request
  BY ExceptSeq, ElementOfSeq

\* A request keeps its form when its step or answer changes.
LEMMA RequestChanges ==
  ASSUME NEW r \in Request
  PROVE  /\ \A s \in Steps : [r EXCEPT !.step = s] \in Request
         /\ \A s \in Steps, a \in Answer \cup {None} : [r EXCEPT !.step = s, !.answer = a] \in Request
         /\ \A a \in Answer \cup {None} : [r EXCEPT !.answer = a] \in Request
         /\ \A s \in Steps, n \in Odds : [r EXCEPT !.step = s, !.wrote = n] \in Request
         /\ [r EXCEPT !.owner = "left"] \in Request
<1>1. r = [key |-> r.key, saves |-> r.saves, step |-> r.step, answer |-> r.answer,
           owner |-> r.owner, wrote |-> r.wrote]
      /\ r.key \in Keys /\ r.saves \in BOOLEAN /\ r.step \in Steps /\ r.answer \in Answer \cup {None}
      /\ r.owner \in {"page", "left"} /\ r.wrote \in Odds
  BY DEF Request
<1>2. QED BY <1>1 DEF Request

\* A new request, and one the page has dealt with.
LEMMA DoneRequest ==
  /\ Done \in Request /\ Done.step = "done" /\ ~Done.saves /\ Done.key = Home
  /\ \A k \in Keys, o \in {"page", "left"}, b \in BOOLEAN :
        LET r == NewRequest(k, b, o) IN
        /\ r \in Request /\ r.key = k /\ r.saves = b /\ r.owner = o /\ r.answer = None
        /\ r.step = IF b THEN "save" ELSE "sent"
<1>1. 0 \in Odds
  BY EventPagesAssumption DEF Odds
<1>2. \A k \in Keys, o \in {"page", "left"}, b \in BOOLEAN :
        LET r == NewRequest(k, b, o) IN
        /\ r \in Request /\ r.key = k /\ r.saves = b /\ r.owner = o /\ r.answer = None
        /\ r.step = IF b THEN "save" ELSE "sent"
  BY <1>1 DEF NewRequest, Request, Steps
<1>3. NewRequest(Home, FALSE, "left") \in Request /\ Home \in Keys
  BY <1>2, PageKeys
<1>4. Done = [NewRequest(Home, FALSE, "left") EXCEPT !.step = "done"]
  BY DEF Done
<1>5. Done \in Request
  BY <1>3, <1>4, RequestChanges DEF Steps
<1>6. Done.step = "done" /\ ~Done.saves /\ Done.key = Home
  BY <1>4 DEF NewRequest
<1>7. QED BY <1>2, <1>5, <1>6

\* What a step of the system makes of a request.
SameEdit(q, r) == q.key = r.key /\ q.saves = r.saves /\ q.wrote = r.wrote
Marked(q, r) ==
    /\ r.step = "read" /\ q.answer \in Answer
    /\ q.answer.rows = r.answer.rows /\ q.answer.asOf = r.answer.asOf /\ q.answer.raced
Stays(q, r) ==
    /\ SameEdit(q, r) /\ q.step = r.step
    /\ q.answer = r.answer \/ Marked(q, r)
    /\ q.owner = r.owner \/ (q.owner = "left" /\ r.step # "answered")
Looks(q, r) ==
    /\ SameEdit(q, r) /\ q.owner = r.owner
    /\ \/ r.step = "sent" /\ q.step = "missed"
       \/ /\ r.step = "sent" /\ q.step = "answered" /\ q.owner = "page"
          /\ cache[r.key] # None /\ q.answer = Cached(r.key)
       \/ r.step = "missed" /\ q.step = "read" /\ q.answer = Read(r.key)
       \/ /\ r.step = "read" /\ q.step = "answered" /\ q.owner = "page"
          /\ q.answer \in Answer /\ q.answer.rows = r.answer.rows /\ q.answer.asOf = r.answer.asOf

\* The cache is emptied of a key, and who has read its rows is marked.
Clears(k) ==
    /\ cache'[k] = None
    /\ \A j \in 1 .. Len(reqs') : reqs'[j].key = k /\ reqs'[j].step = "read" => reqs'[j].answer.raced
Edits(q, r) ==
    /\ q.key = r.key /\ q.saves = r.saves /\ q.owner = r.owner
    /\ \/ r.step = "save" /\ q.step = "written" /\ q.wrote = row'[r.key.event].odds
       \/ r.step = "written" /\ q.step = "sent" /\ q.wrote = r.wrote /\ Clears(r.key)
Moves(q, r) == (q = Done /\ r.step # "written") \/ Stays(q, r) \/ Looks(q, r) \/ Edits(q, r)

\* What a step makes of the row of an event: new odds have a new number, and are still to
\* bust the cache; of a new status nobody will be told.
Ages(e) ==
    /\ row[e].odds <= row'[e].odds
    /\ row'[e].odds = row[e].odds \/ (row'[e].odds > writes /\ e \in Dirty')
    /\ \/ row'[e].status = row[e].status /\ gone'[e]["status"] = gone[e]["status"]
       \/ gone'[e]["status"] > writes

\* What the rows answer is of the odds they have.
LEMMA ReadFits ==
  ASSUME row \in [Events -> Row], writes \in Odds, \A e \in Events : row[e].odds <= writes, NEW k \in Keys
  PROVE  /\ Fits(k, Read(k), row, gone, writes) /\ Read(k) \in Answer
         /\ k \in DetailKeys => Read(k).rows[k.event].odds = row[k.event].odds
<1> DEFINE R == IF k.page = "detail" THEN [e \in {k.event} |-> row[e]]
                ELSE [e \in {d \in Events : row[d].status = k.filter} |-> row[e]]
<1>1. R \in Held /\ DOMAIN R \subseteq Events /\ \A e \in DOMAIN R : R[e] = row[e]
  <2>1. CASE k \in DetailKeys
    <3>1. k.event \in Events /\ k.page = "detail" /\ R = [e \in {k.event} |-> row[e]]
      BY <2>1, PageKeys
    <3>2. R \in [{k.event} -> Row] /\ {k.event} \in SUBSET Events
      BY <3>1
    <3> QED BY <3>1, <3>2, HeldRows
  <2>2. CASE k \notin DetailKeys
    <3> DEFINE S == {d \in Events : row[d].status = k.filter}
    <3>1. R = [e \in S |-> row[e]] /\ S \in SUBSET Events
      BY <2>2, PageKeys
    <3> HIDE DEF S, R
    <3>2. R \in [S -> Row]
      BY <3>1
    <3> QED BY <3>1, <3>2, HeldRows
  <2> QED BY <2>1, <2>2
<1>2. k \in DetailKeys => DOMAIN R = {k.event} /\ k.event \in Events
  BY PageKeys
<1>3. Read(k) = [rows |-> R, asOf |-> [kind \in Kinds |-> writes], raced |-> FALSE]
  BY DEF Read
<1> HIDE DEF R
<1>4. Read(k) \in Answer /\ Read(k).rows = R /\ \A kind \in Kinds : Read(k).asOf[kind] = writes
  BY <1>1, <1>3 DEF Answer
<1>5. \A e \in Events : row[e].odds \in Nat
  BY DEF Row, Odds
<1>6. writes \in Nat
  BY EventPagesAssumption DEF Odds
<1>7. \A kind \in Kinds : Read(k).asOf[kind] <= writes
  BY <1>4, <1>6
<1>8. \A e \in DOMAIN R : /\ R[e].odds <= row[e].odds /\ R[e].odds = row[e].odds
                          /\ R[e].status = row[e].status
  BY <1>1, <1>5
<1> QED BY <1>1, <1>2, <1>4, <1>7, <1>8 DEF Fits

\* An answer goes on fitting: its age says which changes it takes in.
LEMMA FitsKept ==
  ASSUME row \in [Events -> Row], row' \in [Events -> Row], writes \in Nat, writes' \in Nat, writes <= writes',
         gone \in [Events -> [Kinds -> Odds]], gone' \in [Events -> [Kinds -> Odds]],
         \A e \in Events : Ages(e), NEW k \in Keys, NEW a, Fits(k, a, row, gone, writes)
  PROVE  Fits(k, a, row', gone', writes')
<1>1. a \in Answer /\ a.rows \in Held /\ a.asOf["odds"] \in Nat /\ a.asOf["status"] \in Nat
  BY AnswerForm DEF Fits, Odds
<1>2. \A kind \in Kinds : a.asOf[kind] <= writes /\ a.asOf[kind] \in Nat
  BY <1>1 DEF Fits, Kinds
<1>3. \A kind \in Kinds : a.asOf[kind] <= writes'
  BY <1>2
<1>4. ASSUME NEW e \in DOMAIN a.rows
      PROVE  /\ a.rows[e].odds <= row'[e].odds
             /\ row'[e].odds <= a.asOf["odds"] => a.rows[e].odds = row'[e].odds
             /\ gone'[e]["status"] <= a.asOf["status"] => a.rows[e].status = row'[e].status
  <2>1. e \in Events /\ a.rows[e] \in Row
    BY <1>1, HeldRows
  <2>2. row[e].odds \in Nat /\ row'[e].odds \in Nat /\ a.rows[e].odds \in Nat /\ Ages(e)
    BY <2>1 DEF Row, Odds
  <2>3. gone[e]["status"] \in Nat /\ gone'[e]["status"] \in Nat
    BY <2>1 DEF Odds, Kinds
  <2>4. a.asOf["odds"] <= writes /\ a.asOf["status"] <= writes
    BY <1>2 DEF Kinds
  <2>5. /\ a.rows[e].odds <= row[e].odds
        /\ row[e].odds <= a.asOf["odds"] => a.rows[e].odds = row[e].odds
        /\ gone[e]["status"] <= a.asOf["status"] => a.rows[e].status = row[e].status
    BY DEF Fits
  <2>6. a.rows[e].odds <= row'[e].odds
    BY <2>2, <2>5 DEF Ages
  <2>7. row'[e].odds <= a.asOf["odds"] => a.rows[e].odds = row'[e].odds
    BY <1>1, <2>2, <2>4, <2>5 DEF Ages
  <2>8. gone'[e]["status"] <= a.asOf["status"] => a.rows[e].status = row'[e].status
    BY <1>1, <2>2, <2>3, <2>4, <2>5 DEF Ages
  <2> QED BY <2>6, <2>7, <2>8
<1> QED BY <1>3, <1>4 DEF Fits

\* So does what the cache answers: a detail it would still be busted of has the row's odds.
LEMMA CachedFits ==
  ASSUME writes \in Odds, row \in [Events -> Row], NEW k \in Keys, cache[k] # None,
         Fits(k, cache[k], row, gone, writes), Prompt(k, cache[k], row, Dirty)
  PROVE  /\ Fits(k, Cached(k), row, gone, writes) /\ Cached(k) \in Answer
         /\ Cached(k).rows = cache[k].rows /\ Cached(k).raced = cache[k].raced
<1>1. cache[k] \in Answer
  BY DEF Fits
<1>2. CASE k.page = "detail" /\ ~cache[k].raced /\ ~Unbusted(k.event)
  <2>1. k \in DetailKeys /\ k.event \in Events /\ k.event \notin Dirty
    BY <1>2, PageKeys DEF Dirty
  <2>2. cache[k].rows[k.event].odds = row[k.event].odds /\ DOMAIN cache[k].rows = {k.event}
    BY <1>2, <2>1 DEF Prompt, Fits
  <2>3. Cached(k) = [cache[k] EXCEPT !.asOf["odds"] = writes]
    BY <1>2 DEF Cached
  <2>4. /\ Cached(k) \in Answer /\ Cached(k).rows = cache[k].rows /\ Cached(k).raced = cache[k].raced
        /\ Cached(k).asOf["odds"] = writes /\ Cached(k).asOf["status"] = cache[k].asOf["status"]
    BY <1>1, <2>3, AnswerForm
  <2>5. \A kind \in Kinds : Cached(k).asOf[kind] <= writes
    BY <2>4, EventPagesAssumption DEF Kinds, Fits, Odds
  <2> QED BY <2>1, <2>2, <2>4, <2>5 DEF Fits
<1>3. CASE ~(k.page = "detail" /\ ~cache[k].raced /\ ~Unbusted(k.event))
  BY <1>1, <1>3 DEF Cached
<1> QED BY <1>2, <1>3

\* Steps that make such changes, and fill the cache with what was read or empty it, keep
\* what is said of answers and of edits.
LEMMA RequestsKeep ==
  ASSUME PagesTypeOK, PagesTypeOK', AnswersFit, SaveInv, \A e \in Events : row[e].odds <= writes,
         Len(reqs) <= Len(reqs'), writes <= writes',
         \A j \in 1 .. Len(reqs) : Moves(reqs'[j], reqs[j]),
         \A j \in Len(reqs) + 1 .. Len(reqs') :
            \/ reqs'[j].step = "sent" /\ ~reqs'[j].saves
            \/ reqs'[j].step = "save" /\ reqs'[j].saves /\ reqs'[j].key \in DetailKeys,
         \A e \in Events : Ages(e),
         \A e \in Dirty : e \in Dirty' \/ Clears(Detail(e)),
         \A k \in Keys : \/ cache'[k] = None \/ cache'[k] = cache[k]
                         \/ \E j \in 1 .. Len(reqs) : /\ reqs[j].key = k /\ reqs[j].step = "read"
                                                      /\ cache'[k] = reqs[j].answer
  PROVE  AnswersFit' /\ SaveInv'
<1>1. /\ reqs \in Seq(Request) /\ reqs' \in Seq(Request)
      /\ Len(reqs) \in Nat /\ Len(reqs') \in Nat
      /\ row \in [Events -> Row] /\ row' \in [Events -> Row]
      /\ gone \in [Events -> [Kinds -> Odds]] /\ gone' \in [Events -> [Kinds -> Odds]]
      /\ writes \in Odds /\ writes \in Nat /\ writes' \in Nat
      /\ \A k \in Keys : cache[k] \in Answer \cup {None}
  BY LenProperties, EventPagesAssumption DEF PagesTypeOK, Odds
<1>2. \A j \in 1 .. Len(reqs) : reqs[j] \in Request /\ reqs[j].key \in Keys
  <2>1. \A j \in 1 .. Len(reqs) : reqs[j] \in Request
    BY <1>1, ElementOfSeq
  <2>2. \A r \in Request : r.key \in Keys
    BY DEF Request
  <2>3. QED BY <2>1, <2>2
<1>3. \A k \in Keys : \A a : Fits(k, a, row, gone, writes) => Fits(k, a, row', gone', writes')
  BY <1>1, FitsKept
<1>4. \A k \in Keys : cache[k] # None =>
         Fits(k, cache[k], row, gone, writes) /\ Prompt(k, cache[k], row, Dirty)
  BY DEF AnswersFit
<1>5. \A j \in 1 .. Len(reqs) : RequestFits(reqs[j], row, gone, writes, Dirty)
  BY DEF AnswersFit
<1>6. \A j \in 1 .. Len(reqs) : reqs[j].step \in {"read", "answered"} =>
          Fits(reqs[j].key, reqs[j].answer, row, gone, writes) /\ reqs[j].answer \in Answer
  BY <1>5 DEF RequestFits, Fits
<1>7. \A e \in Events : row[e].odds \in Nat /\ row'[e].odds \in Nat /\ row[e].odds <= row'[e].odds
                        /\ (row'[e].odds = row[e].odds \/ e \in Dirty')
  BY <1>1, EventPagesAssumption DEF Row, Odds, Ages
<1>8. \A k \in DetailKeys : k \in Keys /\ k.event \in Events /\ k = Detail(k.event)
  BY PageKeys
<1>9. ASSUME NEW k \in Keys, NEW a, Prompt(k, a, row, Dirty), ~Clears(k) \/ a.raced
      PROVE  Prompt(k, a, row', Dirty')
  BY <1>7, <1>8, <1>9 DEF Prompt
<1>10. ASSUME NEW k \in Keys, NEW a, NEW b, Fits(k, a, row, gone, writes),
              b \in Answer, b.rows = a.rows, b.asOf = a.asOf
       PROVE  Fits(k, b, row, gone, writes)
  BY <1>10 DEF Fits
<1>11. ASSUME NEW j \in 1 .. Len(reqs), reqs'[j].step = "read", Prompt(reqs[j].key, reqs[j].answer, row, Dirty),
              reqs'[j].key = reqs[j].key,
              reqs'[j].answer = reqs[j].answer \/ reqs'[j].answer.raced
       PROVE  Prompt(reqs[j].key, reqs'[j].answer, row', Dirty')
  <2>1. CASE reqs'[j].answer.raced
    BY <2>1 DEF Prompt
  <2>2. CASE ~reqs'[j].answer.raced
    <3>1. ~Clears(reqs[j].key) /\ reqs'[j].answer = reqs[j].answer
      BY <1>1, <1>11, <2>2 DEF Clears
    <3> QED BY <1>2, <1>9, <1>11, <3>1
  <2> QED BY <2>1, <2>2
<1>12. \A k \in Keys : Fits(k, Read(k), row, gone, writes) /\ Read(k) \in Answer
                       /\ (k \in DetailKeys => Read(k).rows[k.event].odds = row[k.event].odds)
  BY <1>1, ReadFits
<1>13. \A k \in Keys : cache[k] # None =>
          /\ Fits(k, Cached(k), row, gone, writes) /\ Cached(k) \in Answer
          /\ Cached(k).rows = cache[k].rows /\ Cached(k).raced = cache[k].raced
  BY <1>1, <1>4, CachedFits
<1>14. ASSUME NEW j \in 1 .. Len(reqs), NEW r, NEW q, r = reqs[j], q = reqs'[j]
       PROVE  RequestFits(q, row', gone', writes', Dirty')
  <2>0. /\ r \in Request /\ r.key \in Keys /\ RequestFits(r, row, gone, writes, Dirty)
        /\ r.step \in {"read", "answered"} =>
             Fits(r.key, r.answer, row, gone, writes) /\ r.answer \in Answer
    BY <1>2, <1>5, <1>6, <1>14
  <2>1. CASE q = Done
    BY <2>1, DoneRequest DEF RequestFits
  <2>2. CASE Stays(q, r)
    <3>1. q.step \in {"read", "answered"} => Fits(q.key, q.answer, row', gone', writes')
      BY <1>3, <1>10, <2>0, <2>2 DEF Stays, SameEdit, Marked
    <3>2. q.step = "read" => Prompt(q.key, q.answer, row', Dirty')
      BY <1>11, <1>14, <2>0, <2>2 DEF RequestFits, Stays, SameEdit, Marked
    <3> QED BY <2>0, <2>2, <3>1, <3>2 DEF RequestFits, Stays, SameEdit
  <2>3. CASE Looks(q, r)
    <3>1. CASE r.step = "sent" /\ q.step = "missed"
      BY <2>0, <2>3, <3>1 DEF RequestFits, Looks, SameEdit
    <3>2. CASE r.step = "sent" /\ q.step = "answered"
      <4>1. Fits(q.key, q.answer, row', gone', writes') /\ q.owner = "page"
        BY <1>3, <1>13, <2>0, <2>3, <3>2 DEF Looks, SameEdit
      <4> QED BY <2>0, <2>3, <3>2, <4>1 DEF RequestFits, Looks, SameEdit
    <3>3. CASE r.step = "missed" /\ q.step = "read"
      <4>1. q.key = r.key /\ q.answer = Read(r.key)
        BY <2>3, <3>3 DEF Looks, SameEdit
      <4>2. Fits(q.key, q.answer, row', gone', writes')
        BY <1>3, <1>12, <2>0, <4>1
      <4>3. Prompt(q.key, q.answer, row', Dirty')
        BY <1>7, <1>8, <1>12, <2>0, <4>1 DEF Prompt
      <4> QED BY <2>0, <2>3, <3>3, <4>2, <4>3 DEF RequestFits, Looks, SameEdit
    <3>4. CASE r.step = "read" /\ q.step = "answered"
      <4>1. Fits(q.key, q.answer, row', gone', writes') /\ q.owner = "page"
        BY <1>3, <1>10, <2>0, <2>3, <3>4 DEF Looks, SameEdit
      <4> QED BY <2>0, <2>3, <3>4, <4>1 DEF RequestFits, Looks, SameEdit
    <3> QED BY <2>3, <3>1, <3>2, <3>3, <3>4 DEF Looks
  <2>4. CASE Edits(q, r)
    BY <2>0, <2>4 DEF RequestFits, Edits
  <2>5. Moves(q, r)
    BY <1>14
  <2> QED BY <2>1, <2>2, <2>3, <2>4, <2>5 DEF Moves
<1>15. AnswersFit'
  <2>1. ASSUME NEW k \in Keys, cache'[k] # None
        PROVE  Fits(k, cache'[k], row', gone', writes') /\ Prompt(k, cache'[k], row', Dirty')
    <3>1. ~Clears(k)
      BY <2>1 DEF Clears
    <3>2. CASE cache'[k] = cache[k]
      BY <1>3, <1>4, <1>9, <2>1, <3>1, <3>2
    <3>3. ASSUME NEW j \in 1 .. Len(reqs), reqs[j].key = k, reqs[j].step = "read", cache'[k] = reqs[j].answer
          PROVE  Fits(k, cache'[k], row', gone', writes') /\ Prompt(k, cache'[k], row', Dirty')
      <4>1. Fits(k, reqs[j].answer, row, gone, writes) /\ Prompt(k, reqs[j].answer, row, Dirty)
        BY <1>5, <3>3 DEF RequestFits
      <4> QED BY <1>3, <1>9, <3>1, <3>3, <4>1
    <3> QED BY <2>1, <3>2, <3>3
  <2>2. \A j \in Len(reqs) + 1 .. Len(reqs') : RequestFits(reqs'[j], row', gone', writes', Dirty')
    BY DEF RequestFits
  <2>3. \A j \in 1 .. Len(reqs') : j \in 1 .. Len(reqs) \/ j \in Len(reqs) + 1 .. Len(reqs')
    BY <1>1
  <2>4. QED BY <1>14, <2>1, <2>2, <2>3 DEF AnswersFit
<1>16. \A j \in 1 .. Len(reqs) : reqs[j].wrote \in Nat
  BY <1>2, EventPagesAssumption DEF Request, Odds
<1>17. ASSUME NEW k \in DetailKeys, NEW n \in Nat, n <= row[k.event].odds, ReadersMeet(reqs, k, n) \/ Clears(k)
       PROVE  ReadersMeet(reqs', k, n)
  <2> SUFFICES ASSUME NEW j \in 1 .. Len(reqs'), reqs'[j].key = k, reqs'[j].step = "read",
                      ~reqs'[j].answer.raced
               PROVE  reqs'[j].answer.rows[k.event].odds >= n
    BY DEF ReadersMeet
  <2>1. j \in 1 .. Len(reqs) /\ ~Clears(k) /\ ReadersMeet(reqs, k, n)
    BY <1>1, <1>17 DEF Clears
  <2>2. CASE Stays(reqs'[j], reqs[j])
    BY <2>1, <2>2 DEF Stays, SameEdit, ReadersMeet, Marked
  <2>3. CASE Looks(reqs'[j], reqs[j])
    <3>1. reqs'[j].answer = Read(k)
      BY <2>3 DEF Looks, SameEdit
    <3>2. QED BY <1>7, <1>8, <1>12, <1>17, <3>1
  <2>4. Moves(reqs'[j], reqs[j])
    BY <2>1
  <2>5. QED BY <2>2, <2>3, <2>4, DoneRequest DEF Moves, Edits
<1>18. ASSUME NEW k \in DetailKeys, NEW n \in Nat,
              Clears(k) \/ (CacheMeets(cache, k, n) /\ ReadersMeet(reqs, k, n))
       PROVE  CacheMeets(cache', k, n)
  BY <1>8, <1>18 DEF CacheMeets, ReadersMeet, Clears
<1>19. ASSUME NEW j \in 1 .. Len(reqs), NEW r, NEW q, NEW k,
              r = reqs[j], q = reqs'[j], k = r.key, q.saves
       PROVE  Saved(q, row', cache', reqs')
  <2>1. Stays(q, r) \/ Looks(q, r) \/ Edits(q, r)
    <3>1. Moves(reqs'[j], reqs[j])
      OBVIOUS
    <3>2. q # Done
      BY <1>19, DoneRequest
    <3>3. QED BY <1>19, <3>1, <3>2 DEF Moves
  <2>2. r.saves /\ q.key = k
    BY <1>19, <2>1 DEF Stays, Looks, Edits, SameEdit
  <2>3. k \in DetailKeys /\ k \in Keys /\ k.event \in Events /\ r.wrote \in Nat
        /\ RequestFits(r, row, gone, writes, Dirty)
    <3>1. RequestFits(r, row, gone, writes, Dirty) /\ r.wrote \in Nat
      BY <1>5, <1>16, <1>19
    <3>2. QED BY <1>8, <1>19, <2>2, <3>1 DEF RequestFits
  <2>4. Saved(r, row, cache, reqs)
    BY <1>19, <2>2 DEF SaveInv
  <2>5. /\ r.step \in {"written", "sent", "missed"} => r.wrote <= row[k.event].odds
        /\ r.step \in {"sent", "missed"} => CacheMeets(cache, k, r.wrote) /\ ReadersMeet(reqs, k, r.wrote)
        /\ r.step = "read" => r.answer.rows[k.event].odds >= r.wrote
        /\ r.step = "answered" /\ ~r.answer.raced => r.answer.rows[k.event].odds >= r.wrote
    BY <1>19, <2>4 DEF Saved
  <2>6. SUFFICES
        /\ q.step \in {"written", "sent", "missed"} => q.wrote <= row'[k.event].odds
        /\ q.step \in {"sent", "missed"} => CacheMeets(cache', k, q.wrote) /\ ReadersMeet(reqs', k, q.wrote)
        /\ q.step = "read" => q.answer.rows[k.event].odds >= q.wrote
        /\ q.step = "answered" /\ ~q.answer.raced => q.answer.rows[k.event].odds >= q.wrote
    BY <2>2 DEF Saved
  <2>7. r.wrote <= row[k.event].odds => r.wrote <= row'[k.event].odds
    BY <1>7, <2>3
  <2>8. CASE Stays(q, r)
    <3>1. q.step = r.step /\ q.wrote = r.wrote /\ (q.answer = r.answer \/ Marked(q, r))
      BY <2>8 DEF Stays, SameEdit
    <3>2. r.step = "read" => q.answer.rows = r.answer.rows
      BY <3>1 DEF Marked
    <3>3. r.step = "answered" => q.answer = r.answer
      BY <3>1 DEF Marked
    <3>4. QED BY <1>17, <1>18, <2>3, <2>5, <2>7, <3>1, <3>2, <3>3
  <2>9. CASE Looks(q, r)
    <3>1. q.wrote = r.wrote
      BY <2>9 DEF Looks, SameEdit
    <3>2. row[k.event].odds \in Nat
      BY <1>7, <2>3
    <3>3. CASE r.step = "sent" /\ q.step = "missed"
      BY <1>17, <1>18, <2>3, <2>5, <2>7, <3>1, <3>3
    <3>4. CASE r.step = "sent" /\ q.step = "answered" /\ cache[k] # None /\ q.answer = Cached(k)
      <4>1. Cached(k).rows = cache[k].rows /\ Cached(k).raced = cache[k].raced
        BY <1>13, <2>3, <3>4
      <4> QED BY <2>3, <2>5, <3>1, <3>4, <4>1 DEF CacheMeets
    <3>5. CASE r.step = "missed" /\ q.step = "read" /\ q.answer = Read(k)
      <4>1. Read(k).rows[k.event].odds = row[k.event].odds
        BY <1>12, <2>3
      <4> QED BY <2>3, <2>5, <3>1, <3>2, <3>5, <4>1
    <3>6. CASE r.step = "read" /\ q.step = "answered" /\ q.answer.rows = r.answer.rows
      BY <2>3, <2>5, <3>1, <3>6
    <3>7. QED BY <1>19, <2>9, <3>3, <3>4, <3>5, <3>6 DEF Looks
  <2>10. CASE r.step = "save" /\ q.step = "written" /\ q.wrote = row'[k.event].odds
    BY <1>7, <2>3, <2>10
  <2>11. CASE r.step = "written" /\ q.step = "sent" /\ q.wrote = r.wrote /\ Clears(k)
    BY <1>17, <1>18, <2>3, <2>5, <2>7, <2>11
  <2>12. QED BY <1>19, <2>1, <2>8, <2>9, <2>10, <2>11 DEF Edits
<1>20. SaveInv'
  <2>1. \A j \in Len(reqs) + 1 .. Len(reqs') : reqs'[j].saves => Saved(reqs'[j], row', cache', reqs')
    BY DEF Saved
  <2>2. \A j \in 1 .. Len(reqs') : j \in 1 .. Len(reqs) \/ j \in Len(reqs) + 1 .. Len(reqs')
    BY <1>1
  <2>3. QED BY <1>19, <2>1, <2>2 DEF SaveInv
<1> QED BY <1>15, <1>20

\* The parts of the invariant, and what its types say of the requests.
LEMMA PagesParts ==
  ASSUME PagesInv
  PROVE  /\ PagesTypeOK /\ RoomLeft /\ AnswersFit /\ OddsAscend /\ Told /\ SaveInv /\ CurrentInv /\ RouteInv
         /\ reqs \in Seq(Request) /\ Len(reqs) \in Nat
         /\ \A j \in 1 .. Len(reqs) : reqs[j] \in Request /\ RequestFits(reqs[j], row, gone, writes, Dirty)
         /\ \A j \in InFlight : j \in 1 .. Len(reqs)
         /\ writes \in Nat
         /\ \A e \in Events : /\ row[e].odds \in Nat /\ row[e].odds <= writes
                              /\ gone[e]["odds"] \in Nat /\ gone[e]["odds"] <= row[e].odds
<1>1. PagesTypeOK /\ RoomLeft /\ AnswersFit /\ OddsAscend /\ Told /\ SaveInv /\ CurrentInv /\ RouteInv
  BY DEF PagesInv
<1>2. reqs \in Seq(Request)
  BY <1>1 DEF PagesTypeOK
<1>3. Len(reqs) \in Nat /\ \A j \in 1 .. Len(reqs) : reqs[j] \in Request
  BY <1>2, LenProperties, ElementOfSeq
<1>4. \A j \in 1 .. Len(reqs) : RequestFits(reqs[j], row, gone, writes, Dirty)
  BY <1>1 DEF AnswersFit
<1>5. \A j \in InFlight : j \in 1 .. Len(reqs)
  BY DEF InFlight
<1>6. row \in [Events -> Row] /\ gone \in [Events -> [Kinds -> Odds]] /\ writes \in Odds
  BY <1>1 DEF PagesTypeOK
<1>7. \A e \in Events : row[e].odds \in Nat /\ gone[e]["odds"] \in Nat
  BY <1>6 DEF Row, Kinds, Odds
<1>8. writes \in Nat
  BY <1>6, EventPagesAssumption DEF Odds
<1>9. QED BY <1>1, <1>2, <1>3, <1>4, <1>5, <1>7, <1>8 DEF OddsAscend

\* What is to be told, and what is to be busted, stays while no change moves.
LEMMA ToldStays ==
  ASSUME Told, Len(reqs) \in Nat, Len(reqs') \in Nat, Len(reqs) <= Len(reqs'), UNCHANGED <<job, wire>>,
         \A e \in Events : row'[e].odds = row[e].odds /\ gone'[e]["odds"] = gone[e]["odds"],
         \A j \in 1 .. Len(reqs) : reqs[j].step = "written" =>
            reqs'[j].step = "written" /\ reqs'[j].key = reqs[j].key /\ reqs'[j].wrote = reqs[j].wrote
  PROVE  Told' /\ Dirty \subseteq Dirty'
<1>1. \A e, n : Telling(e, n) => Telling(e, n)'
  BY DEF Telling
<1>2. Told'
  BY <1>1 DEF Told, Telling
<1>3. Dirty \subseteq Dirty'
  BY DEF Dirty, Unbusted, InFlight
<1> QED BY <1>2, <1>3

\* A step that moves no change keeps all that is said of rows and requests.
LEMMA PlainStep ==
  ASSUME PagesInv, PagesTypeOK', UNCHANGED <<row, writes, gone, job, wire>>, Len(reqs) <= Len(reqs'),
         \A j \in 1 .. Len(reqs) :
            Moves(reqs'[j], reqs[j]) /\ (reqs[j].step = "written" => reqs'[j].step = "written"),
         \A j \in Len(reqs) + 1 .. Len(reqs') :
            \/ reqs'[j].step = "sent" /\ ~reqs'[j].saves
            \/ reqs'[j].step = "save" /\ reqs'[j].saves /\ reqs'[j].key \in DetailKeys,
         \A k \in Keys : \/ cache'[k] = None \/ cache'[k] = cache[k]
                         \/ \E j \in 1 .. Len(reqs) : /\ reqs[j].key = k /\ reqs[j].step = "read"
                                                      /\ cache'[k] = reqs[j].answer
  PROVE  AnswersFit' /\ SaveInv' /\ OddsAscend' /\ Told'
<1>1. /\ PagesTypeOK /\ AnswersFit /\ OddsAscend /\ Told /\ SaveInv /\ Len(reqs) \in Nat
      /\ writes \in Nat /\ \A e \in Events : row[e].odds \in Nat /\ row[e].odds <= writes
  BY PagesParts
<1>2. Len(reqs') \in Nat
  BY LenProperties DEF PagesTypeOK
<1>3. \A j \in 1 .. Len(reqs) : reqs[j].step = "written" =>
            reqs'[j].step = "written" /\ reqs'[j].key = reqs[j].key /\ reqs'[j].wrote = reqs[j].wrote
  BY DEF Moves, Stays, Looks, Edits, SameEdit
<1>4. Told' /\ Dirty \subseteq Dirty'
  BY <1>1, <1>2, <1>3, ToldStays
<1>5. \A e \in Events : Ages(e)
  BY <1>1 DEF Ages
<1>6. AnswersFit' /\ SaveInv'
  BY <1>1, <1>4, <1>5, RequestsKeep
<1>7. OddsAscend'
  BY <1>1 DEF OddsAscend
<1> QED BY <1>4, <1>6, <1>7

\* One request changes, and no row does.
LEMMA ChangedRequest ==
  ASSUME PagesInv, PagesTypeOK', NEW i \in 1 .. Len(reqs), NEW q \in Request,
         reqs' = [reqs EXCEPT ![i] = q], Moves(q, reqs[i]), q.step # "save", reqs[i].step # "written",
         UNCHANGED <<row, writes, gone, job, wire>>,
         \A k \in Keys : \/ cache'[k] = None \/ cache'[k] = cache[k]
                         \/ /\ reqs[i].key = k /\ reqs[i].step = "read"
                            /\ cache'[k] = reqs[i].answer
  PROVE  RoomLeft' /\ AnswersFit' /\ SaveInv' /\ OddsAscend' /\ Told'
<1>1. /\ PagesTypeOK /\ RoomLeft /\ reqs \in Seq(Request) /\ Len(reqs) \in Nat
  BY PagesParts
<1>2. /\ reqs' \in Seq(Request) /\ Len(reqs') = Len(reqs)
      /\ reqs'[i] = q /\ \A j \in 1 .. Len(reqs) : j # i => reqs'[j] = reqs[j]
  BY <1>1, OneRequest
<1>3. RoomLeft'
  <2>1. \A j \in 1 .. Len(reqs') : reqs'[j].step = "save" => j \in Waiting
    BY <1>2 DEF Waiting
  <2>2. writes \in Nat
    BY PagesParts
  <2>3. QED BY <1>1, <1>2, <2>1, <2>2, RoomKept
<1>4. AnswersFit' /\ SaveInv' /\ OddsAscend' /\ Told'
  <2>1. \A j \in 1 .. Len(reqs) :
            Moves(reqs'[j], reqs[j]) /\ (reqs[j].step = "written" => reqs'[j].step = "written")
    <3>1. ASSUME NEW j \in 1 .. Len(reqs), j # i PROVE Moves(reqs'[j], reqs[j]) /\ reqs'[j] = reqs[j]
      <4>1. reqs'[j] = reqs[j]
        BY <1>2, <3>1
      <4>2. QED BY <4>1 DEF Moves, Stays, SameEdit
    <3>2. Moves(reqs'[i], reqs[i])
      BY <1>2
    <3>3. QED BY <3>1, <3>2
  <2>2. Len(reqs) <= Len(reqs') /\ ~\E j : j \in Len(reqs) + 1 .. Len(reqs')
    BY <1>1, <1>2
  <2>3. QED BY <1>1, <2>1, <2>2, PlainStep
<1>5. QED BY <1>3, <1>4

\* The page's route is still asked for, or still answered.
LEMMA RouteKept ==
  ASSUME RouteInv, Len(reqs) \in Nat, Len(reqs') \in Nat, holds \in Nat,
         Len(reqs) <= Len(reqs'), route' = route, holds' = holds,
         \A j \in 1 .. Len(reqs) :
            /\ Asking(reqs'[j]) => Asking(reqs[j])
            /\ Asking(reqs[j]) /\ reqs[j].key = route =>
                 Asking(reqs'[j]) /\ reqs'[j].key = reqs[j].key,
         \A j \in Len(reqs) + 1 .. Len(reqs') : ~Asking(reqs'[j]),
         route \in DetailKeys =>
            \/ "event" \in behind' \/ DOMAIN cards' \subseteq {route.event}
            \/ ("event" \in behind => "event" \in behind') /\ DOMAIN cards' \subseteq DOMAIN cards
  PROVE  RouteInv'
<1> SUFFICES ASSUME route \in DetailKeys
             PROVE  \/ \E n \in 1 .. Len(reqs') :
                         /\ Asking(reqs'[n]) /\ reqs'[n].key = route
                         /\ \A j \in 1 .. Len(reqs') : Asking(reqs'[j]) => j <= n
                    \/ /\ "event" \in behind' \/ DOMAIN cards' \subseteq {route.event}
                       /\ \A j \in 1 .. Len(reqs') : Asking(reqs'[j]) => j < holds
  BY DEF RouteInv, Asking
<1>1. \A j \in 1 .. Len(reqs') : Asking(reqs'[j]) => j \in 1 .. Len(reqs) /\ Asking(reqs[j])
  BY DEF Asking
<1>2. CASE \E n \in 1 .. Len(reqs) :
              /\ Asking(reqs[n]) /\ reqs[n].key = route
              /\ \A j \in 1 .. Len(reqs) : Asking(reqs[j]) => j <= n
  <2>1. PICK n \in 1 .. Len(reqs) :
              /\ Asking(reqs[n]) /\ reqs[n].key = route
              /\ \A j \in 1 .. Len(reqs) : Asking(reqs[j]) => j <= n
    BY <1>2
  <2>2. Asking(reqs'[n]) /\ reqs'[n].key = route /\ n \in 1 .. Len(reqs')
    BY <2>1
  <2>3. QED BY <1>1, <2>1, <2>2
<1>3. CASE /\ "event" \in behind \/ DOMAIN cards \subseteq {route.event}
           /\ \A j \in 1 .. Len(reqs) : Asking(reqs[j]) => j < holds
  BY <1>1, <1>3
<1>4. QED BY <1>2, <1>3 DEF RouteInv

\* A page that asks anew asks for what it is to show.
LEMMA RouteAsked ==
  ASSUME NEW k \in Keys, NEW rs \in Seq(Request), route' = k,
         reqs' = Append(rs, NewRequest(k, FALSE, "page"))
  PROVE  RouteInv'
<1>1. /\ Len(reqs') = Len(rs) + 1 /\ Len(rs) \in Nat
      /\ reqs'[Len(rs) + 1] = NewRequest(k, FALSE, "page")
  <2>1. NewRequest(k, FALSE, "page") \in Request
    BY DoneRequest
  <2>2. QED BY <2>1, AppendProperties, LenProperties
<1>2. Asking(reqs'[Len(rs) + 1]) /\ reqs'[Len(rs) + 1].key = route'
  <2>1. LET r == NewRequest(k, FALSE, "page") IN
        r.key = k /\ ~r.saves /\ r.owner = "page" /\ r.step = "sent"
    BY DEF NewRequest
  <2>2. QED BY <1>1, <2>1 DEF Asking
<1>3. \A i \in 1 .. Len(reqs') : i <= Len(rs) + 1
  BY <1>1
<1>4. Len(rs) + 1 \in 1 .. Len(reqs')
  BY <1>1
<1>5. \E n \in 1 .. Len(reqs') :
              /\ Asking(reqs'[n]) /\ reqs'[n].key = route'
              /\ \A i \in 1 .. Len(reqs') : Asking(reqs'[i]) => i <= n
  BY <1>2, <1>3, <1>4
<1>6. QED BY <1>5 DEF RouteInv, Asking

\* A step of the server for one request: no row changes, and the page sees nothing.
LEMMA ServerStep ==
  ASSUME PagesInv, NEW i \in 1 .. Len(reqs), NEW q \in Request,
         reqs' = [reqs EXCEPT ![i] = q], Moves(q, reqs[i]), q.step # "save", reqs[i].step # "written",
         Asking(q) => Asking(reqs[i]), Asking(reqs[i]) => Asking(q) /\ q.key = reqs[i].key,
         UNCHANGED <<row, writes, gone, job, page, socket, behind, failures>>,
         DOMAIN cache' = DOMAIN cache,
         \A k \in Keys : \/ cache'[k] = None \/ cache'[k] = cache[k]
                         \/ /\ reqs[i].key = k /\ reqs[i].step = "read"
                            /\ cache'[k] = reqs[i].answer
  PROVE  PagesInv'
<1>1. /\ PagesTypeOK /\ AnswersFit /\ CurrentInv /\ RouteInv
      /\ reqs \in Seq(Request) /\ Len(reqs) \in Nat /\ RequestFits(reqs[i], row, gone, writes, Dirty)
  BY PagesParts
<1>2. /\ reqs' \in Seq(Request) /\ Len(reqs') = Len(reqs)
      /\ reqs'[i] = q /\ \A j \in 1 .. Len(reqs) : j # i => reqs'[j] = reqs[j]
  BY <1>1, OneRequest
<1>3. PagesTypeOK'
  <2>1. reqs[i].step = "read" => reqs[i].answer \in Answer
    BY <1>1 DEF RequestFits, Fits
  <2>2. \A k \in Keys : cache'[k] \in Answer \cup {None}
    BY <1>1, <2>1 DEF PagesTypeOK
  <2>3. DOMAIN cache' = Keys
    BY <1>1 DEF PagesTypeOK
  <2>4. QED BY <1>1, <1>2, <2>2, <2>3 DEF PagesTypeOK, page, socket
<1>4. RoomLeft' /\ AnswersFit' /\ SaveInv' /\ OddsAscend' /\ Told'
  BY <1>3, ChangedRequest DEF socket
<1>6. CurrentInv'
  BY <1>1 DEF CurrentInv, ShowsOdds, ShowsStatus, page, socket
<1>7. RouteInv'
  <2>1. holds \in Nat
    BY <1>1 DEF PagesTypeOK
  <2>2. \A j \in 1 .. Len(reqs) :
            /\ Asking(reqs'[j]) => Asking(reqs[j])
            /\ Asking(reqs[j]) /\ reqs[j].key = route =>
                 Asking(reqs'[j]) /\ reqs'[j].key = reqs[j].key
    BY <1>2 DEF Asking
  <2>3. route' = route /\ holds' = holds /\ cards' = cards /\ behind' = behind
    BY DEF page
  <2>4. \A j \in Len(reqs) + 1 .. Len(reqs') : ~Asking(reqs'[j])
    BY <1>1, <1>2
  <2>5. Len(reqs) <= Len(reqs') /\ Len(reqs') \in Nat
    BY <1>1, <1>2
  <2>6. QED BY <1>1, <2>1, <2>2, <2>3, <2>4, <2>5, RouteKept
<1>8. QED BY <1>3, <1>4, <1>6, <1>7 DEF PagesInv

\* What is answered is kept by the page that asked, and dropped by any other.
LEMMA AnsweredRequest ==
  ASSUME NEW i \in 1 .. Len(reqs), reqs[i] \in Request, NEW a \in Answer,
         reqs[i].step \in {"sent", "read"}
  PROVE  /\ Answered(i, a) \in Request /\ Answered(i, a).step # "save"
         /\ \/ Answered(i, a) = Done
            \/ /\ SameEdit(Answered(i, a), reqs[i])
               /\ Answered(i, a).owner = reqs[i].owner
               /\ Answered(i, a).owner = "page"
               /\ Answered(i, a).step = "answered"
               /\ Answered(i, a).answer = a
         /\ Asking(Answered(i, a)) => Asking(reqs[i])
         /\ Asking(reqs[i]) => Asking(Answered(i, a)) /\ Answered(i, a).key = reqs[i].key
<1>1. CASE reqs[i].owner = "page"
  <2> DEFINE q == [reqs[i] EXCEPT !.step = "answered", !.answer = a]
  <2>1. Answered(i, a) = q
    BY <1>1 DEF Answered
  <2>2. q \in Request
    BY RequestChanges DEF Steps
  <2>3. /\ SameEdit(q, reqs[i]) /\ q.owner = "page" /\ q.step = "answered" /\ q.answer = a
    BY <1>1 DEF SameEdit, Request
  <2>4. QED BY <1>1, <2>1, <2>2, <2>3 DEF SameEdit, Asking
<1>2. CASE reqs[i].owner # "page"
  <2>1. Answered(i, a) = Done /\ ~Asking(reqs[i])
    BY <1>2 DEF Answered, Asking
  <2>2. Done \in Request /\ Done.step = "done"
    BY DoneRequest
  <2>3. ~Asking(Done)
    BY <2>2 DEF Asking
  <2>4. QED BY <2>1, <2>2 DEF Asking
<1>3. QED BY <1>1, <1>2

\* listEvents and getEvent keep the invariant.
LEMMA ReadersKeep ==
  ASSUME PagesInv, NEW i \in InFlight, Lookup(i) \/ ReadRows(i) \/ Fill(i)
  PROVE  PagesInv'
<1>1. /\ PagesTypeOK /\ AnswersFit /\ i \in 1 .. Len(reqs)
      /\ reqs \in Seq(Request) /\ reqs[i] \in Request /\ RequestFits(reqs[i], row, gone, writes, Dirty)
      /\ reqs[i].key \in Keys
  BY PagesParts DEF Request
<1>2. ASSUME reqs[i].step = "sent", reqs' = [reqs EXCEPT ![i].step = "missed"],
             UNCHANGED <<store, page, socket, behind, failures>>
      PROVE  PagesInv'
  <2> DEFINE q == [reqs[i] EXCEPT !.step = "missed"]
  <2>1. q \in Request
    BY <1>1, RequestChanges DEF Steps
  <2>2. q.step = "missed" /\ SameEdit(q, reqs[i]) /\ q.owner = reqs[i].owner
    BY <1>1 DEF SameEdit, Request
  <2>3. reqs' = [reqs EXCEPT ![i] = q]
    BY <1>2
  <2> HIDE DEF q
  <2>4. Moves(q, reqs[i])
    BY <1>2, <2>2 DEF Moves, Looks
  <2>5. (Asking(q) => Asking(reqs[i])) /\ (Asking(reqs[i]) => Asking(q) /\ q.key = reqs[i].key)
    BY <1>2, <2>2 DEF Asking, SameEdit
  <2>6. UNCHANGED <<row, writes, gone, job, page, socket, behind, failures>> /\ cache' = cache
    BY <1>2 DEF store
  <2>7. QED BY <1>1, <1>2, <2>1, <2>2, <2>3, <2>4, <2>5, <2>6, ServerStep
<1>3. ASSUME reqs[i].step = "sent", cache[reqs[i].key] # None,
             reqs' = [reqs EXCEPT ![i] = Answered(i, Cached(reqs[i].key))],
             UNCHANGED <<store, page, socket, behind, failures>>
      PROVE  PagesInv'
  <2>1. Cached(reqs[i].key) \in Answer
    BY <1>1, <1>3, CachedFits DEF PagesTypeOK, AnswersFit
  <2>2. Moves(Answered(i, Cached(reqs[i].key)), reqs[i])
    BY <1>1, <1>3, <2>1, AnsweredRequest DEF Moves, Looks
  <2>3. UNCHANGED <<row, writes, gone, job, page, socket, behind, failures>> /\ cache' = cache
    BY <1>3 DEF store
  <2>4. QED BY <1>1, <1>3, <2>1, <2>2, <2>3, AnsweredRequest, ServerStep
<1>4. CASE ReadRows(i)
  <2> DEFINE q == [reqs[i] EXCEPT !.step = "read", !.answer = Read(reqs[i].key)]
  <2>1. Read(reqs[i].key) \in Answer
    BY <1>1, PagesParts, ReadFits DEF PagesTypeOK
  <2>2. q \in Request
    BY <1>1, <2>1, RequestChanges DEF Steps
  <2>3. /\ q.step = "read" /\ SameEdit(q, reqs[i]) /\ q.owner = reqs[i].owner
        /\ q.answer = Read(reqs[i].key)
    BY <1>1 DEF SameEdit, Request
  <2>4. reqs' = [reqs EXCEPT ![i] = q] /\ reqs[i].step = "missed"
    BY <1>4 DEF ReadRows
  <2> HIDE DEF q
  <2>5. Moves(q, reqs[i])
    BY <2>3, <2>4 DEF Moves, Looks
  <2>6. (Asking(q) => Asking(reqs[i])) /\ (Asking(reqs[i]) => Asking(q) /\ q.key = reqs[i].key)
    BY <2>3, <2>4 DEF Asking, SameEdit
  <2>7. UNCHANGED <<row, writes, gone, job, page, socket, behind, failures>> /\ cache' = cache
    BY <1>4 DEF ReadRows, store
  <2>8. QED BY <1>1, <2>2, <2>3, <2>4, <2>5, <2>6, <2>7, ServerStep
<1>5. CASE Fill(i)
  <2> DEFINE a == [reqs[i].answer EXCEPT !.raced = FALSE]
  <2>1. reqs[i].answer \in Answer /\ reqs[i].step = "read"
    BY <1>1, <1>5 DEF Fill, RequestFits, Fits
  <2>2. reqs' = [reqs EXCEPT ![i] = Answered(i, a)]
    BY <1>5 DEF Fill
  <2>3. a \in Answer /\ a.rows = reqs[i].answer.rows /\ a.asOf = reqs[i].answer.asOf
    BY <2>1, AnswerForm
  <2> HIDE DEF a
  <2>4. Moves(Answered(i, a), reqs[i])
    BY <1>1, <2>1, <2>3, AnsweredRequest DEF Moves, Looks
  <2>5. UNCHANGED <<row, writes, gone, job, page, socket, behind, failures>>
        /\ DOMAIN cache' = DOMAIN cache
    BY <1>5 DEF Fill
  <2>6. ASSUME NEW k \in Keys
        PROVE  cache'[k] = cache[k] \/ (reqs[i].key = k /\ cache'[k] = reqs[i].answer)
    BY <1>5 DEF Fill
  <2>7. QED BY <1>1, <2>1, <2>2, <2>3, <2>4, <2>5, <2>6, AnsweredRequest, ServerStep
<1>6. QED BY <1>2, <1>3, <1>4, <1>5 DEF Lookup

\* At a bust, who has read the rows of the event is marked; nothing else changes.
LEMMA Racing ==
  ASSUME reqs \in Seq(Request), NEW e,
         \A j \in 1 .. Len(reqs) : reqs[j].step = "read" => reqs[j].answer \in Answer
  PROVE  /\ Raced(e) \in Seq(Request) /\ Len(Raced(e)) = Len(reqs)
         /\ \A j \in 1 .. Len(reqs) :
              /\ Stays(Raced(e)[j], reqs[j]) /\ Raced(e)[j].owner = reqs[j].owner
              /\ Raced(e)[j].key = Detail(e) /\ Raced(e)[j].step = "read" => Raced(e)[j].answer.raced
              /\ reqs[j].step # "read" => Raced(e)[j] = reqs[j]
<1> DEFINE L(j) == IF reqs[j].step = "read" /\ reqs[j].key = Detail(e)
                     THEN [reqs[j] EXCEPT !.answer.raced = TRUE] ELSE reqs[j]
           rs == [j \in 1 .. Len(reqs) |-> L(j)]
<1>1. Len(reqs) \in Nat /\ \A j \in 1 .. Len(reqs) : reqs[j] \in Request
  BY LenProperties, ElementOfSeq
<1>2. ASSUME NEW j \in 1 .. Len(reqs)
      PROVE  /\ L(j) \in Request /\ Stays(L(j), reqs[j]) /\ L(j).owner = reqs[j].owner
             /\ L(j).key = Detail(e) /\ L(j).step = "read" => L(j).answer.raced
             /\ reqs[j].step # "read" => L(j) = reqs[j]
  <2>1. CASE reqs[j].step = "read" /\ reqs[j].key = Detail(e)
    <3> DEFINE a == [reqs[j].answer EXCEPT !.raced = TRUE]
               q == [reqs[j] EXCEPT !.answer = a]
    <3>1. a \in Answer /\ a.rows = reqs[j].answer.rows /\ a.asOf = reqs[j].answer.asOf /\ a.raced
      BY <2>1, AnswerForm
    <3>2. L(j) = q
      BY <1>1, <2>1 DEF Request
    <3> HIDE DEF a, L
    <3>3. q \in Request /\ SameEdit(q, reqs[j]) /\ q.step = reqs[j].step /\ q.owner = reqs[j].owner
          /\ q.answer = a
      BY <1>1, <3>1, RequestChanges DEF SameEdit, Request
    <3> HIDE DEF q
    <3> QED BY <2>1, <3>1, <3>2, <3>3 DEF Stays, Marked
  <2>2. CASE ~(reqs[j].step = "read" /\ reqs[j].key = Detail(e))
    <3>1. L(j) = reqs[j]
      BY <2>2
    <3> HIDE DEF L
    <3> QED BY <1>1, <2>2, <3>1 DEF Stays, SameEdit
  <2> QED BY <2>1, <2>2
<1>3. \A j \in 1 .. Len(reqs) : rs[j] = L(j)
  OBVIOUS
<1>4. rs = Raced(e)
  BY DEF Raced
<1> HIDE DEF L
<1>5. rs \in Seq(Request) /\ Len(rs) = Len(reqs)
  BY <1>1, <1>2
<1> HIDE DEF rs
<1> QED BY <1>2, <1>3, <1>4, <1>5

\* What is gone is the later of what was and what is over.
LEMMA Gone ==
  ASSUME gone \in [Events -> [Kinds -> Odds]], NEW e \in Events, NEW kind \in Kinds, NEW n \in Odds,
         Over(e, kind, n)
  PROVE  /\ gone' \in [Events -> [Kinds -> Odds]]
         /\ gone'[e][kind] = IF n > gone[e][kind] THEN n ELSE gone[e][kind]
         /\ \A d \in Events : d # e => gone'[d] = gone[d]
         /\ \A d \in Events, k \in Kinds : k # kind => gone'[d][k] = gone[d][k]
<1>1. CASE n > gone[e][kind]
  <2> DEFINE s == [gone[e] EXCEPT ![kind] = n]
  <2>1. s \in [Kinds -> Odds] /\ s[kind] = n /\ \A k \in Kinds : k # kind => s[k] = gone[e][k]
    OBVIOUS
  <2>2. gone' = [gone EXCEPT ![e] = s]
    BY <1>1 DEF Over
  <2> HIDE DEF s
  <2> QED BY <1>1, <2>1, <2>2
<1>2. CASE ~(n > gone[e][kind])
  BY <1>2 DEF Over
<1> QED BY <1>1, <1>2

\* invalidateEventCache, of which nobody is told, keeps the invariant.
LEMMA BustSavedKeeps ==
  ASSUME PagesInv, NEW i \in InFlight, BustSaved(i)
  PROVE  PagesInv'
<1> DEFINE e0 == reqs[i].key.event
           q  == [reqs[i] EXCEPT !.step = "sent"]
<1>1. /\ PagesTypeOK /\ RoomLeft /\ AnswersFit /\ OddsAscend /\ Told /\ SaveInv /\ CurrentInv /\ RouteInv
      /\ reqs \in Seq(Request) /\ Len(reqs) \in Nat /\ i \in 1 .. Len(reqs) /\ reqs[i] \in Request
      /\ \A j \in 1 .. Len(reqs) : reqs[j] \in Request /\ RequestFits(reqs[j], row, gone, writes, Dirty)
      /\ writes \in Nat
      /\ \A e \in Events : /\ row[e].odds \in Nat /\ row[e].odds <= writes
                           /\ gone[e]["odds"] \in Nat /\ gone[e]["odds"] <= row[e].odds
  BY PagesParts
<1>2. /\ reqs[i].step = "written" /\ reqs' = [Raced(e0) EXCEPT ![i].step = "sent"]
      /\ cache' = [cache EXCEPT ![reqs[i].key] = None]
      /\ Over(e0, "odds", reqs[i].wrote) /\ behind' = behind \cup {"odds"}
      /\ UNCHANGED <<row, writes, job, page, socket, failures>>
  BY DEF BustSaved
<1>3. /\ reqs[i].saves /\ reqs[i].key \in DetailKeys /\ reqs[i].key \in Keys
      /\ e0 \in Events /\ reqs[i].key = Detail(e0) /\ reqs[i].wrote \in Odds /\ reqs[i].wrote \in Nat
      /\ reqs[i].wrote <= row[e0].odds
  <2>1. reqs[i].saves /\ reqs[i].key \in DetailKeys /\ reqs[i].wrote \in Odds
    BY <1>1, <1>2 DEF RequestFits, Request
  <2>2. Saved(reqs[i], row, cache, reqs)
    BY <1>1, <2>1 DEF SaveInv
  <2>3. QED BY <1>2, <2>1, <2>2, PageKeys DEF Saved, Odds
<1>4. /\ Raced(e0) \in Seq(Request) /\ Len(Raced(e0)) = Len(reqs) /\ Raced(e0)[i] = reqs[i]
      /\ \A j \in 1 .. Len(reqs) :
           /\ Stays(Raced(e0)[j], reqs[j]) /\ Raced(e0)[j].owner = reqs[j].owner
           /\ Raced(e0)[j].key = Detail(e0) /\ Raced(e0)[j].step = "read" => Raced(e0)[j].answer.raced
           /\ reqs[j].step # "read" => Raced(e0)[j] = reqs[j]
  <2>1. \A j \in 1 .. Len(reqs) : reqs[j].step = "read" => reqs[j].answer \in Answer
    BY <1>1 DEF RequestFits, Fits
  <2>2. QED BY <1>1, <1>2, <2>1, Racing
<1>5. /\ q \in Request /\ q.step = "sent" /\ q.key = reqs[i].key /\ q.saves = reqs[i].saves
      /\ q.owner = reqs[i].owner /\ q.wrote = reqs[i].wrote
  <2>1. q \in Request
    BY <1>1, RequestChanges DEF Steps
  <2>2. QED BY <1>1, <2>1 DEF Request
<1>6. reqs' = [Raced(e0) EXCEPT ![i] = q]
  BY <1>2, <1>4
<1> HIDE DEF q, e0
<1>7. /\ reqs' \in Seq(Request) /\ Len(reqs') = Len(reqs) /\ reqs'[i] = q
      /\ \A j \in 1 .. Len(reqs) : j # i => reqs'[j] = Raced(e0)[j]
  BY <1>1, <1>4, <1>5, <1>6, ExceptSeq
<1>8. \A j \in 1 .. Len(reqs) : j # i => /\ Stays(reqs'[j], reqs[j]) /\ reqs'[j].owner = reqs[j].owner
                                         /\ reqs'[j].key = reqs[j].key /\ reqs'[j].saves = reqs[j].saves
                                         /\ reqs'[j].step = reqs[j].step /\ reqs'[j].wrote = reqs[j].wrote
  BY <1>4, <1>7 DEF Stays, SameEdit
<1>9. Clears(reqs[i].key) /\ cache'[reqs[i].key] = None /\ DOMAIN cache' = Keys
      /\ \A k \in Keys : k # reqs[i].key => cache'[k] = cache[k]
  <2>1. DOMAIN cache = Keys
    BY <1>1 DEF PagesTypeOK
  <2>2. cache'[reqs[i].key] = None
    BY <1>2, <1>3, <2>1
  <2>3. ASSUME NEW j \in 1 .. Len(reqs'), reqs'[j].key = reqs[i].key, reqs'[j].step = "read"
        PROVE  reqs'[j].answer.raced
    <3>1. j # i /\ j \in 1 .. Len(reqs) /\ reqs'[j] = Raced(e0)[j]
      BY <1>5, <1>7, <2>3
    <3>2. QED BY <1>3, <1>4, <2>3, <3>1
  <2>4. QED BY <1>2, <2>1, <2>2, <2>3 DEF Clears
<1>10. /\ gone' \in [Events -> [Kinds -> Odds]]
       /\ gone'[e0]["odds"] = IF reqs[i].wrote > gone[e0]["odds"] THEN reqs[i].wrote ELSE gone[e0]["odds"]
       /\ \A d \in Events : d # e0 => gone'[d] = gone[d]
       /\ \A d \in Events : gone'[d]["status"] = gone[d]["status"]
  <2>1. gone \in [Events -> [Kinds -> Odds]] /\ "odds" \in Kinds /\ "status" \in Kinds
    BY <1>1 DEF PagesTypeOK, Kinds
  <2>2. QED BY <1>2, <1>3, <2>1, Gone
<1>11. PagesTypeOK'
  <2>1. \A k \in Keys : cache'[k] \in Answer \cup {None}
    BY <1>1, <1>9 DEF PagesTypeOK
  <2>2. behind' \subseteq Kinds \cup {"event"}
    BY <1>1, <1>2 DEF PagesTypeOK, Kinds
  <2>3. QED BY <1>1, <1>2, <1>7, <1>9, <1>10, <2>1, <2>2 DEF PagesTypeOK, page, socket
<1>12. RoomLeft'
  <2>1. \A j \in 1 .. Len(reqs') : reqs'[j].step = "save" => j \in Waiting
    BY <1>5, <1>7, <1>8 DEF Waiting
  <2>2. QED BY <1>1, <1>2, <1>7, <2>1, RoomKept
<1>13. \A e \in Events : e # e0 => Detail(e) # reqs[i].key
  BY <1>3, PageKeys
<1>14. AnswersFit' /\ SaveInv'
  <2>1. Moves(q, reqs[i])
    BY <1>2, <1>5, <1>9 DEF Moves, Edits
  <2>2. \A j \in 1 .. Len(reqs) : Moves(reqs'[j], reqs[j])
    BY <1>7, <1>8, <2>1 DEF Moves
  <2>3. \A e \in Events : Ages(e)
    BY <1>1, <1>2, <1>10 DEF Ages
  <2>4. \A e \in Dirty : e \in Dirty' \/ Clears(Detail(e))
    <3> SUFFICES ASSUME NEW e \in Dirty, e # e0 PROVE e \in Dirty'
      BY <1>3, <1>9
    <3>1. e \in Events /\ Unbusted(e)
      BY DEF Dirty
    <3>2. ASSUME NEW j \in InFlight, reqs[j].step = "written", reqs[j].key = Detail(e)
          PROVE  j \in InFlight' /\ reqs'[j].step = "written" /\ reqs'[j].key = Detail(e)
      <4>1. j \in 1 .. Len(reqs) /\ j # i
        BY <1>13, <3>1, <3>2 DEF InFlight
      <4>2. QED BY <1>7, <1>8, <3>2, <4>1 DEF InFlight
    <3>3. QED BY <1>2, <3>1, <3>2 DEF Dirty, Unbusted
  <2>5. Len(reqs) <= Len(reqs') /\ ~\E j : j \in Len(reqs) + 1 .. Len(reqs')
    BY <1>1, <1>7
  <2>6. \A k \in Keys : cache'[k] = None \/ cache'[k] = cache[k]
    BY <1>9
  <2>7. writes <= writes' /\ \A e \in Events : row[e].odds <= writes
    BY <1>1, <1>2
  <2>8. QED BY <1>1, <1>11, <2>2, <2>3, <2>4, <2>5, <2>6, <2>7, RequestsKeep
<1>15. OddsAscend'
  <2>1. \A e \in Events : row'[e].odds <= writes' /\ gone'[e]["odds"] <= row'[e].odds
    BY <1>1, <1>2, <1>3, <1>10
  <2>2. QED BY <1>1, <1>2, <2>1 DEF OddsAscend, socket
<1>16. Told'
  <2> SUFFICES ASSUME NEW e \in Events PROVE gone'[e]["odds"] = row'[e].odds \/ Telling(e, row[e].odds)'
    BY <1>2 DEF Told, Telling
  <2>1. CASE gone[e]["odds"] = row[e].odds
    BY <1>1, <1>2, <1>3, <1>10, <2>1
  <2>2. CASE /\ e = e0 /\ reqs[i].wrote = row[e].odds
    BY <1>1, <1>2, <1>3, <1>10, <2>2
  <2>3. CASE Telling(e, row[e].odds) /\ ~(e = e0 /\ reqs[i].wrote = row[e].odds)
    <3>1. ASSUME NEW j \in 1 .. Len(reqs), reqs[j].step = "written", reqs[j].key = Detail(e),
                 reqs[j].wrote = row[e].odds
          PROVE  j \in 1 .. Len(reqs') /\ reqs'[j].step = "written" /\ reqs'[j].key = Detail(e)
                 /\ reqs'[j].wrote = row[e].odds
      <4>1. j # i
        BY <1>13, <2>3, <3>1
      <4>2. QED BY <1>7, <1>8, <3>1, <4>1
    <3>2. QED BY <1>2, <2>3, <3>1 DEF Telling, socket
  <2>4. QED BY <1>1, <2>1, <2>2, <2>3 DEF Told
<1>17. CurrentInv'
  BY <1>1, <1>2 DEF CurrentInv, ShowsStatus, page
<1>18. RouteInv'
  <2>1. holds \in Nat
    BY <1>1 DEF PagesTypeOK
  <2>2. \A j \in 1 .. Len(reqs) :
            /\ Asking(reqs'[j]) => Asking(reqs[j])
            /\ Asking(reqs[j]) /\ reqs[j].key = route =>
                 Asking(reqs'[j]) /\ reqs'[j].key = reqs[j].key
    BY <1>3, <1>5, <1>7, <1>8 DEF Asking
  <2>3. route' = route /\ holds' = holds /\ cards' = cards /\ ("event" \in behind => "event" \in behind')
    BY <1>2 DEF page
  <2>4. Len(reqs) <= Len(reqs') /\ Len(reqs') \in Nat /\ \A j \in Len(reqs) + 1 .. Len(reqs') : ~Asking(reqs'[j])
    BY <1>1, <1>7
  <2>5. QED BY <1>1, <2>1, <2>2, <2>3, <2>4, RouteKept
<1> QED BY <1>11, <1>12, <1>14, <1>15, <1>16, <1>17, <1>18 DEF PagesInv

\* There are as many edits waiting as requests, at most.
LEMMA WaitingBound ==
  ASSUME Len(reqs) \in Nat
  PROVE  /\ IsFiniteSet(Waiting) /\ Cardinality(Waiting) \in Nat
         /\ Cardinality(Waiting) <= Len(reqs)
         /\ \A i \in Waiting : Cardinality(Waiting \ {i}) = Cardinality(Waiting) - 1
<1>1. Waiting \in SUBSET (1 .. Len(reqs))
  BY DEF Waiting
<1>2. IsFiniteSet(1 .. Len(reqs)) /\ Cardinality(1 .. Len(reqs)) = Len(reqs)
  BY FS_Interval
<1>3. IsFiniteSet(Waiting) /\ Cardinality(Waiting) <= Len(reqs)
  BY <1>1, <1>2, FS_Subset
<1>4. QED BY <1>3, FS_CardinalityType, FS_RemoveElement

\* What the page shows, and what it asks for, stays.
LEMMA RouteStays ==
  ASSUME RouteInv, UNCHANGED <<reqs, route, holds>>, DOMAIN cards' = DOMAIN cards,
         "event" \in behind => "event" \in behind'
  PROVE  RouteInv'
  BY DEF RouteInv, Asking

\* A push names an event and odds.
LEMMA PushTypes ==
  ASSUME PagesTypeOK
  PROVE  /\ \A n \in 1 .. Len(wire) : wire[n].event \in Events /\ wire[n].odds \in Nat
         /\ Len(wire) \in Nat
<1>1. wire \in Seq([event : Events, odds : Odds])
  BY DEF PagesTypeOK
<1>2. \A n \in 1 .. Len(wire) : wire[n] \in [event : Events, odds : Odds]
  BY <1>1, ElementOfSeq
<1>3. QED BY <1>1, <1>2, LenProperties DEF Odds

\* What was to be told goes on being so; new odds are, or will not be.
LEMMA ToldStep ==
  ASSUME Told, \A e \in Events : \A n : Telling(e, n) => Telling(e, n)',
         \A e \in Events : \/ gone'[e]["odds"] = row'[e].odds
                           \/ row'[e].odds = row[e].odds /\ gone'[e]["odds"] = gone[e]["odds"]
                           \/ \E n : n = row'[e].odds /\ Telling(e, n)'
  PROVE  Told'
<1> SUFFICES ASSUME NEW e \in Events
             PROVE  gone'[e]["odds"] = row'[e].odds \/ \E n : n = row'[e].odds /\ Telling(e, n)'
  BY DEF Told, Telling
<1>1. ASSUME NEW n, n = row[e].odds, Telling(e, n), row'[e].odds = row[e].odds
      PROVE  \E m : m = row'[e].odds /\ Telling(e, m)'
  BY <1>1
<1>2. gone[e]["odds"] = row[e].odds \/ \E n : n = row[e].odds /\ Telling(e, n)
  BY DEF Told
<1> QED BY <1>1, <1>2

\* New odds are later than all there are, and nobody has been told, or will not be told, of them.
LEMMA Pricing ==
  ASSUME PagesInv, NEW e0 \in Events, writes' = writes + 1, writes + 1 \in Odds,
         row' = [row EXCEPT ![e0].odds = writes + 1], e0 \in Dirty', UNCHANGED <<gone, page, behind>>
  PROVE  /\ row' \in [Events -> Row] /\ row'[e0].odds = writes + 1
         /\ \A e \in Events : e # e0 => row'[e] = row[e]
         /\ \A e \in Events : /\ row[e].odds <= row'[e].odds /\ row'[e].odds <= writes'
                              /\ row'[e].odds \in Nat /\ gone'[e]["odds"] <= row'[e].odds
                              /\ Ages(e)
         /\ CurrentInv'
<1>1. /\ PagesTypeOK /\ CurrentInv /\ writes \in Nat
      /\ \A e \in Events : /\ row[e].odds \in Nat /\ row[e].odds <= writes
                           /\ gone[e]["odds"] \in Nat /\ gone[e]["odds"] <= row[e].odds
  BY PagesParts
<1>2. /\ row' \in [Events -> Row] /\ row'[e0].odds = writes + 1 /\ row'[e0].status = row[e0].status
      /\ \A e \in Events : e # e0 => row'[e] = row[e]
  <2>1. row \in [Events -> Row]
    BY <1>1 DEF PagesTypeOK
  <2>2. QED BY <1>1, <2>1 DEF Row
<1>3. \A e \in Events : /\ row[e].odds <= row'[e].odds /\ row'[e].odds <= writes'
                        /\ row'[e].odds \in Nat /\ gone'[e]["odds"] <= row'[e].odds
  BY <1>1, <1>2
<1>4. \A e \in Events : Ages(e)
  BY <1>1, <1>2, <1>3 DEF Ages
<1>5. CurrentInv'
  <2>1. events' = events /\ cards' = cards /\ behind' = behind /\ gone' = gone
    BY DEF page
  <2>2. DOMAIN events \subseteq Events /\ DOMAIN cards \subseteq Events
    BY <1>1, HeldRows DEF PagesTypeOK
  <2>3. gone[e0]["odds"] # row'[e0].odds
    BY <1>1, <1>2
  <2>4. \A e \in Events : /\ row'[e].status = row[e].status
                          /\ gone[e]["odds"] = row'[e].odds => row'[e].odds = row[e].odds
    BY <1>2, <2>3
  <2>5. QED BY <1>1, <2>1, <2>2, <2>4 DEF CurrentInv, ShowsOdds, ShowsStatus
<1> QED BY <1>2, <1>3, <1>4, <1>5

\* updateEvent's write keeps the invariant.
LEMMA WriteSaveKeeps ==
  ASSUME PagesInv, NEW i \in InFlight, WriteSave(i)
  PROVE  PagesInv'
<1>1. /\ PagesTypeOK /\ RoomLeft /\ AnswersFit /\ OddsAscend /\ SaveInv /\ Told /\ RouteInv
      /\ reqs \in Seq(Request) /\ Len(reqs) \in Nat /\ i \in 1 .. Len(reqs) /\ i \in Waiting
      /\ reqs[i] \in Request /\ reqs[i].step = "save" /\ reqs[i].saves /\ reqs[i].key \in DetailKeys
      /\ reqs[i].key.event \in Events /\ reqs[i].key = Detail(reqs[i].key.event)
      /\ \A e \in Events : row[e].odds <= writes
  BY PagesParts, PageKeys DEF WriteSave, RequestFits, Waiting
<1> DEFINE e0 == reqs[i].key.event
           q  == [reqs[i] EXCEPT !.step = "written", !.wrote = writes + 1]
<1>2. /\ writes \in Nat /\ writes + 1 \in Odds /\ writes + Cardinality(Waiting) <= MaxSteps
      /\ Cardinality(Waiting) \in Nat /\ Cardinality(Waiting \ {i}) = Cardinality(Waiting) - 1
      /\ MaxSteps \in Nat
  <2>1. Cardinality(Waiting \ {i}) \in Nat
    BY <1>1, WaitingBound, FS_Subset, FS_CardinalityType
  <2>2. writes \in Nat /\ MaxSteps \in Nat
    BY <1>1, EventPagesAssumption DEF PagesTypeOK, Odds
  <2>3. QED BY <1>1, <2>1, <2>2, WaitingBound DEF RoomLeft, Odds
<1>3. q \in Request
  BY <1>1, <1>2, RequestChanges DEF Steps
<1>4. /\ q.step = "written" /\ q.key = reqs[i].key /\ q.saves = reqs[i].saves
      /\ q.owner = reqs[i].owner /\ q.wrote = writes + 1
  BY <1>1 DEF Request
<1>5. /\ reqs' = [reqs EXCEPT ![i] = q] /\ writes' = writes + 1
      /\ row' = [row EXCEPT ![e0].odds = writes + 1]
      /\ UNCHANGED <<cache, job, gone, page, socket, behind, failures>>
  BY DEF WriteSave
<1> HIDE DEF q, e0
<1>6. /\ reqs' \in Seq(Request) /\ Len(reqs') = Len(reqs)
      /\ reqs'[i] = q /\ \A j \in 1 .. Len(reqs) : j # i => reqs'[j] = reqs[j]
  BY <1>1, <1>3, <1>5, OneRequest
<1>7. e0 \in Events /\ reqs[i].key = Detail(e0)
  BY <1>1 DEF e0
<1>8. /\ i \in 1 .. Len(reqs') /\ reqs'[i].step = "written" /\ reqs'[i].key = Detail(e0)
      /\ reqs'[i].wrote = writes + 1
  BY <1>1, <1>4, <1>6, <1>7
<1>9. e0 \in Dirty'
  <2>1. i \in InFlight'
    BY <1>8 DEF InFlight
  <2>2. QED BY <1>7, <1>8, <2>1 DEF Dirty, Unbusted
<1>10. /\ row' \in [Events -> Row] /\ row'[e0].odds = writes + 1
       /\ \A e \in Events : e # e0 => row'[e] = row[e]
       /\ \A e \in Events : /\ row[e].odds <= row'[e].odds /\ row'[e].odds <= writes'
                            /\ row'[e].odds \in Nat /\ gone'[e]["odds"] <= row'[e].odds
                            /\ Ages(e) /\ row[e].odds \in Nat
       /\ CurrentInv'
  BY <1>2, <1>5, <1>7, <1>9, Pricing, PagesParts
<1>11. PagesTypeOK'
  BY <1>1, <1>2, <1>5, <1>6, <1>10 DEF PagesTypeOK, page, socket
<1>12. RoomLeft'
  <2>1. Waiting' = Waiting \ {i}
    BY <1>4, <1>6 DEF Waiting
  <2>2. QED BY <1>2, <1>5, <2>1 DEF RoomLeft
<1>13. \A j \in 1 .. Len(reqs) : reqs[j].step = "written" => reqs'[j] = reqs[j]
  BY <1>1, <1>6
<1>14. AnswersFit' /\ SaveInv'
  <2>1. Moves(q, reqs[i])
    BY <1>1, <1>4, <1>10 DEF Moves, Edits, e0
  <2>2. ASSUME NEW j \in 1 .. Len(reqs), j # i PROVE Moves(reqs'[j], reqs[j])
    <3>1. reqs'[j] = reqs[j]
      BY <1>6, <2>2
    <3>2. QED BY <3>1 DEF Moves, Stays, SameEdit
  <2>3. \A j \in 1 .. Len(reqs) : Moves(reqs'[j], reqs[j])
    BY <1>6, <2>1, <2>2
  <2>4. Len(reqs) <= Len(reqs') /\ ~\E j : j \in Len(reqs) + 1 .. Len(reqs')
    BY <1>1, <1>6
  <2>5. \A k \in Keys : cache'[k] = cache[k]
    BY <1>5
  <2>6. Dirty \subseteq Dirty'
    BY <1>5, <1>6, <1>13 DEF Dirty, Unbusted, InFlight
  <2>7. writes <= writes'
    BY <1>2, <1>5
  <2>8. QED BY <1>1, <1>10, <1>11, <2>3, <2>4, <2>5, <2>6, <2>7, RequestsKeep
<1>15. OddsAscend'
  <2>1. job # None => job.event \in Events /\ job.odds \in Nat
    BY <1>1 DEF PagesTypeOK, Odds
  <2>2. \A n \in 1 .. Len(wire) : wire[n].event \in Events /\ wire[n].odds \in Nat
    BY <1>1, PushTypes
  <2>3. QED BY <1>1, <1>5, <1>10, <2>1, <2>2 DEF OddsAscend, socket
<1>16. Told'
  <2>1. ASSUME NEW e, NEW n, e = e0, n = writes + 1 PROVE Telling(e, n)'
    BY <1>8, <2>1 DEF Telling
  <2>2. \A e, n : Telling(e, n) => Telling(e, n)'
    BY <1>5, <1>6, <1>13 DEF Telling, socket
  <2>3. \E n : n = row'[e0].odds /\ \A e : e = e0 => Telling(e, n)'
    BY <1>10, <2>1
  <2>4. QED BY <1>1, <1>5, <1>10, <2>2, <2>3, ToldStep
<1>17. RouteInv'
  <2>1. holds \in Nat
    BY <1>1 DEF PagesTypeOK
  <2>2. \A j \in 1 .. Len(reqs) :
            /\ Asking(reqs'[j]) => Asking(reqs[j])
            /\ Asking(reqs[j]) /\ reqs[j].key = route =>
                 Asking(reqs'[j]) /\ reqs'[j].key = reqs[j].key
    BY <1>1, <1>4, <1>6 DEF Asking
  <2>3. route' = route /\ holds' = holds /\ cards' = cards /\ behind' = behind
    BY <1>5 DEF page
  <2>4. Len(reqs) <= Len(reqs') /\ Len(reqs') \in Nat /\ \A j \in Len(reqs) + 1 .. Len(reqs') : ~Asking(reqs'[j])
    BY <1>1, <1>6
  <2>5. QED BY <1>1, <2>1, <2>2, <2>3, <2>4, RouteKept
<1> QED BY <1>10, <1>11, <1>12, <1>14, <1>15, <1>16, <1>17 DEF PagesInv

\* A step that takes one of the steps left keeps room for the edits.
LEMMA RoomTaken ==
  ASSUME PagesTypeOK, Room, UNCHANGED <<reqs>>, writes' = writes + 1
  PROVE  RoomLeft' /\ writes \in Nat /\ writes + 1 \in Odds
<1>1. Len(reqs) \in Nat /\ failures \in Nat /\ MaxSteps \in Nat /\ writes \in Nat
  BY LenProperties, EventPagesAssumption DEF PagesTypeOK, Odds
<1>2. Cardinality(Waiting) \in Nat /\ Cardinality(Waiting) <= Len(reqs)
  BY <1>1, WaitingBound
<1>3. Waiting' = Waiting
  BY DEF Waiting
<1>4. Len(reqs) + writes + failures < MaxSteps
  BY DEF Room
<1> QED BY <1>1, <1>2, <1>3, <1>4 DEF RoomLeft, Odds

\* A step that leaves the requests alone, and busts nothing, keeps what is said of them.
LEMMA SameRequests ==
  ASSUME PagesInv, PagesTypeOK', UNCHANGED <<reqs, cache>>, writes <= writes', Dirty \subseteq Dirty',
         \A e \in Events : Ages(e)
  PROVE  AnswersFit' /\ SaveInv'
<1>1. PagesTypeOK /\ AnswersFit /\ SaveInv /\ Len(reqs) \in Nat /\ \A e \in Events : row[e].odds <= writes
  BY PagesParts
<1>2. \A j \in 1 .. Len(reqs) : Moves(reqs'[j], reqs[j])
  BY DEF Moves, Stays, SameEdit
<1>3. Len(reqs) <= Len(reqs') /\ ~\E j : j \in Len(reqs) + 1 .. Len(reqs')
  BY <1>1
<1>4. QED BY <1>1, <1>2, <1>3, RequestsKeep

\* updateSingleEventOdds' write keeps the invariant: the push is to come.
LEMMA WriteOddsKeeps ==
  ASSUME PagesInv, NEW e0 \in Events, WriteOdds(e0)
  PROVE  PagesInv'
<1>1. /\ PagesTypeOK /\ OddsAscend /\ Told /\ RouteInv
  BY PagesParts
<1>2. /\ job = None /\ Room /\ writes' = writes + 1
      /\ row' = [row EXCEPT ![e0].odds = writes + 1]
      /\ job' = [event |-> e0, odds |-> writes + 1, step |-> "bust"]
      /\ UNCHANGED <<cache, gone, reqs, page, socket, behind, failures>>
  BY DEF WriteOdds
<1>3. RoomLeft' /\ writes \in Nat /\ writes + 1 \in Odds
  BY <1>1, <1>2, RoomTaken
<1>4. job' \in [event : Events, odds : Odds, step : {"bust", "tell"}] /\ job' # None
      /\ job'.event = e0 /\ job'.odds = writes + 1 /\ job'.step = "bust"
  <2>1. job' \in [event : Events, odds : Odds, step : {"bust", "tell"}]
    BY <1>2, <1>3
  <2>2. QED BY <1>2, <2>1, EventPagesAssumption DEF Odds
<1>5. e0 \in Dirty' /\ Dirty \subseteq Dirty'
  BY <1>2, <1>4 DEF Dirty, Unbusted, InFlight
<1>6. /\ row' \in [Events -> Row] /\ row'[e0].odds = writes + 1
      /\ \A e \in Events : e # e0 => row'[e] = row[e]
      /\ \A e \in Events : /\ row[e].odds <= row'[e].odds /\ row'[e].odds <= writes'
                           /\ row'[e].odds \in Nat /\ gone'[e]["odds"] <= row'[e].odds
                           /\ Ages(e) /\ row[e].odds \in Nat
      /\ CurrentInv'
  BY <1>2, <1>3, <1>5, Pricing, PagesParts
<1>7. PagesTypeOK'
  BY <1>1, <1>2, <1>3, <1>4, <1>6 DEF PagesTypeOK, page, socket
<1>8. AnswersFit' /\ SaveInv'
  BY <1>2, <1>3, <1>5, <1>6, <1>7, SameRequests
<1>9. OddsAscend'
  <2>1. \A n \in 1 .. Len(wire) : wire[n].event \in Events /\ wire[n].odds \in Nat
                                  /\ wire[n].odds <= row[wire[n].event].odds
    BY <1>1, PushTypes DEF OddsAscend
  <2>2. \A n \in 1 .. Len(wire) : wire[n].odds <= row'[wire[n].event].odds
    BY <1>6, <2>1
  <2>3. wire' = wire /\ job'.odds <= row'[job'.event].odds
    BY <1>2, <1>3, <1>4, <1>6 DEF socket
  <2>4. QED BY <1>6, <2>2, <2>3 DEF OddsAscend
<1>10. Told'
  <2>1. ASSUME NEW n, n = writes + 1 PROVE Telling(e0, n)'
    BY <1>4, <2>1 DEF Telling
  <2>2. \A e, n : Telling(e, n) => Telling(e, n)'
    BY <1>2 DEF Telling, socket
  <2>3. \E n : n = row'[e0].odds /\ Telling(e0, n)'
    BY <1>6, <2>1
  <2>4. QED BY <1>1, <1>2, <1>6, <2>2, <2>3, ToldStep
<1>11. RouteInv'
  BY <1>1, <1>2, RouteStays DEF page
<1> QED BY <1>3, <1>6, <1>7, <1>8, <1>9, <1>10, <1>11 DEF PagesInv

\* updateSingleEventOdds' bust keeps the invariant.
LEMMA BustCacheKeeps ==
  ASSUME PagesInv, BustCache
  PROVE  PagesInv'
<1>1. /\ PagesTypeOK /\ RoomLeft /\ AnswersFit /\ OddsAscend /\ Told /\ SaveInv /\ CurrentInv /\ RouteInv
      /\ reqs \in Seq(Request) /\ Len(reqs) \in Nat /\ writes \in Nat
      /\ \A j \in 1 .. Len(reqs) : RequestFits(reqs[j], row, gone, writes, Dirty)
      /\ \A e \in Events : /\ row[e].odds \in Nat /\ row[e].odds <= writes
  BY PagesParts
<1>2. /\ job # None /\ job' = [job EXCEPT !.step = "tell"] /\ reqs' = Raced(job.event)
      /\ cache' = [cache EXCEPT ![Detail(job.event)] = None]
      /\ UNCHANGED <<row, writes, gone, page, socket, behind, failures>>
  BY DEF BustCache
<1>3. /\ job \in [event : Events, odds : Odds, step : {"bust", "tell"}] /\ job.event \in Events
      /\ job' \in [event : Events, odds : Odds, step : {"bust", "tell"}] /\ job' # None
      /\ job'.event = job.event /\ job'.odds = job.odds
  <2>1. job \in [event : Events, odds : Odds, step : {"bust", "tell"}]
    BY <1>1, <1>2 DEF PagesTypeOK
  <2>2. /\ job' \in [event : Events, odds : Odds, step : {"bust", "tell"}]
        /\ job'.event = job.event /\ job'.odds = job.odds
    BY <1>2, <2>1
  <2>3. QED BY <2>1, <2>2, EventPagesAssumption DEF Odds
<1> DEFINE e0 == job.event
<1>4. /\ reqs' \in Seq(Request) /\ Len(reqs') = Len(reqs)
      /\ \A j \in 1 .. Len(reqs) :
           /\ Stays(reqs'[j], reqs[j]) /\ reqs'[j].owner = reqs[j].owner
           /\ reqs'[j].key = Detail(e0) /\ reqs'[j].step = "read" => reqs'[j].answer.raced
           /\ reqs[j].step # "read" => reqs'[j] = reqs[j]
  <2>1. \A j \in 1 .. Len(reqs) : reqs[j].step = "read" => reqs[j].answer \in Answer
    BY <1>1 DEF RequestFits, Fits
  <2>2. QED BY <1>1, <1>2, <2>1, Racing
<1>5. Clears(Detail(e0)) /\ DOMAIN cache' = Keys
      /\ \A k \in Keys : cache'[k] = None \/ cache'[k] = cache[k]
  <2>1. DOMAIN cache = Keys /\ Detail(e0) \in Keys
    BY <1>1, <1>3, PageKeys DEF PagesTypeOK
  <2>2. QED BY <1>2, <1>4, <2>1 DEF Clears
<1>6. PagesTypeOK'
  <2>1. \A k \in Keys : cache'[k] \in Answer \cup {None}
    BY <1>1, <1>5 DEF PagesTypeOK
  <2>2. QED BY <1>1, <1>2, <1>3, <1>4, <1>5, <2>1 DEF PagesTypeOK, page, socket
<1>7. RoomLeft'
  <2>1. \A j \in 1 .. Len(reqs') : reqs'[j].step = "save" => j \in Waiting
    BY <1>4 DEF Waiting, Stays
  <2>2. QED BY <1>1, <1>2, <1>4, <2>1, RoomKept
<1>8. AnswersFit' /\ SaveInv'
  <2>1. \A j \in 1 .. Len(reqs) : Moves(reqs'[j], reqs[j])
    BY <1>4 DEF Moves
  <2>2. \A e \in Events : Ages(e)
    BY <1>1, <1>2 DEF Ages
  <2>3. \A e \in Dirty : e \in Dirty' \/ Clears(Detail(e))
    <3> SUFFICES ASSUME NEW e \in Dirty, e # e0 PROVE e \in Dirty'
      BY <1>5
    <3>1. e \in Events /\ \E j \in InFlight : reqs[j].step = "written" /\ reqs[j].key = Detail(e)
      BY DEF Dirty, Unbusted
    <3>2. QED BY <1>4, <3>1 DEF Dirty, Unbusted, InFlight
  <2>4. Len(reqs) <= Len(reqs') /\ ~\E j : j \in Len(reqs) + 1 .. Len(reqs')
    BY <1>1, <1>4
  <2>5. writes <= writes'
    BY <1>1, <1>2
  <2>6. QED BY <1>1, <1>5, <1>6, <2>1, <2>2, <2>3, <2>4, <2>5, RequestsKeep
<1>9. OddsAscend'
  BY <1>1, <1>2, <1>3 DEF OddsAscend, socket
<1>10. Told'
  <2>1. \A e, n : Telling(e, n) => Telling(e, n)'
    BY <1>2, <1>3, <1>4 DEF Telling, socket
  <2>2. QED BY <1>1, <1>2, <2>1, ToldStep
<1>11. CurrentInv'
  BY <1>1, <1>2 DEF CurrentInv, ShowsOdds, ShowsStatus, page
<1>12. RouteInv'
  <2>1. holds \in Nat
    BY <1>1 DEF PagesTypeOK
  <2>2. \A j \in 1 .. Len(reqs) :
            /\ Asking(reqs'[j]) => Asking(reqs[j])
            /\ Asking(reqs[j]) /\ reqs[j].key = route =>
                 Asking(reqs'[j]) /\ reqs'[j].key = reqs[j].key
    BY <1>4 DEF Asking, Stays, SameEdit
  <2>3. route' = route /\ holds' = holds /\ cards' = cards /\ behind' = behind
    BY <1>2 DEF page
  <2>4. Len(reqs) <= Len(reqs') /\ Len(reqs') \in Nat /\ \A j \in Len(reqs) + 1 .. Len(reqs') : ~Asking(reqs'[j])
    BY <1>1, <1>4
  <2>5. QED BY <1>1, <2>1, <2>2, <2>3, <2>4, RouteKept
<1> QED BY <1>6, <1>7, <1>8, <1>9, <1>10, <1>11, <1>12 DEF PagesInv

\* broadcastOddsUpdate keeps the invariant: what the job had to tell is on its way.
LEMMA BroadcastKeeps ==
  ASSUME PagesInv, Broadcast
  PROVE  PagesInv'
<1>1. /\ PagesTypeOK /\ RoomLeft /\ OddsAscend /\ Told /\ CurrentInv /\ RouteInv
      /\ Len(reqs) \in Nat /\ Len(wire) \in Nat /\ writes \in Nat
      /\ \A e \in Events : /\ row[e].odds \in Nat /\ row[e].odds <= writes
  BY PagesParts, PushTypes
<1> DEFINE p == [event |-> job.event, odds |-> job.odds]
<1>2. /\ job # None /\ job.step = "tell" /\ job' = None /\ wire' = Append(wire, p)
      /\ UNCHANGED <<row, writes, cache, gone, reqs, page, joined, ear, behind, failures>>
  BY DEF Broadcast
<1>3. /\ job \in [event : Events, odds : Odds, step : {"bust", "tell"}]
      /\ p \in [event : Events, odds : Odds] /\ p.event = job.event /\ p.odds = job.odds
  <2>1. job \in [event : Events, odds : Odds, step : {"bust", "tell"}]
    BY <1>1, <1>2 DEF PagesTypeOK
  <2>2. QED BY <2>1
<1> HIDE DEF p
<1>4. /\ wire' \in Seq([event : Events, odds : Odds]) /\ Len(wire') = Len(wire) + 1
      /\ wire'[Len(wire) + 1] = p /\ \A n \in 1 .. Len(wire) : wire'[n] = wire[n]
  <2>1. wire \in Seq([event : Events, odds : Odds])
    BY <1>1 DEF PagesTypeOK
  <2>2. QED BY <1>2, <1>3, <2>1, AppendProperties
<1>5. /\ \A n \in 1 .. Len(wire) : n \in 1 .. Len(wire') /\ wire'[n] = wire[n]
      /\ \A n \in 1 .. Len(wire') : n \in 1 .. Len(wire) \/ wire'[n] = p
      /\ Len(wire) + 1 \in 1 .. Len(wire') /\ wire'[Len(wire) + 1] = p
  BY <1>1, <1>4
<1>6. PagesTypeOK'
  BY <1>1, <1>2, <1>4 DEF PagesTypeOK, page
<1>7. RoomLeft'
  BY <1>1, <1>2 DEF RoomLeft, Waiting
<1>8. AnswersFit' /\ SaveInv'
  <2>1. Dirty \subseteq Dirty'
    BY <1>2 DEF Dirty, Unbusted, InFlight
  <2>2. \A e \in Events : Ages(e)
    BY <1>1, <1>2 DEF Ages
  <2>3. QED BY <1>1, <1>2, <1>6, <2>1, <2>2, SameRequests
<1>9. OddsAscend'
  <2>1. p.odds <= row[p.event].odds
    BY <1>1, <1>2, <1>3 DEF OddsAscend
  <2>2. \A n \in 1 .. Len(wire') : wire'[n].odds <= row[wire'[n].event].odds
    BY <1>1, <1>5, <2>1 DEF OddsAscend
  <2>3. QED BY <1>1, <1>2, <2>2 DEF OddsAscend
<1>10. Told'
  <2>1. ASSUME NEW e, NEW n, Telling(e, n) PROVE Telling(e, n)'
    BY <1>2, <1>3, <1>5, <2>1 DEF Telling
  <2>2. QED BY <1>1, <1>2, <2>1, ToldStep
<1>11. CurrentInv'
  BY <1>1, <1>2 DEF CurrentInv, ShowsOdds, ShowsStatus, page
<1>12. RouteInv'
  BY <1>1, <1>2, RouteStays DEF page
<1> QED BY <1>6, <1>7, <1>8, <1>9, <1>10, <1>11, <1>12 DEF PagesInv

\* A match that goes live keeps the invariant: nobody is told, and the page is behind.
LEMMA GoLiveKeeps ==
  ASSUME PagesInv, NEW e0 \in Events, GoLive(e0)
  PROVE  PagesInv'
<1>1. /\ PagesTypeOK /\ OddsAscend /\ Told /\ CurrentInv /\ RouteInv
      /\ Len(reqs) \in Nat /\ Len(wire) \in Nat /\ writes \in Nat
      /\ \A e \in Events : row[e].odds \in Nat /\ row[e].odds <= writes /\ gone[e]["odds"] <= row[e].odds
  BY PagesParts, PushTypes
<1>2. /\ Room /\ writes' = writes + 1 /\ row' = [row EXCEPT ![e0].status = "LIVE"]
      /\ Over(e0, "status", writes + 1) /\ behind' = behind \cup {"status"}
      /\ UNCHANGED <<cache, job, reqs, page, socket, failures>>
  BY DEF GoLive
<1>3. RoomLeft' /\ writes + 1 \in Odds
  BY <1>1, <1>2, RoomTaken
<1>4. /\ row' \in [Events -> Row] /\ \A e \in Events : row'[e].odds = row[e].odds
      /\ \A e \in Events : e # e0 => row'[e] = row[e]
  <2>1. row \in [Events -> Row]
    BY <1>1 DEF PagesTypeOK
  <2>2. QED BY <1>2, <2>1 DEF Row, RowStatuses
<1>5. /\ gone' \in [Events -> [Kinds -> Odds]]
      /\ gone'[e0]["status"] = IF writes + 1 > gone[e0]["status"] THEN writes + 1 ELSE gone[e0]["status"]
      /\ gone[e0]["status"] \in Nat
      /\ \A d \in Events : d # e0 => gone'[d] = gone[d]
      /\ \A d \in Events : gone'[d]["odds"] = gone[d]["odds"]
  <2>1. gone \in [Events -> [Kinds -> Odds]] /\ "odds" \in Kinds /\ "status" \in Kinds
    BY <1>1 DEF PagesTypeOK, Kinds
  <2>2. QED BY <1>2, <1>3, <2>1, Gone DEF Odds
<1>6. PagesTypeOK'
  <2>1. behind' \subseteq Kinds \cup {"event"}
    BY <1>1, <1>2 DEF PagesTypeOK, Kinds
  <2>2. QED BY <1>1, <1>2, <1>3, <1>4, <1>5, <2>1 DEF PagesTypeOK, page, socket
<1>7. AnswersFit' /\ SaveInv'
  <2>1. Dirty \subseteq Dirty'
    BY <1>2 DEF Dirty, Unbusted, InFlight
  <2>2. gone'[e0]["status"] > writes
    BY <1>1, <1>5
  <2>3. \A e \in Events : Ages(e)
    BY <1>1, <1>2, <1>4, <1>5, <2>2 DEF Ages
  <2>4. QED BY <1>1, <1>2, <1>6, <2>1, <2>3, SameRequests
<1>8. OddsAscend'
  <2>1. \A n \in 1 .. Len(wire) : wire[n].event \in Events
    BY <1>1, PushTypes
  <2>2. job # None => job.event \in Events
    BY <1>1 DEF PagesTypeOK
  <2>3. \A e \in Events : row'[e].odds <= writes' /\ gone'[e]["odds"] <= row'[e].odds
    BY <1>1, <1>2, <1>4, <1>5
  <2>4. QED BY <1>1, <1>2, <1>4, <2>1, <2>2, <2>3 DEF OddsAscend, socket
<1>9. Told'
  <2>1. \A j \in 1 .. Len(reqs) : reqs'[j] = reqs[j]
    BY <1>2
  <2>2. QED BY <1>1, <1>2, <1>4, <1>5, <2>1, ToldStays DEF socket
<1>10. CurrentInv'
  <2>1. events' = events /\ cards' = cards
    BY <1>2 DEF page
  <2>2. DOMAIN events \subseteq Events /\ DOMAIN cards \subseteq Events
    BY <1>1, HeldRows DEF PagesTypeOK
  <2>3. QED BY <1>1, <1>2, <1>4, <1>5, <2>1, <2>2 DEF CurrentInv, ShowsOdds
<1>11. RouteInv'
  BY <1>1, <1>2, RouteStays DEF page
<1> QED BY <1>3, <1>6, <1>7, <1>8, <1>9, <1>10, <1>11 DEF PagesInv

\* Bets, and a socket that connects, disconnects or is handed out, keep the invariant.
LEMMA QuietKeep ==
  ASSUME PagesInv, (\E e \in Events : PlaceBet(e)) \/ Connect \/ Disconnect \/ Rerender
  PROVE  PagesInv'
<1>1. /\ PagesTypeOK /\ RoomLeft /\ CurrentInv /\ RouteInv /\ Len(reqs) \in Nat
      /\ writes \in Nat /\ failures \in Nat /\ MaxSteps \in Nat
  BY PagesParts, EventPagesAssumption DEF PagesTypeOK
<1>2. /\ UNCHANGED <<store, reqs, page, wire, behind>>
      /\ joined' \in BOOLEAN /\ ear' \in BOOLEAN
      /\ failures' = failures \/ (Room /\ failures' = failures + 1)
  <2>1. ASSUME NEW e \in Events, PlaceBet(e)
        PROVE  UNCHANGED <<store, reqs, page, joined, wire, behind, failures>> /\ ear' = TRUE
    BY <2>1 DEF PlaceBet
  <2>2. joined \in BOOLEAN /\ ear \in BOOLEAN
    BY <1>1 DEF PagesTypeOK
  <2>3. CASE Connect
    BY <2>2, <2>3 DEF Connect
  <2>4. CASE Disconnect
    BY <2>2, <2>4 DEF Disconnect
  <2>5. CASE Rerender
    BY <2>2, <2>5 DEF Rerender
  <2>6. QED BY <2>1, <2>2, <2>3, <2>4, <2>5
<1>3. failures' \in 0 .. MaxSteps
  <2>1. failures \in 0 .. MaxSteps
    BY <1>1 DEF PagesTypeOK
  <2>2. QED BY <1>1, <1>2, <2>1 DEF Room
<1>4. PagesTypeOK'
  BY <1>1, <1>2, <1>3 DEF PagesTypeOK, store, page
<1>5. RoomLeft'
  BY <1>1, <1>2 DEF RoomLeft, Waiting, store
<1>6. AnswersFit' /\ SaveInv' /\ OddsAscend' /\ Told'
  <2>1. \A j \in 1 .. Len(reqs) :
            Moves(reqs'[j], reqs[j]) /\ (reqs[j].step = "written" => reqs'[j].step = "written")
    BY <1>2 DEF Moves, Stays, SameEdit
  <2>2. Len(reqs) <= Len(reqs') /\ ~\E j : j \in Len(reqs) + 1 .. Len(reqs')
    BY <1>1, <1>2
  <2>3. UNCHANGED <<row, writes, gone, job, wire>> /\ \A k \in Keys : cache'[k] = cache[k]
    BY <1>2 DEF store
  <2>4. QED BY <1>4, <2>1, <2>2, <2>3, PlainStep
<1>7. CurrentInv'
  BY <1>1, <1>2 DEF CurrentInv, ShowsOdds, ShowsStatus, page, store
<1>8. RouteInv'
  BY <1>1, <1>2, RouteStays DEF page
<1> QED BY <1>4, <1>5, <1>6, <1>7, <1>8 DEF PagesInv

\* A row whose odds change is a row.
LEMMA PricedRow ==
  ASSUME NEW a \in Held, NEW e \in DOMAIN a, NEW odds \in Odds
  PROVE  /\ [a[e] EXCEPT !.odds = odds] \in Row
         /\ [a[e] EXCEPT !.odds = odds].odds = odds
         /\ [a[e] EXCEPT !.odds = odds].status = a[e].status
  BY HeldRows DEF Row

\* An answer with another row for one of its events is an answer.
LEMMA RowReplaced ==
  ASSUME NEW a \in Held, NEW e \in DOMAIN a, NEW r \in Row
  PROVE  /\ [a EXCEPT ![e] = r] \in Held
         /\ DOMAIN [a EXCEPT ![e] = r] = DOMAIN a
         /\ [a EXCEPT ![e] = r][e] = r
         /\ \A d \in DOMAIN a : d # e => [a EXCEPT ![e] = r][d] = a[d]
<1> DEFINE b == [a EXCEPT ![e] = r]
<1>1. DOMAIN b = DOMAIN a /\ b[e] = r /\ \A d \in DOMAIN a : d # e => b[d] = a[d]
  OBVIOUS
<1>2. b = [d \in DOMAIN a |-> b[d]]
  OBVIOUS
<1>3. DOMAIN a \in SUBSET Events /\ \A d \in DOMAIN a : a[d] \in Row
  BY HeldRows
<1> HIDE DEF b
<1>4. b \in [DOMAIN a -> Row]
  BY <1>1, <1>2, <1>3
<1>5. b \in Held
  BY <1>3, <1>4, HeldRows
<1>6. QED BY <1>1, <1>5 DEF b

\* handleOddsUpdate keeps the invariant.
LEMMA DeliverKeeps ==
  ASSUME PagesInv, Deliver
  PROVE  PagesInv'
<1>1. /\ PagesTypeOK /\ RoomLeft /\ OddsAscend /\ Told /\ CurrentInv /\ RouteInv
      /\ Len(reqs) \in Nat /\ Len(wire) \in Nat /\ writes \in Nat
      /\ \A n \in 1 .. Len(wire) : wire[n].event \in Events /\ wire[n].odds \in Nat
      /\ \A e \in Events : /\ row[e].odds \in Nat /\ row[e].odds <= writes
                           /\ gone[e]["odds"] \in Nat /\ gone[e]["odds"] <= row[e].odds
  BY PagesParts, PushTypes
<1>2. /\ UNCHANGED <<row, writes, cache, job, reqs, route, loading, holds, joined, ear, failures>>
      /\ wire # << >> /\ wire' = Tail(wire)
  BY DEF Deliver
<1>3. PICK p \in [event : Events, odds : Odds] : p = Head(wire)
  <2>1. wire \in Seq([event : Events, odds : Odds])
    BY <1>1 DEF PagesTypeOK
  <2>2. QED BY <1>2, <2>1, HeadTailProperties
<1>4. /\ p = wire[1] /\ 1 \in 1 .. Len(wire)
      /\ wire' \in Seq([event : Events, odds : Odds])
      /\ Len(wire') = Len(wire) - 1 /\ \A n \in 1 .. Len(wire') : wire'[n] = wire[n + 1]
  <2>1. wire \in Seq([event : Events, odds : Odds])
    BY <1>1 DEF PagesTypeOK
  <2>2. Len(wire) \in Nat \ {0}
    BY <1>2, <2>1, EmptySeq
  <2>3. Head(wire) = wire[1]
    BY <1>2, <2>1
  <2>4. QED BY <1>2, <1>3, <2>1, <2>2, <2>3, HeadTailProperties
<1> DEFINE shown == joined /\ ear /\ p.event \in DOMAIN events
<1>5. /\ shown => /\ events' = [events EXCEPT ![p.event].odds = p.odds]
                  /\ cards' = [cards EXCEPT ![p.event] = [events[p.event] EXCEPT !.odds = p.odds]]
      /\ ~shown => UNCHANGED <<events, cards>>
      /\ behind' = IF joined /\ ear /\ p.odds >= gone[p.event]["odds"] THEN behind ELSE behind \cup {"odds"}
      /\ Over(p.event, "odds", p.odds)
  BY <1>3 DEF Deliver
<1>6. p.event \in Events /\ p.odds \in Odds /\ p.odds \in Nat /\ p.odds <= row[p.event].odds
  BY <1>1, <1>4 DEF OddsAscend, Odds
<1>7. /\ gone' \in [Events -> [Kinds -> Odds]]
      /\ gone'[p.event]["odds"] = IF p.odds > gone[p.event]["odds"] THEN p.odds ELSE gone[p.event]["odds"]
      /\ \A d \in Events : d # p.event => gone'[d] = gone[d]
      /\ \A d \in Events : gone'[d]["status"] = gone[d]["status"]
  <2>1. gone \in [Events -> [Kinds -> Odds]] /\ "odds" \in Kinds /\ "status" \in Kinds
    BY <1>1 DEF PagesTypeOK, Kinds
  <2>2. QED BY <1>5, <1>6, <2>1, Gone
<1>8. /\ events \in Held /\ cards \in Held /\ DOMAIN cards = DOMAIN events
      /\ joined \in BOOLEAN /\ ear \in BOOLEAN /\ DOMAIN events \subseteq Events
      /\ behind \subseteq Kinds \cup {"event"}
  BY <1>1, HeldRows DEF PagesTypeOK
<1>9. ASSUME shown
      PROVE  /\ events' \in Held /\ cards' \in Held
             /\ DOMAIN events' = DOMAIN events /\ DOMAIN cards' = DOMAIN events
             /\ events'[p.event].odds = p.odds /\ cards'[p.event].odds = p.odds
             /\ events'[p.event].status = events[p.event].status
             /\ cards'[p.event].status = events[p.event].status
             /\ \A e \in DOMAIN events : e # p.event => events'[e] = events[e] /\ cards'[e] = cards[e]
  <2> DEFINE r == [events[p.event] EXCEPT !.odds = p.odds]
  <2>1. p.event \in DOMAIN events
    BY <1>9
  <2>2. r \in Row /\ r.odds = p.odds /\ r.status = events[p.event].status
    BY <1>6, <1>8, <2>1, PricedRow
  <2>3. events' = [events EXCEPT ![p.event] = r] /\ cards' = [cards EXCEPT ![p.event] = r]
    BY <1>5, <1>9
  <2> HIDE DEF r
  <2>4. QED BY <1>8, <2>1, <2>2, <2>3, RowReplaced
<1>10. /\ events' \in Held /\ cards' \in Held
       /\ DOMAIN events' = DOMAIN events /\ DOMAIN cards' = DOMAIN events
  BY <1>5, <1>8, <1>9
<1>11. PagesTypeOK'
  <2>1. behind' \subseteq Kinds \cup {"event"}
    BY <1>5, <1>8 DEF Kinds
  <2>2. QED BY <1>1, <1>2, <1>4, <1>7, <1>10, <2>1 DEF PagesTypeOK
<1>12. RoomLeft'
  BY <1>1, <1>2 DEF RoomLeft, Waiting
<1>13. AnswersFit' /\ SaveInv'
  <2>1. Dirty \subseteq Dirty'
    BY <1>2 DEF Dirty, Unbusted, InFlight
  <2>2. \A e \in Events : Ages(e)
    BY <1>1, <1>2, <1>7 DEF Ages
  <2>3. QED BY <1>1, <1>2, <1>11, <2>1, <2>2, SameRequests
<1>14. OddsAscend'
  <2>1. \A n \in 1 .. Len(wire') : n + 1 \in 1 .. Len(wire)
    BY <1>1, <1>4
  <2>2. \A e \in Events : row'[e].odds <= writes' /\ gone'[e]["odds"] <= row'[e].odds
    BY <1>1, <1>2, <1>6, <1>7
  <2>3. QED BY <1>1, <1>2, <1>4, <2>1, <2>2 DEF OddsAscend
<1>15. Told'
  <2> SUFFICES ASSUME NEW e \in Events, NEW n, n = row[e].odds
               PROVE  gone'[e]["odds"] = n \/ Telling(e, n)'
    BY <1>2 DEF Told, Telling
  <2>1. CASE gone[e]["odds"] = n
    BY <1>1, <1>6, <1>7, <2>1
  <2>2. CASE e = p.event /\ p.odds = n
    BY <1>1, <1>6, <1>7, <2>2
  <2>3. CASE Telling(e, n) /\ ~(e = p.event /\ p.odds = n)
    <3>1. ASSUME NEW m \in 1 .. Len(wire), wire[m].event = e, wire[m].odds = n
          PROVE  m - 1 \in 1 .. Len(wire') /\ wire'[m - 1].event = e /\ wire'[m - 1].odds = n
      <4>1. m # 1
        BY <1>4, <2>3, <3>1
      <4>2. m - 1 \in 1 .. Len(wire') /\ m - 1 + 1 = m
        BY <1>1, <1>4, <4>1
      <4>3. wire'[m - 1] = wire[m]
        BY <1>4, <4>2
      <4>4. QED BY <3>1, <4>2, <4>3
    <3>2. QED BY <1>2, <2>3, <3>1 DEF Telling
  <2>4. gone[e]["odds"] = n \/ Telling(e, n)
    BY <1>1 DEF Told
  <2>5. QED BY <2>1, <2>2, <2>3, <2>4
<1>16. CurrentInv'
  <2>1. ASSUME "odds" \notin behind' PROVE ShowsOdds(events)' /\ ShowsOdds(cards)'
    <3>1. /\ joined /\ ear /\ p.odds >= gone[p.event]["odds"] /\ "odds" \notin behind
      BY <1>5, <2>1
    <3>2. ShowsOdds(events) /\ ShowsOdds(cards)
      BY <1>1, <3>1 DEF CurrentInv
    <3>3. \A e \in Events : e # p.event => gone'[e]["odds"] = gone[e]["odds"]
      BY <1>7
    <3>4. gone'[p.event]["odds"] = p.odds
      BY <1>1, <1>6, <1>7, <3>1
    <3>5. CASE shown
      <4>1. \A e \in DOMAIN events : gone'[e]["odds"] = row[e].odds =>
              events'[e].odds = row[e].odds /\ cards'[e].odds = row[e].odds
        <5> SUFFICES ASSUME NEW e \in DOMAIN events, gone'[e]["odds"] = row[e].odds
                     PROVE  events'[e].odds = row[e].odds /\ cards'[e].odds = row[e].odds
          OBVIOUS
        <5>1. CASE e = p.event
          BY <1>9, <3>4, <3>5, <5>1
        <5>2. CASE e # p.event
          BY <1>8, <1>9, <3>2, <3>3, <3>5, <5>2 DEF ShowsOdds
        <5> QED BY <5>1, <5>2
      <4> QED BY <1>2, <1>10, <4>1 DEF ShowsOdds
    <3>6. CASE ~shown
      <4>1. p.event \notin DOMAIN events /\ events' = events /\ cards' = cards
        BY <1>5, <3>1, <3>6
      <4>2. \A e \in DOMAIN events : e # p.event /\ e \in Events /\ e \in DOMAIN cards
        BY <1>8, <4>1
      <4> QED BY <1>2, <1>8, <3>2, <3>3, <4>1, <4>2 DEF ShowsOdds
    <3> QED BY <3>5, <3>6
  <2>2. ASSUME "status" \notin behind' PROVE ShowsStatus(events)' /\ ShowsStatus(cards)'
    <3>1. ShowsStatus(events) /\ ShowsStatus(cards)
      BY <1>1, <1>5, <2>2 DEF CurrentInv
    <3>2. CASE shown
      <4>1. \A e \in DOMAIN events : events'[e].status = row[e].status /\ cards'[e].status = row[e].status
        <5> SUFFICES ASSUME NEW e \in DOMAIN events
                     PROVE  events'[e].status = row[e].status /\ cards'[e].status = row[e].status
          OBVIOUS
        <5>1. events[e].status = row[e].status /\ cards[e].status = row[e].status
          BY <1>8, <3>1 DEF ShowsStatus
        <5>2. CASE e = p.event
          BY <1>9, <3>2, <5>1, <5>2
        <5>3. CASE e # p.event
          BY <1>9, <3>2, <5>1, <5>3
        <5> QED BY <5>2, <5>3
      <4> QED BY <1>2, <1>10, <4>1 DEF ShowsStatus
    <3>3. CASE ~shown
      BY <1>2, <1>5, <3>1, <3>3 DEF ShowsStatus
    <3> QED BY <3>2, <3>3
  <2>3. QED BY <2>1, <2>2 DEF CurrentInv
<1>17. RouteInv'
  <2>1. DOMAIN cards' = DOMAIN cards /\ ("event" \in behind => "event" \in behind')
    BY <1>5, <1>8, <1>10
  <2>2. QED BY <1>1, <1>2, <2>1, RouteStays
<1> QED BY <1>11, <1>12, <1>13, <1>14, <1>15, <1>16, <1>17 DEF PagesInv

\* What a page that lets go of a request makes of it.
Kept(q, r) == (q = Done /\ r.step # "written") \/ Stays(q, r)

\* A component that is left lets go of its requests, and changes nothing else of them.
LEMMA Leaving ==
  ASSUME reqs \in Seq(Request), NEW S
  PROVE  /\ Leave(S) \in Seq(Request) /\ Len(Leave(S)) = Len(reqs)
         /\ \A j \in 1 .. Len(reqs) : Kept(Leave(S)[j], reqs[j])
<1> DEFINE L(j) == IF j \notin S \/ reqs[j].owner # "page" THEN reqs[j]
                   ELSE IF reqs[j].step = "answered" THEN Done
                   ELSE [reqs[j] EXCEPT !.owner = "left"]
           rs == [j \in 1 .. Len(reqs) |-> L(j)]
<1>1. Len(reqs) \in Nat /\ \A j \in 1 .. Len(reqs) : reqs[j] \in Request
  BY LenProperties, ElementOfSeq
<1>2. ASSUME NEW j \in 1 .. Len(reqs)
      PROVE  L(j) \in Request /\ Kept(L(j), reqs[j])
  <2>1. Done \in Request /\ [reqs[j] EXCEPT !.owner = "left"] \in Request
    BY <1>1, DoneRequest, RequestChanges
  <2>2. Stays(reqs[j], reqs[j])
    BY DEF Stays, SameEdit
  <2>3. reqs[j].step # "answered" => Stays([reqs[j] EXCEPT !.owner = "left"], reqs[j])
    BY <1>1 DEF Stays, SameEdit, Request
  <2>4. QED BY <1>1, <2>1, <2>2, <2>3 DEF Kept
<1>3. \A j \in 1 .. Len(reqs) : rs[j] = L(j)
  OBVIOUS
<1>4. rs = Leave(S)
  BY DEF Leave
<1> HIDE DEF L
<1>5. rs \in Seq(Request) /\ Len(rs) = Len(reqs)
  BY <1>1, <1>2
<1> HIDE DEF rs
<1>6. QED BY <1>2, <1>3, <1>4, <1>5

\* A page that sends a request, having let go of others, keeps what is said of requests.
LEMMA PageSends ==
  ASSUME PagesInv, PagesTypeOK', Room, UNCHANGED <<store, wire>>,
         NEW rs \in Seq(Request), Len(rs) = Len(reqs),
         \A j \in 1 .. Len(reqs) : Kept(rs[j], reqs[j]),
         NEW k \in Keys, NEW b \in BOOLEAN, b => k \in DetailKeys,
         reqs' = Append(rs, NewRequest(k, b, "page"))
  PROVE  RoomLeft' /\ AnswersFit' /\ SaveInv' /\ OddsAscend' /\ Told'
<1>1. /\ PagesTypeOK /\ RoomLeft /\ AnswersFit /\ SaveInv
      /\ reqs \in Seq(Request) /\ Len(reqs) \in Nat
  BY PagesParts
<1> DEFINE n == NewRequest(k, b, "page")
<1>2. n \in Request /\ n.step = (IF b THEN "save" ELSE "sent") /\ n.saves = b /\ n.key = k
  BY DoneRequest
<1> HIDE DEF n
<1>3. reqs' = Append(rs, n)
  BY DEF n
<1>4. /\ reqs' \in Seq(Request) /\ Len(reqs') = Len(reqs) + 1 /\ Len(reqs') \in Nat
      /\ reqs'[Len(reqs) + 1] = n /\ \A j \in 1 .. Len(reqs) : reqs'[j] = rs[j]
  BY <1>1, <1>2, <1>3, AppendProperties
<1>5. RoomLeft'
  <2>1. Waiting' \in SUBSET (1 .. Len(reqs'))
    BY DEF Waiting
  <2>3. Cardinality(Waiting') <= Len(reqs') /\ Cardinality(Waiting') \in Nat
    <3>1. ASSUME NEW m \in Nat, NEW W \in SUBSET (1 .. m)
          PROVE  Cardinality(W) <= m /\ Cardinality(W) \in Nat
      <4>1. IsFiniteSet(1 .. m) /\ Cardinality(1 .. m) = m
        BY FS_Interval
      <4>2. IsFiniteSet(W) /\ Cardinality(W) <= m
        BY <4>1, FS_Subset
      <4>3. QED BY <4>2, FS_CardinalityType
    <3>2. QED BY <1>4, <2>1, <3>1
  <2>4. writes \in Nat /\ failures \in Nat /\ MaxSteps \in Nat /\ writes' = writes
    BY <1>1, EventPagesAssumption DEF PagesTypeOK, Odds, store
  <2>5. Len(reqs) + writes + failures < MaxSteps
    BY DEF Room
  <2>6. QED BY <1>1, <1>4, <2>3, <2>4, <2>5 DEF RoomLeft
<1>6. AnswersFit' /\ SaveInv' /\ OddsAscend' /\ Told'
  <2>1. ASSUME NEW j \in 1 .. Len(reqs)
        PROVE  Moves(reqs'[j], reqs[j]) /\ (reqs[j].step = "written" => reqs'[j].step = "written")
    <3>1. reqs'[j] = rs[j] /\ Kept(rs[j], reqs[j])
      BY <1>4
    <3>2. QED BY <3>1 DEF Moves, Kept, Stays
  <2>2. Len(reqs) <= Len(reqs')
    BY <1>1, <1>4
  <2>3. \A j \in Len(reqs) + 1 .. Len(reqs') :
            \/ reqs'[j].step = "sent" /\ ~reqs'[j].saves
            \/ reqs'[j].step = "save" /\ reqs'[j].saves /\ reqs'[j].key \in DetailKeys
    <3>1. \A j \in Len(reqs) + 1 .. Len(reqs') : j = Len(reqs) + 1
      BY <1>1, <1>4
    <3>2. QED BY <1>2, <1>4, <3>1
  <2>4. UNCHANGED <<row, writes, gone, job, wire>> /\ \A j \in Keys : cache'[j] = cache[j]
    BY DEF store
  <2>5. QED BY <2>1, <2>2, <2>3, <2>4, PlainStep
<1>7. QED BY <1>5, <1>6

\* The page moves: it asks anew, and shows what it showed or nothing.
LEMMA PageMoves ==
  ASSUME PagesInv, Room, UNCHANGED <<store, socket, behind>>, failures' \in 0 .. MaxSteps,
         NEW rs \in Seq(Request), Len(rs) = Len(reqs),
         \A j \in 1 .. Len(reqs) : Kept(rs[j], reqs[j]),
         NEW k \in Keys, reqs' = Append(rs, NewRequest(k, FALSE, "page")),
         route' = k, loading' = TRUE,
         \/ UNCHANGED <<events, cards, holds>>
         \/ events' = Nothing /\ cards' = Nothing /\ holds' = 0
  PROVE  PagesInv'
<1>1. /\ PagesTypeOK /\ OddsAscend /\ CurrentInv
      /\ reqs \in Seq(Request) /\ Len(reqs) \in Nat
  BY PagesParts
<1>2. reqs' \in Seq(Request) /\ Len(reqs') = Len(reqs) + 1
  <2>1. NewRequest(k, FALSE, "page") \in Request
    BY DoneRequest
  <2>2. \A n \in Request : Append(rs, n) \in Seq(Request) /\ Len(Append(rs, n)) = Len(rs) + 1
    BY AppendProperties
  <2>3. QED BY <2>1, <2>2
<1>3. events' \in Held /\ cards' \in Held /\ DOMAIN cards' = DOMAIN events'
      /\ holds' \in 0 .. Len(reqs')
  <2>1. holds \in 0 .. Len(reqs) /\ events \in Held /\ cards \in Held /\ DOMAIN cards = DOMAIN events
    BY <1>1 DEF PagesTypeOK
  <2>2. QED BY <1>1, <1>2, <2>1, HeldRows
<1>4. PagesTypeOK'
  BY <1>1, <1>2, <1>3 DEF PagesTypeOK, store, socket
<1>5. RoomLeft' /\ AnswersFit' /\ SaveInv' /\ OddsAscend' /\ Told'
  BY <1>4, PageSends DEF socket
<1>7. CurrentInv'
  <2>1. CASE UNCHANGED <<events, cards, holds>>
    BY <1>1, <2>1 DEF CurrentInv, ShowsOdds, ShowsStatus, store
  <2>2. CASE events' = Nothing /\ cards' = Nothing
    BY <2>2, HeldRows DEF CurrentInv, ShowsOdds, ShowsStatus
  <2>3. QED BY <2>1, <2>2
<1>8. RouteInv'
  BY RouteAsked
<1>9. QED BY <1>4, <1>5, <1>7, <1>8 DEF PagesInv

\* The effect on the selection keeps the invariant.
LEMMA SelectionsKeep ==
  ASSUME PagesInv, Back \/ (\E e \in Events : OpenDetail(e)) \/ (\E f \in RowStatuses : SelectTab(f))
  PROVE  PagesInv'
<1>1. /\ reqs \in Seq(Request) /\ Len(reqs) \in Nat /\ failures \in 0 .. MaxSteps
  BY PagesParts DEF PagesTypeOK
<1>2. ASSUME NEW k \in Keys, Select(k), Room, UNCHANGED <<store, socket, behind, failures>>
      PROVE  PagesInv'
  <2>1. \A j \in 1 .. Len(reqs) : Kept(reqs[j], reqs[j])
    BY DEF Kept, Stays, SameEdit
  <2>2. PICK rs \in Seq(Request) :
            /\ Len(rs) = Len(reqs)
            /\ \A j \in 1 .. Len(reqs) : Kept(rs[j], reqs[j])
            /\ reqs' = Append(rs, NewRequest(k, FALSE, "page"))
    <3>1. CASE route \in ListKeys
      <4>1. reqs' = Append(Leave({i \in InFlight : reqs[i].saves}), NewRequest(k, FALSE, "page"))
        BY <1>2, <3>1 DEF Select
      <4>2. QED BY <1>1, <4>1, Leaving
    <3>2. CASE route \notin ListKeys
      <4>1. reqs' = Append(reqs, NewRequest(k, FALSE, "page"))
        BY <1>2, <3>2 DEF Select
      <4>2. QED BY <1>1, <2>1, <4>1
    <3>3. QED BY <3>1, <3>2
  <2>3. route' = k /\ loading' = TRUE /\ UNCHANGED <<events, cards, holds>>
    BY <1>2 DEF Select
  <2>4. QED BY <1>1, <1>2, <2>2, <2>3, PageMoves
<1>3. ASSUME NEW k \in Keys, Mount(k), Room, UNCHANGED <<store, socket, behind, failures>>
      PROVE  PagesInv'
  <2>1. /\ Left \in Seq(Request) /\ Len(Left) = Len(reqs)
        /\ \A j \in 1 .. Len(reqs) : Kept(Left[j], reqs[j])
    BY <1>1, Leaving DEF Left
  <2>2. /\ route' = k /\ loading' = TRUE /\ events' = Nothing /\ cards' = Nothing /\ holds' = 0
        /\ reqs' = Append(Left, NewRequest(k, FALSE, "page"))
    BY <1>3 DEF Mount
  <2>3. QED BY <1>1, <1>3, <2>1, <2>2, PageMoves
<1>4. CASE Back
  <2>1. Home \in Keys
    BY PageKeys
  <2>2. QED BY <1>3, <1>4, <2>1 DEF Back
<1>5. ASSUME NEW e \in Events, OpenDetail(e) PROVE PagesInv'
  <2>1. Detail(e) \in Keys
    BY PageKeys
  <2>2. Room /\ UNCHANGED <<store, socket, behind, failures>>
        /\ (Select(Detail(e)) \/ Mount(Detail(e)))
    BY <1>5 DEF OpenDetail
  <2>3. QED BY <1>2, <1>3, <2>1, <2>2
<1>6. ASSUME NEW f \in RowStatuses, SelectTab(f) PROVE PagesInv'
  <2>1. List(f) \in Keys
    BY PageKeys
  <2>2. Room /\ UNCHANGED <<store, socket, behind, failures>> /\ Select(List(f))
    BY <1>6 DEF SelectTab
  <2>3. QED BY <1>2, <2>1, <2>2
<1>7. QED BY <1>4, <1>5, <1>6

\* A save is sent: the page goes on showing what it shows.
LEMMA SaveKeeps ==
  ASSUME PagesInv, NEW e \in Changing, Save(e)
  PROVE  PagesInv'
<1>1. /\ PagesTypeOK /\ OddsAscend /\ CurrentInv /\ RouteInv
      /\ reqs \in Seq(Request) /\ Len(reqs) \in Nat
  BY PagesParts
<1>2. Detail(e) \in DetailKeys /\ Detail(e) \in Keys
  BY EventPagesAssumption, PageKeys
<1>3. /\ Room /\ UNCHANGED <<store, page, socket, behind, failures>>
      /\ reqs' = Append(reqs, NewRequest(Detail(e), TRUE, "page"))
  BY DEF Save
<1>4. /\ reqs' \in Seq(Request) /\ Len(reqs') = Len(reqs) + 1
      /\ \A j \in 1 .. Len(reqs) : reqs'[j] = reqs[j]
      /\ reqs'[Len(reqs) + 1].saves
  <2>1. NewRequest(Detail(e), TRUE, "page") \in Request /\ NewRequest(Detail(e), TRUE, "page").saves
    BY <1>2, DoneRequest
  <2>2. \A n \in Request : /\ Append(reqs, n) \in Seq(Request)
                           /\ Len(Append(reqs, n)) = Len(reqs) + 1
                           /\ \A j \in 1 .. Len(reqs) : Append(reqs, n)[j] = reqs[j]
                           /\ Append(reqs, n)[Len(reqs) + 1] = n
    BY <1>1, AppendProperties
  <2>3. QED BY <1>3, <2>1, <2>2
<1>5. PagesTypeOK'
  <2>1. holds' \in 0 .. Len(reqs')
    BY <1>1, <1>3, <1>4 DEF PagesTypeOK, page
  <2>2. QED BY <1>1, <1>3, <1>4, <2>1 DEF PagesTypeOK, store, page, socket
<1>6. RoomLeft' /\ AnswersFit' /\ SaveInv' /\ OddsAscend' /\ Told'
  <2>1. \A j \in 1 .. Len(reqs) : Kept(reqs[j], reqs[j])
    BY DEF Kept, Stays, SameEdit
  <2>2. UNCHANGED <<store, wire>>
    BY <1>3 DEF socket
  <2>3. QED BY <1>1, <1>2, <1>3, <1>5, <2>1, <2>2, PageSends
<1>8. CurrentInv'
  BY <1>1, <1>3 DEF CurrentInv, ShowsOdds, ShowsStatus, store, page
<1>9. RouteInv'
  <2>1. holds \in Nat
    BY <1>1 DEF PagesTypeOK
  <2>2. \A j \in 1 .. Len(reqs) :
            /\ Asking(reqs'[j]) => Asking(reqs[j])
            /\ Asking(reqs[j]) /\ reqs[j].key = route =>
                 Asking(reqs'[j]) /\ reqs'[j].key = reqs[j].key
    BY <1>4 DEF Asking
  <2>3. route' = route /\ holds' = holds /\ cards' = cards /\ behind' = behind
    BY <1>3 DEF page
  <2>4. \A j \in Len(reqs) + 1 .. Len(reqs') : ~Asking(reqs'[j])
    <3>1. \A j \in Len(reqs) + 1 .. Len(reqs') : j = Len(reqs) + 1
      BY <1>1, <1>4
    <3>2. QED BY <1>4, <3>1 DEF Asking
  <2>5. Len(reqs) <= Len(reqs') /\ Len(reqs') \in Nat
    BY <1>1, <1>4
  <2>6. QED BY <1>1, <2>1, <2>2, <2>3, <2>4, <2>5, RouteKept
<1>10. QED BY <1>5, <1>6, <1>8, <1>9 DEF PagesInv

\* An answer that lacks no odds, or statuses, has those that nobody will tell any more.
LEMMA NotLacking ==
  ASSUME PagesTypeOK, NEW k \in Keys, NEW a, Fits(k, a, row, gone, writes)
  PROVE  /\ "odds" \notin Lacks(a) => ShowsOdds(a.rows)
         /\ "status" \notin Lacks(a) => ShowsStatus(a.rows)
<1>1. a.rows \in Held /\ a.asOf["odds"] \in Nat /\ a.asOf["status"] \in Nat
  BY AnswerForm DEF Fits, Odds
<1>2. \A e \in DOMAIN a.rows : e \in Events /\ gone[e]["odds"] \in Nat /\ gone[e]["status"] \in Nat
  BY <1>1, HeldRows DEF PagesTypeOK, Kinds, Odds
<1>3. \A kind \in Kinds : kind \notin Lacks(a) => \A e \in DOMAIN a.rows : ~(a.asOf[kind] < gone[e][kind])
  BY DEF Lacks
<1>4. \A e \in DOMAIN a.rows :
        /\ row[e].odds <= a.asOf["odds"] => a.rows[e].odds = row[e].odds
        /\ gone[e]["status"] <= a.asOf["status"] => a.rows[e].status = row[e].status
  BY DEF Fits
<1>5. ASSUME "odds" \notin Lacks(a) PROVE ShowsOdds(a.rows)
  BY <1>1, <1>2, <1>3, <1>4, <1>5 DEF Kinds, ShowsOdds
<1>6. ASSUME "status" \notin Lacks(a) PROVE ShowsStatus(a.rows)
  BY <1>1, <1>2, <1>3, <1>4, <1>6 DEF Kinds, ShowsStatus
<1> QED BY <1>5, <1>6

\* The page deals with an answer, or its failure: what a step of its shows, and what it
\* is to show, is left to say.
LEMMA Dealing ==
  ASSUME PagesInv, PagesTypeOK', NEW i \in 1 .. Len(reqs), reqs' = [reqs EXCEPT ![i] = Done],
         reqs[i].step # "written", UNCHANGED <<store, socket>>
  PROVE  /\ RoomLeft' /\ AnswersFit' /\ SaveInv' /\ OddsAscend' /\ Told'
         /\ Len(reqs') = Len(reqs) /\ ~Asking(reqs'[i])
         /\ \A j \in 1 .. Len(reqs) : j # i => reqs'[j] = reqs[j]
<1>1. /\ OddsAscend /\ reqs \in Seq(Request)
      /\ Done \in Request /\ Done.step = "done"
  BY PagesParts, DoneRequest
<1>2. Len(reqs') = Len(reqs) /\ reqs'[i] = Done
      /\ \A j \in 1 .. Len(reqs) : j # i => reqs'[j] = reqs[j]
  BY <1>1, OneRequest
<1>3. RoomLeft' /\ AnswersFit' /\ SaveInv' /\ OddsAscend' /\ Told'
  <2>1. Moves(Done, reqs[i])
    BY DEF Moves
  <2>2. UNCHANGED <<row, writes, gone, job, wire>> /\ \A k \in Keys : cache'[k] = cache[k]
    BY DEF store, socket
  <2>3. QED BY <1>1, <2>1, <2>2, ChangedRequest
<1>4. QED BY <1>1, <1>2, <1>3 DEF Asking

\* setEvents, setEvent and setLoading keep the invariant.
LEMMA ReceiveKeeps ==
  ASSUME PagesInv, NEW i \in InFlight, Receive(i)
  PROVE  PagesInv'
<1>1. /\ PagesTypeOK /\ RouteInv /\ i \in 1 .. Len(reqs) /\ Len(reqs) \in Nat
      /\ reqs \in Seq(Request) /\ reqs[i] \in Request /\ RequestFits(reqs[i], row, gone, writes, Dirty)
      /\ Done \in Request
  BY PagesParts, DoneRequest
<1>2. /\ reqs[i].step = "answered" /\ ~reqs[i].saves /\ reqs' = [reqs EXCEPT ![i] = Done]
      /\ events' = reqs[i].answer.rows /\ cards' = reqs[i].answer.rows /\ loading' = FALSE
      /\ holds' = IF i > holds THEN i ELSE holds
      /\ i < holds => "event" \in behind'
      /\ Lacks(reqs[i].answer) \subseteq behind' /\ behind' \subseteq Kinds \cup {"event"}
      /\ UNCHANGED <<store, route, socket, failures>>
  BY DEF Receive, Lacks
<1>3. /\ reqs[i].owner = "page" /\ Fits(reqs[i].key, reqs[i].answer, row, gone, writes)
      /\ reqs[i].key \in Keys /\ reqs[i].answer.rows \in Held
  BY <1>1, <1>2, AnswerForm DEF RequestFits, Fits, Request
<1>4. /\ reqs' \in Seq(Request) /\ Len(reqs') = Len(reqs)
      /\ holds \in Nat /\ holds' \in 0 .. Len(reqs') /\ i <= holds' /\ holds <= holds'
  BY <1>1, <1>2, OneRequest DEF PagesTypeOK
<1>5. PagesTypeOK'
  BY <1>1, <1>2, <1>3, <1>4 DEF PagesTypeOK, store, socket
<1>6. /\ RoomLeft' /\ AnswersFit' /\ SaveInv' /\ OddsAscend' /\ Told' /\ ~Asking(reqs'[i])
      /\ \A j \in 1 .. Len(reqs) : j # i => reqs'[j] = reqs[j]
  BY <1>1, <1>2, <1>5, Dealing
<1>7. CurrentInv'
  <2>1. /\ "odds" \notin behind' => ShowsOdds(reqs[i].answer.rows)
        /\ "status" \notin behind' => ShowsStatus(reqs[i].answer.rows)
    BY <1>1, <1>2, <1>3, NotLacking
  <2>2. QED BY <1>2, <2>1 DEF CurrentInv, ShowsOdds, ShowsStatus, store
<1>8. \A j \in 1 .. Len(reqs') : Asking(reqs'[j]) => j # i /\ Asking(reqs[j]) /\ j \in 1 .. Len(reqs)
  BY <1>4, <1>6 DEF Asking
<1>9. RouteInv'
  <2> SUFFICES ASSUME route \in DetailKeys
               PROVE  \/ \E n \in 1 .. Len(reqs') :
                           /\ Asking(reqs'[n]) /\ reqs'[n].key = route
                           /\ \A j \in 1 .. Len(reqs') : Asking(reqs'[j]) => j <= n
                      \/ /\ "event" \in behind' \/ DOMAIN cards' \subseteq {route.event}
                         /\ \A j \in 1 .. Len(reqs') : Asking(reqs'[j]) => j < holds'
    BY <1>2 DEF RouteInv, Asking
  <2>1. Asking(reqs[i])
    BY <1>2, <1>3 DEF Asking
  <2>2. ASSUME NEW n \in 1 .. Len(reqs), Asking(reqs[n]), reqs[n].key = route,
               \A j \in 1 .. Len(reqs) : Asking(reqs[j]) => j <= n
        PROVE  \/ /\ Asking(reqs'[n]) /\ reqs'[n].key = route
                  /\ \A j \in 1 .. Len(reqs') : Asking(reqs'[j]) => j <= n
               \/ /\ "event" \in behind' \/ DOMAIN cards' \subseteq {route.event}
                  /\ \A j \in 1 .. Len(reqs') : Asking(reqs'[j]) => j < holds'
    <3>1. CASE n = i
      <4>1. DOMAIN cards' \subseteq {route.event}
        BY <1>2, <1>3, <2>2, <3>1 DEF Fits
      <4>2. \A j \in 1 .. Len(reqs') : Asking(reqs'[j]) => j < holds'
        <5> SUFFICES ASSUME NEW j \in 1 .. Len(reqs'), Asking(reqs'[j]) PROVE j < holds'
          OBVIOUS
        <5>1. j # i /\ j <= n /\ j \in Nat
          BY <1>8, <2>2
        <5>2. i \in Nat /\ holds' \in Nat
          BY <1>1, <1>4
        <5>3. QED BY <1>4, <3>1, <5>1, <5>2
      <4>3. QED BY <4>1, <4>2
    <3>2. CASE n # i
      <4>1. Asking(reqs'[n]) /\ reqs'[n].key = route
        BY <1>6, <2>2, <3>2 DEF Asking
      <4>2. QED BY <1>8, <2>2, <4>1
    <3>3. QED BY <3>1, <3>2
  <2>3. ASSUME \A j \in 1 .. Len(reqs) : Asking(reqs[j]) => j < holds
        PROVE  "event" \in behind' /\ \A j \in 1 .. Len(reqs') : Asking(reqs'[j]) => j < holds'
    <3>1. i < holds
      BY <1>1, <2>1, <2>3
    <3>2. holds' = holds
      BY <1>1, <1>2, <1>4, <3>1
    <3>3. QED BY <1>2, <1>8, <2>3, <3>1, <3>2
  <2>4. CASE \E n \in 1 .. Len(reqs) :
              /\ Asking(reqs[n]) /\ reqs[n].key = route
              /\ \A j \in 1 .. Len(reqs) : Asking(reqs[j]) => j <= n
    <3>1. PICK n \in 1 .. Len(reqs) :
              /\ Asking(reqs[n]) /\ reqs[n].key = route
              /\ \A j \in 1 .. Len(reqs) : Asking(reqs[j]) => j <= n
      BY <2>4
    <3>2. n \in 1 .. Len(reqs')
      BY <1>4
    <3>3. QED BY <2>2, <3>1, <3>2
  <2>5. QED BY <1>1, <2>3, <2>4 DEF RouteInv
<1>10. QED BY <1>5, <1>6, <1>7, <1>9 DEF PagesInv

\* The answer to a save, shown on whatever page there is by now, keeps the invariant.
LEMMA ReceiveSaveKeeps ==
  ASSUME PagesInv, NEW i \in InFlight, ReceiveSave(i)
  PROVE  PagesInv'
<1> DEFINE a == reqs[i].answer
           k == reqs[i].key
<1>1. /\ PagesTypeOK /\ CurrentInv /\ RouteInv /\ i \in 1 .. Len(reqs) /\ Len(reqs) \in Nat
      /\ reqs \in Seq(Request) /\ reqs[i] \in Request /\ RequestFits(reqs[i], row, gone, writes, Dirty)
      /\ Done \in Request
  BY PagesParts, DoneRequest
<1>2. /\ reqs[i].step = "answered" /\ reqs[i].saves /\ reqs' = [reqs EXCEPT ![i] = Done]
      /\ behind \subseteq behind' /\ Lacks(a) \subseteq behind' /\ behind' \subseteq Kinds \cup {"event"}
      /\ route \in DetailKeys /\ route # k => "event" \in behind'
      /\ UNCHANGED <<store, route, loading, holds, socket, failures>>
  <2>1. behind \subseteq Kinds \cup {"event"}
    BY <1>1 DEF PagesTypeOK
  <2>2. QED BY <2>1 DEF ReceiveSave, Lacks
<1>3. /\ k \in DetailKeys /\ k \in Keys /\ k.event \in Events
      /\ a.rows \in Held /\ DOMAIN a.rows = {k.event} /\ Fits(k, a, row, gone, writes)
  BY <1>1, <1>2, PageKeys, AnswerForm DEF RequestFits, Fits
<1>4. \/ events' = a.rows /\ cards' = a.rows
      \/ /\ route \notin DetailKeys /\ k.event \in DOMAIN cards
         /\ events' = events /\ cards' = [cards EXCEPT ![k.event] = a.rows[k.event]]
      \/ route \notin DetailKeys /\ events' = events /\ cards' = cards
  <2>1. route \in DetailKeys => route \notin ListKeys
    BY PageKeys
  <2>2. CASE route \in DetailKeys
    BY <2>1, <2>2 DEF ReceiveSave
  <2>3. CASE route \in ListKeys /\ ~loading /\ k.event \in DOMAIN cards
    BY <2>1, <2>3 DEF ReceiveSave
  <2>4. CASE ~(route \in DetailKeys) /\ ~(route \in ListKeys /\ ~loading /\ k.event \in DOMAIN cards)
    BY <2>4 DEF ReceiveSave
  <2>5. QED BY <2>1, <2>2, <2>3, <2>4
<1>5. /\ route \in DetailKeys => events' = a.rows /\ cards' = a.rows
      /\ events \in Held /\ cards \in Held /\ DOMAIN cards = DOMAIN events
      /\ a.rows[k.event] \in Row
  BY <1>1, <1>3, <1>4, HeldRows DEF PagesTypeOK
<1> HIDE DEF a, k
<1>6. events' \in Held /\ cards' \in Held /\ DOMAIN cards' = DOMAIN events'
  <2>1. ASSUME k.event \in DOMAIN cards
        PROVE  /\ [cards EXCEPT ![k.event] = a.rows[k.event]] \in Held
               /\ DOMAIN [cards EXCEPT ![k.event] = a.rows[k.event]] = DOMAIN cards
    <3>1. PICK e \in DOMAIN cards, r \in Row : e = k.event /\ r = a.rows[k.event]
      BY <1>5, <2>1
    <3>2. [cards EXCEPT ![e] = r] \in Held /\ DOMAIN [cards EXCEPT ![e] = r] = DOMAIN cards
      BY <1>5, RowReplaced
    <3> QED BY <3>1, <3>2
  <2>2. QED BY <1>3, <1>4, <1>5, <2>1
<1>7. reqs' \in Seq(Request) /\ Len(reqs') = Len(reqs)
  BY <1>1, <1>2, OneRequest
<1>8. PagesTypeOK'
  BY <1>1, <1>2, <1>6, <1>7 DEF PagesTypeOK, store, socket
<1>9. /\ RoomLeft' /\ AnswersFit' /\ SaveInv' /\ OddsAscend' /\ Told' /\ ~Asking(reqs'[i])
      /\ \A j \in 1 .. Len(reqs) : j # i => reqs'[j] = reqs[j]
  BY <1>1, <1>2, <1>8, Dealing
<1>10. CurrentInv'
  <2> DEFINE c == [cards EXCEPT ![k.event] = a.rows[k.event]]
  <2>1. row' = row /\ gone' = gone
    BY <1>2 DEF store
  <2>2. ASSUME k.event \in DOMAIN cards
        PROVE  /\ DOMAIN c = DOMAIN cards /\ c[k.event] = a.rows[k.event]
               /\ \A e \in DOMAIN cards : e # k.event => c[e] = cards[e]
    BY <1>5, <2>2, RowReplaced
  <2>3. \/ events' = a.rows /\ cards' = a.rows
        \/ events' = events /\ k.event \in DOMAIN cards /\ cards' = c
        \/ events' = events /\ cards' = cards
    BY <1>4
  <2> HIDE DEF c
  <2>4. ASSUME "odds" \notin behind' PROVE ShowsOdds(events)' /\ ShowsOdds(cards)'
    <3>1. ShowsOdds(a.rows) /\ ShowsOdds(events) /\ ShowsOdds(cards)
      BY <1>1, <1>2, <1>3, <2>4, NotLacking DEF CurrentInv
    <3>2. k.event \in DOMAIN cards => ShowsOdds(c)
      BY <1>3, <2>2, <3>1 DEF ShowsOdds
    <3> QED BY <2>1, <2>3, <3>1, <3>2 DEF ShowsOdds
  <2>5. ASSUME "status" \notin behind' PROVE ShowsStatus(events)' /\ ShowsStatus(cards)'
    <3>1. ShowsStatus(a.rows) /\ ShowsStatus(events) /\ ShowsStatus(cards)
      BY <1>1, <1>2, <1>3, <2>5, NotLacking DEF CurrentInv
    <3>2. k.event \in DOMAIN cards => ShowsStatus(c)
      BY <1>3, <2>2, <3>1 DEF ShowsStatus
    <3> QED BY <2>1, <2>3, <3>1, <3>2 DEF ShowsStatus
  <2> QED BY <2>4, <2>5 DEF CurrentInv
<1>11. RouteInv'
  <2>1. holds \in Nat /\ route' = route /\ holds' = holds
    BY <1>1, <1>2 DEF PagesTypeOK
  <2>2. \A j \in 1 .. Len(reqs) :
            /\ Asking(reqs'[j]) => Asking(reqs[j])
            /\ Asking(reqs[j]) /\ reqs[j].key = route =>
                 Asking(reqs'[j]) /\ reqs'[j].key = reqs[j].key
    BY <1>2, <1>9 DEF Asking
  <2>3. \A j \in Len(reqs) + 1 .. Len(reqs') : ~Asking(reqs'[j])
    BY <1>1, <1>7
  <2>4. Len(reqs) <= Len(reqs') /\ Len(reqs') \in Nat
    BY <1>1, <1>7
  <2>5. route \in DetailKeys => "event" \in behind' \/ DOMAIN cards' \subseteq {route.event}
    BY <1>2, <1>3, <1>5
  <2>6. QED BY <1>1, <2>1, <2>2, <2>3, <2>4, <2>5, RouteKept
<1>12. QED BY <1>8, <1>9, <1>10, <1>11 DEF PagesInv

\* A failed request keeps the invariant.
LEMMA FailsKeeps ==
  ASSUME PagesInv, NEW i \in InFlight, Fails(i)
  PROVE  PagesInv'
<1>1. /\ PagesTypeOK /\ CurrentInv /\ RouteInv /\ i \in 1 .. Len(reqs) /\ Len(reqs) \in Nat
      /\ reqs \in Seq(Request) /\ reqs[i] \in Request
      /\ Done \in Request /\ Home \in Keys /\ Home \notin DetailKeys
  BY PagesParts, DoneRequest, PageKeys
<1>2. /\ Room /\ failures' = failures + 1 /\ reqs[i].step = "sent"
      /\ UNCHANGED <<store, socket, behind>>
  BY DEF Fails
<1>3. failures' \in 0 .. MaxSteps
  <2>1. writes \in Nat /\ failures \in Nat /\ MaxSteps \in Nat
    BY <1>1, EventPagesAssumption DEF PagesTypeOK, Odds
  <2>2. QED BY <1>1, <1>2, <2>1 DEF Room
<1>4. CASE ~reqs[i].saves /\ reqs[i].key \in DetailKeys /\ route \in DetailKeys
  <2> DEFINE rs == [Left EXCEPT ![i] = Done]
  <2>1. /\ Left \in Seq(Request) /\ Len(Left) = Len(reqs)
        /\ \A j \in 1 .. Len(reqs) : Kept(Left[j], reqs[j])
    BY <1>1, Leaving DEF Left
  <2>2. /\ rs \in Seq(Request) /\ Len(rs) = Len(Left)
        /\ \A j \in 1 .. Len(Left) : rs[j] = IF j = i THEN Done ELSE Left[j]
    BY <1>1, <2>1, ExceptSeq
  <2>3. /\ route' = Home /\ loading' = TRUE /\ events' = Nothing /\ cards' = Nothing /\ holds' = 0
        /\ reqs' = Append(rs, NewRequest(Home, FALSE, "page"))
    BY <1>4 DEF Fails
  <2> HIDE DEF rs
  <2>4. \A j \in 1 .. Len(reqs) : Kept(rs[j], reqs[j])
    BY <1>2, <2>1, <2>2 DEF Kept
  <2>5. Len(rs) = Len(reqs)
    BY <2>1, <2>2
  <2>6. QED BY <1>1, <1>2, <1>3, <2>2, <2>3, <2>4, <2>5, PageMoves
<1>5. CASE ~(~reqs[i].saves /\ reqs[i].key \in DetailKeys /\ route \in DetailKeys)
  <2>1. /\ reqs' = [reqs EXCEPT ![i] = Done]
        /\ loading' \in {FALSE, loading} /\ cards' \in {events, cards}
        /\ UNCHANGED <<route, events, holds>>
    BY <1>5 DEF Fails
  <2>2. reqs' \in Seq(Request) /\ Len(reqs') = Len(reqs)
    BY <1>1, <2>1, OneRequest
  <2>3. events \in Held /\ cards \in Held /\ DOMAIN cards = DOMAIN events /\ holds \in Nat
    BY <1>1 DEF PagesTypeOK
  <2>4. PagesTypeOK'
    BY <1>1, <1>2, <1>3, <2>1, <2>2, <2>3 DEF PagesTypeOK, store, socket
  <2>5. /\ RoomLeft' /\ AnswersFit' /\ SaveInv' /\ OddsAscend' /\ Told' /\ ~Asking(reqs'[i])
        /\ \A j \in 1 .. Len(reqs) : j # i => reqs'[j] = reqs[j]
    BY <1>1, <1>2, <2>1, <2>4, Dealing
  <2>6. CurrentInv'
    BY <1>1, <1>2, <2>1 DEF CurrentInv, ShowsOdds, ShowsStatus, store
  <2>7. RouteInv'
    <3>1. route \in DetailKeys /\ reqs[i].key = route => ~Asking(reqs[i])
      BY <1>5 DEF Asking
    <3>2. \A j \in 1 .. Len(reqs) :
            /\ Asking(reqs'[j]) => Asking(reqs[j])
            /\ route \in DetailKeys /\ Asking(reqs[j]) /\ reqs[j].key = route =>
                 Asking(reqs'[j]) /\ reqs'[j].key = reqs[j].key
      BY <2>5, <3>1 DEF Asking
    <3>3. CASE route \in DetailKeys
      <4>1. \A j \in Len(reqs) + 1 .. Len(reqs') : ~Asking(reqs'[j])
        BY <1>1, <2>2
      <4>2. Len(reqs) <= Len(reqs') /\ Len(reqs') \in Nat
        BY <1>1, <2>2
      <4>3. DOMAIN cards' \subseteq DOMAIN cards
        BY <2>1, <2>3
      <4>4. route' = route /\ holds' = holds /\ behind' = behind
        BY <1>2, <2>1
      <4>5. QED BY <1>1, <2>3, <3>2, <3>3, <4>1, <4>2, <4>3, <4>4, RouteKept
    <3>4. CASE route \notin DetailKeys
      BY <2>1, <3>4 DEF RouteInv
    <3>5. QED BY <3>3, <3>4
  <2>8. QED BY <2>4, <2>5, <2>6, <2>7 DEF PagesInv
<1>6. QED BY <1>4, <1>5

-----------------------------------------------------------------------------
\* The invariant, and what it says

\* A page that opens satisfies the invariant.
LEMMA PagesOpen == PagesInit => PagesInv
<1> SUFFICES ASSUME PagesInit PROVE PagesInv
  OBVIOUS
<1> DEFINE r == NewRequest(Home, FALSE, "page")
<1>1. /\ r \in Request /\ r.step = "sent" /\ ~r.saves /\ r.key = Home /\ r.owner = "page"
      /\ Home \in Keys /\ Home \notin DetailKeys
  <2>1. Home \in Keys /\ Home \notin DetailKeys
    BY PageKeys
  <2>2. r \in Request
    BY <2>1, DoneRequest
  <2>3. r.step = "sent" /\ ~r.saves /\ r.key = Home /\ r.owner = "page"
    BY DEF NewRequest
  <2>4. QED BY <2>1, <2>2, <2>3
<1> HIDE DEF r
<1>2. /\ row = [e \in Events |-> [odds |-> 0, status |-> "UPCOMING"]] /\ writes = 0
      /\ cache = [k \in Keys |-> None] /\ job = None /\ reqs = <<r>> /\ route = Home
      /\ loading = TRUE /\ events = Nothing /\ cards = Nothing
      /\ joined = FALSE /\ ear \in BOOLEAN /\ wire = << >> /\ holds = 0 /\ behind = {}
      /\ failures = 0 /\ gone = [e \in Events |-> [kind \in Kinds |-> 0]]
  BY DEF PagesInit, r
<1>3. reqs \in Seq(Request) /\ Len(reqs) = 1 /\ reqs[1] = r /\ \A j \in 1 .. Len(reqs) : j = 1
  BY <1>1, <1>2
<1>4. /\ row \in [Events -> Row] /\ \A e \in Events : row[e].odds = 0
      /\ gone \in [Events -> [Kinds -> Odds]] /\ \A e \in Events : gone[e]["odds"] = 0
      /\ 0 \in Odds /\ 0 \in 0 .. MaxSteps
  BY <1>2, EventPagesAssumption DEF Row, Odds, Kinds, RowStatuses
<1>5. wire \in Seq([event : Events, odds : Odds]) /\ Len(wire) = 0
  BY <1>2, EmptySeq
<1>6. PagesTypeOK
  <2>1. DOMAIN cache = Keys /\ \A k \in Keys : cache[k] = None
    BY <1>2
  <2>2. events \in Held /\ cards \in Held /\ DOMAIN cards = DOMAIN events
    BY <1>2, HeldRows
  <2>3. writes \in Odds /\ holds \in 0 .. Len(reqs) /\ failures \in 0 .. MaxSteps
    BY <1>2, <1>3, <1>4
  <2>4. {loading, joined, ear} \subseteq BOOLEAN /\ behind \subseteq Kinds \cup {"event"}
    BY <1>2
  <2>5. QED BY <1>1, <1>2, <1>3, <1>4, <1>5, <2>1, <2>2, <2>3, <2>4 DEF PagesTypeOK
<1>7. RoomLeft
  <2>1. Waiting = {}
    BY <1>1, <1>3 DEF Waiting
  <2>2. Cardinality({}) = 0
    BY FS_EmptySet
  <2>3. QED BY <1>2, <2>1, <2>2, EventPagesAssumption DEF RoomLeft
<1>8. AnswersFit
  BY <1>1, <1>2, <1>3 DEF AnswersFit, RequestFits
<1>9. OddsAscend
  BY <1>2, <1>4, <1>5 DEF OddsAscend
<1>14. Told
  BY <1>4 DEF Told
<1>10. SaveInv
  BY <1>1, <1>3 DEF SaveInv
<1>11. CurrentInv
  BY <1>2, HeldRows DEF CurrentInv, ShowsOdds, ShowsStatus
<1>12. RouteInv
  BY <1>1, <1>2 DEF RouteInv
<1>13. QED BY <1>6, <1>7, <1>8, <1>9, <1>10, <1>11, <1>12, <1>14 DEF PagesInv

\* Every step keeps the invariant.
LEMMA PagesStep == PagesInv /\ [PagesNext]_pagesVars => PagesInv'
<1> SUFFICES ASSUME PagesInv, [PagesNext]_pagesVars PROVE PagesInv'
  OBVIOUS
<1>1. ASSUME NEW i \in InFlight, Serve(i) PROVE PagesInv'
  BY <1>1, ReadersKeep, WriteSaveKeeps, BustSavedKeeps DEF Serve
<1>2. ASSUME NEW i \in InFlight, Reply(i) \/ Fails(i) PROVE PagesInv'
  BY <1>2, ReceiveKeeps, ReceiveSaveKeeps, FailsKeeps DEF Reply
<1>3. ASSUME NEW e \in Changing, WriteOdds(e) \/ GoLive(e) \/ Save(e) \/ PlaceBet(e)
      PROVE  PagesInv'
  <2>1. e \in Events
    BY EventPagesAssumption
  <2>2. CASE WriteOdds(e)
    BY <2>1, <2>2, WriteOddsKeeps
  <2>3. CASE GoLive(e) \/ PlaceBet(e)
    BY <2>1, <2>3, GoLiveKeeps, QuietKeep
  <2>4. CASE Save(e)
    BY <2>4, SaveKeeps
  <2>5. QED BY <1>3, <2>2, <2>3, <2>4
<1>4. CASE Back \/ (\E e \in Events : OpenDetail(e)) \/ (\E f \in RowStatuses : SelectTab(f))
  BY <1>4, SelectionsKeep
<1>5. CASE BustCache \/ Broadcast
  BY <1>5, BustCacheKeeps, BroadcastKeeps
<1>6. CASE Connect \/ Rerender
  BY <1>6, QuietKeep
<1>7. CASE Disconnect \/ Deliver
  BY <1>7, QuietKeep, DeliverKeeps
<1>8. CASE UNCHANGED pagesVars
  BY <1>8 DEF pagesVars, store, page, socket, PagesInv, PagesTypeOK, RoomLeft, Waiting, AnswersFit,
              OddsAscend, Told, Telling, Dirty, Unbusted, InFlight, SaveInv, CurrentInv, ShowsOdds,
              ShowsStatus, RouteInv, Asking
<1>9. QED BY <1>1, <1>2, <1>3, <1>4, <1>5, <1>6, <1>7, <1>8 DEF PagesNext

\* The invariant holds, whatever the events and however long the behaviour.
LEMMA PagesHold == PagesSpec => []PagesInv
<1>1. QED BY PagesOpen, PagesStep, PTL DEF PagesSpec

\* The rows, the cache, the requests, the page and the pushes on their way have their
\* types, for every number of requests, changes, failures and disconnections.
THEOREM PagesTypes == PagesSpec => []PagesTypeOK
<1>1. PagesInv => PagesTypeOK
  BY DEF PagesInv
<1>2. QED BY <1>1, PagesHold, PTL

\* The answer to an admin's save has the odds it wrote or later ones, unless a reader
\* that had read the row before it filled the cache in between.
THEOREM SavesAreSeen == PagesSpec => []SaveIsSeen
<1>1. PagesInv => SaveIsSeen
  <2> SUFFICES ASSUME PagesInv, NEW i \in InFlight,
                      reqs[i].saves, reqs[i].step = "answered", ~reqs[i].answer.raced
               PROVE  reqs[i].answer.rows[reqs[i].key.event].odds >= reqs[i].wrote
    BY DEF SaveIsSeen
  <2>1. SaveInv /\ i \in 1 .. Len(reqs)
    BY PagesParts
  <2>2. Saved(reqs[i], row, cache, reqs)
    BY <2>1 DEF SaveInv
  <2>3. QED BY <2>2 DEF Saved
<1>2. QED BY <1>1, PagesHold, PTL

\* When nothing is on its way the page shows the odds and the statuses of the rows, and the
\* event of its address, unless a change that nobody has told it of came after the rows
\* were read, or the answer shown last is older, or of another event.
THEOREM PagesAreCurrent == PagesSpec => []PageIsCurrent
<1>1. PagesInv => PageIsCurrent
  <2> SUFFICES ASSUME PagesInv, Quiet
               PROVE  /\ \A e \in DOMAIN cards :
                           /\ "odds" \notin behind => cards[e].odds = row[e].odds
                           /\ "status" \notin behind => cards[e].status = row[e].status
                      /\ route \in DetailKeys /\ "event" \notin behind => DOMAIN cards \subseteq {route.event}
    BY DEF PageIsCurrent
  <2>1. PagesTypeOK /\ Told /\ CurrentInv /\ RouteInv
    BY PagesParts
  <2>2. Len(wire) = 0 /\ job = None /\ \A j \in 1 .. Len(reqs) : reqs[j].step = "done"
    BY DEF Quiet, InFlight
  <2>3. \A e \in Events : gone[e]["odds"] = row[e].odds
    BY <2>1, <2>2 DEF Told, Telling
  <2>4. \A e \in DOMAIN cards :
          /\ "odds" \notin behind => cards[e].odds = row[e].odds
          /\ "status" \notin behind => cards[e].status = row[e].status
    BY <2>1, <2>3, HeldRows DEF PagesTypeOK, CurrentInv, ShowsOdds, ShowsStatus
  <2>5. ~\E n \in 1 .. Len(reqs) : Asking(reqs[n])
    BY <2>2 DEF Asking
  <2>6. QED BY <2>1, <2>4, <2>5 DEF RouteInv
<1>2. QED BY <1>1, PagesHold, PTL

-----------------------------------------------------------------------------
\* The life of an event

USE EventLifecycleAssumption

-----------------------------------------------------------------------------
\* A step of PandaScore changes a match into a possible answer; once it is decided,
\* only the order of its opponents changes.
LEMMA MatchStepMoves ==
  ASSUME TypeOK, NEW m \in Matches, MatchStep(m)
  PROVE  /\ UNCHANGED <<rowVars, matchesJob, liveJob, resultsJob, edits, faults>>
         /\ api' \in [Matches -> Answers] /\ moved' \subseteq Matches
         /\ moved \subseteq moved'
         /\ \A n \in Matches : n \notin moved' => api'[n].first \in {api[n].first, "t1"}
         /\ \A n \in Matches : Decided(n) =>
              api'[n].state = api[n].state /\ api'[n].winner = api[n].winner /\ api'[n].draw = api[n].draw
<1> USE DEF TypeOK, Decided, First, Teams
<1> DEFINE Goal  == /\ UNCHANGED <<rowVars, matchesJob, liveJob, resultsJob, edits, faults>>
                    /\ api' \in [Matches -> Answers] /\ moved' \subseteq Matches
                    /\ moved \subseteq moved'
                    /\ \A n \in Matches : n \notin moved' => api'[n].first \in {api[n].first, "t1"}
                    /\ \A n \in Matches : Decided(n) =>
                         /\ api'[n].state = api[n].state /\ api'[n].winner = api[n].winner
                         /\ api'[n].draw = api[n].draw
<1>1. ASSUME NEW a \in Answers, Progress(m, a), ~Decided(m), a.first = api[m].first PROVE Goal
  BY <1>1 DEF Progress
<1>2. CASE MatchStarts(m)
  <2>1. [api[m] EXCEPT !.state = "running"] \in Answers
    BY DEF Answers
  <2> QED BY <1>1, <1>2, <2>1 DEF MatchStarts, Answers
<1>3. CASE MatchEnds(m)
  <2>1. PICK w \in First, d \in BOOLEAN :
          Progress(m, [api[m] EXCEPT !.state = "finished", !.winner = w, !.draw = d])
    BY <1>3 DEF MatchEnds
  <2>2. [api[m] EXCEPT !.state = "finished", !.winner = w, !.draw = d] \in Answers
    BY DEF Answers
  <2> QED BY <1>1, <1>3, <2>1, <2>2 DEF MatchEnds, Answers
<1>4. CASE WinnerEntered(m)
  <2>1. PICK w \in Teams : Progress(m, [api[m] EXCEPT !.winner = w])
    BY <1>4 DEF WinnerEntered
  <2>2. [api[m] EXCEPT !.winner = w] \in Answers
    BY DEF Answers
  <2> QED BY <1>1, <1>4, <2>1, <2>2 DEF WinnerEntered, Answers
<1>5. CASE MatchCanceled(m)
  <2>1. [api[m] EXCEPT !.state = "canceled"] \in Answers
    BY DEF Answers
  <2> QED BY <1>1, <1>5, <2>1 DEF MatchCanceled, Answers
<1>6. CASE OpponentsKnown(m)
  <2>1. [api[m] EXCEPT !.first = "t1"] \in Answers
    BY DEF Answers
  <2>2. api' = [api EXCEPT ![m] = [api[m] EXCEPT !.first = "t1"]] /\ moved' = moved
    BY <1>6 DEF OpponentsKnown, Progress
  <2> QED BY <1>6, <2>1, <2>2 DEF OpponentsKnown, Progress, Answers
<1>7. CASE OpponentsMove(m)
  <2>1. PICK f \in {"t2", "none"} : api' = [api EXCEPT ![m].first = f]
    BY <1>7 DEF OpponentsMove
  <2>2. [api[m] EXCEPT !.first = f] \in Answers
    BY DEF Answers
  <2>3. api' = [api EXCEPT ![m] = [api[m] EXCEPT !.first = f]] /\ moved' = moved \cup {m}
    BY <1>7, <2>1 DEF OpponentsMove
  <2> QED BY <1>7, <2>2, <2>3 DEF OpponentsMove, Answers
<1> QED BY <1>2, <1>3, <1>4, <1>5, <1>6, <1>7 DEF MatchStep

-----------------------------------------------------------------------------
\* Types

\* No answer is none of the answers.
LEMMA NoAnswerType ==
    NoAnswer \in Answers /\ [NoAnswer EXCEPT !.state = "not_started"] \in Answers
  BY DEF NoAnswer, Answers, First, Teams

\* The types hold at the start.
LEMMA TypeInit == Init => TypeOK
  BY NoAnswerType DEF Init, TypeOK, Idle, Statuses, Ended, First, Lists

\* What a request for matches answers is entries.
LEMMA ListEntries ==
  ASSUME TypeOK, NEW list \in Lists, MatchesList(list)
  PROVE  /\ UNCHANGED <<apiVars, rowVars, liveJob, resultsJob, edits, faults>>
         /\ listed' \subseteq Entries /\ answered' \subseteq Lists
         /\ \A x \in listed' \ listed : x.first = api[x.match].first
<1>1. PICK some \in SUBSET {m \in Matches : api[m].first # "none"} :
        listed' = listed \cup {[match |-> m, status |-> list, first |-> api[m].first] : m \in some}
  BY DEF MatchesList, Fetched
<1>2. \A m \in some : api[m].first \in Teams
  BY DEF TypeOK, Answers, First
<1>3. {[match |-> m, status |-> list, first |-> api[m].first] : m \in some} \subseteq Entries
  BY <1>2 DEF Entries
<1>4. \A x \in listed' \ listed : x.first = api[x.match].first
  BY <1>1
<1>5. answered' \subseteq Lists
  BY DEF MatchesList, NowAnswered, TypeOK
<1> QED BY <1>1, <1>3, <1>4, <1>5 DEF MatchesList, TypeOK

\* Every step keeps the types.
LEMMA TypeStep == TypeOK /\ [Next]_vars => TypeOK'
<1> SUFFICES ASSUME TypeOK, [Next]_vars PROVE TypeOK'
  OBVIOUS
<1> USE DEF TypeOK, Statuses, Ended, Idle, apiVars, rowVars, matchesJob, liveJob, resultsJob
<1>1. ASSUME NEW m \in Matches, MatchStep(m) PROVE TypeOK'
  BY <1>1, MatchStepMoves
<1>2. ASSUME NEW m \in Matches, StartTimePasses(m) PROVE TypeOK'
  BY <1>2 DEF StartTimePasses
<1>3. ASSUME NEW list \in Lists, MatchesList(list) PROVE TypeOK'
  BY <1>3, ListEntries
<1>4. ASSUME NEW x \in listed, MatchesUpsert(x) PROVE TypeOK'
  <2>1. x.match \in Matches /\ x.status \in Lists /\ x.first \in Teams
    BY DEF Entries
  <2>2. status' \in [Matches -> Statuses \cup {"absent"}] /\ due' \in [Matches -> BOOLEAN]
    BY <1>4, <2>1 DEF MatchesUpsert, Lists
  <2>3. teamA' \in [Matches -> First] /\ answered' \subseteq Lists /\ listed' \subseteq Entries
    BY <1>4, <2>1 DEF MatchesUpsert, NowAnswered, First
  <2> QED BY <1>4, <2>2, <2>3 DEF MatchesUpsert
<1>5. ASSUME LiveList PROVE TypeOK'
  <2>1. \A m \in Matches : api[m].first \in First
    BY DEF Answers
  <2> QED BY <1>5, <2>1 DEF LiveList, Fetched
<1>6. ASSUME LiveRead PROVE TypeOK'
  BY <1>6 DEF LiveRead
<1>7. ASSUME NEW m \in Matches, LiveWrite(m) PROVE TypeOK'
  <2>1. status' \in [Matches -> Statuses \cup {"absent"}] /\ due' \in [Matches -> BOOLEAN]
    BY <1>7 DEF LiveWrite
  <2>2. teamA' \in [Matches -> First]
    <3>1. CASE UNCHANGED teamA
      BY <3>1
    <3>2. CASE seen[m] = "absent" /\ teamA' = [teamA EXCEPT ![m] = running[m]]
      <4>1. running[m] \in First
        BY <1>7, <3>2 DEF LiveWrite, First, Creates
      <4> QED BY <3>2, <4>1
    <3> QED BY <1>7, <3>1, <3>2 DEF LiveWrite, Creates
  <2> QED BY <1>7, <2>1, <2>2 DEF LiveWrite
<1>8. ASSUME ResultsRead PROVE TypeOK'
  BY <1>8 DEF ResultsRead
<1>9. ASSUME NEW m \in Matches, ResultsAsk(m) PROVE TypeOK'
  BY <1>9, NoAnswerType DEF ResultsAsk
<1>10. ASSUME ResultsWrite PROVE TypeOK'
  <2>1. match \in Matches
    BY <1>10 DEF ResultsWrite
  <2> DEFINE RowTyped == /\ status' \in [Matches -> Statuses \cup {"absent"}]
                         /\ winner' \in [Matches -> {"a", "b", "none"}]
                         /\ posted' \in [Matches -> Seq({"a", "b", "void"})]
  <2>2. RowTyped
    <3>a. \A x \in {"a", "b", "void"} : Append(posted[match], x) \in Seq({"a", "b", "void"})
      BY <2>1, AppendProperties
    <3>1. SideOf(answer) \in {"a", "b"}
      BY DEF SideOf
    <3>2. ASSUME NEW w \in {"a", "b"}, Finish(match, w) PROVE RowTyped
      BY <3>2, <3>a, <2>1 DEF Finish
    <3>3. ASSUME Cancel(match) PROVE RowTyped
      BY <3>3, <3>a, <2>1 DEF Cancel
    <3>4. ASSUME UNCHANGED <<winner, posted>>, status' \in {status, [status EXCEPT ![match] = "LIVE"]}
          PROVE  RowTyped
      BY <3>4, <2>1
    <3> QED BY <1>10, <2>1, <3>1, <3>2, <3>3, <3>4 DEF ResultsWrite, Conclude
  <2>3. answer' \in Answers /\ match' = Idle
    BY <1>10, NoAnswerType DEF ResultsWrite
  <2> QED BY <1>10, <2>1, <2>2, <2>3 DEF ResultsWrite
<1>11. ASSUME NEW m \in Matches, AdminSetsStatus(m) PROVE TypeOK'
  BY <1>11 DEF AdminSetsStatus
<1>12. ASSUME JobFails PROVE TypeOK'
  BY <1>12, NoAnswerType DEF JobFails
<1>13. CASE UNCHANGED vars
  BY <1>13 DEF vars
<1> QED
  BY <1>1, <1>2, <1>3, <1>4, <1>5, <1>6, <1>7, <1>8, <1>9, <1>10, <1>11, <1>12, <1>13 DEF Next

\* THEOREM TypeCorrect: every variable keeps its type, whatever the jobs, the admin
\* and PandaScore do.
THEOREM TypeCorrect == Spec => []TypeOK
  BY TypeInit, TypeStep, PTL DEF Spec


-----------------------------------------------------------------------------
\* What is posted.  The results job writes from an answer it has had for a while; that
\* is sound because a decided match does not change any more, and because, while its
\* opponents keep their order, every list and answer that has them, and so the row,
\* has the same team first.

Decides(a) == a.state = "canceled" \/ (a.state = "finished" /\ a.winner # "none")

\* The live and the results job are at work on rows; an event with a result is a row.
RowsRead ==
    /\ \A m \in Matches : seen[m] \in Statuses => status[m] # "absent"
    /\ \A m \in pending : status[m] # "absent"
    /\ match # Idle => match \in pending
    /\ \A m \in Matches : posted[m] # <<>> \/ winner[m] # "none" => status[m] # "absent" /\ Decided(m)

OrderKept ==
    \A m \in Matches \ moved :
        /\ api[m].first \in {"none", "t1"}
        /\ \A x \in listed : x.match = m => x.first = "t1" /\ api[m].first = "t1"
        /\ running[m] \in Teams => running[m] = "t1" /\ api[m].first = "t1"
        /\ status[m] # "absent" => teamA[m] = "t1" /\ api[m].first = "t1"

HeardRight ==
    Decides(answer) =>
        /\ match \in pending /\ Decided(match)
        /\ answer.state = api[match].state
        /\ answer.winner = api[match].winner /\ answer.draw = api[match].draw
        /\ match \notin moved => answer.first = "t1"

ResultInv == TypeOK /\ RowsRead /\ OrderKept /\ HeardRight /\ PostedIsVerdict

\* No event has a result at the start.
LEMMA ResultInit == Init => ResultInv
<1> SUFFICES ASSUME Init PROVE RowsRead /\ OrderKept /\ HeardRight /\ PostedIsVerdict
  BY TypeInit DEF ResultInv
<1>1. ~Decides(NoAnswer) /\ NoAnswer.first = "none"
  BY DEF Decides, NoAnswer
<1>2. \A m \in Matches : api[m].first = "none"
  BY DEF Init, NoAnswer
<1>3. RowsRead /\ HeardRight /\ PostedIsVerdict
  BY <1>1 DEF Init, RowsRead, HeardRight, PostedIsVerdict, Idle, Statuses, Ended
<1>4. OrderKept
  BY <1>2 DEF Init, OrderKept, Idle, Teams
<1> QED BY <1>3, <1>4

\* A match that is decided stays so.
LEMMA DecidedStays ==
  ASSUME TypeOK, [Next]_vars
  PROVE  \A m \in Matches : Decided(m) =>
           /\ Decided(m)'
           /\ api'[m].state = api[m].state /\ api'[m].winner = api[m].winner /\ api'[m].draw = api[m].draw
<1>1. CASE UNCHANGED api
  BY <1>1 DEF Decided
<1>2. CASE \E m \in Matches : MatchStep(m)
  BY <1>2, MatchStepMoves DEF Decided
<1> QED
  BY <1>1, <1>2
     DEF Next, vars, apiVars, StartTimePasses, MatchesList, MatchesUpsert, LiveList, LiveRead, LiveWrite,
         ResultsRead, ResultsAsk, ResultsWrite, AdminSetsStatus, JobFails

\* A row stays a row.
LEMMA RowStays ==
  ASSUME TypeOK, [Next]_vars
  PROVE  \A m \in Matches : status[m] # "absent" => status'[m] # "absent"
<1> USE DEF TypeOK, Statuses, Ended, rowVars, apiVars, matchesJob, liveJob, resultsJob
<1>1. ASSUME UNCHANGED status PROVE \A m \in Matches : status[m] # "absent" => status'[m] # "absent"
  BY <1>1
<1>2. ASSUME NEW x \in listed, MatchesUpsert(x)
      PROVE  \A m \in Matches : status[m] # "absent" => status'[m] # "absent"
  BY <1>2 DEF MatchesUpsert, Entries, Lists
<1>3. ASSUME ResultsWrite PROVE \A m \in Matches : status[m] # "absent" => status'[m] # "absent"
  BY <1>3 DEF ResultsWrite, Conclude, Finish, Cancel
<1>4. ASSUME NEW n \in Matches, LiveWrite(n) \/ AdminSetsStatus(n)
      PROVE  \A m \in Matches : status[m] # "absent" => status'[m] # "absent"
  BY <1>4 DEF LiveWrite, AdminSetsStatus
<1> QED
  BY <1>1, <1>2, <1>3, <1>4
     DEF Next, vars, MatchStep, MatchStarts, MatchEnds, WinnerEntered, MatchCanceled, OpponentsKnown,
         OpponentsMove, Progress, StartTimePasses, MatchesList, LiveList, LiveRead, ResultsRead,
         ResultsAsk, JobFails

\* The results job works on rows, and gives results to the matches that have one.
LEMMA RowsReadStep ==
  ASSUME ResultInv, [Next]_vars
  PROVE  RowsRead'
<1> USE DEF rowVars, apiVars, matchesJob, liveJob, resultsJob
<1>0. TypeOK /\ RowsRead
  BY DEF ResultInv
<1>1. \A m \in Matches : /\ status[m] # "absent" => status'[m] # "absent"
                         /\ Decided(m) => Decided(m)'
  BY <1>0, RowStays, DecidedStays
<1>a. \A m \in Matches : seen'[m] \in Statuses => status'[m] # "absent"
  <2>1. ASSUME NEW m \in Matches, seen'[m] # seen[m], seen'[m] \in Statuses PROVE status[m] # "absent"
    <3>1. CASE LiveRead
      BY <2>1, <3>1 DEF LiveRead, Idle, Statuses, Ended
    <3>2. ASSUME NEW n \in Matches, LiveWrite(n) PROVE FALSE
      BY <1>0, <2>1, <3>2 DEF LiveWrite, TypeOK, Idle, Statuses, Ended
    <3>3. CASE JobFails
      BY <2>1, <3>3 DEF JobFails, Idle, Statuses, Ended
    <3> QED
      BY <2>1, <3>1, <3>2, <3>3
         DEF Next, vars, MatchStep, MatchStarts, MatchEnds, WinnerEntered, MatchCanceled, OpponentsKnown,
             OpponentsMove, Progress, StartTimePasses, MatchesList, MatchesUpsert, LiveList, ResultsRead,
             ResultsAsk, ResultsWrite, AdminSetsStatus
  <2> QED BY <1>0, <1>1, <2>1 DEF RowsRead
<1>2. ASSUME UNCHANGED <<winner, posted>>, pending' \subseteq pending, match' = Idle \/ match' \in pending'
      PROVE  RowsRead'
  BY <1>0, <1>1, <1>2, <1>a DEF RowsRead, TypeOK
<1>3. ASSUME ResultsRead PROVE RowsRead'
  <2>1. match = Idle /\ UNCHANGED <<winner, posted, status, match>>
    BY <1>0, <1>3 DEF ResultsRead, RowsRead
  <2>2. \A m \in pending' : status[m] # "absent"
    BY <1>3 DEF ResultsRead
  <2> QED BY <1>0, <1>1, <1>a, <2>1, <2>2 DEF RowsRead
<1>4. ASSUME ResultsWrite PROVE RowsRead'
  <2>1. /\ match \in pending /\ match \in Matches /\ match' = Idle /\ pending' = pending \ {match}
        /\ Conclude(match, answer) /\ status[match] # "absent"
    BY <1>0, <1>4 DEF ResultsWrite, RowsRead, TypeOK
  <2>2. \A m \in Matches \ {match} : posted'[m] = posted[m] /\ winner'[m] = winner[m]
    BY <1>0, <2>1 DEF Conclude, Finish, Cancel, TypeOK
  <2>3. \/ posted'[match] = posted[match] /\ winner'[match] = winner[match]
        \/ Decided(match)
    BY <2>1 DEF ResultInv, HeardRight, Conclude, Decides
  <2> QED BY <1>0, <1>1, <1>a, <2>1, <2>2, <2>3 DEF RowsRead, TypeOK
<1>5. ASSUME NEW m \in Matches, ResultsAsk(m) PROVE RowsRead'
  BY <1>0, <1>2, <1>5 DEF ResultsAsk
<1>6. ASSUME UNCHANGED <<winner, posted, match, pending>> PROVE RowsRead'
  BY <1>0, <1>2, <1>6 DEF RowsRead
<1>7. ASSUME JobFails PROVE RowsRead'
  <2>1. UNCHANGED <<winner, posted>> /\ (UNCHANGED <<match, pending>> \/ (pending' = {} /\ match' = Idle))
    BY <1>7 DEF JobFails
  <2> QED BY <1>2, <1>6, <2>1
<1>8. ASSUME NEW m \in Matches, MatchStep(m) PROVE RowsRead'
  BY <1>0, <1>6, <1>8, MatchStepMoves
<1> QED
  BY <1>3, <1>4, <1>5, <1>6, <1>7, <1>8
     DEF Next, vars, StartTimePasses, MatchesList, MatchesUpsert, LiveList, LiveRead, LiveWrite,
         AdminSetsStatus

\* While the opponents of a match keep their order, t1 is first wherever they are.
LEMMA OrderStep ==
  ASSUME ResultInv, [Next]_vars
  PROVE  OrderKept' /\ moved \subseteq moved'
<1> USE DEF rowVars, apiVars, matchesJob, liveJob, resultsJob
<1>0. TypeOK /\ RowsRead /\ OrderKept
  BY DEF ResultInv
<1>1. ASSUME UNCHANGED <<api, moved, running, teamA>>, listed' \subseteq listed,
             \A m \in Matches : status'[m] # "absent" => status[m] # "absent"
      PROVE  OrderKept' /\ moved \subseteq moved'
  BY <1>1, <1>0 DEF OrderKept
<1>2. ASSUME NEW m \in Matches, MatchStep(m) PROVE OrderKept' /\ moved \subseteq moved'
  BY <1>0, <1>2, MatchStepMoves DEF OrderKept
<1>3. ASSUME NEW list \in Lists, MatchesList(list) PROVE OrderKept' /\ moved \subseteq moved'
  <2>1. /\ UNCHANGED <<api, moved, running, status, teamA>> /\ listed' \subseteq Entries
        /\ \A x \in listed' \ listed : x.first = api[x.match].first
    BY <1>0, <1>3, ListEntries
  <2>2. \A x \in listed' : x.match \in Matches \ moved =>
           x.first = "t1" /\ api[x.match].first = "t1"
    BY <1>0, <2>1 DEF OrderKept, Entries, Teams
  <2> QED BY <1>0, <2>1, <2>2 DEF OrderKept
<1>4. ASSUME NEW x \in listed, MatchesUpsert(x) PROVE OrderKept' /\ moved \subseteq moved'
  <2>1. /\ UNCHANGED <<api, moved, running>> /\ listed' \subseteq listed
        /\ teamA' = [teamA EXCEPT ![x.match] = x.first]
        /\ \A m \in Matches \ {x.match} : status'[m] = status[m]
    BY <1>0, <1>4 DEF MatchesUpsert, TypeOK
  <2> QED BY <1>0, <2>1 DEF OrderKept, TypeOK
<1>5. ASSUME LiveList PROVE OrderKept' /\ moved \subseteq moved'
  <2>1. /\ UNCHANGED <<api, moved, listed, status, teamA>>
        /\ \A m \in Matches : running'[m] \in {api[m].first, Idle}
    BY <1>5 DEF LiveList
  <2> QED BY <1>0, <2>1 DEF OrderKept, Teams, Idle
<1>6. ASSUME NEW m \in Matches, LiveWrite(m) PROVE OrderKept' /\ moved \subseteq moved'
  <2>1. /\ UNCHANGED <<api, moved, listed>>
        /\ running' = [running EXCEPT ![m] = Idle]
        /\ \A n \in Matches \ {m} : status'[n] = status[n] /\ teamA'[n] = teamA[n]
    BY <1>0, <1>6 DEF LiveWrite, TypeOK
  <2>2. CASE Creates(m)
    <3>1. running[m] \in Teams /\ (teamA'[m] = running[m] \/ UNCHANGED <<status, teamA>>)
      BY <1>0, <1>6, <2>2 DEF LiveWrite, Creates, TypeOK, First
    <3> QED BY <1>0, <2>1, <3>1 DEF OrderKept, TypeOK, Teams, Idle
  <2>3. CASE ~Creates(m)
    <3>1. UNCHANGED teamA /\ (seen[m] = "UPCOMING" \/ UNCHANGED status)
      BY <1>6, <2>3 DEF LiveWrite
    <3>2. seen[m] = "UPCOMING" => status[m] # "absent"
      BY <1>0 DEF RowsRead, Statuses
    <3> QED BY <1>0, <2>1, <3>1, <3>2 DEF OrderKept, TypeOK, Teams, Idle
  <2> QED BY <2>2, <2>3
<1>7. ASSUME ResultsWrite PROVE OrderKept' /\ moved \subseteq moved'
  <2>1. /\ UNCHANGED <<api, moved, running, teamA, listed>> /\ match \in Matches
        /\ status[match] # "absent" /\ Conclude(match, answer)
    BY <1>0, <1>7 DEF ResultsWrite, RowsRead, TypeOK
  <2>2. \A m \in Matches \ {match} : status'[m] = status[m]
    BY <1>0, <2>1 DEF Conclude, Finish, Cancel, TypeOK
  <2> QED BY <1>1, <2>1, <2>2
<1>8. ASSUME NEW m \in Matches, AdminSetsStatus(m) PROVE OrderKept' /\ moved \subseteq moved'
  BY <1>0, <1>1, <1>8 DEF AdminSetsStatus, TypeOK
<1>9. ASSUME JobFails PROVE OrderKept' /\ moved \subseteq moved'
  <2>1. UNCHANGED <<api, moved, status, teamA>> /\ listed' \subseteq listed
        /\ \A m \in Matches : running'[m] \in {running[m], Idle}
    BY <1>0, <1>9 DEF JobFails, TypeOK
  <2> QED BY <1>0, <2>1 DEF OrderKept, Teams, Idle
<1> QED
  BY <1>1, <1>2, <1>3, <1>4, <1>5, <1>6, <1>7, <1>8, <1>9
     DEF Next, vars, StartTimePasses, LiveRead, ResultsRead, ResultsAsk

\* What the results job concludes from an answer it has is what the match's result is.
LEMMA ConcludedRight ==
  ASSUME ResultInv, ResultsWrite
  PROVE  /\ match \in Matches
         /\ \/ UNCHANGED <<winner, posted>>
            \/ /\ Decided(match) /\ ~Void(match)
               /\ match \notin moved => SideOf(answer) = Verdict(match)
               /\ Finish(match, SideOf(answer))
            \/ Decided(match) /\ Void(match) /\ Cancel(match)
<1>1. match \in Matches /\ Conclude(match, answer)
  BY DEF ResultInv, TypeOK, ResultsWrite
<1>2. ASSUME Decides(answer)
      PROVE  /\ Decided(match)
             /\ Void(match) <=> answer.state = "canceled" \/ answer.draw
             /\ match \notin moved /\ ~Void(match) => SideOf(answer) = Verdict(match)
  <2>1. /\ Decided(match) /\ match \in pending
        /\ answer.state = api[match].state
        /\ answer.winner = api[match].winner /\ answer.draw = api[match].draw
        /\ match \notin moved => answer.first = "t1"
    BY <1>2 DEF ResultInv, HeardRight
  <2>2. match \notin moved => teamA[match] = "t1"
    BY <1>1, <2>1 DEF ResultInv, RowsRead, OrderKept
  <2> QED BY <2>1, <2>2 DEF Void, SideOf, Verdict
<1>3. CASE answer.state = "finished" /\ answer.winner # "none" /\ ~answer.draw
                /\ Finish(match, SideOf(answer))
  BY <1>1, <1>2, <1>3 DEF Decides
<1>4. CASE /\ answer.state = "canceled" \/ (answer.state = "finished" /\ answer.winner # "none")
           /\ ~(answer.state = "finished" /\ answer.winner # "none" /\ ~answer.draw)
           /\ Cancel(match)
  BY <1>1, <1>2, <1>4 DEF Decides
<1> QED BY <1>1, <1>3, <1>4 DEF Conclude

\* A step that leaves the results alone leaves them right.
LEMMA ResultsAlone ==
  ASSUME ResultInv, [Next]_vars, UNCHANGED <<winner, posted>>
  PROVE  PostedIsVerdict'
<1>1. ASSUME NEW m \in Matches, posted[m] # <<>> \/ winner[m] # "none"
      PROVE  /\ Decided(m)' /\ (Void(m)' <=> Void(m))
             /\ m \notin moved' => m \notin moved /\ Verdict(m)' = Verdict(m)
  <2>1. Decided(m) /\ status[m] # "absent" /\ TypeOK
    BY <1>1 DEF ResultInv, RowsRead
  <2>2. /\ Decided(m)' /\ status'[m] # "absent"
        /\ api'[m].state = api[m].state /\ api'[m].winner = api[m].winner /\ api'[m].draw = api[m].draw
    BY <2>1, DecidedStays, RowStays
  <2>3. m \notin moved' => m \notin moved /\ teamA[m] = "t1" /\ teamA'[m] = "t1"
    BY <2>1, <2>2, OrderStep DEF ResultInv, OrderKept
  <2> QED BY <2>2, <2>3 DEF Void, Verdict
<1>2. \A m \in Matches : posted[m] = <<>> => DOMAIN posted[m] = {}
  OBVIOUS
<1> QED BY <1>1, <1>2 DEF ResultInv, PostedIsVerdict

\* Every step keeps what is said of the results.
LEMMA ResultStep == ResultInv /\ [Next]_vars => ResultInv'
<1> SUFFICES ASSUME ResultInv, [Next]_vars PROVE HeardRight' /\ PostedIsVerdict'
  BY TypeStep, RowsReadStep, OrderStep DEF ResultInv
<1> USE DEF apiVars, rowVars, matchesJob, liveJob, resultsJob
<1>0. /\ TypeOK /\ RowsRead /\ moved \subseteq moved'
      /\ \A m \in Matches : Decided(m) =>
           /\ Decided(m)'
           /\ api'[m].state = api[m].state /\ api'[m].winner = api[m].winner /\ api'[m].draw = api[m].draw
  BY DecidedStays, OrderStep DEF ResultInv
<1>1. ASSUME UNCHANGED <<match, answer, pending>> PROVE HeardRight'
  <2>1. Decides(answer) => match \in Matches
    BY <1>0 DEF ResultInv, HeardRight, TypeOK
  <2> QED BY <1>0, <1>1, <2>1 DEF ResultInv, HeardRight, Decides
<1>2. ASSUME answer' = NoAnswer PROVE HeardRight'
  BY <1>2 DEF HeardRight, Decides, NoAnswer
<1>3. ASSUME NEW m \in Matches, ResultsAsk(m) PROVE HeardRight'
  <2>1. /\ UNCHANGED <<api, moved, pending>> /\ m \in pending /\ match' = m
        /\ answer' = api[m] \/ answer' = NoAnswer
    BY <1>3 DEF ResultsAsk
  <2>2. CASE answer' = api[m]
    <3>1. Decides(answer)' => Decided(m)'
      BY <2>1, <2>2 DEF Decides, Decided
    <3>2. status[m] # "absent" /\ (m \notin moved => api[m].first = "t1")
      BY <1>0, <2>1 DEF RowsRead, ResultInv, OrderKept
    <3> QED BY <2>1, <2>2, <3>1, <3>2 DEF HeardRight
  <2> QED BY <1>2, <2>1, <2>2
<1>4. ASSUME ResultsRead PROVE HeardRight'
  <2>1. pending = {} /\ answer' = answer
    BY <1>4 DEF ResultsRead
  <2>2. ~Decides(answer)
    BY <2>1 DEF ResultInv, HeardRight
  <2> QED BY <2>1, <2>2 DEF HeardRight, Decides
<1>5. HeardRight'
  <2>1. ASSUME NEW m \in Matches, MatchStep(m) PROVE HeardRight'
    BY <1>0, <1>1, <2>1, MatchStepMoves
  <2> QED
    BY <1>1, <1>2, <1>3, <1>4, <2>1
       DEF Next, vars, StartTimePasses, MatchesList, MatchesUpsert, LiveList, LiveRead, LiveWrite,
           ResultsWrite, AdminSetsStatus, JobFails
<1>6. ASSUME ResultsWrite, ~UNCHANGED <<winner, posted>> PROVE PostedIsVerdict'
  <2> DEFINE side == SideOf(answer)
  <2>1. /\ match \in Matches /\ UNCHANGED <<api, moved, teamA>> /\ Decided(match)
        /\ \/ ~Void(match) /\ (match \notin moved => side = Verdict(match)) /\ Finish(match, side)
           \/ Void(match) /\ Cancel(match)
    BY <1>6, ConcludedRight DEF ResultsWrite
  <2>2. side \in {"a", "b"}
    BY DEF SideOf
  <2> HIDE DEF side
  <2>3. PICK w \in {"a", "b", "void"} :
           /\ w = "void" <=> Void(match)
           /\ match \notin moved => w = Verdict(match)
           /\ posted' = [posted EXCEPT ![match] = Append(@, w)]
           /\ winner' = IF w = "void" THEN winner ELSE [winner EXCEPT ![match] = w]
    BY <2>1, <2>2 DEF Finish, Cancel, Verdict
  <2>4. \A m \in Matches : /\ Decided(m)' <=> Decided(m)
                           /\ Void(m)' <=> Void(m)
                           /\ Verdict(m)' = Verdict(m)
    BY <2>1 DEF Decided, Void, Verdict
  <2>5. \A m \in Matches \ {match} : posted'[m] = posted[m] /\ winner'[m] = winner[m]
    BY <1>0, <2>3 DEF TypeOK
  <2>6. ASSUME NEW i \in DOMAIN posted'[match]
        PROVE  (i \in DOMAIN posted[match] /\ posted'[match][i] = posted[match][i]) \/ posted'[match][i] = w
    <3>1. posted[match] \in Seq({"a", "b", "void"}) /\ posted'[match] = Append(posted[match], w)
      BY <1>0, <2>1, <2>3 DEF TypeOK
    <3> QED BY <2>6, <3>1, AppendProperties
  <2>7. winner'[match] \in {winner[match], w} /\ (winner'[match] # winner[match] => w # "void")
    BY <1>0, <2>1, <2>3 DEF TypeOK
  <2> QED BY <2>1, <2>3, <2>4, <2>5, <2>6, <2>7 DEF ResultInv, PostedIsVerdict
<1>7. PostedIsVerdict'
  <2>1. ASSUME NEW m \in Matches, MatchStep(m) PROVE UNCHANGED <<winner, posted>>
    BY <1>0, <2>1, MatchStepMoves
  <2> QED
    BY <1>6, <2>1, ResultsAlone
       DEF Next, vars, StartTimePasses, MatchesList, MatchesUpsert, LiveList, LiveRead, LiveWrite,
           ResultsRead, ResultsAsk, AdminSetsStatus, JobFails
<1> QED BY <1>5, <1>7

\* THEOREM PostedRight: every outbox row of an event refunds exactly if its match is
\* void, and otherwise, while PandaScore keeps the order of the opponents, names the
\* side on which the row shows the winning team, with any number of matches, stale
\* lists, readings and answers, and failures (events.service.ts:417-447).
THEOREM PostedRight == Spec => []PostedIsVerdict
<1>1. ResultInv => PostedIsVerdict
  BY DEF ResultInv
<1> QED BY ResultInit, ResultStep, <1>1, PTL DEF Spec

-----------------------------------------------------------------------------
\* Ends

EndInv == TypeOK /\ EndedIsPosted

\* Every step keeps what is said of the ends.
LEMMA EndStep == EndInv /\ [Next]_vars => EndInv'
<1> SUFFICES ASSUME TypeOK, EndedIsPosted, [Next]_vars PROVE EndedIsPosted'
  BY TypeStep DEF EndInv
<1> USE DEF TypeOK, EndedIsPosted, rowVars, apiVars, matchesJob, liveJob, resultsJob
<1>1. ASSUME UNCHANGED <<status, posted, edits>> PROVE EndedIsPosted'
  BY <1>1
<1>2. ASSUME NEW m \in Matches, MatchStep(m) PROVE EndedIsPosted'
  <2>1. UNCHANGED <<status, posted, edits>>
    BY <1>2, MatchStepMoves
  <2> QED BY <1>1, <2>1
<1>3. ASSUME NEW x \in listed, MatchesUpsert(x) PROVE EndedIsPosted'
  <2>1. x.status \in {"UPCOMING", "LIVE"}
    BY DEF Entries, Lists
  <2> QED BY <1>3, <2>1 DEF MatchesUpsert, Ended
<1>4. ASSUME NEW m \in Matches, LiveWrite(m) PROVE EndedIsPosted'
  BY <1>4 DEF LiveWrite, Ended
<1>5. ASSUME ResultsWrite PROVE EndedIsPosted'
  <2>1. match \in Matches /\ UNCHANGED edits /\ Conclude(match, answer)
    BY <1>5 DEF ResultsWrite
  <2>2. \A w \in {"a", "b", "void"} : Append(posted[match], w) # <<>>
    BY <2>1, AppendProperties
  <2>3. ASSUME NEW w \in {"a", "b"}, Finish(match, w) PROVE EndedIsPosted'
    BY <2>1, <2>2, <2>3 DEF Finish
  <2>4. ASSUME Cancel(match) PROVE EndedIsPosted'
    BY <2>1, <2>2, <2>4 DEF Cancel
  <2>5. ASSUME status' = [status EXCEPT ![match] = "LIVE"], UNCHANGED posted PROVE EndedIsPosted'
    BY <2>1, <2>5 DEF Ended
  <2>6. SideOf(answer) \in {"a", "b"}
    BY DEF SideOf
  <2> QED BY <1>1, <2>1, <2>3, <2>4, <2>5, <2>6 DEF Conclude
<1>6. ASSUME NEW m \in Matches, AdminSetsStatus(m) PROVE EndedIsPosted'
  BY <1>6 DEF AdminSetsStatus
<1>7. ASSUME NEW m \in Matches, StartTimePasses(m) \/ ResultsAsk(m) PROVE EndedIsPosted'
  BY <1>1, <1>7 DEF StartTimePasses, ResultsAsk
<1>8. ASSUME NEW list \in Lists, MatchesList(list) PROVE EndedIsPosted'
  BY <1>1, <1>8 DEF MatchesList
<1>9. ASSUME LiveList \/ LiveRead \/ ResultsRead \/ JobFails PROVE EndedIsPosted'
  BY <1>1, <1>9 DEF LiveList, LiveRead, ResultsRead, JobFails
<1>10. ASSUME UNCHANGED vars PROVE EndedIsPosted'
  BY <1>1, <1>10 DEF vars
<1> QED BY <1>2, <1>3, <1>4, <1>5, <1>6, <1>7, <1>8, <1>9, <1>10 DEF Next

\* THEOREM EndedPosted: the jobs end no event without the outbox row that settles
\* its bets (events.service.ts:402-447); only an admin's write does that.
THEOREM EndedPosted == Spec => []EndedIsPosted
<1>1. Init => EndInv
  BY TypeInit DEF EndInv, Init, EndedIsPosted, Ended
<1>2. EndInv => EndedIsPosted
  BY DEF EndInv
<1> QED BY <1>1, <1>2, EndStep, PTL DEF Spec

-----------------------------------------------------------------------------
\* How often an event ends

\* Whether the event may be ended before anyone opens it again: it is open, or the
\* results job has read that it was.
MayEnd(m) == IF status[m] \notin Ended \/ m \in pending THEN 1 ELSE 0

\* Whether the live job may open it again: it has read UPCOMING, or still can.
MayReopen(m) == IF seen[m] = "UPCOMING" \/ status[m] \in {"UPCOMING", "absent"} THEN 1 ELSE 0

CountInv ==
    /\ TypeOK
    /\ match # Idle => match \in pending
    /\ \A m \in Matches : Len(posted[m]) + MayEnd(m) + MayReopen(m) <= 2 * (1 + edits)

\* What a step that adds no outbox row may do to an event.
LEMMA CountKept ==
    ASSUME NEW m \in Matches, TypeOK, TypeOK', edits' = edits, posted'[m] = posted[m],
           Len(posted[m]) + MayEnd(m) + MayReopen(m) <= 2 * (1 + edits),
           \/ (MayEnd(m)' = 1 => MayEnd(m) = 1) /\ (MayReopen(m)' = 1 => MayReopen(m) = 1)
           \/ MayReopen(m) = 1 /\ MayReopen(m)' = 0
    PROVE  Len(posted'[m]) + MayEnd(m)' + MayReopen(m)' <= 2 * (1 + edits')
<1>1. Len(posted[m]) \in Nat /\ edits \in Nat
  BY LenProperties, EventLifecycleAssumption DEF TypeOK
<1>2. MayEnd(m) \in {0, 1} /\ MayEnd(m)' \in {0, 1} /\ MayReopen(m) \in {0, 1} /\ MayReopen(m)' \in {0, 1}
  BY DEF MayEnd, MayReopen
<1> QED BY <1>1, <1>2

\* Every step keeps the count: what ends an event was read while it was open, and
\* what opens it again was read while it was upcoming, which no job makes it again.
LEMMA CountStep == CountInv /\ [Next]_vars => CountInv'
<1> SUFFICES ASSUME CountInv, [Next]_vars
             PROVE  /\ match' # Idle => match' \in pending'
                    /\ \A m \in Matches : Len(posted'[m]) + MayEnd(m)' + MayReopen(m)' <= 2 * (1 + edits')
  BY TypeStep DEF CountInv
<1> DEFINE Busy == match' # Idle => match' \in pending'
           Count(m) == Len(posted'[m]) + MayEnd(m)' + MayReopen(m)' <= 2 * (1 + edits')
<1>0. TypeOK /\ TypeOK' /\ (match # Idle => match \in pending)
  BY TypeStep DEF CountInv
<1>1. ASSUME NEW m \in Matches PROVE Len(posted[m]) + MayEnd(m) + MayReopen(m) <= 2 * (1 + edits)
  BY DEF CountInv
<1>2. ASSUME UNCHANGED <<status, posted, edits, seen, pending>>, NEW m \in Matches PROVE Count(m)
  BY <1>0, <1>1, <1>2 DEF MayEnd, MayReopen
<1> USE DEF rowVars, apiVars, matchesJob, liveJob, resultsJob
<1>3. ASSUME NEW n \in Matches, MatchStep(n) PROVE Busy /\ \A m \in Matches : Count(m)
  <2>1. UNCHANGED <<status, posted, edits, seen, pending, match>>
    BY <1>0, <1>3, MatchStepMoves
  <2> QED BY <1>0, <1>2, <2>1
<1>4. ASSUME NEW n \in Matches, StartTimePasses(n) PROVE Busy /\ \A m \in Matches : Count(m)
  BY <1>0, <1>2, <1>4 DEF StartTimePasses
<1>5. ASSUME NEW list \in Lists, MatchesList(list) PROVE Busy /\ \A m \in Matches : Count(m)
  BY <1>0, <1>2, <1>5 DEF MatchesList
<1>6. ASSUME NEW x \in listed, MatchesUpsert(x) PROVE Busy /\ \A m \in Matches : Count(m)
  <2>1. x.match \in Matches /\ x.status \in {"UPCOMING", "LIVE"}
    BY <1>0 DEF TypeOK, Entries, Lists
  <2>2. ASSUME NEW m \in Matches PROVE Count(m)
    <3>1. (MayEnd(m)' = 1 => MayEnd(m) = 1) /\ (MayReopen(m)' = 1 => MayReopen(m) = 1)
      BY <1>0, <1>6, <2>1 DEF MatchesUpsert, MayEnd, MayReopen, TypeOK, Ended
    <3> QED BY <1>0, <1>1, <1>6, <3>1, CountKept DEF MatchesUpsert
  <2> QED BY <1>0, <1>6, <2>2 DEF MatchesUpsert
<1>7. ASSUME LiveList PROVE Busy /\ \A m \in Matches : Count(m)
  BY <1>0, <1>2, <1>7 DEF LiveList
<1>8. ASSUME LiveRead PROVE Busy /\ \A m \in Matches : Count(m)
  <2>1. ASSUME NEW m \in Matches PROVE Count(m)
    <3>1. (MayEnd(m)' = 1 => MayEnd(m) = 1) /\ (MayReopen(m)' = 1 => MayReopen(m) = 1)
      BY <1>8 DEF LiveRead, MayEnd, MayReopen, Idle
    <3> QED BY <1>0, <1>1, <1>8, <3>1, CountKept DEF LiveRead
  <2> QED BY <1>0, <1>8, <2>1 DEF LiveRead
<1>9. ASSUME NEW n \in Matches, LiveWrite(n) PROVE Busy /\ \A m \in Matches : Count(m)
  <2>1. ASSUME NEW m \in Matches, m # n PROVE Count(m)
    <3>1. (MayEnd(m)' = 1 => MayEnd(m) = 1) /\ (MayReopen(m)' = 1 => MayReopen(m) = 1)
      BY <1>0, <1>9, <2>1 DEF LiveWrite, MayEnd, MayReopen, TypeOK
    <3> QED BY <1>0, <1>1, <1>9, <3>1, CountKept DEF LiveWrite
  <2>2. Count(n)
    <3>1. CASE seen[n] = "UPCOMING"
      <4>1. MayReopen(n) = 1 /\ MayReopen(n)' = 0
        BY <1>0, <1>9, <3>1 DEF LiveWrite, Creates, MayReopen, TypeOK, Idle
      <4> QED BY <1>0, <1>1, <1>9, <4>1, CountKept DEF LiveWrite
    <3>2. CASE seen[n] # "UPCOMING"
      <4>1. (MayEnd(n)' = 1 => MayEnd(n) = 1) /\ (MayReopen(n)' = 1 => MayReopen(n) = 1)
        BY <1>0, <1>9, <3>2 DEF LiveWrite, Creates, MayEnd, MayReopen, TypeOK, Idle, Ended
      <4> QED BY <1>0, <1>1, <1>9, <4>1, CountKept DEF LiveWrite
    <3> QED BY <3>1, <3>2
  <2> QED BY <1>0, <1>9, <2>1, <2>2 DEF LiveWrite
<1>10. ASSUME ResultsRead PROVE Busy /\ \A m \in Matches : Count(m)
  <2>1. match' = Idle
    BY <1>0, <1>10 DEF ResultsRead
  <2>2. ASSUME NEW m \in Matches PROVE Count(m)
    <3>1. (MayEnd(m)' = 1 => MayEnd(m) = 1) /\ (MayReopen(m)' = 1 => MayReopen(m) = 1)
      BY <1>10 DEF ResultsRead, MayEnd, MayReopen, Ended
    <3> QED BY <1>0, <1>1, <1>10, <3>1, CountKept DEF ResultsRead
  <2> QED BY <2>1, <2>2
<1>11. ASSUME NEW n \in Matches, ResultsAsk(n) PROVE Busy /\ \A m \in Matches : Count(m)
  BY <1>0, <1>2, <1>11 DEF ResultsAsk
<1>12. ASSUME ResultsWrite PROVE Busy /\ \A m \in Matches : Count(m)
  <2>1. match \in Matches /\ match \in pending /\ match' = Idle /\ edits' = edits /\ seen' = seen
    BY <1>0, <1>12 DEF ResultsWrite, TypeOK
  <2>2. pending' = pending \ {match} /\ Conclude(match, answer)
    BY <1>12 DEF ResultsWrite
  <2>3. ASSUME NEW m \in Matches, m # match PROVE Count(m)
    <3>1. status'[m] = status[m] /\ posted'[m] = posted[m]
      BY <1>0, <2>2, <2>3 DEF Conclude, Finish, Cancel, TypeOK
    <3>2. (MayEnd(m)' = 1 => MayEnd(m) = 1) /\ (MayReopen(m)' = 1 => MayReopen(m) = 1)
      BY <2>1, <2>2, <2>3, <3>1 DEF MayEnd, MayReopen
    <3> QED BY <1>0, <1>1, <2>1, <3>1, <3>2, CountKept
  <2>4. ASSUME NEW m \in Matches, m = match PROVE Count(m)
    <3>1. MayEnd(m) = 1
      BY <2>1, <2>4 DEF MayEnd
    <3>2. ASSUME status'[m] \in Ended, NEW w \in {"a", "b", "void"},
                 posted'[m] = Append(posted[m], w)
          PROVE  Count(m)
      <4>1. Len(posted'[m]) = Len(posted[m]) + 1 /\ Len(posted[m]) \in Nat /\ edits \in Nat
        BY <1>0, <2>1, <3>2, AppendProperties, LenProperties, EventLifecycleAssumption DEF TypeOK
      <4>2. MayEnd(m)' = 0
        BY <2>1, <2>2, <2>4, <3>2 DEF MayEnd
      <4>3. MayReopen(m)' <= MayReopen(m) /\ MayReopen(m)' \in Nat /\ MayReopen(m) \in Nat
        BY <2>1, <3>2 DEF MayReopen, Ended
      <4> QED BY <1>1, <2>1, <3>1, <4>1, <4>2, <4>3
    <3>3. ASSUME status'[m] \in {status[m], "LIVE"}, posted' = posted PROVE Count(m)
      <4>1. MayReopen(m)' = 1 => MayReopen(m) = 1
        BY <2>1, <3>3 DEF MayReopen
      <4> QED BY <1>0, <1>1, <2>1, <3>1, <3>3, <4>1, CountKept
    <3>4. CASE \E w \in {"a", "b"} : Finish(match, w)
      BY <1>0, <2>1, <2>4, <3>2, <3>4 DEF Finish, TypeOK, Ended
    <3>5. CASE Cancel(match)
      BY <1>0, <2>1, <2>4, <3>2, <3>5 DEF Cancel, TypeOK, Ended
    <3>6. CASE status' = [status EXCEPT ![match] = "LIVE"] /\ posted' = posted
      BY <1>0, <2>1, <2>4, <3>3, <3>6 DEF TypeOK
    <3>7. CASE UNCHANGED <<status, posted>>
      BY <3>3, <3>7
    <3>8. SideOf(answer) \in {"a", "b"}
      BY DEF SideOf
    <3> QED BY <2>2, <3>4, <3>5, <3>6, <3>7, <3>8 DEF Conclude
  <2> QED BY <2>1, <2>3, <2>4
<1>13. ASSUME NEW n \in Matches, AdminSetsStatus(n) PROVE Busy /\ \A m \in Matches : Count(m)
  <2>1. edits' = edits + 1 /\ UNCHANGED <<posted, pending, match>>
    BY <1>13 DEF AdminSetsStatus
  <2>2. ASSUME NEW m \in Matches PROVE Count(m)
    <3>1. Len(posted[m]) \in Nat /\ edits \in Nat
      BY <1>0, LenProperties, EventLifecycleAssumption DEF TypeOK
    <3>2. MayEnd(m) \in {0, 1} /\ MayEnd(m)' \in {0, 1} /\ MayReopen(m) \in {0, 1} /\ MayReopen(m)' \in {0, 1}
      BY DEF MayEnd, MayReopen
    <3> QED BY <1>1, <2>1, <3>1, <3>2
  <2> QED BY <1>0, <2>1, <2>2
<1>14. ASSUME JobFails PROVE Busy /\ \A m \in Matches : Count(m)
  <2>1. UNCHANGED <<status, posted, edits>> /\ seen' \in {seen, [m \in Matches |-> Idle]} /\ pending' \in {pending, {}}
    BY <1>14 DEF JobFails
  <2>2. ASSUME NEW m \in Matches PROVE Count(m)
    <3>1. (MayEnd(m)' = 1 => MayEnd(m) = 1) /\ (MayReopen(m)' = 1 => MayReopen(m) = 1)
      BY <2>1 DEF MayEnd, MayReopen, Idle
    <3> QED BY <1>0, <1>1, <2>1, <3>1, CountKept
  <2> QED BY <1>0, <1>14, <2>2 DEF JobFails
<1>15. ASSUME UNCHANGED vars PROVE Busy /\ \A m \in Matches : Count(m)
  BY <1>0, <1>2, <1>15 DEF vars
<1> QED BY <1>3, <1>4, <1>5, <1>6, <1>7, <1>8, <1>9, <1>10, <1>11, <1>12, <1>13, <1>14, <1>15 DEF Next

\* THEOREM EndsTwiceAtMost: whatever the three jobs have read and when they write,
\* an event gets two outbox rows at most, and two more for each status the admin
\* writes, with any number of matches and failures (events.service.ts:319-327,
\* 380-447).
THEOREM EndsTwiceAtMost == Spec => []PostedAtMostTwice
<1>1. Init => CountInv
  <2> SUFFICES ASSUME Init PROVE CountInv
    OBVIOUS
  <2>1. ASSUME NEW m \in Matches PROVE Len(posted[m]) + MayEnd(m) + MayReopen(m) <= 2 * (1 + edits)
    <3>1. Len(posted[m]) = 0 /\ edits = 0
      BY DEF Init
    <3>2. MayEnd(m) \in {0, 1} /\ MayReopen(m) \in {0, 1}
      BY DEF MayEnd, MayReopen
    <3> QED BY <3>1, <3>2
  <2> QED BY TypeInit, <2>1 DEF CountInv, Init
<1>2. CountInv => PostedAtMostTwice
  <2> SUFFICES ASSUME CountInv, NEW m \in Matches PROVE Len(posted[m]) <= 2 * (1 + edits)
    BY DEF PostedAtMostTwice
  <2>1. Len(posted[m]) \in Nat /\ edits \in Nat
    BY LenProperties, EventLifecycleAssumption DEF CountInv, TypeOK
  <2>2. MayEnd(m) \in {0, 1} /\ MayReopen(m) \in {0, 1}
    BY DEF MayEnd, MayReopen
  <2>3. Len(posted[m]) + MayEnd(m) + MayReopen(m) <= 2 * (1 + edits)
    BY DEF CountInv
  <2> QED BY <2>1, <2>2, <2>3
<1> QED BY <1>1, <1>2, CountStep, PTL DEF Spec

=============================================================================
