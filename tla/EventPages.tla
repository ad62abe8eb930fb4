----------------------------- MODULE EventPages -----------------------------
(***************************************************************************)
(* What a user sees of the events.  Two pages, the list and the detail of  *)
(* an event, ask the backend, which answers from a cache of 30 seconds or  *)
(* from the rows.  Odds change by the odds job, which busts the detail's   *)
(* cache and pushes the new odds over the socket, or by an admin's save,   *)
(* which busts the cache and tells nobody.  Requests are never cancelled.  *)
(*                                                                         *)
(* Changes of the rows are numbered; odds are the number of the change that*)
(* wrote them, so that older odds are smaller.  A status is UPCOMING or    *)
(* not.  The filter of the list stands for its game, status and page       *)
(* number together.                                                        *)
(***************************************************************************)
EXTENDS Integers, Sequences, FiniteSets

CONSTANTS
    Events,
    Changing,       \* the events that are repriced or go live while the page is open
    None,           \* nothing cached, no job
    MaxSteps        \* requests, changes of rows, failures and disconnections together

ASSUME EventPagesAssumption ==
    /\ Changing \subseteq Events
    /\ MaxSteps \in Nat
    /\ None \notin [event : Events, odds : 0 .. MaxSteps, step : {"bust", "tell"}]

VARIABLES
    row,        \* events: event -> [odds, status]
    writes,     \* changes of rows so far
    cache,      \* key -> the answer that is cached under it, or None
    job,        \* the odds job: None, or [event, odds, step]
    gone,       \* history: the last change of an event that nobody will be told any more
    reqs,       \* every request sent, in order
    route,      \* the key the page shows
    loading,
    events,     \* what the page holds: event -> row, for some events
    cards,      \*   and what its cards show: an admin's save changes its card alone
    joined,     \* the socket is connected
    ear,        \* the page has been handed the socket
    wire,       \* pushed odds on their way: [event, odds]
    holds,      \* history: the newest request whose answer the page has shown
    behind,     \* history: what the page has not been told
    failures

store  == <<row, writes, cache, job, gone>>
page   == <<route, loading, events, cards, holds>>
socket == <<joined, ear, wire>>
pagesVars == <<store, reqs, page, socket, behind, failures>>

RowStatuses == {"UPCOMING", "LIVE"}
List(f)    == [page |-> "list", filter |-> f]
Detail(e)  == [page |-> "detail", event |-> e]
ListKeys   == {List(f) : f \in RowStatuses}
DetailKeys == {Detail(e) : e \in Events}
Keys       == ListKeys \cup DetailKeys
Home       == List("UPCOMING")

Odds    == 0 .. MaxSteps
Row     == [odds : Odds, status : RowStatuses]
Held    == UNION {[S -> Row] : S \in SUBSET Events}
Nothing == [e \in {} |-> None]

\* Rows, with what is known of their age: the last change that their odds, and their
\* statuses, take in; and whether the cache was busted after they were read.
Kinds  == {"odds", "status"}
Answer == [rows : Held, asOf : [Kinds -> Odds], raced : BOOLEAN]

\* save: an admin's edit to be written; written: written, the cache to be busted;
\* sent .. answered: a reader of the key; done: the page has dealt with it.
Steps  == {"save", "written", "sent", "missed", "read", "answered", "done"}
Request == [key : Keys, saves : BOOLEAN, step : Steps, answer : Answer \cup {None},
            owner : {"page", "left"}, wrote : Odds]

PagesTypeOK ==
    /\ row \in [Events -> Row]
    /\ writes \in Odds
    /\ DOMAIN cache = Keys /\ \A k \in Keys : cache[k] \in Answer \cup {None}
    /\ job = None \/ job \in [event : Events, odds : Odds, step : {"bust", "tell"}]
    /\ gone \in [Events -> [Kinds -> Odds]]
    /\ reqs \in Seq(Request)
    /\ route \in Keys
    /\ {loading, joined, ear} \subseteq BOOLEAN
    /\ behind \subseteq Kinds \cup {"event"}
    /\ events \in Held /\ cards \in Held /\ DOMAIN cards = DOMAIN events
    /\ wire \in Seq([event : Events, odds : Odds])
    /\ holds \in 0 .. Len(reqs)
    /\ failures \in 0 .. MaxSteps

-----------------------------------------------------------------------------
\* Requests

NewRequest(k, saves, owner) ==
    [key |-> k, saves |-> saves, step |-> IF saves THEN "save" ELSE "sent", answer |-> None,
     owner |-> owner, wrote |-> 0]

\* The bound on a behaviour.
Room == Len(reqs) + writes + failures < MaxSteps

Done == [NewRequest(Home, FALSE, "left") EXCEPT !.step = "done"]

InFlight == {i \in 1 .. Len(reqs) : reqs[i].step # "done"}

\* Requests whose component is left: their answers find nothing to change.  They
\* go on to fill the cache, and stand for the requests of every other user.
Leave(S) == [i \in 1 .. Len(reqs) |->
               IF i \notin S \/ reqs[i].owner # "page" THEN reqs[i]
               ELSE IF reqs[i].step = "answered" THEN Done
               ELSE [reqs[i] EXCEPT !.owner = "left"]]
Left == Leave(1 .. Len(reqs))

\* The answer leaves for the page that waits for it, or for nobody.
Answered(i, a) ==
    IF reqs[i].owner = "page" THEN [reqs[i] EXCEPT !.step = "answered", !.answer = a] ELSE Done

PagesInit ==
    /\ row = [e \in Events |-> [odds |-> 0, status |-> "UPCOMING"]]
    /\ writes = 0
    /\ cache = [k \in Keys |-> None]
    /\ job = None
    /\ gone = [e \in Events |-> [k \in Kinds |-> 0]]
    /\ reqs = <<NewRequest(Home, FALSE, "page")>>
    /\ route = Home
    /\ loading = TRUE
    /\ events = Nothing /\ cards = Nothing
    /\ joined = FALSE
    /\ ear \in BOOLEAN      \* FALSE: nothing has rendered the provider since it made the socket
    /\ wire = << >>
    /\ holds = 0
    /\ behind = {}
    /\ failures = 0

-----------------------------------------------------------------------------
\* listEvents and getEvent: cache.get, findMany or findUnique, cache.set

\* What the rows answer now.
Read(k) ==
    [rows  |-> IF k.page = "detail" THEN [e \in {k.event} |-> row[e]]
               ELSE [e \in {d \in Events : row[d].status = k.filter} |-> row[e]],
     asOf  |-> [kind \in Kinds |-> writes],
     raced |-> FALSE]

\* A change of the event's odds is written, and its cache is still to be busted.
Unbusted(e) ==
    \/ job # None /\ job.event = e /\ job.step = "bust"
    \/ \E i \in InFlight : reqs[i].step = "written" /\ reqs[i].key = Detail(e)

\* What the cache answers: odds of a detail that are as good as the row's, if every
\* change has busted them; everything else as it was when it was read.
Cached(k) ==
    IF k.page = "detail" /\ ~cache[k].raced /\ ~Unbusted(k.event)
      THEN [cache[k] EXCEPT !.asOf["odds"] = writes] ELSE cache[k]

\* An entry older than EVENTS_TTL is none.
Lookup(i) ==
    /\ reqs[i].step = "sent"
    /\ \/ reqs' = [reqs EXCEPT ![i].step = "missed"]
       \/ /\ cache[reqs[i].key] # None
          /\ reqs' = [reqs EXCEPT ![i] = Answered(i, Cached(reqs[i].key))]
    /\ UNCHANGED <<store, page, socket, behind, failures>>

ReadRows(i) ==
    /\ reqs[i].step = "missed"
    /\ reqs' = [reqs EXCEPT ![i].step = "read", ![i].answer = Read(reqs[i].key)]
    /\ UNCHANGED <<store, page, socket, behind, failures>>

Fill(i) ==
    /\ reqs[i].step = "read"
    /\ reqs' = [reqs EXCEPT ![i] = Answered(i, [reqs[i].answer EXCEPT !.raced = FALSE])]
    /\ cache' = [cache EXCEPT ![reqs[i].key] = reqs[i].answer]
    /\ UNCHANGED <<row, writes, job, gone, page, socket, behind, failures>>

-----------------------------------------------------------------------------
\* Writers.  updateSingleEventOdds: the row, the cache, the socket.

WriteOdds(e) ==
    /\ job = None /\ Room
    /\ writes' = writes + 1
    /\ row' = [row EXCEPT ![e].odds = writes + 1]
    /\ job' = [event |-> e, odds |-> writes + 1, step |-> "bust"]
    /\ UNCHANGED <<cache, gone, reqs, page, socket, behind, failures>>

\* A reader that has read the row by now fills the cache with what it was.
Raced(e) ==
    [i \in 1 .. Len(reqs) |->
       IF reqs[i].step = "read" /\ reqs[i].key = Detail(e)
         THEN [reqs[i] EXCEPT !.answer.raced = TRUE] ELSE reqs[i]]

BustCache ==
    /\ job # None /\ job.step = "bust"
    /\ cache' = [cache EXCEPT ![Detail(job.event)] = None]
    /\ reqs' = Raced(job.event)
    /\ job' = [job EXCEPT !.step = "tell"]
    /\ UNCHANGED <<row, writes, gone, page, socket, behind, failures>>

\* broadcastOddsUpdate.  Variant that stays silent.
TellNobody ==
    /\ job # None /\ job.step = "tell"
    /\ job' = None
    /\ UNCHANGED <<row, writes, cache, gone, reqs, page, socket, behind, failures>>

Broadcast ==
    /\ job # None /\ job.step = "tell"
    /\ job' = None
    /\ wire' = Append(wire, [event |-> job.event, odds |-> job.odds])
    /\ UNCHANGED <<row, writes, cache, gone, reqs, page, joined, ear, behind, failures>>

\* updateEvent: the row, the cache, then getEvent for the answer.
WriteSave(i) ==
    /\ reqs[i].step = "save"
    /\ writes' = writes + 1
    /\ row' = [row EXCEPT ![reqs[i].key.event].odds = writes + 1]
    /\ reqs' = [reqs EXCEPT ![i].step = "written", ![i].wrote = writes + 1]
    /\ UNCHANGED <<cache, job, gone, page, socket, behind, failures>>

\* Nobody will be told any more of change n of the event, nor of those before it.
Over(e, kind, n) ==
    gone' = IF n > gone[e][kind] THEN [gone EXCEPT ![e][kind] = n] ELSE gone

\* invalidateEventCache, and nobody is told.  Variant that leaves the cache alone.
KeepSaved(i) ==
    /\ reqs[i].step = "written"
    /\ reqs' = [reqs EXCEPT ![i].step = "sent"]
    /\ Over(reqs[i].key.event, "odds", reqs[i].wrote)
    /\ behind' = behind \cup {"odds"}
    /\ UNCHANGED <<row, writes, cache, job, page, socket, failures>>

BustSaved(i) ==
    /\ reqs[i].step = "written"
    /\ cache' = [cache EXCEPT ![reqs[i].key] = None]
    /\ reqs' = [Raced(reqs[i].key.event) EXCEPT ![i].step = "sent"]
    /\ Over(reqs[i].key.event, "odds", reqs[i].wrote)
    /\ behind' = behind \cup {"odds"}
    /\ UNCHANGED <<row, writes, job, page, socket, failures>>

\* The match goes live: the row alone.  Nobody calls broadcastStatusChange.
GoLive(e) ==
    /\ Room
    /\ row[e].status = "UPCOMING"
    /\ writes' = writes + 1
    /\ row' = [row EXCEPT ![e].status = "LIVE"]
    /\ Over(e, "status", writes + 1)
    /\ behind' = behind \cup {"status"}
    /\ UNCHANGED <<cache, job, reqs, page, socket, failures>>

-----------------------------------------------------------------------------
\* The page moves: the effect on [game, status, page] or [id] sends a request.

\* The same component with another selection keeps what it holds; the cards of a
\* list go while it loads, and their saves with them.
Select(k) ==
    /\ route' = k
    /\ loading' = TRUE
    /\ reqs' = Append(IF route \in ListKeys THEN Leave({i \in InFlight : reqs[i].saves}) ELSE reqs,
                     NewRequest(k, FALSE, "page"))
    /\ UNCHANGED <<events, cards, holds>>

\* Another component starts empty; answers to the old one are not shown.
Mount(k) ==
    /\ route' = k
    /\ loading' = TRUE
    /\ events' = Nothing /\ cards' = Nothing /\ holds' = 0
    /\ reqs' = Append(Left, NewRequest(k, FALSE, "page"))

SelectTab(f) ==
    /\ Room /\ route \in ListKeys /\ route # List(f)
    /\ Select(List(f))
    /\ UNCHANGED <<store, socket, behind, failures>>

\* By a card of the list, or, from one event to another, by the browser's history.
OpenDetail(e) ==
    /\ Room /\ route # Detail(e)
    /\ IF route \in DetailKeys THEN Select(Detail(e))
       ELSE ~loading /\ e \in DOMAIN events /\ Mount(Detail(e))
    /\ UNCHANGED <<store, socket, behind, failures>>

Back ==
    /\ Room /\ route \in DetailKeys
    /\ Mount(Home)
    /\ UNCHANGED <<store, socket, behind, failures>>

\* AdminOddsEditor and InlineAdminControls: one save of a page at a time
Save(e) ==
    /\ Room /\ ~loading /\ e \in DOMAIN cards
    /\ \A i \in InFlight : ~(reqs[i].saves /\ reqs[i].owner = "page")
    /\ reqs' = Append(reqs, NewRequest(Detail(e), TRUE, "page"))
    /\ UNCHANGED <<store, page, socket, behind, failures>>

-----------------------------------------------------------------------------
\* Answers arrive, in any order.

\* What an answer lacks: changes after its reading of which nobody will tell any more.
Lacks(a) ==
    {kind \in Kinds : \E e \in DOMAIN a.rows : a.asOf[kind] < gone[e][kind]}

\* setEvents or setEvent, and setLoading(false)
Receive(i) ==
    /\ reqs[i].step = "answered" /\ ~reqs[i].saves
    /\ reqs' = [reqs EXCEPT ![i] = Done]
    /\ events' = reqs[i].answer.rows
    /\ cards' = reqs[i].answer.rows
    /\ loading' = FALSE
    /\ holds' = IF i > holds THEN i ELSE holds
    /\ behind' = Lacks(reqs[i].answer) \cup (IF i < holds THEN {"event"} ELSE {})
    /\ UNCHANGED <<store, route, socket, failures>>

\* onUpdated of a card, or setEvent of the detail page, whatever it shows by now
ReceiveSave(i) ==
    /\ reqs[i].step = "answered" /\ reqs[i].saves
    /\ reqs' = [reqs EXCEPT ![i] = Done]
    /\ CASE route \in DetailKeys ->
              events' = reqs[i].answer.rows /\ cards' = reqs[i].answer.rows
         [] route \in ListKeys /\ ~loading /\ reqs[i].key.event \in DOMAIN cards ->
              /\ cards' = [cards EXCEPT ![reqs[i].key.event] = reqs[i].answer.rows[reqs[i].key.event]]
              /\ UNCHANGED events
         [] OTHER -> UNCHANGED <<events, cards>>
    /\ behind' = behind \cup Lacks(reqs[i].answer)
                        \cup (IF route \in DetailKeys /\ route # reqs[i].key THEN {"event"} ELSE {})
    /\ UNCHANGED <<store, route, loading, holds, socket, failures>>

\* A request fails: the list keeps what it holds, the detail goes back to the list,
\* even when its page has been left.
Fails(i) ==
    /\ Room /\ failures' = failures + 1
    /\ reqs[i].step = "sent"
    /\ IF ~reqs[i].saves /\ reqs[i].key \in DetailKeys /\ route \in DetailKeys
         THEN /\ Room
              /\ route' = Home /\ loading' = TRUE
              /\ events' = Nothing /\ cards' = Nothing /\ holds' = 0
              /\ reqs' = Append([Left EXCEPT ![i] = Done], NewRequest(Home, FALSE, "page"))
         ELSE /\ reqs' = [reqs EXCEPT ![i] = Done]
              /\ loading' = IF reqs[i].owner = "page" /\ ~reqs[i].saves THEN FALSE ELSE loading
              /\ cards' = IF reqs[i].owner = "page" /\ ~reqs[i].saves THEN events ELSE cards
              /\ UNCHANGED <<route, events, holds>>
    /\ UNCHANGED <<store, socket, behind>>

-----------------------------------------------------------------------------
\* The bet slip.

\* What the page offers to bet on; the betting window of a live event is PlaceBet's.
CanBet(e) == ~loading /\ e \in DOMAIN cards /\ cards[e].status = "UPCOMING"

\* A bet that succeeds is followed by refreshUser: the provider of the socket renders
\* once more, and hands out what it has.
PlaceBet(e) ==
    /\ CanBet(e) /\ row[e].status = "UPCOMING"
    /\ ~ear /\ ear' = TRUE
    /\ UNCHANGED <<store, reqs, page, joined, wire, behind, failures>>

-----------------------------------------------------------------------------
\* SocketProvider and useOddsUpdates

Connect ==
    /\ ~joined /\ wire = << >>
    /\ joined' = TRUE
    /\ UNCHANGED <<store, reqs, page, ear, wire, behind, failures>>

Disconnect ==
    /\ joined
    /\ Room /\ failures' = failures + 1
    /\ joined' = FALSE
    /\ UNCHANGED <<store, reqs, page, ear, wire, behind>>

\* A balance is pushed: the provider renders, and hands out the socket it has made.
Rerender ==
    /\ ~ear /\ joined
    /\ ear' = TRUE
    /\ UNCHANGED <<store, reqs, page, joined, wire, behind, failures>>

\* handleOddsUpdate: the event of the list, and with it the card, gets the odds; an
\* event the page does not hold gets nothing.  What is pushed to a socket that is away,
\* or not handed to the page, is lost.
Deliver ==
    /\ wire # << >>
    /\ wire' = Tail(wire)
    /\ LET n == Head(wire) IN
         /\ IF joined /\ ear /\ n.event \in DOMAIN events
              THEN /\ events' = [events EXCEPT ![n.event].odds = n.odds]
                   /\ cards' = [cards EXCEPT ![n.event] = [events[n.event] EXCEPT !.odds = n.odds]]
              ELSE UNCHANGED <<events, cards>>
         /\ behind' = IF joined /\ ear /\ n.odds >= gone[n.event]["odds"]
                        THEN behind ELSE behind \cup {"odds"}
         /\ Over(n.event, "odds", n.odds)
    /\ UNCHANGED <<row, writes, cache, job, reqs, route, loading, holds, joined, ear, failures>>

-----------------------------------------------------------------------------
Serve(i) == Lookup(i) \/ ReadRows(i) \/ Fill(i) \/ WriteSave(i) \/ BustSaved(i)
Reply(i) == Receive(i) \/ ReceiveSave(i)

PagesNext ==
    \/ \E i \in InFlight : Serve(i) \/ Reply(i) \/ Fails(i)
    \/ \E e \in Changing : WriteOdds(e) \/ GoLive(e) \/ Save(e) \/ PlaceBet(e)
    \/ \E e \in Events : OpenDetail(e)
    \/ BustCache \/ Broadcast
    \/ \E f \in RowStatuses : SelectTab(f)
    \/ Back
    \/ Connect \/ Disconnect \/ Rerender \/ Deliver

PagesSpec == PagesInit /\ [][PagesNext]_pagesVars

-----------------------------------------------------------------------------
\* Properties

\* "Bust the detail cache so the admin sees the updated event immediately"
\* (admin.service.ts:115): the answer to a save has the odds it wrote or later
\* ones, unless it comes from the cache, and from a reader that had read the row
\* before the cache was busted and has filled it again since.
SaveIsSeen ==
    \A i \in InFlight :
        reqs[i].saves /\ reqs[i].step = "answered" /\ ~reqs[i].answer.raced =>
            reqs[i].answer.rows[reqs[i].key.event].odds >= reqs[i].wrote

\* Nobody asks, writes, pushes or reads.
Quiet == InFlight = {} /\ wire = << >> /\ job = None /\ ~loading

\* "Socket.IO pushes for odds changes, match status [...] - no page refresh needed"
\* (README.md:12), as far as it goes: when nothing is on its way, the page shows the
\* odds of the rows, unless a change that was told to nobody (an admin's), to a socket
\* that was away or not handed to the page, or before the page had its answer, came
\* after the rows were read; the odds of a detail that comes from the cache count as
\* read when it is asked, for every change busts them before it is told.  Statuses are
\* those of the rows unless an event has gone live since they were read: of that
\* nobody is ever told (events.gateway.ts:107 has no caller).  A detail page shows the
\* event of its address unless an older answer, or another event's save, came last.
PageIsCurrent ==
    Quiet =>
        /\ \A e \in DOMAIN cards :
             /\ "odds" \notin behind => cards[e].odds = row[e].odds
             /\ "status" \notin behind => cards[e].status = row[e].status
        /\ route \in DetailKeys /\ "event" \notin behind => DOMAIN cards \subseteq {route.event}

=============================================================================
