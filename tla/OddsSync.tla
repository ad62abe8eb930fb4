------------------------------ MODULE OddsSync ------------------------------
(***************************************************************************)
(* How CS2 events get the odds of hltv.org: the mapping job gives a        *)
(* tournament the HLTV event of a like name; the sync job gives an event   *)
(* the HLTV match of its teams, and enqueues a job for the odds of every   *)
(* mapped event; that job averages the quotes of the match and writes them *)
(* unless they are those the sync job had read.  The queue has one worker. *)
(*                                                                         *)
(* A match quotes one price, which stands for the quotes of both teams;    *)
(* odds remember which team's quote is side A's.  A request to HLTV is     *)
(* answered by what the site shows at that moment, or by nothing (rate     *)
(* limit, circuit breaker and proxies are HltvLimiter's).                  *)
(***************************************************************************)
EXTENDS Integers, Sequences, FiniteSets

CONSTANTS
    Tournaments, Events, HltvEvents,
    Matches,        \* HLTV's matches: numbers, in the order of its pages
    TournamentOf,   \* event -> tournament
    PageOf,         \* match -> the HLTV event it is listed under
    LikeNamed,      \* pairs of a tournament and an HLTV event whose names contain each other
    TeamA, TeamB,   \* event -> name of the team
    Team1, Team2,   \* match -> name of the team
    Alike,          \* pairs of names that teamsMatch takes for one team
    Same,           \* pairs of names that are one team
    Close,          \* pairs of an event and a match within three hours
    Prices,
    None,
    MaxChanges      \* moves of the site, admin's edits, failing requests and restarts

ASSUME OddsSyncAssumption ==
    /\ Matches \cup Prices \subseteq Nat /\ Prices # {}
    /\ TournamentOf \in [Events -> Tournaments] /\ PageOf \in [Matches -> HltvEvents]
    /\ None \notin HltvEvents /\ None \notin Matches
    /\ MaxChanges \in Nat

VARIABLES
    tournament,     \* tournament -> [hltv, ended]
    event,          \* event -> [hltvId, open, odds]
    site,           \* match -> [state, price], price None while nobody trusted quotes
    queue,          \* the jobs that wait, in order
    repeat,         \* the next repeated sync is delayed until its time
    work,           \* what the worker of the queue is doing
    mapper,         \* tournaments the mapping job still has to map, or None
    changes

vars == <<tournament, event, site, queue, repeat, work, mapper, changes>>

NoOdds      == [price |-> None, first |-> None, match |-> None]
AdminOdds   == [price |-> None, first |-> "admin", match |-> None]
Sync(name)  == [name |-> name, event |-> None, hltvId |-> None, odds |-> NoOdds]
Single(e, row) == [name |-> "odds-single", event |-> e, hltvId |-> row.hltvId, odds |-> row.odds]

First(S) == CHOOSE m \in S : \A n \in S : m <= n

\* The worker: its job, the step it is at, and what it holds meanwhile.
Idle == [job |-> None, step |-> "idle", left |-> {}, on |-> None, rows |-> << >>,
         pages |-> << >>, todo |-> {}, price |-> None]

Init ==
    /\ tournament = [t \in Tournaments |-> [hltv |-> None, ended |-> FALSE]]
    /\ event = [e \in Events |-> [hltvId |-> None, open |-> TRUE, odds |-> NoOdds]]
    /\ site = [m \in Matches |-> [state |-> "scheduled", price |-> First(Prices)]]
    /\ queue = <<Sync("sync-now")>>
    /\ repeat = TRUE
    /\ work = Idle
    /\ mapper = None
    /\ changes = 0

-----------------------------------------------------------------------------
\* hltv.team-matcher.ts

TeamsMatch(n1, n2) == <<n1, n2>> \in Alike

\* Variant that takes the order of the page for that of the event.
UnswappedTeams(m, e) ==
    IF \/ TeamsMatch(Team1[m], TeamA[e]) /\ TeamsMatch(Team2[m], TeamB[e])
       \/ TeamsMatch(Team1[m], TeamB[e]) /\ TeamsMatch(Team2[m], TeamA[e])
    THEN "direct" ELSE "none"

MatchTeams(m, e) ==
    IF TeamsMatch(Team1[m], TeamA[e]) /\ TeamsMatch(Team2[m], TeamB[e]) THEN "direct"
    ELSE IF TeamsMatch(Team1[m], TeamB[e]) /\ TeamsMatch(Team2[m], TeamA[e]) THEN "swapped"
    ELSE "none"

\* The matches of a page that an event may be mapped to; it is to the first.
Suited(page, e) == {m \in page : MatchTeams(m, e) # "none" /\ <<e, m>> \in Close}

-----------------------------------------------------------------------------
\* HLTV, and the administrator: changes from outside

Room == changes < MaxChanges
Listed(h) == {m \in Matches : PageOf[m] = h /\ site[m].state # "gone"}
Active(m) == site[m].state \in {"scheduled", "live"}    \* live, or its date is to come

\* A match is overdue before it goes live, or is put off.
Moves == {<<"scheduled", "live">>, <<"scheduled", "overdue">>, <<"overdue", "scheduled">>,
          <<"overdue", "live">>, <<"live", "gone">>}

Move(m, s) ==
    /\ Room /\ changes' = changes + 1
    /\ <<site[m].state, s>> \in Moves
    /\ site' = [site EXCEPT ![m].state = s]
    /\ UNCHANGED <<tournament, event, queue, repeat, work, mapper>>

Reprice(m, p) ==
    /\ Room /\ changes' = changes + 1
    /\ site[m].price # p
    /\ site' = [site EXCEPT ![m].price = p]
    /\ UNCHANGED <<tournament, event, queue, repeat, work, mapper>>

\* The results job
EndEvent(e) ==
    /\ event[e].open /\ event[e].hltvId # None /\ site[event[e].hltvId].state = "gone"
    /\ event' = [event EXCEPT ![e].open = FALSE]
    /\ UNCHANGED <<tournament, site, queue, repeat, work, mapper, changes>>

\* updateEvent with odds, or with an HLTV id: ids are unique.
AdminPrices(e) ==
    /\ Room /\ changes' = changes + 1
    /\ event' = [event EXCEPT ![e].odds = AdminOdds]
    /\ UNCHANGED <<tournament, site, queue, repeat, work, mapper>>

Unique(e, m) == \A f \in Events \ {e} : event[f].hltvId # m

AdminMaps(e, m) ==
    /\ Room /\ changes' = changes + 1
    /\ Unique(e, m)
    /\ event' = [event EXCEPT ![e].hltvId = m]
    /\ UNCHANGED <<tournament, site, queue, repeat, work, mapper>>

\* syncTournaments: PandaScore has a tournament as running, with its end_at, or as past.
\* Its dates are the tournament's: past when no event is open any more.  A date that is
\* wrong counts as a change; so does a list that cannot be had, whose tournaments (or
\* those on none of the pages) are left as they are.
Over(t) == \A e \in Events : TournamentOf[e] = t => ~event[e].open

SyncTournaments ==
    /\ \E T \in SUBSET Tournaments : \E Wrong \in SUBSET T :
         /\ IF T = Tournaments /\ Wrong = {} THEN UNCHANGED changes
            ELSE Room /\ changes' = changes + 1
         /\ tournament' = [t \in Tournaments |-> IF t \notin T THEN tournament[t] ELSE
                             [tournament[t] EXCEPT !.ended = (Over(t) <=> t \notin Wrong)]]
    /\ UNCHANGED <<event, site, queue, repeat, work, mapper>>

-----------------------------------------------------------------------------
\* HltvMappingProcessor.process

Unmapped == {t \in Tournaments : tournament[t].hltv = None /\ ~tournament[t].ended}

StartMapping ==
    /\ mapper = None /\ Unmapped # {}
    /\ mapper' = Unmapped
    /\ UNCHANGED <<tournament, event, site, queue, repeat, work, changes>>

\* getEvents answers nothing: the job is done until its next time.
MappingUnanswered ==
    /\ mapper # None
    /\ Room /\ changes' = changes + 1
    /\ mapper' = None
    /\ UNCHANGED <<tournament, event, site, queue, repeat, work>>

MapTournament(t) ==
    /\ mapper # None /\ t \in mapper
    /\ mapper' = IF mapper = {t} THEN None ELSE mapper \ {t}
    /\ LET named == {h \in HltvEvents : <<t, h>> \in LikeNamed} IN
         tournament' = IF named = {} THEN tournament
                       ELSE [tournament EXCEPT ![t].hltv = CHOOSE h \in named : TRUE]
    /\ UNCHANGED <<event, site, queue, repeat, work, changes>>

-----------------------------------------------------------------------------
\* scheduleOddsJobs

\* The tournaments, and the delay of the next repetition.
StartSync ==
    /\ work = Idle /\ queue # << >> /\ Head(queue).name # "odds-single"
    /\ queue' = Tail(queue)
    /\ repeat' = (repeat \/ Head(queue).name = "sync")
    /\ LET mapped == {t \in Tournaments : tournament[t].hltv # None /\ ~tournament[t].ended} IN
         work' = IF mapped = {} THEN Idle
                 ELSE [Idle EXCEPT !.job = Head(queue), !.step = "events", !.left = mapped]
    /\ UNCHANGED <<tournament, event, site, mapper, changes>>

\* ourEvents
ReadEvents ==
    /\ work.step = "events"
    /\ work' = [work EXCEPT !.step = "page",
                  !.rows = [e \in {e \in Events : event[e].open /\ TournamentOf[e] \in work.left} |->
                              event[e]]]
    /\ UNCHANGED <<tournament, event, site, queue, repeat, mapper, changes>>

\* The worker without the tournament it was on.
Through(w, t) ==
    IF w.left = {t} THEN Idle
    ELSE [w EXCEPT !.step = "page", !.left = @ \ {t}, !.on = None, !.todo = {}]

\* getEventMatches, once for every page.
Fetched(h) == h \in DOMAIN work.pages

Page(t, page) ==
    LET h == tournament[t].hltv
        w == [work EXCEPT !.pages = [g \in DOMAIN @ \cup {h} |-> IF g = h THEN page ELSE @[g]]] IN
    IF page = None THEN work' = Through(w, t) /\ UNCHANGED tournament
    ELSE IF page # {} /\ \A m \in page : ~Active(m)
      THEN /\ work' = Through(w, t)
           /\ tournament' = [tournament EXCEPT ![t].ended = TRUE]
      ELSE /\ work' = [w EXCEPT !.step = "map", !.on = t,
                         !.todo = {e \in DOMAIN w.rows : TournamentOf[e] = t /\ w.rows[e].hltvId = None}]
           /\ UNCHANGED tournament

FetchPage(t) ==
    /\ work.step = "page" /\ t \in work.left
    /\ LET h == tournament[t].hltv IN
         IF Fetched(h) THEN Page(t, work.pages[h]) /\ UNCHANGED changes
         ELSE \/ Page(t, Listed(h)) /\ UNCHANGED changes
              \/ Room /\ changes' = changes + 1 /\ Page(t, None)
    /\ UNCHANGED <<event, site, queue, repeat, mapper>>

\* event.update of the id; one that is taken fails, and no other match is tried.
MapEvent(e) ==
    /\ work.step = "map" /\ e \in work.todo
    /\ LET fits == Suited(work.pages[tournament[work.on].hltv], e) IN
         IF fits # {} /\ Unique(e, First(fits))
         THEN /\ event' = [event EXCEPT ![e].hltvId = First(fits)]
              /\ work' = [work EXCEPT !.todo = @ \ {e}, !.rows[e].hltvId = First(fits)]
         ELSE /\ work' = [work EXCEPT !.todo = @ \ {e}]
              /\ UNCHANGED event
    /\ UNCHANGED <<tournament, site, queue, repeat, mapper, changes>>

Mapped == {e \in DOMAIN work.rows : TournamentOf[e] = work.on /\ work.rows[e].hltvId # None}

Enqueue ==
    /\ work.step = "map" /\ work.todo = {}
    /\ work' = IF Mapped = {} THEN Through(work, work.on)
               ELSE [work EXCEPT !.step = "add", !.todo = Mapped]
    /\ UNCHANGED <<tournament, event, site, queue, repeat, mapper, changes>>

AddJob(e) ==
    /\ work.step = "add" /\ e \in work.todo
    /\ queue' = Append(queue, Single(e, work.rows[e]))
    /\ work' = IF work.todo = {e} THEN Through(work, work.on) ELSE [work EXCEPT !.todo = @ \ {e}]
    /\ UNCHANGED <<tournament, event, site, repeat, mapper, changes>>

-----------------------------------------------------------------------------
\* updateSingleEventOdds

StartSingle ==
    /\ work = Idle /\ queue # << >> /\ Head(queue).name = "odds-single"
    /\ queue' = Tail(queue)
    /\ work' = [Idle EXCEPT !.job = Head(queue), !.step = "odds"]
    /\ UNCHANGED <<tournament, event, site, repeat, mapper, changes>>

\* getMatch: a price, no trusted one, or nothing.
FetchOdds ==
    /\ work.step = "odds"
    /\ LET price == site[work.job.hltvId].price IN
         \/ /\ work' = IF price = None THEN Idle ELSE [work EXCEPT !.step = "write", !.price = price]
            /\ UNCHANGED changes
         \/ /\ Room /\ changes' = changes + 1
            /\ work' = Idle
    /\ UNCHANGED <<tournament, event, site, queue, repeat, mapper>>

\* The odds of an event by the quotes of a match: unknown names keep the page's order.
Quoted(e, m, price) ==
    [price |-> price, first |-> IF MatchTeams(m, e) = "swapped" THEN 2 ELSE 1, match |-> m]

Differ(o1, o2) == o1.price # o2.price \/ o1.first # o2.first

\* Compared with what the sync job read, written whatever the row has become.  Variant
\* that writes where there were none.
WriteFirst ==
    /\ work.step = "write"
    /\ LET e == work.job.event
           odds == Quoted(e, work.job.hltvId, work.price) IN
         event' = IF work.job.odds = NoOdds THEN [event EXCEPT ![e].odds = odds] ELSE event
    /\ work' = Idle
    /\ UNCHANGED <<tournament, site, queue, repeat, mapper, changes>>

WriteOdds ==
    /\ work.step = "write"
    /\ LET e == work.job.event
           odds == Quoted(e, work.job.hltvId, work.price) IN
         event' = IF Differ(odds, work.job.odds) THEN [event EXCEPT ![e].odds = odds] ELSE event
    /\ work' = Idle
    /\ UNCHANGED <<tournament, site, queue, repeat, mapper, changes>>

-----------------------------------------------------------------------------
\* The queue

\* The delayed sync job's time has come.  Variant: a clock that does not wait for it
\* to be worked on.
PromoteAnyway ==
    /\ repeat
    /\ queue' = Append(queue, Sync("sync"))
    /\ UNCHANGED <<tournament, event, site, repeat, work, mapper, changes>>

Promote ==
    /\ repeat /\ repeat' = FALSE
    /\ queue' = Append(queue, Sync("sync"))
    /\ UNCHANGED <<tournament, event, site, work, mapper, changes>>

\* onModuleInit drains the queue and starts anew; the job that was active is stalled,
\* and may be run once more.
Again(job) == IF job.name = "sync" THEN Sync("sync-now") ELSE job

Restart ==
    /\ Room /\ changes' = changes + 1
    /\ \E again \in {<< >>} \cup {<<Again(j)>> : j \in {work.job} \ {None}} :
         queue' = again \o <<Sync("sync-now")>>
    /\ repeat' = TRUE
    /\ work' = Idle /\ mapper' = None
    /\ UNCHANGED <<tournament, event, site>>

-----------------------------------------------------------------------------
Mapping == StartMapping \/ \E t \in Tournaments : MapTournament(t)
Working ==
    \/ StartSync \/ ReadEvents \/ Enqueue
    \/ StartSingle \/ FetchOdds \/ WriteOdds
    \/ \E t \in Tournaments : FetchPage(t)
    \/ \E e \in Events : MapEvent(e) \/ AddJob(e)

Next ==
    \/ \E m \in Matches : \/ \E s \in {"scheduled", "overdue", "live", "gone"} : Move(m, s)
                          \/ \E p \in Prices \cup {None} : Reprice(m, p)
    \/ \E e \in Events : \/ EndEvent(e) \/ AdminPrices(e)
                         \/ \E m \in Matches : AdminMaps(e, m)
    \/ SyncTournaments
    \/ StartMapping \/ MappingUnanswered
    \/ \E t \in Tournaments : MapTournament(t)
    \/ StartSync \/ ReadEvents \/ Enqueue \/ StartSingle \/ FetchOdds \/ WriteOdds
    \/ \E t \in Tournaments : FetchPage(t)
    \/ \E e \in Events : MapEvent(e) \/ AddJob(e)
    \/ Promote \/ Restart

Spec == Init /\ [][Next]_vars

\* Workers go on with their jobs, repeated jobs come.
FairSpec ==
    /\ Spec
    /\ WF_vars(Mapping) /\ WF_vars(Working) /\ WF_vars(Promote) /\ WF_vars(SyncTournaments)

-----------------------------------------------------------------------------
\* Properties

\* The match an event has, or would be given by itself.
MatchOf(e) ==
    IF event[e].hltvId # None THEN event[e].hltvId
    ELSE LET page == {m \in Matches : \E h \in HltvEvents :
                        <<TournamentOf[e], h>> \in LikeNamed /\ m \in Listed(h)}
         IN IF Suited(page, e) = {} THEN None ELSE First(Suited(page, e))

\* Its odds are to be had: the match is on, somebody quotes it, nobody else takes it.
Quotable(e) ==
    LET m == MatchOf(e) IN
    /\ event[e].open /\ m # None
    /\ Active(m) /\ site[m].price # None
    /\ \A f \in Events \ {e} : MatchOf(f) # m

\* "All events eventually get odds" (hltv-sync.processor.ts:138), and follow them: an
\* event whose match goes on being quoted ends up with the latest quote, whatever an
\* admin has written over it, whichever comparison was with odds that were no longer
\* the row's, and however often requests fail, the page shows no match as active, or
\* the process restarts.
OddsFollow ==
    \A e \in Events :
        <>[]Quotable(e) =>
            <>[](Quotable(e) => ~Differ(event[e].odds, Quoted(e, MatchOf(e), site[MatchOf(e)].price)))

\* Names that are taken for one team where they are, and only there.
Recognised(e, m) ==
    \A n \in {Team1[m], Team2[m]}, k \in {TeamA[e], TeamB[e]} : <<n, k>> \in Alike <=> <<n, k>> \in Same

\* The odds of a team are on its side of the event: where names are recognised, side A
\* has the quote of the team that is team A, in whichever order the page has them.
OddsOnTheirSide ==
    \A e \in Events :
        LET o == event[e].odds IN
        o.match # None /\ Recognised(e, o.match)
          /\ (\E n \in {Team1[o.match], Team2[o.match]} : <<n, TeamA[e]>> \in Same)
            => <<IF o.first = 1 THEN Team1[o.match] ELSE Team2[o.match], TeamA[e]>> \in Same

\* A slow HLTV does not let jobs pile up: at most the odds jobs of three rounds wait,
\* the third after a restart has run a sync job again, and the next sync job.
QueueStaysShort == Len(queue) <= 3 * Cardinality(Events) + 1
=============================================================================
