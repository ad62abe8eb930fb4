--------------------------- MODULE EventLifecycle ---------------------------
(***************************************************************************)
(* The status of an event row, from the match that PandaScore lists to the *)
(* outbox row that tells the result.  Three BullMQ jobs, each run by one   *)
(* worker but next to the others, write it from what they have read of the *)
(* API and of the table before:                                            *)
(*                                                                         *)
(*   syncUpcomingMatches  creates rows and refreshes those it knows,       *)
(*   detectLiveMatches    UPCOMING -> LIVE, creates rows it has missed,    *)
(*   checkMatchResults    -> FINISHED or CANCELLED, with an outbox row.    *)
(*                                                                         *)
(* The admin may write any status.  Requests to PandaScore fail, jobs fail *)
(* and the backend restarts; what a job has read is lost then.             *)
(***************************************************************************)
EXTENDS Integers, FiniteSets, Sequences

CONSTANTS
    Matches,    \* PandaScore matches
    MaxEdits,   \* statuses the admin may write
    MaxFaults   \* jobs, and requests for a match, that may fail

ASSUME EventLifecycleAssumption ==
    /\ MaxEdits \in Nat
    /\ MaxFaults \in Nat

VARIABLES
    api,        \* PandaScore: the match
    moved,      \* history: matches whose opponents were not always listed in one order
    status,     \* events.status, or "absent"
    teamA,      \* the team in events.teamA
    winner,     \* events.winnerId
    due,        \* events.scheduledAt lies in the past
    posted,     \* the outbox rows of each event, by age: the results they carry
    answered,   \* the matches job: the requests that are answered,
    listed,     \*   and the entries of the answers it has still to upsert
    running,    \* the live job: the matches it has listed, each with its first opponent,
    seen,       \*   and the statuses it has read for them, if it has
    pending,    \* the results job: events it has still to check,
    found,      \*   the statuses it has read for them,
    match,      \*   the event at hand
    answer,     \*   and the answer of the API for it
    edits, faults

apiVars     == <<api, moved>>
matchesJob  == <<answered, listed>>
liveJob     == <<running, seen>>
resultsJob  == <<pending, found, match, answer>>
rowVars     == <<status, teamA, winner, due, posted>>
vars == <<apiVars, rowVars, matchesJob, liveJob, resultsJob, edits, faults>>

Idle     == "idle"          \* no event at hand, no answer, nothing read
NoAnswer == [state |-> "unknown", first |-> "none", winner |-> "none", draw |-> FALSE]

Teams    == {"t1", "t2"}    \* the opponents of a match
First    == Teams \cup {"none"}     \* opponents[0], if two opponents are listed
Lists    == {"UPCOMING", "LIVE"}    \* the status of the rows an entry of each creates
Ended    == {"FINISHED", "CANCELLED"}
Statuses == {"UPCOMING", "LIVE"} \cup Ended
Answers  == [state  : {"unknown", "not_started", "running", "finished", "canceled"},
             first  : First,
             winner : Teams \cup {"none"},
             draw   : BOOLEAN]      \* the results hold two equal scores
Entries  == [match : Matches, status : Lists, first : Teams]

TypeOK ==
    /\ api \in [Matches -> Answers]
    /\ moved \subseteq Matches
    /\ status \in [Matches -> Statuses \cup {"absent"}]
    /\ teamA \in [Matches -> First]
    /\ winner \in [Matches -> {"a", "b", "none"}]
    /\ due \in [Matches -> BOOLEAN]
    /\ posted \in [Matches -> Seq({"a", "b", "void"})]
    /\ answered \subseteq Lists
    /\ listed \subseteq Entries
    /\ running \in [Matches -> First \cup {Idle}]
    /\ seen \in [Matches -> Statuses \cup {"absent", Idle}]
    /\ pending \subseteq Matches
    /\ found \in [Matches -> Statuses \cup {Idle}]
    /\ match \in Matches \cup {Idle}
    /\ answer \in Answers
    /\ edits \in 0 .. MaxEdits
    /\ faults \in 0 .. MaxFaults

Init ==
    /\ api = [m \in Matches |-> [NoAnswer EXCEPT !.state = "not_started"]]
    /\ moved = {}
    /\ status = [m \in Matches |-> "absent"]
    /\ teamA = [m \in Matches |-> "none"]
    /\ winner = [m \in Matches |-> "none"]
    /\ due = [m \in Matches |-> FALSE]
    /\ posted = [m \in Matches |-> <<>>]
    /\ answered = {}
    /\ listed = {}
    /\ running = [m \in Matches |-> Idle]
    /\ seen = [m \in Matches |-> Idle]
    /\ pending = {}
    /\ found = [m \in Matches |-> Idle]
    /\ match = Idle
    /\ answer = NoAnswer
    /\ edits = 0
    /\ faults = 0

-----------------------------------------------------------------------------
\* PandaScore, and the clock

Progress(m, a) ==
    /\ api' = [api EXCEPT ![m] = a]
    /\ UNCHANGED <<moved, rowVars, matchesJob, liveJob, resultsJob, edits, faults>>

MatchStarts(m) ==
    /\ api[m].state = "not_started"
    /\ Progress(m, [api[m] EXCEPT !.state = "running"])

\* A match ends with a winner and unequal scores, by forfeit with equal ones, as
\* a draw, or before its winner is entered.
MatchEnds(m) ==
    /\ api[m].state = "running"
    /\ \E w \in First, draw \in BOOLEAN :
         Progress(m, [api[m] EXCEPT !.state = "finished", !.winner = w, !.draw = draw])

WinnerEntered(m) ==
    /\ api[m].state = "finished" /\ api[m].winner = "none" /\ ~api[m].draw
    /\ \E w \in Teams : Progress(m, [api[m] EXCEPT !.winner = w])

MatchCanceled(m) ==
    /\ api[m].state \in {"not_started", "running"}
    /\ Progress(m, [api[m] EXCEPT !.state = "canceled"])

\* Both opponents are known: t1 is the one that is listed first then.
OpponentsKnown(m) ==
    /\ api[m].first = "none" /\ m \notin moved
    /\ Progress(m, [api[m] EXCEPT !.first = "t1"])

\* They change places, or one is taken out; this happens once at most.
OpponentsMove(m) ==
    /\ api[m].first = "t1"
    /\ \E f \in {"t2", "none"} : api' = [api EXCEPT ![m].first = f]
    /\ moved' = moved \cup {m}
    /\ UNCHANGED <<rowVars, matchesJob, liveJob, resultsJob, edits, faults>>

StartTimePasses(m) ==
    /\ status[m] # "absent" /\ ~due[m]
    /\ due' = [due EXCEPT ![m] = TRUE]
    /\ UNCHANGED <<apiVars, status, teamA, winner, posted, matchesJob, liveJob, resultsJob, edits, faults>>

-----------------------------------------------------------------------------
\* What fetchMatches answers of the matches M: those of the tournaments asked for
\* that fit on a page of fifty, none when the request fails; no more is told.
Fetched(M) == SUBSET M

\* syncUpcomingMatches.  The requests for the upcoming and the running matches are
\* answered at different times; when both are, their entries are upserted one by one,
\* those of the upcoming matches first.  A match without two opponents is skipped.

ListState == [UPCOMING |-> "not_started", LIVE |-> "running"]

\* The requests that are answered when entries are left: none, once the job is over.
NowAnswered(lists, entries) == IF lists = Lists /\ entries = {} THEN {} ELSE lists

MatchesList(list) ==
    /\ list \notin answered
    /\ \E some \in Fetched({m \in Matches : api[m].state = ListState[list]
                                               /\ api[m].first # "none"}) :
         listed' = listed \cup {[match |-> m, status |-> list, first |-> api[m].first] : m \in some}
    /\ answered' = NowAnswered(answered \cup {list}, listed')
    /\ UNCHANGED <<apiVars, rowVars, liveJob, resultsJob, edits, faults>>

\* event.upsert: a row that is there keeps its status, and gets the teams in the order
\* of the list.  The scheduled time is the one of the list, past or not: matches are
\* postponed, and start early or late.
MatchesUpsert(x) ==
    /\ answered = Lists
    /\ x \in listed
    /\ x.status = "LIVE" => ~\E y \in listed : y.match = x.match /\ y.status = "UPCOMING"
    /\ IF status[x.match] = "absent"
         THEN status' = [status EXCEPT ![x.match] = x.status]
         ELSE UNCHANGED status
    /\ teamA' = [teamA EXCEPT ![x.match] = x.first]
    /\ \E d \in BOOLEAN : due' = [due EXCEPT ![x.match] = d]
    /\ listed' = listed \ {x}
    /\ answered' = NowAnswered(answered, listed')
    /\ UNCHANGED <<apiVars, winner, posted, liveJob, resultsJob, edits, faults>>

-----------------------------------------------------------------------------
\* detectLiveMatches

LiveList ==
    /\ \A m \in Matches : running[m] = Idle
    /\ \E some \in Fetched({m \in Matches : api[m].state = "running"}) :
         running' = [m \in Matches |-> IF m \in some THEN api[m].first ELSE Idle]
    /\ UNCHANGED <<apiVars, rowVars, matchesJob, seen, resultsJob, edits, faults>>

\* event.findMany for the matches of the list, in any status
LiveRead ==
    /\ \E m \in Matches : running[m] # Idle
    /\ \A m \in Matches : seen[m] = Idle
    /\ seen' = [m \in Matches |-> IF running[m] # Idle THEN status[m] ELSE Idle]
    /\ UNCHANGED <<apiVars, rowVars, matchesJob, running, resultsJob, edits, faults>>

\* The update goes by the status that was read.  A match that had no row is created,
\* if two opponents are listed; a row that another job has created meanwhile makes
\* that fail, which is logged.
Creates(m) == seen[m] = "absent" /\ status[m] = "absent" /\ running[m] # "none"

LiveWrite(m) ==
    /\ running[m] # Idle
    /\ seen[m] # Idle
    /\ \/ /\ seen[m] = "UPCOMING"
          /\ status' = [status EXCEPT ![m] = "LIVE"]
          /\ UNCHANGED <<teamA, due>>
       \/ /\ Creates(m)
          /\ status' = [status EXCEPT ![m] = "LIVE"]
          /\ teamA' = [teamA EXCEPT ![m] = running[m]]
          /\ \E d \in BOOLEAN : due' = [due EXCEPT ![m] = d]
       \/ /\ seen[m] # "UPCOMING" /\ ~Creates(m)
          /\ UNCHANGED <<status, teamA, due>>
    /\ running' = [running EXCEPT ![m] = Idle]
    /\ seen' = [seen EXCEPT ![m] = Idle]
    /\ UNCHANGED <<apiVars, winner, posted, matchesJob, resultsJob, edits, faults>>

-----------------------------------------------------------------------------
\* checkMatchResults

\* Variants: one that looks for live events only, one for events in any status.
ResultsReadLive ==
    LET rows == {m \in Matches : status[m] = "LIVE" /\ due[m]} IN
    /\ pending = {}
    /\ pending' = rows
    /\ found' = [m \in Matches |-> IF m \in rows THEN status[m] ELSE Idle]
    /\ UNCHANGED <<apiVars, rowVars, matchesJob, liveJob, match, answer, edits, faults>>

ResultsReadAll ==
    LET rows == {m \in Matches : status[m] # "absent" /\ due[m]} IN
    /\ pending = {}
    /\ pending' = rows
    /\ found' = [m \in Matches |-> IF m \in rows THEN status[m] ELSE Idle]
    /\ UNCHANGED <<apiVars, rowVars, matchesJob, liveJob, match, answer, edits, faults>>

ResultsRead ==
    LET rows == {m \in Matches : status[m] \in {"UPCOMING", "LIVE"} /\ due[m]} IN
    /\ pending = {}
    /\ pending' = rows
    /\ found' = [m \in Matches |-> IF m \in rows THEN status[m] ELSE Idle]
    /\ UNCHANGED <<apiVars, rowVars, matchesJob, liveJob, match, answer, edits, faults>>

\* getMatch, which answers null when the request fails
ResultsAsk(m) ==
    /\ match = Idle
    /\ m \in pending
    /\ match' = m
    /\ \/ answer' = api[m] /\ UNCHANGED faults
       \/ answer' = NoAnswer /\ faults < MaxFaults /\ faults' = faults + 1
    /\ UNCHANGED <<apiVars, rowVars, matchesJob, liveJob, pending, found, edits>>

\* The winner's side is told by the first opponent of this answer, not by the row.
\* Variant: by the second one.
SideBySecond(a) == IF a.winner = a.first THEN "b" ELSE "a"

SideOf(a) == IF a.winner = a.first THEN "a" ELSE "b"

\* Variant: the event ends without its outbox row.
FinishAlone(m, side) ==
    /\ status' = [status EXCEPT ![m] = "FINISHED"]
    /\ winner' = [winner EXCEPT ![m] = side]
    /\ UNCHANGED posted

Finish(m, side) ==
    /\ status' = [status EXCEPT ![m] = "FINISHED"]
    /\ winner' = [winner EXCEPT ![m] = side]
    /\ posted' = [posted EXCEPT ![m] = Append(@, side)]

Cancel(m) ==
    /\ status' = [status EXCEPT ![m] = "CANCELLED"]
    /\ posted' = [posted EXCEPT ![m] = Append(@, "void")]
    /\ UNCHANGED winner

\* What the job makes of an answer: finishEvent and cancelEvent, one transaction
\* each, without a look at the row; or nothing.
Conclude(m, a) ==
    IF a.state = "running" /\ found[m] = "UPCOMING"
      THEN status' = [status EXCEPT ![m] = "LIVE"] /\ UNCHANGED <<winner, posted>>
    ELSE IF a.state = "finished" /\ a.winner # "none" /\ ~a.draw
      THEN Finish(m, SideOf(a))
    ELSE IF a.state = "canceled" \/ (a.state = "finished" /\ a.winner # "none")
      THEN Cancel(m)
    ELSE UNCHANGED <<status, winner, posted>>

ResultsWrite ==
    /\ match # Idle
    /\ Conclude(match, answer)
    /\ pending' = pending \ {match}
    /\ found' = [found EXCEPT ![match] = Idle]
    /\ match' = Idle
    /\ answer' = NoAnswer
    /\ UNCHANGED <<apiVars, teamA, due, matchesJob, liveJob, edits, faults>>

-----------------------------------------------------------------------------
\* AdminService.updateEvent: any status, and no outbox row
AdminSetsStatus(m) ==
    /\ status[m] # "absent"
    /\ edits < MaxEdits
    /\ edits' = edits + 1
    /\ \E s \in Statuses : status' = [status EXCEPT ![m] = s]
    /\ UNCHANGED <<apiVars, teamA, winner, due, posted, matchesJob, liveJob, resultsJob, faults>>

\* A statement fails or the backend restarts: the rest of the job is not done.
JobFails ==
    /\ faults < MaxFaults
    /\ faults' = faults + 1
    /\ \/ /\ answered' = {} /\ listed' = {}
          /\ UNCHANGED <<liveJob, resultsJob>>
       \/ /\ running' = [m \in Matches |-> Idle]
          /\ seen' = [m \in Matches |-> Idle]
          /\ UNCHANGED <<matchesJob, resultsJob>>
       \/ /\ pending' = {}
          /\ found' = [m \in Matches |-> Idle]
          /\ match' = Idle
          /\ answer' = NoAnswer
          /\ UNCHANGED <<matchesJob, liveJob>>
    /\ UNCHANGED <<apiVars, rowVars, edits>>

MatchStep(m) ==
    \/ MatchStarts(m)
    \/ MatchEnds(m)
    \/ WinnerEntered(m)
    \/ MatchCanceled(m)
    \/ OpponentsKnown(m)
    \/ OpponentsMove(m)

Next ==
    \/ \E m \in Matches : MatchStep(m) \/ StartTimePasses(m)
    \/ \E list \in Lists : MatchesList(list)
    \/ \E x \in listed : MatchesUpsert(x)
    \/ LiveList
    \/ LiveRead
    \/ \E m \in Matches : LiveWrite(m)
    \/ ResultsRead
    \/ \E m \in Matches : ResultsAsk(m)
    \/ ResultsWrite
    \/ \E m \in Matches : AdminSetsStatus(m)
    \/ JobFails

Spec == Init /\ [][Next]_vars

\* Time passes, the jobs recur and run on.  What PandaScore does is up to it.
Fairness ==
    /\ \A m \in Matches : WF_vars(StartTimePasses(m))
    /\ WF_vars(\E x \in listed : MatchesUpsert(x))
    /\ WF_vars(LiveRead)
    /\ \A m \in Matches : WF_vars(LiveWrite(m))
    /\ WF_vars(ResultsRead)
    /\ \A m \in Matches : WF_vars(ResultsAsk(m))
    /\ WF_vars(ResultsWrite)

FairSpec == Spec /\ Fairness

-----------------------------------------------------------------------------
\* Properties

\* The result a match has, once PandaScore will not change it any more.
Decided(m) ==
    \/ api[m].state = "canceled"
    \/ api[m].state = "finished" /\ api[m].winner # "none"

Void(m) == api[m].state = "canceled" \/ api[m].draw

\* The side of the event, as its row shows the teams, that the match was won by.
Verdict(m) ==
    IF Void(m) THEN "void"
    ELSE IF api[m].winner = teamA[m] THEN "a" ELSE "b"

\* Bets are settled by PandaScore's result: every outbox row of an event, also a
\* second one, refunds exactly if the match is void, and otherwise names the side on
\* which the row shows the winning team; so does the winner the event names.  The row
\* takes its teams from a list, the side is told by a later answer
\* (events.service.ts:247, 417-418): the latter only holds while PandaScore keeps the
\* order of the opponents.
PostedIsVerdict ==
    \A m \in Matches :
        /\ \A i \in DOMAIN posted[m] :
             /\ Decided(m)
             /\ posted[m][i] = "void" <=> Void(m)
             /\ m \notin moved => posted[m][i] = Verdict(m)
        /\ winner[m] # "none" /\ m \notin moved => winner[m] = Verdict(m)

\* An event does not end without the outbox row that settles its bets, whichever
\* job wrote its row last, and from which reading.  Only an admin's write does
\* that: updateEvent posts nothing (admin.service.ts:93-97).
EndedIsPosted ==
    edits = 0 => \A m \in Matches : status[m] \in Ended => posted[m] # <<>>

\* An event is ended, and its bets are sent to settlement, twice at most, and twice
\* more for each status the admin writes.  The second time is the live job's doing: what
\* it has read when the event was UPCOMING makes it LIVE after the results job has ended
\* it (events.service.ts:319-327), but it cannot read UPCOMING again.
PostedAtMostTwice ==
    \A m \in Matches : Len(posted[m]) <= 2 * (1 + edits)

\* An event with a row ends for good once its match has a result, in spite of
\* failed requests and jobs, postponements and stale writes of the live job.
EveryResultArrives ==
    \A m \in Matches :
        Decided(m) /\ status[m] # "absent" ~> [](status[m] \in Ended)

=============================================================================
