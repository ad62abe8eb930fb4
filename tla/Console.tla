------------------------------ MODULE Console ------------------------------
(***************************************************************************)
(* The pages of a signed-in user that show a table: the tabs of the admin  *)
(* page, a user's own bets, balance history, challenges and feedback, and  *)
(* the leaderboard. A request for the rows is sent when the page opens,    *)
(* when another filter or page of the table is chosen, every 30 seconds    *)
(* (jobs), when the user's data change (history) and after a save (users); *)
(* none is cancelled. It carries the token of the session, and an answer   *)
(* 401 ends it.                                                            *)
(*                                                                         *)
(* A version stands for what the rows are: the number of saves so far, or  *)
(* of the user's feedback entries.                                         *)
(***************************************************************************)
EXTENDS Session

CONSTANTS
    Admins,
    Tables,         \* tab -> the tables that are opened there
    Filters, NoFilter,
    LastPage,       \* bound: pages of a table
    WeeklyLimit     \* MAX_WEEKLY_FEEDBACK

AdminTables == {"stats", "users", "audit", "feedback", "jobs"}
\* Those with neither a choice nor a button: asked for once, when the page opens.
AskedOnce   == {"challenges", "leaderboard"}
OwnTables   == {"bets", "history", "myfeedback"} \cup AskedOnce
Filtered    == {"users", "audit", "bets"}
Paged       == {"users", "audit", "feedback", "bets", "history"}

ASSUME ConsoleAssumption ==
    /\ Admins \subseteq Users
    /\ Tables \in [Tabs -> SUBSET (AdminTables \cup OwnTables)]
    /\ NoFilter \in Filters /\ LastPage \in Nat /\ WeeklyLimit \in Nat

VARIABLES
    version,
    page,       \* tab -> its table's state, or None
    opened,     \* tab -> pages opened: a page is known by its number
    entries,    \* user -> feedback entries of the week
    overlaps    \* history: user -> submissions counted while another was between its steps

tables   == <<version, page, opened>>
feedback == <<entries, overlaps>>
vars     == <<session, calls, steps, tables, feedback>>

FirstKey == [filter |-> NoFilter, number |-> 1]

\* shown: the rows on display; busy: the page says that it is loading; added: the
\* entries put before the rows since; asks, holds: the requests sent, and the one whose
\* answer is shown.  History: saved is the version of the last save that was answered,
\* reported the entries said to be submitted; behind, the newest request was made for
\* a choice of before; early, an entry was submitted before the rows were there.
NewPage(n, table) ==
    [id |-> n, table |-> table, choice |-> FirstKey, shown |-> None, busy |-> TRUE,
     added |-> {}, asks |-> 1, holds |-> 0, saved |-> 0, reported |-> {},
     behind |-> FALSE, early |-> FALSE]

\* The n-th request of page p, for key k.
TableCall(p, k, n) == [kind |-> "table", token |-> stored, issued |-> 0, step |-> "sent",
                       id |-> p.id, table |-> p.table, key |-> k, n |-> n,
                       version |-> 0, of |-> None]
SaveCall(p) == [TableCall(p, p.choice, 0) EXCEPT !.kind = "save"]
SubmitCall(p) == [TableCall(p, p.choice, 0) EXCEPT !.kind = "submit"]

\* Pages are there when the layout shows them; the admin's to an admin.
Mounted(t) == Screen(t) = "app" /\ Shows(t) # None
Allowed(t, table) == Mounted(t) /\ (table \in AdminTables => Shows(t) \in Admins)
IsOpen(t)  == page[t] # None
Open(t, c) == page[t] # None /\ page[t].id = c.id
Visible(p) == p.shown # None /\ (p.table \notin {"users", "audit", "feedback"} => ~p.busy)

Add(t, c) == calls' = [calls EXCEPT ![t] = @ \cup {c}]
Replace(t, c, d) == calls' = [calls EXCEPT ![t] = (@ \ {c}) \cup {d}]

Init ==
    /\ SessionInit
    /\ version = 0
    /\ page = [t \in Tabs |-> None]
    /\ opened = [t \in Tabs |-> 0]
    /\ entries = [u \in Users |-> 0] /\ overlaps = entries

-----------------------------------------------------------------------------
\* The page

OpenPage(t, table) ==
    /\ Allowed(t, table) /\ ~IsOpen(t)
    /\ opened' = [opened EXCEPT ![t] = @ + 1]
    /\ page' = [page EXCEPT ![t] = NewPage(opened'[t], table)]
    /\ Add(t, TableCall(page'[t], FirstKey, 1))
    /\ UNCHANGED <<session, steps, version, feedback>>

\* Another page or tab; what was asked for is still answered, to nobody.
LeavePage(t) ==
    /\ IsOpen(t)
    /\ Step
    /\ page' = [page EXCEPT ![t] = None]
    /\ UNCHANGED <<session, calls, version, opened, feedback>>

Asking(p, k) == [p EXCEPT !.choice = k, !.asks = @ + 1, !.busy = TRUE, !.behind = FALSE]

\* Variant that asks for what was chosen before.
AskForStale(t, k) ==
    /\ Step
    /\ page' = [page EXCEPT ![t] = Asking(@, k)]
    /\ Add(t, TableCall(page[t], page[t].choice, page'[t].asks))
    /\ UNCHANGED <<session, version, opened, feedback>>

AskFor(t, k) ==
    /\ Step
    /\ page' = [page EXCEPT ![t] = Asking(@, k)]
    /\ Add(t, TableCall(page[t], k, page'[t].asks))
    /\ UNCHANGED <<session, version, opened, feedback>>

\* Another filter shows the first page; the filters are there while loading.
ChooseFilter(t, f) ==
    /\ IsOpen(t) /\ page[t].table \in Filtered
    /\ page[t].choice # [FirstKey EXCEPT !.filter = f]
    /\ AskFor(t, [FirstKey EXCEPT !.filter = f])

\* The buttons are under the rows.
TurnPage(t, n) ==
    /\ IsOpen(t) /\ page[t].table \in Paged /\ Visible(page[t])
    /\ n \in {page[t].choice.number - 1, page[t].choice.number + 1}
    /\ AskFor(t, [page[t].choice EXCEPT !.number = n])

\* The button of the jobs; a balance pushed to the history's user.
AskAgain(t) ==
    /\ IsOpen(t)
    /\ page[t].table = "history" \/ (page[t].table = "jobs" /\ ~page[t].busy)
    /\ AskFor(t, page[t].choice)

\* The jobs' interval.
Poll(t) ==
    /\ IsOpen(t) /\ page[t].table = "jobs"
    /\ Step
    /\ page' = [page EXCEPT ![t].asks = @ + 1]
    /\ Add(t, TableCall(page[t], page[t].choice, page'[t].asks))
    /\ UNCHANGED <<session, version, opened, feedback>>

\* The server reads the rows as they are, the admin's for an admin only, and the own
\* ones for the user of the token.
Read(t, c, table, v) ==
    /\ c.kind = "table" /\ c.table = table /\ c.step = "sent" /\ Valid(c.token)
    /\ table \in AdminTables => Owner(c.token) \in Admins
    /\ Replace(t, c, [c EXCEPT !.step = "served", !.version = v, !.of = Owner(c.token)])
    /\ UNCHANGED <<session, steps, tables, feedback>>

ListUsers(t, c)        == Read(t, c, "users", version)
GetPlatformStats(t, c) == Read(t, c, "stats", version)
GetAllAuditLog(t, c)   == Read(t, c, "audit", version)
GetAll(t, c)           == Read(t, c, "feedback", version)
GetMyBets(t, c)        == Read(t, c, "bets", version)
GetUserAuditLog(t, c)  == Read(t, c, "history", version)

\* Who has not joined a challenge joins it then: ChallengeProgress has that.
GetActiveChallenges(t, c) == Read(t, c, "challenges", version)

\* The rows are kept for a while by the cache.
GetLeaderboard(t, c) == \E v \in 0 .. version : Read(t, c, "leaderboard", v)

GetMyFeedback(t, c)    == Read(t, c, "myfeedback", entries[Owner(c.token)])

\* A queue that cannot be asked gets a row that says so: the others are shown.
GetJobSchedules(t, c)  == Read(t, c, "jobs", version)

Reads(t, c) ==
    \/ ListUsers(t, c) \/ GetPlatformStats(t, c) \/ GetAllAuditLog(t, c) \/ GetAll(t, c)
    \/ GetMyBets(t, c) \/ GetUserAuditLog(t, c) \/ GetMyFeedback(t, c)
    \/ GetJobSchedules(t, c) \/ GetActiveChallenges(t, c) \/ GetLeaderboard(t, c)

ShowTable(t, c) ==
    /\ c.kind = "table" /\ c.step = "served"
    /\ page' = IF Open(t, c)
               THEN [page EXCEPT ![t].shown = [key |-> c.key, version |-> c.version, of |-> c.of],
                                 ![t].holds = c.n, ![t].busy = FALSE, ![t].added = {}]
               ELSE page
    /\ Answered(t, c)
    /\ UNCHANGED <<session, steps, version, opened, feedback>>

\* The rows stay as they are; a save says so, and nothing is asked for again.
Refused(t, c) ==
    /\ c.kind \in {"table", "save", "submit"} /\ c.step = "sent"
    /\ page' = IF Open(t, c) /\ c.kind = "table" THEN [page EXCEPT ![t].busy = FALSE] ELSE page
    /\ Answered(t, c)
    /\ UNCHANGED <<session, version, opened, feedback>>

RequestFails(t, c) == Step /\ Refused(t, c)

\* 403: the token is not an admin's.
Forbidden(t, c) ==
    /\ Valid(c.token) /\ Owner(c.token) \notin Admins
    /\ Refused(t, c) /\ c.table \in AdminTables
    /\ UNCHANGED steps

\* The button of a row is disabled while its save runs, those of the others are not.
Save(t) ==
    /\ IsOpen(t) /\ page[t].table = "users" /\ Visible(page[t])
    /\ Step
    /\ Add(t, SaveCall(page[t]))
    /\ UNCHANGED <<session, tables, feedback>>

WriteSave(t, c) ==
    /\ c.kind = "save" /\ c.step = "sent"
    /\ Valid(c.token) /\ Owner(c.token) \in Admins
    /\ version' = version + 1
    /\ Replace(t, c, [c EXCEPT !.step = "served", !.version = version'])
    /\ UNCHANGED <<session, steps, page, opened, feedback>>

\* The rows are asked for again, by the function of the render in which the save
\* was begun: for what was chosen then.
SaveDone(t, c) ==
    /\ c.kind = "save" /\ c.step = "served"
    /\ page' = IF Open(t, c)
               THEN [page EXCEPT ![t].asks = @ + 1, ![t].busy = TRUE,
                                 ![t].saved = IF c.version > @ THEN c.version ELSE @,
                                 ![t].behind = c.key # page[t].choice]
               ELSE page
    /\ Replace(t, c, TableCall(c, c.key, IF Open(t, c) THEN page'[t].asks ELSE 0))
    /\ UNCHANGED <<session, steps, version, opened, feedback>>

-----------------------------------------------------------------------------
\* Feedback: the entries of the week are counted, then one is inserted.

Submit(t) ==
    /\ IsOpen(t) /\ page[t].table = "myfeedback"
    /\ \A c \in calls[t] : ~(c.kind = "submit" /\ Open(t, c))
    /\ Step
    /\ page' = [page EXCEPT ![t].early = @ \/ page[t].busy]
    /\ Add(t, SubmitCall(page[t]))
    /\ UNCHANGED <<session, version, opened, feedback>>

Between(u) == {c \in UNION {calls[t] : t \in Tabs} :
                 c.kind = "submit" /\ c.step = "counted" /\ Owner(c.token) = u}

\* Variant that allows one more than the limit.
CountOneMore(t, c) ==
    /\ c.kind = "submit" /\ c.step = "sent" /\ Valid(c.token)
    /\ IF entries[Owner(c.token)] > WeeklyLimit
       THEN Answered(t, c) ELSE Replace(t, c, [c EXCEPT !.step = "counted"])
    /\ UNCHANGED <<session, steps, tables, feedback>>

CountEntries(t, c) ==
    /\ c.kind = "submit" /\ c.step = "sent" /\ Valid(c.token)
    /\ LET u == Owner(c.token) IN
       IF entries[u] >= WeeklyLimit
       THEN Answered(t, c) /\ UNCHANGED overlaps
       ELSE /\ Replace(t, c, [c EXCEPT !.step = "counted"])
            /\ overlaps' = [overlaps EXCEPT ![u] = IF Between(u) = {} THEN @ ELSE @ + 1]
    /\ UNCHANGED <<session, steps, tables, entries>>

InsertEntry(t, c) ==
    /\ c.kind = "submit" /\ c.step = "counted"
    /\ entries' = [entries EXCEPT ![Owner(c.token)] = @ + 1]
    /\ Replace(t, c, [c EXCEPT !.step = "inserted", !.version = entries'[Owner(c.token)]])
    /\ UNCHANGED <<session, steps, tables, overlaps>>

\* Put before the rows that are there, or will be replaced.
SubmitDone(t, c) ==
    /\ c.kind = "submit" /\ c.step = "inserted"
    /\ page' = IF Open(t, c)
               THEN [page EXCEPT ![t].added = @ \cup {c.version},
                                 ![t].reported = @ \cup {c.version}]
               ELSE page
    /\ Answered(t, c)
    /\ UNCHANGED <<session, steps, version, opened, feedback>>

-----------------------------------------------------------------------------
\* A step of the session closes the pages of the tabs it takes from the layout,
\* and of the tabs that no longer show an admin.
Remaining(t) ==
    IF page[t] # None /\ page[t].table \in {b \in Tables[t] : Allowed(t, b)'} THEN page[t] ELSE None

ClosePages ==
    /\ page' = [t \in Tabs |-> Remaining(t)]
    /\ UNCHANGED <<version, opened, feedback>>

Reply(t) == (\E c \in calls[t] : Answer(t, c)) /\ ClosePages

\* The user is replaced: the history is asked for again.
ReplyUser(t, c) ==
    IF IsOpen(t) /\ page[t].table = "history"
    THEN LET p == Asking(page[t], page[t].choice) IN
         /\ UserAnswered(t, c, {TableCall(p, p.choice, p.asks)})
         /\ page' = [page EXCEPT ![t] = p]
         /\ UNCHANGED <<version, opened, feedback>>
    ELSE UserAnswered(t, c, {}) /\ ClosePages

Serve(t) ==
    \E c \in calls[t] :
        \/ Reads(t, c) \/ ShowTable(t, c) \/ Forbidden(t, c)
        \/ WriteSave(t, c) \/ SaveDone(t, c)
        \/ CountEntries(t, c) \/ InsertEntry(t, c) \/ SubmitDone(t, c)
        \/ RequestFails(t, c)

Use(t) ==
    \/ \E table \in Tables[t] : OpenPage(t, table)
    \/ \E f \in Filters : ChooseFilter(t, f)
    \/ \E n \in 1 .. LastPage : TurnPage(t, n)
    \/ LeavePage(t) \/ AskAgain(t) \/ Poll(t) \/ Save(t) \/ Submit(t)

Next ==
    \/ \E t \in Tabs : (Act(t) /\ ClosePages) \/ Reply(t) \/ \E c \in calls[t] : ReplyUser(t, c)
    \/ (\E k \in Tokens : Expire(k)) /\ ClosePages
    \/ \E t \in Tabs : Use(t) \/ Serve(t)

Spec == Init /\ [][Next]_vars

-----------------------------------------------------------------------------
\* Properties

\* The table that shows the answer to its newest request shows what is chosen, not
\* older than the last save that was reported done, and, with the exceptions of
\* ActsAsShown, rows of the user that is shown and each of the entries submitted there
\* once; unless the request came from a save that was begun before the last choice,
\* or the entry was submitted before the rows were there.
TableIsChosen ==
    \A t \in Tabs : IsOpen(t) =>
        LET p == page[t] IN
        p.shown # None /\ p.holds = p.asks =>
            /\ ~p.behind => p.shown.key = p.choice
            /\ p.shown.version >= p.saved
            /\ t \notin foreign \cup crossed =>
                  /\ p.shown.of = Shows(t)
                  /\ p.table = "myfeedback" /\ ~p.early =>
                        /\ p.added \cap 1 .. p.shown.version = {}
                        /\ p.reported \subseteq p.added \cup 1 .. p.shown.version

\* "You can only submit 3 feedback entries per week" (feedback.service.ts:18): more
\* by as many as were counted while another was counted but not inserted.
FeedbackLimit == \A u \in Users : entries[u] <= WeeklyLimit + overlaps[u]

\* A tab is signed out by its user, or because its token has expired; or its first
\* request fails for any reason (useAuth.ts:29), with the exceptions of ActsAsShown.
StaysSignedIn ==
    [][\A t \in Tabs \ (foreign \cup crossed) :
          auth[t].token # 0 /\ auth'[t].token = 0 =>
              {auth[t].token, stored} \cap expired # {} \/ auth[t].loading \/ Logout(t)]_vars
=============================================================================
