-------------------------- MODULE ChallengeProgress --------------------------
(***************************************************************************)
(* Daily and weekly challenges of one user: what the user does is told to  *)
(* the queue challenge-progress, whose handlers read the user's active     *)
(* rows, and write each of them back with new progress, statement by       *)
(* statement.  The maintenance job expires and creates challenges          *)
(* meanwhile, and the challenges page enrols the user.                     *)
(*                                                                         *)
(* Handlers of different users share no row, so one user stands for all.   *)
(***************************************************************************)
EXTENDS Integers, FiniteSets, FiniteSetsExt

CONSTANTS
    Challenges,
    Kind,       \* challenge -> "DAILY" or "WEEKLY"
    Criteria,   \* challenge -> [action, game, count]; game "any" for none
    Messages,   \* what the user does; each is told by one message
    Content,    \* message -> [action, game, event, amount]; event "none" for none
    Handlers,   \* messages that may be in progress at once
    MaxFaults

Kinds   == {"DAILY", "WEEKLY"}
NoEvent == "none"
NoMsg   == "idle"

EventsOf(S) == {Content[m].event : m \in S} \ {NoEvent}

ASSUME ChallengeAssumption ==
    /\ Kind \in [Challenges -> Kinds]
    /\ \A c \in Challenges : Criteria[c].count \in Nat \ {0}
    /\ \A m \in Messages :
         /\ Content[m].amount \in Nat \ {0}
         /\ Content[m].action = "place_bet" => Content[m].event # NoEvent /\ Content[m].amount = 1
    /\ NoMsg \notin Messages
    /\ IsFiniteSet(Messages)
    /\ MaxFaults \in Nat

VARIABLES
    period,     \* challenge -> "none", "running" or "over"
    row,        \* user_challenges.status, or "absent"
    progress,   \* user_challenges.progress
    counted,    \* user_challenges.metadata.countedEvents
    rewarded,   \* how many times the reward was credited
    enrolling,  \* challenges the page has found the user not enrolled in
    told,       \* what the user has done so far
    queue,      \* messages ready
    work,       \* handler -> its message, or NoMsg
    todo,       \*   the rows it has read and not come to yet
    oldProgress, oldCounted,    \* and what they held
    owing,      \*   the challenge it has completed and not rewarded yet, as a set
    faults,
    overlapped  \* history: two messages of the user have been in progress at once

rows    == <<row, progress, counted>>
handler == <<work, todo, oldProgress, oldCounted, owing>>
vars    == <<period, rows, rewarded, enrolling, told, queue, handler, faults, overlapped>>

TypeOK ==
    /\ period \in [Challenges -> {"none", "running", "over"}]
    /\ row \in [Challenges -> {"absent", "ACTIVE", "COMPLETED", "EXPIRED"}]
    /\ progress \in [Challenges -> Nat]
    /\ counted \in [Challenges -> SUBSET EventsOf(Messages)]
    /\ rewarded \in [Challenges -> Nat]
    /\ enrolling \subseteq Challenges
    /\ told \subseteq Messages
    /\ queue \subseteq Messages
    /\ work \in [Handlers -> Messages \cup {NoMsg}]
    /\ todo \in [Handlers -> SUBSET Challenges]
    /\ oldProgress \in [Handlers -> [Challenges -> Nat]]
    /\ oldCounted \in [Handlers -> [Challenges -> SUBSET EventsOf(Messages)]]
    /\ owing \in [Handlers -> SUBSET Challenges]
    /\ faults \in Nat
    /\ overlapped \in BOOLEAN

Init ==
    /\ period = [c \in Challenges |-> "none"]
    /\ row = [c \in Challenges |-> "absent"]
    /\ progress = [c \in Challenges |-> 0]
    /\ counted = [c \in Challenges |-> {}]
    /\ rewarded = [c \in Challenges |-> 0]
    /\ enrolling = {}
    /\ told = {}
    /\ queue = {}
    /\ work = [h \in Handlers |-> NoMsg]
    /\ todo = [h \in Handlers |-> {}]
    /\ oldProgress = [h \in Handlers |-> [c \in Challenges |-> 0]]
    /\ oldCounted = [h \in Handlers |-> [c \in Challenges |-> {}]]
    /\ owing = [h \in Handlers |-> {}]
    /\ faults = 0
    /\ overlapped = FALSE

-----------------------------------------------------------------------------
\* generateChallenges: at most one challenge of a kind is created at a time, from
\* a template.  expireChallenges: the rows of challenges that are over.

Generate(c) ==
    /\ period[c] = "none"
    /\ \A d \in Challenges : period[d] = "running" => Kind[d] # Kind[c]
    /\ period' = [period EXCEPT ![c] = "running"]
    /\ UNCHANGED <<rows, rewarded, enrolling, told, queue, handler, faults, overlapped>>

TimeIsUp(c) ==
    /\ period[c] = "running"
    /\ period' = [period EXCEPT ![c] = "over"]
    /\ UNCHANGED <<rows, rewarded, enrolling, told, queue, handler, faults, overlapped>>

\* The rows expireChallenges selects.  Variants: with the comparison swapped, and
\* without the condition on the status.
OutdatedSwapped(c) == period[c] = "running" /\ row[c] = "ACTIVE"
OutdatedAnyRow(c)  == period[c] = "over" /\ row[c] # "absent"
Outdated(c)        == period[c] = "over" /\ row[c] = "ACTIVE"

Expire ==
    /\ row' = [c \in Challenges |-> IF Outdated(c) THEN "EXPIRED" ELSE row[c]]
    /\ row' # row
    /\ UNCHANGED <<period, progress, counted, rewarded, enrolling, told, queue, handler, faults, overlapped>>

\* getActiveChallenges reads the challenges that run and the rows of the user, and
\* then creates the rows that were missing, of challenges that may be over by then.
FindToEnroll ==
    /\ enrolling = {}
    /\ enrolling' = {c \in Challenges : period[c] = "running" /\ row[c] = "absent"}
    /\ enrolling' # {}
    /\ UNCHANGED <<period, rows, rewarded, told, queue, handler, faults, overlapped>>

\* createMany with skipDuplicates.
Enroll ==
    /\ enrolling # {}
    /\ row' = [c \in Challenges |-> IF c \in enrolling /\ row[c] = "absent"
                                      THEN "ACTIVE" ELSE row[c]]
    /\ enrolling' = {}
    /\ UNCHANGED <<period, progress, counted, rewarded, told, queue, handler, faults, overlapped>>

-----------------------------------------------------------------------------
\* The user places or wins a bet, and a message is published.  Nobody waits for
\* the publish, and nobody retries it.
Act(m) ==
    /\ m \notin told
    /\ told' = told \cup {m}
    /\ \/ queue' = queue \cup {m} /\ UNCHANGED faults
       \/ UNCHANGED queue /\ faults < MaxFaults /\ faults' = faults + 1
    /\ UNCHANGED <<period, rows, rewarded, enrolling, handler, overlapped>>

-----------------------------------------------------------------------------
\* trackProgress

Concerns(m, c) ==
    /\ Criteria[c].action = Content[m].action
    /\ Criteria[c].game = "any" \/ Content[m].game \in {"none", Criteria[c].game}

\* userChallenge.findMany, and the rows the message concerns
Take(h, m) ==
    /\ work[h] = NoMsg
    /\ m \in queue
    /\ queue' = queue \ {m}
    /\ work' = [work EXCEPT ![h] = m]
    /\ todo' = [todo EXCEPT ![h] = {c \in Challenges : row[c] = "ACTIVE" /\ period[c] = "running"
                                                        /\ Concerns(m, c)}]
    /\ oldProgress' = [oldProgress EXCEPT ![h] = progress]
    /\ oldCounted' = [oldCounted EXCEPT ![h] = counted]
    /\ overlapped' = (overlapped \/ \E g \in Handlers : work[g] # NoMsg)
    /\ UNCHANGED <<period, rows, rewarded, enrolling, told, owing, faults>>

\* The event of the message is among the counted ones.  Variant without the test.
NeverSkips(h, c) == FALSE
Skips(h, c)      == Content[work[h]].event \in oldCounted[h][c]

\* countedEvents afterwards: left alone if the message names no event.
EventsAfter(h, c) ==
    IF Content[work[h]].event = NoEvent THEN counted[c]
    ELSE oldCounted[h][c] \cup {Content[work[h]].event}

\* progress afterwards: what was read, plus the amount.  Variant: the amount alone.
AmountAlone(h, c)   == Content[work[h]].amount
ProgressAfter(h, c) == oldProgress[h][c] + Content[work[h]].amount

\* The status of a row: completed when its target is met.
StatusAfter(h, c) == IF ProgressAfter(h, c) >= Criteria[c].count THEN "COMPLETED" ELSE row[c]

\* userChallenge.update, unless the event has been counted
UpdateRow(h, c) ==
    /\ c \in todo[h] /\ owing[h] = {}
    /\ todo' = [todo EXCEPT ![h] = @ \ {c}]
    /\ IF Skips(h, c)
         THEN UNCHANGED <<rows, owing>>
         ELSE /\ progress' = [progress EXCEPT ![c] = ProgressAfter(h, c)]
              /\ counted' = [counted EXCEPT ![c] = EventsAfter(h, c)]
              /\ row' = [row EXCEPT ![c] = StatusAfter(h, c)]
              /\ owing' = [owing EXCEPT ![h] =
                             IF ProgressAfter(h, c) >= Criteria[c].count THEN {c} ELSE {}]
    /\ UNCHANGED <<period, rewarded, enrolling, told, queue, work, oldProgress, oldCounted, faults, overlapped>>

\* user.update: the reward.  Variant that pays for every completed row again.
RewardAgain(h) ==
    /\ owing[h] # {}
    /\ rewarded' = [c \in Challenges |-> IF row[c] = "COMPLETED" THEN rewarded[c] + 1 ELSE rewarded[c]]
    /\ owing' = [owing EXCEPT ![h] = {}]
    /\ UNCHANGED <<period, rows, enrolling, told, queue, work, todo, oldProgress, oldCounted, faults, overlapped>>

Reward(h) ==
    /\ owing[h] # {}
    /\ rewarded' = [c \in Challenges |-> IF c \in owing[h] THEN rewarded[c] + 1 ELSE rewarded[c]]
    /\ owing' = [owing EXCEPT ![h] = {}]
    /\ UNCHANGED <<period, rows, enrolling, told, queue, work, todo, oldProgress, oldCounted, faults, overlapped>>

\* What a handler that has ended has read is gone.
Forget(h) ==
    /\ oldProgress' = [oldProgress EXCEPT ![h] = [c \in Challenges |-> 0]]
    /\ oldCounted' = [oldCounted EXCEPT ![h] = [c \in Challenges |-> {}]]

Ack(h) ==
    /\ work[h] # NoMsg /\ todo[h] = {} /\ owing[h] = {}
    /\ work' = [work EXCEPT ![h] = NoMsg]
    /\ Forget(h)
    /\ UNCHANGED <<period, rows, rewarded, enrolling, told, queue, todo, owing, faults, overlapped>>

\* A statement fails or the backend restarts: the message is delivered again.
HandlerFails(h) ==
    /\ work[h] # NoMsg
    /\ faults < MaxFaults
    /\ faults' = faults + 1
    /\ queue' = queue \cup {work[h]}
    /\ work' = [work EXCEPT ![h] = NoMsg]
    /\ todo' = [todo EXCEPT ![h] = {}]
    /\ owing' = [owing EXCEPT ![h] = {}]
    /\ Forget(h)
    /\ UNCHANGED <<period, rows, rewarded, enrolling, told, overlapped>>

-----------------------------------------------------------------------------
HandlerStep(h) ==
    \/ \E c \in Challenges : UpdateRow(h, c)
    \/ Reward(h)
    \/ Ack(h)

Next ==
    \/ \E c \in Challenges : Generate(c) \/ TimeIsUp(c)
    \/ Expire
    \/ FindToEnroll
    \/ Enroll
    \/ \E m \in Messages : Act(m)
    \/ \E h \in Handlers, m \in Messages : Take(h, m)
    \/ \E h \in Handlers : HandlerStep(h) \/ HandlerFails(h)

Spec == Init /\ [][Next]_vars

\* The broker delivers, handlers run on, the job recurs.
Fairness ==
    /\ \A m \in Messages : WF_vars(\E h \in Handlers : Take(h, m))
    /\ \A h \in Handlers : WF_vars(HandlerStep(h))
    /\ WF_vars(Expire)

FairSpec == Spec /\ Fairness

-----------------------------------------------------------------------------
\* Properties

ByEvents(c) == Criteria[c].action = "place_bet"

\* "Multiple bets on same event = 1 progress" (trackProgress), under redelivery and
\* concurrent handlers too: progress is the number of counted events, all of them
\* events the user has bet on, and a challenge is completed by enough of them.  The
\* daily templates ask for events; the weekly one asks for "10 bets", which the code
\* counts by event all the same.
EventsCountOnce ==
    \A c \in Challenges : ByEvents(c) =>
        /\ progress[c] = Cardinality(counted[c])
        /\ counted[c] \subseteq EventsOf({m \in told : Concerns(m, c)})
        /\ row[c] = "COMPLETED" => Cardinality(EventsOf({m \in told : Concerns(m, c)}))
                                      >= Criteria[c].count

\* A reward is paid for a completed challenge only, and a completed one is never
\* reopened or expired, whatever handlers and jobs still hold of its row.
CompletedIsFinal ==
    [][\A c \in Challenges :
         /\ row[c] = "COMPLETED" => row'[c] = "COMPLETED"
         /\ rewarded'[c] > rewarded[c] => row'[c] = "COMPLETED"]_vars

AtRest == queue = {} /\ \A h \in Handlers : work[h] = NoMsg

\* A challenge is rewarded once, unless two messages of the user were handled at
\* once or a handler failed: the status and the reward are two statements.
RewardedOnce ==
    faults = 0 /\ ~overlapped =>
        \A c \in Challenges :
            /\ rewarded[c] <= 1
            /\ AtRest /\ row[c] = "COMPLETED" => rewarded[c] = 1

\* What the user does while enrolled counts, event by event or cent by cent: only
\* messages handled at once overwrite each other's progress.
NothingOverwritten ==
    [][~overlapped =>
         \A c \in Challenges :
            row[c] = "ACTIVE" => /\ counted[c] \subseteq counted'[c]
                                 /\ progress[c] <= progress'[c]
                                 /\ counted'[c] # counted[c] => progress'[c] > progress[c]]_vars

\* Every message is handled in the end, and a row of a challenge that is over does
\* not stay active, be it one the page creates when it is over: time and again nothing
\* is left to do.
AllHandled ==
    /\ []<>AtRest
    /\ []<>(\A c \in Challenges : period[c] = "over" => row[c] # "ACTIVE")
=============================================================================
