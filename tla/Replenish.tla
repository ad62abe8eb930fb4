------------------------------ MODULE Replenish ------------------------------
(***************************************************************************)
(* The weekly top-up.  An hourly job writes an outbox row for every user   *)
(* whose last top-up is over a week old, the outbox relay publishes the    *)
(* rows, and a handler credits the user and sets the time of the top-up.   *)
(* The job does not see what is under way: the time changes last.          *)
(*                                                                         *)
(* Time is counted in hours since each user's last top-up, up to the       *)
(* first hour beyond the interval; what lies further back is the same.     *)
(***************************************************************************)
EXTENDS Integers, FiniteSets

CONSTANTS
    Members,    \* the users who are topped up
    Interval,   \* REPLENISH_INTERVAL_DAYS, in hours
    Rows,       \* outbox rows that may be unprocessed at once
    Relays,     \* runs of the outbox cron that may overlap
    Handlers,   \* messages that may be in progress at once
    Prompt,     \* whether an hour is enough for what is under way
    MaxQueue,   \* messages of a user that may be left when an hour passes
    MaxFaults

Nobody == "nobody"

ASSUME ReplenishAssumption ==
    /\ Interval \in Nat
    /\ Prompt \in BOOLEAN
    /\ MaxFaults \in Nat /\ MaxQueue \in Nat
    /\ Nobody \notin Members
    /\ IsFiniteSet(Rows) /\ IsFiniteSet(Members)

\* Each fault, after n others, makes up to n + 1 top-ups happen once more.
Excused(n) == (n * (n + 1)) \div 2

VARIABLES
    age,        \* hours since users.lastReplenishedAt
    ran,        \* the job has run this hour
    eligible,   \* users the running job has still to write a row for
    owner,      \* outbox row -> its user
    processed,  \* outbox_events.processed, and rows not used
    held,       \* relay run -> the rows it has read and may mark
    sent,       \*   and those it has published
    queue,      \* user -> messages ready
    work,       \* handler -> the user of its message, or Nobody
    credited,   \* handlers that have credited their user
    early,      \* user -> top-ups within a week of the last one
    faults

job   == <<ran, eligible>>
table == <<owner, processed>>
relay == <<held, sent>>
inbox == <<queue, work, credited>>
replenishVars == <<age, job, table, relay, inbox, early, faults>>

ReplenishTypeOK ==
    /\ age \in [Members -> 0 .. Interval + 1]
    /\ ran \in BOOLEAN
    /\ eligible \subseteq Members
    /\ owner \in [Rows -> Members \cup {Nobody}]
    /\ processed \subseteq Rows
    /\ \A r \in Rows \ processed : owner[r] # Nobody
    /\ held \in [Relays -> SUBSET Rows]
    /\ sent \in [Relays -> SUBSET Rows]
    /\ queue \in [Members -> Nat]
    /\ work \in [Handlers -> Members \cup {Nobody}]
    /\ credited \subseteq Handlers
    /\ early \in [Members -> 0 .. Excused(MaxFaults) + 1]
    /\ faults \in 0 .. MaxFaults

ReplenishInit ==
    /\ age \in [Members -> 0 .. Interval + 1]
    /\ ran = FALSE
    /\ eligible = {}
    /\ owner = [r \in Rows |-> Nobody]
    /\ processed = Rows
    /\ held = [x \in Relays |-> {}]
    /\ sent = [x \in Relays |-> {}]
    /\ queue = [u \in Members |-> 0]
    /\ work = [h \in Handlers |-> Nobody]
    /\ credited = {}
    /\ early = [u \in Members |-> 0]
    /\ faults = 0

Fault == faults < MaxFaults /\ faults' = faults + 1

-----------------------------------------------------------------------------
\* Time

UnderWay ==
    \/ eligible # {}
    \/ processed # Rows
    \/ \E u \in Members : queue[u] > 0
    \/ \E h \in Handlers : work[h] # Nobody
    \/ \E x \in Relays : held[x] # {}

HourPasses ==
    /\ Prompt => ~UnderWay
    /\ \A u \in Members : queue[u] <= MaxQueue
    /\ age' = [u \in Members |-> IF age[u] > Interval THEN age[u] ELSE age[u] + 1]
    /\ ran' = FALSE
    /\ UNCHANGED <<eligible, table, relay, inbox, early, faults>>

-----------------------------------------------------------------------------
\* ReplenishProcessor.process, hourly: findReplenishableUsers, then row by row

\* Variant: users whose week ends this very hour.
WeekEndsNow(u) == age[u] = Interval
WeekIsOver(u)  == age[u] > Interval

\* Rows bounds the rows that may be waiting: the job starts when there is room.
FreeRows == {r \in processed : \A x \in Relays : r \notin held[x]}

JobRead ==
    /\ ~ran /\ eligible = {}
    /\ Cardinality(FreeRows) >= Cardinality(Members)
    /\ ran' = TRUE
    /\ eligible' = {u \in Members : WeekIsOver(u)}
    /\ UNCHANGED <<age, table, relay, inbox, early, faults>>

JobWrite(u) ==
    /\ u \in eligible
    /\ eligible' = eligible \ {u}
    /\ FreeRows # {}
    /\ LET r == CHOOSE r \in FreeRows : TRUE IN
         /\ owner' = [owner EXCEPT ![r] = u]
         /\ processed' = processed \ {r}
    /\ UNCHANGED <<age, ran, relay, inbox, early, faults>>

\* A failed job waits for the next hour; BullMQ runs one that a restart has
\* interrupted again.
JobFails ==
    /\ eligible # {}
    /\ Fault
    /\ eligible' = {}
    /\ ran' \in BOOLEAN
    /\ UNCHANGED <<age, table, relay, inbox, early>>

-----------------------------------------------------------------------------
\* OutboxService.processOutbox

RelayRead(x) ==
    /\ held[x] = {}
    /\ processed # Rows
    /\ held' = [held EXCEPT ![x] = Rows \ processed]
    /\ UNCHANGED <<age, job, table, sent, inbox, early, faults>>

\* A publish is confirmed, or rejected: then the row is not marked.
RelayPublish(x, r) ==
    /\ r \in held[x] \ sent[x]
    /\ \/ /\ queue' = [queue EXCEPT ![owner[r]] = @ + 1]
          /\ sent' = [sent EXCEPT ![x] = @ \cup {r}]
          /\ UNCHANGED <<held, faults>>
       \/ /\ Fault
          /\ held' = [held EXCEPT ![x] = @ \ {r}]
          /\ UNCHANGED <<queue, sent>>
    /\ UNCHANGED <<age, job, table, work, credited, early>>

\* Variant that marks nothing.
RelayMarkNone(x) ==
    /\ held[x] # {} /\ sent[x] = held[x]
    /\ held' = [held EXCEPT ![x] = {}]
    /\ sent' = [sent EXCEPT ![x] = {}]
    /\ UNCHANGED <<age, job, table, inbox, early, faults>>

RelayMark(x) ==
    /\ held[x] # {} /\ sent[x] = held[x]
    /\ processed' = processed \cup sent[x]
    /\ held' = [held EXCEPT ![x] = {}]
    /\ sent' = [sent EXCEPT ![x] = {}]
    /\ UNCHANGED <<age, job, owner, inbox, early, faults>>

RelayFails(x) ==
    /\ held[x] # {}
    /\ Fault
    /\ held' = [held EXCEPT ![x] = {}]
    /\ sent' = [sent EXCEPT ![x] = {}]
    /\ UNCHANGED <<age, job, table, inbox, early>>

-----------------------------------------------------------------------------
\* ReplenishConsumer, and UsersService.replenishUser

Take(h, u) ==
    /\ work[h] = Nobody
    /\ queue[u] > 0
    /\ queue' = [queue EXCEPT ![u] = @ - 1]
    /\ work' = [work EXCEPT ![h] = u]
    /\ UNCHANGED <<age, job, table, relay, credited, early, faults>>

\* One update: the balance and lastReplenishedAt.  It does not look at the old
\* time.  The count of early top-ups stops where one is too many.
Credit(h) ==
    /\ work[h] # Nobody /\ h \notin credited
    /\ credited' = credited \cup {h}
    /\ age' = [age EXCEPT ![work[h]] = 0]
    /\ early' = [early EXCEPT ![work[h]] =
                   IF @ <= Excused(MaxFaults) /\ age[work[h]] <= Interval THEN @ + 1 ELSE @]
    /\ UNCHANGED <<job, table, relay, queue, work, faults>>

Ack(h) ==
    /\ h \in credited
    /\ credited' = credited \ {h}
    /\ work' = [work EXCEPT ![h] = Nobody]
    /\ UNCHANGED <<age, job, table, relay, queue, early, faults>>

\* nack, or a restart: the message is delivered again.
HandlerFails(h) ==
    /\ work[h] # Nobody
    /\ Fault
    /\ queue' = [queue EXCEPT ![work[h]] = @ + 1]
    /\ work' = [work EXCEPT ![h] = Nobody]
    /\ credited' = credited \ {h}
    /\ UNCHANGED <<age, job, table, relay, early>>

-----------------------------------------------------------------------------
ReplenishNext ==
    \/ HourPasses
    \/ JobRead
    \/ \E u \in Members : JobWrite(u)
    \/ JobFails
    \/ \E x \in Relays : RelayRead(x) \/ RelayMark(x) \/ RelayFails(x)
    \/ \E x \in Relays, r \in Rows : RelayPublish(x, r)
    \/ \E h \in Handlers, u \in Members : Take(h, u)
    \/ \E h \in Handlers : Credit(h) \/ Ack(h) \/ HandlerFails(h)

ReplenishSpec == ReplenishInit /\ [][ReplenishNext]_replenishVars

\* Time passes, the job and the cron recur, the broker delivers, handlers run on.
Fairness ==
    /\ WF_replenishVars(HourPasses)
    /\ WF_replenishVars(JobRead)
    /\ \A u \in Members : WF_replenishVars(JobWrite(u))
    /\ \A x \in Relays :
         /\ WF_replenishVars(RelayRead(x))
         /\ WF_replenishVars(RelayMark(x))
         /\ \A r \in Rows : WF_replenishVars(RelayPublish(x, r))
    /\ \A u \in Members : WF_replenishVars(\E h \in Handlers : Take(h, u))
    /\ \A h \in Handlers : WF_replenishVars(Credit(h)) /\ WF_replenishVars(Ack(h))

ReplenishFairSpec == ReplenishSpec /\ Fairness

-----------------------------------------------------------------------------
\* Properties

\* "Every week you receive an automatic top-up": a user gets no two within a week,
\* except where a restart or a failed statement makes something happen twice.  A run
\* of the job that is made again adds a row, a relay run that fails repeats all the
\* rows of its user, of which there is one more than there have been faults.
OncePerWeek == \A u \in Members : early[u] <= Excused(faults)

\* A user whose week is over is topped up, in spite of failed jobs, publishes and
\* handlers, and of hours that pass meanwhile.
TopUpComes == \A u \in Members : age[u] > Interval ~> age[u] = 0
=============================================================================
