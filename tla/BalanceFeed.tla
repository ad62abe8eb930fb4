----------------------------- MODULE BalanceFeed -----------------------------
(***************************************************************************)
(* How a balance reaches the audit log and the page.  Whoever changes the  *)
(* balance publishes a message afterwards; a handler reads the balance,    *)
(* writes the audit row with it, and publishes it once more for the user's *)
(* socket.  The page shows what was pushed last, or what its own request   *)
(* for the profile has brought since.                                      *)
(*                                                                         *)
(* A balance stands for the number of changes committed so far: change n   *)
(* is the n-th, and makes the balance n.  One user, one page.              *)
(***************************************************************************)
EXTENDS Integers, Sequences, FiniteSets

CONSTANTS
    MaxChanges,     \* changes of the balance
    Handlers,       \* audit messages that may be in progress at once
    MaxRefreshes,   \* requests of the page for the profile
    MaxDrops,       \* times the socket may be disconnected
    MaxFaults       \* publishes, statements and handlers that may fail

ASSUME BalanceFeedAssumption ==
    {MaxChanges, MaxRefreshes, MaxDrops, MaxFaults} \subseteq Nat

VARIABLES
    balance,    \* users.balance
    untold,     \* changes whose audit message is not published yet
    unheard,    \* changes whose audit message could not be published
    audits,     \* queue balance-audit: the change of each message
    work,       \* handler -> the change it records, or Idle
    snapshot,   \*   the balance it has read, or Idle
    recorded,   \*   handlers that have written the row
    log,        \* balance_audits: [change, balanceAfter]
    notices,    \* queue balance-notify: balances, in order
    joined,     \* the page's socket is connected
    wire,       \* balances on their way over the socket
    shown,      \* the balance the page shows, or Idle before the profile is there
    request,    \* "none", "asked", or the balance of the answer to getMe
    refreshes, drops, faults,
    overlapped  \* history: two messages of the user have been in progress at once

Idle    == -1
Asked   == -2

Changes  == 1 .. MaxChanges
Balances == 0 .. MaxChanges

backend == <<balance, untold, unheard, audits, work, snapshot, recorded, log, notices>>
page    == <<joined, wire, shown, request>>
budget  == <<refreshes, drops, faults, overlapped>>
vars    == <<backend, page, budget>>

TypeOK ==
    /\ balance \in Balances
    /\ untold \subseteq Changes
    /\ unheard \subseteq Changes
    /\ audits \subseteq Changes
    /\ work \in [Handlers -> Changes \cup {Idle}]
    /\ snapshot \in [Handlers -> Balances \cup {Idle}]
    /\ recorded \subseteq Handlers
    /\ log \subseteq [change : Changes, balanceAfter : Balances]
    /\ notices \in Seq(Balances)
    /\ joined \in BOOLEAN
    /\ wire \in Seq(Balances)
    /\ shown \in Balances \cup {Idle}
    /\ request \in Balances \cup {Idle, Asked}
    /\ \A h \in Handlers : snapshot[h] # Idle => work[h] # Idle
    /\ \A h \in recorded : snapshot[h] # Idle

Init ==
    /\ balance = 0
    /\ untold = {}
    /\ unheard = {}
    /\ audits = {}
    /\ work = [h \in Handlers |-> Idle]
    /\ snapshot = [h \in Handlers |-> Idle]
    /\ recorded = {}
    /\ log = {}
    /\ notices = << >>
    /\ wire = << >>
    /\ joined = TRUE        \* a page that is loaded and connected,
    /\ shown = 0
    /\ request = Idle
    /\ refreshes = 0
    /\ drops = 0
    /\ faults = 0
    /\ overlapped = FALSE

Fault == faults < MaxFaults /\ faults' = faults + 1 /\ UNCHANGED <<refreshes, drops, overlapped>>

-----------------------------------------------------------------------------
\* Whoever changes the balance, and BalanceAuditService.log

Change ==
    /\ balance < MaxChanges
    /\ balance' = balance + 1
    /\ untold' = untold \cup {balance + 1}
    /\ UNCHANGED <<unheard, audits, work, snapshot, recorded, log, notices, page, budget>>

\* Nobody waits for the publish; one that fails is logged, and a restart forgets it.
Tell(c) ==
    /\ c \in untold
    /\ untold' = untold \ {c}
    /\ \/ /\ audits' = audits \cup {c}
          /\ UNCHANGED <<unheard, budget>>
       \/ /\ Fault
          /\ unheard' = unheard \cup {c}
          /\ UNCHANGED audits
    /\ UNCHANGED <<balance, work, snapshot, recorded, log, notices, page>>

-----------------------------------------------------------------------------
\* BalanceAuditConsumer

Take(h, c) ==
    /\ work[h] = Idle
    /\ c \in audits
    /\ audits' = audits \ {c}
    /\ work' = [work EXCEPT ![h] = c]
    /\ overlapped' = (overlapped \/ \E g \in Handlers : work[g] # Idle)
    /\ UNCHANGED <<balance, untold, unheard, snapshot, recorded, log, notices, page,
                   refreshes, drops, faults>>

\* user.findUnique.  Variant that computes the balance from an older one.
ReadOlder(h) ==
    /\ work[h] # Idle /\ snapshot[h] = Idle
    /\ snapshot' = [snapshot EXCEPT ![h] = work[h] - 1]
    /\ UNCHANGED <<balance, untold, unheard, audits, work, recorded, log, notices, page, budget>>

Read(h) ==
    /\ work[h] # Idle /\ snapshot[h] = Idle
    /\ snapshot' = [snapshot EXCEPT ![h] = balance]
    /\ UNCHANGED <<balance, untold, unheard, audits, work, recorded, log, notices, page, budget>>

\* balanceAudit.create
Record(h) ==
    /\ snapshot[h] # Idle /\ h \notin recorded
    /\ recorded' = recorded \cup {h}
    /\ log' = log \cup {[change |-> work[h], balanceAfter |-> snapshot[h]]}
    /\ UNCHANGED <<balance, untold, unheard, audits, work, snapshot, notices, page, budget>>

Finished(h) ==
    /\ work' = [work EXCEPT ![h] = Idle]
    /\ snapshot' = [snapshot EXCEPT ![h] = Idle]
    /\ recorded' = recorded \ {h}

\* Variant that acknowledges without a notice.
AckSilently(h) ==
    /\ h \in recorded
    /\ Finished(h)
    /\ UNCHANGED <<balance, untold, unheard, audits, log, notices, page, budget>>

\* The notice is published, and the message acknowledged.
Notify(h) ==
    /\ h \in recorded
    /\ notices' = Append(notices, snapshot[h])
    /\ Finished(h)
    /\ UNCHANGED <<balance, untold, unheard, audits, log, page, budget>>

\* Variant that does not requeue the message.
HandlerDrops(h) ==
    /\ work[h] # Idle
    /\ Fault
    /\ Finished(h)
    /\ UNCHANGED <<balance, untold, unheard, audits, log, notices, page>>

\* A statement or the publish fails, or the backend restarts: delivered again.  The
\* notice may have been published already.
HandlerFails(h) ==
    /\ work[h] # Idle
    /\ Fault
    /\ audits' = audits \cup {work[h]}
    /\ \/ UNCHANGED notices
       \/ h \in recorded /\ notices' = Append(notices, snapshot[h])
    /\ Finished(h)
    /\ UNCHANGED <<balance, untold, unheard, log, page>>

-----------------------------------------------------------------------------
\* BalanceNotifyConsumer, and the socket

\* One synchronous handler: the notices leave in order, to a socket or to nobody.
Push ==
    /\ notices # << >>
    /\ notices' = Tail(notices)
    /\ wire' = IF joined THEN Append(wire, Head(notices)) ELSE wire
    /\ UNCHANGED <<balance, untold, unheard, audits, work, snapshot, recorded, log,
                   joined, shown, request, budget>>

\* updateBalance, which needs the profile
Receive ==
    /\ wire # << >>
    /\ wire' = Tail(wire)
    /\ shown' = IF shown = Idle THEN shown ELSE Head(wire)
    /\ UNCHANGED <<backend, joined, request, budget>>

Drop ==
    /\ joined /\ drops < MaxDrops
    /\ drops' = drops + 1
    /\ joined' = FALSE
    /\ wire' = << >>
    /\ UNCHANGED <<backend, shown, request, refreshes, faults, overlapped>>

\* The socket reconnects by itself; nothing is asked for again.
Join ==
    /\ ~joined
    /\ joined' = TRUE
    /\ UNCHANGED <<backend, wire, shown, request, budget>>

-----------------------------------------------------------------------------
\* getMe: when a bet has been placed, or a page is loaded anew

Refresh ==
    /\ request = Idle
    /\ refreshes < MaxRefreshes
    /\ refreshes' = refreshes + 1
    /\ request' = Asked
    /\ shown' \in {shown, Idle}
    /\ UNCHANGED <<backend, joined, wire, drops, faults, overlapped>>

Answer ==
    /\ request = Asked
    /\ request' = balance
    /\ UNCHANGED <<backend, joined, wire, shown, budget>>

Show ==
    /\ request \in Balances
    /\ shown' = request
    /\ request' = Idle
    /\ UNCHANGED <<backend, joined, wire, budget>>

-----------------------------------------------------------------------------
Step(h) ==
    \/ \E c \in Changes : Take(h, c)
    \/ Read(h)
    \/ Record(h)
    \/ Notify(h)

Next ==
    \/ Change
    \/ \E c \in Changes : Tell(c)
    \/ \E h \in Handlers : Step(h) \/ HandlerFails(h)
    \/ Push \/ Receive \/ Drop \/ Join
    \/ Refresh \/ Answer \/ Show

Spec == Init /\ [][Next]_vars

\* Publishes, deliveries, handlers and requests are carried out.
Fairness ==
    /\ \A c \in Changes : WF_vars(Tell(c)) /\ WF_vars(\E h \in Handlers : Take(h, c))
    /\ \A h \in Handlers : WF_vars(Read(h)) /\ WF_vars(Record(h)) /\ WF_vars(Notify(h))
    /\ WF_vars(Push) /\ WF_vars(Receive) /\ WF_vars(Join)
    /\ WF_vars(Answer) /\ WF_vars(Show)

FairSpec == Spec /\ Fairness

-----------------------------------------------------------------------------
\* Properties

Recorded(c) == \E r \in log : r.change = c

\* Nothing is on its way to the log.
LogAtRest ==
    untold = {} /\ audits = {} /\ \A h \in Handlers : work[h] = Idle

\* The "full balance audit trail" (README.md:13): whatever fails and is repeated, a
\* change whose message could be published has its row in the end, and a row names
\* a change that was made.
EveryChangeAudited ==
    /\ \A r \in log : r.change <= balance
    /\ LogAtRest => \A c \in 1 .. balance : c \in unheard \/ Recorded(c)

\* A row never holds a balance from before its change.
SnapshotNotOlder == \A r \in log : r.balanceAfter >= r.change

\* The messages of the user were handled one by one and without a failure, and the
\* page has stayed connected.
InOrder == ~overlapped /\ faults = 0 /\ drops = 0

\* Nothing is on its way to the page.
PageAtRest ==
    LogAtRest /\ notices = << >> /\ wire = << >> /\ request = Idle /\ joined

\* "Balance updates - no page refresh needed" (README.md:12): when nothing is on
\* its way, the page shows the balance; a page that has asked for the profile
\* itself may have shown its answer over a later push.
PageIsCurrent == PageAtRest /\ InOrder /\ refreshes = 0 => shown = balance

\* The page shows a change, or a later balance, in the end.
ChangeShows == \A c \in Changes : balance >= c ~> shown >= c \/ ~InOrder \/ refreshes > 0
=============================================================================
