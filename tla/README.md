# Pixelbucks, modelled and checked

Pixelbucks is a game of bets on esports matches with a play currency (PB, counted in
cents): a NestJS backend (`src/backend`), a React frontend (`src/frontend`),
PostgreSQL, RabbitMQ and Redis. This directory holds TLA+ specifications of its core
logic, the configurations TLC checks them with, and theorems about them that TLAPS
proves. Every definition was translated from the code; `PROJECT.json` says which
lines each stands for.

Contents: 1 inventory, 2 modules, 3 runs and bounds, 4 fairness, 5 proofs,
6 where the code departs from what it says, 7 what is not modelled, 8 plan.

## 1. Inventory

The backend is one Node process that is restarted when it dies
(`src/docker-compose.prod.yml:38`). Its handlers interleave at every `await`, so
that one database, broker or Redis operation is the unit of atomicity, and a
transaction takes effect at its commit (PostgreSQL, READ COMMITTED). A page of the
frontend is one thread too: its handlers interleave with answers and pushed messages.

| Component | State | Operations | Interacts with | Hard because | Must hold |
|---|---|---|---|---|---|
| Bet placement (`bets.service.ts`) | users.balance, bets | placeBet | event rows (jobs, admin), settings, users | concurrent transactions read without locks | no negative balance, no cent lost, limit of the event, odds and admission from one version of the event |
| Event synchronisation (`events/`) | events, BullMQ jobs | matches, live, results jobs | PandaScore, outbox, placement | three jobs write one row from stale readings; requests fail | what is posted is the match's result, on the side the row shows; it arrives; it is posted no more than twice |
| Outbox (`outbox/`) | outbox_events | processOutbox, cron every 5 s | results and replenishment job, RabbitMQ | runs overlap; publishes fail; restarts | no row is forgotten |
| Bet resolver, bet update consumers (`bets/*.consumer.ts`) | bets.status, users.balance, totalProfit, Redis locks | resolveEventBets, refundEventBets, processBetUpdate | queues, audit, placement | redelivery, no prefetch limit, a lock with a time to live, bets that commit late | status agrees with the result and is final; paid once; nobody is forgotten |
| Challenges (`challenges/`) | challenges, user_challenges | trackProgress, generate, expire, enrol | placement and settlement by messages | read-modify-write in concurrent handlers | an event counts once; a reward is paid once |
| Weekly replenishment (`users/`) | users.lastReplenishedAt | hourly job, consumer | outbox, queue | the job cannot see what is under way | once a week, and every week |
| Balance audit and live balance (`balance-audit/`, `events.gateway.ts`, frontend) | balance_audits, the page | log, consume, push, show | everyone who changes a balance | the balance is read late; notices race | every change has a row; the page ends up with the balance |
| Administration (`admin/`) | events, users.balance, settings | updateEvent, adjustBalance, lists | all of the above | writes in the middle of other operations | see the others |
| HLTV odds (`hltv/`) | rate limit, circuit breaker, proxies; odds, mappings, a BullMQ queue | mapping job, sync job, odds jobs, one scraper | events, placement, admin | jobs share the scraper and hold rows for minutes; pages disagree about order and names of teams | limits kept; no worker hangs; odds on their team's side, and up to date in the end |
| Event pages and their cache (`events.service.ts:70`, `EventsPage.tsx`, `EventDetailPage.tsx`, `SocketContext.tsx`) | Redis keys; the list, the cards | getEvent, listEvents, invalidation, broadcast; fetch, navigate, save | admin, odds job | a cache filled from an older reading; requests are not cancelled; pushes meet no listener | a page that has missed nothing is current; a save is seen |
| Chat (`chat/`, `ChatWidget.tsx`) | messages, rooms, sockets | join_room, send_message, history, cleanup; choose, reconnect | sockets, sessions | history is read while messages are pushed; the room is remembered in three places | a message goes to the room that is shown; none twice or missing |
| Sessions (`useAuth.ts`, `client.ts`, `auth/`) | tokens, local storage, each tab's user | login, register, me, refresh, logout, 401 | every request | tabs share a storage; answers race | a tab acts as the user it shows |
| Tables of the pages, feedback (`AdminPage.tsx`, `MyBetsPage.tsx`, `ProfilePage.tsx`, `FeedbackPage.tsx`, `feedback/`) | rows shown, filter, page number; entries; the leaderboard's cache | list, filter, turn, poll, save, submit | sessions | answers arrive in any order; count before insert | a table shows what is chosen; weekly limit |
| pMap, request validation, sums of the statistics, scraper, migrations | - | - | - | - | stateless or read-only: section 7 |

The messages that connect them: `event.finished` / `event.cancelled` (outbox to
resolver), `bet.update` (resolver to update consumer), `user.replenish` (outbox to
replenishment), `balance.audit` and `balance.notify`, `challenge.progress`. Queues
are durable and acknowledged by hand; a message in progress when the process dies,
or that a handler rejects, is delivered again.

`PROJECT.json` lists the hazards of this code at the line where each bites, with
the properties aimed at it.

## 2. Modules

| Module | Models | State and actions |
|---|---|---|
| `PlaceBet` | one interactive transaction per request, next to everything that changes the rows it reads | `pc` walks a request through ReadEvent, SumBets, SnapshotOdds, Deduct, Commit; Abort rolls back at any statement. `rowLock` is the lock of the user's row from Deduct to the end. Admin and jobs: Edit actions, SetAllowCs2, AdjustCheck / AdjustUpdate |
| `Settlement` | from the transaction that ends an event to the user's row | FinishEvent and CancelEvent, which may come again; CommitBet, the commit of a placement that read the event before its end; relay: RelayRead, RelayPublish, RelayMark; resolver: ResolverRead, ResolverMarkLost, ResolverPublish, ResolverAck; update consumer: UpdaterTake (with the Redis lock), UpdaterMark, UpdaterApply, UpdaterAck, UpdaterUnlock; faults: Crash, RelayPublishFail, ResolverFail, UpdaterFail, LockExpire |
| `Ledger` | what settlement promises: one result per event, each bet settled once by it, in one step | Decide, Settle |
| `EventLifecycle` | events.status under the three jobs and the admin | MatchesList (one request each for upcoming and running matches) / MatchesUpsert; LiveList / LiveRead / LiveWrite; ResultsRead / ResultsAsk / ResultsWrite; AdminSetsStatus; JobFails; PandaScore and the clock as environment. An answer names the winning team and who is listed first, the row names its team A: the side is told from the former |
| `ChallengeProgress` | the challenges of one user | Generate, TimeIsUp, Expire, FindToEnroll / Enroll; Act (a message is sent, or lost); Take, UpdateRow, Reward, Ack, HandlerFails |
| `Replenish` | weekly top-up | HourPasses; JobRead / JobWrite / JobFails; RelayRead / RelayPublish / RelayMark / RelayFails; Take / Credit / Ack / HandlerFails |
| `BalanceFeed` | a change of a balance on its way to the log and to the page | Change, Tell; Take / Read / Record / Notify / HandlerFails; Push, Receive, Drop, Join; Refresh / Answer / Show |
| `HltvLimiter` | the one way to HLTV: HltvService, its queue of requests, the proxies | `pending` is the chain of promises, `stage` where its head is: Enqueue, Skip (circuit open), Admit / Wake (rate limit), GetProxy, Succeed / Fail / ProxyFails, and Tick. `started`, `failed` and `quiet` remember what was really sent, next to the service's own counts |
| `OddsSync` | how an event gets HLTV's odds | mapping job: StartMapping, MapTournament, MappingUnanswered; sync job: StartSync, ReadEvents, FetchPage, MapEvent, Enqueue, AddJob; odds job: StartSingle, FetchOdds, WriteOdds; the repeated job and the restart of the queue: Promote, Restart. HLTV, admin and the other jobs: Move, Reprice, AdminPrices, AdminMaps, EndEvent, SyncTournaments |
| `EventPages` | rows, Redis keys, requests and pages between a price and the user who sees it | backend: Lookup, ReadRows, Fill; odds job: WriteOdds, BustCache, Broadcast; admin: WriteSave, BustSaved; GoLive. Page: Mount, SelectTab, OpenDetail, Back, Save, PlaceBet, Receive, ReceiveSave, Fails; socket: Connect, Disconnect, Rerender, Deliver |
| `Chat` | widget, link, gateway and rows | widget: Connect, SwitchRoom, HandleSend, ShowHistory, ShowMessage, Remount, Disconnect; gateway: HandleJoinRoom, GetHistory / AnswerJoin / FailJoin, RefuseMessage, SaveMessage / FailMessage, PushMessage, TwoSecondsPass, CleanupOldMessages |
| `Session` | who is signed in, in tabs over one storage | Visit, SignIn, Logout, RefreshUser, Expire; answers: StoreToken, LoginFails, MeAnswered, UserAnswered, Unauthorized, MeFails |
| `Console` | the tables of the pages, over `Session`'s tokens | OpenPage, LeavePage, ChooseFilter, TurnPage, AskAgain, Poll; the handlers' readings, Forbidden; ShowTable, RequestFails; Save / WriteSave / SaveDone; Submit / CountEntries / InsertEntry / SubmitDone |

`Console` composes with `Session` by extending it: its next-state relation has all
of the session's steps, and a 401 to any of its requests ends the session.
`Settlement` is shown to implement `Ledger`: the mapping is at its end,
where `L` is the instance; a bet is settled when its update reaches the user's row.
What a request to PandaScore may leave out is a subset: `Fetched` in `EventLifecycle`,
the tournaments that SyncTournaments reaches in `OddsSync`, which may also have wrong dates.

`MC<Module>` gives a module's constants small values. The theorems are in modules of
their own: `MoneyProofs` (of `PlaceBet` and `Replenish`), `SettlementProofs`,
`ChallengeProofs`, `EventProofs` (of `EventLifecycle` and `EventPages`), `SocketProofs`
(of `BalanceFeed` and `Chat`), `HltvProofs` (of `OddsSync` and `HltvLimiter`) and
`ConsoleProofs` (of `Console`, and of `Session` in it). So that one module can extend
two, the initial state, next-state relation and specification of the second carry its
name: `LimiterSpec`, `ReplenishSpec`, `PagesSpec`, `ChatSpec`. `FiniteSums` has lemmas about sums over finite sets. The definitions called *variants* in the modules are slips one could make
in that code; each property is shown to fail when its variant takes the place of the
definition (`PROJECT.json`, "mutants").

Abstractions. Users, events, bets and messages are model values. How an event comes to
end is `EventLifecycle`'s subject; `Settlement` takes from it that every row of an event
carries one result (`PostedIsVerdict`), and that there may be two rows
(`PostedAtMostTwice`). An event can be ended again there at any time, without a look at
its status, as `finishEvent` and `cancelEvent` do. Two things that the code does not
prevent are counted with the faults, so that a run can say whether it has them: an event
that is ended again while bets of it are PENDING ("again"), and a cron run that starts
while another one is publishing ("overlap"). Amounts are integers, in cents. A payout is
`Math.floor` of a Float product, so that it may be a cent below the exact one where that
is a whole number (100 × 1.15 gives 114); the constant `Short` says of which bets, and
the theorems hold for all choices. What a queue orders does not matter where
handlers run concurrently, so a queue is a bag or a set, but a sequence for
`balance-notify`, whose handler is synchronous, for the odds queue, which has one
worker, and for each direction of a socket. A balance in `BalanceFeed` is the number
of changes made so far, odds in `EventPages` the number of their writing, a version
in `Console` the number of saves: only age matters there. One page and one user stand
for all, in `BalanceFeed` and `ChallengeProgress`, because those of others share no
row with them. Which names and dates are alike is a relation in `OddsSync`; a price
stands for the quotes of both teams, and odds remember whose quote is side A's.
Times in `HltvLimiter` are ages and times left, which stop where nothing looks at
them any more, so that the model is finite with an unbounded clock.

Some variables are history: `missed` (bets that commit too late for any resolution),
`gone`, `behind` and `raced` (`EventPages`), `moved` (`EventLifecycle`), `blurred`,
`astray` and `asked` (`Chat`), `foreign`, `crossed` and `overlaps` (`Session`,
`Console`). They record that a race the code does not exclude has happened, and to whom,
so that properties can name exactly these exceptions and hold for all else. Section 6
lists them. In `EventPages` they do not compare what is shown with the rows, which is
what the property concludes: `gone` numbers, for each event, the last change of its odds
and of its status of which nobody will be told any more (an admin's save, a match that
goes live, a push that has been delivered or lost), and a page is `behind` when the rows
it shows were read before such a change, or a change of that kind passes it by.

## 3. Runs

Passing runs, with what TLC establishes:

| Run | Question | Instance |
|---|---|---|
| `placebet` | Do concurrent requests of a user keep balance, stakes, odds and limit straight? | three requests of 60, 50 and 30 against a balance of 85, a credit of 20 and a limit of 80, so that some pairs exceed the balance and some the limit; two changes of anything about the event or the setting at any moment; an abort at any statement |
| `settlement_faults` | Under a fault of any kind, do bets get their event's result for good, is nobody forgotten, does everything settle in the end, does the lock exclude? | one event, a bet on each side, one of which commits at any moment before or after the end, or never; it may be ended again, and its cron runs take one row at a time; one resolver and two updaters; one crash, rejected publish, failed statement, overlapping cron run, or end of an event whose bets are still to settle |
| `settlement_exact` | Without such faults, is settlement the ledger? | two users, three bets on two events with different stakes and odds (one payout that is rounded down, one that falls a cent short), an event that is ended again once its bets are settled, two resolvers, two updaters, a lock that expires under its handler |
| `lifecycle` | Does the right result arrive, on the right side, once the match has one, and how often, however the jobs interleave? | one match through all of PandaScore's states (forfeit, draw, late winner, cancellation; opponents unknown, missing or swapped), an edit of the admin, a failure of a request or a job |
| `challenges` | Do events count once, is completion final, is each reward paid, and what is lost by concurrent handlers? | a daily challenge for bets on two events and a weekly one for money, four messages (two bets on one event among them), two handlers, one lost message or redelivery, periods that begin and end at any moment |
| `replenish` | Once a week, and every week? | two users, an interval of two hours, three outbox rows, two handlers, two faults |
| `feed` | Is every change recorded, with a balance not older than it, and does a connected page follow the balance? | two changes, two handlers, two failures, a disconnection, a refresh |
| `hltv_limiter` | Do two jobs that share the scraper keep its limits, and does none hang? | two callers, two proxies, two requests per window of three ticks, a breaker at two failures with a cooldown of three; any request may fail, and last any time; the clock is not bounded |
| `odds_sync` | Do odds end up as quoted, each on its team's side, and does the queue stay short? | two stages of a tournament that share an HLTV page, two events, two matches of which one has the teams in the other order and by other names, two prices or none; two moves of the site, edits, wrong dates of tournaments, failing requests or restarts at any moment |
| `event_pages` | Is a page that has missed nothing current, and a save seen? | two events of which one is repriced and goes live, list and detail page, two filters; five requests, writes, failures or disconnections in every order |
| `chat` | In which room is a message stored, and what does a widget show? | a widget with two rooms, a history of one message, others who send to both rooms; four messages, choices, failures or disconnections in every order |
| `console` | Does a tab act as the user it shows, does a table show what is chosen, does the weekly limit hold, who is signed out? | two tabs, one with all tables and one with the user's feedback; two users, one an admin; two filters, two pages of a table, one entry a week; four clicks, failures or expiries, answers in every order |

Why the bounds are enough. The races are between two parties over one row (two
requests, two handlers, a job and the admin, two answers), so two of each, and a
third request where two are needed to exhaust the balance. A fault budget of one or
two puts a fault between any two steps and, where it is two, a second one into the
recovery from the first. Four or five steps suffice for what the properties of the pages
and the chat except: each exception is two requests or messages that cross, and one
disconnection or choice between; `chat` was also checked with five steps and a history of
two. A relay that takes one row at a time (`BatchSize`, 50 in the code) leaves rows behind
in every run of it, as a full batch does. The
theorems of section 5 state every invariant of these runs, and every property of theirs
that speaks of steps, without a bound.

Counters that grow (`MaxEdits`, `MaxFaults`, `MaxChanges`, `MaxRefreshes`,
`MaxDrops`, `MaxQueue`, `MaxSteps`, `LastPage`) are bounded in the guards of their
actions. Deadlock is not checked in runs whose system stops when all requests, bets,
messages, changes or steps are used up; `lifecycle`, `replenish` and `hltv_limiter`
check it.

Assumptions of single runs, which are conditions and not conclusions:

- `settlement_exact` has no crash, no overlapping cron runs, no late bet and no event that
  is ended again while its bets are being settled. With any of them the ledger is not
  implemented: section 6.
- Rows of one event carry one result in `Settlement`. `PostedIsVerdict` shows it as far as
  PandaScore keeps the order of a match's opponents (`moved`); what a change of them does
  to bets is in section 6.
- `OneHandlerPerUser` is checked where no lock expires under its handler.
- `placebet`'s adjustments are credits. With a debit the balance can become
  negative: adjustBalance checks what it read and then decrements (section 6).
- `EndedIsPosted` holds until the admin writes a status.
- `replenish` assumes that an hour is enough for what one run of the job has set
  going (`Prompt`); one cron run of the outbox at a time. What a fault may then cost is
  `Excused`: one top-up more than there have been faults before it.
- `NothingOverwritten` and one half of `RewardedOnce` speak of handlers that were not
  at work on the user at once, `PageIsCurrent` of `BalanceFeed` of messages handled
  one by one: the code does not enforce that, but the runs contain both cases.
- `OddsFollow` speaks of events whose match goes on being quoted for good. Only then
  is there something to end up with.

## 4. Fairness

Weak fairness only, and only where the code has somebody who acts again and again:
the cron and the BullMQ schedulers (RelayRead, ResultsRead, LiveRead, JobRead,
Expire, Promote, Mapping), the worker of a BullMQ queue that takes the next job, the
broker that delivers a ready message to a handler (per message, not per handler), an
event loop that runs on with a handler it has started, a socket that delivers what was
sent on it and that the client library connects again, Redis expiring a key nobody
holds, and the clock. No fairness is assumed of users, the admin, PandaScore's matches, HLTV's
pages, failures, or a placement that has not committed. Under it TLC establishes:
`EveryBetSettles`, `EveryResultArrives`, `AllHandled`, `TopUpComes`, `ChangeShows`,
`EveryRequestAnswered` (of HLTV's queue), `OddsFollow`, `HistoryComes`, and the
liveness half of `ImplementsLedger` (its safety half is proved, section 5). `EventPages`, `Console` and `PlaceBet` have
safety properties only.

`EveryResultArrives` says that an event stays ended from some moment on, and not from
its first end: the live job may write LIVE over it once (section 6), and the results
job ends it again. `OddsFollow` says the same of odds: an admin's price or a
comparison with an older row may stand for a round.

## 5. Proofs

All theorems hold for every value of the constants that meets the module's ASSUME, and
the condition a theorem names itself.

`MoneyProofs`, of `PlaceBet`
- `TypeCorrect`.
- `NeverNegative`, assuming that no adjustment is a debit. `BalanceNonNegative` is not
  inductive by itself; it needs `FundsHeld`, that a request between Deduct and Commit
  holds the row lock of its user and that the balance still covers its stake, since all
  other writers wait for the lock.
- `PricedByOneVersion`: `PriceInv` says of every request how much of the row it has read
  is known to be good at each `pc`.
- `EveryCentAccounted` (`StakesAccounted`): `AccountInv` is the property with the sums of
  `FiniteSums`. A commit adds one bet that is not there yet, which `PriceInv` gives (a bet
  is of a request that has committed); an adjustment is done once.
- `LimitUndisturbed`: `LimitInv` says that what a request has summed, with its own
  amount, is within the limit of the row it read.

`MoneyProofs`, of `Replenish`
- `TopUpTypes`.
- `ToppedUpOnce` (`OncePerWeek`), assuming `Prompt` and `OneRelay`, that the cron runs of
  the outbox do not overlap. `TopUpInv` counts the top-ups that are under way (`ToCome`:
  those the job is about to write, rows not yet sent, messages, handlers that have not
  credited yet). `ToComeInv`: with those that came early they are within what the faults
  excuse, but for the one that is due. `RowsInv`: of a user there is one row more, at
  most, than there have been faults, which is what a failing relay run sends again.
  `Excused` is this count added up: three for two faults, and growing with their square.

`SettlementProofs`
- `TypeCorrect`.
- `BetsSettledByResult` from `ResultInv`: messages exist for ended events only, and carry
  the action of their event's result. `StatusFinal` follows from it: whoever writes a
  status writes the same one.
- `LockExcludes`, assuming "expiry" is not among the faults: a handler at work holds its
  user's key.
- `NothingStranded`, with all faults and any late bets: `HandedOver` says that an owed
  bet's event has its row unprocessed, or a message or handler downstream, for what a
  relay run has published too; the lemmas show that no step loses the last of these. A
  debt arises in two ways, `DebtArises`: the event ends, or a bet commits afterwards while
  a resolution is still to come.
- `BooksBalance` (`BooksAgree`) and `SettlesLikeLedger` (the safety half of
  `ImplementsLedger`), assuming `Exact`: no fault but the expiry of locks, and no late
  bets. That is the system while its process lives, its cron run is shorter than five
  seconds, and no event is ended again before its bets are settled; section 6 says what
  happens otherwise. The event may be ended again later, any number of times. Both rest on
  `OnceInv`: of an event with bets to settle there is one of row, published message,
  resolver at work, and of a bet one of message and handler at work; so that what comes
  next happens once, and a later resolution finds no bet pending. On top
  of it `RowIsSum` says that a user's balance and profit are the sums over the bets whose
  payout has been applied. For the ledger it
  is enough that an event's `Outcome` never changes again and that an update is applied
  once, after its event has ended.

`EventProofs`, of `EventLifecycle`
- `TypeCorrect`. `PostedRight` (`PostedIsVerdict`), from `ResultInv`: an answer of the
  results job that decides is still the match's in state, winner and draw, because a decided
  match changes nothing but the order of its opponents (`HeardRight`); and while that order
  is kept, every list, answer and row has the same team first (`OrderKept`), so that the
  side told by the answer is the one the row shows.
- `EndedPosted`, action by action.
- `EndsTwiceAtMost` (`PostedAtMostTwice`), from `CountInv`: to the rows posted it adds one
  if the event may be ended now (`MayEnd`: it is open, or was when the results job read it)
  and one if the live job may open it again (`MayReopen`: it has read UPCOMING, or still
  can). An end uses up the first, a write of the live job turns the second into the
  first, and only the admin gives more.

`EventProofs`, of `EventPages`, from `PagesInv`
- `PagesTypes`, with `RoomLeft`, that no more edits wait than there is room for.
- `SavesAreSeen` (`SaveIsSeen`): `SaveInv` follows the odds of a save through the request.
  Once they are written and the cache busted, neither the cache nor a reader that is to
  fill it is older (`CacheMeets`, `ReadersMeet`), unless it is one the save has been
  `raced` by. `AnswersFit` says what a cache or an answer can hold, by its age: rows the
  event has had, for a detail its own, and the row's present odds and status if it was
  read after their last change.
- `PagesAreCurrent` (`PageIsCurrent`): `Told` says that of the last change of an event's odds
  somebody is still to be told, by the job or by a push on its way, or nobody any more
  (`gone`); so that when nothing is on its way it is `gone`. `CurrentInv` says that a page
  that is not `behind` shows the row's odds if their last change is gone, and its status;
  pushes come in the order of the changes (`OddsAscend`). `RouteInv`: on a detail page the newest request is for
  its event, or has been answered, and the page shows no other event unless it is `behind`.

`ChallengeProofs`
- `TypeCorrect`. `EventsCount` needs that what a handler holds of a row counts once too
  (`HeldCountOnce`), that its message has been told (`Known`) and concerns the rows it
  still has to treat (`Matching`). `Final`.
- `PaidOnce` (`RewardedOnce`) and `Undisturbed` (`NothingOverwritten`), from `AloneInv`:
  while no two handlers have been at work at once, what the one handler has read of a row
  it has not come to is what the row holds, and a completed challenge is paid or owed.

`SocketProofs`, of `BalanceFeed`
- `TypeCorrect`. `AllAudited`: every change is untold, queued, in progress, recorded or
  lost by a failed publish (`Tracked`). `NotOlder`.
- `Live` (`PageIsCurrent`), from `CurrentInv`: while messages are handled one by one the
  balance will be read once more, or what was read last is the balance, wherever on its
  way to the page it is.

`SocketProofs`, of `Chat`, for any number of widgets and rooms, whatever they send
- `ChatTypes`.
- `StoredWhereShown` (`SentWhereShown`), from `SentInv`: what is on its way upwards is
  `Chained`, so that each message meets the gateway in the room that was asked for last
  when it was sent.
- `RoomShown` (`ShowsTheRoom`), from `ToldInv`. `NewestJoin`: the newest join of a widget
  is in one place, on its way up, in a handler, on its way back or shown, so that no older
  history replaces it. `Told`: from the answer on, each message of the room is accounted
  for once (`Once`): shown, on its way, or in a handler that will push it; or it is old,
  or `blurred`. `Reads`: what a handler has read tells each message of its room or leaves
  out old ones, which is the lemma `HistoryTells` about `History`; it rests on `Ranks`,
  that an element of a finite set of numbers is told by how many are no larger. A message
  that is old stays so (`OldStays`), since rows are only added and cleaned up.

`HltvProofs`
- `BreakerKept`: `BreakerInv` relates what the service counts to what has failed. The two
  counts are equal below the threshold; above it the circuit stays open for what is left
  of the cooldown; and a request that waits for the rate limit has found the circuit
  closed, with nothing that could have failed since, because it is the head of the queue.
- `LimitKept` (`RateLimited`), from `LimitInv`: what has started within the window is what
  the service remembers of it; a request that waits does so until the oldest has left the
  window, so that it may start without another look. `Young`, a filter, is a recursive
  function over the lengths, and what it keeps is proved by induction on sequences from
  the library's well-founded orders.
- `OddsOnSide`: `OddsInv` says that odds from a match are on the sides its teams were
  matched to, for each row apart from what the jobs hold. That these are the right sides
  needs that names are recognised, and `BothTeams`: a match that has the first team of an
  event in its second place has the event's second team in its first. Without it a wrong
  mapping by the admin keeps the page's order.
- `QueueBounded` (`QueueStaysShort`), assuming `SomeEvents`, that there are events and
  finitely many, as in any database. `QueueInv`: `Short` says where in the queue jobs that
  run at once and the repeated job can be, and how many odds jobs stand behind each; a
  round that is at work has only the events to add that it has not come to (`Rest`).

`ConsoleProofs`, for any number of tabs, users, tables and requests on their way, from
`Inv`, of which each part leans on the others:
- `SessionInv`, of each tab: one request of a sign-in at most, and only on the login page;
  a first request carries the tab's own token unless it is `crossed`; a tab that is
  neither `foreign` nor `crossed` has only requests with its own token or the stored one.
  `PagesInv`: a page is open only where a user is shown. `RequestInv`, of each page: the
  newest of its requests is for what is chosen (unless `behind`), no request is newer, what
  was read is no older than the last save reported; of a user's feedback, one request for
  the rows, and all that is put before them, or about to be, is newer than they are.
- `TypeCorrect`; `DoneByWhomItShows` (`ActsAsShown`); `NobodySignedOut` (`StaysSignedIn`):
  a 401 is only answered to a token that has expired, and such a tab's requests carry its
  own; `ShowsWhatIsChosen` (`TableIsChosen`).
- `NoneBeyondTheLimit` (`FeedbackLimit`): `LimitInv` adds to the entries of a user the
  submissions that are counted and not inserted (`Counted`). The first that is counted has
  room below the limit, each other one is an overlap.

`FiniteSums` proves what the folds of the community modules add up to, for every finite
set: without an induction theorem that takes an operator, it takes a minimal
counterexample from the library's well-founded orders (`SetInduction`).

`TopUpInv`, `PagesInv`, `SentInv` and `ToldInv` were first checked by TLC on the
instances of section 3, and on ones with one more step (`PagesInv`, `ToldInv`) or four
faults (`TopUpInv`, for one user).

Only model-checked: liveness under fairness, which is outside TLAPS. That is
`EveryBetSettles`, `EveryResultArrives`, `AllHandled`, `TopUpComes`, `ChangeShows`,
`EveryRequestAnswered`, `OddsFollow`, `HistoryComes`, and of `ImplementsLedger` the
fairness of the ledger. Every other property of a run has a theorem.

## 6. Where the code departs from what it says

Each of these can be reproduced by lifting the condition that is named.

Money and bets:

- A live job that has read an event as UPCOMING makes it LIVE after the results job has
  ended it (`events.service.ts:324`), and the next results job ends it again and creates a
  second outbox row, as its writes look at no status (`389-397`, `456-496`). If bets of it
  are PENDING then, they are resolved twice, and a winner is paid twice, with no crash, no
  overlapping cron run and no late bet (add "again" to the faults of `settlement_exact`:
  `BooksAgree` fails). `PostedAtMostTwice` states what is kept.
- A bet holds a side, and sides are told by the order of the opponents: the matches job
  rewrites the row's teams from each list (`events.service.ts:247`), and the winner's side is
  told by the answer the results job has (`417-418`). If PandaScore changes the order in
  between, bets move to the other team; a missing opponent, or a winner that is neither of
  them, gives side b (`moved` in `PostedIsVerdict`).
- Payouts are floors of Float products, so that some are a cent less than stake × odds
  (`bets.service.ts:248`; `Short` in `Settlement`).
- Two overlapping runs of `processOutbox` publish a row twice; the update consumer
  credits without looking at the bet's status, and a winner is paid twice, against
  "Payout = your stake × odds at the time you placed the bet" (`FaqPage.tsx:28`). Two
  relays and "overlap" in `settlement_exact`: `BooksAgree` fails.
- Two concurrent requests each sum the user's pending bets without the other's and
  exceed the limit together, against "Your total bets on a single event cannot exceed
  that event's max bet limit" (`FaqPage.tsx:16`). `LimitHoldsUndisturbed` states what is
  kept.
- A draw is only recognised in a match that has a winner; a drawn match without one is
  never cancelled (`events.service.ts:416`), against "Draw results are treated as a
  cancelled event" (`FaqPage.tsx:24`). `EveryResultArrives` excepts it.
- A bet commits after its match went live or ended, because the status is read without
  a lock (`bets.service.ts:36`; `PricedWhileOpen` states what is kept). If the resolver has
  read the pending bets by then, nothing settles the bet; if it has read them and not yet
  marked the losers, the bulk update marks the bet LOST, and nobody corrects totalProfit
  (`bets.service.ts:214`; `missed` in `Settlement`).
- A crash between the bulk LOST update and its messages leaves totalProfit wrong
  (`bets.service.ts:222`; add "crash" to `settlement_exact`: `BooksAgree` fails).
- The lock of a user expires after five seconds whether its handler is done or not,
  and `del` removes the next holder's (`bet-update.consumer.ts:97-110`; add "expiry" to
  `settlement_faults`). `settlement_exact` shows that the money stays exact all the
  same, as each update is one atomic increment.
- adjustBalance with a debit races a bet (`admin.service.ts:191`; put `debit` into
  `Adjustments` of `placebet`: `BalanceNonNegative` fails).
- An admin's CANCELLED posts nothing, and bets stay pending (`admin.service.ts:93`).
- A stale reading of the live job turns an ended event LIVE until the results job
  ends it again (`events.service.ts:324`).
- The weekly challenge "Place 10 bets this week" (`challenges.service.ts:77-80`) counts
  events, not bets, like every challenge whose messages name an event: "multiple bets on the
  same event count as 1" (`challenges.service.ts:193`). Its promise is not kept to a user
  who bets ten times on one match. `EventsCountOnce` states what the comment says.
- Concurrent messages of a user overwrite each other's challenge progress, and may
  complete and reward a challenge twice (`challenges.service.ts:204-215`).
- Overlapping cron runs top up twice (`users.service.ts:154`; two relays in `replenish`).
- Concurrent audit handlers may push the older balance last (`balance-audit.consumer.ts:85`),
  and a row may hold a balance with later changes in it.

HLTV odds:

- The odds job compares with the odds that were read when it was enqueued and writes
  whatever the row has become: an admin's price is overwritten, or stays for a round
  because the quote has not changed (`hltv-sync.processor.ts:320`).
- A tournament whose matches are all overdue at one reading is marked ended
  (`hltv-sync.processor.ts:237`), until the tournaments job finds it running again.
- Names that are not recognised keep the order of the page, so that odds may be on the
  other side (`Recognised` in `OddsOnTheirSide`).
- An HLTV id that another event has makes the mapping of an event fail in every round,
  although another match would fit (`Quotable`).

Pages (each is an exception that a property names):

- "Socket.IO pushes for odds changes, match status, and balance updates — no page refresh
  needed" (`src/README.md:12`): a change of status is never pushed, as nobody calls
  `broadcastStatusChange` (`events.gateway.ts:107`); a page shows it after its next request,
  and up to 30 seconds later if that is answered from the cache (`behind` in
  `PageIsCurrent`).
- An admin's save that changes odds busts the detail's cache and tells no page; the
  lists' caches live on for 30 seconds. A reader that read the row before the save may
  fill the cache after it has been busted (`raced` in `SaveIsSeen`).
- Answers of earlier requests replace later ones, in the list and in the detail page;
  pushed odds that come before the event are lost; and the socket is handed to a page
  only when something renders (`behind` in `PageIsCurrent`).
- In the chat, a widget that connects again joins the room of its first rendering while
  it goes on showing the other one; a choice made without a link asks for nothing; so
  that a message can be stored in a room that is not shown (`asked` in
  `SentWhereShown`). A message that is stored or pushed while a history is read can be
  shown twice, not at all, or in another room's list (`blurred` in `ShowsTheRoom`).
- Tabs share the token: after a sign-in elsewhere a tab shows one user and acts as
  another, and an answer 401 to an old token removes the new one (`foreign`, `crossed`
  in `ActsAsShown` and `StaysSignedIn`). The first request signs out on any failure, a
  lost connection too (`useAuth.ts:29`).
- The refetch after a save asks for the filter of an older rendering (`behind` in
  `TableIsChosen`), and the first list of one's feedback replaces an entry submitted
  before it (`early`).
- Overlapping submissions exceed "3 feedback entries per week"
  (`feedback.service.ts:18`), by as many as overlap (`overlaps` in `FeedbackLimit`).

## 7. Not modelled

- `hltv-lib/endpoints`: parsing of HTML pages, a vendored copy of a package, without
  state; `OddsSync` takes what it returns. Of `scraper.ts` the retries are in
  `HltvLimiter`.
- `pMap`, a copy of a published function: its callers are modelled by what they await.
- Request validation: stateless decorators; the models take inputs that have passed.
- The tournaments' filter of PandaScore requests (`pandascore.service.ts:220`): it decides
  which events there are, and the models start with events that exist.
- What the statistics and the leaderboard add up: read-only aggregations for display.
  That they are asked for, cached and shown is in `Console`.
- Password hashing, the settings context, the autocomplete of users, rendering and
  forms; `leave_room`, which the widget never sends; the unread counter; `ChatPage.tsx`, to
  which no route leads.
- Migrations, the Prisma client, the queues' declarations, and deployment beyond the
  restart: configuration.

PandaScore, HLTV, PostgreSQL, RabbitMQ and Redis are modelled as far as the code uses
them.

## 8. Plan

Done: the modules above, in the order of what they protect: placement and settlement,
since money is what the rest is for; the life of events; challenges, replenishment and
the feed; then HLTV's odds, the pages, chat and sessions. Next:

1. `TournamentSync`: the tournaments job, the admin's tier filter, and the list of
   tournament ids of a request (`pandascore.service.ts:220`).
2. The ledger with late bets: balance and profit of bets that commit after their event
   has ended, and `Settlement` over `PlaceBet`'s transactions.
3. What the statistics and the leaderboard add up, as functions of the settled bets,
   against a reference definition.
