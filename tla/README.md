# Helpdock in TLA+

Specifications, model-checking runs and machine-checked proofs for Helpdock, a
multi-brand help desk: a NestJS API, a worker process that shares its code, Postgres for
everything durable, Redis for sessions, presence and BullMQ queues. Several replicas of
both run at once. What goes wrong in such a program goes wrong between them: two
replicas that publish one backlog, a job delivered twice, a token signed while its
session is being revoked, a row committed just before everybody goes to sleep, a reply
decided on before a snooze and stored after it. Those are the behaviours this project is
about.

Every module names, in `PROJECT.json` under `map`, the source lines each
definition stands for.

    tlasany Outbox.tla
    tlc -workers 2 -config MCOutbox.cfg MCOutbox
    tlapm Outbox_proofs.tla

## 1. The system and its parts

| Part | State it keeps | Operations | Talks to | What is hard | What makes it correct |
|---|---|---|---|---|---|
| Outbox pipeline (`packages/jobs`) | outbox rows and `job_receipts` in Postgres, jobs in Redis | `enqueueOutbox` in a domain transaction; `runRelayCycle`, `publishBrand`; `createJobProcessor`; `purgeReceipts`, `purgePublishedOutbox` | every domain service writes to it; every subscriber is called by it | at-least-once queue, crash between Redis and Postgres, replicas, redelivery | an effect is applied at most once and only if its transaction committed; nothing published is lost |
| Event ordering (`ordering.ts`) | a map of promises per process, advisory locks per ticket | `serializer.run`, `lockOrderingKeys` | called by the outbox consumer | events of several tickets, several processes | one event per ticket at a time, in call order, no deadlock |
| Relay loop (`relay.ts`, `waiter.ts`) | one pending notification, `stopped`, the LISTEN connection | `notify`, `wait`, `stop` | Postgres NOTIFY | a notification during a cycle, a lost connection | no row is slept on; the poll finds what nobody told of; stop is prompt |
| Staff sessions (`auth/session`) | refresh families, an index per account, session lists and revocation marks in Redis; roles in Postgres | open, resume, refresh, revoke one, revoke all, list; role change | sign-in, staff administration, single sign-on, the resolver of every request | several Redis commands per operation, locks in another store | what was revoked is not accepted, old roles do not outlive a role change |
| SLA clocks and timers (`sla`) | clock rows, delayed jobs | start, pause, resume, respond, recompute, plan, fire | ticket lifecycle, outbox events | a job that runs while its clock changes, planners without a lock, stamps older than the lock | a step that is due runs, once and not early; time is counted once |
| Ticket lifecycle and snooze (`tickets`) | the ticket's status, close date, wake time and version, delayed jobs | a status picked, replies of customers and agents, snooze, wake by time, reply, hand or SLA step | SLA, events, BullMQ | decisions on a row read before its lock, a wake of an older snooze, planners against workers | the row says one thing; a reply is stored once; one wake per snooze, and it comes |
| Merge, bulk | ticket rows | merge, bulk change and undo | SLA, events | locks on several tickets | a merged ticket takes no more changes; undo restores what it names |
| Assignment (`assignment`) | assignee, rotation marks | rotation, manual assignment, release when offline | presence, events | two writers with different locks | the load cap, at most one assignee |
| Presence (`realtime`) | sockets, members, marks and brands in Redis; rooms per socket | join, heartbeat, leave, disconnect, away toggle, sweep, idle mark | gateway, assignment | up to eight commands per leave, a reaper in every replica | who has a live socket is shown online in the end and who has none is not; rooms hear of every change, and of no departure twice |
| Webhooks, outbound email, pacing | delivery rows, attempts, batches | post, record, retry, attach, detach | consumers of the outbox | I/O between or inside transactions | bounded duplicates, no lost delivery |
| The rest | see `components` in `PROJECT.json` | | | | |

How they interact: a service changes its rows and calls `enqueueOutbox` in the
same transaction; the relay moves rows to BullMQ; the consumer runs all
subscribers of an event in one transaction under the receipt of the event and
the ordering locks of its tickets. SLA, snooze, webhooks, notifications and the
rest are such subscribers, so the three modules about `packages/jobs` are what
all of them stand on, and they come first. Sessions are the other piece of
state every request depends on; the SLA clocks, the lifecycle of a ticket and
presence are the domain state with the most writers.

Left out for good: user interfaces, provider protocols, format translation
(importers, channels), configuration tables and row-level create, read and
update in one transaction. `components` gives the reason for each part.

## 2. Modules

| Module | Models | Proofs |
|---|---|---|
| `SideEffects` | the promise: at most one application of what a committed transaction asked for | |
| `Outbox`, `MCOutbox` | the pipeline from `enqueueOutbox` to retention | `Outbox_proofs` |
| `EventQueue` | the promise: each event in its turn, one at a time per ticket | |
| `EventOrder`, `MCEventOrder` | `ordering.ts` in several processes | `EventOrder_proofs` |
| `RelayLoop`, `MCRelayLoop` | `startOutboxRelay` and `waiter.ts` | `RelayLoop_proofs` |
| `AccessTokens` | the promise: what is revoked is refused, and roles change under nobody who is let in | |
| `Sessions`, `MCSessions` | refresh families, access tokens and role changes of one account | `Sessions_proofs` |
| `ServiceLevel` | the promise: a stopwatch, and steps that run once when their share is used | |
| `SlaTimers`, `MCSlaTimers` | one SLA clock of a ticket, its jobs, planners and workers | `SlaTimers_proofs` |
| `SnoozedTicket` | the promise: away until a time and back to where it was, every message stored once | |
| `Lifecycle`, `MCLifecycle` | the status, close date and snooze of one ticket, and its wake jobs | `Lifecycle_proofs` |
| `Attendance` | the promise: every change is announced next, and nothing else is | |
| `Presence`, `MCPresence` | who is online, the gateway's handlers and the reaper | `Presence_proofs` |

A *promise* is an abstract specification: what the rest of the system may count on, with
none of the means in it. The detailed module instantiates it with a refinement mapping,
and `Implements…` says that each of its steps is one of the promise or leaves the
promise's state alone. Only `RelayLoop` has none: what it promises is that nobody sleeps
on a row, which is an invariant.

| Promise | is implemented by | with this mapping |
|---|---|---|
| `SideEffects` | `Outbox` | `Fate` of the entry, from its row; `effects` as it is |
| `EventQueue` | `EventOrder` | `Phase` of a delivery, in place of chains, locks and the map of tails; the process it was handed to |
| `AccessTokens` | `Sessions` | `Access` of a session; claims and family of what is signed and not given out (`Out`) are hidden; the roles, `ended` and `stray` as they are |
| `ServiceLevel` | `SlaTimers` | the clock's `run` and `target`, `consumed` for what was used, whether it records a breach |
| `SnoozedTicket` | `Lifecycle` | the row without its version and close date, `byTime`; a message is stored here or elsewhere |
| `Attendance` | `Presence` | `Derived` for the status; expected are those some task is about to announce (`Quiet`), doubtful those in `raced`, leaving is `owed` |

An `MC` module only gives constants their values. Operators commented *Mutant*
are forms of an action with a plausible mistake in it; no specification uses
them. They are listed in `PROJECT.json`, and each makes the property it is
listed with fail.

### Outbox

An *entry* is an outbox row, the job with its id, and its receipt. `row`,
`receipt` and `expired` are Postgres, `job` is Redis, `relay` and `exec` are
memory of processes. `effects` and `lost` are history.

- Domain: `EnqueueOutbox`, `DomainCommit`, `DomainRollback`.
- Relay: `StartCycle` finds brands with a backlog; `StartBrand` takes the
  brand's advisory lock and reads the oldest `BatchSize` rows, `SkipBrand` does
  not; `AddEventJob` adds one row's job, ignored by Redis if the id exists in
  any state; `CommitBrand` stamps the rows read; `RejectBatch` is a row that does
  not parse, which rolls the batch back but leaves in Redis what was added.
  `FailBrand` and `CrashRelay` may come between any two.
- Consumer: `Take`, `ClaimReceipt` (waits for another open transaction with the
  same key), `IgnoreDuplicate`, `CommitEffect`, `HandlerThrows`, `Acknowledge`,
  `Retry`. BullMQ moves a finished job only for the holder of its lock.
- BullMQ and people: `Promote`, `RequeueStalled`, `LoseJobLock` (the owner still
  runs), `RemoveCompleted`, `OperatorRetry`, `RedisLoss`.
- Retention: `ReceiptExpires`, `PurgeReceipt`, `PurgePublishedOutbox`.

All subscribers of an event are one effect, because they share a transaction.
Ordering locks are left to `EventOrder`, sleeping and waking to `RelayLoop`.

`RetentionOutlivesDelivery` names what the code leaves to whoever runs it
("the cutoff has to stay comfortably longer than the longest retry schedule of
any job", `retention.ts`): nothing can deliver a job whose receipt is a week
old. It is TRUE in the runs and an explicit hypothesis of two theorems. The
hypothesis is not idle: a row that never parses rolls its batch back in every cycle,
after the jobs of the rows before it were added, so they run and stay unpublished;
once the completed job (a day) and its receipt (a week) are gone, the next cycle
would add them again. Rows behind such a row wait for ever, which
`EventuallySettled` excludes by speaking of healthy brands.

### EventOrder

Delivery *n* is the *n*-th job handed to any process. `Register` is the
synchronous part of `run`; `before` are the promises it waits for; `tails` the
map; `Begin` is `allSettled`; `TakeLock` takes the next advisory lock in sorted
order; `Dispatch`, `EndTransaction` (commit or failure), `Settle`. `Crash` ends a
process with its map and its transactions, while its jobs may come again as
later deliveries.

### RelayLoop

A step is what happens between two awaits. `Notify` follows `waiter.ts` to the
letter: ending a wait clears what `pending` says. `Hear` is a notification, for
any set of rows not told of yet. A relay that could not LISTEN is never told.
The order of rows does not matter here, so `ReadBatch` takes any; identifiers are
made before commit and batches need not follow the order of commits.

### Sessions

One account. A step is one Redis command, one script or MULTI, or one statement
in Postgres. `family` is the record, `index` the set of an account's families,
`listed` the session ids of a family, `revoked` the marks. Requests keep the step
they are at (`pc`) and what they read. `Reading` and `Writing` say who holds the
shared and the exclusive advisory lock. `Rotate`, `RotateReused` and
`RotateExpired` are the outcomes of the rotation script. `Crash` ends a request
between any two steps. `ended` and `stray` are history: families some
revocation finished with, and families that fell out of the index without one.

Role versions are numbers; two versions differ in what they allow, which is the
case a property has to cover. Times are left to their order: `Spent` says a
family outlives the tokens signed on it, which `accessTokenLifetime` ensures.

`CommitRoles` is a change of roles as `staff.service.ts` makes it: the exclusive lock
and the revocation of every family first. The code also changes what an account may do
without the one or the other: an invitation of an account that is active already
(`staff.service.ts:123-135`), a reactivation (`:308-309`), the viewer toggle
(`session.service.ts:349-356`, which takes effect at the next refresh), and a sync from
an identity provider whose plan keeps the sessions (`sso/identity.service.ts:329`). None
of these is modelled, so `StaleClaimsAreRefused` and the refinement say nothing of them:
a token may lag behind such a change until it expires, a lag DOMAIN-RULES 1.6 accepts
("existing access token keeps working for at most 10 minutes").

### SlaTimers

`clock` is the current row of `ticket_sla_clocks`, `events` the `sla.schedule`
outbox rows not handled yet, `job` the delayed job of each step in Redis,
`planner` the memory of the `sla.schedule` handler and of `sla.rebuild`, `worker`
that of the timer processor. The definitions above `Init` are `clock.ts` and
`ticket-clocks.ts` as functions of a clock and an instant. `hourly` says whether Redis
has `sla.rebuild`: the job a booting worker adds, and the BullMQ scheduler that adds it
again every hour.

- People: `Sync` (pause, resume, retarget), `Close` (met, `Satisfy`, or ended with no
  verdict, `Stop`), `Reopen`. Each is a
  transaction under the ticket's lock, with a stamp from `Stamps`: the request
  looked at the time up to `MaxLag` before it got that lock. `Write` saves the
  clock and asks for a schedule if anything changed.
- Planners: `StartSchedule` and `StartRebuild` read the clock without the lock and
  make the plan; `Look` is `getJob` and `getState`; `LeaveAlone`, `AddTimer`,
  `ChangeDelay` and `RemoveTimer` act on what was seen, which may no longer be so;
  `Refused` is BullMQ's refusal, after which the planner's own job is retried.
- Workers: `Take`, then one transaction (`TimerDone`, `TimerEarly` or `Fire`), then,
  outside it, `Complete` or `MoveToDelayed`, which BullMQ grants to the holder of
  the job's lock (`NotTheOwner`). `Fire` marks the step, records the breach, and
  lets the clock follow what the step's actions made of priority and status.
- Faults: `TimerFails` (retried, or for the last time, as may be), `CrashWorker`,
  `LoseJobLock`, `PlannerFails`, `RedisLoss`.

`RedisLoss` takes the timers, the `sla.schedule` events that were published (those still
in Postgres stay), and `sla.rebuild` with its scheduler. A handler that runs goes on, but
its own job is gone, and when it stops nobody retries it (`orphan`). The scheduler is
upserted when a worker boots (`start-worker.ts:1369-1378`) and nowhere else, so `Boot` is
the only way back, and `StartRebuild` needs `hourly`.

`consumed`, `ran` and `raced` are history: how much was counted fairly, how often
each step ran for this clock, and whether a timer may have been lost since the
last rebuild began. A timer is lost when its clock is planned while its own
processor runs (`upsert` leaves an active job alone), when a clock changes during
a rebuild, or with Redis. `start-worker.ts:1358` knows of the first ("The hourly
tick also catches a timer lost to a race"); `TimersInPlace` says that nothing
else loses one, and `DueStepsRun` that the rebuild mends it, while Redis has its
scheduler.

Time is counted in units of a calendar that is always open. One rebuild runs at a
time, and one schedule of a ticket, which `EventOrder` shows. `recordResponse`
meets the clock as `Close` does, and the status resync is one more `Sync`.

### Lifecycle

`ticket` is the row, `events` the `ticket.snoozed` outbox rows not handled yet,
`job` the wake job of each version, `planner` the memory of the event's handler
and of the rebuild, `worker` that of the processor, `hourly` whether Redis has
`snooze.rebuild`. `here` and `elsewhere` count where a customer's message was stored.

- Requests: `SetStatus`, `Snooze`, `WakeNow`, `AgentReply`, `ReplyHere` and
  `ReplyContinues`. All of them read the ticket, decide, and only then lock the row.
  `past` is what the row has been in this unit of time, and a request may decide on
  any of it; its step is what happens from the row lock to the commit. A unit of
  time is longer than a request. What it did not name in its UPDATE stays as it is
  by then.
- `Guarded` is the trigger of migration 0064: another status ends a snooze, and a
  changed wake time is another version. It is part of every write.
- Planners: `StartEvent` (removes the job before, sets its own) and `StartRebuild`;
  `Look`, then `DropOld`, `LeaveAlone`, `ChangeDelay`, `Replace`, `Add` on what was
  seen, or `Refused` by BullMQ. `RebuildWakes` is the rebuild that finds the time
  passed.
- Workers: `Take`, one transaction under the ticket's lock (`TimerWakes`,
  `TimerIsOld`, `TimerIsEarly`), then `Return` to BullMQ. `SlaWakes` is a step of a
  response clock that fires on a snoozed ticket.
- Faults: `TimerFails`, `CrashWorker`, `LoseJobLock`, `PromoteEarly`,
  `PlannerFails`, and `RedisLoss` and `Boot`, which are as in `SlaTimers`: the wake
  jobs, the published `ticket.snoozed` events and the scheduler of `snooze.rebuild` go
  together, and a booting worker (`start-worker.ts:1387-1397`) alone brings the
  scheduler back.

`byTime` and `raced` are history: whose write the last one was, and whether a timer
may have been lost since the last rebuild began, with Redis or in a rebuild that
stopped half way.

### Presence

`listed`, `members`, `socks`, `live`, `away` and `idle` are the Redis sets and keys
of `presence.store.ts`; `conn` and `rooms` are the sockets. A *task* is a request of a
socket, its disconnect handler, or the sweep of one person by one replica; it keeps
its step (`pc`), whom it is about (`at`), and what it has read. A MULTI, a script, and
commands sent in one `Promise.all` are one step; commands with an await between
them are steps of their own.

- Requests: `AskJoin` is `room:join` up to its last await and `Join` the MULTI;
  `AskBeat` and `Beat` the heartbeat, which repairs memberships; `AskStatus`,
  `SetAway`, `SetOnline`, `Touch` the status; `RoomLeave` the one brand.
- Leaving: `Disconnect` sets the loop over the socket's brands (`NextBrand`);
  `DropSocket`, `DeleteKey`, `CountSockets` are `leave`; `Claim`, `Untoggle`, `Unmark`,
  `CountMembers`, `Unlist` are `#forget`. Only who removed the member (`won`)
  announces.
- Reaper: `StartSweep`, `ReadSockets`, `ReadKeys`, `DropDead`, then `#forget`;
  `MarkIdle`, `ReleaseIdle`.
- `ReadStatus` and `Announce` are `presence:changed`. A status is read and then
  told, so that two announcements may come in the wrong order; nothing in the code
  prevents it, and `raced` records it.
- Faults: `Fail` (a Redis call throws and the rest of the handler is not run), `Crash` (a
  replica with its sockets, whose disconnect handlers do not run), `Expire` (the key
  of a socket that is gone, or whose heartbeat is late).

`heard`, `owed` and `raced` are history. The activity clock is abstract: whether its
limit has passed is a choice of the script that looks.

## 3. Runs

| Run | Instance | Asks |
|---|---|---|
| `outbox` | 2 rows of one brand (one deferred), 2 relays, 2 consumers, batches of 1, 2 attempts, 1 stall, 2 faults | safety of the pipeline, and that it implements `SideEffects` |
| `outbox_live` | 2 brands, the first with a row that never parses, 2 relays, 1 consumer, 1 fault | the healthy brand's row is settled all the same |
| `event_order` | 4 deliveries on tickets {1,2}, {2,3}, {1,2,3}, {2}, 2 processes with 3 slots, 1 crash, with fairness | ordering and exclusion, and that it implements `EventQueue`; every delivery ends |
| `relay_loop` | 2 replicas, 2 rows, batches of 1, 1 failure, with fairness | no row is slept on, stop is prompt; the poll publishes what nobody told of, stop ends the loop |
| `sessions` | 1 family, 2 access tokens, 2 requests, 1 role change, 1 rotation, 1 crash | a revocation of everything ends what lived; nothing revoked or stale is accepted; the locks never leave both requests waiting; it implements `AccessTokens` |
| `sessions_everywhere` | 2 families, 1 token, 2 requests, no crash | finding 1 |
| `sla_timers` | a breach step, targets 2 (at first) and 1, 1 worker, time 2, 2 changes, stamps up to 1 late | time is counted as it passed, nothing is early, the timer is in place; it implements `ServiceLevel` |
| `sla_timers_faults` | a breach step, 2 workers, time 2, 1 change, 1 fault, with fairness | a step runs once, and what is due runs in the end, after a loss of Redis once a worker has booted |
| `presence` | 1 brand, 1 person, 2 sockets, 1 replica, 2 joins, 1 toggle, mark or fault, 2 tasks at a time, with fairness | departures are real, rooms hear of changes, marks go with people; it implements `Attendance`; holders are present and listed ghosts leave in the end |
| `presence_ghosts` | the same without toggle, mark or fault | finding 2 |
| `lifecycle` | 1 message, picks closed and open, reopening within 1, snoozes of 1, 1 worker, time 1, 2 changes by the staff, 1 fault, with fairness | the row is consistent, a message stored once, a wake neither early nor of an older snooze, its timer in place; it implements `SnoozedTicket`; every snooze ends, after a loss of Redis once a worker has booted |
| `lifecycle_reply` | the same with 1 change and no fault | finding 3 |

Why these bounds. Two of each actor are needed for every race listed under `hazards`,
and each race is between two; a refresh needs a second token, and the family that
escapes a second family. Two faults in `outbox` cover a crash followed by a redelivery
of what the crash left. The deliveries of `event_order` were chosen so that a chain
through one key overtakes another and that key sets sort in both directions. With
batches of one, every batch that finds a row is a full one, and the next of the same
brand a short one. In the SLA runs, two units of time are a target with something before
and after its half, two changes are a pause and a resume or an end and a reopening, and
a stamp one unit late is enough to fall before another change; the races are between the
two planners, a worker and the change that came between, so one worker does except where
jobs are delivered twice. In `lifecycle`, one unit of time is a snooze and its end, two
changes are a snooze and whatever overtakes it or snoozes again, with the reply, the SLA
step and the time as the other writers. In `presence`, two tasks at a time are a leave
against a join, a sweep against a heartbeat, a sweep against a toggle; whether they
belong to one replica or two makes a difference to a crash only. `MaxVersion` leaves a
version for a snooze to end with, and is not what stops a run. What larger instances
would do is the business of the proofs: all invariants but those of the findings, all
action properties and all refinements are proved for every size.

`CHECK_DEADLOCK FALSE` is set in every run: rows, deliveries, session ids and
faults are finite, so each system may come to rest with nothing left to do.
The states in which something should still move are what `NoDeadlock` and
the liveness properties are for.

Symmetry is used in safety runs only.

### Fairness

- `Outbox`: the relay loop and each consumer slot go on (weak), BullMQ promotes
  and re-queues (weak), and a waiting job is taken in the end (strong: the wait
  list is first in, first out). Whether a handler throws, a transaction commits,
  an operator retries or a fault happens is never forced.
- `EventOrder`: callbacks run, a handler returns or throws, and Postgres grants a
  lock that becomes free again and again (strong; its lock queue is fair).
- `RelayLoop`: the loop's ready steps and its timer (weak). Notifications are not
  fair: they may never come.
- `SlaTimers`: planners and workers go on, stalled jobs are given back (weak), and
  a job that is due again and again is promoted and taken (strong). A rebuild
  removes and adds anew a job that waits, so a weak condition could be evaded by
  rebuilding without end; rebuilds are an hour apart. That the rebuild comes again
  is weak fairness of `PlannerStep`, with the hourly scheduler as its reason: without
  the scheduler `StartRebuild` is not enabled, and fairness forces nothing. Nobody has
  to start a worker, so `Boot` has no fairness, and `DueStepsRun` asks for nothing as
  long as `hourly` is false.
  Changes, stamps and faults are never forced, and time need not pass.
- `Lifecycle`: planners and workers go on, the rebuild comes again every hour while
  Redis has its scheduler, BullMQ promotes and re-queues (all weak). No request, fault
  or start of a worker is forced, and time need not pass.
- `Presence`: tasks go on and the key of a socket that is gone expires (weak). An
  open socket sends its heartbeat and a sweep comes to everybody on the list (strong: both
  are timers, which need a task slot of the bounded instance, free again and again).

`Sessions` states none: its question about progress, `NobodyBlocksForEver`, is whether
some request can go on. It asks for the guards of the request's next step (`CanGoOn`)
and not for ENABLED, so that it can be proved.

## 4. Findings

1. **Revoking everything can lose a family** (`sessions_everywhere`).
   `revokeAllForUser` reads the index, revokes what it read and deletes the index.
   A family created in between stays alive, is no longer in the index, and is
   missed by the next revocation of everything. `auth.service.ts:2072` says
   "Everything this account can get back in with, gone: every family". The
   theorems say exactly how far the code goes: all families but those the index
   had lost (`stray`).
2. **The reaper can lose sight of a brand** (`presence_ghosts`). `#forget` counts the
   members of a brand and, at none, takes it off the list of brands to sweep. A join
   between the two commands puts the brand on the list and is taken off again with
   it. If the socket that joined is gone by then, since `room:join` was still being
   authorised when it disconnected, no heartbeat repairs this, and the person is
   online until somebody else joins the brand. `presence.store.ts:26` and
   `staff.gateway.ts:191` say that the reaper finishes the job. It does for brands
   on its list (`ListedGhostsLeave`). Nothing fails or crashes in the run.
3. **A customer's reply need not wake a snoozed ticket** (`lifecycle_reply`).
   `addMessage` reads the ticket at `tickets.service.ts:798`, locks its row at `:810`, and
   decides on what it read. A ticket read open and snoozed meanwhile keeps its snooze,
   with the reply on it. `DOMAIN-RULES.md:116` says "the customer reply always wakes".

Observed on the way, and not stated as properties:

- Losing Redis under a worker that keeps running loses timers and snoozes until some
  worker boots: the scheduler of the hourly rebuild is lost with them, and is registered
  at boot only (`start-worker.ts:1369-1378`, `:1390-1397`). `DOMAIN-RULES.md:310` has
  "so losing Redis loses no snooze" (as does `snooze-worker.ts:147`), `jobs.ts:448`
  that the hourly rebuild "is what protects the SLA against losing Redis", and
  `site/src/data/features.ts:111` "losing Redis loses no deadline". `jobs.ts:1669` names
  just this case ("a scheduler lost while the worker kept running (a Redis flush ...)")
  and has a daily tick for it, for `meta.health` alone. The condition `hourly` in
  `DueStepsRun` and `SnoozesEnd` is there for this: without it neither holds, a loss of
  Redis with no boot after it being the counterexample.
- A change that shortens the target until the clock is breached records the breach,
  and `planTimers` takes a recorded breach for the step at 100 % having run: its job is
  removed and its actions never happen.
- A stamp is taken before the lock, so `resume` may move a checkpoint back behind a
  pause another request wrote. `NothingElseCounted` says how far that can go: by what
  the stamps reach back, and no more.
- The stale read of finding 3 has other consequences: an agent's reply decided on an open
  row moves a ticket closed since to awaiting, without the reopening's
  side effects, a second snooze decided on a snoozed row puts a ticket closed since
  away with its close date kept (`Consistent` allows for it), and two closes at once
  both take themselves for the one that closed.
- `room:leave` of one brand deletes the liveness key, which all brands of a socket
  share, until the next heartbeat; a person whose `leave` throws after the room was
  forgotten stays online while the tab is open, and the offline hook of a departure is
  logged and not retried when it throws (`presence.service.ts:205`).

## 5. Proofs

Checked by TLAPS for every value of the constants that satisfies the named
assumptions (`OutboxAssumption` and `NoneAssumption`, `OrderAssumption`,
`RelayLoopAssumption`, `SessionsAssumption`, `SlaTimersAssumption`,
`LifecycleAssumption`, `PresenceAssumption`; TLC evaluates them in every run).

**Outbox.** `TypeOK` first. `PipelineInv` then adds: a batch is unpublished rows of
the brand being published (`RelayInv`), lock keys of busy relays differ
(`LockInv`), a slot holds committed entries (`ExecInv`), what is finished was
applied (`AppliedInv`), what was added is accounted for (`AddedInv`). None of the
properties is inductive without these: that a commit stamps only accounted rows,
say, is a fact about the relay's memory. `OnceInv`, under
`RetentionOutlivesDelivery`, adds that open receipts are exclusive and that an
applied entry keeps its receipt until it is *quiet*. The refinement
(`PipelineImplementsSideEffects`) maps `CommitEffect` to `Apply`, whose guard is
what `OnceInv` gives.

**EventOrder.** `OrderInv`: locks have one holder and are taken from the smallest up
(`LocksInv`), tails are the last pending deliveries (`TailsAreLast`), every pending
predecessor is waited for through some delivery of the shared key (`ChainInv`), whoever
runs has waited for those before it (`OverInv`). `NeverDeadlocked` takes the first
pending delivery, which can only wait for a lock, and among all that wait for a lock one
whose lock is the greatest: its holder waits for a greater one, or moves. For the
refinement, `Dispatch` is `Start`: `OverInv` gives the event its turn, and `LocksInv`
that no other process runs one that shares a ticket. `Crash` is `Crash`, and a
transaction that fails before it runs anything is `GiveUp`.

**RelayLoop.** `HolderInv`, `StopInv`, `AsleepInv`, `BatchInv`, and `MindedInv`: when
all listen, none has stopped and none failed, some relay has still to read, is
about to be woken, or was told of nothing unpublished. It is a statement about
all relays, since one may skip the brand only because another holds it.

**Sessions.** One lemma per part: `RequestInv` (which step fills which field), `SidInv`
(a session id has one owner), `ListInv` (a token that is out is listed or marked),
`LockInv` (writers exclude; a reader's roles are current), `IndexInv` (a known family is
in the index, ended or stray; and what a walk has still to do), `StaleInv`. `StaleInv`
needs `LockInv` for the roles and `IndexInv` for the walk. `SomebodyGoesOn` needs
`IdleInv`, that a request at rest holds no lock: whoever waits waits for a request that
is past the lock, and nobody past it waits. The refinement needs `OwnInv`, what a
request has signed and on which family: an answer is `Issue`, the deletion of a family's
record with the marks on its tokens `Revoke`, a role committed `ChangeRoles` (`StaleInv`
says that nobody is let in with others), and an index that loses families `Lose`.

**SlaTimers.** First the arithmetic: a checkpoint moves what was counted and changes
nothing else (`CheckpointFacts`), reconciling adds at most what the stamp of a resume
reaches back (`ReconcileFacts`), a step is due when its share was counted
(`DueIsCounted`). `Inv` is then `TypeOK`, `JobInv` (a job runs just while somebody
holds it), `PlanInv` (a handler has its event), `WorkerInv` (a worker's time is
past), `RanInv` (a step that is not marked has not run) and `NothingElseCounted`, one
lemma each. `RunOnce` is `RanInv`: the mark is set in the transaction that runs the
step. `RunsNeverEarly` needs `WorkerInv`, since a worker compares with the time it
looked at, and `NothingElseCounted`, since what it compares is what was counted.

`TimersStayInPlace` rests on `FreshInv` and `TimerInv`. A plan is fresh while its clock
has not changed since it was made; a change of the clock that matters leaves a
`sla.schedule` behind (`Ahead`), and a change during a rebuild is one of the named
losses. `OrphanInv` says that a handler whose event went with Redis is one of these as
well: it may go on with an old plan past the start of a rebuild, so that rebuild does
not end the loss. `TimerInv`, of any moment with no event ahead and nothing lost: a step that is
wanted is `Kept` (its job is there, at its time, and no worker is about to end or
mis-set it), or a planner `Mends` it (has still to come to it, or saw what makes it set
the job). `TimerPlanStep` covers the planners' steps and `TimerStep` the rest.

The refinement to `ServiceLevel` has one lemma per way the clock is written
(`RetargetAims`, `ReconcileAims`, `SatisfyAims`, `MarkAims`): where its state, target
and breach go, and that a breach is recorded only when the target is used up and never
withdrawn. `Sync` is then `Change`, `Fire` is `RunStep`, `Close` (with a verdict or
without) is `Meet`, `Reopen` is
`Restart` and time is `Pass`; planners and workers do nothing. `CountedFacts` joins what
the row says was counted to `consumed`.

**Lifecycle.** `Inv` is `TypeOK` and one part per question (`EachReplyOnce` is inductive
without them). `RowInv`: the row and every row a request may have read are consistent;
`GuardKeeps` is the lemma about the trigger it rests on, since a consistent row can be
overwritten by a decision on an older consistent one. `BoundInv`: nothing is of a
version still to come, so that a new snooze finds no job, plan or event of its version.
`PlanInv`: a handler has its event until it is done; `OrphanInv`: unless that went with
Redis, and timers beside it. `DoneInv` and `DueInv`: a version a
worker is done with is over, and a rebuild that wakes one found its time come;
`WakesOnlyWhenDue` follows. `TimerInv`: a snooze has its job, or an event or the rebuild
has still to add it. It needs `LeftAloneInv`, for the handler that saw a running job and
leaves it alone, and two lemmas: `JobStays`, that no step takes away the job of a snooze
that lasts unless the rebuild puts it back, and `EndedIsDone`, on what an event that is
handled leaves behind. For the refinement, `EndingWrite` and `SnoozingWrite` say what
the trigger makes of a request's write, whichever older row it was decided on: the
ticket moves (`Move`), is put away (`PutAway`), or a message is stored with or without a
move (`Store`). `SlaWakes` is `CallBack`; a worker's or the rebuild's wake is
`ComeBack`, whose guard is that the time has come (`Due`), and `WakesBack` says to
where.

**Presence.** `RoomsHearEveryChange` is inductive together with the types of the tasks.
One lemma per action says that of somebody no announcement of whom is under way nothing
changes (`Kept`); the rest of a removal and an abandoned task are the exceptions, which
`raced` counts. `WinnersInv` counts: the tasks that removed a member and have not
announced it are a finite set no larger than `owed`, which is `NoFalseDeparture` once
the set is there to count. `MarksInv` strengthens `MarksFollowPresence` with the winner,
who is the one that clears the marks; `BeatInv` says whom a heartbeat's announcements
are about. The refinement reads the same lemmas for all people at once: a step is `Come`
if everybody is `Kept`; `Claim` is `Depart` for the one who finds the member, an
`Untoggle` or `Unmark` that meets somebody who is back is `Erase`, `Announce` is `Tell`
(the winner of a removal is one of those `owed` an announcement, by `WinnersInv`), and a
fault is `Lose`.

The theorems a reader should know of are under `theorems` in `PROJECT.json`.

**Model-checked only.** Liveness (`EventuallySettled`, `EveryDeliveryEnds`,
`EveryRowIsPublished`, `StopEnds`, `DueStepsRun`, `SnoozesEnd`, `HoldersArePresent`,
`ListedGhostsLeave`): the prover handles no fairness arguments of this kind. The other
way round, each module's `TypeOK` is proved, and all runs but `outbox` leave it out:
what they check is whatever could go wrong with the types right. No module uses
RECURSIVE operators.

## 6. Not modelled, and the plan

In order of what matters most:

1. `Merge` and bulk changes with their undo, with locks on several tickets, on top of
   `Lifecycle`.
2. `TicketClocks`: both clocks of a ticket, calendars that close, a move to another
   department, a clock that was stopped and starts again (a merge undone, a policy that
   comes back), recompute over all tickets under
   locks in id order. Abstract specification: time consumed per calendar.
3. `Delivery`: webhooks (post between two transactions) and outbound email (send
   inside one), with the counts of attempts and failures; `EmailPacing`.
4. `Assignment`: rotation against manual assignment and the cap; release of a person
   who went offline, which `Presence` announces.
5. Proofs: what these modules add, each with its promise.

Of the parts modelled, these details are left out: in `Lifecycle`, statuses a team
configures beyond the system's (a wake status that was deleted falls back to
the default one, which `WakesTo` keeps), and what else a status change does (CSAT,
clocks, events); in `Presence`, the activity clock and the departments' idle limits;
in `Sessions`, changes of authority outside `CommitRoles` (see there), the hash chain
of refresh tokens and the resolver's brand checks.

Hazards of these parts are listed in `PROJECT.json` already, each at its line.
