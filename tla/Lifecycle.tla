----------------------------- MODULE Lifecycle ------------------------------
(***************************************************************************)
(* The status of one ticket, its close date and its snooze (apps/api/src/  *)
(* tickets: tickets.service.ts, status-change.ts, lifecycle, snooze), and  *)
(* the BullMQ jobs that wake it.                                           *)
(*                                                                         *)
(* A request reads the ticket without a lock and decides on what it read;  *)
(* what it writes is one UPDATE by id.  Its step is everything from the    *)
(* row lock to the commit, and what it had read is any row the ticket has  *)
(* been since.  A wake job and an SLA step lock the ticket and then read   *)
(* it.  The planners talk to Redis one command at a time.                  *)
(*                                                                         *)
(* A unit of time is longer than a request, than a worker's transaction    *)
(* and than the second by which a timer may be early.                      *)
(***************************************************************************)
EXTENDS Naturals

CONSTANTS
  Replies,      \* client ids of customers' messages
  Window,       \* reopen policy within_days; 0 is never, a large one always
  SnoozeFor,    \* how long people snooze for
  Workers,      \* slots of the sla consumer
  MaxTime,      \* bound on the time
  Picks,        \* statuses people pick
  MaxAsks,      \* bound on what the staff does to the ticket
  MaxVersion,   \* bound on changes of snoozed_until
  MaxFaults,    \* bound on crashes, failures, lost locks, early promotions and
                \* losses of Redis
  None

ASSUME LifecycleAssumption ==
  /\ Picks \subseteq {"open", "awaiting", "closed", "spam"}
  /\ Window \in Nat /\ SnoozeFor \subseteq Nat \ {0}
  /\ MaxTime \in Nat /\ MaxAsks \in Nat /\ MaxVersion \in Nat /\ MaxFaults \in Nat
  /\ None \notin Nat /\ None \notin Workers
  /\ None \notin {"open", "awaiting", "closed", "spam", "snoozed"}

VARIABLES
  now,
  ticket,    \* the row
  past,      \* the rows it has been in this unit of time: what a request that
             \* is under way may have read
  events,    \* ticket.snoozed rows committed and not yet handled
  job,       \* Redis: the wake job of each version
  hourly,    \* Redis: snooze.rebuild, of the last boot and of its scheduler
  planner,   \* the ticket.snoozed handler, and snooze.rebuild
  worker,    \* processors of ticket.unsnooze
  here,      \* messages of each client id on this ticket, ...
  elsewhere, \* ... and on tickets that continue it
  asks, faults,
  byTime,    \* history: the last change of the row was the time's
  raced      \* history: since the last rebuild, a timer may have been lost

messages == <<here, elsewhere>>
jobs == <<events, job, hourly, planner, worker>>
bounds == <<asks, faults>>
row == <<ticket, past, byTime>>
vars == <<now, row, jobs, messages, bounds, raced>>

Planners == {"event", "rebuild"}
Versions == 0..MaxVersion

-----------------------------------------------------------------------------
(* The ticket row.                                                         *)

Statuses == {"open", "awaiting", "closed", "spam", "snoozed"}

ClosedStatuses == {"closed", "spam"}

(* effectiveSystemState                                                    *)
IsClosed(t) == t.status \in ClosedStatuses /\ t.closed # None

IsSnoozed(t) == t.status = "snoozed" /\ t.until # None

(* Mutant: the trigger leaves the columns of a snooze to whoever writes.   *)
GuardedVersion(old, new) ==
  [new EXCEPT !.version = IF new.until # old.until THEN old.version + 1 ELSE old.version]

(* helpdock_ticket_snooze_guard: another status ends a snooze, and a       *)
(* changed wake time is another version.                                   *)
Guarded(old, new) ==
  LET ends == new.until # None /\ new.status # old.status /\ new.status # "snoozed"
      until == IF ends THEN None ELSE new.until IN
  [new EXCEPT !.until = until,
              !.resume = IF ends THEN None ELSE @,
              !.version = IF until # old.until THEN old.version + 1 ELSE old.version]

(* updateTicket: the columns named are written, the others are left as     *)
(* they are by now, and not as they were read.                             *)
Writes(new, time) ==
  /\ ticket' = Guarded(ticket, new)
  /\ past' = past \union {ticket'}
  /\ byTime' = time

Moved(status, closed) == [ticket EXCEPT !.status = status, !.closed = closed]

(* Mutant: a ticket wakes to the default status.                           *)
WakesToDefault(t) == "open"

(* wakeStatusFor, of a status that still exists.                           *)
WakesTo(t) == IF t.resume \in {"open", "awaiting"} THEN t.resume ELSE "open"

(* WAKE_VALUES and the status.                                             *)
Awake(t) == [ticket EXCEPT !.status = WakesTo(t), !.until = None, !.resume = None]

-----------------------------------------------------------------------------
NoJob == [state |-> "none", at |-> 0, by |-> None]

Delayed(at) == [state |-> "delayed", at |-> at, by |-> None]

Waiting == [NoJob EXCEPT !.state = "waiting"]

NoPlan == [pc |-> "idle", version |-> 0, left |-> 0, saw |-> "none", orphan |-> FALSE]

Idle == [pc |-> "idle", version |-> 0, at |-> 0]

Init ==
  /\ now = 0
  /\ ticket = [status |-> "open", closed |-> None, until |-> None, resume |-> None,
               version |-> 0]
  /\ past = {ticket}
  /\ events = {}
  /\ job = [v \in Versions |-> NoJob]
  /\ hourly = TRUE
  /\ planner = [p \in Planners |-> NoPlan]
  /\ worker = [w \in Workers |-> Idle]
  /\ here = [c \in Replies |-> 0] /\ elsewhere = [c \in Replies |-> 0]
  /\ asks = 0 /\ faults = 0
  /\ byTime = FALSE /\ raced = FALSE

Tick ==
  /\ now < MaxTime
  /\ now' = now + 1
  /\ past' = {ticket}
  /\ UNCHANGED <<ticket, byTime, jobs, messages, bounds, raced>>

-----------------------------------------------------------------------------
(* Requests.  t is the row that was read.  A request that is refused,      *)
(* fails or has nothing to change writes nothing.                          *)

Asked == asks < MaxAsks /\ asks' = asks + 1

(* The status of a PATCH, and marking and unmarking as spam.               *)
SetStatus(t, status) ==
  /\ Asked
  /\ status # t.status
  /\ LET kept == IF t.closed = None THEN now ELSE t.closed IN
     Writes(Moved(status, IF status \in ClosedStatuses THEN kept ELSE None), FALSE)
  /\ UNCHANGED <<now, jobs, messages, faults, raced>>

(* planSnooze and recordSnooze: of a ticket read as snoozed already the    *)
(* close date is not among the columns written.                            *)
Snooze(t, d) ==
  LET put == [ticket EXCEPT !.status = "snoozed", !.until = now + d,
                            !.resume = IF t.until = None THEN t.status ELSE t.resume,
                            !.closed = IF t.status = "snoozed" THEN @ ELSE t.closed] IN
  /\ Asked
  /\ ~IsClosed(t)
  /\ ticket.version + 1 < MaxVersion
  /\ Writes(put, FALSE)
  /\ events' = events \union {[version |-> ticket'.version, until |-> now + d]}
  /\ UNCHANGED <<now, hourly, job, planner, worker, messages, faults, raced>>

(* snoozedUntil: null                                                      *)
WakeNow(t) ==
  /\ Asked
  /\ t.until # None \/ t.status = "snoozed"
  /\ Writes([Awake(t) EXCEPT !.closed = None], FALSE)
  /\ UNCHANGED <<now, jobs, messages, faults, raced>>

(* A public reply of the staff, in a brand whose toggle is on.             *)
AgentReply(t) ==
  /\ Asked
  /\ t.status = "open"
  /\ Writes(Moved("awaiting", None), FALSE)
  /\ UNCHANGED <<now, jobs, messages, faults, raced>>

Known(c) == here[c] + elsewhere[c] > 0

Reopens(t) == now - t.closed < Window

(* Mutant: only this ticket is asked for the client id.                    *)
ReplyContinuesAgain(t, c) ==
  /\ here[c] = 0
  /\ IsClosed(t) /\ ~Reopens(t)
  /\ elsewhere' = [elsewhere EXCEPT ![c] = @ + 1]
  /\ UNCHANGED <<now, row, jobs, here, bounds, raced>>

(* onCustomerReply: the reply lands on a new ticket.                       *)
ReplyContinues(t, c) ==
  /\ ~Known(c)
  /\ IsClosed(t) /\ ~Reopens(t)
  /\ elsewhere' = [elsewhere EXCEPT ![c] = @ + 1]
  /\ UNCHANGED <<now, row, jobs, here, bounds, raced>>

(* It lands here.  A ticket read in the default open status is not moved.  *)
ReplyHere(t, c) ==
  /\ ~Known(c)
  /\ IsClosed(t) => Reopens(t)
  /\ here' = [here EXCEPT ![c] = @ + 1]
  /\ IF t.status = "open" THEN UNCHANGED row ELSE Writes(Moved("open", None), FALSE)
  /\ UNCHANGED <<now, jobs, elsewhere, bounds, raced>>

(* A step of a response clock fires on a snoozed ticket (escalation.ts).   *)
SlaWakes ==
  /\ IsSnoozed(ticket)
  /\ Writes(Awake(ticket), FALSE)
  /\ UNCHANGED <<now, jobs, messages, bounds, raced>>

-----------------------------------------------------------------------------
(* The planners.                                                           *)

Plans(p, plan) == planner' = [planner EXCEPT ![p] = plan]

Left(until) == IF until > now THEN until - now ELSE 0

(* createTicketSnoozedHandler.  The events of a ticket are handled one at  *)
(* a time, but one that failed comes again after later ones.               *)
StartEvent(e) ==
  /\ planner["event"].pc = "idle" /\ e \in events
  /\ Plans("event", [NoPlan EXCEPT !.pc = IF e.version > 1 THEN "old" ELSE "look",
                                   !.version = e.version, !.left = Left(e.until)])
  /\ UNCHANGED <<now, hourly, row, events, job, worker, messages, bounds, raced>>

(* Mutant: on boot only.                                                   *)
StartRebuildOnBoot ==
  /\ planner["rebuild"].pc = "idle" /\ hourly /\ IsSnoozed(ticket) /\ now = 0
  /\ Plans("rebuild", [NoPlan EXCEPT !.pc = IF ticket.until <= now THEN "wake" ELSE "look",
                                     !.version = ticket.version, !.left = Left(ticket.until)])
  /\ raced' = planner["event"].orphan
  /\ UNCHANGED <<now, hourly, row, events, job, worker, messages, bounds>>

(* rebuildSnoozes, on boot and hourly, reads without a lock.  A handler    *)
(* whose event went with Redis may go on, and be stopped half way.         *)
StartRebuild ==
  /\ planner["rebuild"].pc = "idle" /\ hourly /\ IsSnoozed(ticket)
  /\ Plans("rebuild", [NoPlan EXCEPT !.pc = IF ticket.until <= now THEN "wake" ELSE "look",
                                     !.version = ticket.version, !.left = Left(ticket.until)])
  /\ raced' = planner["event"].orphan
  /\ UNCHANGED <<now, hourly, row, events, job, worker, messages, bounds>>

(* What is asked of each version: the one before is removed, this one set. *)
Target(p) == IF planner[p].pc \in {"old", "drop"} THEN planner[p].version - 1
                                                   ELSE planner[p].version

(* getJob and getState.                                                    *)
Look(p) ==
  /\ planner[p].pc \in {"old", "look"}
  /\ Plans(p, [planner[p] EXCEPT !.pc = IF @ = "old" THEN "drop" ELSE "set",
                                 !.saw = job[Target(p)].state])
  /\ UNCHANGED <<now, hourly, row, events, job, worker, messages, bounds, raced>>

(* remove, unless it was running or not there.                             *)
DropOld(p) ==
  LET v == Target(p) IN
  /\ planner[p].pc = "drop"
  /\ job[v].state # "active" \/ planner[p].saw \in {"none", "active"}
  /\ Plans(p, [planner[p] EXCEPT !.pc = "look", !.saw = "none"])
  /\ job' = IF planner[p].saw \in {"none", "active"} THEN job ELSE [job EXCEPT ![v] = NoJob]
  /\ UNCHANGED <<now, hourly, row, events, worker, messages, bounds, raced>>

Forgotten(p) == {e \in events : e.version # planner[p].version}

(* The event is handled, or the rebuild done.                              *)
Ends(p) ==
  /\ Plans(p, NoPlan)
  /\ events' = IF p = "event" THEN Forgotten(p) ELSE events

(* A running job is left alone: its processor asks the ticket.             *)
LeaveAlone(p) ==
  /\ planner[p].pc = "set" /\ planner[p].saw = "active"
  /\ Ends(p)
  /\ UNCHANGED <<now, hourly, row, job, worker, messages, bounds, raced>>

(* changeDelay, of a job that is still delayed.                            *)
ChangeDelay(p) ==
  LET v == planner[p].version IN
  /\ planner[p].pc = "set" /\ planner[p].saw = "delayed"
  /\ job[v].state = "delayed"
  /\ job' = [job EXCEPT ![v] = Delayed(now + planner[p].left)]
  /\ Ends(p)
  /\ UNCHANGED <<now, hourly, row, worker, messages, bounds, raced>>

(* A waiting or failed job is removed first ...                            *)
Replace(p) ==
  LET v == planner[p].version IN
  /\ planner[p].pc = "set" /\ planner[p].saw \in {"waiting", "failed"}
  /\ job[v].state # "active"
  /\ job' = [job EXCEPT ![v] = NoJob]
  /\ Plans(p, [planner[p] EXCEPT !.saw = "none"])
  /\ UNCHANGED <<now, hourly, row, events, worker, messages, bounds, raced>>

(* ... and added; an id that exists is not added again.                    *)
Add(p) ==
  LET v == planner[p].version IN
  /\ planner[p].pc = "set" /\ planner[p].saw = "none"
  /\ job' = IF job[v].state = "none" THEN [job EXCEPT ![v] = Delayed(now + planner[p].left)]
            ELSE job
  /\ Ends(p)
  /\ UNCHANGED <<now, hourly, row, worker, messages, bounds, raced>>

(* A planner that fails is run again, if its job is still in Redis.        *)
Stops(p) ==
  /\ Plans(p, NoPlan)
  /\ events' = IF planner[p].orphan THEN Forgotten(p) ELSE events
  /\ raced' = (raced \/ p = "rebuild")

(* BullMQ refuses to remove a job that runs by now, and to move one that   *)
(* is no longer delayed.                                                   *)
Refused(p) ==
  LET state == job[Target(p)].state IN
  /\ planner[p].saw \in {"delayed", "waiting", "failed"}
  /\ IF planner[p].pc = "set" /\ planner[p].saw = "delayed" THEN state # "delayed"
                                                            ELSE state = "active"
  /\ Stops(p)
  /\ UNCHANGED <<now, hourly, row, job, worker, messages, bounds>>

-----------------------------------------------------------------------------
(* unsnoozeTicket, of a job and of a rebuild that finds the time passed.   *)

Wanted(v) == IsSnoozed(ticket) /\ ticket.version = v

Due(v) == Wanted(v) /\ ticket.until <= now

TimeWakes == Writes(Awake(ticket), TRUE)

(* Mutant: a rebuild trusts what it read.                                  *)
RebuildWakesAny ==
  /\ planner["rebuild"].pc = "wake"
  /\ Plans("rebuild", NoPlan)
  /\ IF IsSnoozed(ticket) THEN TimeWakes ELSE UNCHANGED row
  /\ UNCHANGED <<now, hourly, events, job, worker, messages, bounds, raced>>

RebuildWakes ==
  /\ planner["rebuild"].pc = "wake"
  /\ Plans("rebuild", NoPlan)
  /\ IF Due(planner["rebuild"].version) THEN TimeWakes ELSE UNCHANGED row
  /\ UNCHANGED <<now, hourly, events, job, worker, messages, bounds, raced>>

Works(w, at) == worker' = [worker EXCEPT ![w] = at]

Promote(v) ==
  /\ job[v].state = "delayed" /\ job[v].at <= now
  /\ job' = [job EXCEPT ![v] = Waiting]
  /\ UNCHANGED <<now, hourly, row, events, planner, worker, messages, bounds, raced>>

Take(w, v) ==
  /\ worker[w].pc = "idle" /\ job[v].state = "waiting"
  /\ job' = [job EXCEPT ![v].state = "active", ![v].by = w]
  /\ Works(w, [Idle EXCEPT !.pc = "run", !.version = v])
  /\ UNCHANGED <<now, hourly, row, events, planner, messages, bounds, raced>>

TimerWakes(w) ==
  /\ worker[w].pc = "run" /\ Due(worker[w].version)
  /\ TimeWakes
  /\ Works(w, [worker[w] EXCEPT !.pc = "done"])
  /\ UNCHANGED <<now, hourly, events, job, planner, messages, bounds, raced>>

(* The ticket is awake, or snoozed anew.                                   *)
TimerIsOld(w) ==
  /\ worker[w].pc = "run" /\ ~Wanted(worker[w].version)
  /\ Works(w, [worker[w] EXCEPT !.pc = "done"])
  /\ UNCHANGED <<now, hourly, row, events, job, planner, messages, bounds, raced>>

TimerIsEarly(w) ==
  /\ worker[w].pc = "run" /\ Wanted(worker[w].version) /\ ~Due(worker[w].version)
  /\ Works(w, [worker[w] EXCEPT !.pc = "early", !.at = ticket.until])
  /\ UNCHANGED <<now, hourly, row, events, job, planner, messages, bounds, raced>>

(* The job is removed, or moved to the time that was read, if the worker   *)
(* still holds its lock.                                                   *)
Return(w) ==
  LET v == worker[w].version IN
  /\ worker[w].pc \in {"done", "early"}
  /\ job' = IF job[v].by # w THEN job
            ELSE [job EXCEPT ![v] = IF worker[w].pc = "early" THEN Delayed(worker[w].at)
                                                              ELSE NoJob]
  /\ Works(w, Idle)
  /\ UNCHANGED <<now, hourly, row, events, planner, messages, bounds, raced>>

-----------------------------------------------------------------------------
(* What goes wrong.                                                        *)

Fault == faults < MaxFaults /\ faults' = faults + 1

(* The job is retried, or was tried often enough.                          *)
TimerFails(w, last) ==
  LET v == worker[w].version IN
  /\ Fault
  /\ worker[w].pc = "run"
  /\ job' = IF job[v].by # w THEN job
            ELSE [job EXCEPT ![v] = IF last THEN [NoJob EXCEPT !.state = "failed"]
                                            ELSE Delayed(now)]
  /\ Works(w, Idle)
  /\ UNCHANGED <<now, hourly, row, events, planner, messages, asks, raced>>

CrashWorker(w) ==
  /\ Fault
  /\ worker[w].pc # "idle"
  /\ Works(w, Idle)
  /\ UNCHANGED <<now, hourly, row, events, job, planner, messages, asks, raced>>

Held(v) == worker[job[v].by].pc # "idle" /\ worker[job[v].by].version = v

RequeueStalled(v) ==
  /\ job[v].state = "active" /\ ~Held(v)
  /\ job' = [job EXCEPT ![v] = Waiting]
  /\ UNCHANGED <<now, hourly, row, events, planner, worker, messages, bounds, raced>>

(* A worker that is only slow goes on.                                     *)
LoseJobLock(v) ==
  /\ Fault
  /\ job[v].state = "active" /\ Held(v)
  /\ job' = [job EXCEPT ![v] = Waiting]
  /\ UNCHANGED <<now, hourly, row, events, planner, worker, messages, asks, raced>>

(* By hand, or by a host whose clock is ahead.                             *)
PromoteEarly(v) ==
  /\ Fault
  /\ job[v].state = "delayed" /\ job[v].at > now
  /\ job' = [job EXCEPT ![v] = Waiting]
  /\ UNCHANGED <<now, hourly, row, events, planner, worker, messages, asks, raced>>

(* Mutant: an event is done with when it was begun.                        *)
PlannerGivesUp(p) ==
  /\ Fault
  /\ planner[p].pc # "idle"
  /\ Ends(p)
  /\ raced' = (raced \/ p = "rebuild")
  /\ UNCHANGED <<now, hourly, row, job, worker, messages, asks>>

PlannerFails(p) ==
  /\ Fault
  /\ planner[p].pc # "idle"
  /\ Stops(p)
  /\ UNCHANGED <<now, hourly, row, job, worker, messages, asks>>

(* Redis without its data: the wake jobs go, the events already published  *)
(* and snooze.rebuild with its scheduler.  What runs goes on.              *)
RedisLoss ==
  LET runs == planner["event"].pc # "idle" IN
  /\ Fault
  /\ job' = [v \in Versions |-> NoJob] /\ hourly' = FALSE
  /\ events' \in {left \in SUBSET events : runs => events \ Forgotten("event") \subseteq left}
  /\ planner' = [planner EXCEPT !["event"].orphan = runs]
  /\ raced' = TRUE
  /\ UNCHANGED <<now, row, worker, messages, asks>>

(* A worker process starts: it adds snooze.rebuild and sets the scheduler, *)
(* which nothing else does.  Where both are there, it changes nothing.     *)
Boot ==
  /\ ~hourly /\ hourly' = TRUE
  /\ UNCHANGED <<now, row, events, job, planner, worker, messages, bounds, raced>>

-----------------------------------------------------------------------------
RequestStep(t) ==
  \/ WakeNow(t) \/ AgentReply(t)
  \/ \E status \in Picks : SetStatus(t, status)
  \/ \E d \in SnoozeFor : Snooze(t, d)
  \/ \E c \in Replies : ReplyContinues(t, c) \/ ReplyHere(t, c)

PlannerStep(p) ==
  \/ p = "event" /\ \E e \in events : StartEvent(e)
  \/ p = "rebuild" /\ (StartRebuild \/ RebuildWakes)
  \/ Look(p) \/ DropOld(p) \/ LeaveAlone(p) \/ ChangeDelay(p) \/ Replace(p) \/ Add(p)
  \/ Refused(p)

WorkerStep(w) ==
  \/ \E v \in Versions : Take(w, v)
  \/ TimerWakes(w) \/ TimerIsOld(w) \/ TimerIsEarly(w) \/ Return(w)

Troubles ==
  \/ \E w \in Workers : CrashWorker(w) \/ \E last \in BOOLEAN : TimerFails(w, last)
  \/ \E v \in Versions : LoseJobLock(v) \/ PromoteEarly(v)
  \/ \E p \in Planners : PlannerFails(p)
  \/ RedisLoss

Next ==
  \/ Tick \/ SlaWakes
  \/ \E t \in past : RequestStep(t)
  \/ \E p \in Planners : PlannerStep(p)
  \/ \E w \in Workers : WorkerStep(w)
  \/ \E v \in Versions : Promote(v) \/ RequeueStalled(v)
  \/ Boot \/ Troubles

Spec == Init /\ [][Next]_vars

(* Workers and planners go on, BullMQ promotes and requeues, the rebuild   *)
(* comes again as long as Redis has its scheduler.  No request, change of  *)
(* time, fault or start of a worker is forced.                             *)
Fairness ==
  /\ \A p \in Planners : WF_vars(PlannerStep(p))
  /\ \A w \in Workers : WF_vars(WorkerStep(w))
  /\ WF_vars(\E v \in Versions : Promote(v) \/ RequeueStalled(v))

FairSpec == Spec /\ Fairness

-----------------------------------------------------------------------------
(* The parts of the inductive invariant.                                   *)

Consistent(t) ==
  /\ t.status = "snoozed" <=> t.until # None
  /\ t.until # None <=> t.resume # None
  /\ t.status \in ClosedStatuses => t.closed # None

(* What requests may have read is consistent, too; a snooze has a version  *)
(* left to end with.                                                       *)
RowInv ==
  /\ ticket \in past
  /\ \A t \in past : Consistent(t)
  /\ ticket.until # None => ticket.version < MaxVersion

(* The handler has its event until it is done with it.                     *)
PlanInv ==
  /\ \A p \in Planners : planner[p].pc \in {"old", "drop"} =>
       p = "event" /\ planner[p].version > 1
  /\ planner["event"].pc # "wake"
  /\ planner["event"].pc # "idle" =>
       \E e \in events : e.version = planner["event"].version

(* A handler whose event went with Redis has lost timers beside it.        *)
OrphanInv ==
  /\ planner["event"].orphan => raced /\ planner["event"].pc # "idle"
  /\ ~planner["rebuild"].orphan

(* Versions only grow, and nothing is of a version still to come.          *)
BoundInv ==
  /\ \A e \in events : e.version <= ticket.version
  /\ \A p \in Planners : planner[p].version <= ticket.version
  /\ \A w \in Workers : worker[w].version <= ticket.version
  /\ \A v \in Versions : job[v].state # "none" => v <= ticket.version

(* A worker is done with a version that is over, ...                       *)
DoneInv ==
  \A w \in Workers : worker[w].pc = "done" => ~Wanted(worker[w].version)

(* ... and a rebuild wakes one whose time has come.                        *)
DueInv ==
  LET plan == planner["rebuild"] IN
  plan.pc = "wake" /\ Wanted(plan.version) => ticket.until <= now

(* The rebuild has still to look at a version, or to add its job.          *)
Sees(v) ==
  LET plan == planner["rebuild"] IN
  /\ plan.version = v
  /\ plan.pc \in {"look", "wake"} \/ (plan.pc = "set" /\ plan.saw = "none")

(* A job the handler leaves alone does not go while its snooze lasts.      *)
LeftAloneInv ==
  LET plan == planner["event"] IN
  ~raced /\ plan.pc = "set" /\ plan.saw = "active" /\ Wanted(plan.version) =>
    job[plan.version].state # "none" \/ Sees(plan.version)

(* A snooze has its job, or somebody has still to add it.                  *)
TimerInv ==
  ~raced /\ IsSnoozed(ticket) =>
    \/ job[ticket.version].state # "none" \/ Sees(ticket.version)
    \/ \E e \in events : e.version = ticket.version

-----------------------------------------------------------------------------
(* Properties.                                                             *)

Times == Nat \union {None}

TicketType ==
  [status : Statuses, closed : Times, until : Times,
   resume : {"open", "awaiting", None}, version : Versions]

JobStates == {"none", "delayed", "waiting", "active", "failed"}

TypeOK ==
  /\ now \in 0..MaxTime
  /\ ticket \in TicketType
  /\ past \subseteq TicketType
  /\ events \subseteq [version : Versions, until : Nat]
  /\ job \in [Versions -> [state : JobStates, at : Nat, by : Workers \union {None}]]
  /\ hourly \in BOOLEAN
  /\ planner \in [Planners -> [pc : {"idle", "old", "drop", "look", "set", "wake"},
                               version : Versions, left : Nat, saw : JobStates,
                               orphan : BOOLEAN]]
  /\ worker \in [Workers -> [pc : {"idle", "run", "early", "done"}, version : Versions,
                             at : Nat]]
  /\ here \in [Replies -> Nat] /\ elsewhere \in [Replies -> Nat]
  /\ asks \in 0..MaxAsks /\ faults \in 0..MaxFaults
  /\ byTime \in BOOLEAN /\ raced \in BOOLEAN

(* "A ticket is in Snoozed exactly when snoozed_until is set" (migration   *)
(* 0064), and remembers a status to wake to, whichever requests decided on *)
(* a row that had changed since; and one in a closed status has the date   *)
(* the reopen policy counts from.                                          *)
RowIsConsistent == Consistent(ticket)

(* A reply sent again is stored once, on this ticket or on one that        *)
(* continues it, however the ticket was closed, reopened or snoozed in     *)
(* between (DOMAIN-RULES 7).                                               *)
EachReplyOnce == \A c \in Replies : here[c] + elsewhere[c] <= 1

(* "The customer reply always wakes" (DOMAIN-RULES 2.2): a ticket a        *)
(* customer's reply lands on is not put away when the reply is stored.     *)
CustomerReplyAlwaysWakes ==
  [][\A c \in Replies : here'[c] > here[c] => ~IsSnoozed(ticket')]_vars

(* The time wakes a ticket that is snoozed and whose time has come, and no *)
(* timer or rebuild of an older snooze ends a newer one.                   *)
WakesOnlyWhenDue ==
  [][ticket' # ticket /\ byTime' => IsSnoozed(ticket) /\ ticket.until <= now]_vars

(* The planners and the workers are at rest.                               *)
Quiet ==
  /\ events = {}
  /\ \A p \in Planners : planner[p].pc = "idle"
  /\ \A w \in Workers : worker[w].pc = "idle"

(* Once all is quiet the snooze a ticket is in has its job, unless it went *)
(* with Redis or a rebuild stopped half way, which the next one mends.     *)
TimerInPlace ==
  Quiet /\ ~raced /\ IsSnoozed(ticket) => job[ticket.version].state # "none"

Overdue == IsSnoozed(ticket) /\ ticket.until <= now

(* A snooze whose time has come ends, through every race and fault.  After *)
(* a loss of Redis that is so once a worker has booted, and not before.    *)
SnoozesEnd == Overdue /\ hourly ~> ~Overdue \/ ~hourly

(* The row is one of SnoozedTicket: a decision on a row that has changed   *)
(* since is a move like another, and jobs and events are no steps of it.   *)
Promised == INSTANCE SnoozedTicket
              WITH status <- ticket.status, until <- ticket.until, resume <- ticket.resume,
                   stored <- [c \in Replies |-> here[c] + elsewhere[c]]

ImplementsSnoozedTicket == Promised!Spec
=============================================================================
