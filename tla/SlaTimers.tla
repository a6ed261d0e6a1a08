----------------------------- MODULE SlaTimers ------------------------------
(***************************************************************************)
(* One SLA clock of one ticket and the BullMQ jobs that act on it          *)
(* (apps/api/src/sla): clock.ts is its arithmetic, sla.service.ts changes  *)
(* it, sla-timers.ts and sla-worker.ts keep a delayed job per step in line *)
(* with it, and escalation.ts is what a job does when it runs.             *)
(*                                                                         *)
(* Every transaction that touches the clock holds the ticket's row lock,   *)
(* so each is one step.  What lies between them is not: a request looks at *)
(* the time before it waits for that lock, a planner reads the clock       *)
(* without it and then sends Redis one command at a time, and a worker     *)
(* moves or ends its job after its transaction has committed.              *)
(*                                                                         *)
(* Time is counted in units of a calendar that is always open, and the     *)
(* second a timer may be early is less than a unit.                        *)
(***************************************************************************)
EXTENDS Naturals, FiniteSets

CONSTANTS
  Steps,       \* atPercent of the policy's steps, and the breach
  Targets,     \* targets a policy may give the clock, ...
  FirstTarget, \* ... and that of the policy the ticket starts under
  Workers,     \* slots of the sla consumer
  MaxLag,      \* bound on the time a request waits for the lock
  MaxTime,     \* bound on the time
  MaxChanges,  \* bound on what people do to the ticket
  MaxFaults,   \* bound on crashes, lost locks, failures and losses of Redis
  None         \* no worker, no step

Breach == 100   \* SLA_BREACH_PERCENT

ASSUME SlaTimersAssumption ==
  /\ Steps \subseteq Nat \ {0} /\ Breach \in Steps
  /\ Targets \subseteq Nat \ {0} /\ FirstTarget \in Targets
  /\ None \notin Workers /\ None \notin Steps
  /\ MaxLag \in Nat /\ MaxTime \in Nat /\ MaxChanges \in Nat /\ MaxFaults \in Nat

VARIABLES
  now,
  clock,     \* the current row of ticket_sla_clocks
  events,    \* sla.schedule rows committed and not yet handled
  job,       \* Redis: the job of each step
  hourly,    \* Redis: sla.rebuild, of the last boot and of its scheduler
  planner,   \* the sla.schedule handler, and sla.rebuild
  worker,    \* processors of sla.timer
  changes, faults,
  consumed,  \* history: units that passed while the clock was counting, and
             \* those the stamps of its changes reach back
  ran,       \* history: how often each step ran for this clock
  raced      \* history: since the last rebuild, something may have lost a timer

counters == <<changes, faults>>
vars == <<now, clock, events, job, hourly, planner, worker, counters, consumed, ran, raced>>

Planners == {"schedule", "rebuild"}

-----------------------------------------------------------------------------
(* clock.ts and the part of ticket-clocks.ts for a ticket that is open and *)
(* has a policy.                                                           *)

NewClock(target, at) ==
  [run |-> "counting", started |-> at, elapsed |-> 0, since |-> at, target |-> target,
   breached |-> "no", fired |-> {}]

Running(c) == c.run # "ended"

Counting(c) == c.run = "counting"

ElapsedAt(c, at) ==
  c.elapsed + (IF Counting(c) /\ at > c.since THEN at - c.since ELSE 0)

Threshold(c, s) == (c.target * s) \div 100

(* timeOfPercent: a threshold already passed is due at the checkpoint.     *)
FireAt(c, s) ==
  c.since + (IF Threshold(c, s) > c.elapsed THEN Threshold(c, s) - c.elapsed ELSE 0)

Checkpoint(c, at) ==
  IF Counting(c) /\ at > c.since
  THEN [c EXCEPT !.elapsed = ElapsedAt(c, at), !.since = at]
  ELSE c

Pause(c, at) ==
  IF Counting(c) THEN [Checkpoint(c, at) EXCEPT !.run = "paused"] ELSE c

(* Mutant: the clock resumes from the checkpoint it was paused at.         *)
ResumeFromPause(c, at) ==
  IF c.run = "paused" THEN [c EXCEPT !.run = "counting"] ELSE c

Resume(c, at) ==
  IF c.run = "paused" THEN [c EXCEPT !.run = "counting", !.since = at] ELSE c

(* Mutant: a target not used up yet takes a breach back.                   *)
RetargetAfresh(c, target, at) ==
  LET counted == [Checkpoint(c, at) EXCEPT !.target = target] IN
  IF ~Running(c) THEN c
  ELSE [counted EXCEPT !.breached = IF counted.elapsed >= target THEN "change" ELSE "no"]

(* A target already used up is a breach, recorded at the change.           *)
Retarget(c, target, at) ==
  LET counted == [Checkpoint(c, at) EXCEPT !.target = target] IN
  IF ~Running(c) THEN c
  ELSE IF counted.breached = "no" /\ counted.elapsed >= target
       THEN [counted EXCEPT !.breached = "change"]
       ELSE counted

(* reconcileClocks                                                         *)
Reconcile(c, pauses, target, at) ==
  LET counted == Checkpoint(c, at)
      aimed == IF target # c.target THEN Retarget(counted, target, at) ELSE counted
  IN IF pauses THEN Pause(aimed, at) ELSE Resume(aimed, at)

(* satisfy: met late, with a breach timer that has not run, is a breach.   *)
Satisfy(c, at) ==
  LET counted == Checkpoint(c, at) IN
  [counted EXCEPT !.run = "ended",
                  !.breached = IF @ = "no" /\ counted.elapsed > c.target THEN "timer" ELSE @]

(* stop: it ends with no verdict.                                          *)
Stop(c, at) == [Checkpoint(c, at) EXCEPT !.run = "ended"]

Done(c, s) == s \in c.fired \/ (s = Breach /\ c.breached # "no")

(* What planTimers wants a job for, and what fireSlaTimer runs.            *)
Wanted(c, s) == Counting(c) /\ ~Done(c, s)

-----------------------------------------------------------------------------
NoJob == [state |-> "none", at |-> 0, due |-> 0, by |-> None]

Delayed(at, due) == [state |-> "delayed", at |-> at, due |-> due, by |-> None]

NoPlan == [pc |-> "idle", now |-> 0, wanted |-> {}, due |-> [s \in Steps |-> 0],
           todo |-> {}, step |-> None, saw |-> "none", orphan |-> FALSE]

Idle == [pc |-> "idle", step |-> None, now |-> 0, fireAt |-> 0]

Init ==
  /\ now = 0
  /\ clock = NewClock(FirstTarget, 0)
  /\ events = 1
  /\ job = [s \in Steps |-> NoJob]
  /\ hourly = TRUE
  /\ planner = [p \in Planners |-> NoPlan]
  /\ worker = [w \in Workers |-> Idle]
  /\ changes = 0 /\ faults = 0
  /\ consumed = 0
  /\ ran = [s \in Steps |-> 0]
  /\ raced = FALSE

Tick ==
  /\ now < MaxTime
  /\ now' = now + 1
  /\ consumed' = IF Counting(clock) THEN consumed + 1 ELSE consumed
  /\ UNCHANGED <<clock, events, job, hourly, planner, worker, counters, ran, raced>>

-----------------------------------------------------------------------------
(* SlaService: the clock follows the ticket.                               *)

(* #write: a clock that changed is saved with one sla.schedule row.        *)
Write(before, after) ==
  /\ clock' = after
  /\ events' = IF after # before THEN events + 1 ELSE events
  /\ raced' = (raced \/ (after # before /\ planner["rebuild"].pc # "idle"))

PersonActs == changes < MaxChanges /\ changes' = changes + 1

(* The times a request that now has the lock may have begun at.            *)
Stamps == {t \in 0..now : now <= t + MaxLag}

(* sync: the status, the priority, the department or the policy moved.     *)
Sync(pauses, target, at) ==
  LET after == Reconcile(clock, pauses, target, at) IN
  /\ PersonActs
  /\ Running(clock)
  /\ after # clock
  /\ Write(clock, after)
  /\ consumed' = IF Counting(after) /\ ~Counting(clock) THEN consumed + (now - at)
                 ELSE consumed
  /\ UNCHANGED <<now, hourly, job, planner, worker, faults, ran>>

(* The ticket is closed or answered, and the clock met; or it is closed    *)
(* before its response, or as spam, and there is no verdict.               *)
Close(at) ==
  /\ PersonActs
  /\ Running(clock)
  /\ \E ended \in {Satisfy(clock, at), Stop(clock, at)} : Write(clock, ended)
  /\ UNCHANGED <<now, hourly, job, planner, worker, faults, consumed, ran>>

(* reopen: another row becomes the current one; its jobs have the same ids.*)
Reopen(target, at) ==
  /\ PersonActs
  /\ ~Running(clock)
  /\ Write(clock, NewClock(target, at))
  /\ consumed' = now - at
  /\ ran' = [s \in Steps |-> 0]
  /\ UNCHANGED <<now, hourly, job, planner, worker, faults>>

-----------------------------------------------------------------------------
(* scheduleTickets: one read of the clock, then the jobs one by one.       *)

Plans(p, plan) == planner' = [planner EXCEPT ![p] = plan]

(* planTimers: the steps to have a job, and when.                          *)
Reads ==
  LET wanted == {s \in Steps : Wanted(clock, s)} IN
  [pc |-> "next", now |-> now, wanted |-> wanted,
   due |-> [s \in Steps |-> IF s \in wanted THEN FireAt(clock, s) ELSE 0],
   todo |-> Steps, step |-> None, saw |-> "none", orphan |-> FALSE]

(* The handler of sla.schedule; the events of a ticket are handled one at  *)
(* a time.                                                                 *)
StartSchedule ==
  /\ planner["schedule"].pc = "idle" /\ events > 0
  /\ Plans("schedule", Reads)
  /\ UNCHANGED <<now, hourly, clock, events, job, worker, counters, consumed, ran, raced>>

(* Mutant: on boot only.                                                   *)
StartRebuildOnBoot ==
  /\ planner["rebuild"].pc = "idle" /\ hourly /\ Running(clock) /\ now = 0
  /\ Plans("rebuild", Reads)
  /\ raced' = planner["schedule"].orphan
  /\ UNCHANGED <<now, hourly, clock, events, job, worker, counters, consumed, ran>>

(* sla.rebuild, on boot and hourly: every ticket with a running clock.  A  *)
(* handler whose event went with Redis may go on with an older plan.       *)
StartRebuild ==
  /\ planner["rebuild"].pc = "idle" /\ hourly /\ Running(clock)
  /\ Plans("rebuild", Reads)
  /\ raced' = planner["schedule"].orphan
  /\ UNCHANGED <<now, hourly, clock, events, job, worker, counters, consumed, ran>>

(* What is not wanted is removed before what is wanted is added, each in   *)
(* the order of the percents.                                              *)
Turn(plan, s) ==
  /\ s \in plan.todo
  /\ s \in plan.wanted => plan.todo \subseteq plan.wanted
  /\ \A t \in plan.todo : (t \in plan.wanted <=> s \in plan.wanted) => s <= t

(* getJob and getState.                                                    *)
Look(p, s) ==
  /\ planner[p].pc = "next" /\ Turn(planner[p], s)
  /\ Plans(p, [planner[p] EXCEPT !.pc = "act", !.step = s, !.saw = job[s].state])
  /\ UNCHANGED <<now, hourly, clock, events, job, worker, counters, consumed, ran, raced>>

Handled(p) ==
  LET s == planner[p].step IN
  Plans(p, [planner[p] EXCEPT !.pc = "next", !.todo = @ \ {s}, !.wanted = @ \ {s},
                              !.due[s] = 0, !.step = None, !.saw = "none"])

(* A running job is left alone, and there is nothing to remove where there *)
(* is no job.                                                              *)
LeaveAlone(p) ==
  LET s == planner[p].step
      wanted == s \in planner[p].wanted IN
  /\ planner[p].pc = "act"
  /\ planner[p].saw = "active" \/ (planner[p].saw = "none" /\ ~wanted)
  /\ Handled(p)
  /\ raced' = (raced \/ wanted)
  /\ UNCHANGED <<now, hourly, clock, events, job, worker, counters, consumed, ran>>

(* The delay was computed against the time the plan was made at, and       *)
(* counts from now.                                                        *)
Until(plan, s) ==
  Delayed(now + (IF plan.due[s] > plan.now THEN plan.due[s] - plan.now ELSE 0),
          plan.due[s])

(* queue.add: an id that exists is not added again.                        *)
AddTimer(p) ==
  LET s == planner[p].step IN
  /\ planner[p].pc = "act" /\ planner[p].saw = "none" /\ s \in planner[p].wanted
  /\ job' = IF job[s].state = "none" THEN [job EXCEPT ![s] = Until(planner[p], s)] ELSE job
  /\ Handled(p)
  /\ UNCHANGED <<now, hourly, clock, events, worker, counters, consumed, ran, raced>>

(* Mutant: a job that is delayed already is taken to be the right one.     *)
KeepDelay(p) ==
  LET s == planner[p].step IN
  /\ planner[p].pc = "act" /\ planner[p].saw = "delayed" /\ s \in planner[p].wanted
  /\ job[s].state = "delayed"
  /\ Handled(p)
  /\ UNCHANGED <<now, hourly, clock, events, job, worker, counters, consumed, ran, raced>>

(* changeDelay, of a job that is still delayed.                            *)
ChangeDelay(p) ==
  LET s == planner[p].step IN
  /\ planner[p].pc = "act" /\ planner[p].saw = "delayed" /\ s \in planner[p].wanted
  /\ job[s].state = "delayed"
  /\ job' = [job EXCEPT ![s] = Until(planner[p], s)]
  /\ Handled(p)
  /\ UNCHANGED <<now, hourly, clock, events, worker, counters, consumed, ran, raced>>

(* remove, of what is not wanted or in another state; the latter is added  *)
(* anew.                                                                   *)
RemoveTimer(p) ==
  LET s == planner[p].step
      wanted == s \in planner[p].wanted IN
  /\ planner[p].pc = "act"
  /\ planner[p].saw \in {"waiting", "failed"} \/ (planner[p].saw = "delayed" /\ ~wanted)
  /\ job[s].state # "active"
  /\ job' = [job EXCEPT ![s] = NoJob]
  /\ IF wanted THEN Plans(p, [planner[p] EXCEPT !.saw = "none"]) ELSE Handled(p)
  /\ UNCHANGED <<now, hourly, clock, events, worker, counters, consumed, ran, raced>>

(* A planner that fails is run again, if its job is still in Redis.        *)
Stops(p) ==
  /\ Plans(p, NoPlan)
  /\ events' = IF planner[p].orphan THEN events - 1 ELSE events
  /\ raced' = (raced \/ p = "rebuild")

(* BullMQ refuses to move a job that is no longer delayed and to remove    *)
(* one that is running: the planner throws, and its own job is retried.    *)
Refused(p) ==
  LET s == planner[p].step
      moves == planner[p].saw = "delayed" /\ s \in planner[p].wanted IN
  /\ planner[p].pc = "act" /\ planner[p].saw \in {"delayed", "waiting", "failed"}
  /\ IF moves THEN job[s].state # "delayed" ELSE job[s].state = "active"
  /\ Stops(p)
  /\ UNCHANGED <<now, hourly, clock, job, worker, counters, consumed, ran>>

FinishPlan(p) ==
  /\ planner[p].pc = "next" /\ planner[p].todo = {}
  /\ Plans(p, NoPlan)
  /\ events' = IF p = "schedule" THEN events - 1 ELSE events
  /\ UNCHANGED <<now, hourly, clock, job, worker, counters, consumed, ran, raced>>

-----------------------------------------------------------------------------
(* fireSlaTimer and its processor.                                         *)

Works(w, at) == worker' = [worker EXCEPT ![w] = at]

Ends(w) == Works(w, [Idle EXCEPT !.pc = "done", !.step = worker[w].step])

Promote(s) ==
  /\ job[s].state = "delayed" /\ job[s].at <= now
  /\ job' = [job EXCEPT ![s].state = "waiting"]
  /\ UNCHANGED <<now, clock, events, hourly, planner, worker, counters, consumed, ran, raced>>

(* The processor looks at the time before its transaction begins.          *)
Take(w, s) ==
  /\ worker[w].pc = "idle" /\ job[s].state = "waiting"
  /\ job' = [job EXCEPT ![s].state = "active", ![s].by = w]
  /\ Works(w, [Idle EXCEPT !.pc = "run", !.step = s, !.now = now])
  /\ UNCHANGED <<now, hourly, clock, events, planner, counters, consumed, ran, raced>>

(* A clock that is not counting, or a step that is done, ends the job.     *)
TimerDone(w) ==
  /\ worker[w].pc = "run" /\ ~Wanted(clock, worker[w].step)
  /\ Ends(w)
  /\ UNCHANGED <<now, hourly, clock, events, job, planner, counters, consumed, ran, raced>>

TimerEarly(w) ==
  LET due == FireAt(clock, worker[w].step) IN
  /\ worker[w].pc = "run" /\ Wanted(clock, worker[w].step) /\ due > worker[w].now
  /\ Works(w, [Idle EXCEPT !.pc = "early", !.step = worker[w].step, !.fireAt = due])
  /\ UNCHANGED <<now, hourly, clock, events, job, planner, counters, consumed, ran, raced>>

MarkFired(c, s) ==
  [c EXCEPT !.fired = @ \union {s},
            !.breached = IF @ = "no" /\ s >= Breach THEN "timer" ELSE @]

(* Mutant: only the clock is asked, not the step.                          *)
FireAgain(w, pauses, target) ==
  LET s == worker[w].step
      fired == MarkFired(clock, s) IN
  /\ worker[w].pc = "run" /\ Counting(clock) /\ FireAt(clock, s) <= worker[w].now
  /\ Write(fired, Reconcile(fired, pauses, target, worker[w].now))
  /\ ran' = [ran EXCEPT ![s] = @ + 1]
  /\ Ends(w)
  /\ UNCHANGED <<now, hourly, job, planner, counters, consumed>>

(* Mutant: a job that runs is taken to be due.                             *)
FireUnasked(w, pauses, target) ==
  LET s == worker[w].step
      fired == MarkFired(clock, s) IN
  /\ worker[w].pc = "run" /\ Wanted(clock, s)
  /\ Write(fired, Reconcile(fired, pauses, target, worker[w].now))
  /\ ran' = [ran EXCEPT ![s] = @ + 1]
  /\ Ends(w)
  /\ UNCHANGED <<now, hourly, job, planner, counters, consumed>>

(* The step runs: it is marked, a breach recorded, and the clock follows   *)
(* what its actions make of the priority and the status.                   *)
Fire(w, pauses, target) ==
  LET s == worker[w].step
      fired == MarkFired(clock, s) IN
  /\ worker[w].pc = "run" /\ Wanted(clock, s) /\ FireAt(clock, s) <= worker[w].now
  /\ Write(fired, Reconcile(fired, pauses, target, worker[w].now))
  /\ ran' = [ran EXCEPT ![s] = @ + 1]
  /\ Ends(w)
  /\ UNCHANGED <<now, hourly, job, planner, counters, consumed>>

Owns(w) == job[worker[w].step].by = w

(* removeOnComplete                                                        *)
Complete(w) ==
  /\ worker[w].pc = "done" /\ Owns(w)
  /\ job' = [job EXCEPT ![worker[w].step] = NoJob]
  /\ Works(w, Idle)
  /\ UNCHANGED <<now, hourly, clock, events, planner, counters, consumed, ran, raced>>

(* moveToDelayed, to the time that was read in the transaction.            *)
MoveToDelayed(w) ==
  /\ worker[w].pc = "early" /\ Owns(w)
  /\ job' = [job EXCEPT ![worker[w].step] = Delayed(worker[w].fireAt, worker[w].fireAt)]
  /\ Works(w, Idle)
  /\ UNCHANGED <<now, hourly, clock, events, planner, counters, consumed, ran, raced>>

(* Only the holder of a job's lock may end or move it.                     *)
NotTheOwner(w) ==
  /\ worker[w].pc \in {"done", "early"} /\ ~Owns(w)
  /\ Works(w, Idle)
  /\ UNCHANGED <<now, hourly, clock, events, job, planner, counters, consumed, ran, raced>>

-----------------------------------------------------------------------------
(* What goes wrong.                                                        *)

Fault == faults < MaxFaults /\ faults' = faults + 1

(* The transaction fails: the job is retried, unless it was its last       *)
(* attempt.                                                                *)
TimerFails(w, last) ==
  LET s == worker[w].step IN
  /\ Fault
  /\ worker[w].pc = "run"
  /\ job' = IF ~Owns(w) THEN job
            ELSE [job EXCEPT ![s] = [Delayed(now, @.due) EXCEPT
                                       !.state = IF last THEN "failed" ELSE "delayed"]]
  /\ Works(w, Idle)
  /\ UNCHANGED <<now, hourly, clock, events, planner, changes, consumed, ran, raced>>

CrashWorker(w) ==
  /\ Fault
  /\ worker[w].pc # "idle"
  /\ Works(w, Idle)
  /\ UNCHANGED <<now, hourly, clock, events, job, planner, changes, consumed, ran, raced>>

(* A job whose worker is gone is stalled and given to another; ...         *)
RequeueStalled(s) ==
  /\ job[s].state = "active" /\ worker[job[s].by].step # s
  /\ job' = [job EXCEPT ![s].state = "waiting", ![s].by = None]
  /\ UNCHANGED <<now, clock, events, hourly, planner, worker, counters, consumed, ran, raced>>

(* ... one whose worker is only slow, too, and that worker goes on.        *)
LoseJobLock(s) ==
  /\ Fault
  /\ job[s].state = "active" /\ worker[job[s].by].step = s
  /\ job' = [job EXCEPT ![s].state = "waiting", ![s].by = None]
  /\ UNCHANGED <<now, hourly, clock, events, planner, worker, changes, consumed, ran, raced>>

PlannerFails(p) ==
  /\ Fault
  /\ planner[p].pc # "idle"
  /\ Stops(p)
  /\ UNCHANGED <<now, hourly, clock, job, worker, changes, consumed, ran>>

(* Redis without its data: the timers go, the events already published and *)
(* sla.rebuild with its scheduler.  What runs goes on.                     *)
RedisLoss ==
  LET runs == planner["schedule"].pc # "idle" IN
  /\ Fault
  /\ job' = [s \in Steps |-> NoJob] /\ hourly' = FALSE
  /\ events' \in (IF runs THEN 1 ELSE 0)..events
  /\ planner' = [planner EXCEPT !["schedule"].orphan = runs]
  /\ raced' = TRUE
  /\ UNCHANGED <<now, clock, worker, changes, consumed, ran>>

(* A worker process starts: it adds sla.rebuild and sets the scheduler,    *)
(* which nothing else does.  Where both are there, it changes nothing.     *)
Boot ==
  /\ ~hourly /\ hourly' = TRUE
  /\ UNCHANGED <<now, clock, events, job, planner, worker, counters, consumed, ran, raced>>

-----------------------------------------------------------------------------
PlannerStep(p) ==
  \/ p = "schedule" /\ StartSchedule
  \/ p = "rebuild" /\ StartRebuild
  \/ \E s \in Steps : Look(p, s)
  \/ LeaveAlone(p) \/ AddTimer(p) \/ ChangeDelay(p) \/ RemoveTimer(p)
  \/ Refused(p) \/ FinishPlan(p)

WorkerStep(w) ==
  \/ \E s \in Steps : Take(w, s)
  \/ TimerDone(w) \/ TimerEarly(w)
  \/ \E pauses \in BOOLEAN, t \in Targets : Fire(w, pauses, t)
  \/ Complete(w) \/ MoveToDelayed(w) \/ NotTheOwner(w)

Troubles ==
  \/ \E w \in Workers : CrashWorker(w) \/ \E last \in BOOLEAN : TimerFails(w, last)
  \/ \E s \in Steps : LoseJobLock(s)
  \/ \E p \in Planners : PlannerFails(p)
  \/ RedisLoss

Next ==
  \/ Tick
  \/ \E at \in Stamps :
       \/ \E pauses \in BOOLEAN, t \in Targets : Sync(pauses, t, at)
       \/ Close(at)
       \/ \E t \in Targets : Reopen(t, at)
  \/ \E p \in Planners : PlannerStep(p)
  \/ \E w \in Workers : WorkerStep(w)
  \/ \E s \in Steps : Promote(s) \/ RequeueStalled(s)
  \/ Boot \/ Troubles

Spec == Init /\ [][Next]_vars

(* Workers and planners run, BullMQ promotes and requeues, and the rebuild *)
(* comes again as long as Redis has its scheduler; nobody has to start a   *)
(* worker.  A rebuild replaces a job that waits, but an hour lies between  *)
(* two of them: a job that is due again and again is promoted and taken.   *)
Fairness ==
  /\ \A p \in Planners : WF_vars(PlannerStep(p))
  /\ \A w \in Workers : WF_vars(WorkerStep(w))
  /\ \A s \in Steps :
       /\ SF_vars(Promote(s)) /\ WF_vars(RequeueStalled(s))
       /\ SF_vars(\E w \in Workers : Take(w, s))

FairSpec == Spec /\ Fairness

-----------------------------------------------------------------------------
(* The parts of the inductive invariant.                                   *)

(* A job runs just while a worker holds it.                                *)
JobInv == \A s \in Steps : job[s].state = "active" <=> job[s].by # None

(* A planner acts on a step, and a handler of sla.schedule has an event.   *)
PlanInv ==
  /\ \A p \in Planners : planner[p].pc = "act" => planner[p].step \in Steps
  /\ planner["schedule"].pc # "idle" => events > 0

(* A worker's time lies in the past.                                       *)
WorkerInv ==
  \A w \in Workers :
    worker[w].pc # "idle" => worker[w].step \in Steps /\ worker[w].now <= now

(* A step that is not marked has not run.                                  *)
RanInv == \A s \in Steps : ran[s] <= IF s \in clock.fired THEN 1 ELSE 0

(* A change of the clock is still to be planned from.                      *)
Ahead == events > IF planner["schedule"].pc = "idle" THEN 0 ELSE 1

(* A plan that wants what the clock wants of the steps it has left.        *)
Fresh(p) ==
  \A s \in planner[p].todo :
    Wanted(clock, s) => s \in planner[p].wanted /\ planner[p].due[s] = FireAt(clock, s)

(* A handler whose event went with Redis has lost timers beside it.        *)
OrphanInv ==
  /\ planner["schedule"].orphan => raced /\ planner["schedule"].pc # "idle"
  /\ ~planner["rebuild"].orphan

(* A plan goes on with a step until that is handled; the last event's plan *)
(* and a rebuild nothing came between are those of the clock as it is.     *)
FreshInv ==
  /\ OrphanInv
  /\ \A p \in Planners : planner[p].pc = "act" => planner[p].step \in planner[p].todo
  /\ planner["schedule"].pc # "idle" /\ ~planner["schedule"].orphan /\ ~Ahead =>
       Fresh("schedule")
  /\ planner["rebuild"].pc # "idle" /\ ~raced => Fresh("rebuild")

(* The planner has still to look at the job of s, or what it saw makes it  *)
(* set or add the job, or give up.                                         *)
Mends(p, s) ==
  /\ planner[p].pc # "idle" /\ s \in planner[p].todo
  /\ planner[p].pc = "act" /\ planner[p].step = s =>
       planner[p].saw # "none" \/ job[s].state = "none"

(* The job of s is there, set as the clock has it, and no worker will end  *)
(* it or move it to another time.                                          *)
Kept(s) ==
  /\ job[s].state # "none"
  /\ FireAt(clock, s) > now => job[s].due = FireAt(clock, s)
  /\ \A w \in Workers :
       worker[w].step = s /\ job[s].by = w =>
         /\ worker[w].pc # "done"
         /\ worker[w].pc = "early" => worker[w].fireAt = FireAt(clock, s)

(* A step that lies ahead has its timer, or will be given it.              *)
TimerInv ==
  ~raced /\ ~Ahead =>
    \A s \in Steps : Wanted(clock, s) => Kept(s) \/ \E p \in Planners : Mends(p, s)

-----------------------------------------------------------------------------
(* Properties.                                                             *)

JobStates == {"none", "delayed", "waiting", "active", "failed"}

ClockType ==
  [run : {"counting", "paused", "ended"}, started : Nat, elapsed : Nat, since : Nat, target : Nat,
   breached : {"no", "timer", "change"}, fired : SUBSET Steps]

JobType ==
  [state : JobStates, at : Nat, due : Nat, by : Workers \union {None}]

PlanType ==
  [pc : {"idle", "next", "act"}, now : Nat, wanted : SUBSET Steps,
   due : [Steps -> Nat], todo : SUBSET Steps, step : Steps \union {None},
   saw : JobStates, orphan : BOOLEAN]

WorkerType ==
  [pc : {"idle", "run", "early", "done"}, step : Steps \union {None}, now : Nat,
   fireAt : Nat]

TypeOK ==
  /\ now \in 0..MaxTime
  /\ clock \in ClockType
  /\ events \in Nat
  /\ job \in [Steps -> JobType] /\ hourly \in BOOLEAN
  /\ planner \in [Planners -> PlanType]
  /\ worker \in [Workers -> WorkerType]
  /\ changes \in 0..MaxChanges /\ faults \in 0..MaxFaults
  /\ consumed \in Nat /\ ran \in [Steps -> Nat] /\ raced \in BOOLEAN

(* DOMAIN-RULES 3.3, "escalation steps already fired are not re-fired": a  *)
(* step runs at most once for a clock, however often its job is delivered, *)
(* added again or left behind by an earlier cycle.                         *)
StepsRunOnce == \A s \in Steps : ran[s] <= 1

(* A clock counts nothing but the time that passed while it was not paused *)
(* and what the stamps of the changes that resumed it reach back.          *)
NothingElseCounted == ElapsedAt(clock, now) <= consumed

(* A step never runs before its share of the target has been consumed,     *)
(* whatever pauses and targets came after its timer was set.               *)
NeverEarly ==
  [][\A s \in Steps : ran'[s] > ran[s] => consumed >= Threshold(clock, s)]_vars

(* The planners and the workers are at rest.                               *)
Quiet ==
  /\ events = 0
  /\ \A p \in Planners : planner[p].pc = "idle"
  /\ \A w \in Workers : worker[w].pc = "idle"

(* The job of a step that lies ahead is set for the time it is due at; one *)
(* out of attempts waits for the next rebuild.                             *)
InPlace(s) ==
  /\ job[s].state # "none"
  /\ FireAt(clock, s) > now => job[s].due = FireAt(clock, s)

(* Whatever order a ticket's changes, the planners and the workers come    *)
(* in, once all is quiet each step the clock still wants has its timer.    *)
(* What may lose one is a processor left alone while it ran, a change      *)
(* during a rebuild and a loss of Redis, and the next rebuild mends it.    *)
TimersInPlace ==
  Quiet /\ ~raced => \A s \in Steps : Wanted(clock, s) => InPlace(s)

Overdue(s) == Wanted(clock, s) /\ FireAt(clock, s) <= now

(* A step that is due does not stay so: it runs in the end, or the clock   *)
(* no longer wants it, through every race and fault.  After a loss of      *)
(* Redis that is so once a worker has booted, and not before.              *)
DueStepsRun ==
  \A s \in Steps : Overdue(s) /\ hourly ~> ~Overdue(s) \/ ~hourly

(* The clock with its jobs is one of ServiceLevel: consumed is what it has *)
(* used, and what planners and workers do between two transactions is no   *)
(* step of it.                                                             *)
Level == INSTANCE ServiceLevel
           WITH state <- clock.run, target <- clock.target, used <- consumed,
                breached <- (clock.breached # "no")

ImplementsServiceLevel == Level!Spec
=============================================================================
