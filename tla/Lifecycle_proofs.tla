-------------------------- MODULE Lifecycle_proofs --------------------------
(* Theorems about Lifecycle, for any replies, workers and bounds: the row  *)
(* stays consistent, a reply is stored once, time wakes only what is due,  *)
(* and a snooze has its job once all is quiet.                             *)
EXTENDS Lifecycle, TLAPS

Inv ==
  /\ TypeOK /\ RowInv /\ PlanInv /\ OrphanInv /\ BoundInv
  /\ DoneInv /\ DueInv /\ LeftAloneInv /\ TimerInv

-----------------------------------------------------------------------------
(* The row.                                                                *)

(* What a writer may ask of the trigger.                                   *)
Sound(old, new) ==
  /\ new \in TicketType /\ new.version = old.version
  /\ new.status = "snoozed" =>
       /\ new.until # None /\ new.resume # None
       /\ new.until # old.until => old.version + 1 < MaxVersion
  /\ new.status # "snoozed" =>
       new.until \in {old.until, None} /\ new.resume = IF new.until = None THEN None
                                                                        ELSE old.resume
  /\ new.status \in ClosedStatuses => new.closed # None

(* The row of a snooze that goes on is the row of the same snooze.         *)
MovesOn(old, new) ==
  /\ old.version <= new.version
  /\ new.version = old.version => new.until = old.until
  /\ new.version # old.version => new.until = None \/ new.status = "snoozed"

(* The guard of migration 0064 makes a consistent row of what is asked.    *)
LEMMA GuardKeeps ==
  ASSUME NEW old \in TicketType, NEW new, Sound(old, new), Consistent(old),
         old.until # None => old.version < MaxVersion
  PROVE  /\ Guarded(old, new) \in TicketType
         /\ Consistent(Guarded(old, new))
         /\ Guarded(old, new).until # None => Guarded(old, new).version < MaxVersion
         /\ MovesOn(old, Guarded(old, new))
         /\ Guarded(old, new).status = new.status
         /\ new.status = "snoozed" => Guarded(old, new).until = new.until
<1> DEFINE ends == new.until # None /\ new.status # old.status /\ new.status # "snoozed"
           until == IF ends THEN None ELSE new.until
           g == Guarded(old, new)
<1>1. /\ old.status \in Statuses /\ old.closed \in Times /\ old.until \in Times
      /\ old.resume \in {"open", "awaiting", None} /\ old.version \in Versions
      /\ new.status \in Statuses /\ new.closed \in Times /\ new.until \in Times
      /\ new.resume \in {"open", "awaiting", None} /\ new.version = old.version
  BY DEF Sound, TicketType
<1>2. /\ g.status = new.status /\ g.closed = new.closed /\ g.until = until
      /\ g.resume = IF ends THEN None ELSE new.resume
      /\ g.version = IF until # old.until THEN old.version + 1 ELSE new.version
  BY DEF Guarded, Sound, TicketType
<1>3. until # None => new.status = "snoozed"
  BY <1>1 DEF Sound, Consistent
<1>4. g.version \in Versions
  BY <1>1, <1>2, <1>3, LifecycleAssumption DEF Sound, Versions
<1>5. g \in TicketType
  BY <1>1, <1>2, <1>4 DEF Guarded, Sound, TicketType, Times
<1>6. Consistent(g)
  BY <1>1, <1>2, <1>3, LifecycleAssumption DEF Consistent, Sound, ClosedStatuses
<1>7. g.until # None => g.version < MaxVersion
  BY <1>1, <1>2, <1>3, LifecycleAssumption DEF Sound, Versions
<1>8. MovesOn(old, g)
  BY <1>1, <1>2, <1>3, LifecycleAssumption DEF MovesOn, Versions
<1> QED  BY <1>2, <1>5, <1>6, <1>7, <1>8

RowTyped == ticket \in TicketType /\ past \subseteq TicketType

(* A sound write keeps what is known of the row.                           *)
LEMMA WriteKeeps ==
  ASSUME RowTyped, RowInv, NEW new, NEW time, Sound(ticket, new), Writes(new, time)
  PROVE  RowTyped' /\ RowInv' /\ MovesOn(ticket, ticket')
<1>1. Consistent(ticket) /\ ticket \in TicketType
  BY DEF RowTyped, RowInv
<1>2. /\ ticket' \in TicketType /\ Consistent(ticket')
      /\ ticket'.until # None => ticket'.version < MaxVersion
      /\ MovesOn(ticket, ticket')
  BY <1>1, GuardKeeps DEF Writes, RowInv
<1>3. past' = past \union {ticket'}
  BY DEF Writes
<1> QED  BY <1>2, <1>3 DEF RowTyped, RowInv, Consistent

LEMMA MovedIsSound ==
  ASSUME RowTyped, RowInv, NEW status \in Statuses \ {"snoozed"}, NEW closed \in Times,
         status \in ClosedStatuses => closed # None
  PROVE  Sound(ticket, Moved(status, closed))
BY DEF RowTyped, RowInv, Moved, Sound, TicketType, Consistent

LEMMA AwakeIsSound ==
  ASSUME RowTyped, RowInv, NEW t
  PROVE  /\ Sound(ticket, Awake(t))
         /\ Sound(ticket, [Awake(t) EXCEPT !.closed = None])
BY LifecycleAssumption
   DEF RowTyped, RowInv, Awake, WakesTo, Sound, TicketType, Times, Statuses, ClosedStatuses

(* Whatever row a request read, and whatever the row is by now.            *)
LEMMA RequestKeeps ==
  ASSUME TypeOK, RowInv, NEW t \in past, RequestStep(t)
  PROVE  RowTyped' /\ RowInv' /\ MovesOn(ticket, ticket')
<1> USE DEF RowTyped
<1>0. RowTyped /\ now \in Nat /\ t \in TicketType /\ Consistent(t)
  BY LifecycleAssumption DEF TypeOK, RowInv
<1>1. ASSUME WakeNow(t)
      PROVE  RowTyped' /\ RowInv' /\ MovesOn(ticket, ticket')
  BY <1>0, <1>1, AwakeIsSound, WriteKeeps DEF WakeNow
<1>2. ASSUME AgentReply(t)
      PROVE  RowTyped' /\ RowInv' /\ MovesOn(ticket, ticket')
  <2>1. Sound(ticket, Moved("awaiting", None))
    BY <1>0, MovedIsSound DEF Statuses, Times, ClosedStatuses
  <2> QED  BY <1>0, <1>2, <2>1, WriteKeeps DEF AgentReply
<1>3. ASSUME NEW status \in Picks, SetStatus(t, status)
      PROVE  RowTyped' /\ RowInv' /\ MovesOn(ticket, ticket')
  <2> DEFINE kept == IF t.closed = None THEN now ELSE t.closed
             closed == IF status \in ClosedStatuses THEN kept ELSE None
  <2>1. /\ status \in Statuses \ {"snoozed"} /\ closed \in Times
        /\ status \in ClosedStatuses => closed # None
    BY <1>0, LifecycleAssumption DEF Statuses, Times, TicketType
  <2>2. Sound(ticket, Moved(status, closed))
    BY <1>0, <2>1, MovedIsSound
  <2> QED  BY <1>0, <1>3, <2>2, WriteKeeps DEF SetStatus
<1>4. ASSUME NEW d \in SnoozeFor, Snooze(t, d)
      PROVE  RowTyped' /\ RowInv' /\ MovesOn(ticket, ticket')
  <2> DEFINE put == [ticket EXCEPT !.status = "snoozed", !.until = now + d,
                            !.resume = IF t.until = None THEN t.status ELSE t.resume,
                            !.closed = IF t.status = "snoozed" THEN @ ELSE t.closed]
  <2>1. now + d \in Nat /\ now + d # None /\ ticket.version + 1 < MaxVersion
    BY <1>0, <1>4, LifecycleAssumption DEF Snooze
  <2>2. /\ (IF t.until = None THEN t.status ELSE t.resume) \in {"open", "awaiting"}
        /\ t.closed \in Times
    BY <1>0, <1>4, LifecycleAssumption
       DEF Snooze, IsClosed, Consistent, TicketType, Statuses, ClosedStatuses
  <2>3. Sound(ticket, put)
    BY <1>0, <2>1, <2>2, LifecycleAssumption
       DEF Sound, TicketType, Statuses, Times, ClosedStatuses
  <2> QED  BY <1>0, <1>4, <2>3, WriteKeeps DEF Snooze
<1>5. ASSUME NEW c \in Replies, ReplyContinues(t, c)
      PROVE  RowTyped' /\ RowInv' /\ MovesOn(ticket, ticket')
  BY <1>0, <1>5, LifecycleAssumption
     DEF ReplyContinues, row, RowInv, MovesOn, Consistent, TicketType, Versions
<1>6. ASSUME NEW c \in Replies, ReplyHere(t, c)
      PROVE  RowTyped' /\ RowInv' /\ MovesOn(ticket, ticket')
  <2>1. Sound(ticket, Moved("open", None))
    BY <1>0, MovedIsSound DEF Statuses, Times, ClosedStatuses
  <2>2. CASE t.status = "open"
    BY <1>0, <1>6, <2>2, LifecycleAssumption
       DEF ReplyHere, row, RowInv, MovesOn, Consistent, TicketType, Versions
  <2>3. CASE t.status # "open"
    BY <1>0, <1>6, <2>1, <2>3, WriteKeeps DEF ReplyHere
  <2> QED  BY <2>2, <2>3
<1> QED  BY <1>1, <1>2, <1>3, <1>4, <1>5, <1>6 DEF RequestStep

(* Whose steps leave the row alone.                                        *)
LEMMA Stays ==
  ASSUME TypeOK, RowInv, UNCHANGED <<ticket, past>>
  PROVE  RowTyped' /\ RowInv' /\ MovesOn(ticket, ticket')
BY LifecycleAssumption
   DEF TypeOK, RowTyped, RowInv, MovesOn, Consistent, TicketType, Versions

LEMMA PlannersLeaveTheRow ==
  ASSUME NEW p \in Planners, PlannerStep(p), ~(p = "rebuild" /\ RebuildWakes)
  PROVE  UNCHANGED row
BY DEF PlannerStep, StartEvent, StartRebuild, Look, DropOld, LeaveAlone, ChangeDelay,
       Replace, Add, Refused

LEMMA TroublesLeaveTheRow ==
  ASSUME Troubles
  PROVE  UNCHANGED row
BY DEF Troubles, CrashWorker, TimerFails, LoseJobLock, PromoteEarly, PlannerFails, RedisLoss

LEMMA RowStep ==
  ASSUME TypeOK, RowInv, [Next]_vars
  PROVE  RowTyped' /\ RowInv' /\ MovesOn(ticket, ticket')
<1>0. RowTyped
  BY DEF TypeOK, RowTyped
<1>1. CASE Tick
  BY <1>0, <1>1, LifecycleAssumption
     DEF Tick, RowTyped, RowInv, MovesOn, Consistent, TicketType, Versions
<1>2. CASE SlaWakes
  BY <1>0, <1>2, AwakeIsSound, WriteKeeps DEF SlaWakes
<1>3. CASE \E t \in past : RequestStep(t)
  BY <1>3, RequestKeeps
<1>4. ASSUME NEW p \in Planners, PlannerStep(p)
      PROVE  RowTyped' /\ RowInv' /\ MovesOn(ticket, ticket')
  <2>1. CASE p = "rebuild" /\ RebuildWakes
    <3>1. UNCHANGED row \/ TimeWakes
      BY <2>1 DEF RebuildWakes
    <3> QED  BY <1>0, <3>1, Stays, AwakeIsSound, WriteKeeps DEF TimeWakes, row
  <2>2. CASE ~(p = "rebuild" /\ RebuildWakes)
    BY <1>4, <2>2, PlannersLeaveTheRow, Stays DEF row
  <2> QED  BY <2>1, <2>2
<1>5. ASSUME NEW w \in Workers, WorkerStep(w)
      PROVE  RowTyped' /\ RowInv' /\ MovesOn(ticket, ticket')
  <2>1. CASE TimerWakes(w)
    BY <1>0, <2>1, AwakeIsSound, WriteKeeps DEF TimerWakes, TimeWakes
  <2>2. CASE ~TimerWakes(w)
    <3>1. UNCHANGED row
      BY <1>5, <2>2 DEF WorkerStep, Take, TimerIsOld, TimerIsEarly, Return
    <3> QED  BY <3>1, Stays DEF row
  <2> QED  BY <2>1, <2>2
<1>6. CASE (\E v \in Versions : Promote(v) \/ RequeueStalled(v)) \/ Boot
  BY <1>6, Stays DEF Promote, RequeueStalled, Boot, row
<1>7. CASE Troubles
  BY <1>7, TroublesLeaveTheRow, Stays DEF row
<1>8. CASE UNCHANGED vars
  BY <1>8, Stays DEF vars, row
<1> QED  BY <1>1, <1>2, <1>3, <1>4, <1>5, <1>6, <1>7, <1>8 DEF Next

-----------------------------------------------------------------------------
(* Types.                                                                  *)

JobType == [state : JobStates, at : Nat, by : Workers \union {None}]

PlanType ==
  [pc : {"idle", "old", "drop", "look", "set", "wake"}, version : Versions, left : Nat,
   saw : JobStates, orphan : BOOLEAN]

WorkerType == [pc : {"idle", "run", "early", "done"}, version : Versions, at : Nat]

(* What is not the row: clocks and counters, the jobs and who acts on them.*)
CountsTyped ==
  /\ now \in 0..MaxTime
  /\ here \in [Replies -> Nat] /\ elsewhere \in [Replies -> Nat]
  /\ asks \in 0..MaxAsks /\ faults \in 0..MaxFaults
  /\ byTime \in BOOLEAN

MarksTyped == hourly \in BOOLEAN /\ raced \in BOOLEAN

JobsTyped ==
  /\ events \subseteq [version : Versions, until : Nat]
  /\ job \in [Versions -> JobType]
  /\ planner \in [Planners -> PlanType]
  /\ worker \in [Workers -> WorkerType]

LEMMA TypeParts == TypeOK <=> RowTyped /\ CountsTyped /\ MarksTyped /\ JobsTyped
BY DEF TypeOK, RowTyped, CountsTyped, MarksTyped, JobsTyped, JobType, PlanType, WorkerType

LEMMA SmallTypes ==
  /\ NoJob \in JobType /\ Waiting \in JobType
  /\ [NoJob EXCEPT !.state = "failed"] \in JobType
  /\ NoPlan \in PlanType /\ Idle \in WorkerType
  /\ \A at \in Nat : Delayed(at) \in JobType
BY LifecycleAssumption
   DEF NoJob, Waiting, NoPlan, Idle, Delayed, JobType, PlanType, WorkerType, JobStates,
       Versions

LEMMA Counted ==
  /\ asks \in 0..MaxAsks /\ Asked => asks' \in 0..MaxAsks
  /\ faults \in 0..MaxFaults /\ Fault => faults' \in 0..MaxFaults
BY LifecycleAssumption DEF Asked, Fault

LEMMA CountsStep ==
  ASSUME CountsTyped, [Next]_vars
  PROVE  CountsTyped'
<1> USE LifecycleAssumption DEF CountsTyped, row, jobs, messages, bounds
<1>1. CASE Tick
  BY <1>1 DEF Tick
<1>2. CASE SlaWakes
  BY <1>2 DEF SlaWakes, Writes
<1>3. ASSUME NEW t \in past, RequestStep(t)
      PROVE  CountsTyped'
  <2>1. ASSUME WakeNow(t) \/ AgentReply(t)
        PROVE  CountsTyped'
    BY <2>1, Counted DEF WakeNow, AgentReply, Writes
  <2>2. ASSUME NEW status \in Picks, SetStatus(t, status)
        PROVE  CountsTyped'
    BY <2>2, Counted DEF SetStatus, Writes
  <2>3. ASSUME NEW d \in SnoozeFor, Snooze(t, d)
        PROVE  CountsTyped'
    BY <2>3, Counted DEF Snooze, Writes
  <2>4. ASSUME NEW c \in Replies, ReplyContinues(t, c)
        PROVE  CountsTyped'
    BY <2>4 DEF ReplyContinues
  <2>5. ASSUME NEW c \in Replies, ReplyHere(t, c)
        PROVE  CountsTyped'
    <3>1. here' \in [Replies -> Nat]
      BY <2>5 DEF ReplyHere
    <3>2. byTime' \in BOOLEAN
      BY <2>5 DEF ReplyHere, Writes
    <3> QED  BY <2>5, <3>1, <3>2 DEF ReplyHere
  <2> QED  BY <1>3, <2>1, <2>2, <2>3, <2>4, <2>5 DEF RequestStep
<1>4. ASSUME NEW p \in Planners, PlannerStep(p)
      PROVE  CountsTyped'
  <2>1. ASSUME NEW e \in events, StartEvent(e)
        PROVE  CountsTyped'
    BY <2>1 DEF StartEvent
  <2>2. CASE StartRebuild \/ RebuildWakes
    BY <2>2 DEF StartRebuild, RebuildWakes, TimeWakes, Writes
  <2>3. CASE Look(p) \/ DropOld(p) \/ LeaveAlone(p) \/ ChangeDelay(p) \/ Replace(p) \/ Add(p)
    BY <2>3 DEF Look, DropOld, LeaveAlone, ChangeDelay, Replace, Add
  <2>4. CASE Refused(p)
    BY <2>4 DEF Refused
  <2> QED  BY <1>4, <2>1, <2>2, <2>3, <2>4 DEF PlannerStep
<1>5. ASSUME NEW w \in Workers, WorkerStep(w)
      PROVE  CountsTyped'
  BY <1>5 DEF WorkerStep, Take, TimerWakes, TimeWakes, Writes, TimerIsOld, TimerIsEarly, Return
<1>6. CASE (\E v \in Versions : Promote(v) \/ RequeueStalled(v)) \/ Boot
  BY <1>6 DEF Promote, RequeueStalled, Boot
<1>7. CASE Troubles
  BY <1>7, Counted DEF Troubles, CrashWorker, TimerFails, LoseJobLock, PromoteEarly,
                       PlannerFails, RedisLoss
<1>8. CASE UNCHANGED vars
  BY <1>8 DEF vars
<1> QED  BY <1>1, <1>2, <1>3, <1>4, <1>5, <1>6, <1>7, <1>8 DEF Next

LEMMA MarksStep ==
  ASSUME TypeOK, [Next]_vars
  PROVE  MarksTyped'
<1> USE DEF TypeOK, MarksTyped
<1>1. CASE Tick \/ SlaWakes \/ Boot \/ UNCHANGED vars
  BY <1>1 DEF Tick, SlaWakes, Boot, jobs, vars
<1>2. CASE \E t \in past : RequestStep(t)
  BY <1>2 DEF RequestStep, WakeNow, AgentReply, SetStatus, Snooze, ReplyContinues, ReplyHere,
              jobs
<1>3. ASSUME NEW p \in Planners, PlannerStep(p)
      PROVE  MarksTyped'
  <2>1. UNCHANGED hourly
    BY <1>3 DEF PlannerStep, StartEvent, StartRebuild, RebuildWakes, Look, DropOld, LeaveAlone,
                ChangeDelay, Replace, Add, Refused
  <2>2. raced' \in BOOLEAN
    BY <1>3 DEF PlannerStep, StartEvent, StartRebuild, RebuildWakes, Look, DropOld, LeaveAlone,
                ChangeDelay, Replace, Add, Refused, Stops, Planners
  <2> QED  BY <2>1, <2>2
<1>4. CASE \E w \in Workers : WorkerStep(w)
  BY <1>4 DEF WorkerStep, Take, TimerWakes, TimerIsOld, TimerIsEarly, Return
<1>5. CASE \E v \in Versions : Promote(v) \/ RequeueStalled(v)
  BY <1>5 DEF Promote, RequeueStalled
<1>6. CASE Troubles
  <2>1. hourly' \in BOOLEAN
    BY <1>6 DEF Troubles, CrashWorker, TimerFails, LoseJobLock, PromoteEarly, PlannerFails,
                RedisLoss
  <2>2. raced' \in BOOLEAN
    BY <1>6 DEF Troubles, CrashWorker, TimerFails, LoseJobLock, PromoteEarly, PlannerFails,
                Stops, RedisLoss
  <2> QED  BY <2>1, <2>2
<1> QED  BY <1>1, <1>2, <1>3, <1>4, <1>5, <1>6 DEF Next

(* A planner that stops leaves its events to a later run, if it has one.   *)
LEMMA StopsFacts ==
  ASSUME NEW p \in Planners, Stops(p)
  PROVE  /\ planner' = [planner EXCEPT ![p] = NoPlan]
         /\ events' \subseteq events
         /\ ~planner[p].orphan => UNCHANGED events
         /\ raced' = (raced \/ p = "rebuild")
BY DEF Stops, Plans, Forgotten

(* A loss of Redis leaves no job, the handler with its event, and the plans*)
(* as they were.                                                           *)
LEMMA LossFacts ==
  ASSUME TypeOK, RedisLoss
  PROVE  /\ planner' \in [Planners -> PlanType]
         /\ \A p \in Planners : /\ planner'[p].pc = planner[p].pc
                                /\ planner'[p].version = planner[p].version
         /\ planner'["rebuild"] = planner["rebuild"]
         /\ planner'["event"].orphan = (planner["event"].pc # "idle")
         /\ events' \subseteq events
         /\ \A e \in events : /\ planner["event"].pc # "idle"
                             /\ e.version = planner["event"].version
                             => e \in events'
         /\ job' = [v \in Versions |-> NoJob] /\ raced' = TRUE
         /\ UNCHANGED <<now, row, worker>>
<1> DEFINE runs == planner["event"].pc # "idle"
           plan == [planner["event"] EXCEPT !.orphan = runs]
<1>1. /\ planner' = [planner EXCEPT !["event"].orphan = runs]
      /\ events' \in {left \in SUBSET events : runs => events \ Forgotten("event") \subseteq left}
      /\ job' = [v \in Versions |-> NoJob] /\ raced' = TRUE
      /\ UNCHANGED <<now, row, worker>>
  BY DEF RedisLoss
<1>2. planner \in [Planners -> PlanType] /\ runs \in BOOLEAN
  BY DEF TypeOK, PlanType
<1>3. /\ events' \subseteq events
      /\ \A e \in events : runs /\ e.version = planner["event"].version => e \in events'
  BY <1>1 DEF Forgotten
<1> HIDE DEF runs
<1>4. /\ plan \in PlanType /\ plan.pc = planner["event"].pc
      /\ plan.version = planner["event"].version /\ plan.orphan = runs
  BY <1>2 DEF PlanType, Planners
<1>5. planner' = [planner EXCEPT !["event"] = plan]
  BY <1>1
<1> HIDE DEF plan
<1>6. /\ planner' \in [Planners -> PlanType] /\ planner'["event"] = plan
      /\ planner'["rebuild"] = planner["rebuild"]
  BY <1>2, <1>4, <1>5 DEF Planners
<1>7. planner'["event"].orphan = (planner["event"].pc # "idle")
  BY <1>4, <1>6 DEF runs
<1> QED  BY <1>1, <1>3, <1>4, <1>6, <1>7 DEF runs, Planners

LEMMA JobsStep ==
  ASSUME TypeOK, RowInv, PlanInv, [Next]_vars, RowTyped'
  PROVE  JobsTyped'
<1> USE DEF jobs
<1>0. /\ JobsTyped /\ RowTyped /\ now \in Nat
      /\ \A p \in Planners : Target(p) \in Versions
  <2>1. JobsTyped /\ RowTyped /\ now \in Nat
    BY TypeParts, LifecycleAssumption DEF CountsTyped
  <2>2. ASSUME NEW p \in Planners
        PROVE  Target(p) \in Versions
    BY <2>1, LifecycleAssumption DEF JobsTyped, PlanType, PlanInv, Target, Versions
  <2> QED  BY <2>1, <2>2
<1>1. CASE Tick \/ SlaWakes
  BY <1>0, <1>1 DEF Tick, SlaWakes, JobsTyped
<1>2. ASSUME NEW t \in past, RequestStep(t)
      PROVE  JobsTyped'
  <2>1. ASSUME NEW d \in SnoozeFor, Snooze(t, d)
        PROVE  JobsTyped'
    <3>1. now + d \in Nat /\ ticket'.version \in Versions
      BY <1>0, LifecycleAssumption DEF RowTyped, TicketType
    <3> QED  BY <1>0, <2>1, <3>1 DEF Snooze, JobsTyped
  <2>2. ASSUME ~\E d \in SnoozeFor : Snooze(t, d)
        PROVE  JobsTyped'
    BY <1>0, <1>2, <2>2
       DEF RequestStep, WakeNow, AgentReply, SetStatus, ReplyContinues, ReplyHere, JobsTyped
  <2> QED  BY <2>1, <2>2
<1>3. ASSUME NEW p \in Planners, PlannerStep(p)
      PROVE  JobsTyped'
  <2>1. ASSUME NEW e \in events, StartEvent(e)
        PROVE  JobsTyped'
    <3>1. Left(e.until) \in Nat /\ e.version \in Versions
      BY <1>0, <2>1 DEF Left, JobsTyped
    <3> QED  BY <1>0, <2>1, <3>1, SmallTypes DEF StartEvent, Plans, JobsTyped, PlanType
  <2>2. CASE StartRebuild
    <3>1. Left(ticket.until) \in Nat /\ ticket.version \in Versions
      BY <1>0, <2>2 DEF StartRebuild, IsSnoozed, Left, RowTyped, TicketType, Times
    <3> QED  BY <1>0, <2>2, <3>1, SmallTypes DEF StartRebuild, Plans, JobsTyped, PlanType
  <2>3. CASE RebuildWakes
    BY <1>0, <2>3, SmallTypes DEF RebuildWakes, Plans, JobsTyped
  <2>4. CASE Look(p)
    <3>1. job[Target(p)].state \in JobStates
      BY <1>0 DEF JobsTyped, JobType
    <3> QED  BY <1>0, <2>4, <3>1 DEF Look, Plans, JobsTyped, PlanType
  <2>5. CASE DropOld(p)
    <3>1. [planner[p] EXCEPT !.pc = "look", !.saw = "none"] \in PlanType
      BY <1>0 DEF JobsTyped, PlanType, JobStates
    <3> QED  BY <1>0, <2>5, <3>1, SmallTypes DEF DropOld, Plans, JobsTyped
  <2>6. CASE LeaveAlone(p)
    BY <1>0, <2>6, SmallTypes DEF LeaveAlone, Ends, Forgotten, Plans, JobsTyped
  <2>7. CASE ChangeDelay(p)
    <3>1. now + planner[p].left \in Nat
      BY <1>0 DEF JobsTyped, PlanType
    <3> QED  BY <1>0, <2>7, <3>1, SmallTypes DEF ChangeDelay, Ends, Forgotten, Plans, JobsTyped
  <2>8. CASE Replace(p)
    <3>1. [planner[p] EXCEPT !.saw = "none"] \in PlanType
      BY <1>0 DEF JobsTyped, PlanType, JobStates
    <3> QED  BY <1>0, <2>8, <3>1, SmallTypes DEF Replace, Plans, JobsTyped
  <2>9. CASE Add(p)
    <3>1. now + planner[p].left \in Nat
      BY <1>0 DEF JobsTyped, PlanType
    <3> QED  BY <1>0, <2>9, <3>1, SmallTypes DEF Add, Ends, Forgotten, Plans, JobsTyped
  <2>10. CASE Refused(p)
    BY <1>0, <2>10, SmallTypes, StopsFacts DEF Refused, JobsTyped
  <2> QED  BY <1>3, <2>1, <2>2, <2>3, <2>4, <2>5, <2>6, <2>7, <2>8, <2>9, <2>10
           DEF PlannerStep
<1>4. ASSUME NEW w \in Workers, WorkerStep(w)
      PROVE  JobsTyped'
  <2>0. worker[w] \in WorkerType
    BY <1>0 DEF JobsTyped
  <2>1. ASSUME NEW v \in Versions, Take(w, v)
        PROVE  JobsTyped'
    <3>1. /\ [job[v] EXCEPT !.state = "active", !.by = w] \in JobType
          /\ [Idle EXCEPT !.pc = "run", !.version = v] \in WorkerType
      BY <1>0, SmallTypes DEF JobsTyped, JobType, JobStates, WorkerType
    <3> QED  BY <1>0, <2>1, <3>1 DEF Take, Works, JobsTyped, JobType
  <2>2. CASE TimerWakes(w) \/ TimerIsOld(w)
    BY <1>0, <2>0, <2>2 DEF TimerWakes, TimerIsOld, Works, JobsTyped, WorkerType
  <2>3. CASE TimerIsEarly(w)
    <3>1. ticket.until \in Nat
      BY <1>0, <2>3 DEF TimerIsEarly, Wanted, IsSnoozed, RowTyped, TicketType, Times
    <3> QED  BY <1>0, <2>0, <2>3, <3>1 DEF TimerIsEarly, Works, JobsTyped, WorkerType
  <2>4. CASE Return(w)
    BY <1>0, <2>0, <2>4, SmallTypes DEF Return, Works, JobsTyped, WorkerType
  <2> QED  BY <1>4, <2>1, <2>2, <2>3, <2>4 DEF WorkerStep
<1>5. CASE (\E v \in Versions : Promote(v) \/ RequeueStalled(v)) \/ Boot
  BY <1>0, <1>5, SmallTypes DEF Promote, RequeueStalled, Boot, JobsTyped
<1>6. CASE Troubles
  <2>1. ASSUME NEW w \in Workers, NEW last \in BOOLEAN, TimerFails(w, last)
        PROVE  JobsTyped'
    BY <1>0, <2>1, SmallTypes DEF TimerFails, Works, JobsTyped
  <2>2. ASSUME NEW w \in Workers, CrashWorker(w)
        PROVE  JobsTyped'
    BY <1>0, <2>2, SmallTypes DEF CrashWorker, Works, JobsTyped
  <2>3. ASSUME NEW v \in Versions, LoseJobLock(v) \/ PromoteEarly(v)
        PROVE  JobsTyped'
    BY <1>0, <2>3, SmallTypes DEF LoseJobLock, PromoteEarly, JobsTyped
  <2>4. ASSUME NEW p \in Planners, PlannerFails(p)
        PROVE  JobsTyped'
    BY <1>0, <2>4, SmallTypes, StopsFacts DEF PlannerFails, JobsTyped
  <2>5. CASE RedisLoss
    BY <1>0, <2>5, SmallTypes, LossFacts DEF JobsTyped
  <2> QED  BY <1>6, <2>1, <2>2, <2>3, <2>4, <2>5 DEF Troubles
<1>7. CASE UNCHANGED vars
  BY <1>0, <1>7 DEF vars, JobsTyped
<1> QED  BY <1>1, <1>2, <1>3, <1>4, <1>5, <1>6, <1>7 DEF Next

LEMMA TypeStep ==
  ASSUME TypeOK, RowInv, PlanInv, [Next]_vars
  PROVE  TypeOK'
<1>1. RowTyped'
  BY RowStep
<1>2. CountsTyped'
  BY TypeParts, CountsStep
<1>3. MarksTyped' /\ JobsTyped'
  BY <1>1, MarksStep, JobsStep
<1> QED  BY <1>1, <1>2, <1>3
         DEF TypeOK, RowTyped, CountsTyped, MarksTyped, JobsTyped, JobType, PlanType,
             WorkerType

-----------------------------------------------------------------------------
(* Who plans what.                                                         *)

(* Only planners and a loss of Redis move plans and end an event.          *)
LEMMA OthersKeepPlans ==
  ASSUME [Next]_vars, ~RedisLoss,
         ~\E p \in Planners : PlannerStep(p) \/ PlannerFails(p)
  PROVE  UNCHANGED planner /\ events \subseteq events'
<1> USE DEF jobs
<1>1. CASE Tick \/ SlaWakes
  BY <1>1 DEF Tick, SlaWakes
<1>2. CASE \E t \in past : RequestStep(t)
  BY <1>2 DEF RequestStep, WakeNow, AgentReply, SetStatus, Snooze, ReplyContinues, ReplyHere
<1>3. CASE \E w \in Workers : WorkerStep(w)
  BY <1>3 DEF WorkerStep, Take, TimerWakes, TimerIsOld, TimerIsEarly, Return
<1>4. CASE (\E v \in Versions : Promote(v) \/ RequeueStalled(v)) \/ Boot
  BY <1>4 DEF Promote, RequeueStalled, Boot
<1>5. CASE Troubles /\ ~\E p \in Planners : PlannerFails(p)
  BY <1>5 DEF Troubles, CrashWorker, TimerFails, LoseJobLock, PromoteEarly
<1>6. CASE UNCHANGED vars
  BY <1>6 DEF vars
<1> QED  BY <1>1, <1>2, <1>3, <1>4, <1>5, <1>6 DEF Next, Troubles

LEMMA PlanStep ==
  ASSUME TypeOK, PlanInv, OrphanInv, [Next]_vars
  PROVE  PlanInv'
<1>0. planner \in [Planners -> PlanType] /\ NoPlan.pc = "idle"
  BY DEF TypeOK, PlanType, NoPlan
<1>1. CASE ~RedisLoss /\ ~\E p \in Planners : PlannerStep(p) \/ PlannerFails(p)
  BY <1>1, OthersKeepPlans DEF PlanInv
<1>2. ASSUME NEW p \in Planners, PlannerStep(p) \/ PlannerFails(p)
      PROVE  PlanInv'
  <2> USE <1>0 DEF Plans, PlanInv, Planners, PlanType
  <2>1. ASSUME NEW e \in events, p = "event", StartEvent(e)
        PROVE  PlanInv'
    BY <2>1 DEF StartEvent, NoPlan
  <2>2. CASE p = "rebuild" /\ (StartRebuild \/ RebuildWakes)
    <3>1. PICK plan : /\ planner' = [planner EXCEPT !["rebuild"] = plan] /\ UNCHANGED events
                      /\ plan.pc \in {"wake", "look", "idle"}
      BY <2>2 DEF StartRebuild, RebuildWakes, NoPlan
    <3> QED  BY <3>1
  <2>3. CASE Look(p) \/ DropOld(p) \/ Replace(p)
    <3>1. PICK plan : /\ planner' = [planner EXCEPT ![p] = plan] /\ UNCHANGED events
                      /\ plan.version = planner[p].version
                      /\ plan.pc \in {"drop", "set", "look"}
                      /\ plan.pc = "drop" => planner[p].pc = "old"
                      /\ planner[p].pc # "idle"
      BY <2>3 DEF Look, DropOld, Replace
    <3> QED  BY <3>1
  <2>4. CASE LeaveAlone(p) \/ ChangeDelay(p) \/ Add(p)
    <3>1. Ends(p)
      BY <2>4 DEF LeaveAlone, ChangeDelay, Add
    <3>2. CASE p = "event"
      BY <3>1, <3>2 DEF Ends
    <3>3. CASE p = "rebuild"
      BY <3>1, <3>3 DEF Ends
    <3> QED  BY <3>2, <3>3
  <2>5. CASE Refused(p) \/ PlannerFails(p)
    <3>1. Stops(p)
      BY <2>5 DEF Refused, PlannerFails
    <3>2. planner' = [planner EXCEPT ![p] = NoPlan] /\ (p = "rebuild" => UNCHANGED events)
      BY <3>1, StopsFacts DEF OrphanInv
    <3> QED  BY <3>2
  <2> QED  BY <1>2, <2>1, <2>2, <2>3, <2>4, <2>5 DEF PlannerStep
<1>3. CASE RedisLoss
  BY <1>3, LossFacts DEF PlanInv, Planners
<1> QED  BY <1>1, <1>2, <1>3

(* A handler whose event is gone runs, and a loss of Redis came since the  *)
(* last rebuild.                                                           *)
LEMMA OrphanStep ==
  ASSUME TypeOK, OrphanInv, [Next]_vars
  PROVE  OrphanInv'
<1>0. planner \in [Planners -> PlanType] /\ NoPlan.orphan = FALSE /\ NoPlan.pc = "idle"
  BY DEF TypeOK, PlanType, NoPlan
<1>1. CASE UNCHANGED <<planner, raced>>
  BY <1>1 DEF OrphanInv
<1>2. ASSUME NEW p \in Planners, NEW plan, planner' = [planner EXCEPT ![p] = plan],
             plan.orphan = FALSE, raced => raced'
      PROVE  OrphanInv'
  BY <1>0, <1>2 DEF OrphanInv, Planners
<1>3. ASSUME NEW p \in Planners, NEW plan, planner' = [planner EXCEPT ![p] = plan],
             plan.orphan = planner[p].orphan, plan.pc # "idle", UNCHANGED raced
      PROVE  OrphanInv'
  BY <1>0, <1>3 DEF OrphanInv, Planners
<1>4. ASSUME NEW e \in events, StartEvent(e)
      PROVE  OrphanInv'
  <2> DEFINE plan == [NoPlan EXCEPT !.pc = IF e.version > 1 THEN "old" ELSE "look",
                                    !.version = e.version, !.left = Left(e.until)]
  <2>1. planner' = [planner EXCEPT !["event"] = plan] /\ plan.orphan = FALSE
    BY <1>4 DEF StartEvent, Plans, NoPlan
  <2>2. UNCHANGED raced
    BY <1>4 DEF StartEvent
  <2> HIDE DEF plan
  <2> QED  BY <1>2, <2>1, <2>2 DEF Planners
<1>5. CASE StartRebuild
  <2> DEFINE plan == [NoPlan EXCEPT !.pc = IF ticket.until <= now THEN "wake" ELSE "look",
                                    !.version = ticket.version, !.left = Left(ticket.until)]
  <2>1. planner' = [planner EXCEPT !["rebuild"] = plan] /\ plan.orphan = FALSE
    BY <1>5 DEF StartRebuild, Plans, NoPlan
  <2>2. raced' = planner["event"].orphan
    BY <1>5 DEF StartRebuild
  <2> HIDE DEF plan
  <2>3. planner'["rebuild"].orphan = FALSE /\ planner'["event"] = planner["event"]
    BY <1>0, <2>1 DEF Planners
  <2> QED  BY <2>2, <2>3 DEF OrphanInv
<1>6. ASSUME NEW p \in Planners, Look(p) \/ DropOld(p) \/ Replace(p)
      PROVE  OrphanInv'
  <2>1. PICK plan : /\ planner' = [planner EXCEPT ![p] = plan] /\ UNCHANGED raced
                    /\ plan.orphan = planner[p].orphan /\ plan.pc # "idle"
    <3>1. planner[p] \in PlanType
      BY <1>0
    <3>2. CASE Look(p)
      <4> DEFINE plan == [planner[p] EXCEPT !.pc = IF @ = "old" THEN "drop" ELSE "set",
                                            !.saw = job[Target(p)].state]
      <4>1. planner' = [planner EXCEPT ![p] = plan] /\ UNCHANGED raced
        BY <3>2 DEF Look, Plans
      <4>2. plan.orphan = planner[p].orphan /\ plan.pc # "idle"
        BY <3>1 DEF PlanType
      <4> QED  BY <4>1, <4>2
    <3>3. CASE DropOld(p)
      <4> DEFINE plan == [planner[p] EXCEPT !.pc = "look", !.saw = "none"]
      <4>1. planner' = [planner EXCEPT ![p] = plan] /\ UNCHANGED raced
        BY <3>3 DEF DropOld, Plans
      <4>2. plan.orphan = planner[p].orphan /\ plan.pc # "idle"
        BY <3>1 DEF PlanType
      <4> QED  BY <4>1, <4>2
    <3>4. CASE Replace(p)
      <4> DEFINE plan == [planner[p] EXCEPT !.saw = "none"]
      <4>1. planner' = [planner EXCEPT ![p] = plan] /\ UNCHANGED raced
        BY <3>4 DEF Replace, Plans
      <4>2. plan.orphan = planner[p].orphan /\ plan.pc # "idle"
        BY <3>1, <3>4 DEF PlanType, Replace
      <4> QED  BY <4>1, <4>2
    <3> QED  BY <1>6, <3>2, <3>3, <3>4
  <2> QED  BY <1>3, <2>1
<1>7. ASSUME NEW p \in Planners, Plans(p, NoPlan), UNCHANGED raced
      PROVE  OrphanInv'
  BY <1>0, <1>2, <1>7 DEF Plans
<1>8. ASSUME NEW p \in Planners, Refused(p) \/ PlannerFails(p)
      PROVE  OrphanInv'
  <2>1. Stops(p)
    BY <1>8 DEF Refused, PlannerFails
  <2>2. planner' = [planner EXCEPT ![p] = NoPlan] /\ (raced => raced')
    BY <2>1, StopsFacts, Zenon
  <2> QED  BY <1>0, <1>2, <2>2, Zenon
<1>9. ASSUME NEW p \in Planners, PlannerStep(p)
      PROVE  OrphanInv'
  BY <1>4, <1>5, <1>6, <1>7, <1>8, <1>9
     DEF PlannerStep, RebuildWakes, LeaveAlone, ChangeDelay, Add, Ends
<1>10. CASE RedisLoss
  BY <1>10, LossFacts DEF OrphanInv, Planners
<1>11. CASE \E w \in Workers : WorkerStep(w)
  BY <1>1, <1>11 DEF WorkerStep, Take, TimerWakes, TimerIsOld, TimerIsEarly, Return
<1>12. CASE \E t \in past : RequestStep(t)
  BY <1>1, <1>12 DEF RequestStep, WakeNow, AgentReply, SetStatus, Snooze, ReplyContinues,
                     ReplyHere, jobs
<1>13. CASE Troubles
  BY <1>1, <1>8, <1>10, <1>13 DEF Troubles, CrashWorker, TimerFails, LoseJobLock, PromoteEarly
<1>14. CASE Tick \/ SlaWakes \/ Boot \/ UNCHANGED vars
  BY <1>1, <1>14 DEF Tick, SlaWakes, Boot, jobs, vars
<1>15. CASE \E v \in Versions : Promote(v) \/ RequeueStalled(v)
  BY <1>1, <1>15 DEF Promote, RequeueStalled
<1> QED  BY <1>9, <1>11, <1>12, <1>13, <1>14, <1>15 DEF Next

-----------------------------------------------------------------------------
(* Versions.                                                               *)

(* A snooze that is on after a step, and is not new, was on before it.     *)
LEMMA SnoozeGoesOn ==
  ASSUME TypeOK, RowInv, [Next]_vars, NEW v \in Versions, v <= ticket.version, Wanted(v)'
  PROVE  Wanted(v) /\ ticket'.until = ticket.until
<1>1. MovesOn(ticket, ticket') /\ RowTyped'
  BY RowStep
<1>2. ticket.version \in Nat /\ ticket'.version \in Nat /\ v \in Nat
  BY <1>1, LifecycleAssumption DEF TypeOK, RowTyped, TicketType, Versions
<1>3. ticket'.version = ticket.version /\ ticket.version = v
  BY <1>1, <1>2 DEF MovesOn, Wanted
<1>4. ticket'.until = ticket.until /\ ticket.until # None
  BY <1>1, <1>3 DEF MovesOn, Wanted, IsSnoozed
<1> QED  BY <1>3, <1>4 DEF Wanted, IsSnoozed, RowInv, Consistent

(* A ticket that is woken is not snoozed.                                  *)
LEMMA AwakeEnds ==
  ASSUME TypeOK, RowInv, NEW new, NEW time, Sound(ticket, new), new.status # "snoozed",
         Writes(new, time)
  PROVE  ~IsSnoozed(ticket')
BY GuardKeeps DEF Writes, IsSnoozed, TypeOK, RowInv

(* A new snooze comes with its event.                                      *)
LEMMA NewSnoozeIsTold ==
  ASSUME TypeOK, RowInv, [Next]_vars, IsSnoozed(ticket'), ticket'.version # ticket.version
  PROVE  \E e \in events' : e.version = ticket'.version
<1>0. RowTyped
  BY DEF TypeOK, RowTyped
<1>1. /\ Sound(ticket, Awake(ticket)) /\ Awake(ticket).status # "snoozed"
  BY <1>0, AwakeIsSound DEF Awake, WakesTo, RowTyped, TicketType
<1>2. ~SlaWakes /\ ~TimeWakes
  BY <1>1, AwakeEnds DEF SlaWakes, TimeWakes
<1>3. ASSUME NEW t \in past, RequestStep(t)
      PROVE  \E e \in events' : e.version = ticket'.version
  <2>0. t \in TicketType /\ now \in Nat
    BY LifecycleAssumption DEF TypeOK
  <2>1. ASSUME NEW d \in SnoozeFor, Snooze(t, d)
        PROVE  \E e \in events' : e.version = ticket'.version
    <3> DEFINE event == [version |-> ticket'.version, until |-> now + d]
    <3>1. event \in events' /\ event.version = ticket'.version
      BY <2>1 DEF Snooze
    <3> QED  BY <3>1
  <2>2. ~WakeNow(t)
    <3>1. /\ Sound(ticket, [Awake(t) EXCEPT !.closed = None])
          /\ [Awake(t) EXCEPT !.closed = None].status # "snoozed"
      BY <1>0, AwakeIsSound DEF Awake, WakesTo, RowTyped, TicketType
    <3> QED  BY <3>1, AwakeEnds DEF WakeNow
  <2>3. ~AgentReply(t)
    <3>1. Sound(ticket, Moved("awaiting", None)) /\ Moved("awaiting", None).status # "snoozed"
      BY <1>0, MovedIsSound DEF Moved, RowTyped, TicketType, Statuses, Times, ClosedStatuses
    <3> QED  BY <3>1, AwakeEnds DEF AgentReply
  <2>4. ASSUME NEW status \in Picks
        PROVE  ~SetStatus(t, status)
    <3> DEFINE kept == IF t.closed = None THEN now ELSE t.closed
               closed == IF status \in ClosedStatuses THEN kept ELSE None
    <3>1. /\ status \in Statuses \ {"snoozed"} /\ closed \in Times
          /\ status \in ClosedStatuses => closed # None
      BY <2>0, LifecycleAssumption DEF Statuses, Times, TicketType
    <3>2. Sound(ticket, Moved(status, closed)) /\ Moved(status, closed).status # "snoozed"
      BY <1>0, <3>1, MovedIsSound DEF Moved, RowTyped, TicketType
    <3> QED  BY <3>2, AwakeEnds DEF SetStatus
  <2>5. ASSUME NEW c \in Replies
        PROVE  ~ReplyContinues(t, c) /\ ~ReplyHere(t, c)
    <3>1. Sound(ticket, Moved("open", None)) /\ Moved("open", None).status # "snoozed"
      BY <1>0, MovedIsSound DEF Moved, RowTyped, TicketType, Statuses, Times, ClosedStatuses
    <3> QED  BY <3>1, AwakeEnds DEF ReplyContinues, ReplyHere, row
  <2> QED  BY <1>3, <2>1, <2>2, <2>3, <2>4, <2>5 DEF RequestStep
<1>4. ~Tick /\ ~UNCHANGED vars /\ ~UNCHANGED row
  BY DEF Tick, vars, row
<1>5. ASSUME NEW p \in Planners
      PROVE  ~PlannerStep(p)
  BY <1>2, <1>4, PlannersLeaveTheRow DEF RebuildWakes
<1>6. ~\E w \in Workers : WorkerStep(w)
  BY <1>2, <1>4 DEF WorkerStep, Take, TimerWakes, TimerIsOld, TimerIsEarly, Return
<1>7. ~Boot /\ ~\E v \in Versions : Promote(v) \/ RequeueStalled(v)
  BY <1>4 DEF Promote, RequeueStalled, Boot
<1>8. ~Troubles
  BY <1>4, TroublesLeaveTheRow
<1> QED  BY <1>2, <1>3, <1>4, <1>5, <1>6, <1>7, <1>8 DEF Next

(* Where versions come from.                                               *)
LEMMA EventsAreOfVersions ==
  ASSUME [Next]_vars, NEW e \in events'
  PROVE  e \in events \/ e.version = ticket'.version
<1> USE DEF jobs
<1>1. CASE Tick \/ SlaWakes
  BY <1>1 DEF Tick, SlaWakes
<1>2. ASSUME NEW t \in past, RequestStep(t)
      PROVE  e \in events \/ e.version = ticket'.version
  <2>1. ASSUME NEW d \in SnoozeFor, Snooze(t, d)
        PROVE  e \in events \/ e.version = ticket'.version
    BY <2>1 DEF Snooze
  <2>2. CASE ~\E d \in SnoozeFor : Snooze(t, d)
    BY <1>2, <2>2 DEF RequestStep, WakeNow, AgentReply, SetStatus, ReplyContinues, ReplyHere
  <2> QED  BY <2>1, <2>2
<1>3. ASSUME NEW p \in Planners, PlannerStep(p)
      PROVE  e \in events \/ e.version = ticket'.version
  BY <1>3, StopsFacts
     DEF PlannerStep, StartEvent, StartRebuild, RebuildWakes, Look, DropOld, LeaveAlone,
         ChangeDelay, Replace, Add, Ends, Forgotten, Refused
<1>4. CASE \E w \in Workers : WorkerStep(w)
  BY <1>4 DEF WorkerStep, Take, TimerWakes, TimerIsOld, TimerIsEarly, Return
<1>5. CASE (\E v \in Versions : Promote(v) \/ RequeueStalled(v)) \/ Boot
  BY <1>5 DEF Promote, RequeueStalled, Boot
<1>6. CASE Troubles
  BY <1>6, StopsFacts DEF Troubles, CrashWorker, TimerFails, LoseJobLock, PromoteEarly,
                          PlannerFails, RedisLoss
<1>7. CASE UNCHANGED vars
  BY <1>7 DEF vars
<1> QED  BY <1>1, <1>2, <1>3, <1>4, <1>5, <1>6, <1>7 DEF Next

LEMMA PlansAreOfVersions ==
  ASSUME TypeOK, [Next]_vars, NEW p \in Planners
  PROVE  \/ planner'[p].version \in {planner[p].version, ticket.version, 0}
         \/ \E e \in events : planner'[p].version = e.version
<1>0. planner \in [Planners -> PlanType] /\ NoPlan.version = 0
  BY DEF TypeOK, PlanType, NoPlan
<1>1. CASE ~RedisLoss /\ ~\E q \in Planners : PlannerStep(q) \/ PlannerFails(q)
  BY <1>1, OthersKeepPlans
<1>2. ASSUME NEW q \in Planners, PlannerStep(q) \/ PlannerFails(q)
      PROVE  \/ planner'[p].version \in {planner[p].version, ticket.version, 0}
             \/ \E e \in events : planner'[p].version = e.version
  <2> DEFINE Old(plan) == \/ plan.version \in {planner[q].version, ticket.version, 0}
                             \/ \E e \in events : plan.version = e.version
  <2>1. \E plan : planner' = [planner EXCEPT ![q] = plan] /\ Old(plan)
    <3>1. ASSUME NEW e \in events, q = "event", StartEvent(e)
          PROVE  \E plan : planner' = [planner EXCEPT ![q] = plan] /\ Old(plan)
      <4> DEFINE plan == [NoPlan EXCEPT !.pc = IF e.version > 1 THEN "old" ELSE "look",
                                        !.version = e.version, !.left = Left(e.until)]
      <4>1. planner' = [planner EXCEPT ![q] = plan] /\ plan.version = e.version
        BY <3>1 DEF StartEvent, Plans, NoPlan
      <4> QED  BY <4>1
    <3>2. CASE q = "rebuild" /\ StartRebuild
      <4> DEFINE plan == [NoPlan EXCEPT !.pc = IF ticket.until <= now THEN "wake" ELSE "look",
                                        !.version = ticket.version, !.left = Left(ticket.until)]
      <4>1. planner' = [planner EXCEPT ![q] = plan] /\ plan.version = ticket.version
        BY <3>2 DEF StartRebuild, Plans, NoPlan
      <4> QED  BY <4>1
    <3>3. CASE q = "rebuild" /\ RebuildWakes
      BY <1>0, <3>3 DEF RebuildWakes, Plans
    <3>4. CASE Look(q) \/ DropOld(q) \/ Replace(q)
      <4>1. planner[q] \in PlanType
        BY <1>0
      <4>2. /\ planner' = [planner EXCEPT ![q] = planner'[q]]
            /\ planner'[q].version = planner[q].version
        <5>1. CASE Look(q)
          BY <1>0, <4>1, <5>1 DEF Look, Plans, PlanType
        <5>2. CASE DropOld(q)
          BY <1>0, <4>1, <5>2 DEF DropOld, Plans, PlanType
        <5>3. CASE Replace(q)
          BY <1>0, <4>1, <5>3 DEF Replace, Plans, PlanType
        <5> QED  BY <3>4, <5>1, <5>2, <5>3
      <4> QED  BY <4>2
    <3>5. CASE LeaveAlone(q) \/ ChangeDelay(q) \/ Add(q)
      BY <1>0, <3>5 DEF LeaveAlone, ChangeDelay, Add, Ends, Plans
    <3>6. CASE Refused(q) \/ PlannerFails(q)
      BY <1>0, <3>6 DEF Refused, PlannerFails, Stops, Plans
    <3> QED  BY <1>2, <3>1, <3>2, <3>3, <3>4, <3>5, <3>6 DEF PlannerStep
  <2> QED  BY <1>0, <2>1
<1>3. CASE RedisLoss
  BY <1>3, LossFacts
<1> QED  BY <1>1, <1>2, <1>3

LEMMA WorkersAreOfVersions ==
  ASSUME TypeOK, [Next]_vars, NEW w \in Workers
  PROVE  \/ worker'[w].version \in {worker[w].version, 0}
         \/ \E v \in Versions : worker'[w].version = v /\ job[v].state # "none"
<1> USE DEF jobs, Works
<1>0. worker \in [Workers -> WorkerType] /\ Idle.version = 0
  BY DEF TypeOK, WorkerType, Idle
<1>1. CASE Tick \/ SlaWakes
  BY <1>1 DEF Tick, SlaWakes
<1>2. CASE \E t \in past : RequestStep(t)
  BY <1>2 DEF RequestStep, WakeNow, AgentReply, SetStatus, Snooze, ReplyContinues, ReplyHere
<1>3. CASE \E p \in Planners : PlannerStep(p)
  BY <1>3 DEF PlannerStep, StartEvent, StartRebuild, RebuildWakes, Look, DropOld, LeaveAlone,
              ChangeDelay, Replace, Add, Ends, Refused
<1>4. ASSUME NEW x \in Workers, WorkerStep(x)
      PROVE  \/ worker'[w].version \in {worker[w].version, 0}
             \/ \E v \in Versions : worker'[w].version = v /\ job[v].state # "none"
  <2>1. ASSUME NEW v \in Versions, Take(x, v)
        PROVE  \/ worker'[w].version = worker[w].version
               \/ worker'[w].version = v /\ job[v].state # "none"
    BY <1>0, <2>1 DEF Take, Idle
  <2>2. CASE TimerWakes(x) \/ TimerIsOld(x) \/ TimerIsEarly(x) \/ Return(x)
    <3>1. worker[x] \in WorkerType
      BY <1>0
    <3>2. \E at : worker' = [worker EXCEPT ![x] = at] /\ at.version \in {worker[x].version, 0}
      BY <1>0, <2>2, <3>1 DEF TimerWakes, TimerIsOld, TimerIsEarly, Return, WorkerType
    <3> QED  BY <1>0, <3>2
  <2> QED  BY <1>4, <2>1, <2>2 DEF WorkerStep
<1>5. CASE (\E v \in Versions : Promote(v) \/ RequeueStalled(v)) \/ Boot
  BY <1>5 DEF Promote, RequeueStalled, Boot
<1>6. CASE Troubles
  BY <1>0, <1>6 DEF Troubles, CrashWorker, TimerFails, LoseJobLock, PromoteEarly,
                    PlannerFails, RedisLoss
<1>7. CASE UNCHANGED vars
  BY <1>7 DEF vars
<1> QED  BY <1>1, <1>2, <1>3, <1>4, <1>5, <1>6, <1>7 DEF Next

(* A job is there already, or is put there by who has its version in hand. *)
LEMMA JobsAreOfVersions ==
  ASSUME TypeOK, [Next]_vars, NEW v \in Versions, job'[v].state # "none"
  PROVE  \/ job[v].state # "none"
         \/ \E p \in Planners : planner[p].version = v
         \/ \E w \in Workers : worker[w].version = v
<1> USE DEF jobs
<1>0. job \in [Versions -> JobType] /\ NoJob.state = "none"
  BY DEF TypeOK, JobType, NoJob
<1> SUFFICES \/ \E x \in Versions : job' = [job EXCEPT ![x] = job'[x]] /\
                   \/ job[x].state # "none"
                   \/ \E p \in Planners : planner[p].version = x
                   \/ \E w \in Workers : worker[w].version = x
             \/ UNCHANGED job
             \/ \A x \in Versions : job'[x] \in {job[x], NoJob}
  BY <1>0
<1>1. CASE Tick \/ SlaWakes
  BY <1>1 DEF Tick, SlaWakes
<1>2. CASE \E t \in past : RequestStep(t)
  BY <1>2 DEF RequestStep, WakeNow, AgentReply, SetStatus, Snooze, ReplyContinues, ReplyHere
<1>3. ASSUME NEW p \in Planners, PlannerStep(p)
      PROVE  \/ UNCHANGED job
             \/ \E x \in Versions : job' = [job EXCEPT ![x] = job'[x]] /\ planner[p].version = x
             \/ \A x \in Versions : job'[x] \in {job[x], NoJob}
  <2>1. planner[p].version \in Versions
    BY DEF TypeOK
  <2>2. CASE ChangeDelay(p) \/ Replace(p) \/ Add(p)
    BY <1>0, <2>1, <2>2 DEF ChangeDelay, Replace, Add
  <2>3. CASE DropOld(p)
    BY <1>0, <2>3 DEF DropOld
  <2>4. CASE ~(DropOld(p) \/ ChangeDelay(p) \/ Replace(p) \/ Add(p))
    BY <1>3, <2>4 DEF PlannerStep, StartEvent, StartRebuild, RebuildWakes, Look, LeaveAlone,
                      Refused
  <2> QED  BY <2>2, <2>3, <2>4
<1>4. ASSUME NEW w \in Workers, WorkerStep(w)
      PROVE  \/ UNCHANGED job
             \/ \E x \in Versions : job' = [job EXCEPT ![x] = job'[x]] /\
                  (job[x].state # "none" \/ worker[w].version = x)
  <2>1. worker[w].version \in Versions
    BY DEF TypeOK
  <2>2. ASSUME NEW x \in Versions, Take(w, x)
        PROVE  job' = [job EXCEPT ![x] = job'[x]] /\ job[x].state # "none"
    BY <1>0, <2>2 DEF Take
  <2>3. CASE Return(w)
    BY <1>0, <2>1, <2>3 DEF Return
  <2>4. CASE TimerWakes(w) \/ TimerIsOld(w) \/ TimerIsEarly(w)
    BY <2>4 DEF TimerWakes, TimerIsOld, TimerIsEarly
  <2> QED  BY <1>4, <2>2, <2>3, <2>4 DEF WorkerStep
<1>5. ASSUME NEW x \in Versions, Promote(x) \/ RequeueStalled(x)
      PROVE  job' = [job EXCEPT ![x] = job'[x]] /\ job[x].state # "none"
  BY <1>0, <1>5 DEF Promote, RequeueStalled
<1>6. CASE Troubles
  <2>1. ASSUME NEW w \in Workers, NEW last \in BOOLEAN, TimerFails(w, last)
        PROVE  \/ UNCHANGED job
               \/ \E x \in Versions : job' = [job EXCEPT ![x] = job'[x]] /\ worker[w].version = x
    <3>1. worker[w].version \in Versions
      BY DEF TypeOK
    <3> QED  BY <1>0, <2>1, <3>1 DEF TimerFails
  <2>2. ASSUME NEW x \in Versions, LoseJobLock(x) \/ PromoteEarly(x)
        PROVE  job' = [job EXCEPT ![x] = job'[x]] /\ job[x].state # "none"
    BY <1>0, <2>2 DEF LoseJobLock, PromoteEarly
  <2>3. CASE RedisLoss
    BY <2>3 DEF RedisLoss
  <2>4. ASSUME (\E w \in Workers : CrashWorker(w)) \/ \E p \in Planners : PlannerFails(p)
        PROVE  UNCHANGED job
    BY <2>4 DEF CrashWorker, PlannerFails
  <2> QED  BY <1>6, <2>1, <2>2, <2>3, <2>4 DEF Troubles
<1>7. CASE Boot \/ UNCHANGED vars
  BY <1>7 DEF Boot, vars
<1> QED  BY <1>1, <1>2, <1>3, <1>4, <1>5, <1>6, <1>7 DEF Next

LEMMA BoundStep ==
  ASSUME TypeOK, RowInv, BoundInv, [Next]_vars
  PROVE  BoundInv'
<1>0. /\ ticket.version \in Nat /\ ticket'.version \in Nat
      /\ ticket.version <= ticket'.version
  BY RowStep, LifecycleAssumption DEF MovesOn, TypeOK, RowTyped, TicketType, Versions
<1>1. \A e \in events : e.version \in Nat
  BY LifecycleAssumption DEF TypeOK, Versions
<1>2. \A p \in Planners : planner[p].version \in Nat
  BY LifecycleAssumption DEF TypeOK, Versions
<1>3. \A w \in Workers : worker[w].version \in Nat
  BY LifecycleAssumption DEF TypeOK, Versions
<1>4. \A e \in events' : e.version <= ticket'.version
  BY <1>0, <1>1, EventsAreOfVersions DEF BoundInv
<1>5. \A p \in Planners : planner'[p].version <= ticket'.version
  BY <1>0, <1>1, <1>2, PlansAreOfVersions DEF BoundInv
<1>6. \A w \in Workers : worker'[w].version <= ticket'.version
  BY <1>0, <1>3, WorkersAreOfVersions, LifecycleAssumption DEF BoundInv, Versions
<1>7. \A v \in Versions : job'[v].state # "none" => v <= ticket'.version
  <2> TAKE v \in Versions
  <2> HAVE job'[v].state # "none"
  <2>1. v <= ticket.version
    BY JobsAreOfVersions DEF BoundInv
  <2> QED  BY <1>0, <2>1, LifecycleAssumption DEF Versions
<1> QED  BY <1>4, <1>5, <1>6, <1>7 DEF BoundInv

(* Only a worker that has asked the ticket is done.                        *)
LEMMA DoneComesFrom ==
  ASSUME TypeOK, [Next]_vars, NEW w \in Workers, worker'[w].pc = "done"
  PROVE  UNCHANGED worker[w] \/ TimerWakes(w) \/ TimerIsOld(w)
<1> USE DEF jobs, Works
<1>0. worker \in [Workers -> WorkerType] /\ Idle.pc = "idle"
  BY DEF TypeOK, WorkerType, Idle
<1>1. CASE Tick \/ SlaWakes
  BY <1>1 DEF Tick, SlaWakes
<1>2. CASE \E t \in past : RequestStep(t)
  BY <1>2 DEF RequestStep, WakeNow, AgentReply, SetStatus, Snooze, ReplyContinues, ReplyHere
<1>3. CASE \E p \in Planners : PlannerStep(p)
  BY <1>3 DEF PlannerStep, StartEvent, StartRebuild, RebuildWakes, Look, DropOld, LeaveAlone,
              ChangeDelay, Replace, Add, Ends, Refused
<1>4. ASSUME NEW x \in Workers, WorkerStep(x)
      PROVE  UNCHANGED worker[w] \/ TimerWakes(w) \/ TimerIsOld(w)
  <2>1. CASE x # w
    BY <1>0, <1>4, <2>1 DEF WorkerStep, Take, TimerWakes, TimerIsOld, TimerIsEarly, Return
  <2>2. ASSUME x = w, NEW v \in Versions, Take(w, v)
        PROVE  FALSE
    BY <1>0, <2>2 DEF Take, Idle
  <2>3. ~TimerIsEarly(w) /\ ~Return(w)
    BY <1>0 DEF TimerIsEarly, Return, WorkerType
  <2> QED  BY <1>4, <2>1, <2>2, <2>3 DEF WorkerStep
<1>5. CASE (\E v \in Versions : Promote(v) \/ RequeueStalled(v)) \/ Boot
  BY <1>5 DEF Promote, RequeueStalled, Boot
<1>6. CASE Troubles
  BY <1>0, <1>6 DEF Troubles, CrashWorker, TimerFails, LoseJobLock, PromoteEarly,
                    PlannerFails, RedisLoss
<1>7. CASE UNCHANGED vars
  BY <1>7 DEF vars
<1> QED  BY <1>1, <1>2, <1>3, <1>4, <1>5, <1>6, <1>7 DEF Next

LEMMA DoneStep ==
  ASSUME TypeOK, RowInv, BoundInv, DoneInv, [Next]_vars
  PROVE  DoneInv'
<1> SUFFICES ASSUME NEW w \in Workers, worker'[w].pc = "done", Wanted(worker[w].version)'
             PROVE  FALSE
  BY DEF DoneInv
<1>0. worker[w] \in WorkerType /\ worker[w].version <= ticket.version
  BY DEF TypeOK, WorkerType, BoundInv
<1>1. worker'[w].version = worker[w].version
  BY <1>0, DoneComesFrom DEF TimerWakes, TimerIsOld, Works, TypeOK, WorkerType
<1>2. PICK v \in Versions : v = worker[w].version
  BY <1>0 DEF WorkerType
<1>3. Wanted(v)
  BY <1>0, <1>1, <1>2, SnoozeGoesOn DEF Wanted
<1>4. ~UNCHANGED worker[w] /\ ~TimerIsOld(w)
  BY <1>2, <1>3 DEF DoneInv, TimerIsOld
<1>5. ~TimerWakes(w)
  <2>1. Sound(ticket, Awake(ticket)) /\ Awake(ticket).status # "snoozed"
    BY AwakeIsSound DEF Awake, WakesTo, TypeOK, RowTyped, TicketType
  <2> QED  BY <2>1, AwakeEnds DEF TimerWakes, TimeWakes, Wanted
<1> QED  BY <1>4, <1>5, DoneComesFrom

LEMMA TimeGoesOn ==
  ASSUME TypeOK, [Next]_vars
  PROVE  now' >= now /\ (UNCHANGED row => UNCHANGED ticket)
<1>0. now \in Nat
  BY LifecycleAssumption DEF TypeOK
<1>1. CASE Tick
  BY <1>0, <1>1 DEF Tick, row
<1>2. CASE ~Tick
  <2>1. ASSUME \E t \in past : RequestStep(t)
        PROVE  UNCHANGED now
    BY <2>1 DEF RequestStep, WakeNow, AgentReply, SetStatus, Snooze, ReplyContinues, ReplyHere
  <2>2. ASSUME \E p \in Planners : PlannerStep(p)
        PROVE  UNCHANGED now
    BY <2>2 DEF PlannerStep, StartEvent, StartRebuild, RebuildWakes, Look, DropOld, LeaveAlone,
                ChangeDelay, Replace, Add, Ends, Refused
  <2>3. ASSUME \E w \in Workers : WorkerStep(w)
        PROVE  UNCHANGED now
    BY <2>3 DEF WorkerStep, Take, TimerWakes, TimerIsOld, TimerIsEarly, Return
  <2>4. ASSUME Troubles
        PROVE  UNCHANGED now
    BY <2>4 DEF Troubles, CrashWorker, TimerFails, LoseJobLock, PromoteEarly, PlannerFails,
                RedisLoss
  <2>5. UNCHANGED now
    BY <1>2, <2>1, <2>2, <2>3, <2>4 DEF Next, vars, SlaWakes, Promote, RequeueStalled, Boot
  <2> QED  BY <1>0, <2>5 DEF row
<1> QED  BY <1>1, <1>2

(* Only a rebuild that reads a passed time wakes.                          *)
LEMMA WakeComesFrom ==
  ASSUME TypeOK, [Next]_vars, planner'["rebuild"].pc = "wake"
  PROVE  UNCHANGED planner["rebuild"] \/ StartRebuild
<1>0. /\ planner \in [Planners -> PlanType] /\ NoPlan.pc = "idle"
      /\ "rebuild" \in Planners
  BY DEF TypeOK, PlanType, NoPlan, Planners
<1>1. CASE ~RedisLoss /\ ~\E p \in Planners : PlannerStep(p) \/ PlannerFails(p)
  BY <1>1, OthersKeepPlans
<1>2. ASSUME NEW p \in Planners, PlannerStep(p) \/ PlannerFails(p)
      PROVE  UNCHANGED planner["rebuild"] \/ StartRebuild
  <2>1. CASE p # "rebuild"
    <3>1. ASSUME NEW plan, Plans(p, plan)
          PROVE  UNCHANGED planner["rebuild"]
      BY <1>0, <2>1, <3>1 DEF Plans
    <3>2. ASSUME NEW e \in events, p = "event", StartEvent(e)
          PROVE  UNCHANGED planner["rebuild"]
      BY <3>1, <3>2 DEF StartEvent
    <3>3. CASE Look(p) \/ DropOld(p) \/ Replace(p)
      <4>1. CASE Look(p)
        BY <3>1, <4>1 DEF Look
      <4>2. CASE DropOld(p)
        BY <3>1, <4>2 DEF DropOld
      <4>3. CASE Replace(p)
        BY <3>1, <4>3 DEF Replace
      <4> QED  BY <3>3, <4>1, <4>2, <4>3
    <3>4. CASE LeaveAlone(p) \/ ChangeDelay(p) \/ Add(p) \/ Refused(p) \/ PlannerFails(p)
      <4>1. Plans(p, NoPlan)
        BY <3>4 DEF LeaveAlone, ChangeDelay, Add, Ends, Refused, PlannerFails, Stops
      <4> QED  BY <3>1, <4>1
    <3> QED  BY <1>2, <2>1, <3>2, <3>3, <3>4 DEF PlannerStep
  <2>2. CASE p = "rebuild"
    <3>1. ~RebuildWakes /\ ~LeaveAlone(p) /\ ~ChangeDelay(p) /\ ~Add(p) /\ ~Refused(p)
          /\ ~PlannerFails(p)
      BY <1>0, <2>2 DEF RebuildWakes, LeaveAlone, ChangeDelay, Add, Ends, Refused,
                        PlannerFails, Stops, Plans
    <3>2. ~Look(p)
      <4>1. planner[p] \in PlanType
        BY <1>0
      <4>2. Look(p) => planner'[p].pc \in {"drop", "set"}
        BY <1>0, <4>1 DEF Look, Plans, PlanType
      <4> QED  BY <2>2, <4>2
    <3>3. ~DropOld(p)
      BY <1>0, <2>2 DEF DropOld, Plans, PlanType
    <3>4. ~Replace(p)
      BY <1>0, <2>2 DEF Replace, Plans, PlanType
    <3> QED  BY <1>2, <2>2, <3>1, <3>2, <3>3, <3>4 DEF PlannerStep
  <2> QED  BY <2>1, <2>2
<1>3. CASE RedisLoss
  BY <1>3, LossFacts
<1> QED  BY <1>1, <1>2, <1>3

(* A rebuild that wakes found the time passed, and time does not go back.  *)
LEMMA DueStep ==
  ASSUME TypeOK, RowInv, BoundInv, DueInv, [Next]_vars
  PROVE  DueInv'
<1> SUFFICES ASSUME planner'["rebuild"].pc = "wake", Wanted(planner["rebuild"].version)'
             PROVE  ticket'.until <= now'
  BY DEF DueInv
<1>0. /\ now \in Nat /\ now' >= now /\ now' \in Nat /\ NoPlan.version = 0
      /\ ticket.until \in Times
  BY TimeGoesOn, CountsStep, TypeParts, LifecycleAssumption
     DEF CountsTyped, RowTyped, TicketType, NoPlan
<1>1. CASE UNCHANGED planner["rebuild"]
  <2>1. PICK v \in Versions : v = planner["rebuild"].version /\ v <= ticket.version
    BY DEF TypeOK, Planners, BoundInv
  <2>2. Wanted(v) /\ ticket'.until = ticket.until
    BY <1>1, <2>1, SnoozeGoesOn DEF Wanted
  <2>3. ticket.until <= now /\ ticket.until \in Nat
    BY <1>0, <1>1, <2>1, <2>2 DEF DueInv, Wanted, IsSnoozed, Times
  <2> QED  BY <1>0, <2>2, <2>3
<1>2. CASE StartRebuild
  <2>1. ticket' = ticket /\ ticket.until \in Nat /\ now' = now
    BY <1>0, <1>2 DEF StartRebuild, row, IsSnoozed, Times
  <2>2. ticket.until <= now
    BY <1>2 DEF StartRebuild, Plans, TypeOK, Planners, NoPlan
  <2> QED  BY <1>0, <2>1, <2>2
<1> QED  BY <1>1, <1>2, WakeComesFrom

-----------------------------------------------------------------------------
(* Jobs.                                                                   *)

LEMMA RebuildStarts ==
  ASSUME TypeOK, StartRebuild
  PROVE  /\ planner["rebuild"].pc = "idle" /\ planner'["rebuild"].pc \in {"wake", "look"}
         /\ planner'["rebuild"].version = ticket.version
         /\ planner' = [planner EXCEPT !["rebuild"] = planner'["rebuild"]]
         /\ ticket' = ticket
BY DEF StartRebuild, Plans, NoPlan, TypeOK, Planners, row

(* The job of a snooze that goes on stays, or the rebuild will add it:     *)
(* nobody but the handler takes it away, to add it again.                  *)
LEMMA JobStays ==
  ASSUME TypeOK, RowInv, PlanInv, BoundInv, DoneInv, DueInv, [Next]_vars,
         NEW v \in Versions, Wanted(v), Wanted(v)', ~raced',
         Replace("event") => planner["event"].version # v,
         job[v].state # "none" \/ Sees(v) \/ StartRebuild
  PROVE  job'[v].state # "none" \/ Sees(v)'
<1> USE DEF jobs
<1>0. /\ job \in [Versions -> JobType] /\ planner \in [Planners -> PlanType]
      /\ "rebuild" \in Planners /\ v = ticket.version
      /\ \A w \in Workers : worker[w].pc = "done" => worker[w].version # v
  BY DEF TypeOK, JobType, PlanType, Planners, Wanted, DoneInv
<1>1. CASE UNCHANGED <<job, planner>>
  <2>1. ~StartRebuild
    BY <1>1, RebuildStarts
  <2> QED  BY <1>1, <2>1 DEF Sees
<1>2. CASE StartRebuild
  BY <1>0, <1>2, RebuildStarts DEF Sees
<1>3. ASSUME NEW p \in Planners, PlannerStep(p), ~StartRebuild
      PROVE  job'[v].state # "none" \/ Sees(v)'
  <2>1. ASSUME NEW e \in events, p = "event", StartEvent(e)
        PROVE  job'[v].state # "none" \/ Sees(v)'
    BY <1>0, <1>3, <2>1 DEF StartEvent, Plans, Sees
  <2>2. CASE p = "rebuild" /\ RebuildWakes
    <3>1. job[v].state # "none"
      <4>1. SUFFICES ASSUME Sees(v)
                     PROVE  FALSE
        BY <1>3
      <4>2. planner["rebuild"].version = v /\ planner["rebuild"].pc = "wake"
        BY <2>2, <4>1 DEF Sees, RebuildWakes
      <4>3. TimeWakes
        BY <2>2, <4>2 DEF RebuildWakes, Due, DueInv
      <4>4. Sound(ticket, Awake(ticket)) /\ Awake(ticket).status # "snoozed"
        BY AwakeIsSound DEF Awake, WakesTo, TypeOK, RowTyped, TicketType
      <4> QED  BY <4>3, <4>4, AwakeEnds DEF TimeWakes, Wanted
    <3> QED  BY <2>2, <3>1 DEF RebuildWakes
  <2>3. CASE Look(p)
    <3>1. UNCHANGED job
      BY <2>3 DEF Look
    <3>2. CASE p = "event"
      BY <1>0, <1>3, <2>3, <3>1, <3>2 DEF Look, Plans, Sees
    <3>3. CASE p = "rebuild" /\ Sees(v)
      <4>1. planner[p].version = v /\ planner[p].pc = "look" /\ Target(p) = v
        BY <1>0, <2>3, <3>3 DEF Look, Sees, PlanInv, Target
      <4>2. planner' = [planner EXCEPT ![p] = [@ EXCEPT !.pc = "set", !.saw = job[v].state]]
        BY <1>0, <2>3, <4>1 DEF Look, Plans
      <4>3. planner[p] \in PlanType
        BY <1>0
      <4>4. /\ planner'["rebuild"].version = v /\ planner'["rebuild"].pc = "set"
            /\ planner'["rebuild"].saw = job[v].state
        BY <1>0, <3>3, <4>1, <4>2, <4>3 DEF PlanType
      <4> QED  BY <3>1, <4>4 DEF Sees
    <3> QED  BY <1>3, <3>1, <3>2, <3>3 DEF Planners
  <2>4. CASE DropOld(p)
    <3>1. p = "event" /\ planner[p].version \in Versions /\ planner[p].version <= v
      BY <1>0, <2>4 DEF DropOld, PlanInv, PlanType, BoundInv
    <3>2. Target(p) = planner[p].version - 1
      BY <2>4 DEF DropOld, Target
    <3>3. Target(p) # v
      BY <3>1, <3>2, LifecycleAssumption DEF Versions
    <3>4. job'[v] = job[v]
      BY <1>0, <2>4, <3>3 DEF DropOld
    <3>5. planner'["rebuild"] = planner["rebuild"]
      BY <1>0, <2>4, <3>1 DEF DropOld, Plans
    <3> QED  BY <1>3, <3>4, <3>5 DEF Sees
  <2>5. CASE LeaveAlone(p)
    BY <1>0, <1>3, <2>5 DEF LeaveAlone, Ends, Plans, Sees
  <2>6. CASE ChangeDelay(p)
    BY <1>0, <1>3, <2>6 DEF ChangeDelay, Ends, Plans, Sees, Delayed
  <2>7. CASE Replace(p)
    <3>1. planner[p] \in PlanType
      BY <1>0
    <3>2. ~Sees(v) => job[v].state # "none"
      BY <1>3
    <3>3. CASE planner[p].version # v
      <4>1. job'[v] = job[v]
        BY <1>0, <2>7, <3>3 DEF Replace
      <4>2. CASE p = "event"
        BY <1>0, <2>7, <3>2, <4>1, <4>2 DEF Replace, Plans, Sees
      <4>3. CASE p = "rebuild"
        BY <3>2, <3>3, <4>1, <4>3 DEF Sees
      <4> QED  BY <4>2, <4>3 DEF Planners
    <3>4. CASE planner[p].version = v
      <4>0. p = "rebuild"
        BY <2>7, <3>4 DEF Planners
      <4>1. planner'["rebuild"].version = v /\ planner'["rebuild"].pc = "set"
            /\ planner'["rebuild"].saw = "none"
        BY <1>0, <2>7, <3>1, <3>4, <4>0 DEF Replace, Plans, PlanType
      <4> QED  BY <4>1 DEF Sees
    <3> QED  BY <3>3, <3>4
  <2>8. CASE Add(p)
    BY <1>0, <1>3, <2>8 DEF Add, Ends, Plans, Sees, Delayed
  <2>9. CASE Refused(p)
    <3>1. p = "event" /\ UNCHANGED job
      BY <2>9 DEF Refused, Stops, Planners
    <3> QED  BY <1>0, <1>3, <2>9, <3>1 DEF Refused, Stops, Plans, Sees
  <2> QED  BY <1>3, <2>1, <2>2, <2>3, <2>4, <2>5, <2>6, <2>7, <2>8, <2>9 DEF PlannerStep
<1>4. ASSUME NEW w \in Workers, WorkerStep(w)
      PROVE  job'[v].state # "none" \/ Sees(v)'
  <2>1. UNCHANGED planner /\ ~StartRebuild
    <3>1. UNCHANGED planner
      BY <1>4 DEF WorkerStep, Take, TimerWakes, TimerIsOld, TimerIsEarly, Return
    <3> QED  BY <3>1, RebuildStarts
  <2>2. job[v].state # "none" => job'[v].state # "none"
    <3>1. ASSUME NEW x \in Versions, Take(w, x), job[v].state # "none"
          PROVE  job'[v].state # "none"
      BY <1>0, <3>1 DEF Take, JobType
    <3>2. ASSUME Return(w), job[v].state # "none"
          PROVE  job'[v].state # "none"
      BY <1>0, <3>2 DEF Return, Delayed
    <3>3. CASE TimerWakes(w) \/ TimerIsOld(w) \/ TimerIsEarly(w)
      BY <3>3 DEF TimerWakes, TimerIsOld, TimerIsEarly
    <3> QED  BY <1>4, <3>1, <3>2, <3>3 DEF WorkerStep
  <2> QED  BY <2>1, <2>2 DEF Sees
<1>5. ASSUME NEW x \in Versions, Promote(x) \/ RequeueStalled(x)
      PROVE  job'[v].state # "none" \/ Sees(v)'
  <2>1. UNCHANGED planner /\ ~StartRebuild
    <3>1. UNCHANGED planner
      BY <1>5 DEF Promote, RequeueStalled
    <3> QED  BY <3>1, RebuildStarts
  <2>2. job[v].state # "none" => job'[v].state # "none"
    BY <1>0, <1>5 DEF Promote, RequeueStalled, Waiting, NoJob
  <2> QED  BY <2>1, <2>2 DEF Sees
<1>6. CASE Troubles
  <2>1. ~RedisLoss
    BY DEF RedisLoss
  <2>2. ASSUME NEW p \in Planners, PlannerFails(p)
        PROVE  job'[v].state # "none" \/ Sees(v)'
    <3>1. p = "event"
      BY <2>2 DEF PlannerFails, Stops, Planners
    <3>2. UNCHANGED job /\ planner'["rebuild"] = planner["rebuild"]
      BY <1>0, <2>2, <3>1 DEF PlannerFails, Stops, Plans
    <3> QED  BY <3>2, RebuildStarts DEF Sees
  <2>3. ASSUME ~\E p \in Planners : PlannerFails(p)
        PROVE  job'[v].state # "none" \/ Sees(v)'
    <3>1. UNCHANGED planner
      BY <1>6, <2>1, <2>3 DEF Troubles, CrashWorker, TimerFails, LoseJobLock, PromoteEarly
    <3>2. ASSUME NEW w \in Workers, NEW last \in BOOLEAN, TimerFails(w, last)
          PROVE  job[v].state # "none" => job'[v].state # "none"
      BY <1>0, <3>2 DEF TimerFails, Delayed, NoJob
    <3>3. ASSUME NEW x \in Versions, LoseJobLock(x) \/ PromoteEarly(x)
          PROVE  job[v].state # "none" => job'[v].state # "none"
      BY <1>0, <3>3 DEF LoseJobLock, PromoteEarly, Waiting, NoJob
    <3>4. ASSUME \E w \in Workers : CrashWorker(w)
          PROVE  job[v].state # "none" => job'[v].state # "none"
      BY <3>4 DEF CrashWorker
    <3>5. job[v].state # "none" => job'[v].state # "none"
      BY <1>6, <2>1, <2>3, <3>2, <3>3, <3>4 DEF Troubles
    <3> QED  BY <3>1, <3>5, RebuildStarts DEF Sees
  <2> QED  BY <2>2, <2>3
<1>7. Tick \/ SlaWakes \/ Boot \/ UNCHANGED vars => UNCHANGED <<job, planner>>
  BY DEF Tick, SlaWakes, Boot, vars
<1>8. (\E t \in past : RequestStep(t)) => UNCHANGED <<job, planner>>
  BY DEF RequestStep, WakeNow, AgentReply, SetStatus, Snooze, ReplyContinues, ReplyHere
<1> QED  BY <1>1, <1>2, <1>3, <1>4, <1>5, <1>6, <1>7, <1>8 DEF Next

(* Only a rebuild makes good what was lost.                                *)
LEMMA RacedEnds ==
  ASSUME [Next]_vars, raced, ~raced'
  PROVE  StartRebuild
<1>1. ~Tick /\ ~SlaWakes /\ ~Boot /\ ~UNCHANGED vars
  BY DEF Tick, SlaWakes, Boot, vars
<1>2. ~\E t \in past : RequestStep(t)
  BY DEF RequestStep, WakeNow, AgentReply, SetStatus, Snooze, ReplyContinues, ReplyHere
<1>3. ASSUME NEW p \in Planners, PlannerStep(p)
      PROVE  StartRebuild
  BY <1>3 DEF PlannerStep, StartEvent, RebuildWakes, Look, DropOld, LeaveAlone, ChangeDelay,
              Replace, Add, Refused, Stops
<1>4. ~\E w \in Workers : WorkerStep(w)
  BY DEF WorkerStep, Take, TimerWakes, TimerIsOld, TimerIsEarly, Return
<1>5. ~Boot /\ ~\E v \in Versions : Promote(v) \/ RequeueStalled(v)
  BY DEF Promote, RequeueStalled, Boot
<1>6. ~Troubles
  BY DEF Troubles, CrashWorker, TimerFails, LoseJobLock, PromoteEarly, PlannerFails, Stops,
         RedisLoss
<1> QED  BY <1>1, <1>2, <1>3, <1>4, <1>5, <1>6 DEF Next

(* The handler decides to leave a job alone only when it sees one running. *)
LEMMA LeavingComesFrom ==
  ASSUME TypeOK, PlanInv, [Next]_vars,
         planner'["event"].pc = "set", planner'["event"].saw = "active", ~raced'
  PROVE  \/ UNCHANGED planner["event"]
         \/ /\ UNCHANGED <<job, ticket>> /\ planner'["event"].version \in Versions
            /\ job[planner'["event"].version].state = "active"
<1>0. /\ planner \in [Planners -> PlanType] /\ NoPlan.pc = "idle"
      /\ "event" \in Planners
  BY DEF TypeOK, PlanType, NoPlan, Planners
<1>1. CASE ~RedisLoss /\ ~\E p \in Planners : PlannerStep(p) \/ PlannerFails(p)
  BY <1>1, OthersKeepPlans
<1>2. ASSUME NEW p \in Planners, PlannerStep(p) \/ PlannerFails(p)
      PROVE  \/ UNCHANGED planner["event"]
             \/ /\ UNCHANGED <<job, ticket>> /\ planner'["event"].version \in Versions
                /\ job[planner'["event"].version].state = "active"
  <2>1. CASE p # "event"
    <3>1. ASSUME NEW plan, Plans(p, plan)
          PROVE  UNCHANGED planner["event"]
      BY <1>0, <2>1, <3>1 DEF Plans
    <3>2. CASE StartRebuild
      BY <1>0, <3>2, RebuildStarts
    <3>3. CASE RebuildWakes
      BY <1>0, <3>3 DEF RebuildWakes, Plans
    <3>4. CASE Look(p)
      BY <3>1, <3>4 DEF Look
    <3>5. CASE DropOld(p)
      BY <3>1, <3>5 DEF DropOld
    <3>6. CASE Replace(p)
      BY <3>1, <3>6 DEF Replace
    <3>7. CASE LeaveAlone(p) \/ ChangeDelay(p) \/ Add(p) \/ Refused(p) \/ PlannerFails(p)
      <4>1. Plans(p, NoPlan)
        BY <3>7 DEF LeaveAlone, ChangeDelay, Add, Ends, Refused, PlannerFails, Stops
      <4> QED  BY <3>1, <4>1
    <3> QED  BY <1>2, <2>1, <3>2, <3>3, <3>4, <3>5, <3>6, <3>7 DEF PlannerStep
  <2>2. CASE p = "event"
    <3>0. planner[p] \in PlanType
      BY <1>0
    <3>1. ~LeaveAlone(p) /\ ~ChangeDelay(p) /\ ~Add(p) /\ ~Refused(p) /\ ~PlannerFails(p)
      BY <1>0, <2>2 DEF LeaveAlone, ChangeDelay, Add, Ends, Refused, PlannerFails, Stops, Plans
    <3>2. ~\E e \in events : StartEvent(e)
      BY <1>0, <2>2 DEF StartEvent, Plans, NoPlan
    <3>3. ~DropOld(p) /\ ~Replace(p)
      <4>1. DropOld(p) => planner'[p].pc = "look"
        BY <1>0, <3>0 DEF DropOld, Plans, PlanType
      <4>2. Replace(p) => planner'[p].saw = "none"
        BY <1>0, <3>0 DEF Replace, Plans, PlanType
      <4> QED  BY <2>2, <4>1, <4>2
    <3>4. CASE Look(p)
      <4>1. CASE planner[p].pc = "old"
        BY <1>0, <2>2, <3>0, <3>4, <4>1 DEF Look, Plans, PlanType
      <4>2. CASE planner[p].pc = "look"
        <5>1. planner' = [planner EXCEPT ![p] = [@ EXCEPT !.pc = "set",
                                                          !.saw = job[planner[p].version].state]]
          BY <1>0, <3>4, <4>2 DEF Look, Plans, Target
        <5>2. /\ planner'["event"].version = planner[p].version
              /\ planner'["event"].saw = job[planner[p].version].state
          BY <1>0, <2>2, <3>0, <5>1 DEF PlanType
        <5> QED  BY <3>0, <3>4, <5>2 DEF Look, row, PlanType
      <4> QED  BY <3>4, <4>1, <4>2 DEF Look
    <3> QED  BY <1>2, <2>2, <3>1, <3>2, <3>3, <3>4 DEF PlannerStep
  <2> QED  BY <2>1, <2>2
<1>3. ~RedisLoss
  BY DEF RedisLoss
<1> QED  BY <1>1, <1>2, <1>3

LEMMA LeftAloneStep ==
  ASSUME TypeOK, RowInv, PlanInv, BoundInv, DoneInv, DueInv, LeftAloneInv, [Next]_vars
  PROVE  LeftAloneInv'
<1> SUFFICES ASSUME ~raced', planner'["event"].pc = "set", planner'["event"].saw = "active",
                    NEW v, v = planner'["event"].version, Wanted(v)'
             PROVE  job'[v].state # "none" \/ Sees(v)'
  BY DEF LeftAloneInv
<1>1. CASE UNCHANGED <<job, ticket>> /\ v \in Versions /\ job[v].state = "active"
  BY <1>1
<1>2. CASE UNCHANGED planner["event"]
  <2>1. v = planner["event"].version /\ v \in Versions /\ v <= ticket.version
    BY <1>2 DEF TypeOK, BoundInv, Planners
  <2>2. Wanted(v)
    BY <2>1, SnoozeGoesOn
  <2>3. ~Replace("event")
    BY <1>2 DEF Replace
  <2>4. job[v].state # "none" \/ Sees(v) \/ StartRebuild
    BY <1>2, <2>1, <2>2, RacedEnds DEF LeftAloneInv
  <2> QED  BY <2>1, <2>2, <2>3, <2>4, JobStays
<1> QED  BY <1>1, <1>2, LeavingComesFrom

(* The handler ends an event when the job is there, or was left alone.     *)
LEMMA EndedIsDone ==
  ASSUME TypeOK, PlanInv, OrphanInv, [Next]_vars, ~raced',
         NEW e \in events, e \notin events'
  PROVE  /\ e.version = planner["event"].version /\ UNCHANGED <<ticket, raced>>
         /\ planner["event"].pc = "set"
         /\ \/ planner["event"].saw = "active" /\ UNCHANGED job
               /\ UNCHANGED planner["rebuild"]
            \/ job'[e.version].state # "none"
<1> USE DEF row
<1>0. /\ job \in [Versions -> JobType] /\ planner \in [Planners -> PlanType]
      /\ e.version \in Versions
  BY DEF TypeOK, JobType, PlanType
<1>1. PICK p \in Planners : PlannerStep(p) \/ PlannerFails(p)
  <2>1. ~RedisLoss
    BY DEF RedisLoss
  <2> QED  BY <2>1, OthersKeepPlans
<1>2. LeaveAlone(p) \/ ChangeDelay(p) \/ Add(p)
  <2>1. ~Stops(p)
    <3>1. SUFFICES ASSUME Stops(p)
                   PROVE  FALSE
      OBVIOUS
    <3>2. planner[p].orphan /\ ~raced
      BY <3>1 DEF Stops
    <3> QED  BY <3>2 DEF OrphanInv, Planners
  <2> QED  BY <1>1, <2>1
           DEF PlannerStep, PlannerFails, StartEvent, StartRebuild, RebuildWakes, Look,
               DropOld, Replace, Refused
<1>3. p = "event" /\ e.version = planner[p].version
  BY <1>2 DEF LeaveAlone, ChangeDelay, Add, Ends, Forgotten
<1>4. CASE LeaveAlone(p)
  BY <1>0, <1>3, <1>4 DEF LeaveAlone, Ends, Plans, Planners
<1>5. CASE ChangeDelay(p)
  BY <1>0, <1>3, <1>5 DEF ChangeDelay, Delayed
<1>6. CASE Add(p)
  BY <1>0, <1>3, <1>6 DEF Add, Delayed
<1> QED  BY <1>2, <1>3, <1>4, <1>5, <1>6

LEMMA TimerStep ==
  ASSUME Inv, [Next]_vars
  PROVE  TimerInv'
<1> USE DEF Inv
<1> SUFFICES ASSUME ~raced', IsSnoozed(ticket')
             PROVE  \/ job'[ticket'.version].state # "none" \/ Sees(ticket.version)'
                    \/ \E e \in events' : e.version = ticket'.version
  BY DEF TimerInv
<1>0. PICK v \in Versions : v = ticket.version
  BY DEF TypeOK, TicketType
<1>1. CASE ticket'.version # v
  BY <1>0, <1>1, NewSnoozeIsTold
<1>2. CASE ticket'.version = v
  <2>1. Wanted(v)' /\ Wanted(v)
    <3>1. Wanted(v)'
      BY <1>2 DEF Wanted
    <3>2. v <= ticket.version
      BY <1>0, LifecycleAssumption DEF Versions
    <3> QED  BY <3>1, <3>2, SnoozeGoesOn
  <2>2. CASE \E e \in events' : e.version = v
    BY <1>2, <2>2
  <2>3. CASE ~\E e \in events' : e.version = v
    <3>1. Replace("event") => planner["event"].version # v
      <4>1. SUFFICES ASSUME Replace("event")
                     PROVE  planner["event"].version # v
        OBVIOUS
      <4>2. events' = events
        BY <4>1 DEF Replace
      <4>3. planner["event"].pc = "set"
        BY <4>1 DEF Replace
      <4>4. \E e \in events : e.version = planner["event"].version
        BY <4>3 DEF PlanInv
      <4> QED  BY <2>3, <4>2, <4>4
    <3>2. CASE ~(\E e \in events : e.version = v)
      <4>1. job[v].state # "none" \/ Sees(v) \/ StartRebuild
        BY <1>0, <2>1, <3>2, RacedEnds DEF TimerInv, Wanted
      <4>2. job'[v].state # "none" \/ Sees(v)'
        BY <2>1, <3>1, <4>1, JobStays
      <4> QED  BY <1>2, <4>2 DEF Sees
    <3>3. CASE \E e \in events : e.version = v
      <4>1. PICK e \in events : e.version = v /\ e \notin events'
        BY <2>3, <3>3
      <4>2. planner["event"].version = v /\ planner["event"].pc = "set" /\ ~raced
        BY <4>1, EndedIsDone
      <4>3. CASE job'[v].state # "none"
        BY <1>2, <4>3
      <4>4. CASE planner["event"].saw = "active" /\ UNCHANGED <<job, planner["rebuild"]>>
        <5>1. job[v].state # "none" \/ Sees(v)
          BY <2>1, <4>2, <4>4 DEF LeftAloneInv
        <5> QED  BY <1>2, <4>4, <5>1 DEF Sees
      <4> QED  BY <4>1, <4>3, <4>4, EndedIsDone
    <3> QED  BY <3>2, <3>3
  <2> QED  BY <2>2, <2>3
<1> QED  BY <1>1, <1>2

-----------------------------------------------------------------------------
(* Theorems.                                                               *)

LEMMA InitCounts == Init => CountsTyped
<1> SUFFICES ASSUME Init
             PROVE  CountsTyped
  OBVIOUS
<1>1. now \in 0..MaxTime /\ asks \in 0..MaxAsks /\ faults \in 0..MaxFaults
  BY LifecycleAssumption DEF Init
<1>2. here \in [Replies -> Nat] /\ elsewhere \in [Replies -> Nat]
  BY DEF Init
<1>3. byTime \in BOOLEAN
  BY DEF Init
<1> QED  BY <1>1, <1>2, <1>3 DEF CountsTyped

LEMMA InitInv == Init => Inv
<1> SUFFICES ASSUME Init
             PROVE  Inv
  OBVIOUS
<1> USE LifecycleAssumption DEF Init
<1>1. RowTyped /\ CountsTyped
  <2>1. ticket \in TicketType
    BY DEF TicketType, Times, Statuses, Versions
  <2> QED  BY <2>1, InitCounts DEF RowTyped
<1>2. MarksTyped /\ JobsTyped
  BY SmallTypes DEF MarksTyped, JobsTyped
<1>3. TypeOK
  BY <1>1, <1>2, TypeParts
<1>4. RowInv
  BY DEF RowInv, Consistent, ClosedStatuses
<1>5. PlanInv /\ OrphanInv /\ DueInv /\ LeftAloneInv
  BY DEF PlanInv, OrphanInv, DueInv, LeftAloneInv, NoPlan, Planners
<1>6. BoundInv
  BY DEF BoundInv, NoPlan, Idle, NoJob
<1>7. DoneInv /\ TimerInv
  BY DEF DoneInv, TimerInv, Idle, IsSnoozed
<1> QED  BY <1>3, <1>4, <1>5, <1>6, <1>7 DEF Inv

LEMMA InvStep == Inv /\ [Next]_vars => Inv'
<1> SUFFICES ASSUME Inv, [Next]_vars
             PROVE  Inv'
  OBVIOUS
<1>0. /\ TypeOK /\ RowInv /\ PlanInv /\ OrphanInv /\ BoundInv
      /\ DoneInv /\ DueInv /\ LeftAloneInv
  BY DEF Inv
<1>1. TypeOK'
  BY <1>0, TypeStep
<1>2. RowInv'
  BY <1>0, RowStep
<1>3. PlanInv' /\ OrphanInv'
  BY <1>0, PlanStep, OrphanStep
<1>4. BoundInv'
  BY <1>0, BoundStep
<1>5. DoneInv'
  BY <1>0, DoneStep
<1>6. DueInv'
  BY <1>0, DueStep
<1>7. LeftAloneInv'
  BY <1>0, LeftAloneStep
<1>8. TimerInv'
  BY TimerStep
<1> QED  BY <1>1, <1>2, <1>3, <1>4, <1>5, <1>6, <1>7, <1>8 DEF Inv

(* The invariant the next theorems are read off.                           *)
THEOREM Invariance == Spec => []Inv
BY InitInv, InvStep, PTL DEF Spec

(* Every variable keeps its type.                                          *)
THEOREM TypeCorrect == Spec => []TypeOK
<1>1. Inv => TypeOK
  BY DEF Inv
<1> QED  BY <1>1, Invariance, PTL

(* A ticket is snoozed exactly when it has a wake time and a status to     *)
(* wake to, and a closed one has its date, whatever rows requests decide   *)
(* on (migration 0064 and status-change.ts).                               *)
THEOREM RowStaysConsistent == Spec => []RowIsConsistent
<1>1. Inv => RowIsConsistent
  BY DEF Inv, RowInv, RowIsConsistent
<1> QED  BY <1>1, Invariance, PTL

(* Once events, planners and workers are at rest, and nothing was lost     *)
(* with Redis since the last rebuild, a snooze has its job (snooze-worker  *)
(* and snooze-rebuild).                                                    *)
THEOREM SnoozesKeepTheirTimer == Spec => []TimerInPlace
<1>1. Inv => TimerInPlace
  <2> SUFFICES ASSUME Inv, Quiet, ~raced, IsSnoozed(ticket)
               PROVE  job[ticket.version].state # "none"
    BY DEF TimerInPlace
  <2>1. planner["rebuild"].pc = "idle" /\ events = {}
    BY DEF Quiet, Planners
  <2> QED  BY <2>1 DEF Inv, TimerInv, Sees
<1> QED  BY <1>1, Invariance, PTL

(* Only a snooze that is over is ended by time.                            *)
LEMMA TimeStep ==
  ASSUME Inv, [Next]_vars, ticket' # ticket, byTime'
  PROVE  IsSnoozed(ticket) /\ ticket.until <= now
<1> USE DEF row
<1>1. ~Tick /\ ~SlaWakes /\ ~UNCHANGED vars
  BY DEF Tick, SlaWakes, Writes, vars
<1>2. ~\E t \in past : RequestStep(t)
  BY DEF RequestStep, WakeNow, AgentReply, SetStatus, Snooze, ReplyContinues, ReplyHere, Writes
<1>3. ASSUME NEW p \in Planners, PlannerStep(p)
      PROVE  IsSnoozed(ticket) /\ ticket.until <= now
  BY <1>3, PlannersLeaveTheRow DEF RebuildWakes, Due, Wanted
<1>4. ASSUME NEW w \in Workers, WorkerStep(w)
      PROVE  IsSnoozed(ticket) /\ ticket.until <= now
  BY <1>4 DEF WorkerStep, Take, TimerWakes, TimerIsOld, TimerIsEarly, Return, Due, Wanted
<1>5. ~Boot /\ ~\E v \in Versions : Promote(v) \/ RequeueStalled(v)
  BY DEF Promote, RequeueStalled, Boot
<1>6. ~Troubles
  BY TroublesLeaveTheRow
<1> QED  BY <1>1, <1>2, <1>3, <1>4, <1>5, <1>6 DEF Next

(* The time wakes only a snooze that is over, whichever job or rebuild     *)
(* comes late (unsnooze.ts).                                               *)
THEOREM WakesWhenDue == Spec => WakesOnlyWhenDue
<1>1. Inv /\ [Next]_vars => [ticket' # ticket /\ byTime' => IsSnoozed(ticket) /\ ticket.until <= now]_vars
  BY TimeStep
<1> QED  BY <1>1, Invariance, PTL DEF Spec, WakesOnlyWhenDue

-----------------------------------------------------------------------------
(* Replies.                                                                *)

(* A message is stored for a client id no ticket of the thread has.        *)
LEMMA ReplyStep ==
  ASSUME CountsTyped, EachReplyOnce, [Next]_vars
  PROVE  EachReplyOnce'
<1> USE DEF messages
<1>1. ASSUME NEW t \in past, NEW c \in Replies, ReplyContinues(t, c)
      PROVE  EachReplyOnce'
  BY <1>1 DEF ReplyContinues, Known, CountsTyped, EachReplyOnce
<1>2. ASSUME NEW t \in past, NEW c \in Replies, ReplyHere(t, c)
      PROVE  EachReplyOnce'
  BY <1>2 DEF ReplyHere, Known, CountsTyped, EachReplyOnce
<1>3. ASSUME NEW t \in past, RequestStep(t),
             ~\E c \in Replies : ReplyContinues(t, c) \/ ReplyHere(t, c)
      PROVE  UNCHANGED messages
  <2>1. ASSUME NEW status \in Picks, SetStatus(t, status)
        PROVE  UNCHANGED messages
    BY <2>1 DEF SetStatus
  <2>2. ASSUME NEW d \in SnoozeFor, Snooze(t, d)
        PROVE  UNCHANGED messages
    BY <2>2 DEF Snooze
  <2> QED  BY <1>3, <2>1, <2>2 DEF RequestStep, WakeNow, AgentReply
<1>4. ASSUME NEW p \in Planners, PlannerStep(p)
      PROVE  UNCHANGED messages
  BY <1>4 DEF PlannerStep, StartEvent, StartRebuild, RebuildWakes, Look, DropOld, LeaveAlone,
              ChangeDelay, Replace, Add, Refused
<1>5. ASSUME NEW w \in Workers, WorkerStep(w)
      PROVE  UNCHANGED messages
  BY <1>5 DEF WorkerStep, Take, TimerWakes, TimerIsOld, TimerIsEarly, Return
<1>6. ASSUME Troubles
      PROVE  UNCHANGED messages
  BY <1>6 DEF Troubles, CrashWorker, TimerFails, LoseJobLock, PromoteEarly, PlannerFails,
              RedisLoss
<1>7. ASSUME Tick \/ SlaWakes \/ Boot \/ UNCHANGED vars \/
             \E v \in Versions : Promote(v) \/ RequeueStalled(v)
      PROVE  UNCHANGED messages
  BY <1>7 DEF Tick, SlaWakes, Boot, vars, Promote, RequeueStalled
<1>8. UNCHANGED messages => EachReplyOnce'
  BY DEF EachReplyOnce
<1> QED  BY <1>1, <1>2, <1>3, <1>4, <1>5, <1>6, <1>7, <1>8 DEF Next

(* A reply sent again is stored once, however the ticket was closed,       *)
(* reopened or continued elsewhere in between (tickets.service.ts).        *)
THEOREM StoredOnce == Spec => []EachReplyOnce
<1>1. Init => CountsTyped /\ EachReplyOnce
  BY InitCounts DEF Init, EachReplyOnce
<1>2. CountsTyped /\ EachReplyOnce /\ [Next]_vars => (CountsTyped /\ EachReplyOnce)'
  BY CountsStep, ReplyStep
<1> QED  BY <1>1, <1>2, PTL DEF Spec

-----------------------------------------------------------------------------
(* Lifecycle implements SnoozedTicket.                                     *)

(* A write of another status ends the snooze, whatever it was decided on.  *)
LEMMA EndingWrite ==
  ASSUME RowTyped, RowInv, NEW new, NEW time, Sound(ticket, new),
         new.status # "snoozed", Writes(new, time)
  PROVE  /\ ticket'.status = new.status
         /\ ticket'.until = None /\ ticket'.resume = None
         /\ byTime' = time
<1>1. Consistent(ticket) /\ ticket \in TicketType
  BY DEF RowTyped, RowInv
<1>2. Consistent(Guarded(ticket, new)) /\ Guarded(ticket, new).status = new.status
  BY <1>1, GuardKeeps DEF RowInv
<1> QED  BY <1>2 DEF Writes, Consistent

(* A write that puts the ticket away is as it was asked.                   *)
LEMMA SnoozingWrite ==
  ASSUME RowTyped, NEW new, NEW time, Sound(ticket, new),
         new.status = "snoozed", Writes(new, time)
  PROVE  /\ ticket'.status = "snoozed"
         /\ ticket'.until = new.until /\ ticket'.resume = new.resume
BY DEF Writes, Guarded, Sound, TicketType

(* What wakes a ticket brings it to a status people left it in, and the    *)
(* ticket that is snoozed to the one it remembers.                         *)
LEMMA WakesBack ==
  ASSUME RowTyped, RowInv, NEW t
  PROVE  /\ Awake(t).status \in {"open", "awaiting"}
         /\ [Awake(t) EXCEPT !.closed = None].status \in {"open", "awaiting"}
         /\ IsSnoozed(ticket) => Awake(ticket).status = ticket.resume
<1>1. /\ Awake(t).status = WakesTo(t) /\ Awake(ticket).status = WakesTo(ticket)
      /\ [Awake(t) EXCEPT !.closed = None].status = WakesTo(t)
  BY DEF Awake, RowTyped, TicketType
<1>2. IsSnoozed(ticket) => ticket.resume \in {"open", "awaiting"}
  BY DEF IsSnoozed, RowTyped, RowInv, Consistent, TicketType
<1> QED  BY <1>1, <1>2 DEF WakesTo

(* The time and an SLA step bring it back.                                 *)
LEMMA ComesBack ==
  ASSUME RowTyped, RowInv, NEW time, IsSnoozed(ticket), Writes(Awake(ticket), time)
  PROVE  ticket.status = "snoozed" /\ Promised!IsIn(ticket.resume) /\ byTime' = time
<1>1. Awake(ticket).status = ticket.resume /\ Awake(ticket).status # "snoozed"
  BY WakesBack
<1> QED  BY <1>1, AwakeIsSound, EndingWrite DEF Promised!IsIn, IsSnoozed

(* A request moves it, puts it away or stores a message.                   *)
LEMMA RequestPromised ==
  ASSUME TypeOK, RowInv, NEW t \in past, RequestStep(t)
  PROVE  Promised!Next
<1>0. /\ RowTyped /\ now \in Nat /\ t \in TicketType /\ Consistent(t)
      /\ here \in [Replies -> Nat] /\ elsewhere \in [Replies -> Nat]
  BY LifecycleAssumption DEF TypeOK, RowTyped, RowInv
<1>1. ASSUME NEW new, NEW s \in {"open", "awaiting", "closed", "spam"},
             Sound(ticket, new), new.status = s, Writes(new, FALSE),
             UNCHANGED <<now, here, elsewhere>>
      PROVE  Promised!Next
  <2>1. Promised!IsIn(s) /\ byTime' = FALSE
    BY <1>0, <1>1, EndingWrite DEF Promised!IsIn
  <2>2. Promised!Move(s)
    BY <1>1, <2>1 DEF Promised!Move
  <2> QED  BY <2>2 DEF Promised!Next
<1>2. ASSUME NEW s \in {"open", "awaiting", "closed", "spam"}, NEW closed \in Times,
             s \in ClosedStatuses => closed # None, Writes(Moved(s, closed), FALSE),
             UNCHANGED <<now, here, elsewhere>>
      PROVE  Promised!Next
  <2>1. Sound(ticket, Moved(s, closed))
    BY <1>0, <1>2, MovedIsSound DEF Statuses
  <2>2. Moved(s, closed).status = s
    BY <1>0 DEF Moved, RowTyped, TicketType
  <2> QED  BY <1>1, <1>2, <2>1, <2>2
<1>3. ASSUME WakeNow(t)
      PROVE  Promised!Next
  <2>1. /\ Sound(ticket, [Awake(t) EXCEPT !.closed = None])
        /\ [Awake(t) EXCEPT !.closed = None].status \in {"open", "awaiting"}
    BY <1>0, AwakeIsSound, WakesBack
  <2> QED  BY <1>1, <1>3, <2>1 DEF WakeNow, messages
<1>4. ASSUME AgentReply(t)
      PROVE  Promised!Next
  BY <1>2, <1>4 DEF AgentReply, messages, ClosedStatuses, Times
<1>5. ASSUME NEW status \in Picks, SetStatus(t, status)
      PROVE  Promised!Next
  <2> DEFINE kept == IF t.closed = None THEN now ELSE t.closed
             closed == IF status \in ClosedStatuses THEN kept ELSE None
  <2>1. /\ status \in {"open", "awaiting", "closed", "spam"} /\ closed \in Times
        /\ status \in ClosedStatuses => closed # None
    BY <1>0, LifecycleAssumption DEF Times, TicketType
  <2>2. Writes(Moved(status, closed), FALSE) /\ UNCHANGED <<now, here, elsewhere>>
    BY <1>5 DEF SetStatus, messages
  <2> HIDE DEF closed
  <2> QED  BY <1>2, <2>1, <2>2
<1>6. ASSUME NEW d \in SnoozeFor, Snooze(t, d)
      PROVE  Promised!Next
  <2> DEFINE back == IF t.until = None THEN t.status ELSE t.resume
             put == [ticket EXCEPT !.status = "snoozed", !.until = now + d,
                            !.resume = IF t.until = None THEN t.status ELSE t.resume,
                            !.closed = IF t.status = "snoozed" THEN @ ELSE t.closed]
  <2>1. back \in {"open", "awaiting"}
    BY <1>0, <1>6, LifecycleAssumption
       DEF Snooze, IsClosed, Consistent, TicketType, Statuses, ClosedStatuses
  <2>2. put.status = "snoozed" /\ put.until = now + d /\ put.resume = back
    BY <1>0 DEF RowTyped, TicketType
  <2>3. Writes(put, FALSE) /\ UNCHANGED <<now, here, elsewhere>>
    BY <1>6 DEF Snooze, messages
  <2>4. now + d \in Nat /\ now + d # None /\ ticket.version + 1 < MaxVersion
    BY <1>0, <1>6, LifecycleAssumption DEF Snooze
  <2>5. Sound(ticket, put)
    BY <1>0, <1>6, <2>1, <2>4, LifecycleAssumption
       DEF Sound, TicketType, Statuses, Times, ClosedStatuses, RowTyped
  <2> HIDE DEF put
  <2>6. ticket'.status = "snoozed" /\ ticket'.until = now + d /\ ticket'.resume = back
    BY <1>0, <2>2, <2>3, <2>5, SnoozingWrite
  <2>7. Promised!PutAway(d, back)
    BY <2>3, <2>6 DEF Promised!PutAway, Writes
  <2> HIDE DEF back
  <2> QED  BY <2>1, <2>7 DEF Promised!Next
<1>7. ASSUME NEW c \in Replies, ReplyContinues(t, c) \/ ReplyHere(t, c)
      PROVE  Promised!Next
  <2> DEFINE stored == [d \in Replies |-> here[d] + elsewhere[d]]
             after == [d \in Replies |-> here'[d] + elsewhere'[d]]
  <2>0. /\ ~(here[c] + elsewhere[c] > 0)
        /\ \/ here' = [here EXCEPT ![c] = @ + 1] /\ UNCHANGED elsewhere
           \/ elsewhere' = [elsewhere EXCEPT ![c] = @ + 1] /\ UNCHANGED here
    BY <1>7 DEF ReplyContinues, ReplyHere, Known
  <2>1. here[c] = 0 /\ elsewhere[c] = 0
    <3>1. here[c] \in Nat /\ elsewhere[c] \in Nat
      BY <1>0
    <3> QED  BY <2>0, <3>1
  <2>2. \A d \in Replies :
          here'[d] + elsewhere'[d] = IF d = c THEN 1 ELSE here[d] + elsewhere[d]
    BY <1>0, <2>0, <2>1
  <2>3. stored[c] = 0 /\ after = [stored EXCEPT ![c] = 1]
    <3>1. stored[c] = 0
      BY <2>1
    <3>2. after = [d \in Replies |-> IF d = c THEN 1 ELSE here[d] + elsewhere[d]]
      BY <2>2, Zenon
    <3> QED  BY <3>1, <3>2
  <2>4. UNCHANGED now
    BY <1>7 DEF ReplyContinues, ReplyHere
  <2>5. \/ UNCHANGED <<ticket, byTime>>
        \/ Promised!IsIn("open") /\ byTime' = FALSE
    <3>1. /\ Sound(ticket, Moved("open", None))
          /\ Moved("open", None).status = "open"
      BY <1>0, MovedIsSound DEF Statuses, Times, ClosedStatuses, Moved, RowTyped, TicketType
    <3>2. UNCHANGED row \/ Writes(Moved("open", None), FALSE)
      BY <1>7 DEF ReplyContinues, ReplyHere
    <3> QED  BY <1>0, <3>1, <3>2, EndingWrite DEF row, Promised!IsIn
  <2>6. \/ UNCHANGED <<ticket.status, ticket.until, ticket.resume, byTime>>
        \/ Promised!IsIn("open") /\ byTime' = FALSE
    BY <2>5
  <2>7. Promised!Store(c)
    BY <2>3, <2>4, <2>6 DEF Promised!Store
  <2> QED  BY <2>7 DEF Promised!Next
<1> QED  BY <1>3, <1>4, <1>5, <1>6, <1>7 DEF RequestStep

LEMMA PromisedStep == Inv /\ [Next]_vars => [Promised!Next]_(Promised!vars)
<1> SUFFICES ASSUME Inv, [Next]_vars
             PROVE  Promised!Next \/ UNCHANGED Promised!vars
  OBVIOUS
<1> USE DEF row, messages
<1>0. TypeOK /\ RowTyped /\ RowInv
  BY DEF Inv, TypeOK, RowTyped
<1>1. CASE UNCHANGED <<now, ticket, byTime, here, elsewhere>>
  BY <1>1 DEF Promised!vars
<1>2. ASSUME IsSnoozed(ticket), ticket.until <= now, TimeWakes,
             UNCHANGED <<now, here, elsewhere>>
      PROVE  Promised!Next
  <2>1. Promised!ComeBack
    BY <1>0, <1>2, ComesBack DEF TimeWakes, Promised!ComeBack
  <2> QED  BY <2>1 DEF Promised!Next
<1>3. CASE Tick
  BY <1>3 DEF Tick, Promised!Next, Promised!Pass
<1>4. CASE SlaWakes
  <2>1. Promised!CallBack
    BY <1>0, <1>4, ComesBack DEF SlaWakes, Promised!CallBack
  <2> QED  BY <2>1 DEF Promised!Next
<1>5. CASE \E t \in past : RequestStep(t)
  BY <1>0, <1>5, RequestPromised
<1>6. ASSUME NEW p \in Planners, PlannerStep(p)
      PROVE  Promised!Next \/ UNCHANGED Promised!vars
  <2>1. UNCHANGED <<now, here, elsewhere>>
    BY <1>6 DEF PlannerStep, StartEvent, StartRebuild, RebuildWakes, Look, DropOld,
                LeaveAlone, ChangeDelay, Replace, Add, Refused
  <2>2. CASE p = "rebuild" /\ RebuildWakes
    <3>1. UNCHANGED row \/ (Due(planner["rebuild"].version) /\ TimeWakes)
      BY <2>2 DEF RebuildWakes
    <3> QED  BY <1>1, <1>2, <2>1, <3>1 DEF Due, Wanted
  <2>3. CASE ~(p = "rebuild" /\ RebuildWakes)
    BY <1>1, <1>6, <2>1, <2>3, PlannersLeaveTheRow
  <2> QED  BY <2>2, <2>3
<1>7. ASSUME NEW w \in Workers, WorkerStep(w)
      PROVE  Promised!Next \/ UNCHANGED Promised!vars
  <2>1. UNCHANGED <<now, here, elsewhere>>
    BY <1>7 DEF WorkerStep, Take, TimerWakes, TimerIsOld, TimerIsEarly, Return
  <2>2. UNCHANGED row \/ (Due(worker[w].version) /\ TimeWakes)
    BY <1>7 DEF WorkerStep, Take, TimerWakes, TimerIsOld, TimerIsEarly, Return
  <2> QED  BY <1>1, <1>2, <2>1, <2>2 DEF Due, Wanted
<1>8. CASE (\E v \in Versions : Promote(v) \/ RequeueStalled(v)) \/ Boot
  BY <1>1, <1>8 DEF Promote, RequeueStalled, Boot
<1>9. CASE Troubles
  BY <1>1, <1>9 DEF Troubles, CrashWorker, TimerFails, LoseJobLock, PromoteEarly,
                    PlannerFails, RedisLoss
<1>10. CASE UNCHANGED vars
  BY <1>1, <1>10 DEF vars
<1> QED  BY <1>3, <1>4, <1>5, <1>6, <1>7, <1>8, <1>9, <1>10 DEF Next

(* Requests on rows that have changed since, wake jobs of older snoozes,   *)
(* rebuilds and losses of Redis make nothing of a ticket but what          *)
(* SnoozedTicket allows (tickets.service.ts, unsnooze.ts, migration 0064). *)
THEOREM TicketsImplementPromise == Spec => ImplementsSnoozedTicket
<1>1. Init => Promised!Init
  BY DEF Init, Promised!Init
<1> QED  BY <1>1, PromisedStep, Invariance, PTL
         DEF Spec, ImplementsSnoozedTicket, Promised!Spec
=============================================================================
