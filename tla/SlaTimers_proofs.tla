-------------------------- MODULE SlaTimers_proofs --------------------------
(***************************************************************************)
(* What holds of SlaTimers for any policy, any number of workers and any   *)
(* bounds: first what the arithmetic of clock.ts does to a clock, then the *)
(* invariant part by part, each lemma from all of it before a step.        *)
(***************************************************************************)
EXTENDS SlaTimers, TLAPS

Inv ==
  /\ TypeOK /\ JobInv /\ PlanInv /\ WorkerInv /\ RanInv /\ NothingElseCounted
  /\ FreshInv /\ TimerInv

-----------------------------------------------------------------------------
(* The arithmetic of a clock.                                              *)

LEMMA HundredthIsNat ==
  ASSUME NEW n \in Nat
  PROVE  n \div 100 \in Nat
OBVIOUS

LEMMA ThresholdIsNat ==
  ASSUME NEW c \in ClockType, NEW s \in Steps
  PROVE  Threshold(c, s) \in Nat
<1>1. c.target \in Nat /\ s \in Nat
  BY SlaTimersAssumption DEF ClockType
<1>2. c.target * s \in Nat
  BY <1>1
<1> QED
  BY <1>2, HundredthIsNat DEF Threshold

LEMMA FireAtIsNat ==
  ASSUME NEW c \in ClockType, NEW s \in Steps
  PROVE  FireAt(c, s) \in Nat
BY ThresholdIsNat DEF FireAt, ClockType

(* A step is due when the clock has counted its share, and not before. *)
LEMMA DueIsCounted ==
  ASSUME NEW c \in ClockType, NEW s \in Steps, NEW n \in Nat,
         Counting(c), FireAt(c, s) <= n
  PROVE  Threshold(c, s) <= ElapsedAt(c, n)
BY ThresholdIsNat DEF FireAt, ElapsedAt, ClockType

LEMMA NewClockFacts ==
  ASSUME NEW t \in Targets, NEW at \in Nat, NEW n \in Nat, at <= n
  PROVE  /\ NewClock(t, at) \in ClockType
         /\ ElapsedAt(NewClock(t, at), n) = n - at
         /\ NewClock(t, at).fired = {}
BY SlaTimersAssumption DEF NewClock, ElapsedAt, Counting, ClockType

(* A checkpoint moves what was counted and changes nothing else. *)
LEMMA CheckpointFacts ==
  ASSUME NEW c \in ClockType, NEW at \in Nat, NEW n \in Nat, at <= n
  PROVE  /\ Checkpoint(c, at) \in ClockType
         /\ Checkpoint(c, at).run = c.run
         /\ Checkpoint(c, at).fired = c.fired
         /\ Checkpoint(c, at).target = c.target
         /\ Checkpoint(c, at).breached = c.breached
         /\ ElapsedAt(Checkpoint(c, at), n) = ElapsedAt(c, n)
         /\ Checkpoint(c, at).elapsed <= ElapsedAt(c, n)
<1>1. CASE Counting(c) /\ at > c.since
  <2> DEFINE k == [c EXCEPT !.elapsed = c.elapsed + (at - c.since), !.since = at]
  <2>1. Checkpoint(c, at) = k
    BY <1>1 DEF Checkpoint, ElapsedAt
  <2>2. c.elapsed + (at - c.since) \in Nat
    BY <1>1 DEF ClockType
  <2>3. /\ k \in ClockType /\ k.run = c.run /\ k.fired = c.fired
        /\ k.target = c.target /\ k.breached = c.breached
        /\ k.elapsed = c.elapsed + (at - c.since) /\ k.since = at
    BY <2>2 DEF ClockType
  <2>4. c.elapsed \in Nat /\ c.since \in Nat
    BY DEF ClockType
  <2> HIDE DEF k
  <2>5. ElapsedAt(k, n) = c.elapsed + (n - c.since)
    BY <1>1, <2>3, <2>4 DEF ElapsedAt, Counting
  <2>6. ElapsedAt(c, n) = c.elapsed + (n - c.since)
    BY <1>1, <2>4 DEF ElapsedAt
  <2> QED
    BY <2>1, <2>3, <2>4, <2>5, <2>6
<1>2. CASE ~(Counting(c) /\ at > c.since)
  BY <1>2 DEF Checkpoint, ElapsedAt, ClockType
<1> QED
  BY <1>1, <1>2

LEMMA RetargetFacts ==
  ASSUME NEW c \in ClockType, NEW t \in Targets, NEW at \in Nat, NEW n \in Nat,
         at <= n
  PROVE  /\ Retarget(c, t, at) \in ClockType
         /\ Retarget(c, t, at).run = c.run
         /\ Retarget(c, t, at).fired = c.fired
         /\ ElapsedAt(Retarget(c, t, at), n) = ElapsedAt(c, n)
<1> DEFINE k == Checkpoint(c, at)
<1>1. /\ k \in ClockType /\ k.run = c.run /\ k.fired = c.fired
      /\ ElapsedAt(k, n) = ElapsedAt(c, n)
  BY CheckpointFacts
<1>2. t \in Nat
  BY SlaTimersAssumption
<1> HIDE DEF k
<1>3. Retarget(c, t, at) \in {c, [k EXCEPT !.target = t],
                              [k EXCEPT !.target = t, !.breached = "change"]}
  BY <1>1 DEF Retarget, k, ClockType
<1> QED
  BY <1>1, <1>2, <1>3 DEF ElapsedAt, Counting, ClockType

(* Pausing counts what came before the pause, resuming what comes after it. *)
LEMMA ReconcileFacts ==
  ASSUME NEW c \in ClockType, NEW pauses \in BOOLEAN, NEW t \in Targets,
         NEW at \in Nat, NEW n \in Nat, at <= n
  PROVE  LET after == Reconcile(c, pauses, t, at) IN
         /\ after \in ClockType
         /\ after.fired = c.fired
         /\ ElapsedAt(after, n) <=
              ElapsedAt(c, n) + IF Counting(after) /\ ~Counting(c) THEN n - at ELSE 0
<1> DEFINE k == Checkpoint(c, at)
           aimed == IF t # c.target THEN Retarget(k, t, at) ELSE k
<1>1. /\ k \in ClockType /\ k.run = c.run /\ k.fired = c.fired
      /\ ElapsedAt(k, n) = ElapsedAt(c, n)
  BY CheckpointFacts
<1>2. /\ aimed \in ClockType /\ aimed.run = c.run /\ aimed.fired = c.fired
      /\ ElapsedAt(aimed, n) = ElapsedAt(c, n)
  BY <1>1, RetargetFacts
<1>3. Reconcile(c, pauses, t, at) = IF pauses THEN Pause(aimed, at) ELSE Resume(aimed, at)
  BY DEF Reconcile
<1> HIDE DEF k, aimed
<1>4. ElapsedAt(aimed, n) \in Nat
  BY <1>2 DEF ElapsedAt, ClockType
<1>5. CASE pauses
  <2>1. /\ Checkpoint(aimed, at) \in ClockType
        /\ Checkpoint(aimed, at).fired = c.fired
        /\ Checkpoint(aimed, at).elapsed <= ElapsedAt(aimed, n)
    BY <1>2, CheckpointFacts
  <2>2. Reconcile(c, pauses, t, at) = Pause(aimed, at)
    BY <1>3, <1>5
  <2>3. CASE Counting(aimed)
    <3>1. Pause(aimed, at) = [Checkpoint(aimed, at) EXCEPT !.run = "paused"]
      BY <2>3 DEF Pause
    <3> QED
      BY <1>2, <2>1, <2>2, <3>1 DEF ElapsedAt, Counting, ClockType
  <2>4. CASE ~Counting(aimed)
    BY <1>2, <1>4, <2>2, <2>4 DEF Pause, Counting
  <2> QED
    BY <2>3, <2>4
<1>6. CASE ~pauses
  <2>1. Reconcile(c, pauses, t, at) = Resume(aimed, at)
    BY <1>3, <1>6
  <2>2. CASE aimed.run = "paused"
    <3>1. Resume(aimed, at) = [aimed EXCEPT !.run = "counting", !.since = at]
      BY <2>2 DEF Resume
    <3> DEFINE r == [aimed EXCEPT !.run = "counting", !.since = at]
    <3>2. /\ r \in ClockType /\ r.run = "counting" /\ r.since = at
          /\ r.elapsed = aimed.elapsed /\ r.fired = aimed.fired
      BY <1>2 DEF ClockType
    <3>3. aimed.elapsed \in Nat /\ ElapsedAt(aimed, n) = aimed.elapsed
      BY <1>2, <2>2 DEF ElapsedAt, Counting, ClockType
    <3>4. Reconcile(c, pauses, t, at) = r
      BY <2>1, <3>1
    <3>5. ~Counting(c)
      BY <1>2, <2>2 DEF Counting
    <3> HIDE DEF r
    <3>6. Counting(r) /\ ElapsedAt(r, n) = aimed.elapsed + (n - at)
      BY <3>2, <3>3 DEF ElapsedAt, Counting
    <3> QED
      BY <1>2, <3>2, <3>3, <3>4, <3>5, <3>6
  <2>3. CASE aimed.run # "paused"
    BY <1>2, <1>4, <2>1, <2>3 DEF Resume, Counting
  <2> QED
    BY <2>2, <2>3
<1> QED
  BY <1>5, <1>6

LEMMA SatisfyFacts ==
  ASSUME NEW c \in ClockType, NEW at \in Nat, NEW n \in Nat, at <= n
  PROVE  /\ Satisfy(c, at) \in ClockType
         /\ Satisfy(c, at).fired = c.fired
         /\ ElapsedAt(Satisfy(c, at), n) <= ElapsedAt(c, n)
<1> DEFINE k == Checkpoint(c, at)
<1>1. k \in ClockType /\ k.fired = c.fired /\ k.elapsed <= ElapsedAt(c, n)
  BY CheckpointFacts
<1> HIDE DEF k
<1> DEFINE b == IF k.breached = "no" /\ k.elapsed > c.target THEN "timer" ELSE k.breached
           e == [k EXCEPT !.run = "ended", !.breached = b]
<1>2. Satisfy(c, at) = e
  BY DEF Satisfy, k
<1>3. b \in {"no", "timer", "change"}
  BY <1>1 DEF ClockType
<1> HIDE DEF b
<1>4. e \in ClockType /\ e.run = "ended" /\ e.fired = k.fired /\ e.elapsed = k.elapsed
  BY <1>1, <1>3 DEF ClockType
<1> HIDE DEF e
<1>5. ElapsedAt(e, n) = k.elapsed
  BY <1>1, <1>4 DEF ElapsedAt, Counting, ClockType
<1> QED
  BY <1>1, <1>2, <1>4, <1>5

LEMMA StopFacts ==
  ASSUME NEW c \in ClockType, NEW at \in Nat, NEW n \in Nat, at <= n
  PROVE  /\ Stop(c, at) \in ClockType
         /\ Stop(c, at).fired = c.fired
         /\ Stop(c, at).run = "ended" /\ Stop(c, at).target = c.target
         /\ Stop(c, at).breached = c.breached
         /\ ElapsedAt(Stop(c, at), n) <= ElapsedAt(c, n)
<1> DEFINE k == Checkpoint(c, at)
           e == [k EXCEPT !.run = "ended"]
<1>1. /\ k \in ClockType /\ k.fired = c.fired /\ k.target = c.target
      /\ k.breached = c.breached /\ k.elapsed <= ElapsedAt(c, n)
  BY CheckpointFacts
<1>2. Stop(c, at) = e
  BY DEF Stop
<1> HIDE DEF k
<1>3. /\ e \in ClockType /\ e.run = "ended" /\ e.fired = k.fired
      /\ e.target = k.target /\ e.breached = k.breached /\ e.elapsed = k.elapsed
  BY <1>1 DEF ClockType
<1> HIDE DEF e
<1>4. ElapsedAt(e, n) = k.elapsed
  BY <1>1, <1>3 DEF ElapsedAt, Counting, ClockType
<1> QED
  BY <1>1, <1>2, <1>3, <1>4

(* A clock that ends, with a verdict or without. *)
LEMMA ClosedFacts ==
  ASSUME NEW c \in ClockType, NEW at \in Nat, NEW n \in Nat, at <= n,
         NEW e \in {Satisfy(c, at), Stop(c, at)}
  PROVE  e \in ClockType /\ e.fired = c.fired /\ ElapsedAt(e, n) <= ElapsedAt(c, n)
BY SatisfyFacts, StopFacts

LEMMA MarkFiredFacts ==
  ASSUME NEW c \in ClockType, NEW s \in Steps, NEW n \in Nat
  PROVE  /\ MarkFired(c, s) \in ClockType
         /\ MarkFired(c, s).run = c.run
         /\ MarkFired(c, s).fired = c.fired \union {s}
         /\ ElapsedAt(MarkFired(c, s), n) = ElapsedAt(c, n)
BY DEF MarkFired, ElapsedAt, Counting, ClockType

-----------------------------------------------------------------------------
(* What the shared parts of the actions write.                             *)

LEMMA StampFacts ==
  ASSUME TypeOK, NEW at \in Stamps
  PROVE  at \in Nat /\ at <= now /\ now \in Nat /\ now - at \in Nat
BY SlaTimersAssumption DEF TypeOK, Stamps

LEMMA ReadsFacts ==
  ASSUME TypeOK
  PROVE  Reads \in PlanType /\ Reads.pc = "next" /\ Reads.orphan = FALSE
<1>1. {s \in Steps : Wanted(clock, s)} \in SUBSET Steps
  OBVIOUS
<1> DEFINE wanted == {s \in Steps : Wanted(clock, s)}
           due == [s \in Steps |-> IF s \in wanted THEN FireAt(clock, s) ELSE 0]
<1>2. due \in [Steps -> Nat]
  BY FireAtIsNat DEF TypeOK
<1>3. Reads = [pc |-> "next", now |-> now, wanted |-> wanted, due |-> due,
               todo |-> Steps, step |-> None, saw |-> "none", orphan |-> FALSE]
  BY DEF Reads
<1>4. now \in Nat
  BY SlaTimersAssumption DEF TypeOK
<1> HIDE DEF due, wanted
<1> QED
  BY <1>1, <1>2, <1>3, <1>4 DEF PlanType, JobStates, wanted

LEMMA HandledFacts ==
  ASSUME TypeOK, NEW p \in Planners, Handled(p)
  PROVE  LET s == planner[p].step IN
         /\ planner' \in [Planners -> PlanType]
         /\ planner'[p].pc = "next"
         /\ planner'[p].todo = planner[p].todo \ {s}
         /\ planner'[p].wanted = planner[p].wanted \ {s}
         /\ planner'[p].orphan = planner[p].orphan
         /\ \A t \in Steps : t # s => planner'[p].due[t] = planner[p].due[t]
         /\ \A q \in Planners : q # p => planner'[q] = planner[q]
<1> DEFINE s == planner[p].step
           plan == [planner[p] EXCEPT !.pc = "next", !.todo = @ \ {s}, !.wanted = @ \ {s},
                                      !.due[s] = 0, !.step = None, !.saw = "none"]
<1>1. planner' = [planner EXCEPT ![p] = plan]
  BY DEF Handled, Plans
<1>2. planner[p] \in PlanType
  BY DEF TypeOK
<1>3. /\ plan \in PlanType /\ plan.pc = "next"
      /\ plan.todo = planner[p].todo \ {s} /\ plan.wanted = planner[p].wanted \ {s}
      /\ plan.orphan = planner[p].orphan
      /\ \A t \in Steps : t # s => plan.due[t] = planner[p].due[t]
  BY <1>2 DEF PlanType, JobStates
<1> HIDE DEF plan
<1> QED
  BY <1>1, <1>3 DEF TypeOK

LEMMA NoPlanFacts ==
  NoPlan \in PlanType /\ NoPlan.pc = "idle" /\ NoPlan.orphan = FALSE
BY DEF NoPlan, PlanType, JobStates

LEMMA StopsFacts ==
  ASSUME TypeOK, PlanInv, OrphanInv, NEW p \in Planners, Stops(p)
  PROVE  /\ planner' \in [Planners -> PlanType]
         /\ planner'[p].pc = "idle" /\ planner'[p].orphan = FALSE
         /\ raced' \in BOOLEAN /\ (raced => raced')
         /\ events' \in Nat /\ (p = "schedule" \/ UNCHANGED events)
         /\ \A q \in Planners : q # p => planner'[q] = planner[q]
<1>1. NoPlan \in PlanType /\ NoPlan.pc = "idle" /\ NoPlan.orphan = FALSE
  BY NoPlanFacts
<1>2. planner' = [planner EXCEPT ![p] = NoPlan]
  BY DEF Stops, Plans
<1>3. raced' \in BOOLEAN /\ (raced => raced')
  BY Zenon DEF Stops, TypeOK
<1>4. events' \in Nat /\ (p = "schedule" \/ UNCHANGED events)
  BY DEF Stops, PlanInv, OrphanInv, Planners, TypeOK
<1> QED
  BY <1>1, <1>2, <1>3, <1>4 DEF TypeOK

(* What a loss of Redis leaves: no job, the handler with the event it has,
   and the plans as they were. *)
LEMMA LossFacts ==
  ASSUME TypeOK, PlanInv, RedisLoss
  PROVE  /\ planner' \in [Planners -> PlanType]
         /\ planner'["rebuild"] = planner["rebuild"]
         /\ \A p \in Planners :
              /\ planner'[p].pc = planner[p].pc /\ planner'[p].step = planner[p].step
              /\ planner'[p].todo = planner[p].todo
         /\ planner'["schedule"].orphan = (planner["schedule"].pc # "idle")
         /\ events' \in Nat /\ (planner["schedule"].pc # "idle" => events' > 0)
         /\ raced' = TRUE /\ job' = [s \in Steps |-> NoJob] /\ hourly' = FALSE
         /\ UNCHANGED <<now, clock, worker, changes, consumed, ran>>
<1> DEFINE runs == planner["schedule"].pc # "idle"
<1>1. /\ planner' = [planner EXCEPT !["schedule"].orphan = runs]
      /\ events' \in (IF runs THEN 1 ELSE 0)..events
      /\ raced' = TRUE /\ job' = [s \in Steps |-> NoJob] /\ hourly' = FALSE
      /\ UNCHANGED <<now, clock, worker, changes, consumed, ran>>
  BY DEF RedisLoss
<1>2. runs \in BOOLEAN
  OBVIOUS
<1> HIDE DEF runs
<1>3. [planner["schedule"] EXCEPT !.orphan = runs] \in PlanType
  BY <1>2 DEF TypeOK, PlanType, Planners
<1>4. events' \in Nat /\ (runs => events' > 0)
  BY <1>1 DEF TypeOK
<1>5. /\ planner' \in [Planners -> PlanType]
      /\ planner'["rebuild"] = planner["rebuild"]
      /\ planner'["schedule"] = [planner["schedule"] EXCEPT !.orphan = runs]
  BY <1>1, <1>3 DEF TypeOK, Planners
<1>6. LET plan == planner["schedule"] IN
      /\ [plan EXCEPT !.orphan = runs].orphan = runs
      /\ [plan EXCEPT !.orphan = runs].pc = plan.pc
      /\ [plan EXCEPT !.orphan = runs].step = plan.step
      /\ [plan EXCEPT !.orphan = runs].todo = plan.todo
  BY DEF TypeOK, PlanType, Planners
<1> QED
  BY <1>1, <1>4, <1>5, <1>6 DEF Planners, runs

LEMMA UntilFacts ==
  ASSUME TypeOK, NEW p \in Planners, NEW s \in Steps
  PROVE  /\ Until(planner[p], s) \in JobType
         /\ Until(planner[p], s).state = "delayed"
         /\ Until(planner[p], s).by = None
         /\ Until(planner[p], s).due = planner[p].due[s]
<1>1. planner[p].now \in Nat /\ planner[p].due[s] \in Nat /\ now \in Nat
  BY SlaTimersAssumption DEF TypeOK, PlanType
<1> QED
  BY <1>1 DEF Until, Delayed, JobType, JobStates

LEMMA IdleFacts == Idle \in WorkerType /\ Idle.pc = "idle" /\ Idle.step = None
BY DEF Idle, WorkerType

LEMMA NoJobFacts ==
  NoJob \in JobType /\ NoJob.state = "none" /\ NoJob.by = None
BY SlaTimersAssumption DEF NoJob, JobType, JobStates

LEMMA EndsFacts ==
  ASSUME TypeOK, WorkerInv, NEW w \in Workers, Ends(w)
  PROVE  /\ worker' \in [Workers -> WorkerType]
         /\ worker'[w].step = worker[w].step /\ worker'[w].now = 0
         /\ \A v \in Workers : v # w => worker'[v] = worker[v]
<1>1. worker[w].step \in Steps \union {None}
  BY DEF TypeOK, WorkerType
<1> DEFINE done == [Idle EXCEPT !.pc = "done", !.step = worker[w].step]
<1>2. done \in WorkerType /\ done.step = worker[w].step /\ done.now = 0
  BY <1>1 DEF Idle, WorkerType
<1>3. worker' = [worker EXCEPT ![w] = done]
  BY DEF Ends, Works
<1> HIDE DEF done
<1> QED
  BY <1>2, <1>3 DEF TypeOK

(* A step that runs was not marked, is marked after, and leaves the count. *)
LEMMA FireFacts ==
  ASSUME TypeOK, WorkerInv, NEW w \in Workers, NEW pauses \in BOOLEAN,
         NEW t \in Targets, Fire(w, pauses, t)
  PROVE  /\ worker[w].step \in Steps
         /\ worker[w].step \notin clock.fired
         /\ Threshold(clock, worker[w].step) <= ElapsedAt(clock, now)
         /\ clock' \in ClockType
         /\ clock'.fired = clock.fired \union {worker[w].step}
         /\ ElapsedAt(clock', now) <= ElapsedAt(clock, now)
<1> DEFINE s == worker[w].step
           at == worker[w].now
           fired == MarkFired(clock, s)
           after == Reconcile(fired, pauses, t, at)
<1>1. /\ s \in Steps /\ at \in Nat /\ at <= now /\ now \in Nat
      /\ clock \in ClockType
  BY SlaTimersAssumption DEF Fire, TypeOK, WorkerInv, WorkerType
<1>2. Counting(clock) /\ s \notin clock.fired /\ FireAt(clock, s) <= at
  BY DEF Fire, Wanted, Done
<1>3. FireAt(clock, s) <= now
  BY <1>1, <1>2, FireAtIsNat
<1>4. Threshold(clock, s) <= ElapsedAt(clock, now)
  BY <1>1, <1>2, <1>3, DueIsCounted
<1>5. /\ fired \in ClockType /\ fired.run = clock.run
      /\ fired.fired = clock.fired \union {s}
      /\ ElapsedAt(fired, now) = ElapsedAt(clock, now)
  BY <1>1, MarkFiredFacts
<1>6. Counting(fired)
  BY <1>2, <1>5 DEF Counting
<1>7. clock' = after
  BY DEF Fire, Write
<1> HIDE DEF s, at, fired
<1>8. /\ after \in ClockType /\ after.fired = fired.fired
      /\ ElapsedAt(after, now) <= ElapsedAt(fired, now) +
           IF Counting(after) /\ ~Counting(fired) THEN now - at ELSE 0
  BY <1>1, <1>5, ReconcileFacts
<1>9. ElapsedAt(fired, now) \in Nat
  BY <1>1, <1>5 DEF ElapsedAt, ClockType
<1> QED
  BY <1>1, <1>2, <1>4, <1>5, <1>6, <1>7, <1>8, <1>9 DEF s

-----------------------------------------------------------------------------
(* The invariant, part by part.                                            *)

LEMMA TypeStep ==
  ASSUME TypeOK, JobInv, PlanInv, WorkerInv, OrphanInv, Next
  PROVE  TypeOK'
<1>1. ASSUME Tick
      PROVE  TypeOK'
  BY <1>1, SlaTimersAssumption DEF Tick, counters, TypeOK
<1>2. ASSUME NEW pauses \in BOOLEAN, NEW t \in Targets, NEW at \in Stamps, Sync(pauses, t, at)
      PROVE  TypeOK'
  <2>1. Reconcile(clock, pauses, t, at) \in ClockType
    BY StampFacts, ReconcileFacts DEF TypeOK
  <2>2. consumed' \in Nat
    BY <1>2, StampFacts DEF Sync, TypeOK
  <2> QED
    BY <1>2, <2>1, <2>2, SlaTimersAssumption DEF Sync, PersonActs, Write, TypeOK
<1>3. ASSUME NEW at \in Stamps, Close(at)
      PROVE  TypeOK'
  <2>1. \A ended \in {Satisfy(clock, at), Stop(clock, at)} : ended \in ClockType
    BY StampFacts, ClosedFacts DEF TypeOK
  <2>2. PICK ended \in {Satisfy(clock, at), Stop(clock, at)} : Write(clock, ended)
    BY <1>3 DEF Close
  <2> QED
    BY <1>3, <2>1, <2>2, SlaTimersAssumption DEF Close, PersonActs, Write, TypeOK
<1>4. ASSUME NEW t \in Targets, NEW at \in Stamps, Reopen(t, at)
      PROVE  TypeOK'
  <2>1. NewClock(t, at) \in ClockType /\ now - at \in Nat
    BY StampFacts, NewClockFacts
  <2> QED
    BY <1>4, <2>1, SlaTimersAssumption DEF Reopen, PersonActs, Write, TypeOK
<1>5. ASSUME StartSchedule
      PROVE  TypeOK'
  BY <1>5, ReadsFacts DEF StartSchedule, Plans, Planners, counters, TypeOK
<1>6. ASSUME StartRebuild
      PROVE  TypeOK'
  <2>1. raced' \in BOOLEAN
    BY <1>6 DEF StartRebuild, Planners, TypeOK, PlanType
  <2> QED
    BY <1>6, <2>1, ReadsFacts DEF StartRebuild, Plans, Planners, counters, TypeOK
<1>7. ASSUME NEW p \in Planners, NEW s \in Steps, Look(p, s)
      PROVE  TypeOK'
  <2>1. job[s].state \in JobStates
    BY DEF TypeOK, JobType
  <2>2. [planner[p] EXCEPT !.pc = "act", !.step = s, !.saw = job[s].state] \in PlanType
    BY <2>1 DEF TypeOK, PlanType
  <2> QED
    BY <1>7, <2>2 DEF Look, Plans, counters, TypeOK
<1>8. ASSUME NEW p \in Planners, LeaveAlone(p)
      PROVE  TypeOK'
  <2>1. planner' \in [Planners -> PlanType]
    BY <1>8, HandledFacts DEF LeaveAlone
  <2>2. raced' \in BOOLEAN
    BY <1>8, Zenon DEF LeaveAlone, TypeOK
  <2> QED
    BY <1>8, <2>1, <2>2 DEF LeaveAlone, counters, TypeOK
<1>9. ASSUME NEW p \in Planners, AddTimer(p)
      PROVE  TypeOK'
  <2>1. planner' \in [Planners -> PlanType]
    BY <1>9, HandledFacts DEF AddTimer
  <2>2. planner[p].step \in Steps
    BY <1>9 DEF AddTimer, PlanInv
  <2>3. job' \in [Steps -> JobType]
    BY <1>9, <2>2, UntilFacts DEF AddTimer, TypeOK
  <2> QED
    BY <1>9, <2>1, <2>3 DEF AddTimer, counters, TypeOK
<1>10. ASSUME NEW p \in Planners, ChangeDelay(p)
      PROVE  TypeOK'
  <2>1. planner' \in [Planners -> PlanType]
    BY <1>10, HandledFacts DEF ChangeDelay
  <2>2. planner[p].step \in Steps
    BY <1>10 DEF ChangeDelay, PlanInv
  <2>3. job' \in [Steps -> JobType]
    BY <1>10, <2>2, UntilFacts DEF ChangeDelay, TypeOK
  <2> QED
    BY <1>10, <2>1, <2>3 DEF ChangeDelay, counters, TypeOK
<1>11. ASSUME NEW p \in Planners, RemoveTimer(p)
      PROVE  TypeOK'
  <2>1. [planner[p] EXCEPT !.saw = "none"] \in PlanType
    BY DEF TypeOK, PlanType, JobStates
  <2>2. planner' \in [Planners -> PlanType]
    BY <1>11, <2>1, HandledFacts DEF RemoveTimer, Plans, TypeOK
  <2>3. job' \in [Steps -> JobType]
    BY <1>11, NoJobFacts DEF RemoveTimer, TypeOK
  <2> QED
    BY <1>11, <2>2, <2>3 DEF RemoveTimer, counters, TypeOK
<1>12. ASSUME NEW p \in Planners, Refused(p)
      PROVE  TypeOK'
  <2>1. /\ planner' \in [Planners -> PlanType] /\ raced' \in BOOLEAN /\ events' \in Nat
    BY <1>12, StopsFacts, Zenon DEF Refused
  <2> QED
    BY <1>12, <2>1 DEF Refused, counters, TypeOK
<1>13. ASSUME NEW p \in Planners, FinishPlan(p)
      PROVE  TypeOK'
  <2>1. NoPlan \in PlanType
    BY DEF NoPlan, PlanType, JobStates
  <2>2. events' \in Nat
    BY <1>13 DEF FinishPlan, PlanInv, TypeOK
  <2> QED
    BY <1>13, <2>1, <2>2 DEF FinishPlan, Plans, counters, TypeOK
<1>14. ASSUME NEW w \in Workers, NEW s \in Steps, Take(w, s)
      PROVE  TypeOK'
  <2>1. [job[s] EXCEPT !.state = "active", !.by = w] \in JobType
    BY DEF TypeOK, JobType, JobStates
  <2>2. job' = [job EXCEPT ![s] = [job[s] EXCEPT !.state = "active", !.by = w]]
    BY <1>14 DEF Take, TypeOK
  <2>3. now \in Nat
    BY SlaTimersAssumption DEF TypeOK
  <2>4. [Idle EXCEPT !.pc = "run", !.step = s, !.now = now] \in WorkerType
    BY <2>3 DEF Idle, WorkerType
  <2> QED
    BY <1>14, <2>1, <2>2, <2>4 DEF Take, Works, counters, TypeOK
<1>15. ASSUME NEW w \in Workers, TimerDone(w)
      PROVE  TypeOK'
  BY <1>15, EndsFacts DEF TimerDone, counters, TypeOK
<1>16. ASSUME NEW w \in Workers, TimerEarly(w)
      PROVE  TypeOK'
  <2> DEFINE s == worker[w].step
             due == FireAt(clock, s)
             early == [Idle EXCEPT !.pc = "early", !.step = s, !.fireAt = due]
  <2>1. s \in Steps
    BY <1>16 DEF TimerEarly, WorkerInv
  <2>2. due \in Nat
    BY <2>1, FireAtIsNat DEF TypeOK
  <2>3. worker' = [worker EXCEPT ![w] = early]
    BY <1>16 DEF TimerEarly, Works
  <2> HIDE DEF due
  <2>4. early \in WorkerType
    BY <2>1, <2>2 DEF Idle, WorkerType
  <2> QED
    BY <1>16, <2>3, <2>4 DEF TimerEarly, counters, TypeOK
<1>17. ASSUME NEW w \in Workers, NEW pauses \in BOOLEAN, NEW t \in Targets, Fire(w, pauses, t)
      PROVE  TypeOK'
  <2>1. clock' \in ClockType /\ worker[w].step \in Steps
    BY <1>17, FireFacts
  <2>2. worker' \in [Workers -> WorkerType]
    BY <1>17, EndsFacts DEF Fire
  <2>3. events' \in Nat /\ raced' \in BOOLEAN
    BY <1>17 DEF Fire, Write, TypeOK
  <2>4. ran' \in [Steps -> Nat]
    BY <1>17, <2>1 DEF Fire, TypeOK
  <2> QED
    BY <1>17, <2>1, <2>2, <2>3, <2>4 DEF Fire, counters, TypeOK
<1>18. ASSUME NEW w \in Workers, Complete(w)
      PROVE  TypeOK'
  BY <1>18, IdleFacts, NoJobFacts DEF Complete, Works, counters, TypeOK
<1>19. ASSUME NEW w \in Workers, MoveToDelayed(w)
      PROVE  TypeOK'
  <2> DEFINE s == worker[w].step
             moved == Delayed(worker[w].fireAt, worker[w].fireAt)
  <2>1. s \in Steps /\ worker[w].fireAt \in Nat
    BY <1>19 DEF MoveToDelayed, WorkerInv, TypeOK, WorkerType
  <2>2. moved \in JobType
    BY <2>1 DEF Delayed, JobType, JobStates
  <2>3. job' = [job EXCEPT ![s] = moved]
    BY <1>19, <2>1 DEF MoveToDelayed, TypeOK
  <2> HIDE DEF moved
  <2> QED
    BY <1>19, <2>2, <2>3, IdleFacts DEF MoveToDelayed, Works, counters, TypeOK
<1>20. ASSUME NEW w \in Workers, NotTheOwner(w)
      PROVE  TypeOK'
  BY <1>20, IdleFacts DEF NotTheOwner, Works, counters, TypeOK
<1>21. ASSUME NEW s \in Steps, Promote(s)
      PROVE  TypeOK'
  <2>1. [job[s] EXCEPT !.state = "waiting"] \in JobType
    BY DEF TypeOK, JobType, JobStates
  <2> QED
    BY <1>21, <2>1 DEF Promote, counters, TypeOK
<1>22. ASSUME NEW s \in Steps, RequeueStalled(s)
      PROVE  TypeOK'
  <2>1. [job[s] EXCEPT !.state = "waiting", !.by = None] \in JobType
    BY DEF TypeOK, JobType, JobStates
  <2>2. job' = [job EXCEPT ![s] = [job[s] EXCEPT !.state = "waiting", !.by = None]]
    BY <1>22 DEF RequeueStalled, TypeOK
  <2> QED
    BY <1>22, <2>1, <2>2 DEF RequeueStalled, counters, TypeOK
<1>23. ASSUME NEW w \in Workers, NEW last \in BOOLEAN, TimerFails(w, last)
      PROVE  TypeOK'
  <2> DEFINE s == worker[w].step
             fails == [Delayed(now, job[s].due) EXCEPT
                         !.state = IF last THEN "failed" ELSE "delayed"]
  <2>1. s \in Steps /\ now \in Nat
    BY <1>23, SlaTimersAssumption DEF TimerFails, WorkerInv, TypeOK
  <2>2. job[s].due \in Nat
    BY <2>1 DEF TypeOK, JobType
  <2>3. fails \in JobType
    BY <2>1, <2>2 DEF Delayed, JobType, JobStates
  <2>4. job' = IF ~Owns(w) THEN job ELSE [job EXCEPT ![s] = fails]
    BY <1>23, <2>1 DEF TimerFails, TypeOK
  <2> HIDE DEF fails
  <2>5. job' \in [Steps -> JobType]
    BY <2>1, <2>3, <2>4 DEF TypeOK
  <2>6. /\ worker' \in [Workers -> WorkerType] /\ faults' \in 0..MaxFaults
        /\ UNCHANGED <<now, hourly, clock, events, planner, changes, consumed, ran, raced>>
    BY <1>23, IdleFacts, SlaTimersAssumption DEF TimerFails, Fault, Works, TypeOK
  <2> QED
    BY <2>5, <2>6 DEF TypeOK
<1>24. ASSUME NEW w \in Workers, CrashWorker(w)
      PROVE  TypeOK'
  BY <1>24, IdleFacts, SlaTimersAssumption DEF CrashWorker, Fault, Works, TypeOK
<1>25. ASSUME NEW s \in Steps, LoseJobLock(s)
      PROVE  TypeOK'
  <2>1. [job[s] EXCEPT !.state = "waiting", !.by = None] \in JobType
    BY DEF TypeOK, JobType, JobStates
  <2>2. job' = [job EXCEPT ![s] = [job[s] EXCEPT !.state = "waiting", !.by = None]]
    BY <1>25 DEF LoseJobLock, TypeOK
  <2> QED
    BY <1>25, <2>1, <2>2, SlaTimersAssumption DEF LoseJobLock, Fault, TypeOK
<1>26. ASSUME NEW p \in Planners, PlannerFails(p)
      PROVE  TypeOK'
  <2>1. /\ planner' \in [Planners -> PlanType] /\ raced' \in BOOLEAN /\ events' \in Nat
    BY <1>26, StopsFacts, Zenon DEF PlannerFails
  <2> QED
    BY <1>26, <2>1, SlaTimersAssumption DEF PlannerFails, Fault, TypeOK
<1>27. ASSUME RedisLoss
      PROVE  TypeOK'
  <2>1. faults' \in 0..MaxFaults
    BY <1>27, SlaTimersAssumption DEF RedisLoss, Fault, TypeOK
  <2>2. job' \in [Steps -> JobType]
    BY <1>27, LossFacts, NoJobFacts
  <2> QED
    BY <1>27, <2>1, <2>2, LossFacts DEF TypeOK
<1>28. CASE Boot
  BY <1>28 DEF Boot, counters, TypeOK
<1> QED
  BY <1>1, <1>2, <1>3, <1>4, <1>5, <1>6, <1>7, <1>8, <1>9, <1>10, <1>11, <1>12,
     <1>13, <1>14, <1>15, <1>16, <1>17, <1>18, <1>19, <1>20, <1>21, <1>22, <1>23,
     <1>24, <1>25, <1>26, <1>27, <1>28
     DEF Next, PlannerStep, WorkerStep, Troubles, Planners

(* Who holds a job. *)
LEMMA JobStep ==
  ASSUME TypeOK, JobInv, PlanInv, WorkerInv, Next
  PROVE  JobInv'
<1>1. CASE UNCHANGED job
  BY <1>1 DEF JobInv
<1>2. ASSUME NEW p \in Planners, AddTimer(p) \/ ChangeDelay(p) \/ RemoveTimer(p)
      PROVE  JobInv'
  <2> DEFINE s == planner[p].step
  <2>1. s \in Steps
    BY <1>2 DEF AddTimer, ChangeDelay, RemoveTimer, PlanInv
  <2>2. CASE AddTimer(p)
    BY <2>1, <2>2, UntilFacts, SlaTimersAssumption DEF AddTimer, JobInv, TypeOK
  <2>3. CASE ChangeDelay(p)
    BY <2>1, <2>3, UntilFacts, SlaTimersAssumption DEF ChangeDelay, JobInv, TypeOK
  <2>4. CASE RemoveTimer(p)
    BY <2>1, <2>4, NoJobFacts, SlaTimersAssumption DEF RemoveTimer, JobInv, TypeOK
  <2> QED
    BY <1>2, <2>2, <2>3, <2>4
<1>3. ASSUME NEW s \in Steps, Promote(s) \/ RequeueStalled(s) \/ LoseJobLock(s)
      PROVE  JobInv'
  BY <1>3, SlaTimersAssumption
     DEF Promote, RequeueStalled, LoseJobLock, JobInv, TypeOK, JobType
<1>4. ASSUME NEW w \in Workers, NEW s \in Steps, Take(w, s)
      PROVE  JobInv'
  BY <1>4, SlaTimersAssumption DEF Take, JobInv, TypeOK, JobType
<1>5. ASSUME NEW w \in Workers, Complete(w)
      PROVE  JobInv'
  BY <1>5, NoJobFacts, SlaTimersAssumption DEF Complete, JobInv, TypeOK
<1>6. ASSUME NEW w \in Workers, MoveToDelayed(w)
      PROVE  JobInv'
  <2> DEFINE s == worker[w].step
  <2>1. s \in Steps /\ job[s].state = "active"
    BY <1>6, SlaTimersAssumption DEF MoveToDelayed, Owns, WorkerInv, JobInv
  <2> QED
    BY <1>6, <2>1 DEF MoveToDelayed, Delayed, JobInv, TypeOK
<1>7. ASSUME NEW w \in Workers, NEW last \in BOOLEAN, TimerFails(w, last)
      PROVE  JobInv'
  <2> DEFINE s == worker[w].step
  <2>1. s \in Steps
    BY <1>7 DEF TimerFails, WorkerInv
  <2> QED
    BY <1>7, <2>1 DEF TimerFails, Delayed, JobInv, TypeOK
<1>8. CASE RedisLoss
  BY <1>8, NoJobFacts, SlaTimersAssumption DEF RedisLoss, JobInv
<1> QED
  BY <1>1, <1>2, <1>3, <1>4, <1>5, <1>6, <1>7, <1>8
     DEF Next, PlannerStep, WorkerStep, Troubles, Tick, Sync, Close, Reopen,
         StartSchedule, StartRebuild, Look, LeaveAlone, Refused, FinishPlan,
         TimerDone, TimerEarly, Fire, NotTheOwner, CrashWorker, PlannerFails, Boot

(* A planner: none loses its step before it has acted on it, and only the
   handler of sla.schedule ends an event. *)
LEMMA PlanStep ==
  ASSUME TypeOK, JobInv, PlanInv, WorkerInv, OrphanInv, Next
  PROVE  PlanInv'
<1>1. CASE UNCHANGED planner /\ events' \in Nat /\ events' >= events
  BY <1>1 DEF PlanInv, TypeOK
<1>2. ASSUME NEW p \in Planners, NEW s \in Steps, Look(p, s)
      PROVE  PlanInv'
  BY <1>2 DEF Look, Plans, PlanInv, TypeOK, PlanType
<1>3. StartSchedule \/ StartRebuild => PlanInv'
  BY ReadsFacts DEF StartSchedule, StartRebuild, Plans, PlanInv, TypeOK, Planners
<1>4. ASSUME NEW p \in Planners, LeaveAlone(p) \/ AddTimer(p) \/ ChangeDelay(p)
      PROVE  PlanInv'
  <2>1. planner[p].pc = "act" /\ Handled(p) /\ UNCHANGED events
    BY <1>4 DEF LeaveAlone, AddTimer, ChangeDelay
  <2>2. planner'[p].pc = "next" /\ \A q \in Planners : q # p => planner'[q] = planner[q]
    BY <2>1, HandledFacts
  <2> QED
    BY <2>1, <2>2 DEF PlanInv, Planners
<1>5. ASSUME NEW p \in Planners, RemoveTimer(p)
      PROVE  PlanInv'
  <2>1. CASE Handled(p)
    <3>1. planner'[p].pc = "next" /\ \A q \in Planners : q # p => planner'[q] = planner[q]
      BY <2>1, HandledFacts
    <3> QED
      BY <1>5, <3>1 DEF RemoveTimer, PlanInv, Planners
  <2>2. CASE Plans(p, [planner[p] EXCEPT !.saw = "none"])
    BY <1>5, <2>2 DEF RemoveTimer, Plans, PlanInv, TypeOK, PlanType
  <2> QED
    BY <1>5, <2>1, <2>2 DEF RemoveTimer
<1>6. ASSUME NEW p \in Planners, Refused(p) \/ PlannerFails(p)
      PROVE  PlanInv'
  <2>1. Stops(p)
    BY <1>6 DEF Refused, PlannerFails
  <2>2. /\ planner'[p].pc = "idle" /\ (p = "schedule" \/ UNCHANGED events)
        /\ \A q \in Planners : q # p => planner'[q] = planner[q]
    BY <2>1, StopsFacts
  <2> QED
    BY <2>2 DEF PlanInv, Planners
<1>7. ASSUME NEW p \in Planners, FinishPlan(p)
      PROVE  PlanInv'
  <2>1. NoPlan.pc = "idle"
    BY DEF NoPlan
  <2>2. planner'[p].pc = "idle" /\ \A q \in Planners : q # p => planner'[q] = planner[q]
    BY <1>7, <2>1 DEF FinishPlan, Plans, TypeOK
  <2>3. p = "schedule" \/ UNCHANGED events
    BY <1>7 DEF FinishPlan
  <2> QED
    BY <2>2, <2>3 DEF PlanInv, Planners
<1>8. ASSUME NEW before, NEW after, Write(before, after), UNCHANGED planner
      PROVE  PlanInv'
  BY <1>1, <1>8 DEF Write, TypeOK
<1>9. ASSUME NEW at \in Stamps,
             \/ \E pauses \in BOOLEAN, t \in Targets : Sync(pauses, t, at)
             \/ Close(at)
             \/ \E t \in Targets : Reopen(t, at)
      PROVE  PlanInv'
  BY <1>8, <1>9 DEF Sync, Close, Reopen
<1>10. ASSUME NEW w \in Workers, NEW pauses \in BOOLEAN, NEW t \in Targets,
              Fire(w, pauses, t)
       PROVE  PlanInv'
  BY <1>8, <1>10 DEF Fire
<1>11. CASE UNCHANGED <<planner, events>>
  BY <1>11 DEF PlanInv
<1>12. CASE RedisLoss
  BY <1>12, LossFacts DEF PlanInv, Planners
<1> QED
  BY <1>2, <1>3, <1>4, <1>5, <1>6, <1>7, <1>9, <1>10, <1>11, <1>12
     DEF Next, PlannerStep, WorkerStep, Troubles, Tick, Take, TimerDone, TimerEarly,
         Complete, MoveToDelayed, NotTheOwner, Promote, RequeueStalled, TimerFails,
         CrashWorker, LoseJobLock, Boot

(* A handler whose event is gone runs, and a loss of Redis came since the
   last rebuild was done. *)
LEMMA OrphanStep ==
  ASSUME TypeOK, PlanInv, OrphanInv, Next
  PROVE  OrphanInv'
<1>1. CASE UNCHANGED planner /\ (raced => raced')
  BY <1>1 DEF OrphanInv
<1>2. CASE RedisLoss
  BY <1>2, LossFacts DEF OrphanInv, Planners
<1>3. ASSUME NEW p \in Planners, planner'[p].orphan = FALSE, raced => raced',
             \A q \in Planners : q # p => planner'[q] = planner[q]
      PROVE  OrphanInv'
  BY <1>3 DEF OrphanInv, Planners
<1>4. CASE StartSchedule
  BY <1>3, <1>4, ReadsFacts DEF StartSchedule, Plans, Planners, TypeOK
<1>5. CASE StartRebuild
  <2>1. /\ planner'["rebuild"].orphan = FALSE /\ planner'["schedule"] = planner["schedule"]
        /\ raced' = planner["schedule"].orphan
    BY <1>5, ReadsFacts DEF StartRebuild, Plans, Planners, TypeOK
  <2> QED
    BY <2>1 DEF OrphanInv
<1>6. ASSUME NEW p \in Planners, Refused(p) \/ PlannerFails(p)
      PROVE  OrphanInv'
  <2>1. Stops(p)
    BY <1>6 DEF Refused, PlannerFails
  <2>2. /\ planner'[p].orphan = FALSE /\ (raced => raced')
        /\ \A q \in Planners : q # p => planner'[q] = planner[q]
    BY <2>1, StopsFacts, Zenon
  <2> QED
    BY <1>3, <2>2, Zenon
<1>7. ASSUME NEW p \in Planners, FinishPlan(p)
      PROVE  OrphanInv'
  BY <1>3, <1>7, NoPlanFacts DEF FinishPlan, Plans, TypeOK
<1>8. ASSUME NEW p \in Planners, planner'[p].orphan = planner[p].orphan, raced => raced',
             planner'[p].pc # "idle",
             \A q \in Planners : q # p => planner'[q] = planner[q]
      PROVE  OrphanInv'
  BY <1>8 DEF OrphanInv, Planners
<1>9. ASSUME NEW p \in Planners, NEW s \in Steps, Look(p, s)
      PROVE  OrphanInv'
  <2> DEFINE plan == [planner[p] EXCEPT !.pc = "act", !.step = s, !.saw = job[s].state]
  <2>1. plan.pc = "act" /\ plan.orphan = planner[p].orphan
    BY DEF TypeOK, PlanType
  <2>2. planner' = [planner EXCEPT ![p] = plan] /\ UNCHANGED raced
    BY <1>9 DEF Look, Plans
  <2> HIDE DEF plan
  <2> QED
    BY <1>8, <2>1, <2>2 DEF TypeOK
<1>10. ASSUME NEW p \in Planners,
              LeaveAlone(p) \/ AddTimer(p) \/ ChangeDelay(p) \/ RemoveTimer(p)
       PROVE  OrphanInv'
  <2>1. raced => raced'
    <3>1. LeaveAlone(p) => (raced => raced')
      BY Zenon DEF LeaveAlone
    <3> QED
      BY <1>10, <3>1 DEF AddTimer, ChangeDelay, RemoveTimer
  <2>2. Handled(p) \/ Plans(p, [planner[p] EXCEPT !.saw = "none"])
    BY <1>10 DEF LeaveAlone, AddTimer, ChangeDelay, RemoveTimer
  <2>3. planner[p].pc = "act"
    BY <1>10 DEF LeaveAlone, AddTimer, ChangeDelay, RemoveTimer
  <2>4. CASE Handled(p)
    BY <1>8, <2>1, <2>4, HandledFacts
  <2>5. CASE Plans(p, [planner[p] EXCEPT !.saw = "none"])
    BY <1>8, <2>1, <2>3, <2>5 DEF Plans, TypeOK, PlanType
  <2> QED
    BY <2>2, <2>4, <2>5
<1>11. ASSUME NEW before, NEW after, Write(before, after), UNCHANGED planner
       PROVE  OrphanInv'
  BY <1>1, <1>11, Zenon DEF Write
<1>12. ASSUME NEW at \in Stamps,
             \/ \E pauses \in BOOLEAN, t \in Targets : Sync(pauses, t, at)
             \/ Close(at)
             \/ \E t \in Targets : Reopen(t, at)
       PROVE  OrphanInv'
  <2>1. UNCHANGED planner /\ \E before, after : Write(before, after)
    BY <1>12 DEF Sync, Close, Reopen
  <2> QED
    BY <1>11, <2>1, Zenon
<1>13. ASSUME NEW w \in Workers, NEW pauses \in BOOLEAN, NEW t \in Targets,
              Fire(w, pauses, t)
       PROVE  OrphanInv'
  <2>1. UNCHANGED planner /\ \E before, after : Write(before, after)
    BY <1>13 DEF Fire
  <2> QED
    BY <1>11, <2>1, Zenon
<1>14. CASE UNCHANGED <<planner, raced>>
  BY <1>14 DEF OrphanInv
<1>15. ASSUME NEW w \in Workers, WorkerStep(w)
       PROVE  OrphanInv'
  BY <1>13, <1>14, <1>15
     DEF WorkerStep, Take, TimerDone, TimerEarly, Complete, MoveToDelayed, NotTheOwner
<1>16. ASSUME NEW p \in Planners, PlannerStep(p)
       PROVE  OrphanInv'
  BY <1>4, <1>5, <1>6, <1>7, <1>9, <1>10, <1>16 DEF PlannerStep
<1>17. CASE Troubles
  BY <1>2, <1>6, <1>14, <1>17 DEF Troubles, TimerFails, CrashWorker, LoseJobLock
<1> QED
  BY <1>12, <1>14, <1>15, <1>16, <1>17 DEF Next, Tick, Promote, RequeueStalled, Boot

(* A worker has a step and a time that is past until it is idle again. *)
LEMMA WorkerStepInv ==
  ASSUME TypeOK, WorkerInv, Next
  PROVE  WorkerInv'
<1>1. now \in Nat
  BY SlaTimersAssumption DEF TypeOK
<1>2. CASE UNCHANGED <<now, worker>>
  BY <1>2 DEF WorkerInv
<1>3. CASE Tick
  BY <1>1, <1>3 DEF Tick, WorkerInv, TypeOK, WorkerType
<1>4. ASSUME NEW w \in Workers, Works(w, Idle), UNCHANGED now
      PROVE  WorkerInv'
  BY <1>4, IdleFacts DEF Works, WorkerInv, TypeOK
<1>5. ASSUME NEW w \in Workers, NEW s \in Steps, Take(w, s)
      PROVE  WorkerInv'
  <2> DEFINE run == [Idle EXCEPT !.pc = "run", !.step = s, !.now = now]
  <2>1. run.step = s /\ run.now = now
    BY DEF Idle
  <2>2. worker' = [worker EXCEPT ![w] = run] /\ UNCHANGED now
    BY <1>5 DEF Take, Works
  <2> HIDE DEF run
  <2> QED
    BY <1>1, <2>1, <2>2 DEF WorkerInv, TypeOK
<1>6. ASSUME NEW w \in Workers, Ends(w), worker[w].pc # "idle", UNCHANGED now
      PROVE  WorkerInv'
  BY <1>1, <1>6, EndsFacts DEF WorkerInv
<1>7. ASSUME NEW w \in Workers, TimerEarly(w)
      PROVE  WorkerInv'
  <2> DEFINE early == [Idle EXCEPT !.pc = "early", !.step = worker[w].step,
                                   !.fireAt = FireAt(clock, worker[w].step)]
  <2>1. early.step = worker[w].step /\ early.now = 0
    BY DEF Idle
  <2>2. worker' = [worker EXCEPT ![w] = early] /\ UNCHANGED now
    BY <1>7 DEF TimerEarly, Works
  <2>3. worker[w].step \in Steps
    BY <1>7 DEF TimerEarly, WorkerInv
  <2> HIDE DEF early
  <2> QED
    BY <1>1, <2>1, <2>2, <2>3 DEF WorkerInv, TypeOK
<1>8. ASSUME NEW w \in Workers,
             \/ TimerDone(w)
             \/ \E pauses \in BOOLEAN, t \in Targets : Fire(w, pauses, t)
      PROVE  WorkerInv'
  BY <1>6, <1>8 DEF TimerDone, Fire
<1>9. ASSUME NEW w \in Workers,
             \/ Complete(w) \/ MoveToDelayed(w) \/ NotTheOwner(w) \/ CrashWorker(w)
             \/ \E last \in BOOLEAN : TimerFails(w, last)
      PROVE  WorkerInv'
  BY <1>4, <1>9 DEF Complete, MoveToDelayed, NotTheOwner, TimerFails, CrashWorker
<1> QED
  BY <1>2, <1>3, <1>5, <1>7, <1>8, <1>9
     DEF Next, PlannerStep, WorkerStep, Troubles, Sync, Close, Reopen, StartSchedule,
         StartRebuild, Look, LeaveAlone, AddTimer, ChangeDelay, RemoveTimer, Refused,
         FinishPlan, Promote, RequeueStalled, LoseJobLock, PlannerFails, RedisLoss, Boot

-----------------------------------------------------------------------------
(* The clock and what became of its steps.                                 *)

(* Which actions touch the clock, the time or the histories. *)
LEMMA ClockSteps ==
  ASSUME Next
  PROVE  \/ Tick
         \/ \E at \in Stamps :
              \/ \E pauses \in BOOLEAN, t \in Targets : Sync(pauses, t, at)
              \/ Close(at)
              \/ \E t \in Targets : Reopen(t, at)
         \/ \E w \in Workers, pauses \in BOOLEAN, t \in Targets : Fire(w, pauses, t)
         \/ UNCHANGED <<now, clock, consumed, ran>>
BY DEF Next, PlannerStep, WorkerStep, Troubles, StartSchedule, StartRebuild, Look,
       LeaveAlone, AddTimer, ChangeDelay, RemoveTimer, Refused, FinishPlan, Take,
       TimerDone, TimerEarly, Complete, MoveToDelayed, NotTheOwner, Promote,
       RequeueStalled, TimerFails, CrashWorker, LoseJobLock, PlannerFails, RedisLoss, Boot

LEMMA RanStep ==
  ASSUME TypeOK, WorkerInv, RanInv, Next
  PROVE  RanInv'
<1>1. CASE UNCHANGED <<clock, ran>>
  BY <1>1 DEF RanInv
<1>2. CASE Tick
  BY <1>1, <1>2 DEF Tick
<1>3. ASSUME NEW at \in Stamps, NEW pauses \in BOOLEAN, NEW t \in Targets,
             Sync(pauses, t, at)
      PROVE  RanInv'
  <2>1. Reconcile(clock, pauses, t, at).fired = clock.fired
    BY StampFacts, ReconcileFacts DEF TypeOK
  <2> QED
    BY <1>3, <2>1 DEF Sync, Write, RanInv
<1>4. ASSUME NEW at \in Stamps, Close(at)
      PROVE  RanInv'
  <2>1. \A ended \in {Satisfy(clock, at), Stop(clock, at)} : ended.fired = clock.fired
    BY StampFacts, ClosedFacts DEF TypeOK
  <2> QED
    BY <1>4, <2>1 DEF Close, Write, RanInv
<1>5. ASSUME NEW at \in Stamps, NEW t \in Targets, Reopen(t, at)
      PROVE  RanInv'
  BY <1>5 DEF Reopen, Write, RanInv
<1>6. ASSUME NEW w \in Workers, NEW pauses \in BOOLEAN, NEW t \in Targets,
             Fire(w, pauses, t)
      PROVE  RanInv'
  <2> DEFINE s == worker[w].step
  <2>1. /\ s \in Steps /\ s \notin clock.fired
        /\ clock'.fired = clock.fired \union {s}
    BY <1>6, FireFacts
  <2>2. ran' = [ran EXCEPT ![s] = @ + 1]
    BY <1>6 DEF Fire
  <2> HIDE DEF s
  <2>3. ran[s] = 0
    BY <2>1 DEF RanInv, TypeOK
  <2> QED
    BY <2>1, <2>2, <2>3 DEF RanInv, TypeOK
<1> QED
  BY <1>1, <1>2, <1>3, <1>4, <1>5, <1>6, ClockSteps

LEMMA CountStep ==
  ASSUME TypeOK, WorkerInv, NothingElseCounted, Next
  PROVE  NothingElseCounted'
<1>1. /\ clock \in ClockType /\ now \in Nat /\ consumed \in Nat
      /\ ElapsedAt(clock, now) <= consumed /\ ElapsedAt(clock, now) \in Nat
  BY SlaTimersAssumption DEF TypeOK, NothingElseCounted, ElapsedAt, ClockType
<1>2. CASE UNCHANGED <<now, clock, consumed>>
  BY <1>2 DEF NothingElseCounted
<1>3. CASE Tick
  BY <1>1, <1>3 DEF Tick, NothingElseCounted, ElapsedAt, ClockType
<1>4. ASSUME NEW at \in Stamps, NEW pauses \in BOOLEAN, NEW t \in Targets,
             Sync(pauses, t, at)
      PROVE  NothingElseCounted'
  <2> DEFINE after == Reconcile(clock, pauses, t, at)
  <2>1. at \in Nat /\ at <= now /\ now - at \in Nat
    BY StampFacts
  <2>2. after \in ClockType /\ ElapsedAt(after, now) <=
          ElapsedAt(clock, now) + IF Counting(after) /\ ~Counting(clock) THEN now - at ELSE 0
    BY <1>1, <2>1, ReconcileFacts
  <2>3. /\ clock' = after /\ now' = now
        /\ consumed' = IF Counting(after) /\ ~Counting(clock) THEN consumed + (now - at)
                       ELSE consumed
    BY <1>4 DEF Sync, Write
  <2> HIDE DEF after
  <2>4. ElapsedAt(after, now) \in Nat
    BY <1>1, <2>2 DEF ElapsedAt, ClockType
  <2>5. ElapsedAt(after, now) <= consumed'
    BY <1>1, <2>1, <2>2, <2>3, <2>4
  <2>6. ElapsedAt(clock', now') <= consumed'
    BY <2>3, <2>5
  <2> QED
    BY <2>6 DEF NothingElseCounted
<1>5. ASSUME NEW at \in Stamps, Close(at)
      PROVE  NothingElseCounted'
  <2>0. PICK ended \in {Satisfy(clock, at), Stop(clock, at)} : Write(clock, ended)
    BY <1>5 DEF Close
  <2>1. ended \in ClockType /\ ElapsedAt(ended, now) <= ElapsedAt(clock, now)
    BY <1>1, StampFacts, ClosedFacts
  <2>2. ElapsedAt(ended, now) \in Nat
    BY <1>1, <2>1 DEF ElapsedAt, ClockType
  <2>3. clock' = ended /\ now' = now /\ consumed' = consumed
    BY <1>5, <2>0 DEF Close, Write
  <2>4. ElapsedAt(clock', now') <= consumed'
    BY <1>1, <2>1, <2>2, <2>3
  <2> QED
    BY <2>4 DEF NothingElseCounted
<1>6. ASSUME NEW at \in Stamps, NEW t \in Targets, Reopen(t, at)
      PROVE  NothingElseCounted'
  <2>1. ElapsedAt(NewClock(t, at), now) = now - at /\ now - at \in Nat
    BY StampFacts, NewClockFacts
  <2>2. clock' = NewClock(t, at) /\ now' = now /\ consumed' = now - at
    BY <1>6 DEF Reopen, Write
  <2>3. ElapsedAt(clock', now') <= consumed'
    BY <2>1, <2>2
  <2> QED
    BY <2>3 DEF NothingElseCounted
<1>7. ASSUME NEW w \in Workers, NEW pauses \in BOOLEAN, NEW t \in Targets,
             Fire(w, pauses, t)
      PROVE  NothingElseCounted'
  <2>1. clock' \in ClockType /\ ElapsedAt(clock', now) <= ElapsedAt(clock, now)
    BY <1>7, FireFacts
  <2>2. ElapsedAt(clock', now) \in Nat
    BY <1>1, <2>1 DEF ElapsedAt, ClockType
  <2>3. now' = now /\ consumed' = consumed
    BY <1>7 DEF Fire
  <2>4. ElapsedAt(clock', now') <= consumed'
    BY <1>1, <2>1, <2>2, <2>3
  <2> QED
    BY <2>4 DEF NothingElseCounted
<1> QED
  BY <1>2, <1>3, <1>4, <1>5, <1>6, <1>7, ClockSteps

-----------------------------------------------------------------------------
(* The timers: what is planned from the clock as it is, and what becomes   *)
(* of the job of a step it wants.                                          *)

LEMMA StillAhead ==
  ASSUME TypeOK, PlanInv, UNCHANGED planner, events' = events + 1
  PROVE  Ahead'
BY DEF Ahead, TypeOK, PlanInv

(* A saved change leaves an event behind, and races a rebuild that runs; a
   step that is only marked is one less to want. *)
LEMMA WriteFacts ==
  ASSUME TypeOK, PlanInv, UNCHANGED planner,
         NEW before, NEW after, Write(before, after)
  PROVE  /\ raced => raced'
         /\ \/ Ahead' /\ (planner["rebuild"].pc # "idle" => raced')
            \/ clock' = before /\ events' = events /\ (raced' => raced)
<1>1. CASE after # before
  BY <1>1, StillAhead DEF Write
<1>2. CASE after = before
  BY <1>2 DEF Write
<1> QED
  BY <1>1, <1>2

LEMMA MarkedWants ==
  ASSUME NEW c \in ClockType, NEW u \in Steps, NEW s \in Steps,
         Wanted(MarkFired(c, u), s)
  PROVE  /\ Wanted(c, s) /\ s # u
         /\ FireAt(MarkFired(c, u), s) = FireAt(c, s)
BY DEF Wanted, Counting, Done, MarkFired, FireAt, Threshold, ClockType

(* What a change of the clock is to the planners: an event and a race, or
   no more than a step marked by its worker. *)
LEMMA ChangeFacts ==
  ASSUME TypeOK, PlanInv, WorkerInv,
         \/ \E at \in Stamps :
              \/ \E pauses \in BOOLEAN, t \in Targets : Sync(pauses, t, at)
              \/ Close(at)
              \/ \E t \in Targets : Reopen(t, at)
         \/ \E w \in Workers, pauses \in BOOLEAN, t \in Targets : Fire(w, pauses, t)
  PROVE  /\ UNCHANGED <<now, job, planner>>
         /\ raced => raced'
         /\ \/ Ahead' /\ (planner["rebuild"].pc # "idle" => raced')
            \/ /\ events' = events /\ (raced' => raced)
               /\ \/ UNCHANGED <<clock, worker>>
                  \/ \E w \in Workers :
                       /\ worker[w].step \in Steps /\ Ends(w)
                       /\ clock' = MarkFired(clock, worker[w].step)
<1>1. CASE \E at \in Stamps :
              \/ \E pauses \in BOOLEAN, t \in Targets : Sync(pauses, t, at)
              \/ Close(at)
              \/ \E t \in Targets : Reopen(t, at)
  <2>1. \E after : Write(clock, after)
    BY <1>1 DEF Sync, Close, Reopen
  <2>2. UNCHANGED <<now, job, planner, worker>>
    BY <1>1 DEF Sync, Close, Reopen
  <2> QED
    BY <2>1, <2>2, WriteFacts
<1>2. ASSUME NEW w \in Workers, NEW pauses \in BOOLEAN, NEW t \in Targets, Fire(w, pauses, t)
      PROVE  /\ UNCHANGED <<now, job, planner>> /\ Ends(w) /\ worker[w].step \in Steps
             /\ \E after : Write(MarkFired(clock, worker[w].step), after)
  BY <1>2 DEF Fire, WorkerInv
<1>3. CASE \E w \in Workers, pauses \in BOOLEAN, t \in Targets : Fire(w, pauses, t)
  BY <1>2, <1>3, WriteFacts
<1> QED
  BY <1>1, <1>3

(* A plan stays that of the clock when it keeps what it wants of the steps
   it has left. *)
LEMMA FreshStays ==
  ASSUME NEW p \in Planners, UNCHANGED clock, Fresh(p),
         planner'[p].todo \subseteq planner[p].todo,
         \A s \in planner'[p].todo :
           /\ s \in planner[p].wanted => s \in planner'[p].wanted
           /\ planner'[p].due[s] = planner[p].due[s]
  PROVE  Fresh(p)'
BY DEF Fresh, Wanted, Counting, Done, FireAt, Threshold

LEMMA ReadsAreFresh ==
  ASSUME TypeOK, NEW p \in Planners, Plans(p, Reads), UNCHANGED clock
  PROVE  /\ Fresh(p)' /\ planner'[p].pc = "next" /\ planner'[p].todo = Steps
         /\ \A q \in Planners : q # p => planner'[q] = planner[q]
<1> DEFINE wanted == {s \in Steps : Wanted(clock, s)}
           due == [s \in Steps |-> IF s \in wanted THEN FireAt(clock, s) ELSE 0]
<1>1. /\ Reads.pc = "next" /\ Reads.todo = Steps
      /\ Reads.wanted = wanted /\ Reads.due = due
  BY DEF Reads
<1>2. planner' = [planner EXCEPT ![p] = Reads] /\ p \in DOMAIN planner
  BY DEF Plans, TypeOK
<1>3. planner'[p] = Reads /\ \A q \in Planners : q # p => planner'[q] = planner[q]
  BY <1>2 DEF TypeOK
<1>4. \A s \in Steps : Wanted(clock, s) => s \in wanted /\ due[s] = FireAt(clock, s)
  OBVIOUS
<1> HIDE DEF wanted, due
<1>5. Fresh(p)'
  BY <1>1, <1>3, <1>4 DEF Fresh, Wanted, Counting, Done, FireAt, Threshold
<1> QED
  BY <1>1, <1>3, <1>5

(* What a planner's step is to the plans: a plan is begun, given up or
   ended, or goes on with what it has left. *)
LEMMA FreshStep ==
  ASSUME TypeOK, JobInv, PlanInv, WorkerInv, FreshInv, Next
  PROVE  FreshInv'
<1>0. OrphanInv'
  BY OrphanStep DEF FreshInv
<1>1. CASE UNCHANGED <<clock, events, planner>> /\ (raced => raced')
  <2>1. \A p \in Planners : Fresh(p) => Fresh(p)'
    BY <1>1, FreshStays
  <2> QED
    BY <1>0, <1>1, <2>1 DEF FreshInv, Ahead, Planners
<1>2. CASE \/ \E at \in Stamps :
                \/ \E pauses \in BOOLEAN, t \in Targets : Sync(pauses, t, at)
                \/ Close(at)
                \/ \E t \in Targets : Reopen(t, at)
           \/ \E w \in Workers, pauses \in BOOLEAN, t \in Targets : Fire(w, pauses, t)
  <2>1. UNCHANGED planner /\ (raced => raced')
    BY <1>2, ChangeFacts
  <2>2. CASE Ahead' /\ (planner["rebuild"].pc # "idle" => raced')
    BY <1>0, <2>1, <2>2 DEF FreshInv
  <2>3. CASE UNCHANGED clock /\ UNCHANGED events
    BY <1>1, <2>1, <2>3
  <2>4. ASSUME NEW u \in Steps, clock' = MarkFired(clock, u), UNCHANGED events
        PROVE  FreshInv'
    <3>1. ASSUME NEW p \in Planners, Fresh(p)
          PROVE  Fresh(p)'
      <4>1. planner[p].todo \subseteq Steps /\ clock \in ClockType
        BY DEF TypeOK, PlanType
      <4>2. \A s \in planner[p].todo :
              Wanted(clock', s) => Wanted(clock, s) /\ FireAt(clock', s) = FireAt(clock, s)
        BY <2>4, <4>1, MarkedWants
      <4> QED
        BY <2>1, <3>1, <4>2 DEF Fresh
    <3> QED
      BY <1>0, <2>1, <2>4, <3>1 DEF FreshInv, Ahead, Planners
  <2> QED
    BY <1>2, <2>2, <2>3, <2>4, ChangeFacts
<1>3. ASSUME NEW p \in Planners, planner[p].pc = "idle", Plans(p, Reads),
             UNCHANGED <<clock, events>>, p = "rebuild" \/ UNCHANGED raced
      PROVE  FreshInv'
  <2>1. /\ Fresh(p)' /\ planner'[p].pc = "next"
        /\ \A q \in Planners : q # p => planner'[q] = planner[q]
    BY <1>3, ReadsAreFresh
  <2>2. \A q \in Planners : q # p /\ Fresh(q) => Fresh(q)'
    BY <1>3, <2>1, FreshStays
  <2> QED
    BY <1>0, <1>3, <2>1, <2>2 DEF FreshInv, Ahead, Planners
<1>4. ASSUME NEW p \in Planners, planner[p].pc # "idle", planner'[p].pc \in {"next", "act"},
             planner'[p].pc = "act" => planner'[p].step \in planner'[p].todo,
             \A q \in Planners : q # p => planner'[q] = planner[q],
             UNCHANGED <<clock, events>>, raced => raced',
             planner'[p].orphan = planner[p].orphan,
             planner'[p].todo \subseteq planner[p].todo,
             \A s \in planner'[p].todo :
               /\ s \in planner[p].wanted => s \in planner'[p].wanted
               /\ planner'[p].due[s] = planner[p].due[s]
      PROVE  FreshInv'
  <2>1. Fresh(p) => Fresh(p)'
    BY <1>4, FreshStays
  <2>2. \A q \in Planners : q # p /\ Fresh(q) => Fresh(q)'
    BY <1>4, FreshStays
  <2> QED
    BY <1>0, <1>4, <2>1, <2>2 DEF FreshInv, Ahead, Planners
<1>5. ASSUME NEW p \in Planners, NEW s \in Steps, Look(p, s)
      PROVE  FreshInv'
  <2> DEFINE plan == [planner[p] EXCEPT !.pc = "act", !.step = s, !.saw = job[s].state]
  <2>1. /\ plan.pc = "act" /\ plan.step = s /\ plan.todo = planner[p].todo
        /\ plan.wanted = planner[p].wanted /\ plan.due = planner[p].due
        /\ plan.orphan = planner[p].orphan
    BY DEF TypeOK, PlanType
  <2>2. /\ planner' = [planner EXCEPT ![p] = plan] /\ s \in planner[p].todo
        /\ planner[p].pc = "next" /\ UNCHANGED <<clock, events, raced>>
    BY <1>5 DEF Look, Plans, Turn
  <2> HIDE DEF plan
  <2>3. planner'[p] = plan /\ \A q \in Planners : q # p => planner'[q] = planner[q]
    BY <2>2 DEF TypeOK
  <2> QED
    BY <1>4, <2>1, <2>2, <2>3
<1>6. ASSUME NEW p \in Planners, Handled(p), planner[p].pc = "act",
             UNCHANGED <<clock, events>>, raced => raced'
      PROVE  FreshInv'
  <2>1. planner[p].todo \subseteq Steps
    BY DEF TypeOK, PlanType
  <2> QED
    BY <1>4, <1>6, <2>1, HandledFacts
<1>7. ASSUME NEW p \in Planners,
             LeaveAlone(p) \/ AddTimer(p) \/ ChangeDelay(p) \/ (RemoveTimer(p) /\ Handled(p))
      PROVE  FreshInv'
  <2>1. LeaveAlone(p) => (raced => raced')
    BY Zenon DEF LeaveAlone
  <2>2. /\ Handled(p) /\ planner[p].pc = "act" /\ UNCHANGED <<clock, events>>
        /\ LeaveAlone(p) \/ UNCHANGED raced
    BY <1>7 DEF LeaveAlone, AddTimer, ChangeDelay, RemoveTimer
  <2>3. raced => raced'
    BY <2>1, <2>2
  <2> QED
    BY <1>6, <2>2, <2>3
<1>8. ASSUME NEW p \in Planners, RemoveTimer(p), Plans(p, [planner[p] EXCEPT !.saw = "none"])
      PROVE  FreshInv'
  <2> DEFINE plan == [planner[p] EXCEPT !.saw = "none"]
  <2>1. /\ plan.pc = planner[p].pc /\ plan.step = planner[p].step
        /\ plan.todo = planner[p].todo
        /\ plan.wanted = planner[p].wanted /\ plan.due = planner[p].due
        /\ plan.orphan = planner[p].orphan
    BY DEF TypeOK, PlanType
  <2>2. /\ planner' = [planner EXCEPT ![p] = plan]
        /\ planner[p].pc = "act" /\ UNCHANGED <<clock, events, raced>>
    BY <1>8 DEF RemoveTimer, Plans
  <2> HIDE DEF plan
  <2>3. planner'[p] = plan /\ \A q \in Planners : q # p => planner'[q] = planner[q]
    BY <2>2 DEF TypeOK
  <2>4. planner[p].step \in planner[p].todo
    BY <2>2 DEF FreshInv
  <2> QED
    BY <1>4, <2>1, <2>2, <2>3, <2>4
<1>9. ASSUME NEW p \in Planners, planner'[p].pc = "idle",
             \A q \in Planners : q # p => planner'[q] = planner[q],
             UNCHANGED clock, raced => raced', p = "schedule" \/ UNCHANGED events
      PROVE  FreshInv'
  <2>1. \A q \in Planners : q # p /\ Fresh(q) => Fresh(q)'
    BY <1>9, FreshStays
  <2> QED
    BY <1>0, <1>9, <2>1 DEF FreshInv, Ahead, Planners
<1>10. ASSUME NEW p \in Planners, Refused(p) \/ PlannerFails(p)
       PROVE  FreshInv'
  <2>1. Stops(p) /\ UNCHANGED clock
    BY <1>10 DEF Refused, PlannerFails
  <2>2. OrphanInv
    BY DEF FreshInv
  <2>3. /\ planner'[p].pc = "idle" /\ (raced => raced') /\ (p = "schedule" \/ UNCHANGED events)
        /\ \A q \in Planners : q # p => planner'[q] = planner[q]
    BY <2>1, <2>2, StopsFacts, Zenon
  <2> QED
    BY <1>9, <2>1, <2>3, Zenon
<1>11. ASSUME NEW p \in Planners, FinishPlan(p)
       PROVE  FreshInv'
  <2>1. planner'[p].pc = "idle" /\ \A q \in Planners : q # p => planner'[q] = planner[q]
    BY <1>11, NoPlanFacts DEF FinishPlan, Plans, TypeOK
  <2> QED
    BY <1>9, <1>11, <2>1 DEF FinishPlan
<1>12. ASSUME NEW p \in Planners, PlannerStep(p)
       PROVE  FreshInv'
  <2>1. p = "schedule" /\ StartSchedule => FreshInv'
    BY <1>3 DEF StartSchedule, Planners
  <2>2. p = "rebuild" /\ StartRebuild => FreshInv'
    BY <1>3 DEF StartRebuild, Planners
  <2>3. RemoveTimer(p) => Handled(p) \/ Plans(p, [planner[p] EXCEPT !.saw = "none"])
    BY DEF RemoveTimer
  <2> QED
    BY <1>5, <1>7, <1>8, <1>10, <1>11, <1>12, <2>1, <2>2, <2>3 DEF PlannerStep
<1>13. CASE Tick \/ (\E w \in Workers : WorkerStep(w) /\ UNCHANGED clock)
            \/ (\E s \in Steps : Promote(s) \/ RequeueStalled(s)) \/ Boot \/ Troubles
  <2>1. CASE \E p \in Planners : PlannerFails(p)
    BY <1>10, <2>1
  <2>2. CASE \E w \in Workers, pauses \in BOOLEAN, t \in Targets : Fire(w, pauses, t)
    BY <1>2, <2>2
  <2>3. CASE RedisLoss
    BY <1>0, <2>3, LossFacts DEF FreshInv, Planners
  <2> QED
    BY <1>1, <1>13, <2>1, <2>2, <2>3
       DEF Tick, WorkerStep, Troubles, Take, TimerDone, TimerEarly, Complete, MoveToDelayed,
           NotTheOwner, Promote, RequeueStalled, TimerFails, CrashWorker, LoseJobLock, Boot
<1>14. ASSUME NEW w \in Workers, WorkerStep(w)
       PROVE  FreshInv'
  BY <1>2, <1>13, <1>14
     DEF WorkerStep, Take, TimerDone, TimerEarly, Complete, MoveToDelayed, NotTheOwner
<1> QED
  BY <1>2, <1>12, <1>13, <1>14 DEF Next

(* A timer keeps its place while its job is there, due as it was, and the
   worker that holds it does not end it or move it to another time. *)
LEMMA KeptStays ==
  ASSUME TypeOK, NEW s \in Steps, Kept(s), UNCHANGED clock,
         now' \in Nat, now' >= now,
         job'[s].state # "none", job'[s].due = job[s].due,
         \A w \in Workers :
           worker'[w].step = s /\ job'[s].by = w =>
             /\ worker'[w].pc # "done"
             /\ worker'[w].pc = "early" => worker'[w].fireAt = FireAt(clock, s)
  PROVE  Kept(s)'
<1>1. FireAt(clock, s) \in Nat /\ now \in Nat
  BY FireAtIsNat, SlaTimersAssumption DEF TypeOK
<1>2. FireAt(clock', s) > now' => FireAt(clock, s) > now
  BY <1>1
<1> HIDE DEF FireAt
<1> QED
  BY <1>2 DEF Kept

LEMMA MendsStays ==
  ASSUME NEW p \in Planners, NEW s \in Steps, Mends(p, s),
         planner'[p] = planner[p], job[s].state = "none" => job'[s].state = "none"
  PROVE  Mends(p, s)'
BY DEF Mends

(* A job set or added with the time the clock has for the step is kept: no
   worker holds it. *)
LEMMA PlannedIsKept ==
  ASSUME TypeOK, NEW s \in Steps, UNCHANGED <<now, clock>>,
         job'[s].state # "none", job'[s].due = FireAt(clock, s), job'[s].by = None
  PROVE  Kept(s)'
<1>1. \A w \in Workers : job'[s].by # w
  BY SlaTimersAssumption
<1> HIDE DEF FireAt
<1> QED
  BY <1>1 DEF Kept

(* The steps of workers, of BullMQ and of the time leave a wanted timer in
   place and make no job where there is none. *)
LEMMA WorkersKeep ==
  ASSUME TypeOK, JobInv, WorkerInv, UNCHANGED clock, NEW s \in Steps, Wanted(clock, s),
         \/ Tick
         \/ \E w \in Workers :
              \/ \E u \in Steps : Take(w, u)
              \/ TimerDone(w) \/ TimerEarly(w)
              \/ Complete(w) \/ MoveToDelayed(w) \/ NotTheOwner(w)
              \/ CrashWorker(w) \/ \E last \in BOOLEAN : TimerFails(w, last)
         \/ \E u \in Steps : Promote(u) \/ RequeueStalled(u) \/ LoseJobLock(u)
  PROVE  /\ UNCHANGED <<events, planner, raced>>
         /\ Kept(s) => Kept(s)'
         /\ job[s].state = "none" => job'[s].state = "none"
<1>1. now \in Nat /\ job[s] \in JobType /\ None \notin Workers /\ None # s
  BY SlaTimersAssumption DEF TypeOK
<1>2. CASE Tick
  <2>1. now' \in Nat /\ now' >= now /\ UNCHANGED <<job, worker, events, planner, raced>>
    BY <1>1, <1>2 DEF Tick
  <2>2. Kept(s) => Kept(s)'
    BY <2>1, KeptStays DEF Kept
  <2> QED
    BY <2>1, <2>2
<1>3. ASSUME NEW u \in Steps,
             \/ Promote(u) \/ RequeueStalled(u) \/ LoseJobLock(u)
      PROVE  /\ UNCHANGED <<events, planner, raced>>
             /\ Kept(s) => Kept(s)'
             /\ job[s].state = "none" => job'[s].state = "none"
  <2>1. /\ UNCHANGED <<now, events, planner, raced, worker>>
        /\ job[u].state # "none"
        /\ job' = [job EXCEPT ![u].state = "waiting"]
             \/ job' = [job EXCEPT ![u].state = "waiting", ![u].by = None]
    BY <1>3 DEF Promote, RequeueStalled, LoseJobLock
  <2>2. /\ job'[s].due = job[s].due
        /\ job'[s].by = job[s].by \/ job'[s].by = None
        /\ job'[s].state = job[s].state \/ (job'[s].state = "waiting" /\ job[s].state # "none")
    BY <2>1 DEF TypeOK, JobType
  <2>3. Kept(s) => Kept(s)'
    BY <1>1, <2>1, <2>2, KeptStays DEF Kept
  <2> QED
    BY <2>1, <2>2, <2>3
<1>4. ASSUME NEW w \in Workers, UNCHANGED <<now, job, events, planner, raced>>,
             \A v \in Workers : v # w => worker'[v] = worker[v],
             worker'[w].step # s
               \/ (worker'[w].pc = "early" /\ worker'[w].fireAt = FireAt(clock, s))
      PROVE  Kept(s) => Kept(s)'
  BY <1>1, <1>4, KeptStays DEF Kept
<1>5. ASSUME NEW w \in Workers, TimerDone(w)
      PROVE  /\ UNCHANGED <<events, planner, raced, job>>
             /\ Kept(s) => Kept(s)'
  <2>1. /\ worker'[w].step = worker[w].step /\ worker[w].step # s
        /\ \A v \in Workers : v # w => worker'[v] = worker[v]
    BY <1>5, EndsFacts DEF TimerDone
  <2> QED
    BY <1>4, <1>5, <2>1 DEF TimerDone
<1>6. ASSUME NEW w \in Workers, TimerEarly(w)
      PROVE  /\ UNCHANGED <<events, planner, raced, job>>
             /\ Kept(s) => Kept(s)'
  <2> DEFINE early == [Idle EXCEPT !.pc = "early", !.step = worker[w].step,
                                   !.fireAt = FireAt(clock, worker[w].step)]
  <2>1. /\ early.step = worker[w].step /\ early.pc = "early"
        /\ early.fireAt = FireAt(clock, worker[w].step)
    BY DEF Idle
  <2>2. worker' = [worker EXCEPT ![w] = early]
    BY <1>6 DEF TimerEarly, Works
  <2> HIDE DEF early
  <2>3. worker'[w] = early /\ \A v \in Workers : v # w => worker'[v] = worker[v]
    BY <2>2 DEF TypeOK
  <2>4. worker'[w].step # s \/ (worker'[w].pc = "early" /\ worker'[w].fireAt = FireAt(clock, s))
    BY <2>1, <2>3
  <2>5. UNCHANGED <<now, job, events, planner, raced>>
    BY <1>6 DEF TimerEarly
  <2>6. Kept(s) => Kept(s)'
    BY <1>4, <2>3, <2>4, <2>5
  <2> QED
    BY <2>5, <2>6
<1>7. ASSUME NEW w \in Workers, NEW u \in Steps, Take(w, u)
      PROVE  /\ UNCHANGED <<events, planner, raced>>
             /\ Kept(s) => Kept(s)'
             /\ job[s].state = "none" => job'[s].state = "none"
  <2> DEFINE run == [Idle EXCEPT !.pc = "run", !.step = u, !.now = now]
  <2>1. run.pc = "run" /\ run.step = u
    BY DEF Idle
  <2>2. /\ worker' = [worker EXCEPT ![w] = run]
        /\ job' = [job EXCEPT ![u].state = "active", ![u].by = w]
        /\ job[u].state = "waiting" /\ UNCHANGED <<now, events, planner, raced>>
    BY <1>7 DEF Take, Works
  <2> HIDE DEF run
  <2>3. worker'[w] = run /\ \A v \in Workers : v # w => worker'[v] = worker[v]
    BY <2>2 DEF TypeOK
  <2>4. /\ job'[s].due = job[s].due
        /\ u # s => job'[s] = job[s]
        /\ u = s => job'[s].by = w /\ job'[s].state = "active"
    BY <2>2 DEF TypeOK, JobType
  <2>5. Kept(s) => Kept(s)'
    <3> SUFFICES ASSUME Kept(s)
                 PROVE  Kept(s)'
      OBVIOUS
    <3>1. job'[s].state # "none"
      BY <2>4 DEF Kept
    <3>2. ASSUME NEW v \in Workers, worker'[v].step = s, job'[s].by = v
          PROVE  /\ worker'[v].pc # "done"
                 /\ worker'[v].pc = "early" => worker'[v].fireAt = FireAt(clock, s)
      <4>1. CASE v = w
        BY <2>1, <2>3, <4>1
      <4>2. CASE v # w
        BY <2>3, <2>4, <3>2, <4>2 DEF Kept
      <4> QED
        BY <4>1, <4>2
    <3>3. now' \in Nat /\ now' >= now
      BY <1>1, <2>2
    <3>4. job'[s].due = job[s].due
      BY <2>4
    <3> HIDE DEF FireAt
    <3> QED
      BY <3>1, <3>2, <3>3, <3>4, KeptStays
  <2> QED
    BY <2>2, <2>4, <2>5
<1>8. ASSUME NEW w \in Workers,
             \/ Complete(w) \/ MoveToDelayed(w) \/ NotTheOwner(w) \/ CrashWorker(w)
             \/ \E last \in BOOLEAN : TimerFails(w, last)
      PROVE  /\ UNCHANGED <<events, planner, raced>>
             /\ Kept(s) => Kept(s)'
             /\ job[s].state = "none" => job'[s].state = "none"
  <2> DEFINE u == worker[w].step
  <2>1. /\ Works(w, Idle) /\ UNCHANGED <<now, events, planner, raced>>
        /\ worker[w].pc # "idle"
    BY <1>8 DEF Complete, MoveToDelayed, NotTheOwner, TimerFails, CrashWorker
  <2>2. worker'[w].step # s /\ \A v \in Workers : v # w => worker'[v] = worker[v]
    BY <1>1, <2>1, IdleFacts DEF Works, TypeOK
  <2>3. u \in Steps
    BY <2>1 DEF WorkerInv
  <2> HIDE DEF u
  <2>4. CASE UNCHANGED job
    BY <1>4, <2>1, <2>2, <2>4
  <2>5. ASSUME job[u].by = w, NEW next, job' = [job EXCEPT ![u] = next],
               Kept(s) /\ s = u =>
                 /\ next.state # "none" /\ next.by = None
                 /\ FireAt(clock, s) > now => next.due = FireAt(clock, s)
        PROVE  /\ Kept(s) => Kept(s)'
               /\ job[s].state = "none" => job'[s].state = "none"
    <3>1. CASE s # u
      <4>1. job'[s] = job[s]
        BY <2>5, <3>1 DEF TypeOK
      <4> QED
        BY <1>1, <2>1, <2>2, <4>1, KeptStays DEF Kept
    <3>2. CASE s = u
      <4>1. job'[s] = next
        BY <2>3, <2>5, <3>2 DEF TypeOK
      <4>2. job[s].state = "active"
        BY <1>1, <2>5, <3>2 DEF JobInv
      <4>3. Kept(s) => Kept(s)'
        <5> HIDE DEF FireAt
        <5> QED
          BY <1>1, <2>1, <2>5, <3>2, <4>1 DEF Kept
      <4> QED
        BY <4>2, <4>3
    <3> QED
      BY <3>1, <3>2
  <2>6. CASE Complete(w)
    <3>1. job[u].by = w /\ job' = [job EXCEPT ![u] = NoJob] /\ worker[w].pc = "done"
      BY <2>6 DEF Complete, Owns, u
    <3>2. ~(Kept(s) /\ s = u)
      BY <3>1 DEF Kept, u
    <3> QED
      BY <2>1, <2>5, <3>1, <3>2
  <2>7. CASE MoveToDelayed(w)
    <3> DEFINE next == Delayed(worker[w].fireAt, worker[w].fireAt)
    <3>1. job[u].by = w /\ job' = [job EXCEPT ![u] = next] /\ worker[w].pc = "early"
      BY <2>7 DEF MoveToDelayed, Owns, u
    <3>2. next.state # "none" /\ next.by = None /\ next.due = worker[w].fireAt
      BY DEF Delayed
    <3>3. Kept(s) /\ s = u => worker[w].fireAt = FireAt(clock, s)
      BY <3>1 DEF Kept, u
    <3> HIDE DEF next
    <3> QED
      BY <2>1, <2>5, <3>1, <3>2, <3>3
  <2>8. ASSUME NEW last \in BOOLEAN, TimerFails(w, last), job[u].by = w
        PROVE  /\ Kept(s) => Kept(s)'
               /\ job[s].state = "none" => job'[s].state = "none"
    <3> DEFINE next == [Delayed(now, job[u].due) EXCEPT
                          !.state = IF last THEN "failed" ELSE "delayed"]
    <3>1. job' = [job EXCEPT ![u] = next]
      BY <2>3, <2>8 DEF TimerFails, Owns, u, TypeOK
    <3>2. next.state # "none" /\ next.by = None /\ next.due = job[u].due
      BY DEF Delayed
    <3> HIDE DEF next
    <3> QED
      BY <2>1, <2>5, <2>8, <3>1, <3>2 DEF Kept
  <2> QED
    BY <1>8, <2>1, <2>4, <2>6, <2>7, <2>8 DEF NotTheOwner, TimerFails, CrashWorker, Owns, u
<1>9. ASSUME NEW w \in Workers, TimerDone(w) \/ TimerEarly(w)
      PROVE  /\ UNCHANGED <<events, planner, raced>>
             /\ Kept(s) => Kept(s)'
             /\ job[s].state = "none" => job'[s].state = "none"
  BY <1>5, <1>6, <1>9
<1> QED
  BY <1>2, <1>3, <1>7, <1>8, <1>9

(* A planner that goes on with what it has left goes on with every step but
   the one it acted on. *)
LEMMA MendsGoesOn ==
  ASSUME TypeOK, NEW p \in Planners, Handled(p), NEW s \in Steps,
         s # planner[p].step, Mends(p, s)
  PROVE  Mends(p, s)'
BY HandledFacts DEF Mends

(* A planner's step: what a fresh plan sets is right, what it leaves out is
   not wanted, and what a stale one spoils another plan is due for. *)
LEMMA TimerPlanStep ==
  ASSUME TypeOK, JobInv, PlanInv, FreshInv, TimerInv,
         NEW p \in Planners, PlannerStep(p) \/ PlannerFails(p)
  PROVE  TimerInv'
<1> SUFFICES ASSUME ~raced', ~Ahead', NEW s \in Steps, Wanted(clock', s)
             PROVE  Kept(s)' \/ \E q \in Planners : Mends(q, s)'
  BY DEF TimerInv
<1> DEFINE Goal == Kept(s)' \/ \E q \in Planners : Mends(q, s)'
<1>1. UNCHANGED <<now, clock, worker>> /\ now \in Nat
  <2>1. LeaveAlone(p) => UNCHANGED <<now, clock, worker>>
    BY Zenon DEF LeaveAlone
  <2>2. UNCHANGED <<now, clock, worker>>
    BY <2>1 DEF PlannerStep, PlannerFails, StartSchedule, StartRebuild, Look, AddTimer,
                ChangeDelay, RemoveTimer, Refused, FinishPlan
  <2> QED
    BY <2>2, SlaTimersAssumption DEF TypeOK
<1>2. Wanted(clock, s)
  BY <1>1
<1>3. job'[s] = job[s] /\ Kept(s) => Kept(s)'
  BY <1>1, KeptStays DEF Kept
<1>4. ASSUME Plans(p, Reads)
      PROVE  Goal
  <2>1. planner'[p].pc = "next" /\ planner'[p].todo = Steps
    BY <1>1, <1>4, ReadsAreFresh
  <2> QED
    BY <2>1 DEF Mends
<1>5. CASE Refused(p) \/ PlannerFails(p)
  <2>1. Stops(p) /\ planner[p].pc # "idle"
    BY <1>5 DEF Refused, PlannerFails
  <2>2. p = "schedule" /\ ~raced
    BY <2>1 DEF Stops, Planners
  <2>3. UNCHANGED events
    BY <2>1, <2>2 DEF Stops, FreshInv, OrphanInv
  <2>4. planner'[p].pc = "idle"
    BY <2>1, StopsFacts DEF FreshInv
  <2> QED
    BY <2>1, <2>2, <2>3, <2>4 DEF PlanInv, Ahead, TypeOK
(* The plan goes on or ends: what covered the step before still does, or it
   is the step that is acted on. *)
<1>6. ASSUME ~raced, ~Ahead,
             \A q \in Planners : q # p => planner'[q] = planner[q],
             Mends(p, s) => Mends(p, s)', job'[s] = job[s]
      PROVE  Goal
  <2>1. Kept(s) \/ \E q \in Planners : Mends(q, s)
    BY <1>2, <1>6 DEF TimerInv
  <2>2. \A q \in Planners : q # p /\ Mends(q, s) => Mends(q, s)'
    BY <1>6, MendsStays
  <2> QED
    BY <1>3, <1>6, <2>1, <2>2
<1>7. ASSUME NEW u \in Steps, Look(p, u)
      PROVE  Goal
  <2> DEFINE plan == [planner[p] EXCEPT !.pc = "act", !.step = u, !.saw = job[u].state]
  <2>1. /\ plan.pc = "act" /\ plan.step = u /\ plan.saw = job[u].state
        /\ plan.todo = planner[p].todo
    BY DEF TypeOK, PlanType
  <2>2. /\ planner' = [planner EXCEPT ![p] = plan] /\ planner[p].pc = "next"
        /\ UNCHANGED <<events, raced, job>>
    BY <1>7 DEF Look, Plans
  <2> HIDE DEF plan
  <2>3. planner'[p] = plan /\ \A q \in Planners : q # p => planner'[q] = planner[q]
    BY <2>2 DEF TypeOK
  <2>4. ~raced /\ ~Ahead
    BY <2>1, <2>2, <2>3 DEF Ahead, Planners
  <2>5. Mends(p, s) => Mends(p, s)'
    BY <2>1, <2>2, <2>3 DEF Mends
  <2> QED
    BY <1>6, <2>2, <2>3, <2>4, <2>5
<1>8. CASE FinishPlan(p)
  <2>1. NoPlan.pc = "idle"
    BY DEF NoPlan
  <2>2. /\ planner'[p].pc = "idle" /\ planner[p].pc = "next" /\ planner[p].todo = {}
        /\ \A q \in Planners : q # p => planner'[q] = planner[q]
        /\ UNCHANGED <<raced, job>>
        /\ events' = IF p = "schedule" THEN events - 1 ELSE events
    BY <1>8, <2>1 DEF FinishPlan, Plans, TypeOK
  <2>3. ~raced /\ ~Ahead
    BY <2>2 DEF Ahead, Planners, TypeOK
  <2>4. ~Mends(p, s)
    BY <2>2 DEF Mends
  <2> QED
    BY <1>6, <2>2, <2>3, <2>4
<1>9. ASSUME NEW u, u = planner[p].step, planner[p].pc = "act", UNCHANGED events,
             planner'[p].pc \in {"next", "act"},
             \A q \in Planners : q # p => planner'[q] = planner[q],
             raced => raced'
      PROVE  /\ ~raced /\ ~Ahead /\ u \in planner[p].todo
             /\ s = u => s \in planner[p].wanted /\ planner[p].due[s] = FireAt(clock, s)
  <2>1. ~raced /\ ~Ahead
    BY <1>9 DEF Ahead, Planners
  <2>2. u \in planner[p].todo /\ Fresh(p)
    BY <1>9, <2>1 DEF FreshInv, OrphanInv, Planners
  <2> HIDE DEF FireAt
  <2> QED
    BY <1>2, <2>1, <2>2 DEF Fresh
<1>10. CASE LeaveAlone(p)
  <2> DEFINE u == planner[p].step
  <2>1. /\ Handled(p) /\ planner[p].pc = "act" /\ UNCHANGED <<events, job>>
        /\ planner[p].saw = "active" \/ (planner[p].saw = "none" /\ u \notin planner[p].wanted)
    BY <1>10 DEF LeaveAlone
  <2>2. ~raced /\ u \notin planner[p].wanted
    BY <1>10, Zenon DEF LeaveAlone
  <2>3. /\ planner'[p].pc = "next"
        /\ \A q \in Planners : q # p => planner'[q] = planner[q]
    BY <2>1, HandledFacts
  <2>4. ~Ahead /\ s # u
    BY <1>9, <2>1, <2>2, <2>3
  <2>5. Mends(p, s) => Mends(p, s)'
    BY <2>1, <2>4, MendsGoesOn
  <2> QED
    BY <1>6, <2>1, <2>2, <2>3, <2>4, <2>5
<1>11. CASE AddTimer(p) \/ ChangeDelay(p)
  <2> DEFINE u == planner[p].step
  <2>1. /\ Handled(p) /\ planner[p].pc = "act" /\ UNCHANGED <<events, raced>>
    BY <1>11 DEF AddTimer, ChangeDelay
  <2>2. /\ planner'[p].pc = "next"
        /\ \A q \in Planners : q # p => planner'[q] = planner[q]
    BY <2>1, HandledFacts
  <2>3. /\ ~raced /\ ~Ahead /\ u \in Steps
        /\ s = u => planner[p].due[s] = FireAt(clock, s)
    BY <1>9, <2>1, <2>2 DEF TypeOK, PlanType
  <2>4. Mends(p, s) /\ s # u => Mends(p, s)'
    BY <2>1, MendsGoesOn
  <2>5. /\ Until(planner[p], u).state = "delayed" /\ Until(planner[p], u).by = None
        /\ Until(planner[p], u).due = planner[p].due[u] /\ Until(planner[p], u) \in JobType
    BY <2>3, UntilFacts
  <2>6. ASSUME NEW added, job' = [job EXCEPT ![u] = added], added.state = "delayed",
               added.due = planner[p].due[u], added.by = None
        PROVE  Goal
    <3>1. CASE s = u
      <4>1. job'[s] = added
        BY <2>3, <2>6, <3>1 DEF TypeOK
      <4> HIDE DEF FireAt
      <4>2. Kept(s)'
        BY <1>1, <2>3, <2>6, <3>1, <4>1, PlannedIsKept
      <4> QED
        BY <4>2
    <3>2. CASE s # u
      <4>1. job'[s] = job[s]
        BY <2>6, <3>2 DEF TypeOK
      <4> QED
        BY <1>6, <2>2, <2>3, <2>4, <3>2, <4>1
    <3> QED
      BY <3>1, <3>2
  <2>7. CASE ChangeDelay(p)
    <3>1. job' = [job EXCEPT ![u] = Until(planner[p], u)]
      BY <2>7 DEF ChangeDelay
    <3> QED
      BY <2>5, <2>6, <3>1
  <2>8. CASE AddTimer(p) /\ job[u].state = "none"
    <3>1. job' = [job EXCEPT ![u] = Until(planner[p], u)]
      BY <2>8 DEF AddTimer
    <3> QED
      BY <2>5, <2>6, <3>1
  <2>9. CASE AddTimer(p) /\ job[u].state # "none"
    <3>1. UNCHANGED job /\ planner[p].saw = "none"
      BY <2>9 DEF AddTimer
    <3>2. Mends(p, s) => s # u
      BY <2>1, <2>9, <3>1 DEF Mends
    <3> QED
      BY <1>6, <2>2, <2>3, <2>4, <3>1, <3>2
  <2> QED
    BY <1>11, <2>7, <2>8, <2>9
<1>12. CASE RemoveTimer(p)
  <2> DEFINE u == planner[p].step
             kept == [planner[p] EXCEPT !.saw = "none"]
  <2>1. /\ planner[p].pc = "act" /\ UNCHANGED <<events, raced>>
        /\ job' = [job EXCEPT ![u] = NoJob]
        /\ IF u \in planner[p].wanted THEN Plans(p, kept) ELSE Handled(p)
    BY <1>12 DEF RemoveTimer
  <2>2. kept.pc = "act" /\ kept.step = u /\ kept.todo = planner[p].todo /\ kept.saw = "none"
    BY <2>1 DEF TypeOK, PlanType
  <2>3. u \in Steps
    BY <2>1 DEF PlanInv
  <2>4. s # u => job'[s] = job[s]
    BY <2>1 DEF TypeOK
  <2>5. CASE u \in planner[p].wanted
    <3> HIDE DEF kept
    <3>1. planner'[p] = kept /\ \A q \in Planners : q # p => planner'[q] = planner[q]
      BY <2>1, <2>5 DEF Plans, TypeOK
    <3>2. ~raced /\ ~Ahead /\ u \in planner[p].todo
      BY <1>9, <2>1, <2>2, <3>1
    <3>3. CASE s = u
      <4>1. job'[s].state = "none"
        BY <2>1, <3>3, NoJobFacts DEF TypeOK
      <4> QED
        BY <2>2, <3>1, <3>2, <3>3, <4>1 DEF Mends
    <3>4. CASE s # u
      <4>1. Mends(p, s) => Mends(p, s)'
        BY <2>2, <3>1, <3>4 DEF Mends
      <4> QED
        BY <1>6, <2>4, <3>1, <3>2, <3>4, <4>1
    <3> QED
      BY <3>3, <3>4
  <2>6. CASE u \notin planner[p].wanted
    <3>1. Handled(p)
      BY <2>1, <2>6
    <3>2. /\ planner'[p].pc = "next"
          /\ \A q \in Planners : q # p => planner'[q] = planner[q]
      BY <3>1, HandledFacts
    <3>3. ~raced /\ ~Ahead /\ s # u
      BY <1>9, <2>1, <2>6, <3>2
    <3>4. Mends(p, s) => Mends(p, s)'
      BY <3>1, <3>3, MendsGoesOn
    <3> QED
      BY <1>6, <2>4, <3>2, <3>3, <3>4
  <2> QED
    BY <2>5, <2>6
<1> QED
  BY <1>4, <1>5, <1>7, <1>8, <1>10, <1>11, <1>12 DEF PlannerStep, StartSchedule, StartRebuild

LEMMA TimerStep ==
  ASSUME TypeOK, JobInv, PlanInv, WorkerInv, FreshInv, TimerInv, Next
  PROVE  TimerInv'
<1>1. ASSUME NEW p \in Planners, PlannerStep(p) \/ PlannerFails(p)
      PROVE  TimerInv'
  BY <1>1, TimerPlanStep
<1>2. CASE RedisLoss
  BY <1>2 DEF RedisLoss, TimerInv
<1>3. CASE \/ Tick
           \/ \E w \in Workers :
                \/ \E u \in Steps : Take(w, u)
                \/ TimerDone(w) \/ TimerEarly(w)
                \/ Complete(w) \/ MoveToDelayed(w) \/ NotTheOwner(w)
                \/ CrashWorker(w) \/ \E last \in BOOLEAN : TimerFails(w, last)
           \/ \E u \in Steps : Promote(u) \/ RequeueStalled(u) \/ LoseJobLock(u)
  <2>1. UNCHANGED <<clock, events, planner, raced>>
    BY <1>3 DEF Tick, Take, TimerDone, TimerEarly, Complete, MoveToDelayed, NotTheOwner,
                TimerFails, CrashWorker, Promote, RequeueStalled, LoseJobLock
  <2> SUFFICES ASSUME ~raced, ~Ahead, NEW s \in Steps, Wanted(clock, s)
               PROVE  Kept(s)' \/ \E p \in Planners : Mends(p, s)'
    BY <2>1 DEF TimerInv, Ahead
  <2>2. Kept(s) \/ \E p \in Planners : Mends(p, s)
    BY DEF TimerInv
  <2>3. (Kept(s) => Kept(s)') /\ (job[s].state = "none" => job'[s].state = "none")
    BY <1>3, <2>1, WorkersKeep
  <2> QED
    BY <2>1, <2>2, <2>3, MendsStays
<1>4. CASE \/ \E at \in Stamps :
                \/ \E pauses \in BOOLEAN, t \in Targets : Sync(pauses, t, at)
                \/ Close(at)
                \/ \E t \in Targets : Reopen(t, at)
           \/ \E w \in Workers, pauses \in BOOLEAN, t \in Targets : Fire(w, pauses, t)
  <2>1. UNCHANGED <<now, job, planner>> /\ (raced => raced')
    BY <1>4, ChangeFacts
  <2>2. CASE Ahead'
    BY <2>2 DEF TimerInv
  <2>3. CASE UNCHANGED <<clock, events, worker>> /\ (raced' => raced)
    BY <2>1, <2>3 DEF TimerInv, Ahead, Kept, Mends
  <2>4. ASSUME UNCHANGED events, raced' => raced,
               NEW w \in Workers, worker[w].step \in Steps, Ends(w),
               clock' = MarkFired(clock, worker[w].step)
        PROVE  TimerInv'
    <3> SUFFICES ASSUME ~raced, ~Ahead, NEW s \in Steps, Wanted(clock', s)
                 PROVE  Kept(s)' \/ \E p \in Planners : Mends(p, s)'
      BY <2>1, <2>4 DEF TimerInv, Ahead
    <3>1. /\ Wanted(clock, s) /\ s # worker[w].step
          /\ FireAt(clock', s) = FireAt(clock, s)
      BY <2>4, MarkedWants DEF TypeOK
    <3>2. Kept(s) \/ \E p \in Planners : Mends(p, s)
      BY <3>1 DEF TimerInv
    <3>3. /\ worker'[w].step # s
          /\ \A v \in Workers : v # w => worker'[v] = worker[v]
      BY <2>4, <3>1, EndsFacts
    <3> HIDE DEF FireAt
    <3>4. Kept(s) => Kept(s)'
      BY <2>1, <3>1, <3>3 DEF Kept
    <3> QED
      BY <2>1, <3>2, <3>4, MendsStays
  <2> QED
    BY <1>4, <2>1, <2>2, <2>3, <2>4, ChangeFacts
<1>5. CASE Boot
  BY <1>5 DEF Boot, TimerInv, Ahead, Kept, Mends
<1> QED
  BY <1>1, <1>2, <1>3, <1>4, <1>5 DEF Next, WorkerStep, Troubles

-----------------------------------------------------------------------------
LEMMA InvInit == Init => Inv
<1> SUFFICES ASSUME Init
             PROVE  Inv
  OBVIOUS
<1>1. clock = NewClock(FirstTarget, 0) /\ FirstTarget \in Targets
  BY SlaTimersAssumption DEF Init
<1>2. /\ clock \in ClockType /\ clock.fired = {}
      /\ now = 0 /\ consumed = 0 /\ ElapsedAt(clock, now) = 0
  BY <1>1, NewClockFacts DEF Init
<1>3. NoPlan \in PlanType /\ NoPlan.pc = "idle" /\ NoPlan.orphan = FALSE
  BY NoPlanFacts
<1>4. TypeOK
  <2>1. /\ job \in [Steps -> JobType] /\ planner \in [Planners -> PlanType]
        /\ worker \in [Workers -> WorkerType] /\ ran \in [Steps -> Nat]
    BY <1>3, IdleFacts, NoJobFacts DEF Init
  <2>2. /\ now \in 0..MaxTime /\ changes \in 0..MaxChanges /\ faults \in 0..MaxFaults
        /\ events \in Nat /\ consumed \in Nat /\ raced \in BOOLEAN /\ hourly \in BOOLEAN
    <3>1. 0 \in 0..MaxTime /\ 0 \in 0..MaxChanges /\ 0 \in 0..MaxFaults
      BY SlaTimersAssumption
    <3>2. /\ now = 0 /\ changes = 0 /\ faults = 0 /\ events = 1 /\ consumed = 0
          /\ raced = FALSE /\ hourly = TRUE
      BY DEF Init
    <3> QED
      BY <3>1, <3>2
  <2> QED
    BY <1>2, <2>1, <2>2 DEF TypeOK
<1>5. JobInv
  BY NoJobFacts, SlaTimersAssumption DEF Init, JobInv
<1>6. PlanInv /\ WorkerInv
  BY <1>3, IdleFacts DEF Init, PlanInv, WorkerInv, Planners
<1>7. RanInv
  BY <1>2 DEF Init, RanInv
<1>8. NothingElseCounted
  BY <1>2 DEF NothingElseCounted
<1>9. FreshInv /\ TimerInv
  BY <1>3 DEF Init, FreshInv, OrphanInv, TimerInv, Ahead, Planners
<1> QED
  BY <1>4, <1>5, <1>6, <1>7, <1>8, <1>9 DEF Inv

LEMMA InvNext == Inv /\ [Next]_vars => Inv'
<1>1. ASSUME Inv, Next
      PROVE  Inv'
  BY <1>1, TypeStep, JobStep, PlanStep, WorkerStepInv, RanStep, CountStep, FreshStep,
     TimerStep DEF Inv, FreshInv
<1>2. ASSUME Inv, UNCHANGED vars
      PROVE  Inv'
  <2>1. UNCHANGED <<now, clock, events, job, hourly, planner, worker, changes, faults,
                    consumed, ran, raced>>
    BY <1>2 DEF vars, counters
  <2>2. TypeOK' /\ JobInv' /\ PlanInv' /\ WorkerInv' /\ RanInv' /\ NothingElseCounted'
    BY <1>2, <2>1 DEF Inv, TypeOK, JobInv, PlanInv, WorkerInv, RanInv, NothingElseCounted,
                      ElapsedAt, Counting
  <2>3. FreshInv' /\ TimerInv'
    BY <1>2, <2>1 DEF Inv, FreshInv, OrphanInv, TimerInv, Ahead, Fresh, Kept, Mends
  <2> QED
    BY <2>2, <2>3 DEF Inv
<1> QED
  BY <1>1, <1>2

(* The invariant of jobs, planners, workers and the clock holds of every
   behaviour, whatever the policy and however many workers. *)
THEOREM Invariance == Spec => []Inv
BY InvInit, InvNext, PTL DEF Spec

(* Clocks, jobs, plans and workers keep their shapes. *)
THEOREM TypeCorrect == Spec => []TypeOK
<1>1. Inv => TypeOK
  BY DEF Inv
<1> QED
  BY <1>1, Invariance, PTL

(* A step of a clock runs at most once, whatever delivers its job again,
   crashes, or plans it anew. *)
THEOREM RunOnce == Spec => []StepsRunOnce
<1>1. Inv => StepsRunOnce
  BY DEF Inv, RanInv, TypeOK, StepsRunOnce
<1> QED
  BY <1>1, Invariance, PTL

(* A clock counts no more than passed while it was not paused and than the
   stamps that resumed it reach back. *)
THEOREM CountsWhatPassed == Spec => []NothingElseCounted
<1>1. Inv => NothingElseCounted
  BY DEF Inv
<1> QED
  BY <1>1, Invariance, PTL

(* Once the planners and the workers are at rest, with no event left and
   nothing since the last rebuild that loses a timer, each step the clock
   wants has its job, due when the clock has it due. *)
THEOREM TimersStayInPlace == Spec => []TimersInPlace
<1>1. Inv => TimersInPlace
  <2> SUFFICES ASSUME Inv, Quiet, ~raced, NEW s \in Steps, Wanted(clock, s)
               PROVE  InPlace(s)
    BY DEF TimersInPlace
  <2>1. ~Ahead /\ \A p \in Planners : ~Mends(p, s)
    BY DEF Quiet, Ahead, Mends, Planners
  <2>2. Kept(s)
    BY <2>1 DEF Inv, TimerInv
  <2> QED
    BY <2>2 DEF Kept, InPlace
<1> QED
  BY <1>1, Invariance, PTL

(* A step runs only after its share of the target was consumed. *)
THEOREM RunsNeverEarly == Spec => NeverEarly
<1> DEFINE A == \A s \in Steps : ran'[s] > ran[s] => consumed >= Threshold(clock, s)
<1>1. ASSUME Inv, Next
      PROVE  A
  <2>1. CASE \E w \in Workers, pauses \in BOOLEAN, t \in Targets : Fire(w, pauses, t)
    <3>1. PICK w \in Workers, pauses \in BOOLEAN, t \in Targets : Fire(w, pauses, t)
      BY <2>1
    <3> DEFINE s == worker[w].step
    <3>2. s \in Steps /\ Threshold(clock, s) <= ElapsedAt(clock, now)
      BY <1>1, <3>1, FireFacts DEF Inv
    <3>3. ran' = [ran EXCEPT ![s] = @ + 1]
      BY <3>1 DEF Fire
    <3>4. Threshold(clock, s) \in Nat /\ ElapsedAt(clock, now) \in Nat /\ consumed \in Nat
      <4>1. clock \in ClockType /\ now \in Nat /\ consumed \in Nat
        BY <1>1, SlaTimersAssumption DEF Inv, TypeOK
      <4>2. ElapsedAt(clock, now) \in Nat
        BY <4>1 DEF ElapsedAt, ClockType
      <4> QED
        BY <3>2, <4>1, <4>2, ThresholdIsNat
    <3>5. consumed >= Threshold(clock, s)
      BY <1>1, <3>2, <3>4 DEF Inv, NothingElseCounted
    <3> HIDE DEF s
    <3>6. ran \in [Steps -> Nat]
      BY <1>1 DEF Inv, TypeOK
    <3>7. ASSUME NEW u \in Steps, ran'[u] > ran[u]
          PROVE  u = s
      <4>1. ran[u] \in Nat
        BY <3>6
      <4>2. CASE u # s
        BY <3>3, <3>6, <3>7, <4>1, <4>2
      <4> QED
        BY <4>2
    <3> QED
      BY <3>5, <3>7
  <2>2. CASE UNCHANGED ran
    BY <1>1, <2>2 DEF Inv, TypeOK
  <2>3. CASE \E at \in Stamps, t \in Targets : Reopen(t, at)
    BY <1>1, <2>3 DEF Reopen, Inv, TypeOK
  <2> QED
    BY <1>1, <2>1, <2>2, <2>3, ClockSteps DEF Tick, Sync, Close
<1>2. ASSUME Inv, UNCHANGED vars
      PROVE  A
  BY <1>2 DEF Inv, TypeOK, vars
<1>3. Inv /\ [Next]_vars => [A]_vars
  BY <1>1, <1>2
<1> QED
  BY <1>3, Invariance, PTL DEF Spec, NeverEarly

-----------------------------------------------------------------------------
(* SlaTimers implements ServiceLevel.  First what a change does to what    *)
(* the promise is about: a breach is recorded when more was counted than   *)
(* the target, and nothing withdraws it.                                   *)

LEMMA RetargetAims ==
  ASSUME NEW c \in ClockType, c.run # "ended", NEW t \in Targets, NEW at \in Nat,
         NEW n \in Nat, at <= n
  PROVE  /\ Retarget(c, t, at).target = t
         /\ \/ Retarget(c, t, at).breached = c.breached
            \/ Retarget(c, t, at).breached = "change" /\ t <= ElapsedAt(c, n)
<1> DEFINE k == Checkpoint(c, at)
           aimed == [k EXCEPT !.target = t]
<1>1. k \in ClockType /\ k.breached = c.breached /\ k.elapsed <= ElapsedAt(c, n)
  BY CheckpointFacts
<1>2. t \in Nat
  BY SlaTimersAssumption
<1> HIDE DEF k
<1>3. aimed.elapsed = k.elapsed /\ aimed.breached = k.breached /\ aimed.target = t
  BY <1>1 DEF ClockType
<1>4. Retarget(c, t, at) = IF aimed.breached = "no" /\ aimed.elapsed >= t
                           THEN [aimed EXCEPT !.breached = "change"] ELSE aimed
  BY DEF Retarget, Running, k
<1>5. [aimed EXCEPT !.breached = "change"].target = t
      /\ [aimed EXCEPT !.breached = "change"].breached = "change"
  BY <1>1 DEF ClockType
<1>6. k.elapsed \in Nat /\ ElapsedAt(c, n) \in Nat
  BY <1>1 DEF ElapsedAt, ClockType
<1> HIDE DEF aimed
<1>7. CASE aimed.breached = "no" /\ aimed.elapsed >= t
  BY <1>1, <1>2, <1>3, <1>4, <1>5, <1>6, <1>7
<1>8. CASE ~(aimed.breached = "no" /\ aimed.elapsed >= t)
  BY <1>1, <1>3, <1>4, <1>8
<1> QED
  BY <1>7, <1>8

LEMMA ReconcileAims ==
  ASSUME NEW c \in ClockType, c.run # "ended", NEW pauses \in BOOLEAN,
         NEW t \in Targets, NEW at \in Nat, NEW n \in Nat, at <= n
  PROVE  LET after == Reconcile(c, pauses, t, at) IN
         /\ after.run = IF pauses THEN "paused" ELSE "counting"
         /\ after.target = t
         /\ \/ after.breached = c.breached
            \/ after.breached = "change" /\ t # c.target /\ t <= ElapsedAt(c, n)
<1> DEFINE k == Checkpoint(c, at)
           aimed == IF t # c.target THEN Retarget(k, t, at) ELSE k
<1>1. /\ k \in ClockType /\ k.run = c.run /\ k.target = c.target
      /\ k.breached = c.breached /\ ElapsedAt(k, n) = ElapsedAt(c, n)
  BY CheckpointFacts
<1> HIDE DEF k
<1>2. /\ aimed \in ClockType /\ aimed.run = c.run
      /\ aimed.target = t
      /\ \/ aimed.breached = c.breached
         \/ aimed.breached = "change" /\ t # c.target /\ t <= ElapsedAt(c, n)
  BY <1>1, RetargetFacts, RetargetAims
<1>3. Reconcile(c, pauses, t, at) = IF pauses THEN Pause(aimed, at) ELSE Resume(aimed, at)
  BY DEF Reconcile, k
<1> HIDE DEF aimed
<1>4. aimed.run \in {"counting", "paused"}
  BY <1>2 DEF ClockType
<1>5. CASE pauses
  <2> DEFINE kept == Checkpoint(aimed, at)
  <2>1. /\ kept \in ClockType /\ kept.target = aimed.target
        /\ kept.breached = aimed.breached
    BY <1>2, CheckpointFacts
  <2>2. Pause(aimed, at) = IF Counting(aimed) THEN [kept EXCEPT !.run = "paused"] ELSE aimed
    BY DEF Pause
  <2> HIDE DEF kept
  <2>3. /\ [kept EXCEPT !.run = "paused"].run = "paused"
        /\ [kept EXCEPT !.run = "paused"].target = aimed.target
        /\ [kept EXCEPT !.run = "paused"].breached = aimed.breached
    BY <2>1 DEF ClockType
  <2>4. CASE Counting(aimed)
    BY <1>2, <1>3, <1>5, <2>2, <2>3, <2>4
  <2>5. CASE ~Counting(aimed)
    BY <1>2, <1>3, <1>4, <1>5, <2>2, <2>5 DEF Counting
  <2> QED
    BY <2>4, <2>5
<1>6. CASE ~pauses
  <2> DEFINE on == [aimed EXCEPT !.run = "counting", !.since = at]
  <2>1. on.run = "counting" /\ on.target = aimed.target /\ on.breached = aimed.breached
    BY <1>2 DEF ClockType
  <2>2. Resume(aimed, at) = IF aimed.run = "paused" THEN on ELSE aimed
    BY DEF Resume
  <2> HIDE DEF on
  <2> QED
    BY <1>2, <1>3, <1>4, <1>6, <2>1, <2>2
<1> QED
  BY <1>5, <1>6

LEMMA SatisfyAims ==
  ASSUME NEW c \in ClockType, NEW at \in Nat, NEW n \in Nat, at <= n
  PROVE  /\ Satisfy(c, at).run = "ended"
         /\ Satisfy(c, at).target = c.target
         /\ \/ Satisfy(c, at).breached = c.breached
            \/ Satisfy(c, at).breached = "timer" /\ c.target < ElapsedAt(c, n)
<1> DEFINE k == Checkpoint(c, at)
<1>1. /\ k \in ClockType /\ k.target = c.target /\ k.breached = c.breached
      /\ k.elapsed <= ElapsedAt(c, n)
  BY CheckpointFacts
<1>2. /\ k.elapsed \in Nat /\ c.target \in Nat /\ ElapsedAt(c, n) \in Nat
  BY <1>1 DEF ElapsedAt, ClockType
<1> DEFINE b == IF k.breached = "no" /\ k.elapsed > k.target THEN "timer" ELSE k.breached
<1>3. Satisfy(c, at) = [k EXCEPT !.run = "ended", !.breached = b]
  BY <1>1 DEF Satisfy
<1> HIDE DEF k
<1>4. b = k.breached \/ (b = "timer" /\ c.target < ElapsedAt(c, n))
  BY <1>1, <1>2
<1> HIDE DEF b
<1>5. /\ [k EXCEPT !.run = "ended", !.breached = b].run = "ended"
      /\ [k EXCEPT !.run = "ended", !.breached = b].target = k.target
      /\ [k EXCEPT !.run = "ended", !.breached = b].breached = b
  BY <1>1 DEF ClockType
<1> QED
  BY <1>1, <1>3, <1>4, <1>5

LEMMA ClosedAims ==
  ASSUME NEW c \in ClockType, NEW at \in Nat, NEW n \in Nat, at <= n,
         NEW e \in {Satisfy(c, at), Stop(c, at)}
  PROVE  /\ e.run = "ended" /\ e.target = c.target
         /\ \/ e.breached = c.breached
            \/ e.breached = "timer" /\ c.target < ElapsedAt(c, n)
BY SatisfyAims, StopFacts

LEMMA MarkAims ==
  ASSUME NEW c \in ClockType, NEW s \in Steps
  PROVE  /\ MarkFired(c, s).target = c.target
         /\ \/ MarkFired(c, s).breached = c.breached
            \/ MarkFired(c, s).breached = "timer" /\ s >= Breach
         /\ s >= Breach => MarkFired(c, s).breached # "no"
BY DEF MarkFired, ClockType


(* What the clock has counted at any time that is past is part of what the
   history has. *)
LEMMA CountedFacts ==
  ASSUME TypeOK, NothingElseCounted
  PROVE  /\ clock \in ClockType /\ now \in Nat /\ consumed \in Nat
         /\ ElapsedAt(clock, now) \in Nat /\ ElapsedAt(clock, now) <= consumed
BY SlaTimersAssumption DEF TypeOK, NothingElseCounted, ElapsedAt, ClockType

(* A change of the ticket. *)
LEMMA SyncLevel ==
  ASSUME Inv, NEW at \in Stamps, NEW pauses \in BOOLEAN, NEW t \in Targets,
         Sync(pauses, t, at)
  PROVE  Level!Next
<1> DEFINE after == Reconcile(clock, pauses, t, at)
           st == IF pauses THEN "paused" ELSE "counting"
           back == IF Counting(after) /\ ~Counting(clock) THEN now - at ELSE 0
<1>1. /\ clock \in ClockType /\ now \in Nat /\ consumed \in Nat
      /\ ElapsedAt(clock, now) \in Nat /\ ElapsedAt(clock, now) <= consumed
  BY CountedFacts DEF Inv
<1>2. at \in Nat /\ at <= now /\ now - at \in 0..MaxLag
  BY <1>1, SlaTimersAssumption DEF Stamps
<1>3. clock.run # "ended"
  BY DEF Sync, Running
<1>4. /\ after.run = st /\ after.target = t
      /\ \/ after.breached = clock.breached
         \/ after.breached = "change" /\ t # clock.target /\ t <= ElapsedAt(clock, now)
  BY <1>1, <1>2, <1>3, ReconcileAims
<1>5. /\ clock' = after /\ UNCHANGED ran
      /\ consumed' = IF Counting(after) /\ ~Counting(clock) THEN consumed + (now - at)
                      ELSE consumed
  BY DEF Sync, Write
<1> HIDE DEF after
<1>6. back \in 0..MaxLag
  BY <1>2, SlaTimersAssumption
<1>7. consumed' = consumed + back
  BY <1>1, <1>5
<1>8. back > 0 => clock.run = "paused" /\ st = "counting"
  BY <1>1, <1>3, <1>4 DEF Counting, ClockType
<1> HIDE DEF back
<1>9. t \in Nat
  BY SlaTimersAssumption
<1>10. Level!Records(t # clock.target /\ consumed >= t)
  BY <1>1, <1>4, <1>5, <1>9 DEF Level!Records
<1>11. Level!Goes(st, t)
  BY <1>4, <1>5 DEF Level!Goes
<1>12. st \in {"counting", "paused"}
  OBVIOUS
<1> HIDE DEF st
<1>13. Level!Change(st, t, back)
  BY <1>3, <1>5, <1>7, <1>8, <1>10, <1>11 DEF Level!Change
<1> QED
  BY <1>6, <1>12, <1>13 DEF Level!Next

(* A step that runs. *)
LEMMA FireLevel ==
  ASSUME Inv, NEW w \in Workers, NEW pauses \in BOOLEAN, NEW t \in Targets,
         Fire(w, pauses, t)
  PROVE  Level!Next
<1> DEFINE s == worker[w].step
           at == worker[w].now
           fired == MarkFired(clock, s)
           after == Reconcile(fired, pauses, t, at)
           st == IF pauses THEN "paused" ELSE "counting"
<1>1. /\ clock \in ClockType /\ now \in Nat /\ consumed \in Nat
      /\ ElapsedAt(clock, now) \in Nat /\ ElapsedAt(clock, now) <= consumed
  BY CountedFacts DEF Inv
<1>2. /\ s \in Steps /\ s \notin clock.fired
      /\ Threshold(clock, s) <= ElapsedAt(clock, now)
  BY FireFacts DEF Inv
<1>3. at \in Nat /\ at <= now
  BY DEF Fire, Inv, TypeOK, WorkerInv, WorkerType
<1>4. clock.run = "counting" /\ (s = Breach => clock.breached = "no")
  BY DEF Fire, Wanted, Done, Counting
<1>5. /\ fired \in ClockType /\ fired.run = clock.run /\ fired.target = clock.target
      /\ ElapsedAt(fired, now) = ElapsedAt(clock, now)
      /\ fired.breached = clock.breached \/ (fired.breached = "timer" /\ s >= Breach)
      /\ s >= Breach => fired.breached # "no"
  BY <1>1, <1>2, MarkFiredFacts, MarkAims
<1>6. clock' = after /\ ran' = [ran EXCEPT ![s] = @ + 1] /\ UNCHANGED consumed
  BY DEF Fire, Write
<1> HIDE DEF s, at, fired
<1>7. fired.run # "ended"
  BY <1>4, <1>5
<1>8. /\ after.run = st /\ after.target = t
      /\ \/ after.breached = fired.breached
         \/ after.breached = "change" /\ t # fired.target /\ t <= ElapsedAt(fired, now)
  BY <1>1, <1>3, <1>5, <1>7, ReconcileAims
<1> HIDE DEF after
<1>9. ran[s] = 0 /\ ran' = [ran EXCEPT ![s] = 1]
  <2>1. ran \in [Steps -> Nat] /\ ran[s] <= 0
    BY <1>2 DEF Inv, RanInv, TypeOK
  <2>2. ran[s] = 0
    BY <1>2, <2>1
  <2> QED
    BY <1>6, <2>1, <2>2
<1>10. consumed >= Level!Share(s)
  <2>1. Threshold(clock, s) \in Nat
    BY <1>1, <1>2, ThresholdIsNat
  <2>2. consumed >= Threshold(clock, s)
    BY <1>1, <1>2, <2>1
  <2> QED
    BY <2>2 DEF Threshold, Level!Share
<1>11. t \in Nat /\ s \in Nat
  BY <1>2, SlaTimersAssumption
<1>12. t <= ElapsedAt(clock, now) => consumed >= t
  BY <1>1, <1>11
<1>13. Level!Records(s >= Level!Breach \/ (t # clock.target /\ consumed >= t))
  BY <1>5, <1>6, <1>8, <1>12 DEF Level!Records, Level!Breach, Breach
<1>14. s >= Level!Breach => (clock.breached # "no")'
  BY <1>5, <1>6, <1>8 DEF Level!Breach, Breach
<1>15. Level!Goes(st, t)
  BY <1>6, <1>8 DEF Level!Goes
<1>16. s = Level!Breach => ~(clock.breached # "no")
  BY <1>4 DEF Level!Breach, Breach
<1>17. st \in {"counting", "paused"}
  OBVIOUS
<1> HIDE DEF st
<1>18. Level!RunStep(s, st, t)
  BY <1>4, <1>6, <1>9, <1>10, <1>13, <1>14, <1>15, <1>16 DEF Level!RunStep
<1> QED
  BY <1>2, <1>17, <1>18 DEF Level!Next

LEMMA LevelStep == Inv /\ [Next]_vars => [Level!Next]_(Level!vars)
<1> SUFFICES ASSUME Inv, [Next]_vars
             PROVE  Level!Next \/ UNCHANGED Level!vars
  OBVIOUS
<1>1. CASE UNCHANGED <<clock, consumed, ran>>
  BY <1>1 DEF Level!vars
<1>2. CASE Tick
  <2>1. CASE Counting(clock)
    BY <1>2, <2>1 DEF Tick, Counting, Level!Next, Level!Pass
  <2>2. CASE ~Counting(clock)
    BY <1>1, <1>2, <2>2 DEF Tick
  <2> QED
    BY <2>1, <2>2
<1>3. ASSUME NEW at \in Stamps, NEW pauses \in BOOLEAN, NEW t \in Targets,
             Sync(pauses, t, at)
      PROVE  Level!Next
  BY <1>3, SyncLevel
<1>4. ASSUME NEW at \in Stamps, Close(at)
      PROVE  Level!Next
  <2>1. /\ clock \in ClockType /\ now \in Nat /\ consumed \in Nat
        /\ ElapsedAt(clock, now) \in Nat /\ ElapsedAt(clock, now) <= consumed
    BY CountedFacts DEF Inv
  <2>2. at \in Nat /\ at <= now
    BY <2>1 DEF Stamps
  <2>0. PICK met \in {Satisfy(clock, at), Stop(clock, at)} : Write(clock, met)
    BY <1>4 DEF Close
  <2>3. /\ met.run = "ended" /\ met.target = clock.target
        /\ \/ met.breached = clock.breached
           \/ met.breached = "timer" /\ clock.target < ElapsedAt(clock, now)
    BY <2>1, <2>2, ClosedAims
  <2>4. clock.run # "ended" /\ clock' = met /\ UNCHANGED <<consumed, ran>>
    BY <1>4, <2>0 DEF Close, Write, Running
  <2>5. clock.target \in Nat
    BY <2>1 DEF ClockType
  <2>6. Level!Records(consumed > clock.target)
    BY <2>1, <2>3, <2>4, <2>5 DEF Level!Records
  <2> QED
    BY <2>3, <2>4, <2>6 DEF Level!Next, Level!Meet, Level!Goes
<1>5. ASSUME NEW at \in Stamps, NEW t \in Targets, Reopen(t, at)
      PROVE  Level!Next
  <2>1. now - at \in 0..MaxLag
    BY StampFacts, SlaTimersAssumption DEF Inv, Stamps
  <2>2. /\ clock.run = "ended" /\ clock' = NewClock(t, at)
        /\ consumed' = now - at /\ ran' = [s \in Steps |-> 0]
    BY <1>5 DEF Reopen, Write, Running
  <2>3. /\ NewClock(t, at).run = "counting" /\ NewClock(t, at).target = t
        /\ NewClock(t, at).breached = "no"
    BY DEF NewClock
  <2>4. Level!Restart(t, now - at)
    BY <2>2, <2>3 DEF Level!Restart, Level!Goes
  <2> QED
    BY <2>1, <2>4 DEF Level!Next
<1>6. ASSUME NEW w \in Workers, NEW pauses \in BOOLEAN, NEW t \in Targets,
             Fire(w, pauses, t)
      PROVE  Level!Next
  BY <1>6, FireLevel
<1>7. CASE UNCHANGED vars
  BY <1>1, <1>7 DEF vars
<1> QED
  BY <1>1, <1>2, <1>3, <1>4, <1>5, <1>6, <1>7, ClockSteps

(* Whatever planners, workers and requests do in between, the clock and its
   steps are those of ServiceLevel: nothing runs or is recorded as a breach
   before its time, runs twice, or is taken back. *)
THEOREM TimersImplementLevel == Spec => ImplementsServiceLevel
<1>1. Init => Level!Init
  BY DEF Init, NewClock, Level!Init
<1> QED
  BY <1>1, LevelStep, Invariance, PTL DEF Spec, ImplementsServiceLevel, Level!Spec
=============================================================================
