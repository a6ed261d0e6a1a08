---------------------------- MODULE ServiceLevel ----------------------------
(***************************************************************************)
(* What an SLA clock promises, with no checkpoints, no plans, no jobs and  *)
(* no workers in it: time is used while the clock counts and at no other   *)
(* time, but for what a request looked back; each step runs at most once,  *)
(* on a clock that counts, when its share of the target is used; a breach  *)
(* is recorded when the target is used up and at no time before, and is    *)
(* not taken back while the clock lasts; what has ended starts afresh.     *)
(***************************************************************************)
EXTENDS Naturals

CONSTANTS
  Steps,        \* the steps of the policy, by their percents
  Targets,      \* the targets it may give
  FirstTarget,  \* the one it starts with
  MaxLag        \* how far a request may look back

Breach == 100

VARIABLES
  state,     \* "counting", "paused" or "ended"
  target,
  used,      \* units the clock has counted
  ran,       \* how often each step ran
  breached   \* whether a breach is recorded

vars == <<state, target, used, ran, breached>>

Share(s) == (target * s) \div 100

Init ==
  /\ state = "counting" /\ target = FirstTarget
  /\ used = 0
  /\ ran = [s \in Steps |-> 0]
  /\ breached = FALSE

(* A breach is recorded for a reason, and stays.                           *)
Records(reason) ==
  \/ breached' = breached
  \/ reason /\ breached' = TRUE

Goes(st, t) == state' = st /\ target' = t

Pass ==
  /\ state = "counting"
  /\ used' = used + 1
  /\ UNCHANGED <<state, target, ran, breached>>

(* The ticket pauses, goes on, or comes under another target.              *)
Change(st, t, back) ==
  /\ state # "ended"
  /\ Goes(st, t)
  /\ back > 0 => state = "paused" /\ st = "counting"
  /\ used' = used + back
  /\ Records(t # target /\ used >= t)
  /\ UNCHANGED ran

(* A step may change the ticket, and the clock follows.                    *)
RunStep(s, st, t) ==
  /\ state = "counting" /\ ran[s] = 0 /\ used >= Share(s)
  /\ s = Breach => ~breached
  /\ ran' = [ran EXCEPT ![s] = 1]
  /\ Goes(st, t)
  /\ Records(s >= Breach \/ (t # target /\ used >= t))
  /\ s >= Breach => breached'
  /\ UNCHANGED used

(* The ticket is answered or closed.                                       *)
Meet ==
  /\ state # "ended"
  /\ Goes("ended", target)
  /\ Records(used > target)
  /\ UNCHANGED <<used, ran>>

Restart(t, back) ==
  /\ state = "ended"
  /\ Goes("counting", t)
  /\ used' = back
  /\ ran' = [s \in Steps |-> 0]
  /\ breached' = FALSE

Next ==
  \/ Pass
  \/ \E st \in {"counting", "paused"}, t \in Targets :
       \/ \E back \in 0..MaxLag : Change(st, t, back)
       \/ \E s \in Steps : RunStep(s, st, t)
  \/ Meet
  \/ \E t \in Targets, back \in 0..MaxLag : Restart(t, back)

Spec == Init /\ [][Next]_vars
=============================================================================
