---------------------------- MODULE SnoozedTicket ---------------------------
(***************************************************************************)
(* What a ticket promises those who put it away and those who write to it, *)
(* with no rows read before a lock, no versions, no jobs and no workers in *)
(* it: it is away until a time, remembering where it was; whoever moves it *)
(* ends that; the time brings it back when it has come, and back to where  *)
(* it was; and a message is stored once, however often it is sent.         *)
(***************************************************************************)
EXTENDS Naturals

CONSTANTS
  Replies,    \* messages of customers
  SnoozeFor,  \* how long people put it away for
  None        \* no time, no status

VARIABLES
  now,
  status,
  until,      \* when it comes back
  resume,     \* the status it comes back to
  byTime,     \* whether the time was the last to move it
  stored      \* how often each message is stored

vars == <<now, status, until, resume, byTime, stored>>

Init ==
  /\ now = 0
  /\ status = "open" /\ until = None /\ resume = None
  /\ byTime = FALSE
  /\ stored = [c \in Replies |-> 0]

Pass ==
  /\ now' = now + 1
  /\ UNCHANGED <<status, until, resume, byTime, stored>>

IsIn(s) == status' = s /\ until' = None /\ resume' = None

PutAway(d, back) ==
  /\ status' = "snoozed" /\ until' = now + d /\ resume' = back
  /\ byTime' = FALSE
  /\ UNCHANGED <<now, stored>>

Move(s) ==
  /\ IsIn(s)
  /\ byTime' = FALSE
  /\ UNCHANGED <<now, stored>>

(* An answer is overdue.                                                   *)
CallBack ==
  /\ status = "snoozed"
  /\ IsIn(resume)
  /\ byTime' = FALSE
  /\ UNCHANGED <<now, stored>>

ComeBack ==
  /\ status = "snoozed" /\ until <= now
  /\ IsIn(resume)
  /\ byTime' = TRUE
  /\ UNCHANGED <<now, stored>>

(* Here or on a ticket that continues this one.                            *)
Store(c) ==
  /\ stored[c] = 0
  /\ stored' = [stored EXCEPT ![c] = 1]
  /\ \/ UNCHANGED <<status, until, resume, byTime>>
     \/ IsIn("open") /\ byTime' = FALSE
  /\ UNCHANGED now

Next ==
  \/ Pass \/ CallBack \/ ComeBack
  \/ \E d \in SnoozeFor, back \in {"open", "awaiting"} : PutAway(d, back)
  \/ \E s \in {"open", "awaiting", "closed", "spam"} : Move(s)
  \/ \E c \in Replies : Store(c)

Spec == Init /\ [][Next]_vars
=============================================================================
