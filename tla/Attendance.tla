----------------------------- MODULE Attendance -----------------------------
(***************************************************************************)
(* What presence promises those who watch a brand's room, with no Redis    *)
(* sets, no sockets and no sweeps in it: whoever comes, leaves, turns away *)
(* or turns back is announced next, a departure no more often than it      *)
(* happened, and of nobody else is anything said.  What was said last is   *)
(* in doubt only if it was no longer true by then, if an announcement was  *)
(* lost, or if a departure took away the toggle of somebody back already.  *)
(***************************************************************************)
EXTENDS Integers

CONSTANT People   \* people, each in one brand

VARIABLES
  status,     \* what is true of each
  heard,      \* what was said last
  expected,   \* people of whom something will be said
  doubtful,   \* people of whom something untrue may have been said last
  leaving     \* departures less announcements of one

vars == <<status, heard, expected, doubtful, leaving>>

Statuses == {"online", "away", "offline"}

Init ==
  /\ status = [x \in People |-> "offline"]
  /\ heard = [x \in People |-> "offline"]
  /\ expected = {} /\ doubtful = {}
  /\ leaving = [x \in People |-> 0]

(* Some come, turn away or turn back; of some it is said again.            *)
Come(now, more) ==
  /\ status' = now
  /\ expected' = expected \union more
  /\ \A x \in People : now[x] # status[x] => now[x] # "offline" /\ x \in expected'
  /\ UNCHANGED <<heard, doubtful, leaving>>

Depart(x) ==
  /\ status[x] # "offline"
  /\ status' = [status EXCEPT ![x] = "offline"]
  /\ leaving' = [leaving EXCEPT ![x] = @ + 1]
  /\ expected' = expected \union {x}
  /\ UNCHANGED <<heard, doubtful>>

(* The rest of a departure meets somebody who is back.                     *)
Erase(x) ==
  /\ status[x] = "away"
  /\ status' = [status EXCEPT ![x] = "online"]
  /\ doubtful' = doubtful \union {x}
  /\ UNCHANGED <<heard, expected, leaving>>

(* More may be on its way, or this was the last.                           *)
Tell(x, said) ==
  /\ x \in expected
  /\ heard' = [heard EXCEPT ![x] = said]
  /\ expected' \in {expected, expected \ {x}}
  /\ IF said # status[x] THEN doubtful' = doubtful \union {x}
                         ELSE doubtful' \in {doubtful, doubtful \ {x}}
  /\ \/ UNCHANGED leaving
     \/ /\ said = "offline" /\ leaving[x] > 0
        /\ leaving' = [leaving EXCEPT ![x] = @ - 1]
  /\ UNCHANGED status

(* Announcements are lost; something else may be on its way of some.       *)
Lose(some, last) ==
  /\ some \subseteq expected /\ last \subseteq some
  /\ doubtful' = doubtful \union some
  /\ expected' = expected \ last
  /\ UNCHANGED <<status, heard, leaving>>

Next ==
  \/ \E now \in [People -> Statuses], more \in SUBSET People : Come(now, more)
  \/ \E x \in People :
       Depart(x) \/ Erase(x) \/ \E said \in Statuses : Tell(x, said)
  \/ \E some, last \in SUBSET People : Lose(some, last)

Spec == Init /\ [][Next]_vars
=============================================================================
