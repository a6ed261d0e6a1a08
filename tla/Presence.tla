------------------------------ MODULE Presence ------------------------------
(***************************************************************************)
(* Who is online: the Redis sets behind staff presence                     *)
(* (apps/api/src/realtime/presence.store.ts), the handlers of the staff    *)
(* gateway that change them, the reaper that runs in every api replica and *)
(* the presence:changed announcements they make.                           *)
(*                                                                         *)
(* A MULTI and a Lua script are one step, and so are commands sent in one  *)
(* Promise.all; commands with an await between them are steps of their     *)
(* own.  A socket runs at most one request and its disconnect handler,     *)
(* which may overlap: a request admitted before the disconnect still sends *)
(* its commands after it.  The activity clock is abstract: when a limit    *)
(* has passed is a choice of the script that looks.                        *)
(***************************************************************************)
EXTENDS Integers, FiniteSets

CONSTANTS
  Brands, Users, Sockets, Replicas,
  Owner,        \* [Sockets -> Users]: who opened the socket
  Home,         \* [Sockets -> Replicas]: the replica that holds it
  MaxJoins,     \* bound on room:join requests
  MaxEvents,    \* bound on toggles, idle marks, replica crashes, failed Redis
                \* calls and keys that expire under an open socket, together
  MaxBusy,      \* bound on tasks under way at a time
  None

Pairs == Brands \X Users

ASSUME PresenceAssumption ==
  /\ Owner \in [Sockets -> Users] /\ Home \in [Sockets -> Replicas]
  /\ MaxJoins \in Nat /\ MaxEvents \in Nat /\ MaxBusy \in Nat
  /\ None \notin Pairs

VARIABLES
  listed,     \* presence:brands, the reaper's work list
  members,    \* presence:<brand>, as pairs
  socks,      \* presence:sockets:<brand>:<user>, as <<brand, socket>>
  live,       \* presence:sock:<socket>
  away,       \* presence:status:<brand>
  idle,       \* presence:idle:<brand>
  conn,       \* each socket: "open" (from the start: connecting changes no
              \* presence) or "gone"
  rooms,      \* socket.data.brandIds
  task,       \* each task: where it is (pc), the brand and user it is about
              \* (at), the sockets a sweep has read (seen), the status it is
              \* to announce (say), whether its srem removed the member (won)
  todo,       \* the brands a loop over a socket's brands has left
  heard,      \* what presence:changed last said of a person in a brand
  raced,      \* history: people whose status changed without, or after, its
              \* announcement, until one that is true and leaves no toggle
              \* or mark of somebody gone
  owed,       \* history: departures less the announcements of one
  joins, events

redis == <<listed, members, socks, live, away, idle>>
sockets == <<conn, rooms>>
history == <<heard, raced, owed>>
bounds == <<joins, events>>
vars == <<redis, sockets, task, todo, history, bounds>>

Req(s) == <<"request", s>>
Bye(s) == <<"disconnect", s>>
Sweep(r) == <<"sweep", r>>

Tasks == ({"request", "disconnect"} \X Sockets) \union ({"sweep"} \X Replicas)

SocketOf(t) == t[2]

Idle == [pc |-> "idle", at |-> None, seen |-> {}, say |-> "offline", won |-> FALSE]

Statuses == {"online", "away", "offline"}

(* derivePresence, of what the three sets hold.                            *)
Status(present, toggled, marked, x) ==
  IF x \notin present THEN "offline"
  ELSE IF x \in toggled \union marked THEN "away" ELSE "online"

Derived(x) == Status(members, away, idle, x)

Init ==
  /\ listed = {} /\ members = {} /\ socks = {} /\ live = {}
  /\ away = {} /\ idle = {}
  /\ conn = [s \in Sockets |-> "open"]
  /\ rooms = [s \in Sockets |-> {}]
  /\ task = [t \in Tasks |-> Idle]
  /\ todo = [t \in Tasks |-> {}]
  /\ heard = [x \in Pairs |-> "offline"]
  /\ raced = {}
  /\ owed = [x \in Pairs |-> 0]
  /\ joins = 0 /\ events = 0

-----------------------------------------------------------------------------
(* Moves of a task.                                                        *)

Pc(t) == task[t].pc
At(t) == task[t].at

(* A task goes on at a step, or ends and forgets what it held.             *)
Goes(t, step) == task' = [task EXCEPT ![t].pc = step]
Ends(t) == task' = [task EXCEPT ![t] = Idle]
Tells(t, status) == task' = [task EXCEPT ![t].pc = "tell", ![t].say = status]

Busy == {t \in Tasks : Pc(t) # "idle" \/ todo[t] # {}}

(* A task starts on x.                                                     *)
Starts(t, x, step) ==
  /\ Cardinality(Busy) < MaxBusy
  /\ Pc(t) = "idle" /\ todo[t] = {}
  /\ task' = [task EXCEPT ![t].pc = step, ![t].at = x]

Happens == events < MaxEvents /\ events' = events + 1

(* Removing something of x that no announcement follows.                   *)
Unannounced(x) ==
  raced' = IF Status(members', away', idle', x) # Derived(x)
             THEN raced \union {x} ELSE raced

-----------------------------------------------------------------------------
(* Sockets.                                                                *)

(* The socket closes; handleDisconnect will leave every brand it holds.    *)
Disconnect(s) ==
  /\ conn[s] = "open"
  /\ rooms[s] # {} => Cardinality(Busy) < MaxBusy
  /\ conn' = [conn EXCEPT ![s] = "gone"]
  /\ todo' = [todo EXCEPT ![Bye(s)] = rooms[s]]
  /\ UNCHANGED <<redis, rooms, task, history, bounds>>

(* A liveness key runs out: a minute after a socket is gone, or because    *)
(* an open one sent its heartbeats too late.                               *)
Expire(s) ==
  /\ s \in live
  /\ IF conn[s] = "open" THEN Happens
                         ELSE UNCHANGED events
  /\ live' = live \ {s}
  /\ UNCHANGED <<listed, members, socks, away, idle, sockets, task, todo,
                 history, joins>>

-----------------------------------------------------------------------------
(* room:join of a brand.  AskJoin is the handler up to its last await:     *)
(* session, authorisation, the room itself.  Of a room already held it     *)
(* would do what a heartbeat does.                                         *)

AskJoin(s, b) ==
  /\ conn[s] = "open" /\ b \notin rooms[s]
  /\ joins < MaxJoins /\ joins' = joins + 1
  /\ Starts(Req(s), <<b, Owner[s]>>, "join")
  /\ UNCHANGED <<redis, sockets, todo, history, events>>

Leaving(s) == Pc(Bye(s)) # "idle" \/ todo[Bye(s)] # {}

(* Mutant: who was there already is announced, and not who came.           *)
JoinTheOthers(s) ==
  LET t == Req(s)
      x == At(t)
      b == x[1] IN
  /\ Pc(t) = "join"
  /\ rooms' = [rooms EXCEPT ![s] = @ \union {b}]
  /\ todo' = [todo EXCEPT ![Bye(s)] = IF Leaving(s) /\ b \notin rooms[s]
                                        THEN @ \union {b} ELSE @]
  /\ listed' = listed \union {b}
  /\ members' = members \union {x}
  /\ socks' = socks \union {<<b, s>>}
  /\ live' = live \union {s}
  /\ IF x \in members THEN Goes(t, "read") ELSE Ends(t)
  /\ UNCHANGED <<away, idle, conn, history, bounds>>

(* brandIds.add, seen by a disconnect still looping over the set, and the  *)
(* MULTI of store.join: whoever's sadd adds the member has arrived.        *)
Join(s) ==
  LET t == Req(s)
      x == At(t)
      b == x[1] IN
  /\ Pc(t) = "join"
  /\ rooms' = [rooms EXCEPT ![s] = @ \union {b}]
  /\ todo' = [todo EXCEPT ![Bye(s)] = IF Leaving(s) /\ b \notin rooms[s]
                                        THEN @ \union {b} ELSE @]
  /\ listed' = listed \union {b}
  /\ members' = members \union {x}
  /\ socks' = socks \union {<<b, s>>}
  /\ live' = live \union {s}
  /\ IF x \in members THEN Ends(t) ELSE Goes(t, "read")
  /\ UNCHANGED <<away, idle, conn, history, bounds>>

-----------------------------------------------------------------------------
(* presence:heartbeat, of a socket that holds a brand's room; of any other *)
(* it would only refresh the key, which does not expire under it anyway.   *)

AskBeat(s) ==
  /\ conn[s] = "open" /\ rooms[s] # {}
  /\ Starts(Req(s), None, "beat")
  /\ UNCHANGED <<redis, sockets, todo, history, bounds>>

(* Mutant: memberships are repaired and nobody is told.                    *)
BeatSilently(s) ==
  /\ Pc(Req(s)) = "beat"
  /\ live' = live \union {s}
  /\ listed' = listed \union rooms[s]
  /\ members' = members \union (rooms[s] \X {Owner[s]})
  /\ socks' = socks \union (rooms[s] \X {s})
  /\ Ends(Req(s))
  /\ UNCHANGED <<away, idle, sockets, todo, history, bounds>>

(* Mutant: only the liveness key is refreshed.                             *)
BeatKeyOnly(s) ==
  /\ Pc(Req(s)) = "beat"
  /\ live' = live \union {s}
  /\ Ends(Req(s))
  /\ UNCHANGED <<listed, members, socks, away, idle, sockets, todo, history,
                 bounds>>

(* One MULTI refreshes the key and puts back every membership a sweep has  *)
(* taken; who was put back is announced next.                              *)
Beat(s) ==
  LET t == Req(s) IN
  /\ Pc(t) = "beat"
  /\ live' = live \union {s}
  /\ listed' = listed \union rooms[s]
  /\ members' = members \union (rooms[s] \X {Owner[s]})
  /\ socks' = socks \union (rooms[s] \X {s})
  /\ todo' = [todo EXCEPT ![t] = {b \in rooms[s] : <<b, Owner[s]>> \notin members}]
  /\ Ends(t)
  /\ UNCHANGED <<away, idle, sockets, history, bounds>>

-----------------------------------------------------------------------------
(* The loops over brands: of a heartbeat over those it repaired, of a      *)
(* disconnect over those the socket held.                                  *)

NextBrand(t, b) ==
  /\ Pc(t) = "idle" /\ b \in todo[t]
  /\ todo' = [todo EXCEPT ![t] = @ \ {b}]
  /\ task' = [task EXCEPT ![t].pc = IF t = Req(SocketOf(t)) THEN "read" ELSE "drop",
                          ![t].at = <<b, Owner[SocketOf(t)]>>]
  /\ UNCHANGED <<redis, sockets, history, bounds>>

-----------------------------------------------------------------------------
(* presence:set and presence:active.                                       *)

(* setStatus finds the person present; the write is another round trip.    *)
AskStatus(s, b, status) ==
  /\ conn[s] = "open"
  /\ <<b, Owner[s]>> \in members
  /\ Happens
  /\ Starts(Req(s), <<b, Owner[s]>>, status)
  /\ UNCHANGED <<redis, sockets, todo, history, joins>>

SetAway(s) ==
  LET t == Req(s) IN
  /\ Pc(t) = "away"
  /\ away' = away \union {At(t)}
  /\ Tells(t, "away")
  /\ UNCHANGED <<listed, members, socks, live, idle, sockets, todo, history,
                 bounds>>

SetOnline(s) ==
  LET t == Req(s) IN
  /\ Pc(t) = "online"
  /\ away' = away \ {At(t)} /\ idle' = idle \ {At(t)}
  /\ Tells(t, "online")
  /\ UNCHANGED <<listed, members, socks, live, sockets, todo, history, bounds>>

(* TOUCH_SCRIPT, when it ends an idle away; else only the clock moves.     *)
Touch(s, b) ==
  LET x == <<b, Owner[s]>> IN
  /\ conn[s] = "open"
  /\ x \in members /\ x \in idle
  /\ Starts(Req(s), x, "read")
  /\ idle' = idle \ {x}
  /\ UNCHANGED <<listed, members, socks, live, away, sockets, todo, history,
                 bounds>>

-----------------------------------------------------------------------------
(* store.leave, of room:leave and of every brand after a disconnect.       *)

RoomLeave(s, b) ==
  /\ conn[s] = "open" /\ b \in rooms[s]
  /\ Starts(Req(s), <<b, Owner[s]>>, "drop")
  /\ rooms' = [rooms EXCEPT ![s] = @ \ {b}]
  /\ UNCHANGED <<redis, conn, todo, history, bounds>>

DropSocket(t) ==
  /\ Pc(t) = "drop"
  /\ socks' = socks \ {<<At(t)[1], SocketOf(t)>>}
  /\ Goes(t, "unlive")
  /\ UNCHANGED <<listed, members, live, away, idle, sockets, todo, history,
                 bounds>>

DeleteKey(t) ==
  /\ Pc(t) = "unlive"
  /\ live' = live \ {SocketOf(t)}
  /\ Goes(t, "count")
  /\ UNCHANGED <<listed, members, socks, away, idle, sockets, todo, history,
                 bounds>>

SocketsAt(x) == {s \in Sockets : <<x[1], s>> \in socks /\ Owner[s] = x[2]}

CountSockets(t) ==
  /\ Pc(t) = "count"
  /\ IF SocketsAt(At(t)) = {} THEN Goes(t, "claim") ELSE Ends(t)
  /\ UNCHANGED <<redis, sockets, todo, history, bounds>>

-----------------------------------------------------------------------------
(* store.#forget: who removes the member announces the departure.          *)

(* Mutant: whoever gets here announces.                                    *)
ClaimRegardless(t) ==
  LET x == At(t) IN
  /\ Pc(t) = "claim"
  /\ members' = members \ {x}
  /\ task' = [task EXCEPT ![t].pc = "untoggle", ![t].won = TRUE]
  /\ owed' = [owed EXCEPT ![x] = IF x \in members THEN @ + 1 ELSE @]
  /\ UNCHANGED <<listed, socks, live, away, idle, sockets, todo, heard, raced,
                 bounds>>

Claim(t) ==
  LET x == At(t) IN
  /\ Pc(t) = "claim"
  /\ members' = members \ {x}
  /\ task' = [task EXCEPT ![t].pc = "untoggle", ![t].won = x \in members]
  /\ owed' = [owed EXCEPT ![x] = IF x \in members THEN @ + 1 ELSE @]
  /\ UNCHANGED <<listed, socks, live, away, idle, sockets, todo, heard, raced,
                 bounds>>

Untoggle(t) ==
  /\ Pc(t) = "untoggle"
  /\ away' = away \ {At(t)}
  /\ Goes(t, "unmark")
  /\ UNCHANGED <<listed, members, socks, live, idle, sockets, todo, heard, owed,
                 bounds>>
  /\ Unannounced(At(t))

Unmark(t) ==
  /\ Pc(t) = "unmark"
  /\ idle' = idle \ {At(t)}
  /\ Goes(t, "size")
  /\ UNCHANGED <<listed, members, socks, live, away, sockets, todo, heard, owed,
                 bounds>>
  /\ Unannounced(At(t))

(* Back in leave or sweepUser: only the winner calls goneOffline.          *)
Forgotten(t) == IF task[t].won THEN Tells(t, "offline") ELSE Ends(t)

Empty(b) == \A u \in Users : <<b, u>> \notin members

(* scard of the brand's members, and, if it was zero, the srem that takes  *)
(* the brand off the reaper's list.                                        *)
CountMembers(t) ==
  /\ Pc(t) = "size"
  /\ IF Empty(At(t)[1]) THEN Goes(t, "unlist") ELSE Forgotten(t)
  /\ UNCHANGED <<redis, sockets, todo, history, bounds>>

Unlist(t) ==
  /\ Pc(t) = "unlist"
  /\ listed' = listed \ {At(t)[1]}
  /\ Forgotten(t)
  /\ UNCHANGED <<members, socks, live, away, idle, sockets, todo, history, bounds>>

-----------------------------------------------------------------------------
(* Announcements.                                                          *)

(* store.statusOf: three reads sent together.                              *)
ReadStatus(t) ==
  /\ Pc(t) = "read"
  /\ Tells(t, Derived(At(t)))
  /\ UNCHANGED <<redis, sockets, todo, history, bounds>>

Departs(t) == task[t].won /\ task[t].say = "offline"

(* presence:changed; of a departure the offline hook follows.              *)
Announce(t) ==
  LET x == At(t) IN
  /\ Pc(t) = "tell"
  /\ heard' = [heard EXCEPT ![x] = task[t].say]
  /\ raced' = IF task[t].say # Derived(x) THEN raced \union {x}
              ELSE IF x \in (away \union idle) \ members THEN raced ELSE raced \ {x}
  /\ owed' = [owed EXCEPT ![x] = IF Departs(t) THEN @ - 1 ELSE @]
  /\ Ends(t)
  /\ UNCHANGED <<redis, sockets, todo, bounds>>

-----------------------------------------------------------------------------
(* The reaper of replica r: sweepUser, then the idle marks.                *)

StartSweep(r, x) ==
  /\ x[1] \in listed /\ x \in members
  /\ Starts(Sweep(r), x, "sockets")
  /\ UNCHANGED <<redis, sockets, todo, history, bounds>>

(* Mutant: without sockets there is nothing to sweep.                      *)
ReadSocketsOrStop(r) ==
  LET t == Sweep(r)
      found == SocketsAt(At(t)) IN
  /\ Pc(t) = "sockets"
  /\ IF found = {} THEN Ends(t)
     ELSE task' = [task EXCEPT ![t].pc = "keys", ![t].seen = found]
  /\ UNCHANGED <<redis, sockets, todo, history, bounds>>

ReadSockets(r) ==
  LET t == Sweep(r)
      found == SocketsAt(At(t)) IN
  /\ Pc(t) = "sockets"
  /\ task' = [task EXCEPT ![t].pc = IF found = {} THEN "claim" ELSE "keys",
                          ![t].seen = found]
  /\ UNCHANGED <<redis, sockets, todo, history, bounds>>

(* mget of their liveness keys.                                            *)
ReadKeys(r) ==
  LET t == Sweep(r)
      dead == task[t].seen \ live IN
  /\ Pc(t) = "keys"
  /\ IF dead = {} THEN Ends(t)
     ELSE task' = [task EXCEPT ![t].pc = IF dead = task[t].seen THEN "last" ELSE "some",
                               ![t].seen = dead]
  /\ UNCHANGED <<redis, sockets, todo, history, bounds>>

DropDead(r) ==
  LET t == Sweep(r) IN
  /\ Pc(t) \in {"last", "some"}
  /\ socks' = socks \ ({At(t)[1]} \X task[t].seen)
  /\ IF Pc(t) = "some" THEN Ends(t)
     ELSE task' = [task EXCEPT ![t].pc = "claim", ![t].seen = {}]
  /\ UNCHANGED <<listed, members, live, away, idle, sockets, todo, history, bounds>>

(* Mutant: the mark without the check.                                     *)
MarkAnyone(r, x) ==
  /\ x \notin idle /\ Happens
  /\ Starts(Sweep(r), x, "read")
  /\ idle' = idle \union {x}
  /\ UNCHANGED <<listed, members, socks, live, away, sockets, todo, history,
                 joins>>

(* MARK_IDLE_SCRIPT, when it marks.                                        *)
MarkIdle(r, x) ==
  /\ x \in members /\ x \notin idle
  /\ Happens
  /\ Starts(Sweep(r), x, "read")
  /\ idle' = idle \union {x}
  /\ UNCHANGED <<listed, members, socks, live, away, sockets, todo, history,
                 joins>>

(* The person's department no longer asks for it.                          *)
ReleaseIdle(r, x) ==
  /\ x \in idle
  /\ Starts(Sweep(r), x, "read")
  /\ idle' = idle \ {x}
  /\ UNCHANGED <<listed, members, socks, live, away, sockets, todo, history, bounds>>

-----------------------------------------------------------------------------
(* Faults.                                                                 *)

Removing(t) == Pc(t) \in {"untoggle", "unmark"}

Pending(t) == task[t].won \/ Pc(t) \in {"read", "tell"}

(* The people some task in T still owes an announcement.                   *)
OwedBy(T) ==
  {At(t) : t \in {v \in T : Pending(v)}} \union
  UNION {todo[t] \X {Owner[SocketOf(t)]} : t \in T \intersect ({"request"} \X Sockets)}

Abandon(T) ==
  /\ Happens
  /\ task' = [t \in Tasks |-> IF t \in T THEN Idle ELSE task[t]]
  /\ todo' = [t \in Tasks |-> IF t \in T THEN {} ELSE todo[t]]
  /\ raced' = raced \union OwedBy(T)
  /\ UNCHANGED <<redis, rooms, heard, owed, joins>>

(* A Redis call throws: the request, the loop over the brands of a         *)
(* disconnect or the sweep ends there.                                     *)
Fail(t) ==
  /\ Pc(t) \notin {"idle", "tell"}
  /\ Abandon({t})
  /\ UNCHANGED conn

(* The replica dies with its sockets and their handlers, and no disconnect *)
(* handler runs.                                                           *)
Crash(r) ==
  /\ Abandon({t \in Tasks : IF t[1] = "sweep" THEN t[2] = r ELSE Home[t[2]] = r})
  /\ conn' = [s \in Sockets |-> IF Home[s] = r /\ conn[s] = "open" THEN "gone"
                                                                  ELSE conn[s]]

-----------------------------------------------------------------------------
LeaveStep(t) ==
  DropSocket(t) \/ DeleteKey(t) \/ CountSockets(t)

ForgetStep(t) ==
  Claim(t) \/ Untoggle(t) \/ Unmark(t) \/ CountMembers(t) \/ Unlist(t)

RequestStep(s) == Join(s) \/ Beat(s) \/ SetAway(s) \/ SetOnline(s)

SweepStep(r) == ReadSockets(r) \/ ReadKeys(r) \/ DropDead(r)

(* What a task that has begun does next.                                   *)
Step(t) ==
  \/ LeaveStep(t) \/ ForgetStep(t) \/ ReadStatus(t) \/ Announce(t)
  \/ \E b \in Brands : NextBrand(t, b)
  \/ \E s \in Sockets : t = Req(s) /\ RequestStep(s)
  \/ \E r \in Replicas : t = Sweep(r) /\ SweepStep(r)

Ask(s) ==
  \/ Disconnect(s) \/ AskBeat(s)
  \/ \E b \in Brands :
       \/ AskJoin(s, b) \/ RoomLeave(s, b) \/ Touch(s, b)
       \/ \E status \in {"away", "online"} : AskStatus(s, b, status)

Reap(r) ==
  \E x \in Pairs : StartSweep(r, x) \/ MarkIdle(r, x) \/ ReleaseIdle(r, x)

Next ==
  \/ \E t \in Tasks : Step(t) \/ Fail(t)
  \/ \E s \in Sockets : Ask(s) \/ Expire(s)
  \/ \E r \in Replicas : Reap(r) \/ Crash(r)

Spec == Init /\ [][Next]_vars

(* Handlers go on; an open socket keeps sending heartbeats; each sweep     *)
(* comes to everyone on the list; a key nobody refreshes expires.          *)
Fairness ==
  /\ \A t \in Tasks : WF_vars(Step(t))
  /\ \A s \in Sockets : SF_vars(AskBeat(s)) /\ WF_vars(conn[s] = "gone" /\ Expire(s))
  /\ \A r \in Replicas : \A x \in Pairs : SF_vars(StartSweep(r, x))

FairSpec == Spec /\ Fairness

-----------------------------------------------------------------------------
(* Properties.                                                             *)

Steps == {"idle", "join", "beat", "away", "online", "drop", "unlive", "count",
          "claim", "untoggle", "unmark", "size", "unlist", "read", "tell",
          "sockets", "keys", "last", "some"}

TypeOK ==
  /\ listed \subseteq Brands
  /\ members \subseteq Pairs /\ away \subseteq Pairs /\ idle \subseteq Pairs
  /\ socks \subseteq Brands \X Sockets
  /\ live \subseteq Sockets
  /\ conn \in [Sockets -> {"open", "gone"}]
  /\ rooms \in [Sockets -> SUBSET Brands]
  /\ task \in [Tasks -> [pc : Steps, at : Pairs \union {None}, seen : SUBSET Sockets,
                         say : Statuses, won : BOOLEAN]]
  /\ todo \in [Tasks -> SUBSET Brands]
  /\ heard \in [Pairs -> Statuses]
  /\ raced \subseteq Pairs
  /\ owed \in [Pairs -> Int]
  /\ joins \in 0..MaxJoins /\ events \in 0..MaxEvents

(* However many replicas sweep, a departure is announced no more than      *)
(* once: the srem that removed the member entitles to one announcement     *)
(* (presence.store.ts, #forget).                                           *)
NoFalseDeparture == \A x \in Pairs : owed[x] >= 0

(* An idle mark belongs to somebody present, to somebody whose removal is  *)
(* under way, or to somebody in raced, of whom a removal was abandoned in  *)
(* a fault or an announcement came late: checking and marking are one      *)
(* script, so no departure is followed by a mark (presence.store.ts).      *)
MarksFollowPresence ==
  \A x \in idle \ members :
    x \in raced \/ \E t \in Tasks : At(t) = x /\ Removing(t)

Quiet(x) ==
  \A t \in Tasks : ~(At(t) = x /\ Pending(t)) /\
    ~(t[1] = "request" /\ x \in todo[t] \X {Owner[SocketOf(t)]})

(* Every change is announced: once nothing is on its way, a brand's room   *)
(* has heard what is true of everyone, unless an announcement came too     *)
(* late, was lost in a fault, or a removal erased the toggle of somebody   *)
(* already back.                                                           *)
RoomsHearEveryChange ==
  \A x \in Pairs : Quiet(x) /\ x \notin raced => heard[x] = Derived(x)

Room == INSTANCE Attendance WITH
  People <- Pairs,
  status <- [x \in Pairs |-> Derived(x)],
  expected <- {x \in Pairs : ~Quiet(x)},
  doubtful <- raced,
  leaving <- owed

(* The sets, sockets and sweeps implement Attendance: nobody's status      *)
(* changes without an announcement under way, none is made of anybody else *)
(* or of a departure that was announced, and what makes the last one       *)
(* untrue is one of the three causes it names.                             *)
ImplementsAttendance == Room!Spec

Holds(x) ==
  \E s \in Sockets : conn[s] = "open" /\ x[1] \in rooms[s] /\ Owner[s] = x[2]

(* Whoever keeps a socket in a brand's room is present in the end, however *)
(* sweeps, departures of other sockets and late heartbeats interleave.     *)
HoldersArePresent == \A x \in Pairs : <>[](Holds(x) => x \in members)

Connected(u) == \E s \in Sockets : conn[s] = "open" /\ Owner[s] = u

(* Nobody stays present once their last socket is gone, so long as the     *)
(* brand is on the reaper's list.                                          *)
ListedGhostsLeave ==
  \A x \in Pairs : []<>(x \in members => Connected(x[2]) \/ x[1] \notin listed)

(* "They expire within a minute, and the reaper turns the people they      *)
(* belonged to offline" (presence.store.ts).                               *)
GhostsLeave == \A x \in Pairs : []<>(x \in members => Connected(x[2]))
=============================================================================
