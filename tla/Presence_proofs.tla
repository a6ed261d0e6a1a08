--------------------------- MODULE Presence_proofs ---------------------------
(* Theorems about Presence, for any brands, people, sockets and replicas:  *)
(* departures are announced at most once, idle marks follow presence, and  *)
(* rooms hear of every change.                                             *)
EXTENDS Presence, FiniteSetTheorems, TLAPS

TaskType ==
  [pc : Steps, at : Pairs \union {None}, seen : SUBSET Sockets, say : Statuses,
   won : BOOLEAN]

(* Who won a removal has still to announce it; who does anything but       *)
(* refresh a key does it for somebody.                                     *)
GoodTask ==
  {k \in TaskType :
     /\ k.won => k.pc \in {"untoggle", "unmark", "size", "unlist", "tell"}
     /\ k.pc \notin {"idle", "beat"} => k.at \in Pairs}

TaskInv ==
  /\ task \in [Tasks -> GoodTask]
  /\ todo \in [Tasks -> SUBSET Brands]
  /\ \A r \in Replicas : todo[Sweep(r)] = {}

(* Everybody who won a removal of x has an announcement of it to make.     *)
Winners(x) == {t \in Tasks : task[t].won /\ At(t) = x}

WinnersInv ==
  \A x \in Pairs : IsFiniteSet(Winners(x)) /\ Cardinality(Winners(x)) <= owed[x]

(* A mark of somebody absent is being removed by the one who won.          *)
MarksInv ==
  \A x \in idle \ members :
    x \in raced \/ \E t \in Tasks : At(t) = x /\ Removing(t) /\ task[t].won

StateTyped ==
  /\ listed \subseteq Brands
  /\ members \subseteq Pairs /\ away \subseteq Pairs /\ idle \subseteq Pairs
  /\ socks \subseteq Brands \X Sockets
  /\ live \subseteq Sockets
  /\ conn \in [Sockets -> {"open", "gone"}]
  /\ rooms \in [Sockets -> SUBSET Brands]
  /\ heard \in [Pairs -> Statuses]
  /\ raced \subseteq Pairs
  /\ owed \in [Pairs -> Int]
  /\ joins \in 0..MaxJoins /\ events \in 0..MaxEvents

(* A heartbeat puts right what it announces next.                          *)
BeatInv == \A s \in Sockets : Pc(Req(s)) = "beat" => todo[Req(s)] = {}

Inv ==
  /\ StateTyped /\ TaskInv /\ WinnersInv /\ MarksInv /\ BeatInv
  /\ RoomsHearEveryChange

-----------------------------------------------------------------------------
(* Tasks.                                                                  *)

LEMMA TypeParts == StateTyped /\ TaskInv => TypeOK
BY DEF StateTyped, TaskInv, TypeOK, GoodTask, TaskType

LEMMA TaskKinds ==
  /\ \A s \in Sockets : /\ Req(s) \in Tasks /\ SocketOf(Req(s)) = s /\ Req(s)[1] = "request"
                        /\ Bye(s) \in Tasks /\ SocketOf(Bye(s)) = s /\ Bye(s)[1] = "disconnect"
  /\ \A r \in Replicas : Sweep(r) \in Tasks /\ Sweep(r)[1] = "sweep"
  /\ \A t \in Tasks : \/ t[1] \in {"request", "disconnect"} /\ SocketOf(t) \in Sockets
                      \/ \E r \in Replicas : t = Sweep(r)
  /\ \A t \in Tasks : t[1] = "request" => t = Req(SocketOf(t))
BY DEF Req, Bye, Sweep, Tasks, SocketOf

LEMMA IdleIsGood == Idle \in GoodTask /\ Idle.pc = "idle" /\ ~Idle.won
BY DEF Idle, GoodTask, TaskType, Steps, Statuses

(* A task goes on, tells or starts as a good task does.                    *)
LEMMA GoodMoves ==
  ASSUME NEW k \in GoodTask, NEW pc \in Steps
  PROVE  /\ k.pc \notin {"idle", "beat"} /\ (k.won => pc \in {"untoggle", "unmark", "size", "unlist", "tell"}) =>
              [k EXCEPT !.pc = pc] \in GoodTask
         /\ k.pc \notin {"idle", "beat"} =>
              \A say \in Statuses : [k EXCEPT !.pc = "tell", !.say = say] \in GoodTask
         /\ k.pc = "idle" =>
              /\ \A x \in Pairs : pc \notin {"untoggle", "unmark", "size", "unlist", "tell"} =>
                   [k EXCEPT !.pc = pc, !.at = x] \in GoodTask
              /\ [k EXCEPT !.pc = "beat", !.at = None] \in GoodTask
BY DEF GoodTask, TaskType, Steps

(* Derived is one of the three statuses.                                   *)
LEMMA StatusTyped == \A x : Derived(x) \in Statuses
BY DEF Derived, Status, Statuses

LEMMA OwnerTyped ==
  /\ \A s \in Sockets : Owner[s] \in Users
  /\ \A b \in Brands, s \in Sockets : <<b, Owner[s]>> \in Pairs
BY PresenceAssumption DEF Pairs

TasksGo == task' \in [Tasks -> GoodTask]

LEMMA LeaveStepGoes ==
  ASSUME TaskInv, NEW t \in Tasks, LeaveStep(t)
  PROVE  TasksGo
<1>1. /\ task[t] \in GoodTask /\ task \in [Tasks -> GoodTask] /\ Idle \in GoodTask
      /\ {"unlive", "count", "claim"} \subseteq Steps
      /\ task[t].pc \in {"drop", "unlive", "count"} => ~task[t].won
  BY IdleIsGood DEF TaskInv, Steps, GoodTask
<1>2. \A pc \in {"unlive", "count", "claim"} :
        task[t].pc \in {"drop", "unlive", "count"} => [task[t] EXCEPT !.pc = pc] \in GoodTask
  BY <1>1, GoodMoves
<1> QED  BY <1>1, <1>2 DEF LeaveStep, DropSocket, DeleteKey, CountSockets, Pc, Goes, Ends, TasksGo

LEMMA ForgetStepGoes ==
  ASSUME TaskInv, NEW t \in Tasks, ForgetStep(t)
  PROVE  TasksGo
<1>1. /\ task[t] \in GoodTask /\ task \in [Tasks -> GoodTask] /\ Idle \in GoodTask
  BY IdleIsGood DEF TaskInv
<1>2. CASE Claim(t)
  <2>1. ASSUME NEW won \in BOOLEAN
        PROVE  [task[t] EXCEPT !.pc = "untoggle", !.won = won] \in GoodTask
    BY <1>1, <1>2 DEF Claim, Pc, GoodTask, TaskType, Steps
  <2>2. PICK won \in BOOLEAN : won = (At(t) \in members)
    <3>1. CASE At(t) \in members
      <4>1. (At(t) \in members) = TRUE
        BY <3>1
      <4> QED  BY <4>1
    <3>2. CASE At(t) \notin members
      <4>1. (At(t) \in members) = FALSE
        BY <3>2
      <4> QED  BY <4>1
    <3> QED  BY <3>1, <3>2
  <2>3. task' = [task EXCEPT ![t].pc = "untoggle", ![t].won = won]
    BY <1>2, <2>2 DEF Claim
  <2> QED  BY <1>1, <2>1, <2>3 DEF TasksGo
<1>3. CASE Untoggle(t)
  <2>1. [task[t] EXCEPT !.pc = "unmark"] \in GoodTask
    BY <1>1, <1>3 DEF Untoggle, Pc, GoodTask, TaskType, Steps
  <2> QED  BY <1>1, <1>3, <2>1 DEF Untoggle, Goes, TasksGo
<1>4. CASE Unmark(t)
  <2>1. [task[t] EXCEPT !.pc = "size"] \in GoodTask
    BY <1>1, <1>4 DEF Unmark, Pc, GoodTask, TaskType, Steps
  <2> QED  BY <1>1, <1>4, <2>1 DEF Unmark, Goes, TasksGo
<1>5. CASE CountMembers(t) \/ Unlist(t)
  <2>1. /\ [task[t] EXCEPT !.pc = "unlist"] \in GoodTask
        /\ [task[t] EXCEPT !.pc = "tell", !.say = "offline"] \in GoodTask
    <3>1. task[t].pc \in {"size", "unlist"}
      BY <1>5 DEF CountMembers, Unlist, Pc
    <3> QED  BY <1>1, <3>1 DEF GoodTask, TaskType, Steps, Statuses
  <2>2. Forgotten(t) => TasksGo
    BY <1>1, <2>1 DEF Forgotten, Tells, Ends, TasksGo
  <2>3. Goes(t, "unlist") => TasksGo
    BY <1>1, <2>1 DEF Goes, TasksGo
  <2> QED  BY <1>5, <2>2, <2>3 DEF CountMembers, Unlist
<1> QED  BY <1>2, <1>3, <1>4, <1>5 DEF ForgetStep

LEMMA TellingGoes ==
  ASSUME TaskInv, NEW t \in Tasks, ReadStatus(t) \/ Announce(t)
  PROVE  TasksGo
<1>1. /\ task[t] \in GoodTask /\ task \in [Tasks -> GoodTask] /\ Idle \in GoodTask
  BY IdleIsGood DEF TaskInv
<1>2. CASE ReadStatus(t)
  <2>1. [task[t] EXCEPT !.pc = "tell", !.say = Derived(At(t))] \in GoodTask
    BY <1>1, <1>2, StatusTyped DEF ReadStatus, Pc, GoodTask, TaskType, Steps
  <2> QED  BY <1>1, <1>2, <2>1 DEF ReadStatus, Tells, TasksGo
<1>3. CASE Announce(t)
  BY <1>1, <1>3 DEF Announce, Ends, TasksGo
<1> QED  BY <1>2, <1>3

LEMMA RequestGoes ==
  ASSUME TaskInv, NEW s \in Sockets, RequestStep(s)
  PROVE  TasksGo
<1> DEFINE t == Req(s)
<1>1. /\ t \in Tasks /\ task[t] \in GoodTask /\ task \in [Tasks -> GoodTask]
      /\ Idle \in GoodTask
  BY IdleIsGood, TaskKinds DEF TaskInv
<1>2. CASE Join(s)
  <2>1. [task[t] EXCEPT !.pc = "read"] \in GoodTask
    BY <1>1, <1>2 DEF Join, Pc, GoodTask, TaskType, Steps
  <2> QED  BY <1>1, <1>2, <2>1 DEF Join, Goes, Ends, TasksGo
<1>3. CASE Beat(s)
  BY <1>1, <1>3 DEF Beat, Ends, TasksGo
<1>4. CASE SetAway(s) \/ SetOnline(s)
  <2>1. \A say \in {"away", "online"} : [task[t] EXCEPT !.pc = "tell", !.say = say] \in GoodTask
    BY <1>1, <1>4 DEF SetAway, SetOnline, Pc, GoodTask, TaskType, Steps, Statuses
  <2> QED  BY <1>1, <1>4, <2>1 DEF SetAway, SetOnline, Tells, TasksGo
<1> QED  BY <1>2, <1>3, <1>4 DEF RequestStep

LEMMA SweepGoes ==
  ASSUME TaskInv, NEW r \in Replicas, SweepStep(r)
  PROVE  TasksGo
<1> DEFINE t == Sweep(r)
<1>1. /\ t \in Tasks /\ task[t] \in GoodTask /\ task \in [Tasks -> GoodTask]
      /\ Idle \in GoodTask /\ task[t].seen \subseteq Sockets
  BY IdleIsGood, TaskKinds DEF TaskInv, GoodTask, TaskType
<1>2. CASE ReadSockets(r)
  <2>1. /\ [task[t] EXCEPT !.pc = "claim", !.seen = SocketsAt(At(t))] \in GoodTask
        /\ [task[t] EXCEPT !.pc = "keys", !.seen = SocketsAt(At(t))] \in GoodTask
    BY <1>1, <1>2 DEF ReadSockets, Pc, GoodTask, TaskType, Steps, SocketsAt
  <2> QED  BY <1>1, <1>2, <2>1 DEF ReadSockets, TasksGo
<1>3. CASE ReadKeys(r)
  <2>1. \A pc \in {"last", "some"} :
          [task[t] EXCEPT !.pc = pc, !.seen = task[t].seen \ live] \in GoodTask
    BY <1>1, <1>3 DEF ReadKeys, Pc, GoodTask, TaskType, Steps
  <2> QED  BY <1>1, <1>3, <2>1 DEF ReadKeys, Ends, TasksGo
<1>4. CASE DropDead(r)
  <2>1. [task[t] EXCEPT !.pc = "claim", !.seen = {}] \in GoodTask
    BY <1>1, <1>4 DEF DropDead, Pc, GoodTask, TaskType, Steps
  <2> QED  BY <1>1, <1>4, <2>1 DEF DropDead, Ends, TasksGo
<1> QED  BY <1>2, <1>3, <1>4 DEF SweepStep

LEMMA StartGoes ==
  ASSUME TaskInv, NEW t \in Tasks, NEW x, NEW pc, Starts(t, x, pc),
         \/ x \in Pairs /\ pc \in Steps \ {"untoggle", "unmark", "size", "unlist", "tell"}
         \/ x = None /\ pc = "beat"
  PROVE  TasksGo
<1>1. task[t] \in GoodTask /\ task \in [Tasks -> GoodTask] /\ task[t].pc = "idle"
  BY DEF TaskInv, Starts, Pc
<1>2. [task[t] EXCEPT !.pc = pc, !.at = x] \in GoodTask
  BY <1>1, GoodMoves DEF Steps
<1> QED  BY <1>1, <1>2 DEF Starts, TasksGo

LEMMA AskGoes ==
  ASSUME StateTyped, TaskInv, NEW s \in Sockets, Ask(s)
  PROVE  TasksGo
<1>0. Req(s) \in Tasks /\ \A b \in Brands : <<b, Owner[s]>> \in Pairs
  BY TaskKinds, OwnerTyped
<1> USE <1>0 DEF Steps
<1>1. CASE Disconnect(s)
  BY <1>1 DEF Disconnect, TaskInv, TasksGo
<1>2. CASE AskBeat(s)
  BY <1>2, StartGoes DEF AskBeat
<1>3. ASSUME NEW b \in Brands, AskJoin(s, b)
      PROVE  TasksGo
  BY <1>3, StartGoes DEF AskJoin
<1>4. ASSUME NEW b \in Brands, RoomLeave(s, b)
      PROVE  TasksGo
  BY <1>4, StartGoes DEF RoomLeave
<1>5. ASSUME NEW b \in Brands, Touch(s, b)
      PROVE  TasksGo
  BY <1>5, StartGoes DEF Touch
<1>6. ASSUME NEW b \in Brands, NEW status \in {"away", "online"}, AskStatus(s, b, status)
      PROVE  TasksGo
  BY <1>6, StartGoes DEF AskStatus
<1> QED  BY <1>1, <1>2, <1>3, <1>4, <1>5, <1>6 DEF Ask

LEMMA ReapGoes ==
  ASSUME TaskInv, NEW r \in Replicas, Reap(r)
  PROVE  TasksGo
<1>0. Sweep(r) \in Tasks
  BY TaskKinds
<1> SUFFICES ASSUME NEW x \in Pairs, StartSweep(r, x) \/ MarkIdle(r, x) \/ ReleaseIdle(r, x)
             PROVE  TasksGo
  BY DEF Reap
<1> QED  BY <1>0, StartGoes DEF StartSweep, MarkIdle, ReleaseIdle, Steps

LEMMA NextBrandGoes ==
  ASSUME TaskInv, NEW t \in Tasks, NEW b \in Brands, NextBrand(t, b)
  PROVE  TasksGo /\ SocketOf(t) \in Sockets
<1>1. /\ task[t] \in GoodTask /\ task \in [Tasks -> GoodTask] /\ task[t].pc = "idle"
  BY DEF TaskInv, NextBrand, Pc
<1>2. SocketOf(t) \in Sockets /\ <<b, Owner[SocketOf(t)]>> \in Pairs
  BY TaskKinds, OwnerTyped DEF TaskInv, NextBrand
<1>3. \A pc \in {"read", "drop"} :
        [task[t] EXCEPT !.pc = pc, !.at = <<b, Owner[SocketOf(t)]>>] \in GoodTask
  BY <1>1, <1>2, GoodMoves DEF Steps
<1> QED  BY <1>1, <1>2, <1>3 DEF NextBrand, TasksGo

LEMMA AbandonGoes ==
  ASSUME TaskInv, NEW T, Abandon(T)
  PROVE  TaskInv'
<1>1. TasksGo
  BY IdleIsGood DEF TaskInv, Abandon, TasksGo
<1>2. todo' \in [Tasks -> SUBSET Brands]
  BY DEF TaskInv, Abandon
<1>3. \A r \in Replicas : todo'[Sweep(r)] = {}
  BY TaskKinds DEF TaskInv, Abandon
<1> QED  BY <1>1, <1>2, <1>3 DEF TaskInv, TasksGo

(* The loops still to be made are of a request or of a disconnect.         *)
LEMMA LoopsKeep ==
  ASSUME TaskInv, NEW t \in Tasks, NEW left \in SUBSET Brands,
         todo' = [todo EXCEPT ![t] = left], t[1] # "sweep" \/ left = {}, TasksGo
  PROVE  TaskInv'
BY TaskKinds DEF TaskInv, TasksGo

LEMMA TaskStep ==
  ASSUME StateTyped, TaskInv, [Next]_vars
  PROVE  TaskInv'
<1>0. todo \in [Tasks -> SUBSET Brands]
  BY DEF TaskInv
<1>1. ASSUME TasksGo, UNCHANGED todo
      PROVE  TaskInv'
  BY <1>1 DEF TaskInv, TasksGo
<1>2. ASSUME NEW t \in Tasks, Step(t)
      PROVE  TaskInv'
  <2>1. CASE LeaveStep(t)
    BY <1>1, <2>1, LeaveStepGoes DEF LeaveStep, DropSocket, DeleteKey, CountSockets
  <2>2. CASE ForgetStep(t)
    BY <1>1, <2>2, ForgetStepGoes DEF ForgetStep, Claim, Untoggle, Unmark, CountMembers, Unlist
  <2>3. CASE ReadStatus(t) \/ Announce(t)
    BY <1>1, <2>3, TellingGoes DEF ReadStatus, Announce
  <2>4. ASSUME NEW b \in Brands, NextBrand(t, b)
        PROVE  TaskInv'
    <3>1. TasksGo /\ t[1] # "sweep"
      BY <2>4, NextBrandGoes, TaskKinds DEF NextBrand, TaskInv
    <3>2. todo[t] \ {b} \in SUBSET Brands
      BY <1>0
    <3> QED  BY <2>4, <3>1, <3>2, LoopsKeep DEF NextBrand
  <2>5. ASSUME NEW s \in Sockets, t = Req(s), RequestStep(s)
        PROVE  TaskInv'
    <3>1. TasksGo
      BY <2>5, RequestGoes
    <3>2. CASE Join(s)
      <4>1. /\ Bye(s) \in Tasks /\ Bye(s)[1] # "sweep" /\ At(t) \in Pairs
        BY <2>5, <3>2, TaskKinds DEF Join, TaskInv, GoodTask, Pc, At
      <4>2. todo[Bye(s)] \union {At(t)[1]} \in SUBSET Brands /\ todo[Bye(s)] \in SUBSET Brands
        BY <1>0, <4>1 DEF Pairs
      <4>3. \E left \in SUBSET Brands : todo' = [todo EXCEPT ![Bye(s)] = left]
        BY <2>5, <3>2, <4>2 DEF Join
      <4> QED  BY <3>1, <4>1, <4>3, LoopsKeep
    <3>3. CASE Beat(s)
      <4>1. {b \in rooms[s] : <<b, Owner[s]>> \notin members} \in SUBSET Brands
        BY DEF StateTyped
      <4>2. t[1] # "sweep"
        BY <2>5, TaskKinds
      <4> QED  BY <2>5, <3>1, <3>3, <4>1, <4>2, LoopsKeep DEF Beat
    <3>4. CASE SetAway(s) \/ SetOnline(s)
      BY <1>1, <3>1, <3>4 DEF SetAway, SetOnline
    <3> QED  BY <2>5, <3>2, <3>3, <3>4 DEF RequestStep
  <2>6. ASSUME NEW r \in Replicas, SweepStep(r)
        PROVE  TaskInv'
    <3>1. UNCHANGED todo
      BY <2>6 DEF SweepStep, ReadSockets, ReadKeys, DropDead
    <3> QED  BY <1>1, <2>6, <3>1, SweepGoes
  <2> QED  BY <1>2, <2>1, <2>2, <2>3, <2>4, <2>5, <2>6 DEF Step
<1>3. ASSUME NEW t \in Tasks, Fail(t)
      PROVE  TaskInv'
  BY <1>3, AbandonGoes DEF Fail
<1>4. ASSUME NEW s \in Sockets, Ask(s)
      PROVE  TaskInv'
  <2>1. CASE Disconnect(s)
    BY <1>4, <2>1, AskGoes, LoopsKeep, TaskKinds DEF Disconnect, StateTyped
  <2>2. CASE ~Disconnect(s)
    BY <1>1, <1>4, <2>2, AskGoes DEF Ask, AskBeat, AskJoin, RoomLeave, Touch, AskStatus
  <2> QED  BY <2>1, <2>2
<1>5. ASSUME NEW s \in Sockets, Expire(s)
      PROVE  TaskInv'
  BY <1>5 DEF Expire, TaskInv
<1>6. ASSUME NEW r \in Replicas, Reap(r)
      PROVE  TaskInv'
  BY <1>1, <1>6, ReapGoes DEF Reap, StartSweep, MarkIdle, ReleaseIdle
<1>7. ASSUME NEW r \in Replicas, Crash(r)
      PROVE  TaskInv'
  BY <1>7, AbandonGoes DEF Crash
<1>8. CASE UNCHANGED vars
  BY <1>8 DEF vars, TaskInv
<1> QED  BY <1>2, <1>3, <1>4, <1>5, <1>6, <1>7, <1>8 DEF Next

-----------------------------------------------------------------------------
(* The rest of the state.                                                  *)

LEMMA HappensTyped == events \in 0..MaxEvents /\ Happens => events' \in 0..MaxEvents
BY PresenceAssumption DEF Happens

LEMMA AtTyped ==
  ASSUME TaskInv, NEW t \in Tasks, Pc(t) \notin {"idle", "beat"}
  PROVE  At(t) \in Pairs /\ At(t)[1] \in Brands /\ task[t].say \in Statuses
BY DEF TaskInv, GoodTask, TaskType, Pc, At, Pairs

LEMMA OwedIsTyped ==
  ASSUME TaskInv, NEW T \in SUBSET Tasks
  PROVE  OwedBy(T) \subseteq Pairs
<1>1. ASSUME NEW t \in T, Pending(t)
      PROVE  At(t) \in Pairs
  BY <1>1 DEF Pending, Pc, At, TaskInv, GoodTask
<1>2. ASSUME NEW t \in T \intersect ({"request"} \X Sockets)
      PROVE  todo[t] \X {Owner[SocketOf(t)]} \subseteq Pairs
  <2>1. t \in Tasks /\ SocketOf(t) \in Sockets
    BY <1>2 DEF Tasks, SocketOf
  <2> QED  BY <2>1, OwnerTyped DEF TaskInv
<1> QED  BY <1>1, <1>2 DEF OwedBy

LEMMA StateStep ==
  ASSUME StateTyped, TaskInv, [Next]_vars
  PROVE  StateTyped'
<1> USE DEF redis, sockets, history, bounds
<1>1. ASSUME NEW t \in Tasks, Step(t)
      PROVE  StateTyped'
  <2>1. CASE LeaveStep(t)
    BY <2>1 DEF LeaveStep, DropSocket, DeleteKey, CountSockets, StateTyped
  <2>2. CASE ForgetStep(t)
    <3>1. CASE Claim(t)
      <4>1. owed' \in [Pairs -> Int]
        <5>1. At(t) \in Pairs /\ owed \in [Pairs -> Int]
          BY <3>1, AtTyped DEF Claim, StateTyped
        <5>2. \E n \in Int : owed' = [owed EXCEPT ![At(t)] = n]
          <6>1. (IF At(t) \in members THEN owed[At(t)] + 1 ELSE owed[At(t)]) \in Int
            BY <5>1
          <6> QED  BY <3>1, <6>1 DEF Claim
        <5> QED  BY <5>1, <5>2
      <4> QED  BY <3>1, <4>1 DEF Claim, StateTyped
    <3>2. CASE Untoggle(t) \/ Unmark(t)
      <4>1. At(t) \in Pairs
        BY <3>2, AtTyped DEF Untoggle, Unmark
      <4> QED  BY <3>2, <4>1 DEF Untoggle, Unmark, Unannounced, StateTyped
    <3>3. CASE CountMembers(t) \/ Unlist(t)
      BY <3>3 DEF CountMembers, Unlist, StateTyped
    <3> QED  BY <2>2, <3>1, <3>2, <3>3 DEF ForgetStep
  <2>3. CASE ReadStatus(t)
    BY <2>3 DEF ReadStatus, StateTyped
  <2>4. CASE Announce(t)
    <3>1. At(t) \in Pairs /\ task[t].say \in Statuses
      BY <2>4, AtTyped DEF Announce
    <3>2. heard' \in [Pairs -> Statuses] /\ owed' \in [Pairs -> Int] /\ raced' \subseteq Pairs
      BY <2>4, <3>1 DEF Announce, StateTyped
    <3> QED  BY <2>4, <3>2 DEF Announce, StateTyped
  <2>5. ASSUME NEW b \in Brands, NextBrand(t, b)
        PROVE  StateTyped'
    BY <2>5 DEF NextBrand, StateTyped
  <2>6. ASSUME NEW s \in Sockets, t = Req(s), RequestStep(s)
        PROVE  StateTyped'
    <3>1. CASE Join(s)
      <4>1. At(t) \in Pairs /\ At(t)[1] \in Brands
        BY <2>6, <3>1, AtTyped DEF Join
      <4>2. rooms' \in [Sockets -> SUBSET Brands]
        BY <2>6, <3>1, <4>1 DEF Join, StateTyped
      <4>3. socks' \subseteq Brands \X Sockets
        BY <2>6, <3>1, <4>1 DEF Join, StateTyped
      <4>4. listed' \subseteq Brands /\ members' \subseteq Pairs /\ live' \subseteq Sockets
        BY <2>6, <3>1, <4>1 DEF Join, StateTyped
      <4> QED  BY <3>1, <4>2, <4>3, <4>4 DEF Join, StateTyped
    <3>2. CASE Beat(s)
      <4>1. rooms[s] \X {Owner[s]} \subseteq Pairs /\ rooms[s] \X {s} \subseteq Brands \X Sockets
            /\ rooms[s] \subseteq Brands
        BY OwnerTyped DEF StateTyped, Pairs
      <4> QED  BY <3>2, <4>1 DEF Beat, StateTyped
    <3>3. CASE SetAway(s) \/ SetOnline(s)
      <4>1. At(t) \in Pairs
        BY <2>6, <3>3, AtTyped DEF SetAway, SetOnline
      <4> QED  BY <2>6, <3>3, <4>1 DEF SetAway, SetOnline, StateTyped
    <3> QED  BY <2>6, <3>1, <3>2, <3>3 DEF RequestStep
  <2>7. ASSUME NEW r \in Replicas, SweepStep(r)
        PROVE  StateTyped'
    BY <2>7 DEF SweepStep, ReadSockets, ReadKeys, DropDead, StateTyped
  <2> QED  BY <1>1, <2>1, <2>2, <2>3, <2>4, <2>5, <2>6, <2>7 DEF Step
<1>2. ASSUME NEW T \in SUBSET Tasks, Abandon(T), conn' \in [Sockets -> {"open", "gone"}]
      PROVE  StateTyped'
  <2>1. OwedBy(T) \subseteq Pairs
    BY OwedIsTyped
  <2> QED  BY <1>2, <2>1, HappensTyped DEF Abandon, StateTyped
<1>3. ASSUME NEW t \in Tasks, Fail(t)
      PROVE  StateTyped'
  BY <1>2, <1>3 DEF Fail, StateTyped
<1>4. ASSUME NEW s \in Sockets, Ask(s)
      PROVE  StateTyped'
  <2>0. \A b \in Brands : <<b, Owner[s]>> \in Pairs
    BY OwnerTyped
  <2>1. CASE Disconnect(s)
    BY <2>1 DEF Disconnect, StateTyped
  <2>2. CASE AskBeat(s)
    BY <2>2 DEF AskBeat, StateTyped
  <2>3. ASSUME NEW b \in Brands, AskJoin(s, b)
        PROVE  StateTyped'
    <3>1. joins' \in 0..MaxJoins
      BY <2>3, PresenceAssumption DEF AskJoin, StateTyped
    <3> QED  BY <2>3, <3>1 DEF AskJoin, StateTyped
  <2>4. ASSUME NEW b \in Brands, RoomLeave(s, b)
        PROVE  StateTyped'
    BY <2>4 DEF RoomLeave, StateTyped
  <2>5. ASSUME NEW b \in Brands, Touch(s, b)
        PROVE  StateTyped'
    BY <2>5 DEF Touch, StateTyped
  <2>6. ASSUME NEW b \in Brands, NEW status \in {"away", "online"}, AskStatus(s, b, status)
        PROVE  StateTyped'
    BY <2>6, HappensTyped DEF AskStatus, StateTyped
  <2> QED  BY <1>4, <2>1, <2>2, <2>3, <2>4, <2>5, <2>6 DEF Ask
<1>5. ASSUME NEW s \in Sockets, Expire(s)
      PROVE  StateTyped'
  <2>1. events' \in 0..MaxEvents
    BY <1>5, HappensTyped DEF Expire, StateTyped
  <2> QED  BY <1>5, <2>1 DEF Expire, StateTyped
<1>6. ASSUME NEW r \in Replicas, NEW x \in Pairs,
             StartSweep(r, x) \/ MarkIdle(r, x) \/ ReleaseIdle(r, x)
      PROVE  StateTyped'
  <2>1. CASE MarkIdle(r, x)
    BY <2>1, HappensTyped DEF MarkIdle, StateTyped
  <2>2. CASE StartSweep(r, x) \/ ReleaseIdle(r, x)
    BY <2>2 DEF StartSweep, ReleaseIdle, StateTyped
  <2> QED  BY <1>6, <2>1, <2>2
<1>7. ASSUME NEW r \in Replicas, Crash(r)
      PROVE  StateTyped'
  <2> DEFINE T == {t \in Tasks : IF t[1] = "sweep" THEN t[2] = r ELSE Home[t[2]] = r}
  <2>1. T \in SUBSET Tasks /\ Abandon(T)
    BY <1>7 DEF Crash
  <2>2. conn' \in [Sockets -> {"open", "gone"}]
    BY <1>7 DEF Crash, StateTyped
  <2> QED  BY <1>2, <2>1, <2>2
<1>8. CASE UNCHANGED vars
  BY <1>8 DEF vars, StateTyped
<1> QED  BY <1>1, <1>3, <1>4, <1>5, <1>6, <1>7, <1>8 DEF Next, Reap

-----------------------------------------------------------------------------
(* Tasks that owe nothing.                                                 *)

(* t alone moves; it owes no announcement, and has not won a removal.      *)
Steady(t) ==
  /\ \A u \in Tasks \ {t} : task'[u] = task[u]
  /\ ~Pending(t) /\ ~task'[t].won

LEMMA LeaveIsSteady ==
  ASSUME TaskInv, NEW t \in Tasks, LeaveStep(t)
  PROVE  Steady(t)
<1>1. task \in [Tasks -> GoodTask] /\ task[t] \in GoodTask /\ ~Idle.won
  BY IdleIsGood DEF TaskInv
<1>2. Pc(t) \in {"drop", "unlive", "count"}
  BY DEF LeaveStep, DropSocket, DeleteKey, CountSockets
<1>3. ~Pending(t)
  BY <1>1, <1>2 DEF Pending, Pc, GoodTask
<1>4. (\E pc : Goes(t, pc)) \/ Ends(t)
  BY DEF LeaveStep, DropSocket, DeleteKey, CountSockets
<1>5. \A u \in Tasks \ {t} : task'[u] = task[u]
  BY <1>1, <1>4 DEF Goes, Ends
<1>6. ~task'[t].won
  BY <1>1, <1>3, <1>4 DEF Goes, Ends, Pending, GoodTask, TaskType
<1> QED  BY <1>3, <1>5, <1>6 DEF Steady

LEMMA RequestIsSteady ==
  ASSUME TaskInv, NEW s \in Sockets, RequestStep(s)
  PROVE  Steady(Req(s))
<1> DEFINE t == Req(s)
<1>1. /\ t \in Tasks /\ task \in [Tasks -> GoodTask] /\ task[t] \in GoodTask /\ ~Idle.won
  BY IdleIsGood, TaskKinds DEF TaskInv
<1>2. Pc(t) \in {"join", "beat", "away", "online"}
  BY DEF RequestStep, Join, Beat, SetAway, SetOnline
<1>3. ~Pending(t)
  BY <1>1, <1>2 DEF Pending, Pc, GoodTask
<1>4. Goes(t, "read") \/ Ends(t) \/ Tells(t, "away") \/ Tells(t, "online")
  BY DEF RequestStep, Join, Beat, SetAway, SetOnline
<1>5. \A u \in Tasks \ {t} : task'[u] = task[u]
  BY <1>1, <1>4 DEF Goes, Ends, Tells
<1>6. ~task'[t].won
  BY <1>1, <1>3, <1>4 DEF Goes, Ends, Tells, Pending, GoodTask, TaskType
<1> QED  BY <1>3, <1>5, <1>6 DEF Steady

LEMMA SweepIsSteady ==
  ASSUME TaskInv, NEW r \in Replicas, SweepStep(r)
  PROVE  Steady(Sweep(r))
<1> DEFINE t == Sweep(r)
<1>1. /\ t \in Tasks /\ task \in [Tasks -> GoodTask] /\ task[t] \in GoodTask /\ ~Idle.won
  BY IdleIsGood, TaskKinds DEF TaskInv
<1>2. Pc(t) \in {"sockets", "keys", "last", "some"}
  BY DEF SweepStep, ReadSockets, ReadKeys, DropDead
<1>3. ~Pending(t)
  BY <1>1, <1>2 DEF Pending, Pc, GoodTask
<1>4. Ends(t) \/ \E pc, seen : task' = [task EXCEPT ![t].pc = pc, ![t].seen = seen]
  <2>1. CASE ReadSockets(r)
    BY <2>1 DEF ReadSockets
  <2>2. CASE ReadKeys(r)
    BY <2>2 DEF ReadKeys
  <2>3. CASE DropDead(r)
    BY <2>3 DEF DropDead
  <2> QED  BY <2>1, <2>2, <2>3 DEF SweepStep
<1>5. \A u \in Tasks \ {t} : task'[u] = task[u]
  BY <1>1, <1>4 DEF Ends
<1>6. ~task'[t].won
  <2>1. CASE Ends(t)
    BY <1>1, <2>1 DEF Ends
  <2>2. ASSUME NEW pc, NEW seen, task' = [task EXCEPT ![t].pc = pc, ![t].seen = seen]
        PROVE  ~task'[t].won
    BY <1>1, <1>3, <2>2 DEF Pending, GoodTask, TaskType
  <2> QED  BY <1>4, <2>1, <2>2
<1> QED  BY <1>3, <1>5, <1>6 DEF Steady

LEMMA StartIsSteady ==
  ASSUME TaskInv, NEW t \in Tasks, NEW x, NEW pc, Starts(t, x, pc)
  PROVE  Steady(t) /\ task'[t].pc = pc /\ task'[t].at = x
<1>1. /\ task \in [Tasks -> GoodTask] /\ task[t] \in GoodTask /\ task[t].pc = "idle"
  BY DEF TaskInv, Starts, Pc
<1>2. ~Pending(t)
  BY <1>1 DEF Pending, Pc, GoodTask
<1> QED  BY <1>1, <1>2 DEF Starts, Steady, Pending, GoodTask, TaskType

LEMMA NextBrandIsSteady ==
  ASSUME TaskInv, NEW t \in Tasks, NEW b \in Brands, NextBrand(t, b)
  PROVE  /\ Steady(t) /\ task'[t].at = <<b, Owner[SocketOf(t)]>>
         /\ t[1] = "request" => task'[t].pc = "read"
<1>1. /\ task \in [Tasks -> GoodTask] /\ task[t] \in GoodTask /\ task[t].pc = "idle"
  BY DEF TaskInv, NextBrand, Pc
<1>2. ~Pending(t)
  BY <1>1 DEF Pending, Pc, GoodTask
<1>3. PICK pc : /\ task' = [task EXCEPT ![t].pc = pc, ![t].at = <<b, Owner[SocketOf(t)]>>]
                /\ t[1] = "request" => pc = "read"
  BY TaskKinds DEF NextBrand
<1> QED  BY <1>1, <1>2, <1>3 DEF Steady, Pending, GoodTask, TaskType

(* Who asks or reaps starts a task of its own, or none.                    *)
LEMMA AskIsSteady ==
  ASSUME TaskInv, NEW s \in Sockets, Ask(s)
  PROVE  UNCHANGED task \/ Steady(Req(s))
<1>1. UNCHANGED task \/ \E x, pc : Starts(Req(s), x, pc)
  <2>1. CASE Disconnect(s) \/ AskBeat(s)
    BY <2>1 DEF Disconnect, AskBeat
  <2>2. ASSUME NEW b \in Brands, AskJoin(s, b) \/ RoomLeave(s, b) \/ Touch(s, b)
        PROVE  \E x, pc : Starts(Req(s), x, pc)
    BY <2>2 DEF AskJoin, RoomLeave, Touch
  <2>3. ASSUME NEW b \in Brands, NEW status \in {"away", "online"}, AskStatus(s, b, status)
        PROVE  \E x, pc : Starts(Req(s), x, pc)
    BY <2>3 DEF AskStatus
  <2> QED  BY <2>1, <2>2, <2>3 DEF Ask
<1> QED  BY <1>1, StartIsSteady, TaskKinds

LEMMA ReapIsSteady ==
  ASSUME TaskInv, NEW r \in Replicas, Reap(r)
  PROVE  Steady(Sweep(r))
<1>1. \E x, pc : Starts(Sweep(r), x, pc)
  BY DEF Reap, StartSweep, MarkIdle, ReleaseIdle
<1> QED  BY <1>1, StartIsSteady, TaskKinds

(* What the steps that are no removal and no announcement have in common.  *)
LEMMA SteadySteps ==
  ASSUME TaskInv, [Next]_vars,
         ~\E t \in Tasks : ForgetStep(t) \/ ReadStatus(t) \/ Announce(t) \/ Fail(t),
         ~\E r \in Replicas : Crash(r)
  PROVE  /\ UNCHANGED history
         /\ UNCHANGED task \/ \E t \in Tasks : Steady(t)
         /\ idle' \ members' \subseteq idle \ members
         /\ members \subseteq members'
<1> DEFINE NobodyGoes == idle' \ members' \subseteq idle \ members /\ members \subseteq members'
<1> USE DEF redis, sockets, history
<1>1. ASSUME NEW t \in Tasks, Step(t)
      PROVE  UNCHANGED history /\ Steady(t) /\ NobodyGoes
  <2>1. CASE LeaveStep(t)
    BY <2>1, LeaveIsSteady DEF LeaveStep, DropSocket, DeleteKey, CountSockets
  <2>2. ASSUME NEW b \in Brands, NextBrand(t, b)
        PROVE  UNCHANGED history /\ Steady(t) /\ NobodyGoes
    BY <2>2, NextBrandIsSteady DEF NextBrand
  <2>3. ASSUME NEW s \in Sockets, t = Req(s), RequestStep(s)
        PROVE  UNCHANGED history /\ Steady(t) /\ NobodyGoes
    BY <2>3, RequestIsSteady DEF RequestStep, Join, Beat, SetAway, SetOnline
  <2>4. ASSUME NEW r \in Replicas, t = Sweep(r), SweepStep(r)
        PROVE  UNCHANGED history /\ Steady(t) /\ NobodyGoes
    BY <2>4, SweepIsSteady DEF SweepStep, ReadSockets, ReadKeys, DropDead
  <2> QED  BY <1>1, <2>1, <2>2, <2>3, <2>4 DEF Step
<1>2. ASSUME NEW s \in Sockets, Ask(s)
      PROVE  UNCHANGED history /\ NobodyGoes
  BY <1>2 DEF Ask, Disconnect, AskBeat, AskJoin, RoomLeave, Touch, AskStatus
<1>3. ASSUME NEW s \in Sockets, Expire(s)
      PROVE  UNCHANGED <<history, task>> /\ NobodyGoes
  BY <1>3 DEF Expire
<1>4. ASSUME NEW r \in Replicas, Reap(r)
      PROVE  UNCHANGED history /\ NobodyGoes
  BY <1>4 DEF Reap, StartSweep, MarkIdle, ReleaseIdle
<1>5. CASE UNCHANGED vars
  BY <1>5 DEF vars
<1> QED  BY <1>1, <1>2, <1>3, <1>4, <1>5, AskIsSteady, ReapIsSteady, TaskKinds DEF Next

-----------------------------------------------------------------------------
(* Departures.                                                             *)

(* Nobody wins, and nobody announces a departure.                          *)
LEMMA WinnersShrink ==
  ASSUME WinnersInv, UNCHANGED owed, StateTyped,
         \A t \in Tasks : task'[t].won => task[t].won /\ task'[t].at = task[t].at
  PROVE  WinnersInv'
<1> SUFFICES ASSUME NEW x \in Pairs
             PROVE  IsFiniteSet(Winners(x)') /\ Cardinality(Winners(x)') <= owed'[x]
  BY DEF WinnersInv
<1>1. Winners(x)' \subseteq Winners(x)
  BY DEF Winners, At
<1>2. IsFiniteSet(Winners(x)) /\ Cardinality(Winners(x)) <= owed[x] /\ owed[x] \in Int
  BY DEF WinnersInv, StateTyped
<1>3. /\ IsFiniteSet(Winners(x)') /\ Cardinality(Winners(x)') <= Cardinality(Winners(x))
      /\ Cardinality(Winners(x)') \in Nat /\ Cardinality(Winners(x)) \in Nat
  BY <1>1, <1>2, FS_Subset, FS_CardinalityType
<1> QED  BY <1>2, <1>3

LEMMA RemovalKeepsItsWinner ==
  ASSUME TaskInv, NEW t \in Tasks,
         Untoggle(t) \/ Unmark(t) \/ CountMembers(t) \/ Unlist(t)
  PROVE  /\ \A u \in Tasks \ {t} : task'[u] = task[u]
         /\ task'[t].won => task[t].won /\ task'[t].at = task[t].at
         /\ task[t].won => task'[t].won /\ task'[t].at = task[t].at
         /\ UNCHANGED <<owed, todo, heard, members>>
         /\ Untoggle(t) => task'[t].pc = "unmark"
         /\ ~Untoggle(t) /\ ~Unmark(t) => ~Removing(t)
<1>1. task \in [Tasks -> GoodTask] /\ task[t] \in TaskType /\ ~Idle.won
  BY IdleIsGood DEF TaskInv, GoodTask
<1>2. CASE Untoggle(t)
  BY <1>1, <1>2 DEF Untoggle, Goes, TaskType
<1>3. CASE Unmark(t)
  <2>1. ~Untoggle(t)
    BY <1>3 DEF Untoggle, Unmark
  <2> QED  BY <1>1, <1>3, <2>1 DEF Unmark, Goes, TaskType
<1>4. CASE CountMembers(t) \/ Unlist(t)
  <2>1. UNCHANGED <<owed, todo, heard, members>> /\ ~Removing(t)
    BY <1>4 DEF CountMembers, Unlist, redis, history, Removing
  <2>2. \/ Goes(t, "unlist")
        \/ task[t].won /\ Tells(t, "offline")
        \/ ~task[t].won /\ Ends(t)
    BY <1>4 DEF CountMembers, Unlist, Forgotten
  <2>3. CASE Goes(t, "unlist")
    BY <1>1, <1>4, <2>1, <2>3 DEF Goes, TaskType, CountMembers, Unlist, Untoggle, Unmark
  <2>4. CASE task[t].won /\ Tells(t, "offline")
    BY <1>1, <1>4, <2>1, <2>4 DEF Tells, TaskType, CountMembers, Unlist, Untoggle, Unmark
  <2>5. CASE ~task[t].won /\ Ends(t)
    BY <1>1, <1>4, <2>1, <2>5 DEF Ends, TaskType, CountMembers, Unlist, Untoggle, Unmark
  <2> QED  BY <2>2, <2>3, <2>4, <2>5
<1> QED  BY <1>2, <1>3, <1>4

(* Whoever removes the member has won, and owes one announcement more.     *)
LEMMA ClaimMoves ==
  ASSUME TaskInv, NEW t \in Tasks, Claim(t)
  PROVE  /\ \A u \in Tasks \ {t} : task'[u] = task[u]
         /\ ~task[t].won /\ ~Pending(t) /\ task'[t].at = At(t) /\ task'[t].pc = "untoggle"
         /\ task'[t].won <=> At(t) \in members
<1>1. task \in [Tasks -> GoodTask] /\ task[t] \in GoodTask /\ task[t].pc = "claim"
  BY DEF TaskInv, Claim, Pc
<1>2. ~task[t].won /\ ~Pending(t)
  BY <1>1 DEF GoodTask, Pending, Pc
<1>3. CASE At(t) \in members
  <2>1. (At(t) \in members) = TRUE
    BY <1>3
  <2>2. task' = [task EXCEPT ![t].pc = "untoggle", ![t].won = TRUE]
    BY <2>1 DEF Claim
  <2> QED  BY <1>1, <1>2, <1>3, <2>2 DEF GoodTask, TaskType, At
<1>4. CASE At(t) \notin members
  <2>1. (At(t) \in members) = FALSE
    BY <1>4
  <2>2. task' = [task EXCEPT ![t].pc = "untoggle", ![t].won = FALSE]
    BY <2>1 DEF Claim
  <2> QED  BY <1>1, <1>2, <1>4, <2>2 DEF GoodTask, TaskType, At
<1> QED  BY <1>3, <1>4

LEMMA ClaimWins ==
  ASSUME StateTyped, TaskInv, WinnersInv, NEW t \in Tasks, Claim(t)
  PROVE  WinnersInv'
<1>1. CASE At(t) \notin members
  <2>1. UNCHANGED owed
    BY <1>1 DEF Claim, StateTyped
  <2> QED  BY <1>1, <2>1, ClaimMoves, WinnersShrink
<1>2. CASE At(t) \in members
  <2> SUFFICES ASSUME NEW x \in Pairs
               PROVE  IsFiniteSet(Winners(x)') /\ Cardinality(Winners(x)') <= owed'[x]
    BY DEF WinnersInv
  <2>1. /\ IsFiniteSet(Winners(x)) /\ Cardinality(Winners(x)) <= owed[x] /\ owed[x] \in Int
        /\ Cardinality(Winners(x)) \in Nat
    BY FS_CardinalityType DEF WinnersInv, StateTyped
  <2>2. CASE x = At(t)
    <3>1. Winners(x)' = Winners(x) \union {t} /\ t \notin Winners(x)
      BY <1>2, <2>2, ClaimMoves DEF Winners, At
    <3>2. IsFiniteSet(Winners(x)') /\ Cardinality(Winners(x)') = Cardinality(Winners(x)) + 1
      BY <2>1, <3>1, FS_AddElement
    <3>3. owed'[x] = owed[x] + 1
      BY <1>2, <2>2 DEF Claim, StateTyped
    <3> QED  BY <2>1, <3>2, <3>3
  <2>3. CASE x # At(t)
    <3>1. Winners(x)' = Winners(x)
      BY <2>3, ClaimMoves DEF Winners, At
    <3>2. owed'[x] = owed[x]
      BY <2>3 DEF Claim, StateTyped
    <3> QED  BY <2>1, <3>1, <3>2
  <2> QED  BY <2>2, <2>3
<1> QED  BY <1>1, <1>2

LEMMA AnnounceMoves ==
  ASSUME TaskInv, NEW t \in Tasks, Announce(t)
  PROVE  /\ \A u \in Tasks \ {t} : task'[u] = task[u]
         /\ ~task'[t].won /\ task'[t].pc = "idle" /\ ~Removing(t)
BY IdleIsGood DEF TaskInv, Announce, Ends, Removing

LEMMA AnnounceEnds ==
  ASSUME StateTyped, TaskInv, WinnersInv, NEW t \in Tasks, Announce(t)
  PROVE  WinnersInv'
<1>1. CASE ~Departs(t)
  <2>1. UNCHANGED owed
    BY <1>1 DEF Announce, StateTyped
  <2> QED  BY <2>1, AnnounceMoves, WinnersShrink
<1>2. CASE Departs(t)
  <2> SUFFICES ASSUME NEW x \in Pairs
               PROVE  IsFiniteSet(Winners(x)') /\ Cardinality(Winners(x)') <= owed'[x]
    BY DEF WinnersInv
  <2>1. /\ IsFiniteSet(Winners(x)) /\ Cardinality(Winners(x)) <= owed[x] /\ owed[x] \in Int
        /\ Cardinality(Winners(x)) \in Nat
    BY FS_CardinalityType DEF WinnersInv, StateTyped
  <2>2. CASE x = At(t)
    <3>1. Winners(x)' = Winners(x) \ {t} /\ t \in Winners(x)
      BY <1>2, <2>2, AnnounceMoves DEF Winners, At, Departs
    <3>2. IsFiniteSet(Winners(x)') /\ Cardinality(Winners(x)') = Cardinality(Winners(x)) - 1
      BY <2>1, <3>1, FS_RemoveElement
    <3>3. owed'[x] = owed[x] - 1
      BY <1>2, <2>2 DEF Announce, StateTyped
    <3> QED  BY <2>1, <3>2, <3>3
  <2>3. CASE x # At(t)
    <3>1. Winners(x)' = Winners(x) /\ owed'[x] = owed[x]
      BY <2>3, AnnounceMoves DEF Winners, At, Announce, StateTyped
    <3> QED  BY <2>1, <3>1
  <2> QED  BY <2>2, <2>3
<1> QED  BY <1>1, <1>2

LEMMA ReadIsQuiet ==
  ASSUME TaskInv, NEW t \in Tasks, ReadStatus(t)
  PROVE  /\ \A u \in Tasks \ {t} : task'[u] = task[u]
         /\ ~task[t].won /\ ~task'[t].won /\ ~Removing(t)
         /\ task'[t].at = task[t].at /\ task'[t].pc = "tell"
<1>1. task \in [Tasks -> GoodTask] /\ task[t] \in GoodTask /\ task[t].pc = "read"
  BY DEF TaskInv, ReadStatus, Pc
<1> QED  BY <1>1 DEF GoodTask, TaskType, ReadStatus, Tells, Removing, Pc

LEMMA WinnersStep ==
  ASSUME StateTyped, TaskInv, WinnersInv, [Next]_vars
  PROVE  WinnersInv'
<1>1. ASSUME NEW t \in Tasks, Claim(t) \/ Announce(t)
      PROVE  WinnersInv'
  BY <1>1, ClaimWins, AnnounceEnds
<1>2. ASSUME NEW t \in Tasks, Untoggle(t) \/ Unmark(t) \/ CountMembers(t) \/ Unlist(t)
      PROVE  WinnersInv'
  BY <1>2, RemovalKeepsItsWinner, WinnersShrink
<1>3. ASSUME NEW t \in Tasks, ReadStatus(t)
      PROVE  WinnersInv'
  BY <1>3, ReadIsQuiet, WinnersShrink DEF ReadStatus, history
<1>4. ASSUME NEW T, Abandon(T)
      PROVE  WinnersInv'
  BY <1>4, IdleIsGood, WinnersShrink DEF Abandon
<1>5. ASSUME UNCHANGED history, UNCHANGED task \/ \E t \in Tasks : Steady(t)
      PROVE  WinnersInv'
  BY <1>5, WinnersShrink DEF Steady, history
<1> QED  BY <1>1, <1>2, <1>3, <1>4, <1>5, SteadySteps DEF Fail, Crash, ForgetStep

-----------------------------------------------------------------------------
(* Idle marks.                                                             *)

LEMMA MarksStay ==
  ASSUME MarksInv, idle' \ members' \subseteq idle \ members, raced \subseteq raced',
         \A t \in Tasks : Removing(t) /\ task[t].won => task'[t] = task[t]
  PROVE  MarksInv'
BY DEF MarksInv, Removing, Pc, At

LEMMA MarksStep ==
  ASSUME StateTyped, TaskInv, MarksInv, [Next]_vars
  PROVE  MarksInv'
<1>1. ASSUME NEW t \in Tasks, Claim(t)
      PROVE  MarksInv'
  <2>1. UNCHANGED <<idle, raced>> /\ members' = members \ {At(t)} /\ ~Removing(t)
    BY <1>1 DEF Claim, Removing
  <2>2. CASE At(t) \notin members
    BY <1>1, <2>1, <2>2, ClaimMoves, MarksStay
  <2>3. CASE At(t) \in members
    <3> SUFFICES ASSUME NEW x \in idle' \ members', x \notin raced'
                 PROVE  \E u \in Tasks : At(u)' = x /\ Removing(u)' /\ task'[u].won
      BY DEF MarksInv
    <3>1. CASE x = At(t)
      BY <1>1, <2>3, <3>1, ClaimMoves DEF Removing, Pc, At
    <3>2. CASE x # At(t)
      <4>1. PICK u \in Tasks : At(u) = x /\ Removing(u) /\ task[u].won
        BY <2>1, <3>2 DEF MarksInv
      <4>2. task'[u] = task[u]
        BY <1>1, <2>1, <4>1, ClaimMoves
      <4> QED  BY <4>1, <4>2 DEF Removing, Pc, At
    <3> QED  BY <3>1, <3>2
  <2> QED  BY <2>2, <2>3
<1>2. ASSUME NEW t \in Tasks, Untoggle(t)
      PROVE  MarksInv'
  <2>1. UNCHANGED <<idle, members>> /\ raced \subseteq raced'
    BY <1>2 DEF Untoggle, Unannounced
  <2>2. /\ \A u \in Tasks \ {t} : task'[u] = task[u]
        /\ task[t].won => task'[t].won /\ task'[t].at = task[t].at
        /\ task'[t].pc = "unmark"
    BY <1>2, RemovalKeepsItsWinner
  <2> SUFFICES ASSUME NEW x \in idle' \ members', x \notin raced'
               PROVE  \E u \in Tasks : At(u)' = x /\ Removing(u)' /\ task'[u].won
    BY DEF MarksInv
  <2>3. PICK u \in Tasks : At(u) = x /\ Removing(u) /\ task[u].won
    BY <2>1 DEF MarksInv
  <2> QED  BY <2>2, <2>3 DEF Removing, Pc, At
<1>3. ASSUME NEW t \in Tasks, Unmark(t)
      PROVE  MarksInv'
  <2>1. idle' = idle \ {At(t)} /\ UNCHANGED members /\ raced \subseteq raced'
    BY <1>3 DEF Unmark, Unannounced
  <2>2. \A u \in Tasks \ {t} : task'[u] = task[u]
    BY <1>3, RemovalKeepsItsWinner
  <2> SUFFICES ASSUME NEW x \in idle' \ members', x \notin raced'
               PROVE  \E u \in Tasks : At(u)' = x /\ Removing(u)' /\ task'[u].won
    BY DEF MarksInv
  <2>3. PICK u \in Tasks : At(u) = x /\ Removing(u) /\ task[u].won
    BY <2>1 DEF MarksInv
  <2>4. u # t
    BY <2>1, <2>3
  <2> QED  BY <2>2, <2>3, <2>4 DEF Removing, Pc, At
<1>4. ASSUME NEW t \in Tasks, CountMembers(t) \/ Unlist(t)
      PROVE  MarksInv'
  <2>1. UNCHANGED <<idle, members, raced>> /\ ~Removing(t)
    BY <1>4 DEF CountMembers, Unlist, redis, history, Removing
  <2>2. \A u \in Tasks \ {t} : task'[u] = task[u]
    BY <1>4, RemovalKeepsItsWinner
  <2> QED  BY <2>1, <2>2, MarksStay
<1>5. ASSUME NEW t \in Tasks, ReadStatus(t)
      PROVE  MarksInv'
  <2>1. UNCHANGED <<idle, members, raced>>
    BY <1>5 DEF ReadStatus, redis, history
  <2> QED  BY <1>5, <2>1, ReadIsQuiet, MarksStay
<1>6. ASSUME NEW t \in Tasks, Announce(t)
      PROVE  MarksInv'
  <2>1. UNCHANGED <<idle, members>> /\ raced \intersect (idle \ members) \subseteq raced'
    BY <1>6 DEF Announce, redis
  <2> QED  BY <1>6, <2>1, AnnounceMoves DEF MarksInv, Removing, Pc, At
<1>7. ASSUME NEW T, Abandon(T)
      PROVE  MarksInv'
  <2> SUFFICES ASSUME NEW x \in idle' \ members', x \notin raced'
               PROVE  \E u \in Tasks : At(u)' = x /\ Removing(u)' /\ task'[u].won
    BY DEF MarksInv
  <2>1. UNCHANGED <<idle, members>> /\ raced' = raced \union OwedBy(T)
    BY <1>7 DEF Abandon, redis
  <2>2. PICK u \in Tasks : At(u) = x /\ Removing(u) /\ task[u].won
    BY <2>1 DEF MarksInv
  <2>3. u \notin T
    BY <2>1, <2>2 DEF OwedBy, Pending
  <2>4. task'[u] = task[u]
    BY <1>7, <2>3 DEF Abandon
  <2> QED  BY <2>2, <2>4 DEF Removing, Pc, At
<1>8. ASSUME UNCHANGED history, UNCHANGED task \/ \E t \in Tasks : Steady(t),
             idle' \ members' \subseteq idle \ members
      PROVE  MarksInv'
  BY <1>8, MarksStay DEF Steady, Pending, history
<1> QED  BY <1>1, <1>2, <1>3, <1>4, <1>5, <1>6, <1>7, <1>8, SteadySteps
         DEF Fail, Crash, ForgetStep

-----------------------------------------------------------------------------
(* Heartbeats.                                                             *)

(* Only a heartbeat that is asked for beats.                               *)
LEMMA StepsBeatNot ==
  ASSUME TaskInv, NEW t \in Tasks, Step(t)
  PROVE  task'[t].pc # "beat" /\ \A u \in Tasks \ {t} : task'[u] = task[u]
<1>1. task \in [Tasks -> GoodTask] /\ task[t] \in TaskType /\ Idle.pc = "idle"
  BY IdleIsGood DEF TaskInv, GoodTask
<1>2. ASSUME NEW pc, Goes(t, pc), pc # "beat"
      PROVE  task'[t].pc # "beat" /\ \A u \in Tasks \ {t} : task'[u] = task[u]
  BY <1>1, <1>2 DEF Goes, TaskType
<1>3. ASSUME Ends(t)
      PROVE  task'[t].pc # "beat" /\ \A u \in Tasks \ {t} : task'[u] = task[u]
  BY <1>1, <1>3 DEF Ends
<1>4. ASSUME NEW say, Tells(t, say)
      PROVE  task'[t].pc # "beat" /\ \A u \in Tasks \ {t} : task'[u] = task[u]
  BY <1>1, <1>4 DEF Tells, TaskType
<1>5. ASSUME NEW pc, NEW seen, task' = [task EXCEPT ![t].pc = pc, ![t].seen = seen], pc # "beat"
      PROVE  task'[t].pc # "beat" /\ \A u \in Tasks \ {t} : task'[u] = task[u]
  BY <1>1, <1>5 DEF TaskType
<1>6. CASE LeaveStep(t)
  BY <1>2, <1>3, <1>6 DEF LeaveStep, DropSocket, DeleteKey, CountSockets
<1>7. CASE ForgetStep(t)
  <2>1. CASE Claim(t)
    BY <2>1, ClaimMoves
  <2>2. CASE Untoggle(t) \/ Unmark(t) \/ CountMembers(t) \/ Unlist(t)
    BY <1>2, <1>3, <1>4, <2>2 DEF Untoggle, Unmark, CountMembers, Unlist, Forgotten
  <2> QED  BY <1>7, <2>1, <2>2 DEF ForgetStep
<1>8. CASE ReadStatus(t) \/ Announce(t)
  BY <1>3, <1>4, <1>8 DEF ReadStatus, Announce
<1>9. ASSUME NEW b \in Brands, NextBrand(t, b)
      PROVE  task'[t].pc # "beat" /\ \A u \in Tasks \ {t} : task'[u] = task[u]
  <2>1. PICK pc : /\ task' = [task EXCEPT ![t].pc = pc, ![t].at = <<b, Owner[SocketOf(t)]>>]
                  /\ pc # "beat"
    <3>1. CASE t = Req(SocketOf(t))
      <4>1. task' = [task EXCEPT ![t].pc = "read", ![t].at = <<b, Owner[SocketOf(t)]>>]
        BY <1>9, <3>1 DEF NextBrand
      <4> QED  BY <4>1, "read" # "beat"
    <3>2. CASE t # Req(SocketOf(t))
      <4>1. task' = [task EXCEPT ![t].pc = "drop", ![t].at = <<b, Owner[SocketOf(t)]>>]
        BY <1>9, <3>2 DEF NextBrand
      <4> QED  BY <4>1, "drop" # "beat"
    <3> QED  BY <3>1, <3>2
  <2> QED  BY <1>1, <2>1 DEF TaskType
<1>10. ASSUME NEW s \in Sockets, t = Req(s), RequestStep(s)
       PROVE  task'[t].pc # "beat" /\ \A u \in Tasks \ {t} : task'[u] = task[u]
  BY <1>2, <1>3, <1>4, <1>10 DEF RequestStep, Join, Beat, SetAway, SetOnline
<1>11. ASSUME NEW r \in Replicas, t = Sweep(r), SweepStep(r)
       PROVE  task'[t].pc # "beat" /\ \A u \in Tasks \ {t} : task'[u] = task[u]
  <2>1. CASE ReadSockets(r)
    BY <1>5, <1>11, <2>1 DEF ReadSockets
  <2>2. CASE ReadKeys(r)
    BY <1>3, <1>5, <1>11, <2>2 DEF ReadKeys
  <2>3. CASE DropDead(r)
    BY <1>3, <1>5, <1>11, <2>3 DEF DropDead
  <2> QED  BY <1>11, <2>1, <2>2, <2>3 DEF SweepStep
<1> QED  BY <1>6, <1>7, <1>8, <1>9, <1>10, <1>11 DEF Step

(* A step leaves alone the loops of requests other than its own.           *)
LEMMA StepsLeaveLoops ==
  ASSUME TaskInv, NEW t \in Tasks, Step(t), NEW u \in Tasks, u # t, u[1] = "request"
  PROVE  todo'[u] = todo[u]
<1> USE DEF TaskInv
<1>1. CASE LeaveStep(t) \/ ForgetStep(t) \/ ReadStatus(t) \/ Announce(t)
  BY <1>1 DEF LeaveStep, DropSocket, DeleteKey, CountSockets, ForgetStep, Claim, Untoggle,
              Unmark, CountMembers, Unlist, ReadStatus, Announce
<1>2. ASSUME NEW b \in Brands, NextBrand(t, b)
      PROVE  todo'[u] = todo[u]
  BY <1>2 DEF NextBrand
<1>3. ASSUME NEW s \in Sockets, t = Req(s), RequestStep(s)
      PROVE  todo'[u] = todo[u]
  <2>1. u # Bye(s)
    BY TaskKinds
  <2> QED  BY <1>3, <2>1 DEF RequestStep, Join, Beat, SetAway, SetOnline
<1>4. ASSUME NEW r \in Replicas, SweepStep(r)
      PROVE  todo'[u] = todo[u]
  BY <1>4 DEF SweepStep, ReadSockets, ReadKeys, DropDead
<1> QED  BY <1>1, <1>2, <1>3, <1>4 DEF Step

LEMMA BeatStep ==
  ASSUME TaskInv, BeatInv, [Next]_vars
  PROVE  BeatInv'
<1> SUFFICES ASSUME NEW s \in Sockets, task'[Req(s)].pc = "beat"
             PROVE  todo'[Req(s)] = {}
  BY DEF BeatInv, Pc
<1>0. Req(s) \in Tasks /\ Req(s)[1] = "request"
  BY TaskKinds
<1>1. ASSUME task'[Req(s)] = task[Req(s)], todo'[Req(s)] = todo[Req(s)]
      PROVE  todo'[Req(s)] = {}
  BY <1>1 DEF BeatInv, Pc
<1>2. ASSUME NEW t \in Tasks, Step(t)
      PROVE  todo'[Req(s)] = {}
  BY <1>0, <1>1, <1>2, StepsBeatNot, StepsLeaveLoops
<1>3. ASSUME NEW T, Abandon(T)
      PROVE  todo'[Req(s)] = {}
  BY <1>0, <1>1, <1>3 DEF Abandon
<1>4. ASSUME NEW t \in Tasks, NEW x, NEW pc, Starts(t, x, pc), UNCHANGED todo
      PROVE  todo'[Req(s)] = {}
  BY <1>0, <1>1, <1>4 DEF Starts, TaskInv
<1>5. ASSUME NEW u \in Sockets, Ask(u)
      PROVE  todo'[Req(s)] = {}
  <2>0. Req(u) \in Tasks /\ Bye(u) # Req(s)
    BY <1>0, TaskKinds
  <2>1. CASE Disconnect(u)
    BY <1>0, <1>1, <2>0, <2>1 DEF Disconnect, TaskInv
  <2>2. CASE AskBeat(u)
    BY <1>4, <2>0, <2>2 DEF AskBeat
  <2>3. ASSUME NEW b \in Brands, AskJoin(u, b) \/ RoomLeave(u, b) \/ Touch(u, b)
        PROVE  todo'[Req(s)] = {}
    BY <1>4, <2>0, <2>3 DEF AskJoin, RoomLeave, Touch
  <2>4. ASSUME NEW b \in Brands, NEW status \in {"away", "online"}, AskStatus(u, b, status)
        PROVE  todo'[Req(s)] = {}
    BY <1>4, <2>0, <2>4 DEF AskStatus
  <2> QED  BY <1>5, <2>1, <2>2, <2>3, <2>4 DEF Ask
<1>6. ASSUME NEW u \in Sockets, Expire(u)
      PROVE  todo'[Req(s)] = {}
  BY <1>1, <1>6 DEF Expire
<1>7. ASSUME NEW r \in Replicas, Reap(r)
      PROVE  todo'[Req(s)] = {}
  BY <1>4, <1>7, TaskKinds DEF Reap, StartSweep, MarkIdle, ReleaseIdle
<1>8. CASE UNCHANGED vars
  BY <1>1, <1>8 DEF vars
<1> QED  BY <1>2, <1>3, <1>5, <1>6, <1>7, <1>8 DEF Next, Fail, Crash

-----------------------------------------------------------------------------
(* What rooms hear.                                                        *)

(* Nothing changes of somebody an announcement of whom is not under way.   *)
Kept(x) == Quiet(x)' => Quiet(x) /\ Derived(x)' = Derived(x)

(* Of x nothing is forgotten.                                              *)
LEMMA StaysQuiet ==
  ASSUME NEW x \in Pairs, Quiet(x)',
         \A t \in Tasks : Pending(t) /\ At(t) = x => Pending(t)' /\ At(t)' = x,
         \A t \in Tasks : t[1] = "request" => todo[t] \subseteq todo'[t]
  PROVE  Quiet(x)
BY DEF Quiet

LEMMA SameStatus ==
  ASSUME NEW x, x \in members' <=> x \in members,
         x \in away' \union idle' <=> x \in away \union idle
  PROVE  Derived(x)' = Derived(x)
BY DEF Derived, Status

(* Who moves owed nothing before; the others owe what they owed.           *)
LEMMA SteadyKeeps ==
  ASSUME NEW x \in Pairs, UNCHANGED task \/ \E t \in Tasks : Steady(t),
         Quiet(x)' => Derived(x)' = Derived(x),
         \A t \in Tasks : t[1] = "request" => todo[t] \subseteq todo'[t]
  PROVE  Kept(x)
<1>1. \A t \in Tasks : Pending(t) => task'[t] = task[t]
  BY DEF Steady
<1>2. \A t \in Tasks : Pending(t) /\ At(t) = x => Pending(t)' /\ At(t)' = x
  BY <1>1 DEF Pending, At, Pc
<1> QED  BY <1>2, StaysQuiet DEF Kept

(* Somebody is about to announce x.                                        *)
LEMMA SomebodyTells ==
  ASSUME NEW x, NEW t \in Tasks, task'[t].pc \in {"read", "tell"}, task'[t].at = x
  PROVE  ~Quiet(x)'
BY DEF Quiet, Pending, At, Pc

(* Who removes a member makes an announcement due.                         *)
LEMMA ClaimKeeps ==
  ASSUME TaskInv, NEW t \in Tasks, Claim(t), NEW x \in Pairs
  PROVE  Kept(x)
<1>1. UNCHANGED <<todo, away, idle>> /\ members' = members \ {At(t)}
  BY DEF Claim
<1>2. \A u \in Tasks : Pending(u) => task'[u] = task[u]
  BY ClaimMoves
<1>3. Quiet(x)' => ~(x = At(t) /\ At(t) \in members)
  BY ClaimMoves DEF Quiet, Pending, At
<1>4. Quiet(x)' => Derived(x)' = Derived(x)
  BY <1>1, <1>3, SameStatus
<1>5. \A u \in Tasks : Pending(u) /\ At(u) = x => Pending(u)' /\ At(u)' = x
  BY <1>2 DEF Pending, At, Pc
<1> QED  BY <1>1, <1>4, <1>5, StaysQuiet DEF Kept

(* The rest of a removal: what it changes of somebody is counted.          *)
LEMMA RemovalKeeps ==
  ASSUME TaskInv, NEW t \in Tasks,
         Untoggle(t) \/ Unmark(t) \/ CountMembers(t) \/ Unlist(t), NEW x \in Pairs
  PROVE  /\ Quiet(x)' <=> Quiet(x)
         /\ Derived(x)' # Derived(x) => x = At(t) /\ (Untoggle(t) \/ Unmark(t))
<1> USE DEF redis, sockets, history
<1>1. UNCHANGED todo
  BY DEF Untoggle, Unmark, CountMembers, Unlist
<1>2. Pc(t) \in {"untoggle", "unmark", "size", "unlist"}
  BY DEF Untoggle, Unmark, CountMembers, Unlist
<1>3. Pending(t) <=> task[t].won
  BY <1>2 DEF Pending
<1>4. /\ \A u \in Tasks \ {t} : task'[u] = task[u]
      /\ task[t].won => task'[t].won /\ task'[t].at = task[t].at
  BY RemovalKeepsItsWinner
<1>5. ~task[t].won => ~Pending(t)'
  <2>1. task \in [Tasks -> GoodTask] /\ task[t] \in TaskType /\ Idle.pc = "idle" /\ ~Idle.won
    BY IdleIsGood DEF TaskInv, GoodTask
  <2>2. ~task[t].won => Ends(t) \/ Goes(t, "unmark") \/ Goes(t, "size") \/ Goes(t, "unlist")
    BY DEF Untoggle, Unmark, CountMembers, Unlist, Forgotten
  <2>3. Ends(t) => ~Pending(t)'
    BY <2>1 DEF Ends, Pending, Pc
  <2>4. ASSUME NEW pc \in {"unmark", "size", "unlist"}, Goes(t, pc), ~task[t].won
        PROVE  ~Pending(t)'
    BY <2>1, <2>4 DEF Goes, Pending, Pc, TaskType
  <2> QED  BY <2>2, <2>3, <2>4
<1>6. \A u \in Tasks : At(u)' = x /\ Pending(u)' <=> At(u) = x /\ Pending(u)
  <2>1. \A u \in Tasks \ {t} : At(u)' = x /\ Pending(u)' <=> At(u) = x /\ Pending(u)
    BY <1>4 DEF At, Pending, Pc
  <2>2. At(t)' = x /\ Pending(t)' <=> At(t) = x /\ Pending(t)
    BY <1>3, <1>4, <1>5 DEF At, Pending, Pc
  <2> QED  BY <2>1, <2>2
<1>7. Quiet(x)' <=> Quiet(x)
  BY <1>1, <1>6 DEF Quiet
<1>8. Derived(x)' # Derived(x) => x = At(t) /\ (Untoggle(t) \/ Unmark(t))
  <2>1. CASE x # At(t) /\ (Untoggle(t) \/ Unmark(t))
    BY <2>1, SameStatus DEF Untoggle, Unmark
  <2>2. CASE CountMembers(t) \/ Unlist(t)
    BY <2>2, SameStatus DEF CountMembers, Unlist
  <2> QED  BY <2>1, <2>2
<1> QED  BY <1>7, <1>8

LEMMA ReadKeeps ==
  ASSUME TaskInv, NEW t \in Tasks, ReadStatus(t), NEW x \in Pairs
  PROVE  Kept(x)
<1> USE DEF redis, history
<1>1. UNCHANGED <<todo, members, away, idle>>
  BY DEF ReadStatus
<1>2. Derived(x)' = Derived(x)
  BY <1>1, SameStatus
<1>3. \A u \in Tasks : Pending(u) /\ At(u) = x => Pending(u)' /\ At(u)' = x
  BY ReadIsQuiet DEF Pending, At, Pc
<1> QED  BY <1>1, <1>2, <1>3, StaysQuiet DEF Kept

(* An announcement is of somebody one was expected of, and of nobody else. *)
LEMMA AnnounceKeeps ==
  ASSUME TaskInv, NEW t \in Tasks, Announce(t), NEW x \in Pairs
  PROVE  /\ Derived(x)' = Derived(x)
         /\ Quiet(x) => Quiet(x)' /\ x # At(t)
         /\ x # At(t) /\ Quiet(x)' => Quiet(x)
<1>1. UNCHANGED <<todo, members, away, idle>>
  BY DEF Announce, redis
<1>2. Derived(x)' = Derived(x)
  BY <1>1, SameStatus
<1>3. /\ \A u \in Tasks \ {t} : task'[u] = task[u]
      /\ Pending(t) /\ ~Pending(t)'
  BY AnnounceMoves DEF Announce, Pending, Pc
<1>4. Quiet(x) => Quiet(x)' /\ x # At(t)
  BY <1>1, <1>3 DEF Quiet, Pending, At, Pc
<1>5. x # At(t) /\ Quiet(x)' => Quiet(x)
  BY <1>1, <1>3 DEF Quiet, Pending, At, Pc
<1> QED  BY <1>2, <1>4, <1>5

LEMMA LoopKeeps ==
  ASSUME TaskInv, NEW t \in Tasks, NEW b \in Brands, NextBrand(t, b), NEW x \in Pairs
  PROVE  Kept(x)
<1> SUFFICES ASSUME Quiet(x)'
             PROVE  Quiet(x) /\ Derived(x)' = Derived(x)
  BY DEF Kept
<1> USE DEF redis
<1>1. /\ UNCHANGED <<members, away, idle>> /\ Steady(t)
      /\ todo' = [todo EXCEPT ![t] = @ \ {b}] /\ todo \in [Tasks -> SUBSET Brands]
  BY NextBrandIsSteady DEF NextBrand, TaskInv
<1>2. Derived(x)' = Derived(x)
  BY <1>1, SameStatus
<1>3. ~(t[1] = "request" /\ x = <<b, Owner[SocketOf(t)]>>)
  BY NextBrandIsSteady, SomebodyTells
<1>4. Quiet(x)
  <2> SUFFICES ASSUME NEW u \in Tasks
               PROVE  /\ ~(At(u) = x /\ Pending(u))
                      /\ ~(u[1] = "request" /\ x \in todo[u] \X {Owner[SocketOf(u)]})
    BY DEF Quiet
  <2>1. ~(At(u) = x /\ Pending(u))
    BY <1>1 DEF Steady, Quiet, Pending, At, Pc
  <2>2. ~(u[1] = "request" /\ x \in todo[u] \X {Owner[SocketOf(u)]})
    <3>1. CASE u # t
      <4>1. todo'[u] = todo[u]
        BY <1>1, <3>1
      <4> QED  BY <4>1 DEF Quiet
    <3>2. CASE u = t
      <4>1. todo'[u] = todo[u] \ {b}
        BY <1>1, <3>2
      <4> QED  BY <1>3, <3>2, <4>1 DEF Quiet
    <3> QED  BY <3>1, <3>2
  <2> QED  BY <2>1, <2>2
<1> QED  BY <1>2, <1>4

LEMMA RequestKeeps ==
  ASSUME StateTyped, TaskInv, BeatInv, NEW s \in Sockets, RequestStep(s), NEW x \in Pairs
  PROVE  Kept(x)
<1> DEFINE t == Req(s)
<1>0. /\ t \in Tasks /\ t[1] = "request" /\ SocketOf(t) = s /\ Bye(s)[1] # "request"
      /\ task \in [Tasks -> GoodTask] /\ task[t] \in TaskType
      /\ todo \in [Tasks -> SUBSET Brands]
  BY TaskKinds DEF TaskInv, GoodTask
<1>1. Steady(t)
  BY RequestIsSteady
<1>2. \A u \in Tasks : u[1] = "request" => todo[u] \subseteq todo'[u]
  <2>1. CASE Join(s)
    <3>1. \A u \in Tasks : u # Bye(s) => todo'[u] = todo[u]
      BY <1>0, <2>1 DEF Join
    <3> QED  BY <1>0, <3>1
  <2>2. CASE Beat(s)
    <3>1. todo[t] = {}
      BY <2>2 DEF Beat, BeatInv
    <3>2. \A u \in Tasks : u # t => todo'[u] = todo[u]
      BY <1>0, <2>2 DEF Beat
    <3> QED  BY <3>1, <3>2
  <2>3. CASE SetAway(s) \/ SetOnline(s)
    BY <2>3 DEF SetAway, SetOnline
  <2> QED  BY <2>1, <2>2, <2>3 DEF RequestStep
<1>3. ASSUME Quiet(x)'
      PROVE  Derived(x)' = Derived(x)
  <2>1. CASE Join(s)
    <3>1. UNCHANGED <<away, idle>> /\ members' = members \union {At(t)}
      BY <2>1 DEF Join
    <3>2. ~(x = At(t) /\ x \notin members)
      <4>1. x = At(t) /\ x \notin members => task'[t].pc = "read" /\ task'[t].at = x
        BY <1>0, <2>1 DEF Join, Goes, TaskType, At
      <4> QED  BY <1>0, <1>3, <4>1, SomebodyTells
    <3> QED  BY <3>1, <3>2, SameStatus
  <2>2. CASE Beat(s)
    <3>1. UNCHANGED <<away, idle>> /\ members' = members \union (rooms[s] \X {Owner[s]})
      BY <2>2 DEF Beat
    <3>2. ~(x \in rooms[s] \X {Owner[s]} /\ x \notin members)
      <4>1. todo'[t] = {b \in rooms[s] : <<b, Owner[s]>> \notin members}
        BY <1>0, <2>2 DEF Beat
      <4>2. x \notin todo'[t] \X {Owner[s]}
        BY <1>0, <1>3 DEF Quiet
      <4> QED  BY <4>1, <4>2
    <3> QED  BY <3>1, <3>2, SameStatus
  <2>3. CASE SetAway(s) \/ SetOnline(s)
    <3>1. task'[t].pc = "tell" /\ task'[t].at = At(t)
      BY <1>0, <2>3 DEF SetAway, SetOnline, Tells, TaskType, At
    <3>2. x # At(t)
      BY <1>0, <1>3, <3>1, SomebodyTells
    <3> QED  BY <2>3, <3>2, SameStatus DEF SetAway, SetOnline
  <2> QED  BY <2>1, <2>2, <2>3 DEF RequestStep
<1> QED  BY <1>0, <1>1, <1>2, <1>3, SteadyKeeps

LEMMA StartKeeps ==
  ASSUME TaskInv, NEW t \in Tasks, NEW y, NEW pc, Starts(t, y, pc),
         UNCHANGED <<todo, members, away>>,
         idle' = idle \/ (pc = "read" /\ idle' \in {idle \union {y}, idle \ {y}}),
         NEW x \in Pairs
  PROVE  Kept(x)
<1>1. Steady(t) /\ task'[t].pc = pc /\ task'[t].at = y
  BY StartIsSteady
<1>2. ASSUME Quiet(x)'
      PROVE  Derived(x)' = Derived(x)
  <2>1. CASE idle' = idle
    BY <2>1, SameStatus
  <2>2. CASE idle' # idle
    <3>1. x # y
      BY <1>1, <1>2, <2>2, SomebodyTells
    <3> QED  BY <2>2, <3>1, SameStatus
  <2> QED  BY <2>1, <2>2
<1> QED  BY <1>1, <1>2, SteadyKeeps

LEMMA AskKeeps ==
  ASSUME TaskInv, NEW s \in Sockets, Ask(s), NEW x \in Pairs
  PROVE  Kept(x)
<1> USE DEF redis
<1>0. Req(s) \in Tasks /\ Bye(s)[1] # "request" /\ todo \in [Tasks -> SUBSET Brands]
  BY TaskKinds DEF TaskInv
<1>1. CASE Disconnect(s)
  <2>1. UNCHANGED <<task, members, away, idle>>
    BY <1>1 DEF Disconnect
  <2>2. \A u \in Tasks : u[1] = "request" => todo[u] \subseteq todo'[u]
    BY <1>0, <1>1 DEF Disconnect
  <2>3. Derived(x)' = Derived(x)
    BY <2>1, SameStatus
  <2> QED  BY <2>1, <2>2, <2>3, SteadyKeeps
<1>2. CASE AskBeat(s)
  BY <1>0, <1>2, StartKeeps DEF AskBeat
<1>3. ASSUME NEW b \in Brands, AskJoin(s, b)
      PROVE  Kept(x)
  BY <1>0, <1>3, StartKeeps DEF AskJoin
<1>4. ASSUME NEW b \in Brands, RoomLeave(s, b)
      PROVE  Kept(x)
  BY <1>0, <1>4, StartKeeps DEF RoomLeave
<1>5. ASSUME NEW b \in Brands, Touch(s, b)
      PROVE  Kept(x)
  BY <1>0, <1>5, StartKeeps DEF Touch
<1>6. ASSUME NEW b \in Brands, NEW status \in {"away", "online"}, AskStatus(s, b, status)
      PROVE  Kept(x)
  BY <1>0, <1>6, StartKeeps DEF AskStatus
<1> QED  BY <1>1, <1>2, <1>3, <1>4, <1>5, <1>6 DEF Ask

(* What is abandoned was expected, and is counted.                         *)
LEMMA AbandonKeeps ==
  ASSUME TaskInv, NEW T \in SUBSET Tasks, Abandon(T), NEW x \in Pairs
  PROVE  /\ Derived(x)' = Derived(x)
         /\ Quiet(x) => Quiet(x)' /\ x \notin OwedBy(T)
         /\ Quiet(x)' => Quiet(x) \/ x \in OwedBy(T)
<1>1. UNCHANGED <<members, away, idle>>
  BY DEF Abandon, redis
<1>2. Derived(x)' = Derived(x)
  BY <1>1, SameStatus
<1>3. ASSUME Quiet(x)', x \notin OwedBy(T)
      PROVE  Quiet(x)
  <2> SUFFICES ASSUME NEW u \in Tasks
               PROVE  /\ ~(At(u) = x /\ Pending(u))
                      /\ ~(u[1] = "request" /\ x \in todo[u] \X {Owner[SocketOf(u)]})
    BY DEF Quiet
  <2>1. CASE u \notin T
    <3>1. task'[u] = task[u] /\ todo'[u] = todo[u]
      BY <2>1 DEF Abandon
    <3> QED  BY <1>3, <3>1 DEF Quiet, Pending, At, Pc
  <2>2. CASE u \in T
    <3>1. u[1] = "request" => u \in {"request"} \X Sockets
      BY TaskKinds DEF Req
    <3> QED  BY <1>3, <2>2, <3>1 DEF OwedBy
  <2> QED  BY <2>1, <2>2
<1>4. ASSUME Quiet(x)
      PROVE  Quiet(x)' /\ x \notin OwedBy(T)
  <2>1. ASSUME NEW u \in Tasks
        PROVE  /\ ~(At(u)' = x /\ Pending(u)')
               /\ ~(u[1] = "request" /\ x \in todo'[u] \X {Owner[SocketOf(u)]})
    <3>1. CASE u \notin T
      <4>1. task'[u] = task[u] /\ todo'[u] = todo[u]
        BY <3>1 DEF Abandon
      <4> QED  BY <1>4, <4>1 DEF Quiet, Pending, At, Pc
    <3>2. CASE u \in T
      <4>1. task'[u] = Idle /\ todo'[u] = {}
        BY <3>2 DEF Abandon
      <4> QED  BY <4>1, IdleIsGood DEF Pending, Pc
    <3> QED  BY <3>1, <3>2
  <2>2. Quiet(x)'
    BY <2>1 DEF Quiet
  <2>3. x \notin OwedBy(T)
    BY <1>4 DEF Quiet, OwedBy
  <2> QED  BY <2>2, <2>3
<1> QED  BY <1>2, <1>3, <1>4

(* All steps but those of a removal, announcements and faults.             *)
LEMMA OthersKeep ==
  ASSUME StateTyped, TaskInv, BeatInv, [Next]_vars,
         ~\E t \in Tasks : ForgetStep(t) \/ Announce(t) \/ Fail(t),
         ~\E r \in Replicas : Crash(r), NEW x \in Pairs
  PROVE  Kept(x)
<1> USE DEF redis, sockets
<1>0. UNCHANGED <<members, away, idle>> => Derived(x)' = Derived(x)
  BY SameStatus
<1>1. ASSUME NEW t \in Tasks, Step(t)
      PROVE  Kept(x)
  <2>1. CASE LeaveStep(t)
    <3>1. UNCHANGED <<members, away, idle, todo>>
      BY <2>1 DEF LeaveStep, DropSocket, DeleteKey, CountSockets
    <3> QED  BY <1>0, <2>1, <3>1, LeaveIsSteady, SteadyKeeps
  <2>2. CASE ReadStatus(t)
    BY <2>2, ReadKeeps
  <2>3. ASSUME NEW b \in Brands, NextBrand(t, b)
        PROVE  Kept(x)
    BY <2>3, LoopKeeps
  <2>4. ASSUME NEW s \in Sockets, RequestStep(s)
        PROVE  Kept(x)
    BY <2>4, RequestKeeps
  <2>5. ASSUME NEW r \in Replicas, t = Sweep(r), SweepStep(r)
        PROVE  Kept(x)
    <3>1. UNCHANGED <<members, away, idle, todo>>
      BY <2>5 DEF SweepStep, ReadSockets, ReadKeys, DropDead
    <3> QED  BY <1>0, <2>5, <3>1, SweepIsSteady, SteadyKeeps
  <2> QED  BY <1>1, <2>1, <2>2, <2>3, <2>4, <2>5 DEF Step
<1>2. ASSUME NEW s \in Sockets, Ask(s)
      PROVE  Kept(x)
  BY <1>2, AskKeeps
<1>3. ASSUME NEW s \in Sockets, Expire(s)
      PROVE  Kept(x)
  <2>1. UNCHANGED <<members, away, idle, todo, task>>
    BY <1>3 DEF Expire
  <2> QED  BY <1>0, <2>1, SteadyKeeps
<1>4. ASSUME NEW r \in Replicas, Reap(r)
      PROVE  Kept(x)
  BY <1>4, TaskKinds, StartKeeps DEF Reap, StartSweep, MarkIdle, ReleaseIdle
<1>5. CASE UNCHANGED vars
  <2>1. UNCHANGED <<members, away, idle, todo, task>>
    BY <1>5 DEF vars
  <2> QED  BY <1>0, <2>1, SteadyKeeps
<1> QED  BY <1>1, <1>2, <1>3, <1>4, <1>5 DEF Next

(* They tell nobody anything, and remove nobody.                           *)
LEMMA OthersAreSilent ==
  ASSUME TaskInv, [Next]_vars,
         ~\E t \in Tasks : ForgetStep(t) \/ Announce(t) \/ Fail(t),
         ~\E r \in Replicas : Crash(r)
  PROVE  UNCHANGED history /\ members \subseteq members'
<1>1. ASSUME NEW t \in Tasks, ReadStatus(t)
      PROVE  UNCHANGED history /\ members \subseteq members'
  BY <1>1 DEF ReadStatus, redis
<1> QED  BY <1>1, SteadySteps

(* What Unannounced says of the one who was removed.                       *)
LEMMA ErasureIsCounted ==
  ASSUME NEW t \in Tasks, Untoggle(t) \/ Unmark(t), NEW x, x = At(t)
  PROVE  /\ UNCHANGED <<heard, owed, members>>
         /\ away' \subseteq away /\ idle' \subseteq idle
         /\ raced' = IF Derived(x)' # Derived(x) THEN raced \union {x} ELSE raced
<1>1. Status(members', away', idle', x) = Derived(x)'
  BY DEF Derived, Status
<1> QED  BY <1>1 DEF Untoggle, Unmark, Unannounced

LEMMA HeardStep ==
  ASSUME StateTyped, TaskInv, BeatInv, RoomsHearEveryChange, [Next]_vars
  PROVE  RoomsHearEveryChange'
<1> SUFFICES ASSUME NEW x \in Pairs, Quiet(x)', x \notin raced'
             PROVE  heard'[x] = Derived(x)'
  BY DEF RoomsHearEveryChange
<1>0. ASSUME Quiet(x), x \notin raced, heard'[x] = heard[x], Derived(x)' = Derived(x)
      PROVE  heard'[x] = Derived(x)'
  BY <1>0 DEF RoomsHearEveryChange
<1>1. ASSUME NEW t \in Tasks, Claim(t)
      PROVE  heard'[x] = Derived(x)'
  BY <1>0, <1>1, ClaimKeeps DEF Kept, Claim
<1>2. ASSUME NEW t \in Tasks, Untoggle(t) \/ Unmark(t) \/ CountMembers(t) \/ Unlist(t)
      PROVE  heard'[x] = Derived(x)'
  <2>1. UNCHANGED heard /\ Quiet(x)
    BY <1>2, RemovalKeeps DEF Untoggle, Unmark, CountMembers, Unlist, history
  <2>2. x \notin raced /\ Derived(x)' = Derived(x)
    <3>1. CASE Untoggle(t) \/ Unmark(t)
      <4>1. raced' = raced \/ At(t) \in raced'
        BY <3>1, ErasureIsCounted
      <4>2. raced \subseteq raced'
        BY <3>1, ErasureIsCounted
      <4>3. x = At(t) => Derived(x)' = Derived(x)
        BY <3>1, ErasureIsCounted
      <4> QED  BY <1>2, <4>2, <4>3, RemovalKeeps
    <3>2. CASE ~(Untoggle(t) \/ Unmark(t))
      BY <1>2, <3>2, RemovalKeeps DEF CountMembers, Unlist, history
    <3> QED  BY <3>1, <3>2
  <2> QED  BY <1>0, <2>1, <2>2
<1>3. ASSUME NEW t \in Tasks, Announce(t)
      PROVE  heard'[x] = Derived(x)'
  <2>1. Derived(x)' = Derived(x)
    BY <1>3, AnnounceKeeps
  <2>2. CASE x = At(t)
    <3>1. task[t].say = Derived(x)
      BY <1>3, <2>2 DEF Announce
    <3>2. heard'[x] = task[t].say
      BY <1>3, <2>2 DEF Announce, StateTyped
    <3> QED  BY <2>1, <3>1, <3>2
  <2>3. CASE x # At(t)
    <3>1. heard'[x] = heard[x] /\ x \notin raced
      BY <1>3, <2>3 DEF Announce, StateTyped
    <3>2. Quiet(x)
      BY <1>3, <2>3, AnnounceKeeps
    <3> QED  BY <1>0, <2>1, <3>1, <3>2
  <2> QED  BY <2>2, <2>3
<1>4. ASSUME NEW T \in SUBSET Tasks, Abandon(T)
      PROVE  heard'[x] = Derived(x)'
  <2>1. UNCHANGED heard /\ x \notin raced /\ x \notin OwedBy(T)
    BY <1>4 DEF Abandon
  <2> QED  BY <1>0, <1>4, <2>1, AbandonKeeps
<1>5. ASSUME UNCHANGED history, \A y \in Pairs : Kept(y)
      PROVE  heard'[x] = Derived(x)'
  <2>1. UNCHANGED heard /\ x \notin raced /\ Kept(x)
    BY <1>5, Zenon DEF history
  <2> QED  BY <1>0, <2>1 DEF Kept
<1>6. ASSUME NEW r \in Replicas, Crash(r)
      PROVE  heard'[x] = Derived(x)'
  <2> DEFINE T == {t \in Tasks : IF t[1] = "sweep" THEN t[2] = r ELSE Home[t[2]] = r}
  <2>1. T \in SUBSET Tasks /\ Abandon(T)
    BY <1>6 DEF Crash
  <2> QED  BY <1>4, <2>1
<1>7. ASSUME NEW t \in Tasks, Fail(t)
      PROVE  heard'[x] = Derived(x)'
  <2>1. {t} \in SUBSET Tasks /\ Abandon({t})
    BY <1>7 DEF Fail
  <2> QED  BY <1>4, <2>1
<1> QED  BY <1>1, <1>2, <1>3, <1>5, <1>6, <1>7, OthersKeep, OthersAreSilent DEF ForgetStep

-----------------------------------------------------------------------------
(* Theorems.                                                               *)

LEMMA InitInv == Init => Inv
<1> SUFFICES ASSUME Init
             PROVE  Inv
  OBVIOUS
<1>1. StateTyped
  BY PresenceAssumption DEF Init, StateTyped, Statuses
<1>2. TaskInv
  BY IdleIsGood, TaskKinds DEF Init, TaskInv
<1>3. WinnersInv
  <2> SUFFICES ASSUME NEW x \in Pairs
               PROVE  IsFiniteSet(Winners(x)) /\ Cardinality(Winners(x)) <= owed[x]
    BY DEF WinnersInv
  <2>1. Winners(x) = {} /\ owed[x] = 0
    BY IdleIsGood DEF Init, Winners
  <2> QED  BY <2>1, FS_EmptySet
<1>4. MarksInv /\ BeatInv
  BY TaskKinds DEF Init, MarksInv, BeatInv
<1>5. RoomsHearEveryChange
  BY DEF Init, RoomsHearEveryChange, Derived, Status
<1> QED  BY <1>1, <1>2, <1>3, <1>4, <1>5 DEF Inv

LEMMA InvStep == Inv /\ [Next]_vars => Inv'
<1> SUFFICES ASSUME Inv, [Next]_vars
             PROVE  Inv'
  OBVIOUS
<1>0. StateTyped /\ TaskInv /\ WinnersInv /\ MarksInv /\ BeatInv /\ RoomsHearEveryChange
  BY DEF Inv
<1>1. StateTyped'
  BY <1>0, StateStep
<1>2. TaskInv'
  BY <1>0, TaskStep
<1>3. WinnersInv'
  BY <1>0, WinnersStep
<1>4. MarksInv'
  BY <1>0, MarksStep
<1>5. BeatInv'
  BY <1>0, BeatStep
<1>6. RoomsHearEveryChange'
  BY <1>0, HeardStep
<1> QED  BY <1>1, <1>2, <1>3, <1>4, <1>5, <1>6 DEF Inv

(* The invariant the next theorems are read off.                           *)
THEOREM Invariance == Spec => []Inv
BY InitInv, InvStep, PTL DEF Spec

(* The Redis sets hold pairs of people and brands, and every variable its  *)
(* type, whichever commands interleave.                                    *)
THEOREM TypeCorrect == Spec => []TypeOK
<1>1. Inv => TypeOK
  BY TypeParts DEF Inv
<1> QED  BY <1>1, Invariance, PTL

(* However many replicas and sockets remove a person, each departure is    *)
(* announced at most once (presence.store.ts, #forget).                    *)
THEOREM DeparturesAreReal == Spec => []NoFalseDeparture
<1>1. Inv => NoFalseDeparture
  <2> SUFFICES ASSUME Inv, NEW x \in Pairs
               PROVE  owed[x] >= 0
    BY DEF NoFalseDeparture
  <2>1. /\ owed[x] \in Int /\ Cardinality(Winners(x)) <= owed[x]
        /\ Cardinality(Winners(x)) \in Nat
    BY FS_CardinalityType DEF Inv, WinnersInv, StateTyped
  <2> QED  BY <2>1
<1> QED  BY <1>1, Invariance, PTL

(* Nobody absent keeps an idle mark, but for a removal that is under way   *)
(* or failed half way (presence.store.ts, MARK_IDLE_SCRIPT).               *)
THEOREM NoMarkOutlivesPresence == Spec => []MarksFollowPresence
<1>1. Inv => MarksFollowPresence
  BY DEF Inv, MarksInv, MarksFollowPresence
<1> QED  BY <1>1, Invariance, PTL

(* When nothing is on its way, a brand's room has heard what is true of    *)
(* everyone, but for races and faults that are named (presence.service.ts).*)
THEOREM EveryChangeIsHeard == Spec => []RoomsHearEveryChange
<1>1. Inv => RoomsHearEveryChange
  BY DEF Inv
<1> QED  BY <1>1, Invariance, PTL

-----------------------------------------------------------------------------
(* The abstract specification.                                             *)

Expected == {x \in Pairs : ~Quiet(x)}

StatusOfAll == [x \in Pairs |-> Derived(x)]

LEMMA AbsentIsOffline == \A x : Derived(x) = "offline" <=> x \notin members
BY DEF Derived, Status

(* Nobody is removed, and who changes is announced next.                   *)
LEMMA OthersCome ==
  ASSUME UNCHANGED history, members \subseteq members', \A x \in Pairs : Kept(x)
  PROVE  Room!Next
<1>1. StatusOfAll' \in [Pairs -> Room!Statuses]
  BY DEF StatusOfAll, Derived, Status, Room!Statuses
<1>2. Expected' \subseteq Pairs /\ Expected' = Expected \union Expected'
  BY DEF Expected, Kept
<1>3. ASSUME NEW x \in Pairs, StatusOfAll'[x] # StatusOfAll[x]
      PROVE  StatusOfAll'[x] # "offline" /\ x \in Expected'
  <2>1. Derived(x)' # Derived(x)
    BY <1>3 DEF StatusOfAll
  <2>2. x \in members'
    BY <2>1 DEF Derived, Status
  <2> QED  BY <2>1, <2>2 DEF StatusOfAll, Derived, Status, Expected, Kept
<1>4. Room!Come(StatusOfAll', Expected')
  BY <1>2, <1>3 DEF Room!Come, StatusOfAll, Expected, history
<1> QED  BY <1>1, <1>2, <1>4 DEF Room!Next

(* Who removes a member makes them depart; who finds none does nothing.    *)
LEMMA ClaimDeparts ==
  ASSUME StateTyped, TaskInv, NEW t \in Tasks, Claim(t)
  PROVE  Room!Next
<1>0. PICK x \in Pairs : x = At(t)
  BY AtTyped DEF Claim
<1>1. /\ x \in Pairs /\ x = At(t) /\ members' = members \ {x}
      /\ UNCHANGED <<away, idle, heard, raced, todo>>
  BY <1>0 DEF Claim
<1>2. CASE x \notin members
  <2>1. members' = members
    BY <1>1, <1>2
  <2>2. UNCHANGED history
    BY <1>1, <1>2 DEF Claim, StateTyped, history
  <2> QED  BY <2>1, <2>2, ClaimKeeps, OthersCome
<1>3. CASE x \in members
  <2>1. StatusOfAll' = [StatusOfAll EXCEPT ![x] = "offline"] /\ StatusOfAll[x] # "offline"
    <3>1. Derived(x)' = "offline" /\ Derived(x) # "offline"
      BY <1>1, <1>3 DEF Derived, Status
    <3>2. \A y \in Pairs \ {x} : Derived(y)' = Derived(y)
      BY <1>1, SameStatus
    <3> QED  BY <1>1, <3>1, <3>2 DEF StatusOfAll
  <2>2. Expected' = Expected \union {x}
    <3>1. /\ \A u \in Tasks \ {t} : task'[u] = task[u]
          /\ ~Pending(t) /\ task'[t].won /\ task'[t].at = x
      BY <1>1, <1>3, ClaimMoves
    <3>2. ~Quiet(x)'
      BY <1>1, <3>1 DEF Quiet, Pending, At
    <3>3. ASSUME NEW y \in Pairs \ {x}
          PROVE  Quiet(y)' <=> Quiet(y)
      <4>1. \A u \in Tasks : At(u)' = y /\ Pending(u)' <=> At(u) = y /\ Pending(u)
        BY <3>1, <3>3 DEF Pending, At, Pc
      <4> QED  BY <1>1, <4>1 DEF Quiet
    <3> QED  BY <1>1, <3>2, <3>3 DEF Expected
  <2>3. owed' = [owed EXCEPT ![x] = @ + 1]
    BY <1>1, <1>3 DEF Claim
  <2>4. Room!Depart(x)
    BY <1>1, <2>1, <2>2, <2>3 DEF Room!Depart, StatusOfAll, Expected
  <2> QED  BY <1>1, <2>4 DEF Room!Next
<1> QED  BY <1>2, <1>3

(* The rest of a removal changes nothing, unless somebody is back.         *)
LEMMA RemovalErases ==
  ASSUME StateTyped, TaskInv, NEW t \in Tasks,
         Untoggle(t) \/ Unmark(t) \/ CountMembers(t) \/ Unlist(t)
  PROVE  Room!Next
<1>0. PICK x \in Pairs : x = At(t)
  BY AtTyped DEF Untoggle, Unmark, CountMembers, Unlist
<1>1. /\ x \in Pairs /\ x = At(t)
      /\ \A y \in Pairs : Quiet(y)' <=> Quiet(y)
      /\ \A y \in Pairs \ {x} : Derived(y)' = Derived(y)
  BY <1>0, RemovalKeeps
<1>2. UNCHANGED members
  BY RemovalKeepsItsWinner
<1>3. CASE Derived(x)' = Derived(x)
  <2>1. UNCHANGED history
    <3>1. CASE Untoggle(t) \/ Unmark(t)
      BY <1>1, <1>3, <3>1, ErasureIsCounted DEF history
    <3>2. CASE CountMembers(t) \/ Unlist(t)
      BY <3>2 DEF CountMembers, Unlist
    <3> QED  BY <3>1, <3>2
  <2>2. \A y \in Pairs : Kept(y)
    BY <1>1, <1>3 DEF Kept
  <2> QED  BY <1>2, <2>1, <2>2, OthersCome
<1>4. CASE Derived(x)' # Derived(x)
  <2>1. Untoggle(t) \/ Unmark(t)
    BY <1>1, <1>4, RemovalKeeps
  <2>2. /\ UNCHANGED <<heard, owed>> /\ raced' = raced \union {x}
        /\ away' \subseteq away /\ idle' \subseteq idle
    BY <1>1, <1>4, <2>1, ErasureIsCounted
  <2>3. Derived(x) = "away" /\ Derived(x)' = "online"
    BY <1>2, <1>4, <2>2 DEF Derived, Status
  <2>4. StatusOfAll[x] = "away" /\ StatusOfAll' = [StatusOfAll EXCEPT ![x] = "online"]
    BY <1>1, <2>3 DEF StatusOfAll
  <2>5. Expected' = Expected
    BY <1>1 DEF Expected
  <2>6. Room!Erase(x)
    BY <2>2, <2>4, <2>5 DEF Room!Erase, StatusOfAll, Expected
  <2> QED  BY <1>1, <2>6 DEF Room!Next
<1> QED  BY <1>3, <1>4

(* Who announces a departure is one of those owed one.                     *)
LEMMA AnnounceTells ==
  ASSUME StateTyped, TaskInv, WinnersInv, NEW t \in Tasks, Announce(t)
  PROVE  Room!Next
<1> DEFINE x == At(t)
           said == task[t].say
<1>1. x \in Pairs /\ said \in Room!Statuses
  BY AtTyped DEF Announce, Statuses, Room!Statuses
<1>2. StatusOfAll' = StatusOfAll /\ StatusOfAll[x] = Derived(x)
  BY <1>1, AnnounceKeeps DEF StatusOfAll
<1>3. x \in Expected /\ Expected' \in {Expected, Expected \ {x}}
  BY <1>1, AnnounceKeeps DEF Expected
<1>4. heard' = [heard EXCEPT ![x] = said]
  BY DEF Announce
<1>5. IF said # Derived(x) THEN raced' = raced \union {x}
                           ELSE raced' \in {raced, raced \ {x}}
  BY DEF Announce
<1>6. \/ UNCHANGED owed
      \/ said = "offline" /\ owed[x] > 0 /\ owed' = [owed EXCEPT ![x] = @ - 1]
  <2>1. CASE ~Departs(t)
    BY <2>1 DEF Announce, StateTyped
  <2>2. CASE Departs(t)
    <3>1. t \in Winners(x) /\ said = "offline"
      BY <2>2 DEF Winners, Departs
    <3>2. /\ IsFiniteSet(Winners(x)) /\ Cardinality(Winners(x)) <= owed[x]
          /\ owed[x] \in Int
      BY <1>1 DEF WinnersInv, StateTyped
    <3>3. Cardinality(Winners(x)) \in Nat /\ Cardinality(Winners(x)) # 0
      BY <3>1, <3>2, FS_CardinalityType, FS_EmptySet
    <3> QED  BY <2>2, <3>1, <3>2, <3>3 DEF Announce
  <2> QED  BY <2>1, <2>2
<1>7. Room!Tell(x, said)
  BY <1>2, <1>3, <1>4, <1>5, <1>6 DEF Room!Tell, StatusOfAll, Expected
<1> QED  BY <1>1, <1>7 DEF Room!Next

LEMMA AbandonLoses ==
  ASSUME TaskInv, NEW T \in SUBSET Tasks, Abandon(T), OwedBy(T) \subseteq Pairs
  PROVE  Room!Next
<1> DEFINE last == Expected \ Expected'
<1>1. StatusOfAll' = StatusOfAll
  BY AbandonKeeps DEF StatusOfAll
<1>2. OwedBy(T) \subseteq Expected /\ last \subseteq OwedBy(T) /\ Expected' = Expected \ last
  BY AbandonKeeps DEF Expected
<1>3. raced' = raced \union OwedBy(T) /\ UNCHANGED <<heard, owed>>
  BY DEF Abandon
<1>4. Room!Lose(OwedBy(T), last)
  BY <1>1, <1>2, <1>3 DEF Room!Lose, StatusOfAll, Expected
<1> QED  BY <1>2, <1>4 DEF Room!Next, Expected

LEMMA RoomStep ==
  ASSUME Inv, [Next]_vars
  PROVE  [Room!Next]_(Room!vars)
<1>0. StateTyped /\ TaskInv /\ WinnersInv /\ BeatInv
  BY DEF Inv
<1>1. ASSUME NEW t \in Tasks, ForgetStep(t)
      PROVE  Room!Next
  BY <1>0, <1>1, ClaimDeparts, RemovalErases DEF ForgetStep
<1>2. ASSUME NEW t \in Tasks, Announce(t)
      PROVE  Room!Next
  BY <1>0, <1>2, AnnounceTells
<1>3. ASSUME NEW t \in Tasks, Fail(t)
      PROVE  Room!Next
  <2>1. {t} \in SUBSET Tasks /\ Abandon({t})
    BY <1>3 DEF Fail
  <2> QED  BY <1>0, <2>1, OwedIsTyped, AbandonLoses
<1>4. ASSUME NEW r \in Replicas, Crash(r)
      PROVE  Room!Next
  <2> DEFINE T == {t \in Tasks : IF t[1] = "sweep" THEN t[2] = r ELSE Home[t[2]] = r}
  <2>1. T \in SUBSET Tasks /\ Abandon(T)
    BY <1>4 DEF Crash
  <2> QED  BY <1>0, <2>1, OwedIsTyped, AbandonLoses
<1> QED  BY <1>0, <1>1, <1>2, <1>3, <1>4, OthersAreSilent, OthersKeep, OthersCome

(* The sets, sockets and sweeps of any brands, people and replicas         *)
(* implement Attendance: a change is announced next, a departure no more   *)
(* often than it happened, and only three causes make what was said last   *)
(* untrue (presence.store.ts, presence.service.ts).                        *)
THEOREM PresenceImplementsAttendance == Spec => ImplementsAttendance
<1>1. Init => Room!Init
  <2> SUFFICES ASSUME Init
               PROVE  Room!Init
    OBVIOUS
  <2>1. StatusOfAll = [x \in Pairs |-> "offline"]
    BY DEF Init, StatusOfAll, Derived, Status
  <2>2. Expected = {}
    BY IdleIsGood DEF Init, Expected, Quiet, Pending, Pc
  <2> QED  BY <2>1, <2>2 DEF Init, Room!Init, StatusOfAll, Expected
<1>2. Inv /\ [Next]_vars => [Room!Next]_(Room!vars)
  BY RoomStep
<1> QED  BY <1>1, <1>2, Invariance, PTL DEF Spec, Room!Spec, ImplementsAttendance
=============================================================================
