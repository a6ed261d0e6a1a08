-------------------------- MODULE EventOrder_proofs --------------------------
(***************************************************************************)
(* Proofs about EventOrder: OrderInv is inductive, for any number of       *)
(* deliveries, keys and processes, and implies the safety properties.      *)
(***************************************************************************)
EXTENDS EventOrder, FiniteSetTheorems, WellFoundedInduction, TLAPS

(* Nothing is handed out, so nothing is held, chained or in a map.         *)
LEMMA OrderInit == Init => OrderInv
  <1> SUFFICES ASSUME Init PROVE OrderInv
    OBVIOUS
  <1> USE OrderAssumption DEF Init
  <1>1. TypeOK
    BY DEF TypeOK, Deliveries
  <1>2. HandedInv
    BY DEF HandedInv, Deliveries
  <1>3. LocksInv
    BY DEF LocksInv
  <1>4. TailsArePending
    BY DEF TailsArePending, Deliveries
  <1>5. TailsAreLast /\ ChainInv
    BY DEF TailsAreLast, ChainInv, Pending
  <1>6. OverInv
    BY DEF OverInv
  <1> QED
    BY <1>1, <1>2, <1>3, <1>4, <1>5, <1>6 DEF OrderInv

(* Handing out the next delivery: it registers behind the last pending     *)
(* delivery of each of its keys and becomes the last one itself.           *)
LEMMA RegisterPreserves ==
  ASSUME OrderInv, NEW p \in Processes, Register(p)
  PROVE  OrderInv'
  <1> DEFINE d == handed + 1
  <1>a. /\ d \in Deliveries /\ d \in Nat /\ handed \in Nat /\ handed < d
        /\ handed' = d
        /\ pc[d] = "waiting" /\ held[d] = {}
        /\ KeysOf[d] \subseteq Keys
    <2>1. handed \in Nat /\ handed < N /\ N \in Nat /\ handed' = d
      BY OrderAssumption DEF Register, OrderInv, TypeOK
    <2>2. d \in Deliveries
      BY <2>1 DEF Deliveries
    <2>3. pc[d] = "waiting"
      BY <2>1, <2>2 DEF OrderInv, HandedInv
    <2>4. held[d] = {}
      BY <2>2, <2>3 DEF OrderInv, LocksInv
    <2> QED
      BY <2>1, <2>2, <2>3, <2>4, OrderAssumption
  <1>b. /\ pc' = [pc EXCEPT ![d] = "chained"]
        /\ proc' = [proc EXCEPT ![d] = p]
        /\ before' = [before EXCEPT ![d] = {tails[p][k] : k \in KeysOf[d]} \ {None}]
        /\ tails' = [tails EXCEPT
                       ![p] = [k \in Keys |-> IF k \in KeysOf[d] THEN d ELSE @[k]]]
        /\ held' = held /\ crashes' = crashes
    BY DEF Register
  <1>c. /\ pc' \in [Deliveries -> {"waiting", "chained", "locking", "running",
                                  "ended", "settled", "lost"}]
        /\ pc'[d] = "chained" /\ proc'[d] = p
        /\ \A c \in Deliveries \ {d} : /\ pc'[c] = pc[c] /\ proc'[c] = proc[c]
                                       /\ before'[c] = before[c]
        /\ \A q \in Processes \ {p} : tails'[q] = tails[q]
        /\ \A k \in Keys : tails'[p][k] = IF k \in KeysOf[d] THEN d ELSE tails[p][k]
    BY <1>a, <1>b DEF OrderInv, TypeOK
  <1>d. \A c \in Deliveries : Pending(c)' <=> c = d \/ Pending(c)
    BY <1>a, <1>c DEF Pending
  <1>e. \A c \in Deliveries : c > d => ~Pending(c) /\ pc[c] = "waiting" /\ proc[c] = None
    BY <1>a DEF OrderInv, HandedInv, Pending, Deliveries
  <1>f. \A c \in Deliveries : Pending(c) => c < d
    BY <1>a DEF OrderInv, HandedInv, Pending, Deliveries
  <1>g. \A b \in before'[d] : /\ b \in Deliveries /\ b < d /\ Pending(b)
                              /\ proc[b] = p
    <2>1. before'[d] = {tails[p][k] : k \in KeysOf[d]} \ {None}
      BY <1>a, <1>b DEF OrderInv, TypeOK
    <2>2. \A k \in KeysOf[d] : tails[p][k] # None =>
             /\ tails[p][k] \in Deliveries
             /\ Pending(tails[p][k]) /\ proc[tails[p][k]] = p
      BY <1>a DEF OrderInv, TypeOK, TailsArePending
    <2> QED
      BY <2>1, <2>2, <1>f
  <1>1. TypeOK'
    <2>1. before'[d] \subseteq Deliveries
      BY <1>g
    <2>2. tails' \in [Processes -> [Keys -> Deliveries \union {None}]]
      BY <1>a, <1>b DEF OrderInv, TypeOK
    <2>3. before' \in [Deliveries -> SUBSET Deliveries]
      BY <2>1, <1>a, <1>b DEF OrderInv, TypeOK
    <2>4. handed' \in 0..N
      BY <1>a, OrderAssumption DEF Deliveries
    <2> QED
      BY <2>2, <2>3, <2>4, <1>a, <1>b, <1>c DEF OrderInv, TypeOK
  <1>2. HandedInv'
    <2> SUFFICES ASSUME NEW c \in Deliveries
                 PROVE  /\ pc'[c] = "waiting" <=> handed' < c
                        /\ proc'[c] = None <=> handed' < c
                        /\ \A b \in before'[c] : b < c
      BY DEF HandedInv
    <2>1. CASE c = d
      BY <2>1, <1>a, <1>c, <1>g, OrderAssumption
    <2>2. CASE c # d
      BY <2>2, <1>a, <1>c, OrderAssumption DEF OrderInv, HandedInv, Deliveries
    <2> QED
      BY <2>1, <2>2
  <1>3. LocksInv'
    BY <1>a, <1>b, <1>c DEF OrderInv, LocksInv
  <1>4. TailsArePending'
    <2> SUFFICES ASSUME NEW q \in Processes, NEW k \in Keys, NEW t \in Deliveries,
                        tails'[q][k] = t
                 PROVE  Pending(t)' /\ proc'[t] = q /\ k \in KeysOf[t]
      BY DEF TailsArePending
    <2>1. CASE q = p /\ k \in KeysOf[d]
      <3>1. t = d
        BY <2>1, <1>c
      <3> QED
        BY <3>1, <2>1, <1>a, <1>c, <1>d
    <2>2. CASE ~(q = p /\ k \in KeysOf[d])
      <3>1. tails[q][k] = t
        BY <2>2, <1>c
      <3>2. Pending(t) /\ proc[t] = q /\ k \in KeysOf[t]
        BY <3>1 DEF OrderInv, TailsArePending
      <3>3. t # d
        BY <3>2, <1>f, <1>a
      <3> QED
        BY <3>2, <3>3, <1>c, <1>d
    <2> QED
      BY <2>1, <2>2
  <1>5. TailsAreLast'
    <2> SUFFICES ASSUME NEW c \in Deliveries, Pending(c)', NEW k \in KeysOf[c]
                 PROVE  tails'[proc'[c]][k] # None /\ c <= tails'[proc'[c]][k]
      BY DEF TailsAreLast
    <2>0. k \in Keys /\ d # None /\ c \in Nat
      BY <1>a, OrderAssumption DEF Deliveries
    <2>1. CASE c = d
      BY <2>0, <2>1, <1>a, <1>c
    <2>2. CASE c # d
      <3>1. /\ Pending(c) /\ c < d /\ proc'[c] = proc[c] /\ proc[c] \in Processes
            /\ tails[proc[c]][k] # None /\ c <= tails[proc[c]][k]
        BY <2>2, <1>a, <1>c, <1>d, <1>f
           DEF OrderInv, TailsAreLast, TypeOK, HandedInv, Pending
      <3> QED
        BY <3>1, <2>0, <1>a, <1>c
    <2> QED
      BY <2>1, <2>2
  <1>6. ChainInv'
    <2> SUFFICES ASSUME NEW c \in Deliveries, NEW e \in Deliveries,
                        c < e, Pending(c)', Pending(e)', proc'[c] = proc'[e],
                        NEW k \in KeysOf[c] \intersect KeysOf[e]
                 PROVE  \E b \in before'[e] : /\ c <= b /\ proc'[b] = proc'[e]
                                              /\ k \in KeysOf[b]
      BY DEF ChainInv
    <2>0. c # d /\ Pending(c) /\ proc'[c] = proc[c] /\ k \in Keys /\ c \in Nat /\ e \in Nat
      BY <1>a, <1>c, <1>d, <1>f, OrderAssumption DEF Deliveries
    <2>1. CASE e = d
      <3>0. proc[c] = p
        BY <2>0, <2>1, <1>c
      <3>1. tails[p][k] # None /\ c <= tails[p][k]
        BY <2>0, <3>0 DEF OrderInv, TailsAreLast
      <3>2. tails[p][k] \in Deliveries
        BY <2>0, <3>1 DEF OrderInv, TypeOK
      <3>3. k \in KeysOf[tails[p][k]]
        BY <2>0, <3>2 DEF OrderInv, TailsArePending
      <3>4. tails[p][k] \in before'[d]
        BY <2>1, <3>1, <1>a, <1>b DEF OrderInv, TypeOK
      <3>5. proc'[tails[p][k]] = p
        BY <3>4, <1>a, <1>c, <1>g
      <3> QED
        BY <2>1, <3>1, <3>3, <3>4, <3>5, <1>c
    <2>2. CASE e # d
      <3>0. Pending(e) /\ proc'[e] = proc[e] /\ before'[e] = before[e]
            /\ proc[c] = proc[e]
        BY <2>0, <2>2, <1>c, <1>d
      <3>1. PICK b \in before[e] : c <= b /\ proc[b] = proc[e] /\ k \in KeysOf[b]
        BY <2>0, <3>0 DEF OrderInv, ChainInv
      <3>2. b \in Deliveries /\ b < e /\ e < d
        BY <2>2, <1>d, <1>f DEF OrderInv, TypeOK, HandedInv
      <3>3. b # d
        BY <3>2, <2>0, <1>a, OrderAssumption DEF Deliveries
      <3> QED
        BY <3>0, <3>1, <3>2, <3>3, <2>2, <1>c
    <2> QED
      BY <2>1, <2>2
  <1>7. OverInv'
    <2> SUFFICES ASSUME NEW c \in Deliveries, NEW e \in Deliveries,
                        c < e, proc'[c] = proc'[e], proc'[e] # None, Share(c, e),
                        pc'[e] \notin {"waiting", "chained"}
                 PROVE  ~Pending(c)'
      BY DEF OverInv, Share
    <2>1. e # d /\ pc[e] = pc'[e] /\ proc[e] = proc'[e]
      BY <1>c
    <2>2. c # d
      BY <2>1, <1>a, <1>e
    <2> QED
      BY <2>1, <2>2, <1>c, <1>d DEF OrderInv, OverInv
  <1> QED
    BY <1>1, <1>2, <1>3, <1>4, <1>5, <1>6, <1>7 DEF OrderInv

(* A step inside one delivery's transaction leaves the serializer alone:   *)
(* only the locks and the order of what is over have to be looked at.      *)
LEMMA WithinTransaction ==
  ASSUME OrderInv, TypeOK', LocksInv', OverInv',
         UNCHANGED <<handed, proc, before, tails>>,
         \A c \in Deliveries : /\ Pending(c)' <=> Pending(c)
                               /\ pc'[c] = "waiting" <=> pc[c] = "waiting"
  PROVE  OrderInv'
  <1>1. HandedInv'
    BY DEF OrderInv, HandedInv
  <1>2. TailsArePending'
    BY DEF OrderInv, TailsArePending
  <1>3. TailsAreLast'
    BY DEF OrderInv, TailsAreLast
  <1>4. ChainInv'
    BY DEF OrderInv, ChainInv
  <1> QED
    BY <1>1, <1>2, <1>3, <1>4 DEF OrderInv

(* Opening a transaction: whatever the delivery waited for is over, and so *)
(* is, along the chain, every earlier delivery it shares a key with.       *)
LEMMA BeginPreserves ==
  ASSUME OrderInv, NEW d \in Deliveries, Begin(d)
  PROVE  OrderInv'
  <1>a. /\ pc[d] = "chained" /\ pc' = [pc EXCEPT ![d] = "locking"]
        /\ UNCHANGED <<handed, proc, before, tails, held, crashes>>
        /\ \A b \in before[d] : ~Pending(b)
    BY DEF Begin
  <1>b. /\ pc'[d] = "locking"
        /\ \A c \in Deliveries \ {d} : pc'[c] = pc[c]
    BY <1>a DEF OrderInv, TypeOK
  <1>c. \A c \in Deliveries : /\ Pending(c)' <=> Pending(c)
                              /\ pc'[c] = "waiting" <=> pc[c] = "waiting"
    BY <1>a, <1>b DEF Pending
  <1>1. TypeOK'
    BY <1>a DEF OrderInv, TypeOK
  <1>2. LocksInv'
    BY <1>a, <1>b DEF OrderInv, LocksInv
  <1>3. ASSUME NEW c \in Deliveries, c < d, proc[c] = proc[d], proc[d] # None,
               Share(c, d), Pending(c)
        PROVE  FALSE
    <2>1. PICK k \in KeysOf[c] \intersect KeysOf[d] : TRUE
      BY <1>3 DEF Share
    <2>2. Pending(d)
      BY <1>a DEF Pending
    <2>3. PICK b \in before[d] : c <= b /\ proc[b] = proc[d] /\ k \in KeysOf[b]
      BY <1>3, <2>1, <2>2 DEF OrderInv, ChainInv
    <2>4. b \in Deliveries /\ b < d /\ ~Pending(b)
      BY <1>a, <2>3 DEF OrderInv, TypeOK, HandedInv
    <2>5. c < b
      BY <1>3, <2>3, <2>4, OrderAssumption DEF Deliveries
    <2>6. pc[b] \notin {"waiting", "chained"}
      BY <1>3, <2>3, <2>4 DEF OrderInv, HandedInv, Pending
    <2> QED
      BY <1>3, <2>1, <2>3, <2>4, <2>5, <2>6 DEF OrderInv, OverInv, Share
  <1>4. OverInv'
    BY <1>a, <1>b, <1>c, <1>3 DEF OrderInv, OverInv, Share
  <1> QED
    BY <1>a, <1>c, <1>1, <1>2, <1>4, WithinTransaction

(* Taking the next lock: it is free, and larger than those already held.   *)
LEMMA TakeLockPreserves ==
  ASSUME OrderInv, NEW d \in Deliveries, NEW k \in Keys, TakeLock(d, k)
  PROVE  OrderInv'
  <1>a. /\ pc[d] = "locking" /\ held' = [held EXCEPT ![d] = @ \union {k}]
        /\ UNCHANGED <<handed, pc, proc, before, tails, crashes>>
        /\ k \in KeysOf[d] \ held[d]
        /\ \A l \in KeysOf[d] \ held[d] : k <= l
        /\ \A o \in Deliveries \ {d} : k \notin held[o]
    BY DEF TakeLock, IsNextLock, LockFree
  <1>b. /\ held'[d] = held[d] \union {k}
        /\ \A c \in Deliveries \ {d} : held'[c] = held[c]
        /\ KeysOf[d] \subseteq Nat
    BY <1>a, OrderAssumption DEF OrderInv, TypeOK
  <1>1. TypeOK'
    BY <1>a DEF OrderInv, TypeOK
  <1>2. LocksInv'
    <2>1. \A c, e \in Deliveries : c # e => held'[c] \intersect held'[e] = {}
      BY <1>a, <1>b DEF OrderInv, LocksInv
    <2>2. \A e \in Deliveries :
            /\ pc[e] = "running" => held'[e] = KeysOf[e]
            /\ held'[e] # {} => pc[e] \in {"locking", "running"}
      BY <1>a, <1>b DEF OrderInv, LocksInv
    <2>3. \A l \in held'[d], m \in KeysOf[d] \ held'[d] : l < m
      <3> SUFFICES ASSUME NEW l \in held'[d], NEW m \in KeysOf[d] \ held'[d]
                   PROVE  l < m
        OBVIOUS
      <3>1. k <= m /\ k # m /\ k \in Nat /\ m \in Nat
        BY <1>a, <1>b
      <3>2. CASE l = k
        BY <3>1, <3>2
      <3>3. CASE l \in held[d]
        BY <3>3, <1>b DEF OrderInv, LocksInv
      <3> QED
        BY <1>b, <3>2, <3>3
    <2> QED
      BY <1>a, <1>b, <2>1, <2>2, <2>3 DEF OrderInv, LocksInv
  <1>3. OverInv' /\ \A c \in Deliveries : Pending(c)' <=> Pending(c)
    BY <1>a DEF OrderInv, OverInv, Pending
  <1> QED
    BY <1>a, <1>1, <1>2, <1>3, WithinTransaction

(* Running the handlers: every lock of the event is held.                  *)
LEMMA DispatchPreserves ==
  ASSUME OrderInv, NEW d \in Deliveries, Dispatch(d)
  PROVE  OrderInv'
  <1>a. /\ pc[d] = "locking" /\ pc' = [pc EXCEPT ![d] = "running"]
        /\ held[d] = KeysOf[d]
        /\ UNCHANGED <<handed, proc, before, tails, held, crashes>>
    BY DEF Dispatch
  <1>b. /\ pc'[d] = "running"
        /\ \A c \in Deliveries \ {d} : pc'[c] = pc[c]
    BY <1>a DEF OrderInv, TypeOK
  <1>c. \A c \in Deliveries : /\ Pending(c)' <=> Pending(c)
                              /\ pc'[c] = "waiting" <=> pc[c] = "waiting"
    BY <1>a, <1>b DEF Pending
  <1>1. TypeOK'
    BY <1>a DEF OrderInv, TypeOK
  <1>2. LocksInv'
    BY <1>a, <1>b DEF OrderInv, LocksInv
  <1>3. OverInv'
    BY <1>a, <1>b, <1>c DEF OrderInv, OverInv, Share
  <1> QED
    BY <1>a, <1>c, <1>1, <1>2, <1>3, WithinTransaction

(* Committing or rolling back: the locks go, the promise is still pending. *)
LEMMA EndTransactionPreserves ==
  ASSUME OrderInv, NEW d \in Deliveries, EndTransaction(d)
  PROVE  OrderInv'
  <1>a. /\ pc[d] \in {"locking", "running"} /\ pc' = [pc EXCEPT ![d] = "ended"]
        /\ held' = [held EXCEPT ![d] = {}]
        /\ UNCHANGED <<handed, proc, before, tails, crashes>>
    BY DEF EndTransaction
  <1>b. /\ pc'[d] = "ended" /\ held'[d] = {}
        /\ \A c \in Deliveries \ {d} : pc'[c] = pc[c] /\ held'[c] = held[c]
    BY <1>a DEF OrderInv, TypeOK
  <1>c. \A c \in Deliveries : /\ Pending(c)' <=> Pending(c)
                              /\ pc'[c] = "waiting" <=> pc[c] = "waiting"
    BY <1>a, <1>b DEF Pending
  <1>1. TypeOK'
    BY <1>a DEF OrderInv, TypeOK
  <1>2. LocksInv'
    BY <1>b DEF OrderInv, LocksInv
  <1>3. OverInv'
    BY <1>a, <1>b, <1>c DEF OrderInv, OverInv, Share
  <1> QED
    BY <1>a, <1>c, <1>1, <1>2, <1>3, WithinTransaction

(* Resolving the promise: nothing earlier shares a key with it, so a tail  *)
(* it forgets was nobody else's to wait for.                               *)
LEMMA SettlePreserves ==
  ASSUME OrderInv, NEW d \in Deliveries, Settle(d)
  PROVE  OrderInv'
  <1> DEFINE p == proc[d]
  <1>a. /\ pc[d] = "ended" /\ pc' = [pc EXCEPT ![d] = "settled"]
        /\ tails' = [tails EXCEPT
                       ![p] = [k \in Keys |-> IF @[k] = d THEN None ELSE @[k]]]
        /\ UNCHANGED <<handed, proc, before, held, crashes>>
    BY DEF Settle
  <1>b. /\ pc'[d] = "settled" /\ d \in Nat /\ d # None
        /\ \A c \in Deliveries \ {d} : pc'[c] = pc[c]
        /\ p \in Processes /\ p # None
    BY <1>a, OrderAssumption DEF OrderInv, TypeOK, HandedInv, Deliveries
  <1>c. /\ \A q \in Processes \ {p} : tails'[q] = tails[q]
        /\ \A k \in Keys : tails'[p][k] = IF tails[p][k] = d THEN None
                                            ELSE tails[p][k]
    BY <1>a, <1>b DEF OrderInv, TypeOK
  <1>d. \A c \in Deliveries : Pending(c)' <=> Pending(c) /\ c # d
    BY <1>a, <1>b DEF Pending
  <1>1. TypeOK'
    <2>1. tails' \in [Processes -> [Keys -> Deliveries \union {None}]]
      BY <1>a, <1>b DEF OrderInv, TypeOK
    <2> QED
      BY <2>1, <1>a DEF OrderInv, TypeOK
  <1>2. HandedInv'
    BY <1>a, <1>b DEF OrderInv, HandedInv
  <1>3. LocksInv'
    BY <1>a, <1>b DEF OrderInv, LocksInv
  <1>4. TailsArePending'
    <2> SUFFICES ASSUME NEW q \in Processes, NEW k \in Keys, NEW t \in Deliveries,
                        tails'[q][k] = t
                 PROVE  Pending(t)' /\ proc'[t] = q /\ k \in KeysOf[t]
      BY DEF TailsArePending
    <2>1. t # None
      BY OrderAssumption DEF Deliveries
    <2>2. tails[q][k] = t
      BY <2>1, <1>b, <1>c
    <2>3. Pending(t) /\ proc[t] = q /\ k \in KeysOf[t]
      BY <2>2 DEF OrderInv, TailsArePending
    <2>4. t # d
      BY <2>1, <2>2, <2>3, <1>b, <1>c
    <2> QED
      BY <2>3, <2>4, <1>a, <1>d
  <1>5. TailsAreLast'
    <2> SUFFICES ASSUME NEW c \in Deliveries, Pending(c)', NEW k \in KeysOf[c]
                 PROVE  tails'[proc'[c]][k] # None /\ c <= tails'[proc'[c]][k]
      BY DEF TailsAreLast
    <2>1. Pending(c) /\ c # d /\ proc'[c] = proc[c] /\ c \in Nat /\ k \in Keys
      BY <1>a, <1>d, OrderAssumption DEF Deliveries
    <2>2. tails[proc[c]][k] # None /\ c <= tails[proc[c]][k]
      BY <2>1 DEF OrderInv, TailsAreLast
    <2>3. proc[c] \in Processes
      BY <2>1, <1>b DEF OrderInv, TypeOK, HandedInv, Pending
    <2>4. CASE proc[c] = p /\ tails[p][k] = d
      <3>1. c < d /\ Share(c, d)
        BY <2>1, <2>2, <2>4, <1>b DEF OrderInv, TailsArePending, Share
      <3>2. ~Pending(c)
        BY <3>1, <2>4, <1>a, <1>b DEF OrderInv, OverInv
      <3> QED
        BY <3>2, <2>1
    <2>5. CASE ~(proc[c] = p /\ tails[p][k] = d)
      BY <2>1, <2>2, <2>3, <2>5, <1>c
    <2> QED
      BY <2>4, <2>5
  <1>6. ChainInv'
    BY <1>a, <1>d DEF OrderInv, ChainInv
  <1>7. OverInv'
    <2>1. ASSUME NEW c \in Deliveries, c < d, proc[c] = proc[d], Share(c, d)
          PROVE  ~Pending(c)
      BY <2>1, <1>a, <1>b DEF OrderInv, OverInv
    <2> QED
      BY <2>1, <1>a, <1>b, <1>d DEF OrderInv, OverInv, Share
  <1> QED
    BY <1>1, <1>2, <1>3, <1>4, <1>5, <1>6, <1>7 DEF OrderInv

(* A process dies: its map and everything pending in it go at once.        *)
LEMMA CrashPreserves ==
  ASSUME OrderInv, NEW p \in Processes, Crash(p)
  PROVE  OrderInv'
  <1>a. /\ pc' = [d \in Deliveries |-> IF d \in Slots(p) THEN "lost" ELSE pc[d]]
        /\ held' = [d \in Deliveries |-> IF d \in Slots(p) THEN {} ELSE held[d]]
        /\ tails' = [tails EXCEPT ![p] = [k \in Keys |-> None]]
        /\ crashes < MaxCrashes /\ crashes' = crashes + 1
        /\ UNCHANGED <<handed, proc, before>>
    BY DEF Crash
  <1>b. \A d \in Deliveries : d \in Slots(p) <=> proc[d] = p /\ Pending(d)
    BY DEF Slots
  <1>c. \A d \in Deliveries : Pending(d)' <=> Pending(d) /\ proc[d] # p
    BY <1>a, <1>b DEF Pending
  <1>d. /\ \A q \in Processes \ {p} : tails'[q] = tails[q]
        /\ \A k \in Keys : tails'[p][k] = None
    BY <1>a DEF OrderInv, TypeOK
  <1>1. TypeOK'
    <2>1. crashes' \in 0..MaxCrashes
      BY <1>a, OrderAssumption DEF OrderInv, TypeOK
    <2> QED
      BY <2>1, <1>a DEF OrderInv, TypeOK
  <1>2. HandedInv'
    <2>1. \A d \in Deliveries : pc'[d] = "waiting" <=> pc[d] = "waiting"
      BY <1>a, <1>b DEF Pending
    <2> QED
      BY <2>1, <1>a DEF OrderInv, HandedInv
  <1>3. LocksInv'
    BY <1>a DEF OrderInv, LocksInv
  <1>4. TailsArePending'
    <2> SUFFICES ASSUME NEW q \in Processes, NEW k \in Keys, NEW t \in Deliveries,
                        tails'[q][k] = t
                 PROVE  Pending(t)' /\ proc'[t] = q /\ k \in KeysOf[t]
      BY DEF TailsArePending
    <2>1. q # p /\ tails[q][k] = t
      BY <1>d, OrderAssumption DEF Deliveries
    <2> QED
      BY <2>1, <1>a, <1>c DEF OrderInv, TailsArePending
  <1>5. TailsAreLast'
    <2> SUFFICES ASSUME NEW c \in Deliveries, Pending(c)', NEW k \in KeysOf[c]
                 PROVE  tails'[proc'[c]][k] # None /\ c <= tails'[proc'[c]][k]
      BY DEF TailsAreLast
    <2>1. Pending(c) /\ proc'[c] = proc[c] /\ proc[c] \in Processes \ {p}
      BY <1>a, <1>c DEF OrderInv, TypeOK, HandedInv, Pending
    <2> QED
      BY <2>1, <1>d DEF OrderInv, TailsAreLast
  <1>6. ChainInv'
    BY <1>a, <1>c DEF OrderInv, ChainInv
  <1>7. OverInv'
    <2> SUFFICES ASSUME NEW c \in Deliveries, NEW e \in Deliveries,
                        c < e, proc[c] = proc[e], proc[e] # None, Share(c, e),
                        pc'[e] \notin {"waiting", "chained"}, Pending(c)'
                 PROVE  FALSE
      BY <1>a DEF OverInv, Share
    <2>1. Pending(c) /\ proc[e] # p /\ pc'[e] = pc[e]
      BY <1>a, <1>b, <1>c
    <2> QED
      BY <2>1 DEF OrderInv, OverInv
  <1> QED
    BY <1>1, <1>2, <1>3, <1>4, <1>5, <1>6, <1>7 DEF OrderInv

(* Every step of the serializers, the locks and the processes.             *)
LEMMA OrderNext == OrderInv /\ [Next]_vars => OrderInv'
  <1> SUFFICES ASSUME OrderInv, [Next]_vars
               PROVE  OrderInv'
    OBVIOUS
  <1>1. ASSUME NEW p \in Processes, Register(p) \/ Crash(p)
        PROVE  OrderInv'
    BY <1>1, RegisterPreserves, CrashPreserves
  <1>2. ASSUME NEW d \in Deliveries, Advance(d) \/ EndTransaction(d)
        PROVE  OrderInv'
    BY <1>2, BeginPreserves, TakeLockPreserves, DispatchPreserves,
       SettlePreserves, EndTransactionPreserves DEF Advance
  <1>3. CASE UNCHANGED vars
    BY <1>3 DEF vars, OrderInv, TypeOK, HandedInv, LocksInv, TailsArePending,
                TailsAreLast, ChainInv, OverInv, Pending, Share
  <1> QED
    BY <1>1, <1>2, <1>3 DEF Next

(* The serializers and the advisory locks keep OrderInv for ever: for any  *)
(* deliveries, keys and processes, whatever crashes.                       *)
THEOREM OrderCorrect == Spec => []OrderInv
  <1> QED
    BY OrderInit, OrderNext, PTL DEF Spec

(* Deliveries, tails and locks keep their shapes, for any deliveries and   *)
(* processes.                                                              *)
THEOREM TypeCorrect == Spec => []TypeOK
  <1>1. OrderInv => TypeOK
    BY DEF OrderInv
  <1> QED
    BY <1>1, OrderCorrect, PTL

(* No two deliveries that share an ordering key run at one moment, in one  *)
(* process or in two.                                                      *)
THEOREM OneAtATime == Spec => []OneEventPerKey
  <1>1. OrderInv => OneEventPerKey
    BY DEF OrderInv, LocksInv, OneEventPerKey, Share
  <1> QED
    BY <1>1, OrderCorrect, PTL

(* In one process, call order is execution order for each key.             *)
THEOREM CallOrderIsExecutionOrder == Spec => []ProcessOrder
  <1>1. OrderInv => ProcessOrder
    <2> SUFFICES ASSUME OrderInv, NEW c \in Deliveries, NEW d \in Deliveries,
                        c < d, proc[c] = proc[d], Share(c, d),
                        pc[d] \in {"locking", "running", "ended", "settled"}
                 PROVE  ~Pending(c)
      BY DEF ProcessOrder
    <2>1. proc[d] # None
      BY DEF OrderInv, HandedInv
    <2> QED
      BY <2>1 DEF OrderInv, OverInv
  <1> QED
    BY <1>1, OrderCorrect, PTL

(* The serializer's map holds nothing but pending deliveries.              *)
THEOREM MapDoesNotLeak == Spec => []TailsArePending
  <1>1. OrderInv => TailsArePending
    BY DEF OrderInv
  <1> QED
    BY <1>1, OrderCorrect, PTL

-----------------------------------------------------------------------------
(* The queue per ticket.                                                   *)

(* A delivery past its chain has its turn: what came before it to its      *)
(* process and shares a key is over, and was handed out.                   *)
LEMMA TurnComes ==
  ASSUME OrderInv, NEW d \in Deliveries, pc[d] = "locking"
  PROVE  Queue!HasTurn(d)
  <1> DEFINE phase == [c \in Deliveries |-> Phase(c)]
  <1>1. phase[d] = "queued"
    BY DEF Phase
  <1>2. ASSUME NEW c \in Deliveries, c < d, proc[c] = proc[d], Share(c, d)
        PROVE  phase[c] = "over"
    <2>1. proc[d] # None /\ ~Pending(c)
      BY <1>2 DEF OrderInv, HandedInv, OverInv
    <2>2. pc[c] # "waiting"
      BY <1>2, <2>1 DEF OrderInv, HandedInv
    <2> QED
      BY <2>1, <2>2 DEF OrderInv, TypeOK, Pending, Phase
  <1> QED
    BY <1>1, <1>2 DEF Queue!HasTurn, Queue!Deliveries, Deliveries, Queue!Share, Share

(* When no phase moves but one, the phases are the old ones with that one  *)
(* replaced.                                                               *)
LEMMA OnePhaseMoves ==
  ASSUME OrderInv, NEW d \in Deliveries, NEW to, pc' = [pc EXCEPT ![d] = to]
  PROVE  [c \in Deliveries |-> Phase(c)'] =
           [[c \in Deliveries |-> Phase(c)] EXCEPT ![d] = Phase(d)']
  <1>1. \A c \in Deliveries : c # d => pc'[c] = pc[c]
    BY DEF OrderInv, TypeOK
  <1>2. \A c \in Deliveries : c # d => Phase(c)' = Phase(c)
    BY <1>1 DEF Phase
  <1> QED
    BY <1>2

(* Every step is a step of the queue, or changes nothing a subscriber sees.*)
LEMMA QueueStep == OrderInv /\ [Next]_vars => [Queue!Next]_(Queue!vars)
  <1> SUFFICES ASSUME OrderInv, [Next]_vars
               PROVE  [Queue!Next]_(Queue!vars)
    OBVIOUS
  <1> DEFINE phase == [c \in Deliveries |-> Phase(c)]
             phase2 == [c \in Deliveries |-> Phase(c)']
  <1>t. pc \in [Deliveries -> {"waiting", "chained", "locking", "running", "ended",
                               "settled", "lost"}]
    BY DEF OrderInv, TypeOK
  <1>d. Queue!Deliveries = Deliveries
    BY DEF Queue!Deliveries, Deliveries
  <1>1. ASSUME NEW p \in Processes, Register(p)
        PROVE  Queue!Next
    <2>1. handed + 1 \in Deliveries /\ handed \in Nat
      BY <1>1, OrderAssumption DEF Register, OrderInv, TypeOK, Deliveries
    <2>d. PICK d \in Deliveries : d = handed + 1
      BY <2>1
    <2>2. pc' = [pc EXCEPT ![d] = "chained"] /\ proc' = [proc EXCEPT ![d] = p]
      BY <1>1, <2>d DEF Register
    <2>3. pc[d] = "waiting" /\ \A c \in Deliveries : c < d => pc[c] # "waiting"
      BY <2>1, <2>d DEF OrderInv, HandedInv, Deliveries
    <2>4. phase2 = [phase EXCEPT ![d] = Phase(d)']
      BY <2>1, <2>2, OnePhaseMoves
    <2>5. Phase(d)' = "queued"
      BY <1>t, <2>1, <2>2 DEF Phase
    <2>6. phase[d] = "waiting" /\ \A c \in Deliveries : c < d => phase[c] # "waiting"
      BY <1>t, <2>1, <2>3 DEF Phase
    <2>7. Queue!Hand(d, p)
      BY <1>d, <2>2, <2>4, <2>5, <2>6 DEF Queue!Hand
    <2> QED
      BY <1>d, <2>1, <2>7 DEF Queue!Next
  <1>2. ASSUME NEW d \in Deliveries, Dispatch(d)
        PROVE  Queue!Next
    <2>1. /\ pc[d] = "locking" /\ held[d] = KeysOf[d]
          /\ pc' = [pc EXCEPT ![d] = "running"] /\ proc' = proc
      BY <1>2 DEF Dispatch
    <2>2. phase2 = [phase EXCEPT ![d] = Phase(d)']
      BY <2>1, OnePhaseMoves
    <2>3. Phase(d)' = "running"
      BY <1>t, <2>1 DEF Phase
    <2>4. ASSUME NEW c \in Deliveries, c # d, Share(c, d)
          PROVE  phase[c] # "running"
      <3>1. pc[c] # "running"
        BY <2>1, <2>4 DEF OrderInv, LocksInv, Share
      <3> QED
        BY <1>t, <3>1 DEF Phase
    <2>5. Queue!HasTurn(d)
      BY <2>1, TurnComes
    <2>6. Queue!Start(d)
      BY <1>d, <2>1, <2>2, <2>3, <2>4, <2>5 DEF Queue!Start, Queue!Share, Share
    <2> QED
      BY <1>d, <2>6 DEF Queue!Next
  <1>3. ASSUME NEW d \in Deliveries, EndTransaction(d)
        PROVE  Queue!Next
    <2>1. /\ pc[d] \in {"locking", "running"}
          /\ pc' = [pc EXCEPT ![d] = "ended"] /\ proc' = proc
      BY <1>3 DEF EndTransaction
    <2>2. phase2 = [phase EXCEPT ![d] = Phase(d)']
      BY <2>1, OnePhaseMoves
    <2>3. Phase(d)' = "over"
      BY <1>t, <2>1 DEF Phase
    <2>4. CASE pc[d] = "locking"
      <3>1. Queue!HasTurn(d)
        BY <2>4, TurnComes
      <3>2. Queue!GiveUp(d)
        BY <2>1, <2>2, <2>3, <3>1 DEF Queue!GiveUp
      <3> QED
        BY <1>d, <3>2 DEF Queue!Next
    <2>5. CASE pc[d] = "running"
      <3>1. phase[d] = "running"
        BY <2>5 DEF Phase
      <3>2. Queue!End(d)
        BY <2>1, <2>2, <2>3, <3>1 DEF Queue!End
      <3> QED
        BY <1>d, <3>2 DEF Queue!Next
    <2> QED
      BY <2>1, <2>4, <2>5
  <1>4. ASSUME NEW p \in Processes, Crash(p)
        PROVE  Queue!Next
    <2>1. /\ pc' = [d \in Deliveries |-> IF d \in Slots(p) THEN "lost" ELSE pc[d]]
          /\ proc' = proc
      BY <1>4 DEF Crash
    <2>2. ASSUME NEW d \in Deliveries
          PROVE  Phase(d)' = IF proc[d] = p THEN "over" ELSE phase[d]
      <3>1. CASE d \in Slots(p)
        BY <2>1, <3>1 DEF Slots, Phase
      <3>2. CASE d \notin Slots(p)
        <4>1. pc'[d] = pc[d] /\ (proc[d] = p => ~Pending(d))
          BY <2>1, <3>2 DEF Slots
        <4>2. proc[d] = p => pc[d] # "waiting"
          BY OrderAssumption DEF OrderInv, HandedInv
        <4> QED
          BY <1>t, <4>1, <4>2 DEF Pending, Phase
      <3> QED
        BY <3>1, <3>2
    <2>3. Queue!Crash(p)
      BY <1>d, <2>1, <2>2 DEF Queue!Crash
    <2> QED
      BY <2>3 DEF Queue!Next
  <1>5. ASSUME NEW d \in Deliveries, Begin(d) \/ Settle(d)
        PROVE  UNCHANGED Queue!vars
    <2>1. /\ \/ pc[d] = "chained" /\ pc' = [pc EXCEPT ![d] = "locking"]
             \/ pc[d] = "ended" /\ pc' = [pc EXCEPT ![d] = "settled"]
          /\ proc' = proc
      BY <1>5 DEF Begin, Settle
    <2>2. \A c \in Deliveries : Phase(c)' = Phase(c)
      BY <1>t, <2>1 DEF Phase
    <2> QED
      BY <2>1, <2>2 DEF Queue!vars
  <1>6. CASE UNCHANGED <<pc, proc>>
    BY <1>6 DEF Queue!vars, Phase
  <1>7. ASSUME NEW d \in Deliveries, NEW k \in Keys, TakeLock(d, k)
        PROVE  UNCHANGED Queue!vars
    BY <1>6, <1>7 DEF TakeLock, Queue!vars, Phase
  <1> QED
    BY <1>1, <1>2, <1>3, <1>4, <1>5, <1>6, <1>7 DEF Next, Advance, vars

(* Serializers and advisory locks implement EventQueue: per ticket, in the *)
(* order a process was handed its events, and one at a time everywhere.    *)
THEOREM OrderImplementsQueue == Spec => ImplementsEventQueue
  <1>1. Init => Queue!Init
    <2> SUFFICES ASSUME Init
                 PROVE  Queue!Init
      OBVIOUS
    <2>1. \A d \in Deliveries : Phase(d) = "waiting"
      BY DEF Init, Phase
    <2> QED
      BY <2>1 DEF Init, Queue!Init, Queue!Deliveries, Deliveries
  <1> QED
    BY <1>1, QueueStep, OrderCorrect, PTL DEF Spec, ImplementsEventQueue, Queue!Spec

-----------------------------------------------------------------------------
(* Freedom from deadlock.                                                  *)

(* A least element of a set of natural numbers.                            *)
LEMMA LeastNatural ==
  ASSUME NEW S \in SUBSET Nat, S # {}
  PROVE  \E m \in S : \A n \in S : m <= n
  <1> DEFINE R == OpToRel(<, Nat)
  <1>1. IsWellFoundedOn(R, Nat)
    BY NatLessThanWellFounded
  <1>2. \E m \in S : \A n \in S : ~(<<n, m>> \in R)
    BY <1>1, WFMin, Zenon
  <1>3. \A n, m \in S : n < m => <<n, m>> \in R
    BY DEF OpToRel
  <1> HIDE DEF R
  <1>4. PICK m \in S : \A n \in S : ~(<<n, m>> \in R)
    BY <1>2
  <1>5. \A n \in S : ~(n < m)
    BY <1>3, <1>4
  <1> QED
    BY <1>5

(* The keys that sort after a key.                                         *)
Above(k) == {l \in Keys : k < l}

(* Fewer keys lie above a larger key.                                      *)
LEMMA AboveShrinks ==
  ASSUME NEW k \in Keys, NEW l \in Keys, k < l
  PROVE  /\ Cardinality(Above(k)) \in Nat /\ Cardinality(Above(l)) \in Nat
         /\ Cardinality(Above(l)) < Cardinality(Above(k))
  <1>1. k \in Nat /\ l \in Nat /\ Keys \subseteq Nat /\ IsFiniteSet(Keys)
    BY OrderAssumption
  <1>2. /\ Above(k) \in SUBSET Keys /\ Above(l) \in SUBSET Above(k)
        /\ l \in Above(k) /\ l \notin Above(l)
    <2>1. \A n \in Keys : l < n => k < n
      BY <1>1
    <2>2. ~(l < l)
      BY <1>1
    <2> QED
      BY <2>1, <2>2 DEF Above
  <1>3. IsFiniteSet(Above(k))
    BY <1>1, <1>2, FS_Subset
  <1>4. /\ IsFiniteSet(Above(l))
        /\ Cardinality(Above(l)) <= Cardinality(Above(k))
        /\ Cardinality(Above(k)) # Cardinality(Above(l))
    BY <1>2, <1>3, FS_Subset
  <1>5. Cardinality(Above(k)) \in Nat /\ Cardinality(Above(l)) \in Nat
    BY <1>3, <1>4, FS_CardinalityType
  <1> QED
    BY <1>4, <1>5

(* Were every pending delivery blocked, the first of them would wait for a *)
(* lock; among those that do, take one that waits for the largest key: the *)
(* holder waits for a larger one still.                                    *)
LEMMA SomeoneMoves == OrderInv => NoDeadlock
  <1> SUFFICES ASSUME OrderInv, NEW d \in Deliveries, Pending(d),
                      \A c \in Deliveries : Pending(c) => ~Unblocked(c)
               PROVE  FALSE
    BY DEF NoDeadlock
  <1> DEFINE P == {c \in Deliveries : Pending(c)}
             Wanted == {k \in Keys : \E c \in Deliveries :
                                       pc[c] = "locking" /\ IsNextLock(c, k)}
             S == {Cardinality(Above(k)) : k \in Wanted}
  <1>1. PICK m \in P : \A n \in P : m <= n
    <2>1. P \in SUBSET Nat /\ P # {}
      BY DEF Deliveries
    <2> HIDE DEF P
    <2> QED
      BY <2>1, LeastNatural
  <1>2. \A c \in Deliveries : pc[c] = "locking" =>
          \E k \in Keys : IsNextLock(c, k) /\ ~LockFree(c, k)
    BY DEF Unblocked, Pending
  <1>3. pc[m] = "locking"
    <2>1. \A b \in before[m] : b \in Deliveries /\ b < m
      BY DEF OrderInv, TypeOK, HandedInv
    <2>2. \A b \in before[m] : ~Pending(b)
      BY <1>1, <2>1 DEF Deliveries
    <2> QED
      BY <2>2 DEF Unblocked, Pending
  <1>4. PICK k \in Wanted : \A l \in Wanted : Cardinality(Above(k)) <= Cardinality(Above(l))
    <2>1. Wanted # {}
      BY <1>2, <1>3
    <2>2. \A l \in Wanted : Cardinality(Above(l)) \in Nat
      <3> SUFFICES ASSUME NEW l \in Keys PROVE Cardinality(Above(l)) \in Nat
        OBVIOUS
      <3>1. IsFiniteSet(Above(l))
        BY OrderAssumption, FS_Subset DEF Above
      <3> QED
        BY <3>1, FS_CardinalityType
    <2> HIDE DEF Wanted
    <2>3. S \in SUBSET Nat /\ S # {}
      BY <2>1, <2>2
    <2>4. PICK n \in S : \A o \in S : n <= o
      <3> HIDE DEF S
      <3> QED
        BY <2>3, LeastNatural
    <2> QED
      BY <2>4
  <1>5. PICK c \in Deliveries : pc[c] = "locking" /\ IsNextLock(c, k)
    OBVIOUS
  <1>6. ~LockFree(c, k)
    <2>1. PICK l \in Keys : IsNextLock(c, l) /\ ~LockFree(c, l)
      BY <1>2, <1>5
    <2>2. k <= l /\ l <= k /\ k \in Nat /\ l \in Nat
      BY <1>5, <2>1, OrderAssumption DEF IsNextLock
    <2> QED
      BY <2>1, <2>2
  <1>7. PICK o \in Deliveries : k \in held[o]
    BY <1>6 DEF LockFree
  <1>8. pc[o] = "locking"
    <2>1. pc[o] \in {"locking", "running"}
      BY <1>7 DEF OrderInv, LocksInv
    <2> QED
      BY <2>1 DEF Unblocked, Pending
  <1>9. PICK l \in Keys : IsNextLock(o, l)
    BY <1>2, <1>8
  <1>10. k < l
    BY <1>7, <1>9 DEF OrderInv, LocksInv, IsNextLock
  <1>11. l \in Wanted
    BY <1>8, <1>9
  <1>12. /\ Cardinality(Above(l)) < Cardinality(Above(k))
         /\ Cardinality(Above(k)) \in Nat /\ Cardinality(Above(l)) \in Nat
    BY <1>10, AboveShrinks
  <1>13. Cardinality(Above(k)) <= Cardinality(Above(l))
    <2> HIDE DEF Wanted
    <2> QED
      BY <1>4, <1>11
  <1> QED
    BY <1>12, <1>13

(* Events that share several tickets cannot deadlock: not on the locks,    *)
(* not on the chains, and not on a chain in one process behind a lock held *)
(* in another.                                                             *)
THEOREM NeverDeadlocked == Spec => []NoDeadlock
  <1> QED
    BY SomeoneMoves, OrderCorrect, PTL
=============================================================================
