-------------------------- MODULE RelayLoop_proofs --------------------------
(***************************************************************************)
(* What holds of RelayLoop for any number of replicas and rows.            *)
(***************************************************************************)
EXTENDS RelayLoop, TLAPS

Inv == TypeOK /\ HolderInv /\ StopInv /\ AsleepInv /\ BatchInv /\ MindedInv

(* Types; rows are committed before they are read, told of or published. *)
LEMMA TypeStep ==
  ASSUME TypeOK, Next
  PROVE  TypeOK'
<1>1. ASSUME NEW r \in Relays, Subscribe(r)
      PROVE  TypeOK'
  BY <1>1, RelayLoopAssumption DEF Subscribe, Goes, TypeOK, Steps
<1>2. ASSUME NEW r \in Relays, FailToSubscribe(r)
      PROVE  TypeOK'
  BY <1>2, RelayLoopAssumption DEF FailToSubscribe, Goes, waiter, TypeOK, Steps
<1>3. ASSUME NEW r \in Relays, Exit(r)
      PROVE  TypeOK'
  BY <1>3, RelayLoopAssumption DEF Exit, Goes, waiter, TypeOK, Steps
<1>4. ASSUME NEW r \in Relays, StartCycle(r)
      PROVE  TypeOK'
  BY <1>4, RelayLoopAssumption DEF StartCycle, Goes, waiter, TypeOK, Steps
<1>5. ASSUME NEW r \in Relays, Discover(r)
      PROVE  TypeOK'
  BY <1>5, RelayLoopAssumption DEF Discover, Goes, Unpublished, waiter, TypeOK,
         Steps
<1>6. ASSUME NEW r \in Relays, TakeLock(r)
      PROVE  TypeOK'
  BY <1>6, RelayLoopAssumption DEF TakeLock, Goes, waiter, TypeOK, Steps
<1>7. ASSUME NEW r \in Relays, SkipBrand(r)
      PROVE  TypeOK'
  BY <1>7, RelayLoopAssumption DEF SkipBrand, Goes, waiter, TypeOK, Steps
<1>8. ASSUME NEW r \in Relays, NEW S \in SUBSET Rows, ReadBatch(r, S)
      PROVE  TypeOK'
  BY <1>8, RelayLoopAssumption DEF ReadBatch, Unpublished, Goes, waiter,
         TypeOK, Steps
<1>9. ASSUME NEW r \in Relays, Publish(r)
      PROVE  TypeOK'
  BY <1>9, RelayLoopAssumption DEF Publish, Goes, waiter, TypeOK, Steps
<1>10. ASSUME NEW r \in Relays, FailBrand(r)
       PROVE  TypeOK'
  BY <1>10, RelayLoopAssumption DEF FailBrand, Goes, waiter, TypeOK, Steps
<1>11. ASSUME NEW r \in Relays, FailCycle(r)
       PROVE  TypeOK'
  BY <1>11, RelayLoopAssumption DEF FailCycle, Goes, waiter, TypeOK, Steps
<1>12. ASSUME NEW r \in Relays, EndCycle(r)
       PROVE  TypeOK'
  BY <1>12, RelayLoopAssumption DEF EndCycle, Goes, waiter, TypeOK, Steps
<1>13. ASSUME NEW r \in Relays, Redeem(r)
       PROVE  TypeOK'
  BY <1>13, RelayLoopAssumption DEF Redeem, Goes, TypeOK, Steps
<1>14. ASSUME NEW r \in Relays, FallAsleep(r)
       PROVE  TypeOK'
  BY <1>14, RelayLoopAssumption DEF FallAsleep, Goes, waiter, TypeOK, Steps
<1>15. ASSUME NEW r \in Relays, TimerFires(r)
       PROVE  TypeOK'
  BY <1>15, RelayLoopAssumption DEF TimerFires, Goes, waiter, TypeOK, Steps
<1>16. ASSUME NEW r \in Relays, Stop(r)
       PROVE  TypeOK'
  BY <1>16, RelayLoopAssumption DEF Stop, Notify, TypeOK, Steps
<1>17. ASSUME NEW r \in Relays, NEW S \in SUBSET Rows, Hear(r, S)
       PROVE  TypeOK'
  BY <1>17, RelayLoopAssumption DEF Hear, Notify, TypeOK, Steps
<1>18. ASSUME NEW e \in Rows, CommitRow(e)
       PROVE  TypeOK'
  BY <1>18, RelayLoopAssumption DEF CommitRow, relayVars, waiter, TypeOK, Steps
<1> QED
  BY <1>1, <1>2, <1>3, <1>4, <1>5, <1>6, <1>7, <1>8, <1>9, <1>10, <1>11,
         <1>12, <1>13, <1>14, <1>15, <1>16, <1>17, <1>18
  DEF Next, LoopStep

(* The lock is taken by one relay, and given back at the end of its
   transaction however it ends. *)
LEMMA HolderStep ==
  ASSUME TypeOK, TypeOK', HolderInv, Next
  PROVE  HolderInv'
<1>1. ASSUME NEW r \in Relays, Subscribe(r)
      PROVE  HolderInv'
  BY <1>1, RelayLoopAssumption DEF Subscribe, Goes, TypeOK, HolderInv, Steps
<1>2. ASSUME NEW r \in Relays, FailToSubscribe(r)
      PROVE  HolderInv'
  BY <1>2, RelayLoopAssumption DEF FailToSubscribe, Goes, waiter, TypeOK,
         HolderInv, Steps
<1>3. ASSUME NEW r \in Relays, Exit(r)
      PROVE  HolderInv'
  BY <1>3, RelayLoopAssumption DEF Exit, Goes, waiter, TypeOK, HolderInv, Steps
<1>4. ASSUME NEW r \in Relays, StartCycle(r)
      PROVE  HolderInv'
  BY <1>4, RelayLoopAssumption DEF StartCycle, Goes, waiter, TypeOK, HolderInv,
         Steps
<1>5. ASSUME NEW r \in Relays, Discover(r)
      PROVE  HolderInv'
  BY <1>5, RelayLoopAssumption DEF Discover, Goes, Unpublished, waiter, TypeOK,
         HolderInv, Steps
<1>6. ASSUME NEW r \in Relays, TakeLock(r)
      PROVE  HolderInv'
  BY <1>6, RelayLoopAssumption DEF TakeLock, Goes, waiter, TypeOK, HolderInv,
         Steps
<1>7. ASSUME NEW r \in Relays, SkipBrand(r)
      PROVE  HolderInv'
  BY <1>7, RelayLoopAssumption DEF SkipBrand, Goes, waiter, TypeOK, HolderInv,
         Steps
<1>8. ASSUME NEW r \in Relays, NEW S \in SUBSET Rows, ReadBatch(r, S)
      PROVE  HolderInv'
  BY <1>8, RelayLoopAssumption DEF ReadBatch, Unpublished, Goes, waiter,
         TypeOK, HolderInv, Steps
<1>9. ASSUME NEW r \in Relays, Publish(r)
      PROVE  HolderInv'
  BY <1>9, RelayLoopAssumption DEF Publish, Goes, waiter, TypeOK, HolderInv,
         Steps
<1>10. ASSUME NEW r \in Relays, FailBrand(r)
       PROVE  HolderInv'
  BY <1>10, RelayLoopAssumption DEF FailBrand, Goes, waiter, TypeOK, HolderInv,
         Steps
<1>11. ASSUME NEW r \in Relays, FailCycle(r)
       PROVE  HolderInv'
  BY <1>11, RelayLoopAssumption DEF FailCycle, Goes, waiter, TypeOK, HolderInv,
         Steps
<1>12. ASSUME NEW r \in Relays, EndCycle(r)
       PROVE  HolderInv'
  BY <1>12, RelayLoopAssumption DEF EndCycle, Goes, waiter, TypeOK, HolderInv,
         Steps
<1>13. ASSUME NEW r \in Relays, Redeem(r)
       PROVE  HolderInv'
  BY <1>13, RelayLoopAssumption DEF Redeem, Goes, TypeOK, HolderInv, Steps
<1>14. ASSUME NEW r \in Relays, FallAsleep(r)
       PROVE  HolderInv'
  BY <1>14, RelayLoopAssumption DEF FallAsleep, Goes, waiter, TypeOK,
         HolderInv, Steps
<1>15. ASSUME NEW r \in Relays, TimerFires(r)
       PROVE  HolderInv'
  BY <1>15, RelayLoopAssumption DEF TimerFires, Goes, waiter, TypeOK,
         HolderInv, Steps
<1>16. ASSUME NEW r \in Relays, Stop(r)
       PROVE  HolderInv'
  BY <1>16, RelayLoopAssumption DEF Stop, Notify, TypeOK, HolderInv, Steps
<1>17. ASSUME NEW r \in Relays, NEW S \in SUBSET Rows, Hear(r, S)
       PROVE  HolderInv'
  BY <1>17, RelayLoopAssumption DEF Hear, Notify, TypeOK, HolderInv, Steps
<1>18. ASSUME NEW e \in Rows, CommitRow(e)
       PROVE  HolderInv'
  BY <1>18, RelayLoopAssumption DEF CommitRow, relayVars, waiter, TypeOK,
         HolderInv, Steps
<1> QED
  BY <1>1, <1>2, <1>3, <1>4, <1>5, <1>6, <1>7, <1>8, <1>9, <1>10, <1>11,
         <1>12, <1>13, <1>14, <1>15, <1>16, <1>17, <1>18
  DEF Next, LoopStep

(* Only the next wait clears what stop() left pending, and the loop looks at
   `stopped` right after it. *)
LEMMA StopStep ==
  ASSUME TypeOK, TypeOK', StopInv, Next
  PROVE  StopInv'
<1>1. ASSUME NEW r \in Relays, Subscribe(r)
      PROVE  StopInv'
  BY <1>1, RelayLoopAssumption DEF Subscribe, Goes, TypeOK, StopInv
<1>2. ASSUME NEW r \in Relays, FailToSubscribe(r)
      PROVE  StopInv'
  BY <1>2, RelayLoopAssumption DEF FailToSubscribe, Goes, waiter, TypeOK,
         StopInv
<1>3. ASSUME NEW r \in Relays, Exit(r)
      PROVE  StopInv'
  BY <1>3, RelayLoopAssumption DEF Exit, Goes, waiter, TypeOK, StopInv
<1>4. ASSUME NEW r \in Relays, StartCycle(r)
      PROVE  StopInv'
  BY <1>4, RelayLoopAssumption DEF StartCycle, Goes, waiter, TypeOK, StopInv
<1>5. ASSUME NEW r \in Relays, Discover(r)
      PROVE  StopInv'
  BY <1>5, RelayLoopAssumption DEF Discover, Goes, Unpublished, waiter, TypeOK,
         StopInv
<1>6. ASSUME NEW r \in Relays, TakeLock(r)
      PROVE  StopInv'
  BY <1>6, RelayLoopAssumption DEF TakeLock, Goes, waiter, TypeOK, StopInv
<1>7. ASSUME NEW r \in Relays, SkipBrand(r)
      PROVE  StopInv'
  BY <1>7, RelayLoopAssumption DEF SkipBrand, Goes, waiter, TypeOK, StopInv
<1>8. ASSUME NEW r \in Relays, NEW S \in SUBSET Rows, ReadBatch(r, S)
      PROVE  StopInv'
  BY <1>8, RelayLoopAssumption DEF ReadBatch, Unpublished, Goes, waiter,
         TypeOK, StopInv
<1>9. ASSUME NEW r \in Relays, Publish(r)
      PROVE  StopInv'
  BY <1>9, RelayLoopAssumption DEF Publish, Goes, waiter, TypeOK, StopInv
<1>10. ASSUME NEW r \in Relays, FailBrand(r)
       PROVE  StopInv'
  BY <1>10, RelayLoopAssumption DEF FailBrand, Goes, waiter, TypeOK, StopInv
<1>11. ASSUME NEW r \in Relays, FailCycle(r)
       PROVE  StopInv'
  BY <1>11, RelayLoopAssumption DEF FailCycle, Goes, waiter, TypeOK, StopInv
<1>12. ASSUME NEW r \in Relays, EndCycle(r)
       PROVE  StopInv'
  BY <1>12, RelayLoopAssumption DEF EndCycle, Goes, waiter, TypeOK, StopInv
<1>13. ASSUME NEW r \in Relays, Redeem(r)
       PROVE  StopInv'
  BY <1>13, RelayLoopAssumption DEF Redeem, Goes, TypeOK, StopInv
<1>14. ASSUME NEW r \in Relays, FallAsleep(r)
       PROVE  StopInv'
  BY <1>14, RelayLoopAssumption DEF FallAsleep, Goes, waiter, TypeOK, StopInv
<1>15. ASSUME NEW r \in Relays, TimerFires(r)
       PROVE  StopInv'
  BY <1>15, RelayLoopAssumption DEF TimerFires, Goes, waiter, TypeOK, StopInv
<1>16. ASSUME NEW r \in Relays, Stop(r)
       PROVE  StopInv'
  BY <1>16, RelayLoopAssumption DEF Stop, Notify, TypeOK, StopInv
<1>17. ASSUME NEW r \in Relays, NEW S \in SUBSET Rows, Hear(r, S)
       PROVE  StopInv'
  BY <1>17, RelayLoopAssumption DEF Hear, Notify, TypeOK, StopInv
<1>18. ASSUME NEW e \in Rows, CommitRow(e)
       PROVE  StopInv'
  BY <1>18, RelayLoopAssumption DEF CommitRow, relayVars, waiter, TypeOK,
         StopInv
<1> QED
  BY <1>1, <1>2, <1>3, <1>4, <1>5, <1>6, <1>7, <1>8, <1>9, <1>10, <1>11,
         <1>12, <1>13, <1>14, <1>15, <1>16, <1>17, <1>18
  DEF Next, LoopStep

(* A wait begins with nothing pending, and ends when something is. *)
LEMMA AsleepStep ==
  ASSUME TypeOK, AsleepInv, Next
  PROVE  AsleepInv'
<1>1. ASSUME NEW r \in Relays, Subscribe(r)
      PROVE  AsleepInv'
  BY <1>1, RelayLoopAssumption DEF Subscribe, Goes, TypeOK, AsleepInv
<1>2. ASSUME NEW r \in Relays, FailToSubscribe(r)
      PROVE  AsleepInv'
  BY <1>2, RelayLoopAssumption DEF FailToSubscribe, Goes, waiter, TypeOK,
         AsleepInv
<1>3. ASSUME NEW r \in Relays, Exit(r)
      PROVE  AsleepInv'
  BY <1>3, RelayLoopAssumption DEF Exit, Goes, waiter, TypeOK, AsleepInv
<1>4. ASSUME NEW r \in Relays, StartCycle(r)
      PROVE  AsleepInv'
  BY <1>4, RelayLoopAssumption DEF StartCycle, Goes, waiter, TypeOK, AsleepInv
<1>5. ASSUME NEW r \in Relays, Discover(r)
      PROVE  AsleepInv'
  BY <1>5, RelayLoopAssumption DEF Discover, Goes, Unpublished, waiter, TypeOK,
         AsleepInv
<1>6. ASSUME NEW r \in Relays, TakeLock(r)
      PROVE  AsleepInv'
  BY <1>6, RelayLoopAssumption DEF TakeLock, Goes, waiter, TypeOK, AsleepInv
<1>7. ASSUME NEW r \in Relays, SkipBrand(r)
      PROVE  AsleepInv'
  BY <1>7, RelayLoopAssumption DEF SkipBrand, Goes, waiter, TypeOK, AsleepInv
<1>8. ASSUME NEW r \in Relays, NEW S \in SUBSET Rows, ReadBatch(r, S)
      PROVE  AsleepInv'
  BY <1>8, RelayLoopAssumption DEF ReadBatch, Unpublished, Goes, waiter,
         TypeOK, AsleepInv
<1>9. ASSUME NEW r \in Relays, Publish(r)
      PROVE  AsleepInv'
  BY <1>9, RelayLoopAssumption DEF Publish, Goes, waiter, TypeOK, AsleepInv
<1>10. ASSUME NEW r \in Relays, FailBrand(r)
       PROVE  AsleepInv'
  BY <1>10, RelayLoopAssumption DEF FailBrand, Goes, waiter, TypeOK, AsleepInv
<1>11. ASSUME NEW r \in Relays, FailCycle(r)
       PROVE  AsleepInv'
  BY <1>11, RelayLoopAssumption DEF FailCycle, Goes, waiter, TypeOK, AsleepInv
<1>12. ASSUME NEW r \in Relays, EndCycle(r)
       PROVE  AsleepInv'
  BY <1>12, RelayLoopAssumption DEF EndCycle, Goes, waiter, TypeOK, AsleepInv
<1>13. ASSUME NEW r \in Relays, Redeem(r)
       PROVE  AsleepInv'
  BY <1>13, RelayLoopAssumption DEF Redeem, Goes, TypeOK, AsleepInv
<1>14. ASSUME NEW r \in Relays, FallAsleep(r)
       PROVE  AsleepInv'
  BY <1>14, RelayLoopAssumption DEF FallAsleep, Goes, waiter, TypeOK, AsleepInv
<1>15. ASSUME NEW r \in Relays, TimerFires(r)
       PROVE  AsleepInv'
  BY <1>15, RelayLoopAssumption DEF TimerFires, Goes, waiter, TypeOK, AsleepInv
<1>16. ASSUME NEW r \in Relays, Stop(r)
       PROVE  AsleepInv'
  BY <1>16, RelayLoopAssumption DEF Stop, Notify, TypeOK, AsleepInv
<1>17. ASSUME NEW r \in Relays, NEW S \in SUBSET Rows, Hear(r, S)
       PROVE  AsleepInv'
  BY <1>17, RelayLoopAssumption DEF Hear, Notify, TypeOK, AsleepInv
<1>18. ASSUME NEW e \in Rows, CommitRow(e)
       PROVE  AsleepInv'
  BY <1>18, RelayLoopAssumption DEF CommitRow, relayVars, waiter, TypeOK,
         AsleepInv
<1> QED
  BY <1>1, <1>2, <1>3, <1>4, <1>5, <1>6, <1>7, <1>8, <1>9, <1>10, <1>11,
         <1>12, <1>13, <1>14, <1>15, <1>16, <1>17, <1>18
  DEF Next, LoopStep

(* The batch is all there is, or full; a notification after the read is pending. *)
LEMMA BatchStep ==
  ASSUME TypeOK, TypeOK', HolderInv, BatchInv, Next
  PROVE  BatchInv'
<1>1. ASSUME NEW r \in Relays, Subscribe(r)
      PROVE  BatchInv'
  BY <1>1, RelayLoopAssumption DEF Subscribe, Goes, TypeOK, HolderInv, BatchInv
<1>2. ASSUME NEW r \in Relays, FailToSubscribe(r)
      PROVE  BatchInv'
  BY <1>2, RelayLoopAssumption DEF FailToSubscribe, Goes, waiter, TypeOK,
         HolderInv, BatchInv
<1>3. ASSUME NEW r \in Relays, Exit(r)
      PROVE  BatchInv'
  BY <1>3, RelayLoopAssumption DEF Exit, Goes, waiter, TypeOK, HolderInv,
         BatchInv
<1>4. ASSUME NEW r \in Relays, StartCycle(r)
      PROVE  BatchInv'
  BY <1>4, RelayLoopAssumption DEF StartCycle, Goes, waiter, TypeOK, HolderInv,
         BatchInv
<1>5. ASSUME NEW r \in Relays, Discover(r)
      PROVE  BatchInv'
  BY <1>5, RelayLoopAssumption DEF Discover, Goes, Unpublished, waiter, TypeOK,
         HolderInv, BatchInv
<1>6. ASSUME NEW r \in Relays, TakeLock(r)
      PROVE  BatchInv'
  BY <1>6, RelayLoopAssumption DEF TakeLock, Goes, waiter, TypeOK, HolderInv,
         BatchInv
<1>7. ASSUME NEW r \in Relays, SkipBrand(r)
      PROVE  BatchInv'
  BY <1>7, RelayLoopAssumption DEF SkipBrand, Goes, waiter, TypeOK, HolderInv,
         BatchInv
<1>8. ASSUME NEW r \in Relays, NEW S \in SUBSET Rows, ReadBatch(r, S)
      PROVE  BatchInv'
  BY <1>8, RelayLoopAssumption DEF ReadBatch, Unpublished, Goes, waiter,
         TypeOK, HolderInv, BatchInv
<1>9. ASSUME NEW r \in Relays, Publish(r)
      PROVE  BatchInv'
  BY <1>9, RelayLoopAssumption DEF Publish, Goes, waiter, TypeOK, HolderInv,
         BatchInv
<1>10. ASSUME NEW r \in Relays, FailBrand(r)
       PROVE  BatchInv'
  BY <1>10, RelayLoopAssumption DEF FailBrand, Goes, waiter, TypeOK, HolderInv,
         BatchInv
<1>11. ASSUME NEW r \in Relays, FailCycle(r)
       PROVE  BatchInv'
  BY <1>11, RelayLoopAssumption DEF FailCycle, Goes, waiter, TypeOK, HolderInv,
         BatchInv
<1>12. ASSUME NEW r \in Relays, EndCycle(r)
       PROVE  BatchInv'
  BY <1>12, RelayLoopAssumption DEF EndCycle, Goes, waiter, TypeOK, HolderInv,
         BatchInv
<1>13. ASSUME NEW r \in Relays, Redeem(r)
       PROVE  BatchInv'
  BY <1>13, RelayLoopAssumption DEF Redeem, Goes, TypeOK, HolderInv, BatchInv
<1>14. ASSUME NEW r \in Relays, FallAsleep(r)
       PROVE  BatchInv'
  BY <1>14, RelayLoopAssumption DEF FallAsleep, Goes, waiter, TypeOK,
         HolderInv, BatchInv
<1>15. ASSUME NEW r \in Relays, TimerFires(r)
       PROVE  BatchInv'
  BY <1>15, RelayLoopAssumption DEF TimerFires, Goes, waiter, TypeOK,
         HolderInv, BatchInv
<1>16. ASSUME NEW r \in Relays, Stop(r)
       PROVE  BatchInv'
  BY <1>16, RelayLoopAssumption DEF Stop, Notify, TypeOK, HolderInv, BatchInv
<1>17. ASSUME NEW r \in Relays, NEW S \in SUBSET Rows, Hear(r, S)
       PROVE  BatchInv'
  BY <1>17, RelayLoopAssumption DEF Hear, Notify, TypeOK, HolderInv, BatchInv
<1>18. ASSUME NEW e \in Rows, CommitRow(e)
       PROVE  BatchInv'
  BY <1>18, RelayLoopAssumption DEF CommitRow, relayVars, waiter, TypeOK,
         HolderInv, BatchInv
<1> QED
  BY <1>1, <1>2, <1>3, <1>4, <1>5, <1>6, <1>7, <1>8, <1>9, <1>10, <1>11,
         <1>12, <1>13, <1>14, <1>15, <1>16, <1>17, <1>18
  DEF Next, LoopStep

(* Whoever finds the lock taken leaves the rows to the holder, who minds them. *)
LEMMA MindedStep ==
  ASSUME TypeOK, TypeOK', HolderInv, BatchInv, MindedInv, Next
  PROVE  MindedInv'
<1>1. ASSUME NEW r \in Relays, Subscribe(r)
      PROVE  MindedInv'
  BY <1>1, RelayLoopAssumption DEF Subscribe, Goes, TypeOK, HolderInv,
         BatchInv, MindedInv, Minds
<1>2. ASSUME NEW r \in Relays, FailToSubscribe(r)
      PROVE  MindedInv'
  BY <1>2, RelayLoopAssumption DEF FailToSubscribe, Goes, waiter, TypeOK,
         HolderInv, BatchInv, MindedInv, Minds
<1>3. ASSUME NEW r \in Relays, Exit(r)
      PROVE  MindedInv'
  BY <1>3, RelayLoopAssumption DEF Exit, Goes, waiter, TypeOK, HolderInv,
         BatchInv, MindedInv, Minds
<1>4. ASSUME NEW r \in Relays, StartCycle(r)
      PROVE  MindedInv'
  BY <1>4, RelayLoopAssumption DEF StartCycle, Goes, waiter, TypeOK, HolderInv,
         BatchInv, MindedInv, Minds
<1>5. ASSUME NEW r \in Relays, Discover(r)
      PROVE  MindedInv'
  BY <1>5, RelayLoopAssumption DEF Discover, Goes, Unpublished, waiter, TypeOK,
         HolderInv, BatchInv, MindedInv, Minds
<1>6. ASSUME NEW r \in Relays, TakeLock(r)
      PROVE  MindedInv'
  BY <1>6, RelayLoopAssumption DEF TakeLock, Goes, waiter, TypeOK, HolderInv,
         BatchInv, MindedInv, Minds
<1>7. ASSUME NEW r \in Relays, SkipBrand(r)
      PROVE  MindedInv'
  BY <1>7, RelayLoopAssumption DEF SkipBrand, Goes, waiter, TypeOK, HolderInv,
         BatchInv, MindedInv, Minds
<1>8. ASSUME NEW r \in Relays, NEW S \in SUBSET Rows, ReadBatch(r, S)
      PROVE  MindedInv'
  BY <1>8, RelayLoopAssumption DEF ReadBatch, Unpublished, Goes, waiter,
         TypeOK, HolderInv, BatchInv, MindedInv, Minds
<1>9. ASSUME NEW r \in Relays, Publish(r)
      PROVE  MindedInv'
  BY <1>9, RelayLoopAssumption DEF Publish, Goes, waiter, TypeOK, HolderInv,
         BatchInv, MindedInv, Minds
<1>10. ASSUME NEW r \in Relays, FailBrand(r)
       PROVE  MindedInv'
  BY <1>10, RelayLoopAssumption DEF FailBrand, Goes, waiter, TypeOK, HolderInv,
         BatchInv, MindedInv, Minds
<1>11. ASSUME NEW r \in Relays, FailCycle(r)
       PROVE  MindedInv'
  BY <1>11, RelayLoopAssumption DEF FailCycle, Goes, waiter, TypeOK, HolderInv,
         BatchInv, MindedInv, Minds
<1>12. ASSUME NEW r \in Relays, EndCycle(r)
       PROVE  MindedInv'
  BY <1>12, RelayLoopAssumption DEF EndCycle, Goes, waiter, TypeOK, HolderInv,
         BatchInv, MindedInv, Minds
<1>13. ASSUME NEW r \in Relays, Redeem(r)
       PROVE  MindedInv'
  BY <1>13, RelayLoopAssumption DEF Redeem, Goes, TypeOK, HolderInv, BatchInv,
         MindedInv, Minds
<1>14. ASSUME NEW r \in Relays, FallAsleep(r)
       PROVE  MindedInv'
  BY <1>14, RelayLoopAssumption DEF FallAsleep, Goes, waiter, TypeOK,
         HolderInv, BatchInv, MindedInv, Minds
<1>15. ASSUME NEW r \in Relays, TimerFires(r)
       PROVE  MindedInv'
  BY <1>15, RelayLoopAssumption DEF TimerFires, Goes, waiter, TypeOK,
         HolderInv, BatchInv, MindedInv, Minds
<1>16. ASSUME NEW r \in Relays, Stop(r)
       PROVE  MindedInv'
  BY <1>16, RelayLoopAssumption DEF Stop, Notify, TypeOK, HolderInv, BatchInv,
         MindedInv, Minds
<1>17. ASSUME NEW r \in Relays, NEW S \in SUBSET Rows, Hear(r, S)
       PROVE  MindedInv'
  BY <1>17, RelayLoopAssumption DEF Hear, Notify, TypeOK, HolderInv, BatchInv,
         MindedInv, Minds
<1>18. ASSUME NEW e \in Rows, CommitRow(e)
       PROVE  MindedInv'
  BY <1>18, RelayLoopAssumption DEF CommitRow, relayVars, waiter, TypeOK,
         HolderInv, BatchInv, MindedInv, Minds
<1> QED
  BY <1>1, <1>2, <1>3, <1>4, <1>5, <1>6, <1>7, <1>8, <1>9, <1>10, <1>11,
         <1>12, <1>13, <1>14, <1>15, <1>16, <1>17, <1>18
  DEF Next, LoopStep

LEMMA InitInv == Init => Inv
  BY RelayLoopAssumption
  DEF Init, Inv, TypeOK, HolderInv, StopInv, AsleepInv, BatchInv,
      MindedInv, Minds, Steps

LEMMA StutterInv == Inv /\ UNCHANGED vars => Inv'
  BY DEF vars, relayVars, waiter, Inv, TypeOK, HolderInv, StopInv, AsleepInv,
         BatchInv, MindedInv, Minds

(* Inv is inductive.                                                       *)
THEOREM Invariance == Spec => []Inv
<1>1. Inv /\ [Next]_vars => Inv'
  <2> SUFFICES ASSUME Inv, Next  PROVE Inv'
    BY StutterInv
  <2>1. TypeOK'
    BY TypeStep DEF Inv
  <2> QED
    BY <2>1, HolderStep, StopStep, AsleepStep, BatchStep, MindedStep DEF Inv
<1> QED
  BY <1>1, InitInv, PTL DEF Spec

(* Every variable has its type, and no row is published, read or told of   *)
(* before it is committed.                                                 *)
THEOREM TypeCorrect == Spec => []TypeOK
<1>1. Inv => TypeOK
  BY DEF Inv
<1> QED
  BY <1>1, Invariance, PTL

(* However many replicas skip the brand for one another, a row that every  *)
(* one of them was told of is published before the last falls asleep.      *)
THEOREM NoLostWakeUp == Spec => []NobodySleepsOnARow
<1>1. Inv => NobodySleepsOnARow
  <2> SUFFICES ASSUME Inv, Untroubled, AllAsleep, NEW e \in Unpublished
               PROVE  \E r \in Relays : e \notin told[r]
    BY DEF NobodySleepsOnARow
  <2>1. PICK r \in Relays : Minds(r)
    BY DEF Inv, MindedInv, Untroubled
  <2>2. pc[r] = "asleep"
    BY DEF AllAsleep
  <2>3. ~pending[r]
    BY <2>2 DEF Inv, AsleepInv
  <2>4. told[r] \subseteq published
    BY <2>1, <2>2, <2>3 DEF Minds
  <2> QED
    BY <2>4 DEF Unpublished
<1> QED
  BY <1>1, Invariance, PTL

(* stop() ends the wait in progress, or keeps the next from beginning.     *)
THEOREM PromptStop == Spec => []StopIsPrompt
<1>1. Inv => StopIsPrompt
  BY DEF Inv, StopInv, AsleepInv, StopIsPrompt
<1> QED
  BY <1>1, Invariance, PTL

=============================================================================
