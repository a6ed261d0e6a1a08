---------------------------- MODULE Outbox_proofs ----------------------------
(***************************************************************************)
(* Proofs about Outbox for any number of entries, brands, relays and       *)
(* consumers, any batch size and any number of faults.  The invariant is   *)
(* built in layers: TypeOK; PipelineInv, which relates rows, batches, jobs *)
(* and effects; and, under RetentionOutlivesDelivery, OnceInv.             *)
(***************************************************************************)
EXTENDS Outbox, TLAPS

-----------------------------------------------------------------------------
(* Every variable keeps its shape: rows, jobs, relays and slots only take  *)
(* the states named in Outbox, and a receipt is only expired while kept.   *)
LEMMA TypeInit == Init => TypeOK
BY OutboxAssumption DEF Init, TypeOK, RowStates, JobStates, NoJob, Idle,
   IdleExec, Jobs, RelayLoops, Slots

(* What a job becomes, in the queue, is a job, in the state meant for it.  *)
LEMMA NoJobShape == NoJob \in Jobs /\ NoJob.state = "absent"
BY OutboxAssumption DEF NoJob, Jobs, JobStates

(* Moving a job between states gives a job of that state.                  *)
LEMMA MovedShape ==
  ASSUME NEW j \in Jobs, NEW s \in JobStates,
         NEW c \in Consumers \union {None}
  PROVE  Moved(j, s, c) \in Jobs /\ Moved(j, s, c).state = s
BY DEF Moved, Jobs

(* A stalled job waits again, or has failed.                               *)
LEMMA RequeuedShape ==
  ASSUME NEW j \in Jobs
  PROVE  Requeued(j) \in Jobs /\ Requeued(j).state \in {"waiting", "failed"}
BY OutboxAssumption DEF Requeued, Jobs, JobStates

(* A failed attempt is delayed, or the job has failed.                     *)
LEMMA RetriedShape ==
  ASSUME NEW j \in Jobs
  PROVE  Retried(j) \in Jobs /\ Retried(j).state \in {"delayed", "failed"}
BY OutboxAssumption DEF Retried, Jobs, JobStates

(* A job the relay adds waits, or is delayed by its deliverAfter.          *)
LEMMA NewJobShape ==
  ASSUME NEW e \in Entries
  PROVE  NewJob(e) \in Jobs /\ NewJob(e).state \in {"delayed", "waiting"}
<1> DEFINE s == IF e \in Deferred THEN "delayed" ELSE "waiting"
<1>1. s \in JobStates /\ NoJob \in Jobs
  BY NoJobShape DEF JobStates
<1>2. QED
  BY <1>1, MovedShape DEF NewJob

(* Replacing one job keeps the type of them all.                           *)
LEMMA JobUpdate ==
  ASSUME TypeOK, NEW e \in Entries, NEW j \in Jobs,
         job' = [job EXCEPT ![e] = j]
  PROVE  job' \in [Entries -> Jobs]
BY DEF TypeOK

(* Every step keeps the types: stalls and attempts stay in their bounds.    *)
LEMMA TypeStep == TypeOK /\ [Next]_vars => TypeOK'
<1> SUFFICES ASSUME TypeOK, [Next]_vars PROVE TypeOK'
  OBVIOUS
<1> USE DEF TypeOK
<1>0. faults < MaxFaults /\ faults' = faults + 1 => faults' \in 0..MaxFaults
  BY OutboxAssumption
<1>1. ASSUME NEW e \in Entries, DomainStep(e) PROVE TypeOK'
  BY <1>1 DEF RowStates, DomainStep, EnqueueOutbox, DomainCommit, DomainRollback
<1>2. ASSUME NEW e \in Entries, QueueStep(e) PROVE TypeOK'
  <2>1. Moved(job[e], "waiting", None) \in Jobs /\ Requeued(job[e]) \in Jobs
    BY MovedShape, RequeuedShape DEF JobStates
  <2>2. job' \in [Entries -> Jobs]
    BY <1>2, <2>1, JobUpdate DEF QueueStep, Promote, RequeueStalled
  <2>3. QED
    BY <1>2, <2>2 DEF QueueStep, Promote, RequeueStalled
<1>3. ASSUME NEW e \in Entries, Retention(e) PROVE TypeOK'
  <2>1. job' \in [Entries -> Jobs]
    BY <1>3, NoJobShape DEF Retention, RemoveCompleted, ReceiptExpires,
       PurgeReceipt, PurgePublishedOutbox
  <2>2. QED
    BY <1>3, <2>1 DEF RowStates, Retention, RemoveCompleted, ReceiptExpires,
       PurgeReceipt, PurgePublishedOutbox
<1>4. ASSUME NEW r \in Relays, RelayStep(r) PROVE TypeOK'
  <2>1. CASE StartCycle(r)
    BY <2>1 DEF StartCycle, RelayLoops
  <2>2. CASE CommitBrand(r)
    BY <2>2 DEF Idle, RowStates, RelayLoops, CommitBrand, EndBrand
  <2>3. ASSUME NEW b \in Brands, SkipBrand(r, b) PROVE TypeOK'
    BY <2>3 DEF SkipBrand, RelayLoops
  <2>4. ASSUME NEW b \in Brands, StartBrand(r, b) PROVE TypeOK'
    BY <2>4 DEF RelayLoops, StartBrand, Batch, Unpublished
  <2>5. ASSUME NEW e \in Entries, AddEventJob(r, e) PROVE TypeOK'
    <3>1. Added(e) \in Jobs
      BY NewJobShape DEF Added
    <3>2. job' \in [Entries -> Jobs]
      BY <2>5, <3>1, JobUpdate DEF AddEventJob
    <3>3. QED
      BY <2>5, <3>2 DEF RelayLoops, AddEventJob
  <2>6. ASSUME NEW e \in Entries, RejectBatch(r, e) PROVE TypeOK'
    BY <2>6 DEF Idle, RelayLoops, RejectBatch, EndBrand
  <2>7. QED
    BY <1>4, <2>1, <2>2, <2>3, <2>4, <2>5, <2>6 DEF RelayStep
<1>5. ASSUME NEW c \in Consumers, ConsumerStep(c) PROVE TypeOK'
  <2>1. ASSUME NEW e \in Entries, Take(c, e) PROVE TypeOK'
    <3>1. Moved(job[e], "active", c) \in Jobs
      BY MovedShape DEF JobStates
    <3>2. job' \in [Entries -> Jobs]
      BY <2>1, <3>1, JobUpdate DEF Take
    <3>3. QED
      BY <2>1, <3>2 DEF Take, Slots
  <2>2. CASE ClaimReceipt(c) \/ IgnoreDuplicate(c) \/ HandlerThrows(c)
    BY <2>2 DEF Slots, IdleExec, ClaimReceipt, IgnoreDuplicate, HandlerThrows
  <2>3. CASE CommitEffect(c)
    <3>1. exec[c].entry \in Entries
      BY <2>3 DEF CommitEffect, Slots, IdleExec
    <3>2. QED
      BY <2>3, <3>1 DEF CommitEffect, Slots, IdleExec
  <2>4. ASSUME NEW result \in Jobs, Finished(c, result)
        PROVE  job' \in [Entries -> Jobs]
    BY <2>4 DEF Finished
  <2>5. ASSUME Acknowledge(c) \/ Retry(c), job' \in [Entries -> Jobs]
        PROVE  TypeOK'
    BY <2>5 DEF Acknowledge, Retry, IdleExec, Slots
  <2>6. CASE Acknowledge(c) \/ Retry(c)
    <3>1. exec[c].pc # "idle"
      BY <2>6 DEF Acknowledge, Retry
    <3>2. job[exec[c].entry] \in Jobs
      BY <3>1 DEF Slots, IdleExec
    <3>3. /\ Moved(job[exec[c].entry], "completed", None) \in Jobs
          /\ Retried(job[exec[c].entry]) \in Jobs
      BY <3>2, MovedShape, RetriedShape DEF JobStates
    <3>4. QED
      BY <2>4, <2>5, <2>6, <3>3 DEF Acknowledge, Retry
  <2>7. QED
    BY <1>5, <2>1, <2>2, <2>3, <2>6 DEF ConsumerStep
<1>6. CASE Fault
  <2>1. ASSUME NEW r \in Relays, FailBrand(r) \/ CrashRelay(r) PROVE TypeOK'
    BY <1>0, <2>1 DEF Idle, RelayLoops, FailBrand, CrashRelay, EndBrand
  <2>2. ASSUME NEW c \in Consumers, CrashConsumer(c) PROVE TypeOK'
    BY <1>0, <2>2 DEF CrashConsumer, IdleExec, Slots
  <2>3. ASSUME NEW e \in Entries, LoseJobLock(e) \/ OperatorRetry(e)
        PROVE  TypeOK'
    <3>1. Moved(job[e], "waiting", None) \in Jobs /\ Requeued(job[e]) \in Jobs
      BY MovedShape, RequeuedShape DEF JobStates
    <3>2. job' \in [Entries -> Jobs]
      BY <2>3, <3>1, JobUpdate DEF LoseJobLock, OperatorRetry
    <3>3. QED
      BY <1>0, <2>3, <3>2 DEF LoseJobLock, OperatorRetry
  <2>4. CASE RedisLoss
    BY <1>0, <2>4, NoJobShape DEF RedisLoss
  <2>5. QED
    BY <1>6, <2>1, <2>2, <2>3, <2>4 DEF Fault
<1>7. CASE UNCHANGED vars
  BY <1>7 DEF vars
<1>8. QED
  BY <1>1, <1>2, <1>3, <1>4, <1>5, <1>6, <1>7 DEF Next

(* The type invariant, for any entries, brands, relays and consumers.       *)
THEOREM TypeCorrect == Spec => []TypeOK
BY TypeInit, TypeStep, PTL DEF Spec

-----------------------------------------------------------------------------
(* Committed rows stay committed, applied effects stay applied, and what   *)
(* the pipeline accounts for stays accounted for.                          *)
LEMMA CommittedStays ==
  ASSUME TypeOK, [Next]_vars, NEW e \in Entries, Committed(e)
  PROVE  Committed(e)'
<1> USE DEF TypeOK, Committed
<1>1. ASSUME NEW d \in Entries, DomainStep(d) PROVE Committed(e)'
  BY <1>1 DEF DomainStep, EnqueueOutbox, DomainCommit, DomainRollback
<1>2. ASSUME NEW d \in Entries, QueueStep(d) PROVE Committed(e)'
  BY <1>2 DEF QueueStep, Promote, RequeueStalled
<1>3. ASSUME NEW d \in Entries, Retention(d) PROVE Committed(e)'
  BY <1>3 DEF Retention, RemoveCompleted, ReceiptExpires, PurgeReceipt,
     PurgePublishedOutbox
<1>4. ASSUME NEW r \in Relays, RelayStep(r) PROVE Committed(e)'
  BY <1>4 DEF RelayStep, StartCycle, CommitBrand, SkipBrand, StartBrand,
     AddEventJob, RejectBatch
<1>5. ASSUME NEW c \in Consumers, ConsumerStep(c) PROVE Committed(e)'
  BY <1>5 DEF ConsumerStep, Take, ClaimReceipt, IgnoreDuplicate, CommitEffect,
     HandlerThrows, Acknowledge, Retry
<1>6. CASE Fault
  BY <1>6 DEF Fault, FailBrand, CrashRelay, CrashConsumer, LoseJobLock,
     OperatorRetry, RedisLoss
<1>7. CASE UNCHANGED vars
  BY <1>7 DEF vars
<1>8. QED
  BY <1>1, <1>2, <1>3, <1>4, <1>5, <1>6, <1>7 DEF Next

(* Only a committing consumer changes an entry's effect count, by one.      *)
LEMMA EffectsGrow ==
  ASSUME TypeOK, [Next]_vars, NEW e \in Entries
  PROVE  effects'[e] = effects[e] \/
           \E c \in Consumers : /\ CommitEffect(c)
                                /\ exec[c].entry = e
                                /\ effects'[e] = effects[e] + 1
<1> USE DEF TypeOK
<1>1. ASSUME NEW c \in Consumers, CommitEffect(c)
      PROVE  effects'[e] = effects[e] \/
               (exec[c].entry = e /\ effects'[e] = effects[e] + 1)
  BY <1>1 DEF CommitEffect
<1>2. ASSUME NEW c \in Consumers, ConsumerStep(c)
      PROVE  UNCHANGED effects \/ CommitEffect(c)
  BY <1>2 DEF ConsumerStep, Take, ClaimReceipt, IgnoreDuplicate, HandlerThrows,
     Acknowledge, Retry
<1>3. ASSUME NEW d \in Entries, DomainStep(d) \/ QueueStep(d) \/ Retention(d)
      PROVE  UNCHANGED effects
  BY <1>3 DEF DomainStep, EnqueueOutbox, DomainCommit, DomainRollback, QueueStep,
     Promote, RequeueStalled, Retention, RemoveCompleted, ReceiptExpires,
     PurgeReceipt, PurgePublishedOutbox
<1>4. ASSUME NEW r \in Relays, RelayStep(r) PROVE UNCHANGED effects
  BY <1>4 DEF RelayStep, StartCycle, CommitBrand, SkipBrand, StartBrand,
     AddEventJob, RejectBatch
<1>5. CASE Fault
  BY <1>5 DEF Fault, FailBrand, CrashRelay, CrashConsumer, LoseJobLock,
     OperatorRetry, RedisLoss
<1>6. CASE UNCHANGED vars
  BY <1>6 DEF vars
<1>7. QED
  BY <1>1, <1>2, <1>3, <1>4, <1>5, <1>6 DEF Next

-----------------------------------------------------------------------------
(* A relay's transaction holds the brand's lock, so the rows it read stay  *)
(* unpublished until it stamps them itself.                                *)
LEMMA RelayPreserved ==
  TypeOK /\ RelayInv /\ LockInv /\ [Next]_vars => RelayInv' /\ LockInv'
<1> SUFFICES ASSUME TypeOK, RelayInv, LockInv, [Next]_vars
             PROVE  RelayInv' /\ LockInv'
  OBVIOUS
<1> USE DEF RelayInv, LockInv
<1>1. ASSUME NEW e \in Entries, DomainStep(e) PROVE RelayInv' /\ LockInv'
  BY <1>1 DEF DomainStep, EnqueueOutbox, DomainCommit, DomainRollback, TypeOK,
     RelayLoops
<1>2. ASSUME NEW e \in Entries, QueueStep(e) PROVE RelayInv' /\ LockInv'
  BY <1>2 DEF QueueStep, Promote, RequeueStalled
<1>3. ASSUME NEW e \in Entries, Retention(e) PROVE RelayInv' /\ LockInv'
  BY <1>3 DEF Retention, RemoveCompleted, ReceiptExpires, PurgeReceipt,
     PurgePublishedOutbox, TypeOK, RelayLoops
<1>4. ASSUME NEW r \in Relays, RelayStep(r) PROVE RelayInv' /\ LockInv'
  <2>1. CASE StartCycle(r)
    BY <2>1 DEF StartCycle, TypeOK, RelayLoops
  <2>2. CASE CommitBrand(r)
    <3>1. ASSUME NEW s \in Relays \ {r}
          PROVE  relay[s].batch \intersect relay[r].batch = {}
      <4> SUFFICES ASSUME NEW e \in relay[s].batch, e \in relay[r].batch
                   PROVE  FALSE
        OBVIOUS
      <4>1. e \in Entries
        BY DEF TypeOK, RelayLoops
      <4>2. relay[s].brand = BrandOf[e] /\ relay[r].brand = BrandOf[e]
        OBVIOUS
      <4>3. BrandOf[e] # None
        BY <4>1, OutboxAssumption, NoneAssumption
      <4>4. QED
        BY <4>2, <4>3
    <3>2. QED
      BY <2>2, <3>1 DEF CommitBrand, EndBrand, Idle, TypeOK, RelayLoops
  <2>3. ASSUME NEW b \in Brands, SkipBrand(r, b) PROVE RelayInv' /\ LockInv'
    BY <2>3 DEF SkipBrand, TypeOK, RelayLoops
  <2>4. ASSUME NEW b \in Brands, StartBrand(r, b) PROVE RelayInv' /\ LockInv'
    BY <2>4 DEF StartBrand, BrandLockFree, Batch, Unpublished, TypeOK, RelayLoops
  <2>5. ASSUME NEW e \in Entries, AddEventJob(r, e)
        PROVE  RelayInv' /\ LockInv'
    BY <2>5 DEF AddEventJob, IsNext, TypeOK, RelayLoops
  <2>6. ASSUME NEW e \in Entries, RejectBatch(r, e)
        PROVE  RelayInv' /\ LockInv'
    BY <2>6 DEF RejectBatch, EndBrand, Idle, TypeOK, RelayLoops
  <2>7. QED
    BY <1>4, <2>1, <2>2, <2>3, <2>4, <2>5, <2>6 DEF RelayStep
<1>5. ASSUME NEW c \in Consumers, ConsumerStep(c) PROVE RelayInv' /\ LockInv'
  BY <1>5 DEF ConsumerStep, Take, ClaimReceipt, IgnoreDuplicate, CommitEffect,
     HandlerThrows, Acknowledge, Retry
<1>6. CASE Fault
  <2>1. ASSUME NEW r \in Relays, FailBrand(r) PROVE RelayInv' /\ LockInv'
    BY <2>1 DEF FailBrand, EndBrand, Idle, TypeOK, RelayLoops
  <2>2. ASSUME NEW r \in Relays, CrashRelay(r) PROVE RelayInv' /\ LockInv'
    BY <2>2 DEF CrashRelay, Idle, TypeOK, RelayLoops
  <2>3. QED
    BY <1>6, <2>1, <2>2
    DEF Fault, CrashConsumer, LoseJobLock, OperatorRetry, RedisLoss
<1>7. CASE UNCHANGED vars
  BY <1>7 DEF vars
<1>8. QED
  BY <1>1, <1>2, <1>3, <1>4, <1>5, <1>6, <1>7 DEF Next

-----------------------------------------------------------------------------
(* What a slot holds was handed to it as a job, and a job is only added    *)
(* for a row a relay read as unpublished, that is, committed.              *)
LEMMA ExecPreserved ==
  TypeOK /\ RelayInv /\ ExecInv /\ OnlyCommittedAct /\ [Next]_vars
    => ExecInv' /\ OnlyCommittedAct'
<1> SUFFICES ASSUME TypeOK, RelayInv, ExecInv, OnlyCommittedAct, [Next]_vars
             PROVE  ExecInv' /\ OnlyCommittedAct'
  OBVIOUS
<1> USE DEF ExecInv, OnlyCommittedAct
<1>0. \A e \in Entries : Committed(e) => Committed(e)'
  BY CommittedStays
<1>1. ASSUME NEW e \in Entries, DomainStep(e) \/ QueueStep(e) \/ Retention(e)
      PROVE  ExecInv' /\ OnlyCommittedAct'
  <2>1. UNCHANGED <<exec, effects>>
    BY <1>1 DEF DomainStep, EnqueueOutbox, DomainCommit, DomainRollback,
       QueueStep, Promote, RequeueStalled, Retention, RemoveCompleted,
       ReceiptExpires, PurgeReceipt, PurgePublishedOutbox
  <2>2. receipt' \subseteq receipt
    BY <1>1 DEF DomainStep, EnqueueOutbox, DomainCommit, DomainRollback,
       QueueStep, Promote, RequeueStalled, Retention, RemoveCompleted,
       ReceiptExpires, PurgeReceipt, PurgePublishedOutbox
  <2>3. \A d \in Entries : job'[d].state # "absent" => job[d].state # "absent"
    BY <1>1, NoJobShape DEF DomainStep, EnqueueOutbox, DomainCommit,
       DomainRollback, QueueStep, Promote, RequeueStalled, Abandoned, Retention,
       RemoveCompleted, ReceiptExpires, PurgeReceipt, PurgePublishedOutbox, TypeOK
  <2>4. QED
    BY <1>0, <2>1, <2>2, <2>3, NoneAssumption DEF TypeOK, Slots, IdleExec
<1>2. ASSUME NEW r \in Relays, RelayStep(r) PROVE ExecInv' /\ OnlyCommittedAct'
  <2>1. UNCHANGED <<exec, effects, receipt>>
    BY <1>2 DEF RelayStep, StartCycle, CommitBrand, SkipBrand, StartBrand,
       AddEventJob, RejectBatch
  <2>2. ASSUME NEW e \in Entries, AddEventJob(r, e)
        PROVE  \A d \in Entries : job'[d].state # "absent" => Committed(d)
    BY <2>2 DEF AddEventJob, IsNext, RelayInv, Committed, TypeOK
  <2>3. UNCHANGED job \/ \E e \in Entries : AddEventJob(r, e)
    BY <1>2 DEF RelayStep, StartCycle, CommitBrand, SkipBrand, StartBrand,
       RejectBatch
  <2>4. \A d \in Entries : job'[d].state # "absent" => Committed(d)
    BY <2>2, <2>3
  <2>5. QED
    BY <1>0, <2>1, <2>4, NoneAssumption DEF TypeOK, Slots, IdleExec
<1>3. ASSUME NEW c \in Consumers, ConsumerStep(c)
      PROVE  ExecInv' /\ OnlyCommittedAct'
  <2>1. UNCHANGED row
    BY <1>3 DEF ConsumerStep, Take, ClaimReceipt, IgnoreDuplicate, CommitEffect,
       HandlerThrows, Acknowledge, Retry
  <2>2. ASSUME NEW e \in Entries, Take(c, e) PROVE ExecInv' /\ OnlyCommittedAct'
    BY <2>1, <2>2, NoneAssumption DEF Take, Committed, TypeOK
  <2>3. CASE ClaimReceipt(c) \/ IgnoreDuplicate(c) \/ HandlerThrows(c)
    BY <2>1, <2>3 DEF ClaimReceipt, IgnoreDuplicate, HandlerThrows, Committed,
       TypeOK, Slots, IdleExec
  <2>4. CASE CommitEffect(c)
    <3>1. Committed(exec[c].entry)
      BY <2>4 DEF CommitEffect
    <3>2. QED
      BY <2>1, <2>4, <3>1 DEF CommitEffect, Committed, TypeOK, Slots, IdleExec
  <2>5. CASE Acknowledge(c) \/ Retry(c)
    <3>1. \A d \in Entries : job'[d].state # "absent" => job[d].state # "absent"
      BY <2>5 DEF Acknowledge, Retry, Finished, Owns, TypeOK
    <3>2. QED
      BY <2>1, <2>5, <3>1 DEF Acknowledge, Retry, Committed, TypeOK, IdleExec
  <2>6. QED
    BY <1>3, <2>2, <2>3, <2>4, <2>5 DEF ConsumerStep
<1>4. CASE Fault
  <2>1. UNCHANGED <<row, effects, receipt>>
    BY <1>4 DEF Fault, FailBrand, CrashRelay, CrashConsumer, LoseJobLock,
       OperatorRetry, RedisLoss
  <2>2. \A d \in Entries : job'[d].state # "absent" => job[d].state # "absent"
    BY <1>4, NoJobShape DEF Fault, FailBrand, CrashRelay, CrashConsumer,
       LoseJobLock, OperatorRetry, RedisLoss, TypeOK
  <2>3. ASSUME NEW c \in Consumers, CrashConsumer(c) PROVE ExecInv'
    BY <2>1, <2>3 DEF CrashConsumer, IdleExec, Committed, TypeOK
  <2>4. UNCHANGED exec \/ \E c \in Consumers : CrashConsumer(c)
    BY <1>4 DEF Fault, FailBrand, CrashRelay, LoseJobLock, OperatorRetry, RedisLoss
  <2>5. QED
    BY <2>1, <2>2, <2>3, <2>4 DEF Committed
<1>5. CASE UNCHANGED vars
  BY <1>5 DEF vars, Committed
<1>6. QED
  BY <1>1, <1>2, <1>3, <1>4, <1>5 DEF Next

-----------------------------------------------------------------------------
(* What is acknowledged, completed or receipted was applied.               *)
LEMMA AppliedPreserved ==
  TypeOK /\ ExecInv /\ AppliedInv /\ [Next]_vars => AppliedInv'
<1> SUFFICES ASSUME TypeOK, ExecInv, AppliedInv, [Next]_vars PROVE AppliedInv'
  OBVIOUS
<1> USE DEF AppliedInv, CompletedMeansApplied
<1>0. \A e \in Entries : effects[e] > 0 => effects'[e] > 0
  BY EffectsGrow DEF TypeOK
<1>t. TypeOK'
  BY TypeStep
<1>1. ASSUME NEW e \in Entries, DomainStep(e) \/ QueueStep(e) \/ Retention(e)
      PROVE  AppliedInv'
  <2>1. UNCHANGED <<exec, effects>> /\ receipt' \subseteq receipt
    BY <1>1 DEF DomainStep, EnqueueOutbox, DomainCommit, DomainRollback,
       QueueStep, Promote, RequeueStalled, Retention, RemoveCompleted,
       ReceiptExpires, PurgeReceipt, PurgePublishedOutbox
  <2>2. /\ Moved(job[e], "waiting", None).state = "waiting"
        /\ Requeued(job[e]).state \in {"waiting", "failed"}
    BY MovedShape, RequeuedShape DEF JobStates, TypeOK
  <2>3. \A d \in Entries : job'[d].state = "completed" => job[d].state = "completed"
    BY <1>1, <2>2, NoJobShape DEF DomainStep, EnqueueOutbox, DomainCommit,
       DomainRollback, QueueStep, Promote, RequeueStalled, Retention,
       RemoveCompleted, ReceiptExpires, PurgeReceipt, PurgePublishedOutbox, TypeOK
  <2>4. QED
    BY <2>1, <2>3
<1>2. ASSUME NEW r \in Relays, RelayStep(r) PROVE AppliedInv'
  <2>1. UNCHANGED <<exec, effects, receipt>>
    BY <1>2 DEF RelayStep, StartCycle, CommitBrand, SkipBrand, StartBrand,
       AddEventJob, RejectBatch
  <2>2. ASSUME NEW e \in Entries, AddEventJob(r, e)
        PROVE  \A d \in Entries :
                 job'[d].state = "completed" => job[d].state = "completed"
    BY <2>2, NewJobShape DEF AddEventJob, Added, TypeOK
  <2>3. UNCHANGED job \/ \E e \in Entries : AddEventJob(r, e)
    BY <1>2 DEF RelayStep, StartCycle, CommitBrand, SkipBrand, StartBrand,
       RejectBatch
  <2>4. QED
    BY <2>1, <2>2, <2>3
<1>3. ASSUME NEW c \in Consumers, ConsumerStep(c) PROVE AppliedInv'
  <2>1. ASSUME NEW e \in Entries, Take(c, e) PROVE AppliedInv'
    <3>1. Moved(job[e], "active", c).state = "active"
      BY MovedShape DEF JobStates, TypeOK
    <3>2. QED
      BY <2>1, <3>1 DEF Take, TypeOK
  <2>2. CASE ClaimReceipt(c) \/ IgnoreDuplicate(c) \/ HandlerThrows(c)
    <3>1. UNCHANGED <<effects, receipt, job>>
      BY <2>2 DEF ClaimReceipt, IgnoreDuplicate, HandlerThrows
    <3>2. \A d \in Consumers \ {c} : exec'[d] = exec[d]
      BY <2>2 DEF ClaimReceipt, IgnoreDuplicate, HandlerThrows, TypeOK
    <3>3. exec'[c].pc = "done" => effects[exec'[c].entry] > 0
      BY <2>2 DEF ClaimReceipt, IgnoreDuplicate, HandlerThrows, TypeOK, Slots,
         IdleExec
    <3>4. QED
      BY <3>1, <3>2, <3>3
  <2>3. CASE CommitEffect(c)
    <3>1. exec[c].entry \in Entries
      BY <2>3 DEF CommitEffect, TypeOK, Slots, IdleExec
    <3>2. effects'[exec[c].entry] > 0
      BY <2>3, <3>1 DEF CommitEffect, TypeOK
    <3>3. \A d \in Consumers \ {c} :
            exec'[d] = exec[d] /\ (exec[d].pc = "done" => exec[d].entry \in Entries)
      BY <2>3 DEF CommitEffect, TypeOK, Slots, IdleExec
    <3>4. QED
      BY <1>0, <2>3, <3>1, <3>2, <3>3 DEF CommitEffect, TypeOK
  <2>4. CASE Acknowledge(c) \/ Retry(c)
    <3>1. exec[c].entry \in Entries
      BY <2>4 DEF Acknowledge, Retry, TypeOK, Slots, IdleExec
    <3>2. Retried(job[exec[c].entry]).state # "completed"
      BY <3>1, RetriedShape DEF TypeOK
    <3>3. \A d \in Entries : job'[d].state = "completed" => effects[d] > 0
      BY <2>4, <3>1, <3>2 DEF Acknowledge, Retry, Finished, TypeOK
    <3>4. QED
      BY <2>4, <3>3 DEF Acknowledge, Retry, TypeOK, IdleExec
  <2>5. QED
    BY <1>3, <2>1, <2>2, <2>3, <2>4 DEF ConsumerStep
<1>4. CASE Fault
  <2>1. UNCHANGED <<effects, receipt>>
    BY <1>4 DEF Fault, FailBrand, CrashRelay, CrashConsumer, LoseJobLock,
       OperatorRetry, RedisLoss
  <2>2. ASSUME NEW e \in Entries, LoseJobLock(e) \/ OperatorRetry(e)
        PROVE  \A d \in Entries :
                 job'[d].state = "completed" => job[d].state = "completed"
    <3>1. /\ Moved(job[e], "waiting", None).state = "waiting"
          /\ Requeued(job[e]).state \in {"waiting", "failed"}
      BY MovedShape, RequeuedShape DEF JobStates, TypeOK
    <3>2. QED
      BY <2>2, <3>1 DEF LoseJobLock, OperatorRetry, TypeOK
  <2>3. \A d \in Entries : job'[d].state = "completed" => job[d].state = "completed"
    BY <1>4, <2>2, NoJobShape DEF Fault, FailBrand, CrashRelay, CrashConsumer,
       RedisLoss
  <2>4. \A c \in Consumers : exec'[c] = exec[c] \/ exec'[c].pc = "idle"
    BY <1>4 DEF Fault, FailBrand, CrashRelay, CrashConsumer, LoseJobLock,
       OperatorRetry, RedisLoss, IdleExec, TypeOK
  <2>5. QED
    BY <2>1, <2>3, <2>4
<1>5. CASE UNCHANGED vars
  BY <1>5 DEF vars
<1>6. QED
  BY <1>1, <1>2, <1>3, <1>4, <1>5 DEF Next

(* Once a job of an entry was added, the entry stays accounted for: only   *)
(* a completed job or a lost Redis frees a job id, and a relay's batch is  *)
(* stamped only when all of it was added.                                  *)
LEMMA AccountedStays ==
  ASSUME TypeOK, AppliedInv, [Next]_vars, NEW e \in Entries, Accounted(e)
  PROVE  Accounted(e)'
<1> USE DEF Accounted
<1>0. effects[e] > 0 => effects'[e] > 0
  BY EffectsGrow DEF TypeOK
<1>1. ASSUME NEW d \in Entries, DomainStep(d) \/ QueueStep(d) \/ Retention(d)
      PROVE  Accounted(e)'
  <2>1. /\ Moved(job[d], "waiting", None).state = "waiting"
        /\ Requeued(job[d]).state \in {"waiting", "failed"}
    BY MovedShape, RequeuedShape DEF JobStates, TypeOK
  <2>2. \/ RemoveCompleted(d)
        \/ job[e].state # "absent" => job'[e].state # "absent"
    BY <1>1, <2>1 DEF DomainStep, EnqueueOutbox, DomainCommit, DomainRollback,
       QueueStep, Promote, RequeueStalled, Retention, ReceiptExpires,
       PurgeReceipt, PurgePublishedOutbox, TypeOK
  <2>3. CASE RemoveCompleted(d)
    BY <1>0, <2>3 DEF RemoveCompleted, AppliedInv, CompletedMeansApplied, TypeOK
  <2>4. UNCHANGED lost
    BY <1>1 DEF DomainStep, EnqueueOutbox, DomainCommit, DomainRollback,
       QueueStep, Promote, RequeueStalled, Retention, RemoveCompleted,
       ReceiptExpires, PurgeReceipt, PurgePublishedOutbox
  <2>5. QED
    BY <1>0, <2>2, <2>3, <2>4
<1>2. ASSUME NEW r \in Relays, RelayStep(r) PROVE Accounted(e)'
  <2>1. ASSUME NEW d \in Entries, AddEventJob(r, d) PROVE Accounted(e)'
    BY <1>0, <2>1, NewJobShape DEF AddEventJob, Added, TypeOK
  <2>2. UNCHANGED <<job, lost>> \/ \E d \in Entries : AddEventJob(r, d)
    BY <1>2 DEF RelayStep, StartCycle, CommitBrand, SkipBrand, StartBrand,
       RejectBatch
  <2>3. QED
    BY <1>0, <2>1, <2>2
<1>3. ASSUME NEW c \in Consumers, ConsumerStep(c) PROVE Accounted(e)'
  <2>1. UNCHANGED lost
    BY <1>3 DEF ConsumerStep, Take, ClaimReceipt, IgnoreDuplicate, CommitEffect,
       HandlerThrows, Acknowledge, Retry
  <2>2. ASSUME NEW d \in Entries, Take(c, d) PROVE Accounted(e)'
    <3>1. Moved(job[d], "active", c).state = "active"
      BY MovedShape DEF JobStates, TypeOK
    <3>2. QED
      BY <1>0, <2>1, <2>2, <3>1 DEF Take, TypeOK
  <2>3. CASE Acknowledge(c) \/ Retry(c)
    <3>1. exec[c].entry \in Entries
      BY <2>3 DEF Acknowledge, Retry, TypeOK, Slots, IdleExec
    <3>2. /\ Retried(job[exec[c].entry]).state # "absent"
          /\ Moved(job[exec[c].entry], "completed", None).state # "absent"
      <4>1. job[exec[c].entry] \in Jobs /\ "completed" \in JobStates
        BY <3>1 DEF TypeOK, JobStates
      <4>2. Moved(job[exec[c].entry], "completed", None).state = "completed"
        BY <4>1, MovedShape
      <4>3. QED
        BY <4>1, <4>2, RetriedShape
    <3>3. job[e].state # "absent" => job'[e].state # "absent"
      <4>1. ASSUME NEW result \in Jobs, result.state # "absent",
                   Finished(c, result), job[e].state # "absent"
            PROVE  job'[e].state # "absent"
        BY <4>1, <3>1 DEF Finished, TypeOK
      <4>2. /\ Retried(job[exec[c].entry]) \in Jobs
            /\ Moved(job[exec[c].entry], "completed", None) \in Jobs
        BY <3>1, RetriedShape, MovedShape DEF TypeOK, JobStates
      <4>3. QED
        BY <2>3, <3>2, <4>1, <4>2 DEF Acknowledge, Retry
    <3>4. QED
      BY <1>0, <2>1, <3>3
  <2>4. CASE UNCHANGED job
    BY <1>0, <2>1, <2>4
  <2>5. QED
    BY <1>3, <2>2, <2>3, <2>4 DEF ConsumerStep, ClaimReceipt, IgnoreDuplicate,
       CommitEffect, HandlerThrows
<1>4. CASE Fault
  <2>1. ASSUME NEW d \in Entries, LoseJobLock(d) \/ OperatorRetry(d)
        PROVE  Accounted(e)'
    <3>1. /\ Moved(job[d], "waiting", None).state = "waiting"
          /\ Requeued(job[d]).state \in {"waiting", "failed"}
      BY MovedShape, RequeuedShape DEF JobStates, TypeOK
    <3>2. QED
      BY <1>0, <2>1, <3>1 DEF LoseJobLock, OperatorRetry, TypeOK
  <2>2. CASE RedisLoss
    BY <1>0, <2>2 DEF RedisLoss
  <2>3. QED
    BY <1>0, <1>4, <2>1, <2>2 DEF Fault, FailBrand, CrashRelay, CrashConsumer
<1>5. CASE UNCHANGED vars
  BY <1>5 DEF vars
<1>6. QED
  BY <1>1, <1>2, <1>3, <1>4, <1>5 DEF Next

(* What is added stays accounted for, so what is stamped was.              *)
LEMMA PublishedPreserved ==
  TypeOK /\ RelayInv /\ AppliedInv /\ AddedInv /\ PublishedIsNeverLost
    /\ [Next]_vars => AddedInv' /\ PublishedIsNeverLost'
<1> SUFFICES ASSUME TypeOK, RelayInv, AppliedInv, AddedInv,
                    PublishedIsNeverLost, [Next]_vars
             PROVE  AddedInv' /\ PublishedIsNeverLost'
  OBVIOUS
<1>0. ASSUME NEW e \in Entries, Accounted(e) PROVE Accounted(e)'
  BY <1>0, AccountedStays
<1>p. \A e \in Entries : row[e] \in {"published", "purged"} => Accounted(e)
  BY DEF PublishedIsNeverLost, Accounted
<1>1. ASSUME NEW r \in Relays, NEW e \in relay'[r].added
      PROVE  e \in Entries /\ Accounted(e)'
  <2>1. relay'[r].added \subseteq Entries
    BY TypeStep DEF TypeOK, RelayLoops
  <2>2. CASE e \in relay[r].added
    BY <1>0, <2>1, <2>2 DEF AddedInv
  <2>3. CASE e \notin relay[r].added
    <3>1. ASSUME NEW s \in Relays, RelayStep(s) PROVE AddEventJob(r, e)
      <4>1. ASSUME NEW d \in Entries, AddEventJob(s, d) PROVE AddEventJob(r, e)
        <5>1. r = s /\ e = d
          BY <1>1, <2>3, <4>1 DEF AddEventJob, TypeOK, RelayLoops
        <5>2. QED
          BY <4>1, <5>1
      <4>2. CASE \/ StartCycle(s) \/ CommitBrand(s)
                 \/ \E b \in Brands : SkipBrand(s, b) \/ StartBrand(s, b)
                 \/ \E d \in Entries : RejectBatch(s, d)
        BY <1>1, <2>3, <4>2 DEF StartCycle, CommitBrand, SkipBrand, StartBrand,
           RejectBatch, EndBrand, Idle, TypeOK, RelayLoops
      <4>3. QED
        BY <3>1, <4>1, <4>2 DEF RelayStep
    <3>2. ASSUME Fault PROVE FALSE
      <4>1. UNCHANGED relay \/ \E s \in Relays : FailBrand(s) \/ CrashRelay(s)
        BY <3>2 DEF Fault, CrashConsumer, LoseJobLock, OperatorRetry, RedisLoss
      <4>2. ASSUME NEW s \in Relays, FailBrand(s) \/ CrashRelay(s) PROVE FALSE
        BY <1>1, <2>3, <4>2 DEF FailBrand, CrashRelay, EndBrand, Idle, TypeOK,
           RelayLoops
      <4>3. QED
        BY <1>1, <2>3, <4>1, <4>2
    <3>3. AddEventJob(r, e)
      <4>1. ASSUME NEW d \in Entries,
                   DomainStep(d) \/ QueueStep(d) \/ Retention(d)
            PROVE  UNCHANGED relay
        BY <4>1 DEF DomainStep, EnqueueOutbox, DomainCommit, DomainRollback,
           QueueStep, Promote, RequeueStalled, Retention, RemoveCompleted,
           ReceiptExpires, PurgeReceipt, PurgePublishedOutbox
      <4>2. ASSUME NEW c \in Consumers, ConsumerStep(c) PROVE UNCHANGED relay
        BY <4>2 DEF ConsumerStep, Take, ClaimReceipt, IgnoreDuplicate,
           CommitEffect, HandlerThrows, Acknowledge, Retry
      <4>3. ~UNCHANGED relay
        BY <1>1, <2>3
      <4>4. QED
        BY <3>1, <3>2, <4>1, <4>2, <4>3 DEF Next, vars
    <3>4. job'[e].state # "absent"
      BY <2>1, <3>3, NewJobShape DEF AddEventJob, Added, TypeOK
    <3>5. QED
      BY <2>1, <3>4 DEF Accounted
  <2>4. QED
    BY <2>2, <2>3
<1>2. ASSUME NEW e \in Entries, row'[e] \in {"published", "purged"}
      PROVE  Accounted(e)'
  <2>1. CASE row[e] \in {"published", "purged"}
    BY <1>0, <1>p, <2>1
  <2>2. CASE row[e] \notin {"published", "purged"}
    <3>1. ASSUME NEW s \in Relays, RelayStep(s) PROVE e \in relay[s].added
      <4>1. CommitBrand(s) \/ UNCHANGED row
        BY <3>1 DEF RelayStep, StartCycle, SkipBrand, StartBrand, AddEventJob,
           RejectBatch
      <4>2. CommitBrand(s)
        BY <1>2, <2>2, <4>1
      <4>3. row'[e] = IF e \in relay[s].batch THEN "published" ELSE row[e]
        BY <4>2 DEF CommitBrand
      <4>4. QED
        BY <1>2, <2>2, <4>2, <4>3 DEF CommitBrand
    <3>2. \E s \in Relays : RelayStep(s)
      BY <1>2, <2>2 DEF Next, vars, DomainStep, EnqueueOutbox,
         DomainCommit, DomainRollback, QueueStep, Promote, RequeueStalled,
         Retention, RemoveCompleted, ReceiptExpires, PurgeReceipt,
         PurgePublishedOutbox, ConsumerStep, Take, ClaimReceipt,
         IgnoreDuplicate, CommitEffect, HandlerThrows, Acknowledge, Retry,
         Fault, FailBrand, CrashRelay, CrashConsumer, LoseJobLock,
         OperatorRetry, RedisLoss, TypeOK
    <3>3. QED
      BY <1>0, <3>1, <3>2 DEF AddedInv
  <2>3. QED
    BY <2>1, <2>2
<1>3. QED
  BY <1>1, <1>2 DEF AddedInv, PublishedIsNeverLost, Accounted

-----------------------------------------------------------------------------
(* With no row written nothing is in flight.                                *)
LEMMA PipelineInit == Init => PipelineInv
<1> SUFFICES ASSUME Init PROVE PipelineInv
  OBVIOUS
<1>1. TypeOK
  BY TypeInit
<1>2. RelayInv /\ LockInv /\ ExecInv /\ OnlyCommittedAct
  BY DEF Init, RelayInv, LockInv, ExecInv, OnlyCommittedAct, Idle, IdleExec, NoJob
<1>3. AppliedInv /\ AddedInv /\ PublishedIsNeverLost
  BY DEF Init, AppliedInv, CompletedMeansApplied, AddedInv, PublishedIsNeverLost,
     Idle, IdleExec, NoJob
<1>4. QED
  BY <1>1, <1>2, <1>3 DEF PipelineInv

(* The layers together are inductive.                                      *)
THEOREM PipelineCorrect == Spec => []PipelineInv
<1>1. PipelineInv /\ [Next]_vars => PipelineInv'
  BY TypeStep, RelayPreserved, ExecPreserved, AppliedPreserved,
     PublishedPreserved DEF PipelineInv
<1>2. QED
  BY PipelineInit, <1>1, PTL DEF Spec

(* A row stamped published has its job in Redis, its effect applied, or    *)
(* was in Redis when Redis was lost: a batch that fails, or a backlog that *)
(* grows while it is published, stamps no row whose job was not added.     *)
THEOREM NothingSlips == Spec => []PublishedIsNeverLost
<1>1. PipelineInv => PublishedIsNeverLost
  BY DEF PipelineInv
<1>2. QED
  BY PipelineCorrect, <1>1, PTL

(* A transaction that rolls back leaves no job, no receipt and no effect,  *)
(* whenever the relay read its row.                                        *)
THEOREM RolledBackDoesNothing == Spec => []OnlyCommittedAct
<1>1. PipelineInv => OnlyCommittedAct
  BY DEF PipelineInv
<1>2. QED
  BY PipelineCorrect, <1>1, PTL

(* A job BullMQ counts as completed was applied, by this delivery or by    *)
(* one before it.                                                          *)
THEOREM CompletedIsApplied == Spec => []CompletedMeansApplied
<1>1. PipelineInv => CompletedMeansApplied
  BY DEF PipelineInv, AppliedInv
<1>2. QED
  BY PipelineCorrect, <1>1, PTL

(* Relay replicas never publish the same row at once.                      *)
THEOREM RelaysAreApart == Spec => []BatchesAreDisjoint
<1>1. PipelineInv => BatchesAreDisjoint
  <2> SUFFICES ASSUME PipelineInv, NEW r \in Relays, NEW s \in Relays, r # s,
                      NEW e \in relay[r].batch, e \in relay[s].batch
               PROVE  FALSE
    BY DEF BatchesAreDisjoint
  <2>1. e \in Entries
    BY DEF PipelineInv, TypeOK, RelayLoops
  <2>2. relay[s].brand = BrandOf[e] /\ relay[r].brand = BrandOf[e]
    BY DEF PipelineInv, RelayInv
  <2>3. BrandOf[e] # None
    BY <2>1, OutboxAssumption, NoneAssumption
  <2>4. QED
    BY <2>2, <2>3 DEF PipelineInv, LockInv
<1>2. QED
  BY PipelineCorrect, <1>1, PTL

-----------------------------------------------------------------------------
(* At most once.  The receipt separates open transactions of one entry;    *)
(* what remains is that it is deleted only when the entry is quiet.        *)
LEMMA QuietStays ==
  ASSUME PipelineInv, [Next]_vars, NEW e \in Entries, Quiet(e)
  PROVE  Quiet(e)'
<1> USE DEF Quiet
<1>t. TypeOK /\ TypeOK' /\ RelayInv /\ ExecInv
  BY TypeStep DEF PipelineInv
<1>1. ASSUME NEW d \in Entries, DomainStep(d) \/ QueueStep(d) \/ Retention(d)
      PROVE  Quiet(e)'
  BY <1>1, <1>t, NoJobShape DEF DomainStep, EnqueueOutbox, DomainCommit,
     DomainRollback, QueueStep, Promote, RequeueStalled, Abandoned, Retention,
     RemoveCompleted, ReceiptExpires, PurgeReceipt, PurgePublishedOutbox, TypeOK
<1>2. ASSUME NEW r \in Relays, RelayStep(r) PROVE Quiet(e)'
  <2>1. e \notin relay[r].batch
    BY <1>t DEF RelayInv
  <2>2. row'[e] = row[e]
    BY <1>2, <1>t, <2>1 DEF RelayStep, StartCycle, CommitBrand, SkipBrand,
       StartBrand, AddEventJob, RejectBatch, TypeOK
  <2>3. job'[e] = job[e]
    BY <1>2, <1>t, <2>1 DEF RelayStep, StartCycle, CommitBrand, SkipBrand,
       StartBrand, AddEventJob, IsNext, RejectBatch, TypeOK
  <2>4. UNCHANGED exec
    BY <1>2 DEF RelayStep, StartCycle, CommitBrand, SkipBrand, StartBrand,
       AddEventJob, RejectBatch
  <2>5. QED
    BY <2>2, <2>3, <2>4
<1>3. ASSUME NEW c \in Consumers, ConsumerStep(c) PROVE Quiet(e)'
  <2>1. ASSUME NEW d \in Entries, Take(c, d) PROVE Quiet(e)'
    BY <2>1, <1>t DEF Take, TypeOK
  <2>2. CASE UNCHANGED <<row, job>>
    <3>1. exec'[c].entry # e
      BY <1>3, <1>t, <2>2, NoneAssumption DEF ConsumerStep, Take, ClaimReceipt,
         IgnoreDuplicate, CommitEffect, HandlerThrows, Acknowledge, Retry,
         IdleExec, TypeOK, Slots
    <3>2. \A d \in Consumers \ {c} : exec'[d] = exec[d]
      BY <1>3, <1>t DEF ConsumerStep, Take, ClaimReceipt, IgnoreDuplicate,
         CommitEffect, HandlerThrows, Acknowledge, Retry, TypeOK
    <3>3. QED
      BY <2>2, <3>1, <3>2
  <2>3. CASE Acknowledge(c) \/ Retry(c)
    <3>1. exec[c].entry # e
      OBVIOUS
    <3>2. job'[e] = job[e] /\ UNCHANGED row
      BY <2>3, <3>1, <1>t DEF Acknowledge, Retry, Finished, TypeOK
    <3>3. \A d \in Consumers : exec'[d].entry # e
      BY <2>3, <1>t, NoneAssumption DEF Acknowledge, Retry, IdleExec, TypeOK
    <3>4. QED
      BY <3>2, <3>3
  <2>4. QED
    BY <1>3, <2>1, <2>2, <2>3 DEF ConsumerStep, ClaimReceipt, IgnoreDuplicate,
       CommitEffect, HandlerThrows
<1>4. CASE Fault
  <2>1. UNCHANGED row
    BY <1>4 DEF Fault, FailBrand, CrashRelay, CrashConsumer, LoseJobLock,
       OperatorRetry, RedisLoss
  <2>2. job'[e].state \in {"absent", "completed"}
    BY <1>4, <1>t, NoJobShape DEF Fault, FailBrand, CrashRelay, CrashConsumer,
       LoseJobLock, OperatorRetry, RedisLoss, TypeOK
  <2>3. \A c \in Consumers : exec'[c].entry # e
    BY <1>4, <1>t, NoneAssumption DEF Fault, FailBrand, CrashRelay, CrashConsumer,
       LoseJobLock, OperatorRetry, RedisLoss, TypeOK, IdleExec
  <2>4. QED
    BY <2>1, <2>2, <2>3
<1>5. CASE UNCHANGED vars
  BY <1>5 DEF vars
<1>6. QED
  BY <1>1, <1>2, <1>3, <1>4, <1>5 DEF Next

(* Receipts and their expiry change only as the actions below say.         *)
LEMMA ReceiptChanges ==
  ASSUME TypeOK, [Next]_vars, NEW e \in Entries
  PROVE  \/ /\ effects'[e] = effects[e]
            /\ e \in receipt' <=> e \in receipt
            /\ e \in expired' <=> e \in expired
         \/ \E c \in Consumers : CommitEffect(c) /\ exec[c].entry = e
         \/ ReceiptExpires(e) \/ PurgeReceipt(e)
<1> USE DEF TypeOK
<1>1. ASSUME NEW d \in Entries, DomainStep(d) \/ QueueStep(d)
      PROVE  UNCHANGED <<effects, receipt, expired>>
  BY <1>1 DEF DomainStep, EnqueueOutbox, DomainCommit, DomainRollback,
     QueueStep, Promote, RequeueStalled
<1>2. ASSUME NEW d \in Entries, Retention(d)
      PROVE  /\ UNCHANGED effects
             /\ \/ ReceiptExpires(e) \/ PurgeReceipt(e)
                \/ /\ e \in receipt' <=> e \in receipt
                   /\ e \in expired' <=> e \in expired
  BY <1>2 DEF Retention, RemoveCompleted, ReceiptExpires, PurgeReceipt,
     PurgePublishedOutbox
<1>3. ASSUME NEW r \in Relays, RelayStep(r)
      PROVE  UNCHANGED <<effects, receipt, expired>>
  BY <1>3 DEF RelayStep, StartCycle, CommitBrand, SkipBrand, StartBrand,
     AddEventJob, RejectBatch
<1>4. ASSUME NEW c \in Consumers, ConsumerStep(c)
      PROVE  UNCHANGED <<effects, receipt, expired>> \/ CommitEffect(c)
  BY <1>4 DEF ConsumerStep, Take, ClaimReceipt, IgnoreDuplicate, HandlerThrows,
     Acknowledge, Retry
<1>5. ASSUME NEW c \in Consumers, CommitEffect(c), exec[c].entry # e
      PROVE  /\ effects'[e] = effects[e]
             /\ e \in receipt' <=> e \in receipt
             /\ UNCHANGED expired
  BY <1>5 DEF CommitEffect
<1>6. CASE Fault
  BY <1>6 DEF Fault, FailBrand, CrashRelay, CrashConsumer, LoseJobLock,
     OperatorRetry, RedisLoss
<1>7. CASE UNCHANGED vars
  BY <1>7 DEF vars
<1>8. QED
  BY <1>1, <1>2, <1>3, <1>4, <1>5, <1>6, <1>7 DEF Next

(* A slot only starts running an entry by claiming its receipt.            *)
LEMMA RunningStarts ==
  ASSUME TypeOK, [Next]_vars, NEW c \in Consumers, exec'[c].pc = "running"
  PROVE  /\ exec'[c].entry = exec[c].entry
         /\ exec[c].pc = "running" \/ ClaimReceipt(c)
<1> USE DEF TypeOK
<1>1. ASSUME NEW d \in Entries, DomainStep(d) \/ QueueStep(d) \/ Retention(d)
      PROVE  UNCHANGED exec
  BY <1>1 DEF DomainStep, EnqueueOutbox, DomainCommit, DomainRollback,
     QueueStep, Promote, RequeueStalled, Retention, RemoveCompleted,
     ReceiptExpires, PurgeReceipt, PurgePublishedOutbox
<1>2. ASSUME NEW r \in Relays, RelayStep(r) PROVE UNCHANGED exec
  BY <1>2 DEF RelayStep, StartCycle, CommitBrand, SkipBrand, StartBrand,
     AddEventJob, RejectBatch
<1>3. ASSUME NEW d \in Consumers, ConsumerStep(d)
      PROVE  \/ exec'[c] = exec[c]
             \/ ClaimReceipt(c) /\ exec'[c].entry = exec[c].entry
  <2>1. CASE d # c
    BY <1>3, <2>1 DEF ConsumerStep, Take, ClaimReceipt, IgnoreDuplicate,
       CommitEffect, HandlerThrows, Acknowledge, Retry
  <2>2. CASE d = c
    BY <1>3, <2>2 DEF ConsumerStep, Take, ClaimReceipt, IgnoreDuplicate,
       CommitEffect, HandlerThrows, Acknowledge, Retry, Slots, IdleExec
  <2>3. QED
    BY <2>1, <2>2
<1>4. CASE Fault
  <2>1. exec'[c] = exec[c] \/ exec'[c] = IdleExec
    BY <1>4 DEF Fault, FailBrand, CrashRelay, CrashConsumer, LoseJobLock,
       OperatorRetry, RedisLoss
  <2>2. QED
    BY <2>1 DEF IdleExec
<1>5. CASE UNCHANGED vars
  BY <1>5 DEF vars
<1>6. QED
  BY <1>1, <1>2, <1>3, <1>4, <1>5 DEF Next

(* While receipts outlive deliveries, no step lets a second effect in.      *)
LEMMA OncePreserved ==
  ASSUME RetentionOutlivesDelivery
  PROVE  PipelineInv /\ OnceInv /\ [Next]_vars => OnceInv'
<1> SUFFICES ASSUME PipelineInv, OnceInv, [Next]_vars PROVE OnceInv'
  OBVIOUS
<1>t. /\ TypeOK /\ TypeOK' /\ ExecInv /\ ExecInv' /\ AppliedInv
      /\ \A e \in Entries : effects[e] \in Nat /\ effects'[e] \in Nat
  <2>1. TypeOK /\ TypeOK' /\ ExecInv /\ ExecInv' /\ AppliedInv
    BY TypeStep, ExecPreserved DEF PipelineInv
  <2>2. QED
    BY <2>1 DEF TypeOK
<1>e. \A c \in Consumers :
        /\ exec[c].pc = "running" => exec[c].entry \in Entries
        /\ exec'[c].pc = "running" => exec'[c].entry \in Entries
  BY <1>t DEF TypeOK, Slots, IdleExec
<1>q. ASSUME NEW e \in Entries, effects[e] > 0, e \notin receipt
      PROVE  \A c \in Consumers : exec[c].entry # e
  BY <1>q DEF OnceInv, Quiet
<1>1. ASSUME NEW c \in Consumers, CommitEffect(c)
      PROVE  /\ effects[exec[c].entry] = 0
             /\ exec'[c].pc = "done"
             /\ \A d \in Consumers \ {c} :
                  exec'[d] = exec[d] /\
                    (exec[d].pc = "running" => exec[d].entry # exec[c].entry)
  BY <1>1, <1>t DEF CommitEffect, OnceInv, TypeOK, Slots, IdleExec
<1>2. ASSUME NEW e \in Entries
      PROVE  effects'[e] <= 1
  <2>1. effects[e] <= 1
    BY DEF OnceInv, EffectAtMostOnce
  <2>2. QED
    BY <1>1, <1>t, <2>1, EffectsGrow
<1>3. ASSUME NEW c \in Consumers, exec'[c].pc = "running"
      PROVE  effects'[exec'[c].entry] = 0
  <2> DEFINE e == exec[c].entry
  <2>1. exec'[c].entry = e /\ e \in Entries
    BY <1>3, <1>e, <1>t, RunningStarts
  <2>2. effects[e] = 0
    <3>1. CASE exec[c].pc = "running"
      BY <3>1 DEF OnceInv
    <3>2. CASE ClaimReceipt(c)
      BY <3>2, <2>1, <1>q, <1>t DEF ClaimReceipt
    <3>3. QED
      BY <1>3, <1>t, <3>1, <3>2, RunningStarts
  <2>3. ASSUME NEW d \in Consumers, CommitEffect(d) PROVE exec[d].entry # e
    <3>1. d # c
      BY <1>1, <1>3, <2>3
    <3>2. exec[c].pc = "running"
      BY <1>1, <1>3, <2>3, <3>1
    <3>3. QED
      BY <1>1, <2>3, <3>1, <3>2
  <2>4. QED
    BY <1>t, <2>1, <2>2, <2>3, EffectsGrow
<1>4. ASSUME NEW c \in Consumers, NEW d \in Consumers, c # d,
             exec'[c].pc = "running", exec'[d].pc = "running"
      PROVE  exec'[c].entry # exec'[d].entry
  <2>1. /\ exec'[c].entry = exec[c].entry /\ exec'[d].entry = exec[d].entry
        /\ exec[c].pc = "running" \/ ClaimReceipt(c)
        /\ exec[d].pc = "running" \/ ClaimReceipt(d)
    BY <1>4, <1>t, RunningStarts
  <2>2. ASSUME NEW x \in Consumers, NEW y \in Consumers, x # y,
               exec'[y].pc = "running", ClaimReceipt(x)
        PROVE  exec[y].pc = "running" /\ exec[x].entry # exec[y].entry
    BY <2>2, <1>t DEF ClaimReceipt, ReceiptFree, TypeOK
  <2>3. CASE exec[c].pc = "running" /\ exec[d].pc = "running"
    BY <1>4, <2>1, <2>3 DEF OnceInv
  <2>4. CASE ClaimReceipt(c)
    BY <1>4, <2>1, <2>2, <2>4
  <2>5. CASE ClaimReceipt(d)
    BY <1>4, <2>1, <2>2, <2>5
  <2>6. QED
    BY <2>1, <2>3, <2>4, <2>5
<1>5. ASSUME NEW e \in Entries, effects'[e] > 0,
             e \notin receipt' \/ e \in expired'
      PROVE  Quiet(e)'
  <2>1. CASE /\ effects'[e] = effects[e]
             /\ e \in receipt' <=> e \in receipt
             /\ e \in expired' <=> e \in expired
    BY <1>5, <2>1, QuietStays DEF OnceInv
  <2>2. ASSUME NEW c \in Consumers, CommitEffect(c), exec[c].entry = e
        PROVE  FALSE
    <3>1. e \in receipt'
      BY <2>2 DEF CommitEffect
    <3>2. e \in expired
      BY <1>5, <2>2, <3>1 DEF CommitEffect
    <3>3. effects[e] > 0
      BY <1>t, <3>2 DEF TypeOK, AppliedInv
    <3>4. QED
      BY <1>1, <2>2, <3>3
  <2>3. CASE ReceiptExpires(e)
    <3>1. Quiet(e)
      BY <2>3 DEF ReceiptExpires, Quiet
    <3>2. QED
      BY <3>1, QuietStays
  <2>4. CASE PurgeReceipt(e)
    <3>1. Quiet(e)
      BY <1>t, <2>4 DEF PurgeReceipt, OnceInv, AppliedInv
    <3>2. QED
      BY <3>1, QuietStays
  <2>5. QED
    BY <1>t, <2>1, <2>2, <2>3, <2>4, ReceiptChanges
<1>6. QED
  BY <1>2, <1>3, <1>4, <1>5 DEF OnceInv, EffectAtMostOnce

(* Nothing was applied and nothing runs at first.                           *)
LEMMA OnceInit == Init => OnceInv
BY DEF Init, OnceInv, EffectAtMostOnce, IdleExec

(* "Every later delivery of the same key stops at the receipt": whatever   *)
(* crashes, stalls, is added twice or is retried, no entry is applied      *)
(* twice, as long as a receipt outlives the deliveries of its entry.       *)
THEOREM AtMostOnce ==
  ASSUME RetentionOutlivesDelivery
  PROVE  Spec => []EffectAtMostOnce
<1>1. PipelineInv /\ OnceInv /\ [Next]_vars => OnceInv'
  BY OncePreserved
<1>2. OnceInv => EffectAtMostOnce
  BY DEF OnceInv
<1>3. QED
  BY PipelineCorrect, OnceInit, <1>1, <1>2, PTL DEF Spec

-----------------------------------------------------------------------------
(* Every step of the pipeline is a commit, a rollback or the one           *)
(* application of an entry, or changes nothing SideEffects knows of.       *)
LEMMA StepRefines ==
  ASSUME RetentionOutlivesDelivery
  PROVE  PipelineInv /\ OnceInv /\ [Next]_vars => [Promise!Next]_(Promise!vars)
<1> SUFFICES ASSUME PipelineInv, OnceInv, [Next]_vars
             PROVE  [Promise!Next]_(Promise!vars)
  OBVIOUS
<1> USE DEF Promise!Next, Promise!vars
<1> DEFINE fate == [e \in Entries |-> Fate(e)]
<1>t. TypeOK /\ RelayInv /\ ExecInv
  BY DEF PipelineInv
<1>1. ASSUME UNCHANGED effects, \A e \in Entries : Fate(e)' = Fate(e)
      PROVE  UNCHANGED Promise!vars
  BY <1>1
<1>2. ASSUME NEW e \in Entries, DomainStep(e) PROVE [Promise!Next]_(Promise!vars)
  <2>0. UNCHANGED effects
    BY <1>2 DEF DomainStep, EnqueueOutbox, DomainCommit, DomainRollback
  <2>1. CASE EnqueueOutbox(e)
    BY <1>1, <2>0, <2>1, <1>t DEF EnqueueOutbox, Fate, TypeOK
  <2>2. CASE DomainCommit(e)
    <3>1. fate' = [fate EXCEPT ![e] = "committed"] /\ fate[e] = "open"
      BY <2>2, <1>t DEF DomainCommit, Fate, TypeOK
    <3>2. QED
      BY <2>0, <3>1 DEF Promise!Commit
  <2>3. CASE DomainRollback(e)
    <3>1. fate' = [fate EXCEPT ![e] = "rolledback"] /\ fate[e] = "open"
      BY <2>3, <1>t DEF DomainRollback, Fate, TypeOK
    <3>2. QED
      BY <2>0, <3>1 DEF Promise!Rollback
  <2>4. QED
    BY <1>2, <2>1, <2>2, <2>3 DEF DomainStep
<1>3. ASSUME NEW e \in Entries, QueueStep(e) \/ Retention(e)
      PROVE  UNCHANGED Promise!vars
  <2>1. UNCHANGED effects
    BY <1>3 DEF QueueStep, Promote, RequeueStalled, Retention, RemoveCompleted,
       ReceiptExpires, PurgeReceipt, PurgePublishedOutbox
  <2>2. ASSUME NEW d \in Entries PROVE Fate(d)' = Fate(d)
    BY <1>3, <1>t DEF QueueStep, Promote, RequeueStalled, Retention,
       RemoveCompleted, ReceiptExpires, PurgeReceipt, PurgePublishedOutbox,
       Fate, TypeOK
  <2>3. QED
    BY <1>1, <2>1, <2>2
<1>4. ASSUME NEW r \in Relays, RelayStep(r) PROVE UNCHANGED Promise!vars
  <2>1. UNCHANGED effects
    BY <1>4 DEF RelayStep, StartCycle, CommitBrand, SkipBrand, StartBrand,
       AddEventJob, RejectBatch
  <2>2. ASSUME NEW d \in Entries PROVE Fate(d)' = Fate(d)
    <3>1. CASE CommitBrand(r)
      BY <1>t, <3>1 DEF CommitBrand, RelayInv, Fate
    <3>2. CASE UNCHANGED row
      BY <3>2 DEF Fate
    <3>3. QED
      BY <1>4, <3>1, <3>2 DEF RelayStep, StartCycle, SkipBrand, StartBrand,
         AddEventJob, RejectBatch
  <2>3. QED
    BY <1>1, <2>1, <2>2
<1>5. ASSUME NEW c \in Consumers, ConsumerStep(c)
      PROVE  [Promise!Next]_(Promise!vars)
  <2>1. UNCHANGED row
    BY <1>5 DEF ConsumerStep, Take, ClaimReceipt, IgnoreDuplicate, CommitEffect,
       HandlerThrows, Acknowledge, Retry
  <2>2. fate' = fate
    BY <2>1 DEF Fate
  <2>3. CASE CommitEffect(c)
    <3> DEFINE e == exec[c].entry
    <3>1. e \in Entries /\ Committed(e) /\ effects[e] = 0
      BY <1>t, <2>3 DEF CommitEffect, ExecInv, OnceInv, TypeOK, Slots, IdleExec
    <3>2. fate[e] = "committed"
      BY <3>1 DEF Committed, Fate
    <3>3. effects' = [effects EXCEPT ![e] = 1]
      BY <2>3, <3>1 DEF CommitEffect
    <3>4. QED
      BY <2>2, <3>1, <3>2, <3>3 DEF Promise!Apply
  <2>4. CASE UNCHANGED effects
    BY <2>2, <2>4
  <2>5. QED
    BY <1>5, <2>3, <2>4 DEF ConsumerStep, Take, ClaimReceipt, IgnoreDuplicate,
       HandlerThrows, Acknowledge, Retry
<1>6. CASE Fault
  <2>1. UNCHANGED <<row, effects>>
    BY <1>6 DEF Fault, FailBrand, CrashRelay, CrashConsumer, LoseJobLock,
       OperatorRetry, RedisLoss
  <2>2. QED
    BY <2>1 DEF Fate
<1>7. CASE UNCHANGED vars
  BY <1>7 DEF vars, Fate
<1>8. QED
  BY <1>2, <1>3, <1>4, <1>5, <1>6, <1>7 DEF Next

(* The pipeline of relays, Redis, receipts and retention implements        *)
(* SideEffects: an effect happens at most once, and only for a transaction *)
(* that committed.                                                         *)
THEOREM PipelineImplementsSideEffects ==
  ASSUME RetentionOutlivesDelivery
  PROVE  Spec => ImplementsSideEffects
<1>1. Init => Promise!Init
  BY DEF Init, Promise!Init, Fate
<1>2. PipelineInv /\ OnceInv /\ [Next]_vars => [Promise!Next]_(Promise!vars)
  BY StepRefines
<1>3. PipelineInv /\ OnceInv /\ [Next]_vars => OnceInv'
  BY OncePreserved
<1>4. QED
  BY PipelineCorrect, OnceInit, <1>1, <1>2, <1>3, PTL
     DEF Spec, ImplementsSideEffects, Promise!Spec
=============================================================================
