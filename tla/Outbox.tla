------------------------------- MODULE Outbox -------------------------------
(***************************************************************************)
(* The transactional outbox of packages/jobs: domain transactions write    *)
(* rows, relay replicas publish each brand's backlog to BullMQ inside a    *)
(* transaction that holds the brand's advisory lock, consumers claim a     *)
(* receipt in the transaction of the effect, and nightly retention deletes *)
(* published rows and old receipts.  Relays and consumers crash, Redis is  *)
(* lost, BullMQ redelivers a job whose lock lapsed, and an operator        *)
(* retries dead jobs.                                                      *)
(*                                                                         *)
(* An entry stands for one outbox row, its job (jobId = outbox.id) and its *)
(* receipt (outbox.event:<id>).  Entries are numbers in id order.          *)
(***************************************************************************)
EXTENDS Integers, FiniteSets

CONSTANTS
  Entries,       \* outbox ids; UUIDv7, so their order is the relay's order
  Brands,
  BrandOf,       \* [Entries -> Brands]
  LockKey,       \* [Brands -> key]: the first 32 bits of the brand's uuid
  Unparseable,   \* entries whose row no longer parses as a job payload
  Deferred,      \* entries written with `deliverAfter`
  Relays,        \* relay loops, one per worker replica
  Consumers,     \* concurrency slots of the outbox.event workers
  BatchSize,     \* rows one brand publishes per cycle
  MaxAttempts,   \* outboxEventJob.options.attempts
  MaxStalls,     \* BullMQ's maxStalledCount, left at its default
  MaxFaults,     \* bound on crashes, lapsed job locks and Redis losses
  RetentionOutlivesDelivery, \* see ReceiptExpires
  None           \* no brand, no entry, no owner

ASSUME OutboxAssumption ==
  /\ Entries \subseteq Nat /\ IsFiniteSet(Entries)
  /\ Unparseable \subseteq Entries /\ Deferred \subseteq Entries
  /\ BrandOf \in [Entries -> Brands]
  /\ DOMAIN LockKey = Brands
  /\ BatchSize \in Nat \ {0} /\ MaxAttempts \in Nat \ {0}
  /\ MaxStalls \in Nat /\ MaxFaults \in Nat
  /\ RetentionOutlivesDelivery \in BOOLEAN

ASSUME NoneAssumption ==
  None \notin Brands /\ None \notin Consumers /\ None \notin Entries

VARIABLES
  row,       \* the outbox row, Postgres
  receipt,   \* committed job_receipts rows, Postgres: a set of entries
  expired,   \* receipts past the seven-day cutoff
  job,       \* the outbox.event job, Redis
  relay,     \* what each relay loop is doing
  exec,      \* what each consumer slot is doing
  faults,    \* faults so far
  effects,   \* history: times an entry's handlers committed
  lost       \* history: entries whose job went with a Redis loss

vars == <<row, receipt, expired, job, relay, exec, faults, effects, lost>>

RowStates == {"none", "inserted", "rolledback", "unpublished", "published",
              "purged"}

JobStates == {"absent", "waiting", "delayed", "active", "completed", "failed"}

Jobs == [state : JobStates, attempts : 0..MaxAttempts, stalls : 0..MaxStalls,
         owner : Consumers \union {None}]

NoJob == [state |-> "absent", attempts |-> 0, stalls |-> 0, owner |-> None]

(* A job in another state, its lock held by `c`, or by nobody.              *)
Moved(j, state, c) == [j EXCEPT !.state = state, !.owner = c]

RelayLoops == [todo : SUBSET Brands, brand : Brands \union {None},
               batch : SUBSET Entries, added : SUBSET Entries]

Idle(brands) == [todo |-> brands, brand |-> None, batch |-> {}, added |-> {}]

IdleExec == [pc |-> "idle", entry |-> None]

Slots == {IdleExec} \union
           [pc : {"taken", "running", "done", "threw"}, entry : Entries]

Init ==
  /\ row = [e \in Entries |-> "none"]
  /\ receipt = {}
  /\ expired = {}
  /\ job = [e \in Entries |-> NoJob]
  /\ relay = [r \in Relays |-> Idle({})]
  /\ exec = [c \in Consumers |-> IdleExec]
  /\ faults = 0
  /\ effects = [e \in Entries |-> 0]
  /\ lost = {}

-----------------------------------------------------------------------------
(* Domain transactions: the row is inserted in the caller's transaction    *)
(* and becomes visible, or vanishes, with it.                              *)

EnqueueOutbox(e) ==
  /\ row[e] = "none"
  /\ row' = [row EXCEPT ![e] = "inserted"]
  /\ UNCHANGED <<receipt, expired, job, relay, exec, faults, effects, lost>>

DomainCommit(e) ==
  /\ row[e] = "inserted"
  /\ row' = [row EXCEPT ![e] = "unpublished"]
  /\ UNCHANGED <<receipt, expired, job, relay, exec, faults, effects, lost>>

DomainRollback(e) ==
  /\ row[e] = "inserted"
  /\ row' = [row EXCEPT ![e] = "rolledback"]
  /\ UNCHANGED <<receipt, expired, job, relay, exec, faults, effects, lost>>

-----------------------------------------------------------------------------
(* The relay.                                                              *)

Unpublished(b) == {e \in Entries : BrandOf[e] = b /\ row[e] = "unpublished"}

Before(S, e) == {d \in S : d < e}

(* The oldest `BatchSize` rows of a backlog: ORDER BY id LIMIT batchSize.  *)
Batch(S) == {e \in S : Cardinality(Before(S, e)) < BatchSize}

(* Mutant: replicas publish a brand without its lock.                      *)
NoBrandLock(r, b) == r \in Relays /\ b \in Brands

(* pg_try_advisory_xact_lock succeeds: no other transaction holds the key. *)
BrandLockFree(r, b) ==
  \A s \in Relays \ {r} :
    relay[s].brand # None => LockKey[relay[s].brand] # LockKey[b]

(* runRelayCycle's discovery: the brands with unpublished rows.            *)
StartCycle(r) ==
  /\ relay[r].brand = None /\ relay[r].todo = {}
  /\ \E b \in Brands : Unpublished(b) # {}
  /\ relay' = [relay EXCEPT ![r].todo = {b \in Brands : Unpublished(b) # {}}]
  /\ UNCHANGED <<row, receipt, expired, job, exec, faults, effects, lost>>

(* publishBrand stands down when another replica holds the lock, and has   *)
(* nothing to do when the backlog emptied since the discovery.             *)
SkipBrand(r, b) ==
  /\ relay[r].brand = None /\ b \in relay[r].todo
  /\ ~BrandLockFree(r, b) \/ Unpublished(b) = {}
  /\ relay' = [relay EXCEPT ![r].todo = @ \ {b}]
  /\ UNCHANGED <<row, receipt, expired, job, exec, faults, effects, lost>>

StartBrand(r, b) ==
  /\ relay[r].brand = None /\ b \in relay[r].todo
  /\ BrandLockFree(r, b)
  /\ Unpublished(b) # {}
  /\ relay' = [relay EXCEPT ![r] = [todo |-> @.todo \ {b}, brand |-> b,
                                    batch |-> Batch(Unpublished(b)),
                                    added |-> {}]]
  /\ UNCHANGED <<row, receipt, expired, job, exec, faults, effects, lost>>

(* The next row of the batch addEventJobs takes.                           *)
IsNext(r, e) ==
  /\ e \in relay[r].batch \ relay[r].added
  /\ Before(relay[r].batch, e) \subseteq relay[r].added

NewJob(e) ==
  Moved(NoJob, IF e \in Deferred THEN "delayed" ELSE "waiting", None)

(* queue.add ignores a job id that is still in Redis, whatever its state.  *)
Added(e) == IF job[e].state = "absent" THEN NewJob(e) ELSE job[e]

AddEventJob(r, e) ==
  /\ IsNext(r, e)
  /\ e \notin Unparseable
  /\ relay' = [relay EXCEPT ![r].added = @ \union {e}]
  /\ job' = [job EXCEPT ![e] = Added(e)]
  /\ lost' = lost \ {e}
  /\ UNCHANGED <<row, receipt, expired, exec, faults, effects>>

(* The relay's transaction ends: its lock goes with it.                    *)
EndBrand(r) ==
  relay' = [relay EXCEPT ![r] = Idle(relay[r].todo)]

(* Mutant: stamps every row of the brand up to the last id it published.    *)
CommitUpTo(r) ==
  /\ relay[r].brand # None
  /\ relay[r].added = relay[r].batch
  /\ row' = [e \in Entries |->
               IF /\ e \in Unpublished(relay[r].brand)
                  /\ \E d \in relay[r].batch : e <= d
               THEN "published" ELSE row[e]]
  /\ EndBrand(r)
  /\ UNCHANGED <<receipt, expired, job, exec, faults, effects, lost>>

(* Only the rows this batch read are stamped.                              *)
CommitBrand(r) ==
  /\ relay[r].brand # None
  /\ relay[r].added = relay[r].batch
  /\ row' = [e \in Entries |->
               IF e \in relay[r].batch THEN "published" ELSE row[e]]
  /\ EndBrand(r)
  /\ UNCHANGED <<receipt, expired, job, exec, faults, effects, lost>>

(* Mutant: a rejected brand is tried again at once, before the others.      *)
RejectAndRepeat(r, e) ==
  /\ IsNext(r, e)
  /\ e \in Unparseable
  /\ relay' = [relay EXCEPT ![r] = Idle(@.todo \union {@.brand})]
  /\ UNCHANGED <<row, receipt, expired, job, exec, faults, effects, lost>>

(* A row that does not parse rolls the whole batch back; what was added to *)
(* Redis before it stays there, and the other brands of the cycle go on.   *)
RejectBatch(r, e) ==
  /\ IsNext(r, e)
  /\ e \in Unparseable
  /\ EndBrand(r)
  /\ UNCHANGED <<row, receipt, expired, job, exec, faults, effects, lost>>

(* The add or the commit throws: Redis or Postgres is unreachable.         *)
FailBrand(r) ==
  /\ faults < MaxFaults
  /\ relay[r].brand # None
  /\ EndBrand(r)
  /\ faults' = faults + 1
  /\ UNCHANGED <<row, receipt, expired, job, exec, effects, lost>>

(* The process dies between the first add and the commit, or anywhere.     *)
CrashRelay(r) ==
  /\ faults < MaxFaults
  /\ relay[r] # Idle({})
  /\ relay' = [relay EXCEPT ![r] = Idle({})]
  /\ faults' = faults + 1
  /\ UNCHANGED <<row, receipt, expired, job, exec, effects, lost>>

-----------------------------------------------------------------------------
(* The consumer: createJobProcessor under a BullMQ worker.                 *)

(* BullMQ hands a waiting job to a slot, which now owns the job's lock.    *)
Take(c, e) ==
  /\ exec[c].pc = "idle"
  /\ job[e].state = "waiting"
  /\ exec' = [exec EXCEPT ![c] = [pc |-> "taken", entry |-> e]]
  /\ job' = [job EXCEPT ![e] = Moved(@, "active", c)]
  /\ UNCHANGED <<row, receipt, expired, relay, faults, effects, lost>>

(* The insert waits while another open transaction has inserted the key.   *)
ReceiptFree(c, e) ==
  \A d \in Consumers \ {c} : ~(exec[d].entry = e /\ exec[d].pc = "running")

(* Mutant: reads whether the receipt exists, then inserts it unguarded.     *)
ReadReceipt(c) ==
  /\ exec[c].pc = "taken"
  /\ exec[c].entry \notin receipt
  /\ exec' = [exec EXCEPT ![c].pc = "running"]
  /\ UNCHANGED <<row, receipt, expired, job, relay, faults, effects, lost>>

ClaimReceipt(c) ==
  LET e == exec[c].entry IN
  /\ exec[c].pc = "taken"
  /\ e \notin receipt
  /\ ReceiptFree(c, e)
  /\ exec' = [exec EXCEPT ![c].pc = "running"]
  /\ UNCHANGED <<row, receipt, expired, job, relay, faults, effects, lost>>

(* Mutant: a key held by a transaction still open counts as a duplicate.    *)
IgnoreBusy(c) ==
  /\ exec[c].pc = "taken"
  /\ exec[c].entry \in receipt \/ ~ReceiptFree(c, exec[c].entry)
  /\ exec' = [exec EXCEPT ![c].pc = "done"]
  /\ UNCHANGED <<row, receipt, expired, job, relay, faults, effects, lost>>

(* ON CONFLICT DO NOTHING returned no row: a duplicate delivery.           *)
IgnoreDuplicate(c) ==
  /\ exec[c].pc = "taken"
  /\ exec[c].entry \in receipt
  /\ exec' = [exec EXCEPT ![c].pc = "done"]
  /\ UNCHANGED <<row, receipt, expired, job, relay, faults, effects, lost>>

(* Mutant: the effect commits and the receipt does not.                     *)
CommitWithoutReceipt(c) ==
  /\ exec[c].pc = "running"
  /\ effects' = [effects EXCEPT ![exec[c].entry] = @ + 1]
  /\ exec' = [exec EXCEPT ![c].pc = "done"]
  /\ UNCHANGED <<row, receipt, expired, job, relay, faults, lost>>

(* Every subscriber returned: their writes and the receipt commit.         *)
CommitEffect(c) ==
  LET e == exec[c].entry IN
  /\ exec[c].pc = "running"
  /\ receipt' = receipt \union {e}
  /\ effects' = [effects EXCEPT ![e] = @ + 1]
  /\ exec' = [exec EXCEPT ![c].pc = "done"]
  /\ UNCHANGED <<row, expired, job, relay, faults, lost>>

(* A subscriber threw (or no handler is registered): all of it, with the   *)
(* receipt, rolls back.                                                    *)
HandlerThrows(c) ==
  /\ exec[c].pc = "running"
  /\ exec' = [exec EXCEPT ![c].pc = "threw"]
  /\ UNCHANGED <<row, receipt, expired, job, relay, faults, effects, lost>>

(* BullMQ moves a finished job only for the holder of its lock.            *)
Owns(c) ==
  /\ job[exec[c].entry].state = "active"
  /\ job[exec[c].entry].owner = c

Finished(c, result) ==
  job' = [job EXCEPT ![exec[c].entry] = IF Owns(c) THEN result ELSE @]

Acknowledge(c) ==
  /\ exec[c].pc = "done"
  /\ Finished(c, Moved(job[exec[c].entry], "completed", None))
  /\ exec' = [exec EXCEPT ![c] = IdleExec]
  /\ UNCHANGED <<row, receipt, expired, relay, faults, effects, lost>>

(* Mutant: the attempt that reaches the limit is tried once more.           *)
RetriedOnceMore(j) ==
  [state |-> IF j.attempts < MaxAttempts THEN "delayed" ELSE "failed",
   attempts |-> j.attempts + 1,
   stalls |-> j.stalls,
   owner |-> None]

(* A failed attempt goes back with a delay until the attempts run out;     *)
(* removeOnFail: false keeps a dead job.                                   *)
Retried(j) ==
  [state |-> IF j.attempts + 1 < MaxAttempts THEN "delayed" ELSE "failed",
   attempts |-> IF j.attempts < MaxAttempts THEN j.attempts + 1 ELSE j.attempts,
   stalls |-> j.stalls,
   owner |-> None]

Retry(c) ==
  /\ exec[c].pc = "threw"
  /\ Finished(c, Retried(job[exec[c].entry]))
  /\ exec' = [exec EXCEPT ![c] = IdleExec]
  /\ UNCHANGED <<row, receipt, expired, relay, faults, effects, lost>>

(* An open transaction of a consumer that dies rolls back.                 *)
CrashConsumer(c) ==
  /\ faults < MaxFaults
  /\ exec[c].pc # "idle"
  /\ exec' = [exec EXCEPT ![c] = IdleExec]
  /\ faults' = faults + 1
  /\ UNCHANGED <<row, receipt, expired, job, relay, effects, lost>>

-----------------------------------------------------------------------------
(* BullMQ, Redis and the operator.                                         *)

(* A job due after its backoff, or after its deliverAfter.                 *)
Promote(e) ==
  /\ job[e].state = "delayed"
  /\ job' = [job EXCEPT ![e] = Moved(@, "waiting", None)]
  /\ UNCHANGED <<row, receipt, expired, relay, exec, faults, effects, lost>>

Requeued(j) ==
  [state |-> IF j.stalls < MaxStalls THEN "waiting" ELSE "failed",
   attempts |-> j.attempts,
   stalls |-> IF j.stalls < MaxStalls THEN j.stalls + 1 ELSE j.stalls,
   owner |-> None]

Abandoned(e) ==
  /\ job[e].state = "active"
  /\ \A c \in Consumers : ~(job[e].owner = c /\ exec[c].entry = e)

(* The owner is gone and no longer renews the lock.                        *)
RequeueStalled(e) ==
  /\ Abandoned(e)
  /\ job' = [job EXCEPT ![e] = Requeued(@)]
  /\ UNCHANGED <<row, receipt, expired, relay, exec, faults, effects, lost>>

(* The owner still runs but missed a renewal: the job goes to another slot *)
(* while the first transaction is open.                                    *)
LoseJobLock(e) ==
  /\ faults < MaxFaults
  /\ job[e].state = "active" /\ ~Abandoned(e)
  /\ job' = [job EXCEPT ![e] = Requeued(@)]
  /\ faults' = faults + 1
  /\ UNCHANGED <<row, receipt, expired, relay, exec, effects, lost>>

(* removeOnComplete: the id is free again a day, or 10 000 jobs, later.    *)
RemoveCompleted(e) ==
  /\ job[e].state = "completed"
  /\ job' = [job EXCEPT ![e] = NoJob]
  /\ UNCHANGED <<row, receipt, expired, relay, exec, faults, effects, lost>>

(* Bull Board's retry of a job in the failed set.                          *)
OperatorRetry(e) ==
  /\ faults < MaxFaults
  /\ job[e].state = "failed"
  /\ job' = [job EXCEPT ![e] = Moved(@, "waiting", None)]
  /\ faults' = faults + 1
  /\ UNCHANGED <<row, receipt, expired, relay, exec, effects, lost>>

RedisLoss ==
  /\ faults < MaxFaults
  /\ \E e \in Entries : job[e].state # "absent"
  /\ job' = [e \in Entries |-> NoJob]
  /\ lost' = lost \union {e \in Entries : job[e].state # "absent"}
  /\ faults' = faults + 1
  /\ UNCHANGED <<row, receipt, expired, relay, exec, effects>>

-----------------------------------------------------------------------------
(* maintenance.retention.                                                  *)

(* Seven days pass since the receipt was written.  A job's own retries     *)
(* last seconds, so it is no longer queued, delayed or running by then.    *)
(* RetentionOutlivesDelivery is what the code leaves to its operator: no   *)
(* row waits a week to be published, no dead job is retried after a week.  *)
ReceiptExpires(e) ==
  /\ e \in receipt \ expired
  /\ job[e].state \in {"absent", "completed", "failed"}
  /\ \A c \in Consumers : exec[c].entry # e
  /\ RetentionOutlivesDelivery => /\ row[e] \in {"published", "purged"}
                                  /\ job[e].state # "failed"
  /\ expired' = expired \union {e}
  /\ UNCHANGED <<row, receipt, job, relay, exec, faults, effects, lost>>

PurgeReceipt(e) ==
  /\ e \in receipt \intersect expired
  /\ receipt' = receipt \ {e}
  /\ expired' = expired \ {e}
  /\ UNCHANGED <<row, job, relay, exec, faults, effects, lost>>

PurgePublishedOutbox(e) ==
  /\ row[e] = "published"
  /\ row' = [row EXCEPT ![e] = "purged"]
  /\ UNCHANGED <<receipt, expired, job, relay, exec, faults, effects, lost>>

-----------------------------------------------------------------------------
RelayStep(r) ==
  \/ StartCycle(r) \/ CommitBrand(r)
  \/ \E b \in Brands : SkipBrand(r, b) \/ StartBrand(r, b)
  \/ \E e \in Entries : AddEventJob(r, e) \/ RejectBatch(r, e)

ConsumerStep(c) ==
  \/ \E e \in Entries : Take(c, e)
  \/ ClaimReceipt(c) \/ IgnoreDuplicate(c) \/ CommitEffect(c)
  \/ HandlerThrows(c) \/ Acknowledge(c) \/ Retry(c)

QueueStep(e) == Promote(e) \/ RequeueStalled(e)

DomainStep(e) == EnqueueOutbox(e) \/ DomainCommit(e) \/ DomainRollback(e)

Fault ==
  \/ \E r \in Relays : FailBrand(r) \/ CrashRelay(r)
  \/ \E c \in Consumers : CrashConsumer(c)
  \/ \E e \in Entries : LoseJobLock(e) \/ OperatorRetry(e)
  \/ RedisLoss

Retention(e) ==
  RemoveCompleted(e) \/ ReceiptExpires(e) \/ PurgeReceipt(e)
    \/ PurgePublishedOutbox(e)

Next ==
  \/ \E e \in Entries : DomainStep(e) \/ QueueStep(e) \/ Retention(e)
  \/ \E r \in Relays : RelayStep(r)
  \/ \E c \in Consumers : ConsumerStep(c)
  \/ Fault

Spec == Init /\ [][Next]_vars

(* The relay loop runs until it is stopped, a worker keeps taking and      *)
(* finishing jobs, and BullMQ promotes and re-queues.  BullMQ's wait list  *)
(* is first in first out, so a waiting job is not passed over for ever.    *)
(* Whether a handler throws, whether a transaction commits and whether a   *)
(* fault happens is left to chance.                                        *)
Fairness ==
  /\ \A r \in Relays : WF_vars(RelayStep(r))
  /\ \A c \in Consumers : WF_vars(ConsumerStep(c))
  /\ \A e \in Entries : WF_vars(QueueStep(e))
  /\ \A e \in Entries : SF_vars(\E c \in Consumers : Take(c, e))

FairSpec == Spec /\ Fairness

-----------------------------------------------------------------------------
(* Properties.                                                             *)

TypeOK ==
  /\ row \in [Entries -> RowStates]
  /\ receipt \subseteq Entries /\ expired \subseteq receipt
  /\ job \in [Entries -> Jobs]
  /\ relay \in [Relays -> RelayLoops]
  /\ exec \in [Consumers -> Slots]
  /\ faults \in 0..MaxFaults
  /\ effects \in [Entries -> Nat]
  /\ lost \subseteq Entries

(* "A handler that returns leaves both, so every later delivery of the     *)
(* same key stops at the receipt" (packages/jobs/README.md): no redelivery,*)
(* no second add after a relay crash, no lapsed job lock and no retry by   *)
(* hand applies an entry twice.                                            *)
EffectAtMostOnce == \A e \in Entries : effects[e] <= 1

Committed(e) == row[e] \in {"unpublished", "published", "purged"}

(* "The transaction rolls back: nothing is ever published": a job, a       *)
(* receipt or an effect exists only for an entry whose domain transaction  *)
(* committed.                                                              *)
OnlyCommittedAct ==
  \A e \in Entries :
    job[e].state # "absent" \/ e \in receipt \/ effects[e] > 0 => Committed(e)

(* "A row can never be lost": once a row is stamped published (or already  *)
(* purged), its job is in Redis, or its effect was applied, or Redis was   *)
(* lost with the job in it.                                                *)
PublishedIsNeverLost ==
  \A e \in Entries :
    row[e] \in {"published", "purged"} =>
      job[e].state # "absent" \/ effects[e] > 0 \/ e \in lost

(* BullMQ reports a job completed, which frees its id for good, only when  *)
(* the effect of that entry was really applied, by this delivery or by the *)
(* one whose receipt it met.                                               *)
CompletedMeansApplied ==
  \A e \in Entries : job[e].state = "completed" => effects[e] > 0

(* Two relay replicas never hold batches with a row in common, although    *)
(* rows commit, locks are released by crashes and brands share lock keys.  *)
BatchesAreDisjoint ==
  \A r, s \in Relays :
    r # s => relay[r].batch \intersect relay[s].batch = {}

Settled(e) == effects[e] > 0 \/ job[e].state = "failed" \/ e \in lost

(* Brands none of whose rows is refused by the payload schema.             *)
Healthy(e) == \A d \in Unparseable : BrandOf[d] # BrandOf[e]

(* A committed entry of a healthy brand is eventually applied, or left in  *)
(* the failed set after its attempts, or lost with Redis: whatever crashes,*)
(* and whatever another brand's rows do to the relay's cycle.              *)
EventuallySettled ==
  \A e \in Entries : Committed(e) /\ Healthy(e) ~> Settled(e)

-----------------------------------------------------------------------------
(* The inductive invariant behind the safety properties (Outbox_proofs).   *)

(* A relay's batch is unpublished rows of the brand it is publishing.      *)
RelayInv ==
  \A r \in Relays :
    /\ relay[r].added \subseteq relay[r].batch
    /\ \A e \in relay[r].batch : /\ BrandOf[e] = relay[r].brand
                                 /\ row[e] = "unpublished"

(* No two relays publish brands of one lock key.                           *)
LockInv ==
  \A r, s \in Relays :
    r # s /\ relay[r].brand # None /\ relay[s].brand # None =>
      LockKey[relay[r].brand] # LockKey[relay[s].brand]

(* A slot that holds no job is idle, and what a slot holds has committed.  *)
ExecInv ==
  \A c \in Consumers :
    /\ exec[c].pc = "idle" <=> exec[c].entry = None
    /\ exec[c].pc # "idle" => Committed(exec[c].entry)

(* What is finished was applied: a receipt, a delivery about to be         *)
(* acknowledged, a completed job.                                          *)
AppliedInv ==
  /\ \A e \in receipt : effects[e] > 0
  /\ \A c \in Consumers : exec[c].pc = "done" => effects[exec[c].entry] > 0
  /\ CompletedMeansApplied

Accounted(e) == job[e].state # "absent" \/ effects[e] > 0 \/ e \in lost

(* What a relay has added is accounted for before its row is stamped.      *)
AddedInv ==
  \A r \in Relays : \A e \in relay[r].added : Accounted(e)

PipelineInv ==
  /\ TypeOK /\ RelayInv /\ LockInv /\ ExecInv /\ OnlyCommittedAct
  /\ AppliedInv /\ AddedInv /\ PublishedIsNeverLost

(* Nothing can deliver the entry again.                                    *)
Quiet(e) ==
  /\ row[e] \in {"published", "purged"}
  /\ job[e].state \in {"absent", "completed"}
  /\ \A c \in Consumers : exec[c].entry # e

(* At most one open transaction has inserted an entry's receipt, and only  *)
(* when the entry was never applied; an applied entry keeps its receipt    *)
(* until nothing can deliver it again.                                     *)
OnceInv ==
  /\ EffectAtMostOnce
  /\ \A c, d \in Consumers :
       exec[c].pc = "running" /\ exec[d].pc = "running" /\ c # d =>
         exec[c].entry # exec[d].entry
  /\ \A c \in Consumers : exec[c].pc = "running" => effects[exec[c].entry] = 0
  /\ \A e \in Entries :
       effects[e] > 0 /\ (e \notin receipt \/ e \in expired) => Quiet(e)

-----------------------------------------------------------------------------
Fate(e) ==
  CASE row[e] \in {"none", "inserted"} -> "open"
    [] row[e] = "rolledback"           -> "rolledback"
    [] OTHER                           -> "committed"

(* The pipeline implements SideEffects.                                    *)
Promise == INSTANCE SideEffects
             WITH fate <- [e \in Entries |-> Fate(e)], effects <- effects

ImplementsSideEffects == Promise!Spec
=============================================================================
