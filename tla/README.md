# Verification of kmsvc: an SQS-like queue service over Kafka and Redis

This directory holds TLA+ models of the message plane, of sending, of a server
replica and of the queue operator with its two controllers, the TLC runs that
check them on small instances, and TLAPS proofs of their invariants for
every value of the constants. `PROJECT.json` is the
index: components, runs, the mutants that show each property can fail, the map
from definitions to source lines, findings, hazards and theorems.

## 1. The system

| part | state | operations |
|---|---|---|
| message plane (`internal/core/queue`) | none of its own; locals of concurrent calls | `SendMessage`, `ReceiveMessage`, `DeleteMessage`, `ChangeMessageVisibility` |
| Redis (`internal/redis`, `lua/`) | per queue: `inflight` records with a TTL, `vis_index`, `redeliver` list, `pending` set and `watermark` per partition, `fifo_lock` per group, `dedup` keys, queue metadata, shard map | single commands, MULTI/EXEC pipelines, `ack.lua`, `reap.lua` |
| reaper (`internal/core/reaper`) | one sweep per queue and replica | `Sweep`, `routeToDLQ`, `Run` |
| Kafka (`internal/kafka`) | one topic per shard; the group's committed offsets; each consumer's position | `Poll`, `CommitOffset`, `Produce`, `CreateTopic`, `DeleteTopic`, `ConsumerLag` |
| queue operator (`internal/operator`) | the `Queue` object (finalizer, `status.shards`), in-memory throughput samples | `Reconcile` (topics, splits, drains, publication), `reconcileDelete` |
| topology and router (`internal/kafka/topology.go`, `shard_router.go`) | the shard map in Redis | `HashKey`, `SelectShard`, `SplitHashRange`, `RouteForSend`, `ConsumableShards` |
| consumer registry, gRPC handlers (`internal/api/handlers`) | one consumer per queue and replica | `Get`, the RPCs and their batch forms |
| TemporalWorker controller (`temporal_worker_controller.go`) | one `TemporalWorker` per Temporal namespace, shared by its Queues, and its Deployment | `Reconcile`, `reconcileDelete` |
| server process (`cmd/server`) | two listeners, started reapers, clients | start, discovery, shutdown |
| zone locator, authentication, configuration, charts | - | - |

**How they interact.** Replicas of the message plane share nothing but Redis
and Kafka. A receive first pops the `redeliver` list, then polls the consumer
it shares with the other calls of its replica; each record is added to
`pending`, given a receipt handle, put in flight and, in a FIFO queue, made to
take its group's lock. A delete runs `ack.lua` and commits the lowest pending
offset. Reapers move expired handles from `vis_index` to `redeliver` or to the
dead-letter queue. The operator publishes the shard map in Redis, which senders
and receivers read on every call; it learns through the group's lag when a
closing shard is drained, and works on a cached copy of the `Queue`. A Queue
with a `temporal.io/namespace` label also creates, updates and deletes the
namespace's `TemporalWorker`, which the second controller of the same process
turns into a Deployment.

**What is hard.** Every call is a sequence of separate requests, and other
calls, reapers and replicas run between any two of them; a call may be cut
short anywhere; records, locks and visibility expire on clocks of their own; a
crash or a rebalance rewinds the position to the committed offset; the
operator may be interrupted after any request, act on a stale copy, or lose an
update to a conflict. The list of hazards, each at its line, is in
`PROJECT.json`.

**What makes it correct.**
- *Message plane*: a commit passes no tracked message that is not done, and what
  is in flight can come back; each handle meets one end and is handed out a
  bounded number of times; a lock is released by its owner; what expires is
  reaped.
- *Operator*: at every moment each key routes to exactly one shard; the status
  only moves forward; topics are not shared; a deleted queue leaves nothing
  published; the published state catches up, and deletions complete.
- *Sending*: one record per deduplication ID and window; every entry of a batch
  is answered for what became of it.
- *Server replica*: the shared consumer is subscribed to all its callers know; a
  queue that stays is swept; SIGTERM ends the process once its gRPC calls have
  ended, clients last.
- *Temporal workers*: a worker gets a Deployment that refers to it, with its
  image; the last Queue of a namespace leaves nothing running.

## 2. Modules

| module | what it is |
|---|---|
| `MessagePlane` | one queue's message plane: calls, reapers, Redis, Kafka offsets, time, crashes |
| `AtLeastOnceQueue` | what the message plane promises: hand-outs, ends and what is forgotten |
| `MessagePlaneRefinement` | `MessagePlane` seen as an `AtLeastOnceQueue` (`INSTANCE ... WITH`) |
| `MCMessagePlane` | instances for TLC: a FIFO and a standard queue, symmetry |
| `MessagePlaneProofs` | theorems about `MessagePlane`: types, tracking, one end, commits |
| `MessageDeliveryProofs` | ... and about redelivery: locks, hand-outs, what can come back |
| `MessagePlaneRefinementProofs` | the proof that `MessagePlane` implements `AtLeastOnceQueue` |
| `ShardOperator` | the reconcile loop of one Queue, its shards, the published map, senders |
| `MCShardOperator` | instances for TLC: the kinds of specs |
| `ShardOperatorProofs` | theorems about `ShardOperator`: routing, ceiling, status, types |
| `ShardDeletionProofs` | ... and about what a deletion leaves behind |
| `SendPath`, `MCSendPath`, `SendPathProofs` | `SendMessage` and `SendMessageBatch` on one queue, its instances and theorems |
| `ServerReplica`, `MCServerReplica`, `ServerReplicaProofs` | one server process: registry, listeners, reaper, shutdown |
| `TemporalWorkers`, `MCTemporalWorkers`, `TemporalWorkersProofs` | the Queues of one Temporal namespace, their worker and its Deployment |

The modules overlap where components meet, and each abstracts the other's part
to what it can observe: `SendPath` sees the operator as the order in which
topics, metadata and map come and go (`ShardOperator`'s order); `ServerReplica`
sees it as a set of topics that changes, and a receive as the requests that
concern shards and the consumer (`MessagePlane` has the rest of it);
`TemporalWorkers` reduces a Queue's reconcile to its finalizer, worker and
status requests.

### MessagePlane

One step is one Redis command, one MULTI/EXEC, one Lua script or one Kafka
request. A call is a program counter and its locals: `rpc rvis rcur rbatch rout`
for a receive (timeout, the handle in hand, the records polled and not yet
used, the response so far), `cpc ch cmin cto` for a delete or a visibility
change, `wpc wbatch wh` for a sweep. Redis keys are the variables `pending
watermark inflight ttl count visIndex deadline redeliver lock lockTTL`; Kafka is
`position` and `committed`. A receipt handle is `[part, off, uuid]`, as
`newReceiptHandle` builds it; the shard and the partition are one `Part`.

| code | actions |
|---|---|
| `handOutRedeliverable` | `PopRedeliverable GetInFlight AcquireRedelivered PushBack ExtendExists ExtendZAdd` |
| `Poll`, `handOutFresh` | `Poll AddPending PutInFlight AcquireFresh Park` |
| the loop of `ReceiveMessage` | `ReceiveStart ReceiveReturn ReceiveAgain` |
| `DeleteMessage`, `advanceWatermark` | `DeleteGet DeleteAck DeleteMin DeleteWatermark DeleteCommit` |
| `ChangeMessageVisibility` | `VisExists VisZAdd` |
| `Sweep`, `reap.lua`, `routeToDLQ` | `Sweep Reap RouteToDLQ` |
| errors, crashes, the clock | `ReceiveFails CallFails SweepFails Crash Rebalance Tick` |

Time is a `Tick` that counts all running timers down; a timer at 0 has passed,
and a record or lock whose TTL runs out is dropped in that tick. The log is
filled from the start: a poll may always return less than there is. `minted`,
`delivered`, `handouts`, `acked`, `dead`, `dlq`, `overtaken` are history: no guard of
the program reads them, except that a client only uses handles it was given and
uuids are not used twice.

A message is *overtaken* when `AddPending` tracks a later offset of its partition
before the message was ever tracked. The code does this in three ways: the
response is full and the rest of the polled batch is dropped
(`receive_message.go:115`), a call is cut short between its poll and `AddPending`,
or two calls share the consumer and the later record is tracked first. An
overtaken message is in the pending set late or never, so the low-watermark
does not know of it; every other message is safe (`CommitsPassOnlyDone`).

`RouteToDLQ` looks up the dead-letter queue's metadata (`DLQMetas`: not published,
standard or FIFO, as that queue has a life of its own) and is refused where
`SendMessage` refuses (`SendRefused`); a refusal ends the sweep, and the message is
lost, as `reap.lua` has deleted its state. A send that fails otherwise is
`SweepFails`.

`AtLeastOnceQueue` is stated for receipt handles: a handle is put in at most
`MaxReceiveCount` responses (`HandOut`, `Receive`), is finished with by a delete of
somebody who has it or by being taken out for the dead-letter queue, to which
it is sent at most once (`Delete`, `DeadLetter`, `SendToDLQ`); a message is
overtaken only while it is unfinished (`Overtake`), and `Commit` forgets messages
that are finished with or were overtaken. `MessagePlaneRefinement` reads these
sets off the histories and `committed`; every other step of the message plane is
a stutter.

Left out: bodies; the `GetQueueMeta` and `ConsumableShards` a call starts with
(the queue exists and its shards are fixed); a DLQ send that succeeds but
reports an error (it differs from a success only in ending the sweep).

### ShardOperator

`versions` is the sequence of versions of the `Queue` the informer has not
passed: its last element is what the API server stores, its first what the
reconciler reads. An update is refused (`Conflict`) unless the version it was
read at is still the stored one. `opc base mem oi drained` are the locals of
`Reconcile`: the object read, the shards in memory, the index of the running
loop and the shards a drain has deleted so far. One step is one request.

| code | actions |
|---|---|
| `Reconcile`, up to the first request | `ReconcileIgnored ReconcileBegin AddFinalizer` |
| `ensureShardTopics` | `EnsureTopic`, per shard |
| `reconcileSplits` | `SampleShard StopSplitting SplitShard` |
| `reconcileDrains` | `CheckLag DeleteDrained` |
| `publishRedisState`, `reconcileTemporalWorker`, status | `PublishMeta PublishMap ReconcileTemporalWorker UpdateStatus` |
| `reconcileDelete` | `DeleteShardTopic DeleteQueueMeta DeleteShardMap DeleteTemporalWorker RemoveFinalizer` |
| faults | `RequestFails AnswerLost OperatorCrash` |
| informer, users, clock | `Deliver Resync DeleteQueue CreateQueue Tick` |
| `SendMessage` (lookup, route, produce) | `FindQueue RouteForSend Produce` |
| Kafka's lag | `Consume RecordsExpire` |

Hash ranges are scaled down: `FullHashRangeEnd` stands for 0xFFFFFFFF, `SignBit`
for 0x80000000. Both are odd and even like the originals, so the first split
falls one below the sign bit as it does in the code. Whether a sample shows a
throughput over the threshold is a free choice, once the shard has an earlier
sample. Left out: availability zones and `parentID` (nothing reads them),
`maxShards <= 0` and `threshold <= 0` (the CRD's minimum is 1), the validation of
the Temporal namespace label.

### SendPath

A call is the entries it was given, the current one, the metadata it read for
it and the response so far; `SendMessage` is a batch of one. Steps:
`GetQueueMeta` (with the size and group checks before and after it), `TryDedup`,
`RouteForSend`, `Produce`, `Return`. `claim` is the remaining time of each
`kmsvc:dedup` key; a key is the sequence group, ":", deduplication ID, as
`DedupKey` joins them. A request may fail, its answer may be lost after it took
effect, and a replica may die with its call. `log` holds the records, each with
the time of its claim, which is history, as are `claimedAt`, `mine` and `dups`. A
published map routes every key, which is `ShardOperator`'s `RouteTotal`, so a map
is there or not. The reaper's send to a dead-letter queue is such a call
without a deduplication ID. The partition within the shard is left out: it is
the group's hash modulo `partitionsPerShard`, which a user may edit
(`queue_types.go:50`), and nothing in the code keeps a group where it was.

### ServerReplica

| code | actions |
|---|---|
| `QueueService.ReceiveMessage`, `ConsumerRegistry.Get` | `Arrive ReadShards Register` |
| `ReceiveMessage`'s reads and polls | `GetQueueMeta ConsumableShards Poll Finish` |
| the two serving goroutines | `ServeGrpc ServeHttp` |
| `run()` after the signal, deferred calls | `ShutdownHttp HttpDone GrpcDone CloseConsumers CloseClient` |
| `runReaperDiscovery`, `Reaper.Run` | `Discover StopDiscovery SweepStart SweepEnd StopReaper` |

The registry and the discovery treat queues one by one, so one queue is
enough. A call that is not a receive is the one state `other`: it uses the
clients, and may end. `HttpDone` may come before the HTTP calls have ended, the
ten seconds of `Shutdown`; `timedOut` remembers it. `GrpcDone` waits for the gRPC
calls, however long they take, as `GracefulStop` does.

### TemporalWorkers

Queues, worker and Deployment are sequences of versions as in `ShardOperator`;
`n` and `owner` stand for UIDs, so an object that is created again is another
one. `CreateOrUpdate` decides by the cached copy: `CreateWorker UpdateWorker
WorkerRefused`, and `CreateDeployment UpdateDeployment DeploymentRefused`.
`SetControllerReference` compares the owner's group, kind and name and not its
UID, so a Deployment that an earlier worker of the name left behind is adopted:
its owner reference is rewritten (`Adopted`). The mutate function replaces the
containers without the fields the API server fills in, so an Update goes out on
every reconcile; it is refused whenever the cached copy is behind, and changes
nothing when owner and image are as they were. `AfterDelete` is what the API
server does with and without a finalizer; `CollectDeployment` is the garbage
collector that follows owner references by UID. `OperatorRestart` may
bring a new image. `qwork` and `wwork` are the work queues, filled by the watches
of `cmd/queue-operator` (a Queue's own events; the worker's and its
Deployment's) and by errors. Left out: the validity of the label's characters,
the fields of the pod template other than the image.

## 3. Runs

Passing runs (2 workers, each under four minutes):

| run | instance | properties |
|---|---|---|
| `PlaneFifo` | FIFO, 2 records of one group, 2 receives, a dead-letter queue that may refuse | `HandoutsBounded Redeliverable LockReleasedByOwner` |
| `PlaneCommit` | standard, 3 records, 2 receives with polls of 2 and room for 1, 2 clients, a reaper | `TypeOK TerminalExclusive TrackedUntilDone CommitsPassOnlyDone ImplementsQueue` |
| `PlaneLive` | FIFO, 1 record, 2 uuids, a fault, a cancelled call, visibility changes, `FairSpec` | `Redeliverable ExpiredIsReaped` |
| `Operator` | up to 3 shards, 2 creations, a fault, all specs, `FairSpec` | `TypeOK RouteTotal OwnTopics ActiveWithinMax StatusForward MapCatchesUp DeleteCompletes PublishedGetTopics` |
| `OperatorDelete` | 2 shards, 2 creations, 2 faults, a sender | `NoOrphanRoutes` |
| `Send` | 2 senders, 3 calls, 3 batches, 2 kinds of queue, a fault | `TypeOK DedupWindow DuplicateInWindow AnswersAreTrue` |
| `Temporal` | 1 Queue created twice, 2 workers, 2 images, a fault, `FairSpec` | `TypeOK NamespaceExists ReadyHasDeployment NoOrphanWorker CleanedUp WorkerIsDeployed` |
| `Replica` | a gRPC and an HTTP call, 2 topics, 3 changes, a fault, `FairSpec` | `TypeOK Resynced CleanShutdown KeepsReaping Exits` |

What they show, where the name does not say it:
- `Redeliverable`: without a failure nothing is stranded, whatever is parked,
  popped and pushed back (`PlaneFifo`); a receive that is cut short, or a replica
  that dies, strands at most the one message each of its calls had popped
  (`PlaneLive`); no other record that exists is out of the reaper's and the
  redelivery's reach. A record whose own TTL ran out exists no more and is not
  counted: a rebalance or restart rereads it, or nothing does.
- `CommitsPassOnlyDone`: the commit made of three requests, racing receives, other
  deletes and reaps, passes a message that is not done only if that message was
  overtaken. `WatermarkSafe`, which makes no exception, is what `consume.go` says
  and what `DroppedBatch` refutes.
- `ImplementsQueue`: every step is one the abstract queue allows.
- `DedupWindow`, `DuplicateInWindow`: two records with one deduplication ID were
  claimed a window apart, and nobody is told of a duplicate after the window.
- `Resynced`: a call that read an older map never takes topics away from a
  consumer, and no caller waits on a consumer that lacks a shard it read.
- `ReadyHasDeployment`: a worker is not shown as Ready for a Deployment that is
  gone or still refers to its predecessor, which the garbage collector is about
  to take; one it has adopted is its own.
- `WorkerIsDeployed`: conflicts of the Updates, collected Deployments, errors and
  new images only delay a worker, given that pods become ready.
- `Exits`: after SIGTERM the process exits, provided that each gRPC call is over
  again and again. The proviso is needed: a produce has no delivery timeout
  (`produce.go:19-21`), a wait time no cap, and `GracefulStop` (`main.go:134`) waits.

Each violation run checks one thing a comment, a doc or a test says, and TLC
finds a behaviour of the code in which it does not hold. `findings` quotes the
line and tells the story.

| run | what is said | what happens |
|---|---|---|
| `DroppedBatch` | no commit past an unacked message | a full response drops polled records untracked |
| `DuplicateLost` | a duplicate is of a message that is accepted | the ID is claimed before the produce that fails |
| `SharedWorker` | one worker per namespace for all its queues | deleting one Queue deletes it, and nothing reconciles the others |
| `SkippedChild` | a skipped record's shard has been closed | a shard published after the call read its list is skipped too, untracked |

Other behaviours of the code, seen in the same models with other formulas and
not kept as runs; they say why no stronger property is claimed:
- with two receives at once, or a receive that is cut short, `WatermarkSafe` fails
  as in `DroppedBatch`: a later record can be tracked and acked before an earlier
  one is tracked (`receive_message.go:182`);
- a message in the hand of a receive that fails between LPOP and
  ExtendVisibility (`receive_message.go:144-175`) comes back with the next
  rebalance or restart only: what `Redeliverable` counts;
- a send to the dead-letter queue that fails (`reaper.go:69`) or is refused
  (`send_message.go:59-66`: the queue is not published, or is FIFO and the message
  has no group) is not retried, although the comment at `reaper.go:97-98` says so
  of transient errors: the message is lost;
- two messages of a group can be with consumers at once: the lock has the TTL
  of its first hand-out, which neither ChangeMessageVisibility nor a
  redelivery renews (`inflight.go:88`), although `fifo.go:13-15` excludes it;
- a shard older than the retention is split and its topic deleted in one
  reconcile, before the map that closes it is published: the retention counts
  from `CreatedAt` (`shard_drain.go:35`);
- `HashKey` has 31 bits and ranges have 32 (`topology.go:97`), so the upper child of
  the first split owns one hash;
- two deletes may commit in the other order, so the committed offset can move
  back, to a value that was safe (`delete_message.go:58-71`);
- the ack that leaves nothing pending commits nothing (`delete_message.go:62-64`,
  as its comment says), so a closing shard's lag does not reach 0 through acks;
- the sweep reaps a handle that was extended after its batch was read
  (`reap.lua:13`); a record's TTL is never renewed (`inflight.go:43`); a message
  acked during its redelivery is handed out all the same
  (`receive_message.go:175`); time spent parked counts as receives
  (`receive_message.go:192`); a message pushed back goes behind later ones of its
  group (`receive_message.go:168`);
- a visibility timeout of 0, which the CRD allows (`queue_types.go:25`), sets a lock
  without expiry (`watermark.go:67`): only the holder's own ack or reap frees it,
  and when the holder's record is gone nothing does, so that no property says
  that locks heal;
- a stale or interrupted reconcile may publish a closing shard as active again,
  create a drained topic again, or leave a topic that no status lists
  (`queue_controller.go:97-120, 285`); a sender may produce to a shard between the
  drain's lag check and its deletion (`shard_drain.go:31-40`).

**Bounds.** One record is enough for what happens to a handle; a second uuid
lets a rebalance deliver the record again under another handle. Two records of
one group are enough for parking, lock hand-over and order; two for a gap below
a commit, and three for a batch that is cut off with a later record still to
come. Timers of 1 and a grace of 1 or 2 give every order of visibility, lock
and record expiry. `MaxReceiveCount` 2 has a redelivery and an exhaustion. Three shards make
splits of splits and two splits in one reconcile; two creations make a
recreated Queue with an old incarnation's leftovers; two faults interrupt a
recovery (`OperatorDelete`). A window of 1 and a clock of 2 have sends within one
window, at its end and after it; three calls of two senders have a first send, its retry
and a rival. One Queue created twice with two workers has every overlap of an
incarnation with its predecessor's worker and Deployment; two Queues are in
`SharedWorker`. Three changes publish a queue and split it or delete it.
`PlaneCommit` uses a `MaxReceiveCount` of 1, where what matters is the pending set
and the way to the dead-letter queue; the others use 2. A grace of 2 in
`PlaneFifo` keeps a record until it is exhausted, one of 1 in `PlaneLive` lets it
expire under its last hand-out. Some combinations are in no run, and are
covered by the theorems only: two reapers (`OneEnd` and all others hold for any
number), visibility changes and cancelled calls with two records in the FIFO
instance (`HandoutsAreBounded`, `InFlightComesBack`), cancelled calls, crashes and
rebalances in `PlaneCommit` (`CommitsAreSafe`, `QueueIsImplemented`), several Queues
of one namespace (`NoWorkerIsOrphaned`), visibility timeouts of 0 (all of them).
Symmetry permutes
calls, reapers, uuids, senders, Queues or topics, and is not used in liveness
runs. Deadlock is checked except where the system may really stop: the
`Replica` has exited, or in `Temporal` the last Queue is gone for good.

**Fairness.** `MessagePlane!Fairness`: the clock goes on; `Reaper.Run`'s ticker
starts a sweep again and again and a sweep's requests return. Nobody has to
receive, delete or extend, and a call that began may stop anywhere. `SweepFails`
is bounded by `MaxFaults`, which says that errors do not go on for ever. `ShardOperator!FairSpec`: the work queue is served and a reconcile that
began goes on (weak fairness of the reconcile steps together: they are one
goroutine), and watch events arrive; the hourly resync is not relied on.
`TemporalWorkers!FairSpec`: the same for each of its two controllers, and the
garbage collector makes progress; that the pods of a Deployment become ready is
an assumption about the cluster and the image, which `WorkerIsDeployed` rests
on. Nobody has to create or delete a Queue. `ServerReplica!FairSpec`: the
goroutines of `run()` go on, tickers tick, the requests of a sweep end, and a
deletion the operator began is completed; nobody has to call, to change the
queue or to send SIGTERM, and no call has to end (`Exits` says for which it
matters).

## 4. Proofs

Every invariant and action property that a passing run checks, and the
refinement, is also proved by TLAPS for every value of the constants: any
number of receives, clients, reapers, partitions, records, groups, senders,
Queues and topics; any range, `maxShards` and window; any number of faults and
lagging versions. The proofs start from the named `ASSUME`s of the modules, which
TLC evaluates in the runs: bounds are natural numbers (`MaxCreates` and the like
at least 1), the partitions are a finite set, `NoHandle`, `NoKey`, `NoMeta` are no
handle, Queue or metadata, a batch is a non-empty sequence of entries, gRPC and
HTTP calls are disjoint. One theorem, `InFlightComesBack`, has a hypothesis more.

**`MessagePlaneProofs`**
- `TypeCorrect`, `InFlightIsTracked`, `OneEnd`: `TypeOK`, `TrackedUntilDone` and
  `TerminalExclusive` are invariants. They are proved together through
  `HandleInv == TypeOK /\ TrackedInv /\ LifeInv /\ RoutingInv`. `TrackedUntilDone`
  speaks of records that exist, so `TrackedInv` adds the handle a receive is
  about to put in flight: its offset is already pending. `TerminalExclusive`
  needs `LifeInv`: handles that are done have no record and are never put in
  flight again, since `AddPending` mints a handle once and only the call that
  minted it runs `PutInFlight`. `RoutingInv` says that a handle waiting for its
  DLQ send is dead, not sent yet, and held by one reaper.
- `CommitsAreSafe`: `CommitsPassOnlyDone`, without any assumption on how many calls
  run, what a poll returns or which of them fail. `CommitInv` carries the
  argument. `StaysSeen`: an offset that was ever tracked is pending or its
  message is done, as only the scripts that finish a message take it out of the
  pending set. `NoGaps`: below an offset that was seen, every other was seen or
  is overtaken, since `AddPending` marks what it overtakes. So all below the lowest
  pending offset is done or overtaken; and the value a delete has read stays
  safe until it is committed (`CommitSafe`), as both sets only grow.

**`ShardOperatorProofs`**
- `EveryKeyRoutes`: `RouteTotal`. `RouteInv == ObjectInv /\ LoopInv /\ RouteTotal`:
  every stored or cached version, and the shards in the reconciler's memory,
  are lists whose active shards tile the key space, with IDs `0 .. n-1` in order
  and ends within the range (`GoodShards`). Splitting (`SplitGood`) and closing
  (`CloseGood`) keep that; what is published from such a list routes every key
  (`PublishedRoutes`). A stale or interrupted reconcile publishes an old list,
  but an old list tiles the space too.
- `ShardIDsAreUnique`: `OwnTopics`, from the same invariant.
- `CeilingHolds`: `ActiveWithinMax`, through `SmallInv`: in memory and in every
  version a list of shards is empty, or has at most `maxShards` active shards and
  one less than twice as many shards in all, as each split adds two shards and
  one active one. The count is of the list that is split, so a stale one is
  within the ceiling too.
- `OperatorTypes`: `TypeOK`, from `RouteInv`, `SmallInv` and `TypeRest`; the bound on
  IDs and loop indices is the count of `SmallInv`.
- `StatusNeverGoesBack`: the action property `StatusForward`. `ForwardInv` says that
  the list in memory is ahead of the version the reconcile read; the conflict
  check makes that version the stored one when an update succeeds.

**`MessageDeliveryProofs`**
- `LocksAreReleasedByTheirHolder`: the action property `LockReleasedByOwner`, step by
  step from `HandleInv`: both scripts compare the lock with their handle, and
  `ack.lua` runs on a record, whose handle was not acked before (`LifeInv`).
- `HandoutsAreBounded`: `HandoutsBounded`. A parked handle waits on the redeliver
  list and in `vis_index` at once, so it comes to be on the list more than once,
  and in several calls. `TokenInv` adds up, for each handle, the times it was
  handed out, its places on the list and the calls that carry it, and bounds
  the sum by its `receiveCount`: `reap.lua` adds a place and a count together, a
  pop, a push and a hand-out move one unit, errors and crashes drop some.
  `FreshInv` says that the count is 0 until `PutInFlight` sets it to 1.
- `InFlightComesBack`: `Redeliverable`, for a finite set of receives (without
  which the bound has no meaning). `Redeliverable` is not inductive: a call at
  `lockFresh` holds its handle but hands it out without bringing it back to
  `vis_index`. `LostInv` bounds `Lost`, which counts such a handle from the moment
  its last copy is lost: a failed receive adds one, a crash one per call of the
  replica (`LostMoves`), no other step any.

**`MessagePlaneRefinementProofs`**
- `QueueIsImplemented`: `ImplementsQueue`, again for any calls and faults. The
  abstract `HandOut` is bounded by `HandoutsBounded`, the two ends come from
  `HandleInv`, `Commit` from `CommitInv`; `AckInv` adds that a delete acks what some
  caller was given, `OfferedInv` that a response holds what was handed out.

**`ShardDeletionProofs`**
- `DeletedQueuesAreNotServed`: `NoOrphanRoutes`. The reconciler serves a Queue by a
  cached version of it, and the Queue may be deleted and made anew meanwhile.
  `OrderInv` orders the versions by incarnation and life (new, held by the
  finalizer, being deleted, gone); from it, `HeldInv`: while the cache can still
  show a version with the finalizer, the finalizer is there, as only a
  reconcile that saw the deletion removes it; and `CleanInv`: what a deletion
  took down stays down until it does.

**`SendPathProofs`**
- `SendTypes`: `TypeOK`.
- `DuplicatesAreRecent`, `DuplicatesAreAWindowApart`: `DuplicateInWindow` and
  `DedupWindow`. `KeyInv` ties the time a key has left to the time it was claimed;
  `LogInv` and `HoldInv` say of each record, and of each call between its claim
  and its record, that it is no later than its key's last claim, and a window
  old once the key has expired, and that any two of them are a window apart.
- `BatchAnswersAreTrue`: `AnswersAreTrue`, with the entries answered so far.

**`ServerReplicaProofs`**
- `ReplicaTypes`: `TypeOK`; `SubscribedToWhatWasRead`: `Resynced`, by `RegistryInv`,
  which adds that nothing is subscribed before there is a consumer.
- `ShutdownIsClean`: `CleanShutdown`, by `ShutdownInv`: a listener that has stopped
  serves nobody, each stage of the shutdown finds the calls of the earlier ones
  drained, and only a call that outlived the timeout opens a consumer later.

**`TemporalWorkersProofs`**
- `WorkerTypes`: `TypeOK`; `WorkersHaveTheirNamespace`: `NamespaceExists`, by
  `RegisteredInv` on all versions of worker and Deployment and on what both
  reconciles have read.
- `ReadyWorkersRun`: `ReadyHasDeployment`. Adoption rewrites owners, so what must be
  excluded is a reconcile of an earlier worker that takes the Deployment back.
  `NewestInv`: the worker's versions are in the order of their incarnations, no
  owner reference is later than the oldest of them, and the worker a reconcile
  has read lies between the two, as one goroutine reconciles it. `DeployedInv`: a
  Deployment of the stored worker which was ever seen is still there, since the
  collector only takes those of others.
- `NoWorkerIsOrphaned`: `NoOrphanWorker`, by the argument of `ShardDeletionProofs` for
  every Queue of the namespace (`BaseInv`, `OrderInv`, `FinalizerInv`, `OrphanInv`).

**Only model-checked**: the liveness properties of `PlaneLive`, `Operator`, `Temporal`
and `Replica`; they rest on fairness and ENABLED, which are out of this prover's
reach. The violation runs refute by example.

## 5. Not modelled

- `DeleteMessageBatch`, which repeats the single delete, and `mapError`: no state.
- A poll that returns an error together with records of other partitions.
- Metadata that changes between the requests of one receive or sweep (the
  dead-letter queue's may).
- `PartitionWithinShard`, and so the partition of a group and an edit of
  `partitionsPerShard` (the topic keeps its partitions).
- The one consumer per queue and replica: `Get` creates it under the mutex, which
  is one step of the model.
- The order of a group across a split: parent and child are consumed in no
  order, so there is nothing to prove; likewise the order of parked messages.
- Reading the configuration and start-up failures: the process ends before it
  does anything. `isValidTemporalNamespace` and `validateKubernetesName`: a refused
  label is a reconcile that fails.
- Zone lookup (best effort, nothing reads it), authentication (library calls;
  not installed by `cmd/server`), charts, CRD manifests and generated deep
  copies have no protocol state. murmur2 is any value `HashKey` can return.

## 6. Plan

1. Done: `MessagePlane`, `ShardOperator`, their runs and first proofs.
2. Done: `SendPath`, `ServerReplica`, `TemporalWorkers`, and the refinement of
   `AtLeastOnceQueue`.
3. Done: proofs of every invariant and action property the runs check, and of
   the refinement.
4. Worth adding: the partition of a record and edits of a published Queue's spec,
   and the safety half of the liveness properties (which steps are enabled where an
   expired entry, an unpublished status or a running call is waiting).
