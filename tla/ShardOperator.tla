--------------------------- MODULE ShardOperator ----------------------------
(***************************************************************************)
(* The queue-operator's reconcile loop for one Queue (internal/operator)   *)
(* and the shards it creates, splits, drains and deletes; the shard map it *)
(* publishes in Redis; and the senders that route by that map              *)
(* (internal/core/queue/shard_router.go, internal/kafka/topology.go).      *)
(*                                                                         *)
(* A step is one request to the API server, to Kafka or to Redis.  The     *)
(* Queue object is the sequence of its versions that the operator's        *)
(* informer has not passed yet: the last one is what the API server        *)
(* stores, the first one is what the reconciler reads.  An update carries  *)
(* the version it was read at and is refused if that is not the stored     *)
(* one.                                                                    *)
(*                                                                         *)
(* A topic is named by its shard's ID.  ParentID and AvailabilityZones are *)
(* left out of a shard: nothing reads them back.  The clock counts the     *)
(* long spans that cooldown and retention are; within one there is time    *)
(* for several samples, and any of them may show a high throughput.        *)
(***************************************************************************)
EXTENDS Integers, Sequences, FiniteSets, FiniteSetsExt

CONSTANTS
    FullHashRangeEnd,  \* exclusive end of the hash ranges
    SignBit,           \* toPositive keeps hashes below it
    MaxShards,         \* spec.maxShards
    Cooldown,          \* spec.shardSplitCooldownSeconds
    Retention,         \* spec.messageRetentionPeriodSeconds
    Specs,             \* the isDLQ and deadLetterTarget a Queue may be created with
    Sender,            \* concurrent SendMessage calls
    MaxLag,            \* the lag of a topic (bound)
    MaxTime,           \* the clock (bound)
    MaxCreates,        \* how often the Queue is created (bound)
    MaxFaults          \* crashes and failed requests (bound)

ASSUME RangeAssumption ==
    /\ FullHashRangeEnd \in Nat /\ SignBit \in Nat \ {0} /\ SignBit <= FullHashRangeEnd
ASSUME SpecAssumption ==
    /\ MaxShards \in Nat \ {0} /\ Cooldown \in Nat /\ Retention \in Nat
    /\ Specs \subseteq [isDLQ : BOOLEAN, target : {"none", "self", "other"}]
ASSUME BoundAssumption ==
    MaxLag \in Nat /\ MaxTime \in Nat /\ MaxCreates \in Nat \ {0} /\ MaxFaults \in Nat

VARIABLES
    versions,  \* API server: versions of the Queue, from the informer's to the stored one
    worker,    \* API server: the TemporalWorker of the Queue's Temporal namespace exists
    topics,    \* Kafka: the topics that exist
    lag,       \* Kafka: the consumer group's lag on each topic
    meta,      \* kmsvc:queue is published
    shardmap,  \* kmsvc:shardmap: the set of its shards; empty when it is not there
    queued,    \* the controller's work queue holds the Queue
    opc, base, mem, oi, drained,  \* Reconcile's locals: the object read and its shards
    sampled,   \* sampleState: the topics it has an entry for
    target,    \* the topic a SendMessage call was routed to, or how far it is
    now, faults

objectVars == <<versions, worker>>
kafkaVars == <<topics, lag>>
redisVars == <<meta, shardmap>>
localVars == <<base, mem, oi, drained>>
operatorVars == <<queued, opc, localVars, sampled>>
vars == <<objectVars, kafkaVars, redisVars, operatorVars, target, now, faults>>

Phase == {"Active", "Closing", "Closed"}

\* A split adds two shards and one active one, so no more IDs are ever used.
Id == 0 .. 2 * MaxShards - 2
NoTopic == -1
QueueFound == -2
KeySpace == 0 .. FullHashRangeEnd - 1

\* What HashKey can return: toPositive masks the top bit.
HashKeys == 0 .. SignBit - 1

Bare(n, spec, deleting, phase) ==
    [uid |-> n, spec |-> spec, deleting |-> deleting, finalizer |-> FALSE,
     phase |-> phase, shards |-> <<>>]
NewObject(n, spec) == Bare(n, spec, FALSE, "Pending")

\* What is left of an object that is gone: its uid, which is never used again.
Tombstone(o) == Bare(o.uid, o.spec, TRUE, "Gone")
Gone(o) == o.phase = "Gone"
NoObject == [uid |-> 0]

Stored == versions[Len(versions)]
Cached == versions[1]

Init ==
    /\ \E spec \in Specs : versions = <<NewObject(1, spec)>>
    /\ worker = FALSE
    /\ topics = {}
    /\ lag = [t \in Id |-> 0]
    /\ meta = FALSE
    /\ shardmap = {}
    /\ queued = TRUE
    /\ opc = "idle" /\ base = NoObject /\ mem = <<>> /\ oi = 1 /\ drained = {}
    /\ sampled = {}
    /\ target = [s \in Sender |-> NoTopic]
    /\ now = 0 /\ faults = 0

-----------------------------------------------------------------------------
(* Shards                                                                  *)

NewShard(id, start, end) ==
    [id |-> id, start |-> start, end |-> end, phase |-> "Active", created |-> now]

\* The boundary between the children of a split.
SplitHashRange(s) == s.start + (s.end - s.start) \div 2

\* Mutant: the number of active shards names the next one.
MutNextShardID(q) == Cardinality({i \in DOMAIN q : q[i].phase = "Active"})
NextShardID(q) == Max({q[i].id : i \in DOMAIN q} \cup {-1}) + 1

Active(q) == {i \in DOMAIN q : q[i].phase = "Active"}

\* SelectShard over ActiveShards: the shards of a map that own a hash.
Owners(m, h) == {s \in m : s.phase = "Active" /\ s.start <= h /\ h < s.end}

\* Mutant: the second child starts after the midpoint.
MutSplit(q, i) ==
    LET p   == q[i]
        mid == SplitHashRange(p)
        a   == NextShardID(q)
    IN  [q EXCEPT ![i].phase = "Closing"]
            \o <<NewShard(a, p.start, mid), NewShard(a + 1, mid + 1, p.end)>>
\* The shard at i stops being a write target; its children own its halves.
Split(q, i) ==
    LET p   == q[i]
        mid == SplitHashRange(p)
        a   == NextShardID(q)
    IN  [q EXCEPT ![i].phase = "Closing"]
            \o <<NewShard(a, p.start, mid), NewShard(a + 1, mid, p.end)>>

\* The shards in D are closed.
Close(q, D) ==
    [i \in DOMAIN q |-> IF q[i].id \in D THEN [q[i] EXCEPT !.phase = "Closed"] ELSE q[i]]

\* What publishRedisState writes: every shard that is not closed.
Published(q) == {q[i] : i \in {j \in DOMAIN q : q[j].phase # "Closed"}}

\* ValidateNoDLQCycle.
ValidSpec(spec) == spec.target = "none" \/ (spec.target = "other" /\ ~spec.isDLQ)

-----------------------------------------------------------------------------
(* The API server                                                          *)

\* Mutant: the version the update was read at is not compared.
MutConflict == FALSE
Conflict == Stored # base

\* A new stored version; an update that changes nothing is not an event.
Store(o) == versions' = IF o = Stored THEN versions ELSE Append(versions, o)

\* Mutant: an error is swallowed.
MutRequeue(failed) == queued
\* An error puts the Queue back in the work queue.
Requeue(failed) == queued \/ failed

\* Reconcile returns.
Return(failed) ==
    /\ opc' = "idle" /\ base' = NoObject /\ mem' = <<>> /\ oi' = 1 /\ drained' = {}
    /\ queued' = Requeue(failed)
    /\ UNCHANGED sampled

Goto(pc) ==
    /\ opc' = pc /\ oi' = 1
    /\ UNCHANGED <<queued, base, drained, sampled>>

-----------------------------------------------------------------------------
(* Reconcile                                                               *)

\* Get from the cache, then everything up to the next request.
ReconcileStart ==
    /\ opc = "idle" /\ queued
    /\ queued' = FALSE
    /\ UNCHANGED <<objectVars, kafkaVars, redisVars, oi, drained, sampled, target, now, faults>>

\* Nothing to do: the Queue is gone, or is being deleted and not ours.
ReconcileIgnored ==
    /\ ReconcileStart
    /\ Cached.deleting /\ ~Cached.finalizer
    /\ UNCHANGED <<opc, base, mem>>

\* The pc at which a Queue that is there goes on, and the shards it has there.
FirstStep(o) ==
    IF o.deleting THEN IF o.shards = <<>> THEN "delmeta" ELSE "delete"
    ELSE IF ~ValidSpec(o.spec) THEN "failed"
    ELSE IF ~o.finalizer THEN "finalizer" ELSE "topics"

\* A Queue without shards gets shard 0, which owns every hash.
InitialShards(q) == IF q = <<>> THEN <<NewShard(0, 0, FullHashRangeEnd)>> ELSE q

ReconcileBegin ==
    /\ ReconcileStart
    /\ Cached.deleting => Cached.finalizer
    /\ base' = Cached
    /\ opc' = FirstStep(Cached)
    /\ mem' = IF opc' = "topics" THEN InitialShards(Cached.shards) ELSE Cached.shards

\* Update with the finalizer added.
AddFinalizer ==
    /\ opc = "finalizer"
    /\ \/ /\ ~Conflict
          /\ base' = [base EXCEPT !.finalizer = TRUE]
          /\ Store(base')
          /\ opc' = "topics"
          /\ mem' = InitialShards(base.shards)
          /\ UNCHANGED <<queued, oi, drained, sampled>>
       \/ /\ Conflict
          /\ Return(TRUE)
          /\ UNCHANGED versions
    /\ UNCHANGED <<worker, kafkaVars, redisVars, target, now, faults>>

\* One iteration is done; the loop over n shards is followed by pc.
NextShard(n, pc) ==
    IF oi < n THEN oi' = oi + 1 /\ UNCHANGED opc ELSE oi' = 1 /\ opc' = pc

\* ensureShardTopics, one shard: CreateTopic, which may find it there.
EnsureTopic ==
    /\ opc = "topics"
    /\ topics' = IF mem[oi].phase = "Closed" THEN topics ELSE topics \cup {mem[oi].id}
    /\ NextShard(Len(mem), "split")
    /\ UNCHANGED <<objectVars, lag, redisVars, queued, base, mem, drained, sampled, target,
                   now, faults>>

\* The loop of reconcileSplits runs over the shards there were at its start.
ShardsAtStart == IF base.shards = <<>> THEN 1 ELSE Len(base.shards)

\* Mutant: an off-by-one in the comparison with maxShards.
MutFull(q) == Cardinality(Active(q)) > MaxShards
\* The queue has as many active shards as it may.
Full(q) == Cardinality(Active(q)) >= MaxShards

\* A shard that may be sampled: active, and older than the cooldown.
Sampleable(s) == s.phase = "Active" /\ now >= s.created + Cooldown

\* reconcileSplits, one shard that is not split: it is not active or too young,
\* its first sample is taken, or its throughput is below the threshold.
SampleShard ==
    /\ opc = "split"
    /\ mem[oi].phase = "Active" => ~Full(mem)
    /\ sampled' = IF Sampleable(mem[oi]) THEN sampled \cup {mem[oi].id} ELSE sampled
    /\ NextShard(ShardsAtStart, "drain")
    /\ UNCHANGED <<objectVars, kafkaVars, redisVars, queued, base, mem, drained, target, now,
                   faults>>

\* reconcileSplits stops at the first active shard once there are maxShards.
StopSplitting ==
    /\ opc = "split"
    /\ mem[oi].phase = "Active" /\ Full(mem)
    /\ Goto("drain")
    /\ UNCHANGED <<objectVars, kafkaVars, redisVars, mem, target, now, faults>>

\* reconcileSplits, one shard whose throughput is over the threshold.
SplitShard ==
    /\ opc = "split"
    /\ Sampleable(mem[oi]) /\ mem[oi].id \in sampled /\ ~Full(mem)
    /\ mem' = Split(mem, oi)
    /\ sampled' = sampled \ {mem[oi].id}
    /\ NextShard(ShardsAtStart, "drain")
    /\ UNCHANGED <<objectVars, kafkaVars, redisVars, queued, base, drained, target, now, faults>>

\* The next iteration of reconcileDrains; at its end the shards that were
\* deleted, D, become closed.
NextDrain(D) ==
    /\ NextShard(Len(mem), "meta")
    /\ IF oi < Len(mem) THEN drained' = D /\ UNCHANGED mem
                        ELSE drained' = {} /\ mem' = Close(mem, D)

\* The retention window has passed since the shard was created.
Expired(s) == now >= s.created + Retention

\* reconcileDrains, one shard: ConsumerLag.  It reads 0 for a group that cannot
\* be described.
CheckLag ==
    /\ opc = "drain"
    /\ \/ /\ mem[oi].phase = "Closing" => lag[mem[oi].id] > 0 \/ ~Expired(mem[oi])
          /\ NextDrain(drained)
          /\ UNCHANGED faults
       \/ /\ mem[oi].phase = "Closing" /\ Expired(mem[oi])
          /\ \/ lag[mem[oi].id] = 0 /\ UNCHANGED faults
             \/ lag[mem[oi].id] > 0 /\ faults < MaxFaults /\ faults' = faults + 1
          /\ opc' = "deltopic"
          /\ UNCHANGED <<mem, oi, drained>>
    /\ UNCHANGED <<objectVars, kafkaVars, redisVars, queued, base, sampled, target, now>>

DropTopic(t) ==
    /\ topics' = topics \ {t}
    /\ lag' = [lag EXCEPT ![t] = 0]

\* ... and DeleteTopic of a shard that has no lag.
DeleteDrained ==
    /\ opc = "deltopic"
    /\ DropTopic(mem[oi].id)
    /\ \/ /\ oi < Len(mem) /\ opc' = "drain" /\ oi' = oi + 1
          /\ drained' = drained \cup {mem[oi].id} /\ UNCHANGED mem
       \/ /\ oi = Len(mem) /\ opc' = "meta" /\ oi' = 1
          /\ drained' = {} /\ mem' = Close(mem, drained \cup {mem[oi].id})
    /\ UNCHANGED <<objectVars, redisVars, queued, base, sampled, target, now, faults>>

\* publishRedisState: PutQueueMeta.
PublishMeta ==
    /\ opc = "meta"
    /\ meta' = TRUE
    /\ Goto("map")
    /\ UNCHANGED <<objectVars, kafkaVars, shardmap, mem, target, now, faults>>

\* publishRedisState: PutShardMap.
PublishMap ==
    /\ opc = "map"
    /\ shardmap' = Published(mem)
    /\ Goto("temporal")
    /\ UNCHANGED <<objectVars, kafkaVars, meta, mem, target, now, faults>>

\* reconcileTemporalWorker, of a Queue with a Temporal namespace.
ReconcileTemporalWorker ==
    /\ opc = "temporal"
    /\ worker' = TRUE
    /\ Goto("ready")
    /\ UNCHANGED <<versions, kafkaVars, redisVars, mem, target, now, faults>>

\* The last status update of a reconcile that went well, or setFailed's.
UpdateStatus ==
    /\ opc \in {"ready", "failed"}
    /\ IF Conflict THEN UNCHANGED versions
       ELSE Store([base EXCEPT !.shards = mem,
                               !.phase = IF opc = "ready" THEN "Ready" ELSE "Failed"])
    /\ Return(Conflict \/ opc = "failed")
    /\ UNCHANGED <<worker, kafkaVars, redisVars, target, now, faults>>

-----------------------------------------------------------------------------
(* reconcileDelete                                                         *)

\* DeleteTopic of one shard that is not closed.
DeleteShardTopic ==
    /\ opc = "delete"
    /\ IF mem[oi].phase = "Closed" THEN UNCHANGED kafkaVars ELSE DropTopic(mem[oi].id)
    /\ NextShard(Len(mem), "delmeta")
    /\ UNCHANGED <<objectVars, redisVars, queued, base, mem, drained, sampled, target, now, faults>>

DeleteQueueMeta ==
    /\ opc = "delmeta"
    /\ meta' = FALSE
    /\ Goto("delmap")
    /\ UNCHANGED <<objectVars, kafkaVars, shardmap, mem, target, now, faults>>

\* Mutant: the shard map is left behind.
MutDeleteShardMap == UNCHANGED shardmap
\* DEL of the shard map.
DelShardMap == shardmap' = {}
DeleteShardMap ==
    /\ opc = "delmap"
    /\ DelShardMap
    /\ Goto("delworker")
    /\ UNCHANGED <<objectVars, kafkaVars, meta, mem, target, now, faults>>

DeleteTemporalWorker ==
    /\ opc = "delworker"
    /\ worker' = FALSE
    /\ Goto("unfinalize")
    /\ UNCHANGED <<versions, kafkaVars, redisVars, mem, target, now, faults>>

\* Update without the finalizer: the API server removes the object.
RemoveFinalizer ==
    /\ opc = "unfinalize"
    /\ IF Conflict THEN UNCHANGED versions ELSE Store(Tombstone(base))
    /\ Return(Conflict)
    /\ UNCHANGED <<worker, kafkaVars, redisVars, target, now, faults>>

-----------------------------------------------------------------------------
(* What can go wrong                                                       *)

\* The steps whose error is answered with setFailed, and the ones whose error
\* is returned as it is.
FailsQueue == {"topics", "split", "drain", "deltopic", "meta", "map", "temporal"}
JustFails == {"finalizer", "ready", "failed", "delete", "delmeta", "delmap", "delworker",
              "unfinalize"}

\* A request fails.  The shards reconcileDrains deleted stay in the status as
\* they were: it sets them only at its end.
RequestFails ==
    /\ faults < MaxFaults
    /\ faults' = faults + 1
    /\ \/ opc \in FailsQueue /\ opc' = "failed" /\ oi' = 1 /\ drained' = {}
          /\ UNCHANGED <<queued, base, mem, sampled>>
       \/ opc \in JustFails /\ Return(TRUE)
    /\ UNCHANGED <<objectVars, kafkaVars, redisVars, target, now>>

\* CreateTopic or DeleteTopic does its work, but the answer is lost.
AnswerLost ==
    /\ faults < MaxFaults
    /\ faults' = faults + 1
    /\ \/ /\ opc = "topics" /\ mem[oi].phase # "Closed"
          /\ topics' = topics \cup {mem[oi].id} /\ UNCHANGED lag
       \/ opc = "deltopic" /\ DropTopic(mem[oi].id)
    /\ opc' = "failed" /\ oi' = 1 /\ drained' = {}
    /\ UNCHANGED <<objectVars, redisVars, queued, base, mem, sampled, target, now>>

\* The operator dies and starts again: it lists the Queue afresh, and has
\* forgotten its samples.
OperatorCrash ==
    /\ faults < MaxFaults
    /\ faults' = faults + 1
    /\ versions' = <<Stored>>
    /\ opc' = "idle" /\ base' = NoObject /\ mem' = <<>> /\ oi' = 1 /\ drained' = {}
    /\ queued' = TRUE /\ sampled' = {}
    /\ UNCHANGED <<worker, kafkaVars, redisVars, target, now>>

-----------------------------------------------------------------------------
(* The informer, the user, the clock, senders and consumers                *)

\* A watch event: the cache moves on, and the Queue is reconciled.
Deliver ==
    /\ Len(versions) > 1
    /\ versions' = Tail(versions)
    /\ queued' = TRUE
    /\ UNCHANGED <<worker, kafkaVars, redisVars, opc, localVars, sampled, target, now, faults>>

\* The informer's periodic resync.
Resync ==
    /\ ~queued
    /\ queued' = TRUE
    /\ UNCHANGED <<objectVars, kafkaVars, redisVars, opc, localVars, sampled, target, now, faults>>

\* The user deletes the Queue: at once, if no finalizer holds it.
DeleteQueue ==
    /\ ~Stored.deleting
    /\ Store(IF Stored.finalizer THEN [Stored EXCEPT !.deleting = TRUE] ELSE Tombstone(Stored))
    /\ UNCHANGED <<worker, kafkaVars, redisVars, operatorVars, target, now, faults>>

\* The user creates the Queue again.
CreateQueue ==
    /\ Gone(Stored) /\ Stored.uid < MaxCreates
    /\ \E spec \in Specs : Store(NewObject(Stored.uid + 1, spec))
    /\ UNCHANGED <<worker, kafkaVars, redisVars, operatorVars, target, now, faults>>

Tick ==
    /\ now < MaxTime
    /\ now' = now + 1
    /\ UNCHANGED <<objectVars, kafkaVars, redisVars, operatorVars, target, faults>>

\* SendMessage: GetQueueMeta.
FindQueue(s) ==
    /\ target[s] = NoTopic
    /\ meta
    /\ target' = [target EXCEPT ![s] = QueueFound]
    /\ UNCHANGED <<objectVars, kafkaVars, redisVars, operatorVars, now, faults>>

\* SendMessage: RouteForSend.
RouteForSend(s) ==
    /\ target[s] = QueueFound
    /\ \/ /\ shardmap = {}
          /\ target' = [target EXCEPT ![s] = NoTopic]
       \/ \E h \in HashKeys : \E o \in Owners(shardmap, h) : target' = [target EXCEPT ![s] = o.id]
    /\ UNCHANGED <<objectVars, kafkaVars, redisVars, operatorVars, now, faults>>

\* SendMessage: Produce, which fails if the topic is not there.
Produce(s) ==
    /\ target[s] \in Id
    /\ \/ /\ target[s] \in topics /\ lag[target[s]] < MaxLag
          /\ lag' = [lag EXCEPT ![target[s]] = @ + 1]
       \/ /\ target[s] \notin topics
          /\ UNCHANGED lag
    /\ target' = [target EXCEPT ![s] = NoTopic]
    /\ UNCHANGED <<objectVars, topics, redisVars, operatorVars, now, faults>>

\* Messages are received and acked.  The ack that leaves nothing pending commits
\* nothing, so the last message of a topic stays in the lag.
Consume(t) ==
    /\ lag[t] > 1
    /\ lag' = [lag EXCEPT ![t] = @ - 1]
    /\ UNCHANGED <<objectVars, topics, redisVars, operatorVars, target, now, faults>>

\* Kafka deletes the records that are older than the retention.
RecordsExpire(t) ==
    /\ lag[t] > 0 /\ now >= Retention
    /\ lag' = [lag EXCEPT ![t] = 0]
    /\ UNCHANGED <<objectVars, topics, redisVars, operatorVars, target, now, faults>>

-----------------------------------------------------------------------------
ReconcileStep ==
    \/ AddFinalizer \/ EnsureTopic \/ SampleShard \/ StopSplitting \/ SplitShard
    \/ CheckLag \/ DeleteDrained \/ PublishMeta \/ PublishMap \/ ReconcileTemporalWorker
    \/ UpdateStatus
    \/ DeleteShardTopic \/ DeleteQueueMeta \/ DeleteShardMap \/ DeleteTemporalWorker
    \/ RemoveFinalizer

Reconcile == ReconcileIgnored \/ ReconcileBegin \/ ReconcileStep

Next ==
    \/ Reconcile
    \/ RequestFails \/ AnswerLost \/ OperatorCrash
    \/ Deliver \/ Resync \/ DeleteQueue \/ CreateQueue \/ Tick
    \/ \E s \in Sender : FindQueue(s) \/ RouteForSend(s) \/ Produce(s)
    \/ \E t \in Id : Consume(t) \/ RecordsExpire(t)

Spec == Init /\ [][Next]_vars

\* The work queue is served, a reconcile that began goes on, and watch events
\* arrive.  Nobody has to create, delete, send or consume, and the resync,
\* hours apart, is not relied on.
FairSpec == Spec /\ WF_vars(Reconcile) /\ WF_vars(Deliver)

-----------------------------------------------------------------------------
(* Properties                                                              *)

Shard == [id : Id, start : 0 .. FullHashRangeEnd, end : 0 .. FullHashRangeEnd, phase : Phase,
          created : 0 .. MaxTime]
Object == [uid : 1 .. MaxCreates, spec : Specs, deleting : BOOLEAN, finalizer : BOOLEAN,
           phase : {"Pending", "Ready", "Failed", "Gone"}, shards : Seq(Shard)]

\* Every variable has its type; the IDs of shards and topics stay within the
\* 2 * MaxShards - 1 that splitting may use.
TypeOK ==
    /\ versions \in Seq(Object) /\ versions # <<>>
    /\ worker \in BOOLEAN /\ meta \in BOOLEAN /\ queued \in BOOLEAN
    /\ topics \subseteq Id /\ lag \in [Id -> 0 .. MaxLag]
    /\ shardmap \subseteq Shard
    /\ opc \in FailsQueue \cup JustFails \cup {"idle"}
    /\ base \in Object \cup {NoObject} /\ (opc # "idle" => base \in Object)
    /\ mem \in Seq(Shard) /\ oi \in 1 .. 2 * MaxShards - 1 /\ drained \subseteq Id
    /\ sampled \subseteq Id
    /\ target \in [Sender -> Id \cup {NoTopic, QueueFound}]
    /\ now \in 0 .. MaxTime /\ faults \in 0 .. MaxFaults

\* RouteForSend never fails to cover a key, and never has a choice: in every
\* shard map that is published each hash belongs to exactly one active shard,
\* whatever the reconciler was interrupted in.
RouteTotal ==
    shardmap # {} => \A h \in KeySpace : \E s \in shardmap : Owners(shardmap, h) = {s}

\* maxShards is the ceiling the operator splits up to: no published map has
\* more active shards, also when a stale status is split again.
ActiveWithinMax == Cardinality({s \in shardmap : s.phase = "Active"}) <= MaxShards

\* The shards of a stored status have IDs, hence topics, of their own, though
\* an ID is taken from a list that may be out of date.
OwnTopics ==
    \A i, j \in DOMAIN Stored.shards : Stored.shards[i].id = Stored.shards[j].id => i = j

\* How far a shard is in its life.
Rank(s) == CASE s.phase = "Active" -> 0 [] s.phase = "Closing" -> 1 [] s.phase = "Closed" -> 2

\* The stored status only moves forward while the Queue lives: no shard is
\* dropped, reopened or given another range, though every reconcile starts
\* from a cached copy that may be out of date.
StatusForward ==
    [][Stored'.uid = Stored.uid /\ ~Gone(Stored') =>
          \A i \in DOMAIN Stored.shards :
              /\ i \in DOMAIN Stored'.shards
              /\ Rank(Stored'.shards[i]) >= Rank(Stored.shards[i])
              /\ Stored'.shards[i].start = Stored.shards[i].start
              /\ Stored'.shards[i].end = Stored.shards[i].end]_vars

\* When the finalizer is gone so is everything that makes the message plane
\* serve the queue: a deleted queue is not published, also if the deletion
\* was interrupted or a reconcile was under way.
NoOrphanRoutes == Gone(Stored) => ~meta /\ shardmap = {} /\ ~worker

\* However often a reconcile fails or loses a conflict, the published map
\* catches up with the stored status.
MapCatchesUp == []<>(shardmap = Published(Stored.shards))

\* The finalizer does not hold a deleted Queue for ever.
DeleteCompletes == Stored.deleting ~> Gone(Stored)

\* A published write target gets its topic, or stops being one.
PublishedGetTopics ==
    \A t \in Id :
        LET WriteTarget == \E s \in shardmap : s.id = t /\ s.phase = "Active"
        IN  WriteTarget ~> t \in topics \/ ~WriteTarget

=============================================================================
