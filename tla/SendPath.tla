------------------------------ MODULE SendPath ------------------------------
(***************************************************************************)
(* SendMessage and SendMessageBatch on one queue (internal/core/queue/     *)
(* send_message.go, internal/api/handlers): the checks, the claim of the   *)
(* deduplication ID in Redis, the routing and the produce, run by several  *)
(* calls at once while the operator publishes and removes the queue.       *)
(* The reaper's send to a dead-letter queue is such a call too: one entry, *)
(* with the group of a FIFO message and without a deduplication ID.        *)
(*                                                                         *)
(* A step is one request to Redis or Kafka.  That a published map has a    *)
(* shard for every key is ShardOperator's RouteTotal, so a map is here or  *)
(* not; which shard and which partition of it take a record is left out.   *)
(* Group and deduplication IDs are strings, written as sequences of their  *)
(* pieces so that the key built from them is what the code builds.         *)
(***************************************************************************)
EXTENDS Naturals, Sequences, FiniteSets

CONSTANTS
    Sender,             \* concurrent SendMessage and SendMessageBatch calls
    Batches,            \* what they are called with: sequences of entries
    Metas,              \* the metadata the queue may be published with
    NoMeta,             \* the queue is not published
    Window,             \* the deduplication window
    MaxTime,            \* the clock (bound)
    MaxCalls,           \* calls made (bound)
    MaxFaults           \* failed requests, lost answers, dead replicas (bound)

Entry == UNION {{b[i] : i \in DOMAIN b} : b \in Batches}

ASSUME BatchAssumption ==
    \A b \in Batches : b \in Seq(Entry) /\ b # <<>> /\ \A i \in DOMAIN b :
        DOMAIN b[i] = {"group", "dedup", "fits"} /\ b[i].fits \in BOOLEAN
ASSUME MetaAssumption ==
    Metas \subseteq [fifo : BOOLEAN] /\ NoMeta \notin Metas
ASSUME BoundAssumption ==
    /\ Window \in Nat \ {0} /\ MaxTime \in Nat /\ MaxCalls \in Nat /\ MaxFaults \in Nat

VARIABLES
    meta, mapped, topics,  \* the queue's metadata; its map and its topics are there
    claim,      \* kmsvc:dedup: the time each key has left, 0 when it is not there
    log,        \* Kafka: the records of the queue, in the order they were stored
    pc, batch, at, read,   \* a call's locals: its entries, the current one, the metadata
    mine,                  \* ... when it claimed its current entry (history)
    successful, failed,    \* ... and its response so far: indices of entries
    claimedAt,  \* history: when each key was last claimed
    dups,       \* history: the answers that told a caller it sent a duplicate
    now, calls, faults

queueVars == <<meta, mapped, topics>>
responseVars == <<successful, failed>>
callVars == <<pc, batch, at, read, mine, responseVars>>
historyVars == <<claimedAt, dups>>
vars == <<queueVars, claim, log, callVars, historyVars, now, calls, faults>>

Separator == <<":">>
\* DedupKey, without what all keys of the queue share.
DedupKey(e) == e.group \o Separator \o e.dedup

Key == {DedupKey(e) : e \in Entry}
Current(s) == batch[s][at[s]]

Init ==
    /\ meta = NoMeta /\ mapped = FALSE /\ topics = FALSE
    /\ claim = [k \in Key |-> 0]
    /\ log = <<>>
    /\ pc = [s \in Sender |-> "idle"]
    /\ batch = [s \in Sender |-> <<>>]
    /\ at = [s \in Sender |-> 1]
    /\ read = [s \in Sender |-> NoMeta]
    /\ successful = [s \in Sender |-> {}]
    /\ failed = [s \in Sender |-> {}]
    /\ claimedAt = [k \in Key |-> 0]
    /\ mine = [s \in Sender |-> 0]
    /\ dups = {}
    /\ now = 0 /\ calls = 0 /\ faults = 0

-----------------------------------------------------------------------------
(* The loop over the entries of a call                                     *)

NextEntry(s) ==
    /\ IF at[s] < Len(batch[s])
       THEN at' = [at EXCEPT ![s] = @ + 1] /\ pc' = [pc EXCEPT ![s] = "meta"]
       ELSE pc' = [pc EXCEPT ![s] = "return"] /\ UNCHANGED at
    /\ read' = [read EXCEPT ![s] = NoMeta]
    /\ mine' = [mine EXCEPT ![s] = 0]
    /\ UNCHANGED batch

Succeed(s) ==
    /\ successful' = [successful EXCEPT ![s] = @ \cup {at[s]}]
    /\ UNCHANGED failed
    /\ NextEntry(s)

\* Mutant: the entry is reported as sent all the same.
MutFailed(s) ==
    /\ successful' = [successful EXCEPT ![s] = @ \cup {at[s]}]
    /\ UNCHANGED failed
    /\ NextEntry(s)
\* An error ends the entry, not the batch.
Failed(s) ==
    /\ failed' = [failed EXCEPT ![s] = @ \cup {at[s]}]
    /\ UNCHANGED successful
    /\ NextEntry(s)

Goto(s, step) ==
    /\ pc' = [pc EXCEPT ![s] = step]
    /\ UNCHANGED <<batch, at, responseVars>>

\* The locals of a call that has ended.
EndCall(s) ==
    /\ pc' = [pc EXCEPT ![s] = "idle"]
    /\ batch' = [batch EXCEPT ![s] = <<>>]
    /\ at' = [at EXCEPT ![s] = 1]
    /\ read' = [read EXCEPT ![s] = NoMeta]
    /\ mine' = [mine EXCEPT ![s] = 0]
    /\ successful' = [successful EXCEPT ![s] = {}]
    /\ failed' = [failed EXCEPT ![s] = {}]

-----------------------------------------------------------------------------
(* SendMessage                                                             *)

Call(s) ==
    /\ pc[s] = "idle" /\ calls < MaxCalls
    /\ calls' = calls + 1
    /\ \E b \in Batches : batch' = [batch EXCEPT ![s] = b]
    /\ pc' = [pc EXCEPT ![s] = "meta"]
    /\ UNCHANGED <<queueVars, claim, log, at, read, mine, responseVars, historyVars, now, faults>>

\* The checks: the body is not too large, the queue exists, and an entry of a
\* FIFO queue has a group.
Accepts(e, m) == e.fits /\ m # NoMeta /\ (m.fifo => e.group # <<>>)

\* The entry is deduplicated.
Deduplicated(e, m) == m.fifo /\ e.dedup # <<>>

\* The size check, GetQueueMeta and the checks that follow.
GetQueueMeta(s) ==
    /\ pc[s] = "meta"
    /\ \/ /\ ~Accepts(Current(s), meta)
          /\ Failed(s)
       \/ /\ Accepts(Current(s), meta)
          /\ read' = [read EXCEPT ![s] = meta]
          /\ UNCHANGED mine
          /\ Goto(s, IF Deduplicated(Current(s), meta) THEN "dedup" ELSE "route")
    /\ UNCHANGED <<queueVars, claim, log, historyVars, now, calls, faults>>

\* Mutant: the key is set without an expiry.
MutClaimFor(k) == [claim EXCEPT ![k] = MaxTime + Window]
\* SETNX's expiry.
ClaimFor(k) == [claim EXCEPT ![k] = Window]

\* Mutant: SET where it should be SETNX.
MutClaim(k) ==
    /\ claim' = ClaimFor(k)
    /\ claimedAt' = [claimedAt EXCEPT ![k] = now]
\* SETNX on a key that is not there.
Claim(k) ==
    /\ claim[k] = 0
    /\ claim' = ClaimFor(k)
    /\ claimedAt' = [claimedAt EXCEPT ![k] = now]

\* TryDedup: the first send goes on, a duplicate is answered at once.
TryDedup(s) ==
    LET k == DedupKey(Current(s))
    IN  /\ pc[s] = "dedup"
        /\ \/ /\ Claim(k)
              /\ mine' = [mine EXCEPT ![s] = now]
              /\ Goto(s, "route")
              /\ UNCHANGED <<read, dups>>
           \/ /\ claim[k] > 0
              /\ Succeed(s)
              /\ dups' = dups \cup {[key |-> k, told |-> now, claimed |-> claimedAt[k]]}
              /\ UNCHANGED <<claim, claimedAt>>
        /\ UNCHANGED <<queueVars, log, now, calls, faults>>

\* RouteForSend: an error if the map is not published yet, or not any more.
RouteForSend(s) ==
    /\ pc[s] = "route"
    /\ \/ /\ mapped
          /\ Goto(s, "produce")
          /\ UNCHANGED <<read, mine>>
       \/ /\ ~mapped
          /\ Failed(s)
    /\ UNCHANGED <<queueVars, claim, log, historyVars, now, calls, faults>>

Stored(s) ==
    log' = Append(log, [entry |-> Current(s), fifo |-> read[s].fifo, claimed |-> mine[s]])

\* Produce, which fails if the topic is gone.
Produce(s) ==
    /\ pc[s] = "produce"
    /\ \/ /\ topics
          /\ Stored(s)
          /\ Succeed(s)
       \/ /\ ~topics
          /\ Failed(s)
          /\ UNCHANGED log
    /\ UNCHANGED <<queueVars, claim, historyVars, now, calls, faults>>

\* The response is sent.
Return(s) ==
    /\ pc[s] = "return"
    /\ EndCall(s)
    /\ UNCHANGED <<queueVars, claim, log, historyVars, now, calls, faults>>

-----------------------------------------------------------------------------
(* What can go wrong                                                       *)

\* A request fails and does nothing.
RequestFails(s) ==
    /\ pc[s] \in {"meta", "dedup", "route", "produce"}
    /\ faults < MaxFaults
    /\ faults' = faults + 1
    /\ Failed(s)
    /\ UNCHANGED <<queueVars, claim, log, historyVars, now, calls>>

\* The claim or the record is stored, but the answer is lost.
AnswerLost(s) ==
    /\ faults < MaxFaults
    /\ faults' = faults + 1
    /\ \/ /\ pc[s] = "dedup"
          /\ Claim(DedupKey(Current(s)))
          /\ UNCHANGED log
       \/ /\ pc[s] = "produce" /\ topics
          /\ Stored(s)
          /\ UNCHANGED <<claim, claimedAt>>
    /\ Failed(s)
    /\ UNCHANGED <<queueVars, dups, now, calls>>

\* The replica dies: the call is gone, its caller gets an error.
ReplicaDies(s) ==
    /\ pc[s] # "idle"
    /\ faults < MaxFaults
    /\ faults' = faults + 1
    /\ EndCall(s)
    /\ UNCHANGED <<queueVars, claim, log, historyVars, now, calls>>

-----------------------------------------------------------------------------
(* The operator and the clock                                              *)

\* publishRedisState, after the topics were created: metadata, then the map.
PublishMeta ==
    /\ topics \/ (meta = NoMeta /\ ~mapped)
    /\ meta' \in Metas \ {meta} /\ topics' = TRUE
    /\ UNCHANGED <<mapped, claim, log, callVars, historyVars, now, calls, faults>>

PublishMap ==
    /\ meta # NoMeta /\ topics /\ ~mapped
    /\ mapped' = TRUE
    /\ UNCHANGED <<meta, topics, claim, log, callVars, historyVars, now, calls, faults>>

\* reconcileDelete: topics, metadata, map.
DeleteTopics ==
    /\ topics /\ mapped
    /\ topics' = FALSE
    /\ UNCHANGED <<meta, mapped, claim, log, callVars, historyVars, now, calls, faults>>

DeleteMeta ==
    /\ ~topics /\ meta # NoMeta
    /\ meta' = NoMeta
    /\ UNCHANGED <<mapped, topics, claim, log, callVars, historyVars, now, calls, faults>>

DeleteMap ==
    /\ meta = NoMeta /\ mapped
    /\ mapped' = FALSE
    /\ UNCHANGED <<meta, topics, claim, log, callVars, historyVars, now, calls, faults>>

\* A unit of time passes, and with it keys expire.
Tick ==
    /\ now < MaxTime
    /\ now' = now + 1
    /\ claim' = [k \in Key |-> IF claim[k] = 0 THEN 0 ELSE claim[k] - 1]
    /\ UNCHANGED <<queueVars, log, callVars, historyVars, calls, faults>>

-----------------------------------------------------------------------------
SendStep(s) == GetQueueMeta(s) \/ TryDedup(s) \/ RouteForSend(s) \/ Produce(s) \/ Return(s)

Operator == PublishMeta \/ PublishMap \/ DeleteTopics \/ DeleteMeta \/ DeleteMap

Next ==
    \/ \E s \in Sender :
          Call(s) \/ SendStep(s) \/ RequestFails(s) \/ AnswerLost(s) \/ ReplicaDies(s)
    \/ Operator
    \/ Tick

Spec == Init /\ [][Next]_vars

-----------------------------------------------------------------------------
(* Properties                                                              *)

Pc == {"idle", "meta", "dedup", "route", "produce", "return"}

\* Every variable has its type; a call that routes or produces has read the
\* metadata of a queue that was published.
TypeOK ==
    /\ meta \in Metas \cup {NoMeta} /\ mapped \in BOOLEAN /\ topics \in BOOLEAN
    /\ claim \in [Key -> 0 .. Window]
    /\ log \in Seq([entry : Entry, fifo : BOOLEAN, claimed : 0 .. MaxTime])
    /\ pc \in [Sender -> Pc]
    /\ batch \in [Sender -> Batches \cup {<<>>}]
    /\ \A s \in Sender : pc[s] # "idle" => at[s] \in DOMAIN batch[s]
    /\ read \in [Sender -> Metas \cup {NoMeta}]
    /\ \A s \in Sender : pc[s] \in {"dedup", "route", "produce"} <=> read[s] # NoMeta
    /\ \A s \in Sender : successful[s] \subseteq Nat /\ failed[s] \subseteq Nat
    /\ claimedAt \in [Key -> 0 .. MaxTime]
    /\ mine \in [Sender -> 0 .. MaxTime]
    /\ now \in 0 .. MaxTime /\ calls \in 0 .. MaxCalls /\ faults \in 0 .. MaxFaults

\* The record was deduplicated when it was sent.
Claimed(r) == r.fifo /\ r.entry.dedup # <<>>

\* Two records of a FIFO queue with one group and one deduplication ID were
\* claimed a window apart, however often they were sent at once, retried after
\* an error or after a lost answer.
DedupWindow ==
    \A i, j \in DOMAIN log :
        /\ i < j /\ Claimed(log[i]) /\ Claimed(log[j])
        /\ log[i].entry.group = log[j].entry.group /\ log[i].entry.dedup = log[j].entry.dedup
        => log[i].claimed + Window <= log[j].claimed \/ log[j].claimed + Window <= log[i].claimed

\* A caller is told that it sent a duplicate only within the window of the
\* claim its message was compared with.
DuplicateInWindow == \A d \in dups : d.told < d.claimed + Window

\* Every entry of a batch is answered once, and what is answered as sent is
\* stored or was told to be a duplicate.
AnswersAreTrue ==
    \A s \in Sender :
        /\ successful[s] \cap failed[s] = {}
        /\ pc[s] = "return" => successful[s] \cup failed[s] = DOMAIN batch[s]
        /\ \A i \in successful[s] :
              \/ \E j \in DOMAIN log : log[j].entry = batch[s][i]
              \/ \E d \in dups : d.key = DedupKey(batch[s][i])

-----------------------------------------------------------------------------
(* What a comment in the code says, and the code does not always do.       *)

\* The first send of what d is a duplicate of: its record is stored, or its call
\* is still at it.
FirstSend(d) ==
    \/ \E i \in DOMAIN log :
          Claimed(log[i]) /\ DedupKey(log[i].entry) = d.key /\ log[i].claimed = d.claimed
    \/ \E s \in Sender :
          pc[s] \in {"route", "produce"} /\ DedupKey(Current(s)) = d.key /\ mine[s] = d.claimed

\* TryDedup: a duplicate is a message whose first send is accepted.
DuplicateWasAccepted == \A d \in dups : FirstSend(d)
=============================================================================
