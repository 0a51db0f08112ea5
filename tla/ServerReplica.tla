--------------------------- MODULE ServerReplica ----------------------------
(***************************************************************************)
(* One replica of the server (cmd/server/main.go) from start to exit: the  *)
(* gRPC server and the HTTP gateway, the Kafka consumer that the calls of  *)
(* a queue share (internal/api/handlers/consumer_registry.go), the         *)
(* discovery of queues, the reaper goroutine, and the shutdown.            *)
(*                                                                         *)
(* Registry and discovery treat every queue alike, so there is one queue.  *)
(* What a receive does with a record it tracks is MessagePlane's business, *)
(* and the other calls only use the clients.  Consumer, producer, admin    *)
(* and Redis client are closed one after the other at the end.             *)
(***************************************************************************)
EXTENDS Naturals, FiniteSets

CONSTANTS
    GrpcCall, HttpCall,  \* calls over gRPC and over the HTTP gateway
    Topic,               \* the topics of the queue's shards
    MaxRecords,          \* records produced (bound)
    MaxChanges,          \* changes of the queue (bound)
    MaxFaults            \* failed requests (bound)

Call == GrpcCall \cup HttpCall

ASSUME CallAssumption == GrpcCall \cap HttpCall = {}
ASSUME BoundAssumption == MaxRecords \in Nat /\ MaxChanges \in Nat /\ MaxFaults \in Nat

VARIABLES
    meta, shards,  \* Redis: the queue has metadata; its consumable topics, {} without a map
    unread,        \* Kafka: records of a topic that were not polled
    registered, open,  \* the registry has a consumer of the queue; it is not closed
    subscribed,    \* registeredConsumer.topics
    pc, got, known,  \* a call's locals: the topics Get read, and those ReceiveMessage read
    skipped,       \* history: topics whose record was skipped while it was published
    grpc, http,    \* the goroutines that serve: starting, serving, stopped
    main,          \* where run() is
    signalled,     \* SIGTERM: ctx is cancelled
    timedOut,      \* httpSrv.Shutdown gave up
    discovery, started,  \* runReaperDiscovery is running, and has marked the queue
    reaper,        \* Reaper.Run: none, waiting, sweeping, stopped
    records, changes, faults

queueVars == <<meta, shards, unread, records, changes>>
registryVars == <<registered, open, subscribed>>
callVars == <<pc, got, known, skipped>>
processVars == <<grpc, http, main, signalled, timedOut>>
reaperVars == <<discovery, started, reaper>>
vars == <<queueVars, registryVars, callVars, processVars, reaperVars, faults>>

Init ==
    /\ meta = FALSE /\ shards = {}
    /\ unread = [t \in Topic |-> 0]
    /\ registered = FALSE /\ open = FALSE /\ subscribed = {}
    /\ pc = [c \in Call |-> "idle"]
    /\ got = [c \in Call |-> {}]
    /\ known = [c \in Call |-> {}]
    /\ skipped = {}
    /\ grpc = "starting" /\ http = "starting" /\ main = "serve"
    /\ signalled = FALSE /\ timedOut = FALSE
    /\ discovery = TRUE /\ started = FALSE /\ reaper = "none"
    /\ records = 0 /\ changes = 0 /\ faults = 0

Closing == {"consumers", "producer", "admin", "redis", "exited"}

-----------------------------------------------------------------------------
(* Calls                                                                   *)

Goto(c, step) == pc' = [pc EXCEPT ![c] = step]

Return(c) ==
    /\ Goto(c, "idle")
    /\ got' = [got EXCEPT ![c] = {}]
    /\ known' = [known EXCEPT ![c] = {}]

\* A call comes in: ReceiveMessage, or one that only uses the clients.
Arrive(c) ==
    /\ pc[c] = "idle"
    /\ IF c \in GrpcCall THEN grpc = "serving" ELSE http = "serving"
    /\ \E step \in {"get", "other"} : Goto(c, step)
    /\ UNCHANGED <<queueVars, registryVars, got, known, skipped, processVars, reaperVars, faults>>

\* Get: the shards are read before the mutex is taken.
ReadShards(c) ==
    /\ pc[c] = "get"
    /\ IF shards = {} THEN Return(c)
       ELSE got' = [got EXCEPT ![c] = shards] /\ Goto(c, "register") /\ UNCHANGED known
    /\ UNCHANGED <<queueVars, registryVars, skipped, processVars, reaperVars, faults>>

\* Mutant: the topics are those of this call.
MutSubscription(c) == got[c]
Subscription(c) == subscribed \cup got[c]

\* Get, under the mutex: create the consumer, or subscribe it to what is new.
Register(c) ==
    /\ pc[c] = "register"
    /\ registered' = TRUE
    /\ IF registered THEN subscribed' = Subscription(c) /\ UNCHANGED open
       ELSE subscribed' = got[c] /\ open' = TRUE
    /\ Goto(c, "meta")
    /\ UNCHANGED <<queueVars, got, known, skipped, processVars, reaperVars, faults>>

\* ReceiveMessage reads the metadata ...
GetQueueMeta(c) ==
    /\ pc[c] = "meta"
    /\ IF meta THEN Goto(c, "shards") /\ UNCHANGED <<got, known>> ELSE Return(c)
    /\ UNCHANGED <<queueVars, registryVars, skipped, processVars, reaperVars, faults>>

\* ... and the shards again, once for all its polls.
ConsumableShards(c) ==
    /\ pc[c] = "shards"
    /\ IF shards = {} THEN Return(c)
       ELSE known' = [known EXCEPT ![c] = shards] /\ Goto(c, "poll") /\ UNCHANGED got
    /\ UNCHANGED <<queueVars, registryVars, skipped, processVars, reaperVars, faults>>

\* A record of a topic that is known is handed out, another one is skipped.
Poll(c) ==
    /\ pc[c] = "poll" /\ open
    /\ \E t \in subscribed :
          /\ unread[t] > 0
          /\ unread' = [unread EXCEPT ![t] = @ - 1]
          /\ \/ t \in known[c] /\ Return(c) /\ UNCHANGED skipped
             \/ /\ t \notin known[c]
                /\ skipped' = skipped \cup ({t} \cap shards)
                /\ UNCHANGED <<pc, got, known>>
    /\ UNCHANGED <<meta, shards, records, changes, registryVars, processVars, reaperVars, faults>>

\* The wait time is over, the caller has gone, or the consumer is closed; or
\* another call has done what it does.
Finish(c) ==
    /\ pc[c] \in {"poll", "other"}
    /\ Return(c)
    /\ UNCHANGED <<queueVars, registryVars, skipped, processVars, reaperVars, faults>>

\* A request of the call fails, or NewConsumer does.
CallFails(c) ==
    /\ pc[c] # "idle" /\ faults < MaxFaults
    /\ faults' = faults + 1
    /\ Return(c)
    /\ UNCHANGED <<queueVars, registryVars, skipped, processVars, reaperVars>>

CallStep(c) ==
    \/ ReadShards(c) \/ Register(c) \/ GetQueueMeta(c) \/ ConsumableShards(c) \/ Poll(c)
    \/ Finish(c)

-----------------------------------------------------------------------------
(* run()                                                                   *)

Stopped(server) == IF server = "serving" THEN "stopped" ELSE server

\* Mutant: a listener that fails leaves its goroutine behind.
MutServed(stopping) == IF stopping THEN {"stopped"} ELSE {"serving", "stuck"}
\* What becomes of Serve: after Shutdown or GracefulStop it returns at once,
\* before it listens, or fails to and returns.
Served(stopping) == IF stopping THEN {"stopped"} ELSE {"serving", "stopped"}

ServeGrpc ==
    /\ grpc = "starting"
    /\ grpc' \in Served(main \notin {"serve", "http"})
    /\ UNCHANGED <<queueVars, registryVars, callVars, http, main, signalled, timedOut, reaperVars,
                   faults>>

ServeHttp ==
    /\ http = "starting"
    /\ http' \in Served(main # "serve")
    /\ UNCHANGED <<queueVars, registryVars, callVars, grpc, main, signalled, timedOut, reaperVars,
                   faults>>

Signal ==
    /\ ~signalled
    /\ signalled' = TRUE
    /\ UNCHANGED <<queueVars, registryVars, callVars, grpc, http, main, timedOut, reaperVars,
                   faults>>

\* httpSrv.Shutdown stops the listener ...
ShutdownHttp ==
    /\ main = "serve" /\ signalled
    /\ main' = "http" /\ http' = Stopped(http)
    /\ UNCHANGED <<queueVars, registryVars, callVars, grpc, signalled, timedOut, reaperVars, faults>>

\* Mutant: the calls that are under way are not waited for.
MutIdle(calls) == TRUE
Idle(calls) == \A c \in calls : pc[c] = "idle"

\* ... and waits for the calls, at most ten seconds.  GracefulStop follows.
HttpDone ==
    /\ main = "http"
    /\ timedOut' = ~Idle(HttpCall)
    /\ main' = "grpc" /\ grpc' = Stopped(grpc)
    /\ UNCHANGED <<queueVars, registryVars, callVars, http, signalled, reaperVars, faults>>

\* GracefulStop returns when no call is left, and wg.Wait when both goroutines
\* have returned.
GrpcDone ==
    /\ main = "grpc" /\ Idle(GrpcCall)
    /\ grpc = "stopped" /\ http = "stopped"
    /\ main' = "consumers"
    /\ UNCHANGED <<queueVars, registryVars, callVars, grpc, http, signalled, timedOut, reaperVars,
                   faults>>

\* The deferred calls: the consumers, the producer, the admin client, Redis.
CloseConsumers ==
    /\ main = "consumers"
    /\ main' = "producer" /\ open' = FALSE
    /\ UNCHANGED <<queueVars, registered, subscribed, callVars, grpc, http, signalled, timedOut,
                   reaperVars, faults>>

AfterClose == [producer |-> "admin", admin |-> "redis", redis |-> "exited"]
\* With the process its goroutines end.
CloseClient ==
    /\ main \in DOMAIN AfterClose
    /\ main' = AfterClose[main]
    /\ IF main' = "exited"
       THEN /\ pc' = [c \in Call |-> "idle"]
            /\ got' = [c \in Call |-> {}] /\ known' = [c \in Call |-> {}]
            /\ discovery' = FALSE /\ reaper' = IF reaper = "none" THEN "none" ELSE "stopped"
       ELSE UNCHANGED <<pc, got, known, discovery, reaper>>
    /\ UNCHANGED <<queueVars, registryVars, skipped, grpc, http, signalled, timedOut, started,
                   faults>>

Process ==
    \/ ServeGrpc \/ ServeHttp \/ ShutdownHttp \/ HttpDone \/ GrpcDone \/ CloseConsumers
    \/ CloseClient

-----------------------------------------------------------------------------
(* Discovery and reaper                                                    *)

\* A round of discovery finds the queue for the first time; one that fails, or
\* comes after ctx is cancelled, finds nothing.
Discover ==
    /\ discovery /\ ~signalled
    /\ meta /\ ~started
    /\ started' = TRUE /\ reaper' = "waiting"
    /\ UNCHANGED <<queueVars, registryVars, callVars, processVars, discovery, faults>>

StopDiscovery ==
    /\ discovery /\ signalled
    /\ discovery' = FALSE
    /\ UNCHANGED <<queueVars, registryVars, callVars, processVars, started, reaper, faults>>

\* Mutant: a reaper ends when its queue is gone.
MutAfterNoMeta == "stopped"
AfterNoMeta == "waiting"
\* A tick: Sweep reads the metadata, which may be gone.  Once ctx is cancelled
\* this request fails.
SweepStart ==
    /\ reaper = "waiting" /\ ~signalled
    /\ reaper' = IF meta THEN "sweeping" ELSE AfterNoMeta
    /\ UNCHANGED <<queueVars, registryVars, callVars, processVars, discovery, started, faults>>

\* The sweep ends, or fails; both times Run goes on.
SweepEnd ==
    /\ reaper = "sweeping"
    /\ reaper' = "waiting"
    /\ UNCHANGED <<queueVars, registryVars, callVars, processVars, discovery, started, faults>>

StopReaper ==
    /\ reaper = "waiting" /\ signalled
    /\ reaper' = "stopped"
    /\ UNCHANGED <<queueVars, registryVars, callVars, processVars, discovery, started, faults>>

ReaperStep == Discover \/ StopDiscovery \/ SweepStart \/ SweepEnd \/ StopReaper

-----------------------------------------------------------------------------
(* The operator and the senders                                            *)

Change == changes < MaxChanges /\ changes' = changes + 1

\* The operator publishes metadata, then a map, which a split or a drain
\* changes; a deletion removes them in the same order.
PublishMeta ==
    /\ Change /\ ~meta /\ shards = {}
    /\ meta' = TRUE
    /\ UNCHANGED <<shards, unread, records, registryVars, callVars, processVars, reaperVars, faults>>

PublishMap ==
    /\ Change /\ meta
    /\ \E s \in SUBSET Topic \ {{}, shards} : shards' = s
    /\ UNCHANGED <<meta, unread, records, registryVars, callVars, processVars, reaperVars, faults>>

DeleteMeta ==
    /\ Change /\ meta
    /\ meta' = FALSE
    /\ UNCHANGED <<shards, unread, records, registryVars, callVars, processVars, reaperVars, faults>>

DeleteMap ==
    /\ ~meta /\ shards # {}
    /\ shards' = {}
    /\ UNCHANGED <<meta, unread, records, changes, registryVars, callVars, processVars, reaperVars,
                   faults>>

Produce ==
    /\ records < MaxRecords
    /\ records' = records + 1
    /\ \E t \in shards : unread' = [unread EXCEPT ![t] = @ + 1]
    /\ UNCHANGED <<meta, shards, changes, registryVars, callVars, processVars, reaperVars, faults>>

Environment == PublishMeta \/ PublishMap \/ DeleteMeta \/ DeleteMap \/ Produce

-----------------------------------------------------------------------------
Next ==
    \/ \E c \in Call : Arrive(c) \/ CallStep(c) \/ CallFails(c)
    \/ Process \/ Signal
    \/ ReaperStep
    \/ Environment

Spec == Init /\ [][Next]_vars

\* The goroutines of run() go on, tickers tick, and the requests of a sweep end.
\* Nobody has to call, to change the queue or to send SIGTERM, and a call need not
\* end: a produce and a long poll have no timeout of their own.
FairSpec ==
    /\ Spec
    /\ WF_vars(Process)
    /\ WF_vars(Discover) /\ WF_vars(SweepStart) /\ WF_vars(SweepEnd)
    /\ WF_vars(DeleteMap)

-----------------------------------------------------------------------------
(* Properties                                                              *)

\* Every variable has its type.
TypeOK ==
    /\ meta \in BOOLEAN /\ shards \subseteq Topic
    /\ unread \in [Topic -> 0 .. MaxRecords]
    /\ registered \in BOOLEAN /\ open \in BOOLEAN /\ subscribed \subseteq Topic
    /\ pc \in [Call -> {"idle", "get", "register", "meta", "shards", "poll", "other"}]
    /\ got \in [Call -> SUBSET Topic] /\ known \in [Call -> SUBSET Topic]
    /\ skipped \subseteq Topic
    /\ grpc \in {"starting", "serving", "stopped"} /\ http \in {"starting", "serving", "stopped"}
    /\ main \in {"serve", "http", "grpc"} \cup Closing
    /\ signalled \in BOOLEAN /\ timedOut \in BOOLEAN
    /\ started \in BOOLEAN /\ discovery \in BOOLEAN
    /\ reaper \in {"none", "waiting", "sweeping", "stopped"}
    /\ records \in 0 .. MaxRecords /\ changes \in 0 .. MaxChanges /\ faults \in 0 .. MaxFaults

\* Once a call has its consumer, the consumer is subscribed to every shard the
\* call read, also when a call that read an older map registered in between.
Resynced ==
    \A c \in Call : pc[c] \in {"meta", "shards", "poll"} => got[c] \subseteq subscribed

\* The clients are closed when no gRPC call uses them any more, and no HTTP call
\* that ended within the timeout; the process leaves no consumer behind then.
CleanShutdown ==
    /\ main \in Closing => \A c \in Call : pc[c] = "idle" \/ (c \in HttpCall /\ timedOut)
    /\ main = "exited" => ~open \/ timedOut

\* A queue that stays is swept again and again, even if it was deleted and
\* created again after its reaper was started, until the replica is stopped.
KeepsReaping == <>[]meta => <>signalled \/ []<>(reaper = "sweeping")

\* SIGTERM ends the process, whichever listener came up and however long the calls
\* over HTTP take, if the calls over gRPC end: GracefulStop waits for them without
\* a limit, and nothing else can keep the process.
Exits == (\A c \in GrpcCall : []<>(pc[c] = "idle")) => (signalled ~> main = "exited")

-----------------------------------------------------------------------------
(* What a comment in the code says, and the code does not always do.       *)

\* ReceiveMessage: a record is skipped if its shard has been closed since.
SkippedIsClosed == skipped = {}
=============================================================================
