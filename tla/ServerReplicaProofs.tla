------------------------ MODULE ServerReplicaProofs -------------------------
(***************************************************************************)
(* Theorems about ServerReplica, for any number of calls and topics.       *)
(***************************************************************************)
EXTENDS ServerReplica, TLAPS

USE DEF queueVars, registryVars, callVars, processVars, reaperVars

-----------------------------------------------------------------------------
(* Type correctness                                                        *)

\* The type invariant in two parts: the flags, and all other variables.
Flags ==
    /\ meta \in BOOLEAN /\ registered \in BOOLEAN /\ open \in BOOLEAN
    /\ signalled \in BOOLEAN /\ timedOut \in BOOLEAN /\ started \in BOOLEAN /\ discovery \in BOOLEAN

Steps == {"idle", "get", "register", "meta", "shards", "poll", "other"}

TypeData ==
    /\ shards \subseteq Topic /\ subscribed \subseteq Topic /\ skipped \subseteq Topic
    /\ unread \in [Topic -> 0 .. MaxRecords]
    /\ pc \in [Call -> Steps]
    /\ got \in [Call -> SUBSET Topic] /\ known \in [Call -> SUBSET Topic]
    /\ grpc \in {"starting", "serving", "stopped"} /\ http \in {"starting", "serving", "stopped"}
    /\ main \in {"serve", "http", "grpc"} \cup Closing
    /\ reaper \in {"none", "waiting", "sweeping", "stopped"}
    /\ records \in 0 .. MaxRecords /\ changes \in 0 .. MaxChanges /\ faults \in 0 .. MaxFaults

\* A topic has no more unread records than were produced: this is what keeps
\* unread within its bound when one more is produced.
UnreadInv == \A t \in Topic : unread[t] <= records

TypeInv == TypeData /\ UnreadInv

LEMMA TypeParts == TypeOK <=> Flags /\ TypeData
BY Zenon DEF TypeOK, Flags, TypeData, Steps

LEMMA FlagsInit == Init => Flags
BY Zenon DEF Init, Flags

LEMMA FlagsStep == ASSUME Flags, [Next]_vars PROVE Flags'
<1> USE DEF Flags
<1>1. ASSUME NEW c \in Call, Arrive(c) \/ CallStep(c) \/ CallFails(c) PROVE Flags'
  BY <1>1, Zenon DEF Arrive, CallStep, CallFails, ReadShards, Register, GetQueueMeta,
     ConsumableShards, Poll, Finish
<1>2. CASE Process \/ Signal
  <2>1. CASE HttpDone
    BY <2>1, Zenon DEF HttpDone
  <2>2. CASE CloseClient
    BY <2>2, Zenon DEF CloseClient
  <2> QED
    BY <1>2, <2>1, <2>2, Zenon DEF Process, Signal, ServeGrpc, ServeHttp, ShutdownHttp, GrpcDone,
       CloseConsumers
<1>3. CASE ReaperStep
  BY <1>3, Zenon DEF ReaperStep, Discover, StopDiscovery, SweepStart, SweepEnd, StopReaper
<1>4. CASE Environment
  BY <1>4, Zenon DEF Environment, PublishMeta, PublishMap, DeleteMeta, DeleteMap, Produce
<1>5. CASE UNCHANGED vars
  BY <1>5, Zenon DEF vars
<1> QED
  BY <1>1, <1>2, <1>3, <1>4, <1>5, Zenon DEF Next

\* The steps that end a call leave its locals in their types.
LEMMA ReturnType ==
  ASSUME TypeData, NEW c \in Call, Return(c)
  PROVE  /\ pc' \in [Call -> Steps]
         /\ got' \in [Call -> SUBSET Topic] /\ known' \in [Call -> SUBSET Topic]
BY DEF TypeData, Steps, Return, Goto

LEMMA TypeInit == Init => TypeInv
BY BoundAssumption DEF Init, TypeInv, TypeData, Steps, UnreadInv, Closing

LEMMA TypeCallStep ==
  ASSUME TypeInv, NEW c \in Call, Arrive(c) \/ CallStep(c) \/ CallFails(c)
  PROVE  TypeInv'
<1> USE BoundAssumption DEF TypeInv, TypeData, Steps, UnreadInv
<1>1. CASE Arrive(c)
  BY <1>1 DEF Arrive, Goto
<1>2. CASE ReadShards(c)
  BY <1>2, ReturnType DEF ReadShards, Goto
<1>3. CASE Register(c)
  BY <1>3 DEF Register, Subscription, Goto
<1>4. CASE GetQueueMeta(c)
  BY <1>4, ReturnType DEF GetQueueMeta, Goto
<1>5. CASE ConsumableShards(c)
  BY <1>5, ReturnType DEF ConsumableShards, Goto
<1>6. CASE Poll(c)
  <2>1. PICK t \in subscribed :
          /\ unread[t] > 0
          /\ unread' = [unread EXCEPT ![t] = @ - 1]
          /\ \/ t \in known[c] /\ Return(c) /\ UNCHANGED skipped
             \/ skipped' = skipped \cup ({t} \cap shards) /\ UNCHANGED <<pc, got, known>>
    BY <1>6 DEF Poll
  <2>2. unread' \in [Topic -> 0 .. MaxRecords] /\ \A u \in Topic : unread'[u] <= unread[u]
    BY <2>1
  <2>3. \A u \in Topic : unread'[u] <= records
    BY <2>2
  <2> QED
    BY <1>6, <2>1, <2>2, <2>3, ReturnType DEF Poll
<1>7. CASE Finish(c)
  BY <1>7, ReturnType DEF Finish
<1>8. CASE CallFails(c)
  BY <1>8, ReturnType DEF CallFails
<1> QED
  BY <1>1, <1>2, <1>3, <1>4, <1>5, <1>6, <1>7, <1>8 DEF CallStep

LEMMA TypeProcess == ASSUME TypeInv, Process \/ Signal PROVE TypeInv'
<1> USE DEF TypeInv, TypeData, Steps, UnreadInv, Closing
<1>1. CASE ServeGrpc \/ ServeHttp
  BY <1>1 DEF ServeGrpc, ServeHttp, Served
<1>2. CASE ShutdownHttp \/ Signal
  BY <1>2 DEF ShutdownHttp, Signal, Stopped
<1>3. CASE HttpDone \/ GrpcDone
  BY <1>3 DEF HttpDone, GrpcDone, Stopped, Idle
<1>4. CASE CloseConsumers
  BY <1>4 DEF CloseConsumers
<1>5. CASE CloseClient
  BY <1>5 DEF CloseClient, AfterClose
<1> QED
  BY <1>1, <1>2, <1>3, <1>4, <1>5 DEF Process

LEMMA TypeReaperStep == ASSUME TypeInv, ReaperStep PROVE TypeInv'
BY DEF TypeInv, TypeData, Steps, UnreadInv, Closing, ReaperStep, Discover, StopDiscovery, SweepStart,
   AfterNoMeta, SweepEnd, StopReaper

LEMMA TypeEnvironment == ASSUME TypeInv, Environment PROVE TypeInv'
<1> USE BoundAssumption DEF TypeInv, TypeData, Steps, UnreadInv
<1>1. CASE PublishMeta \/ PublishMap \/ DeleteMeta \/ DeleteMap
  BY <1>1 DEF PublishMeta, PublishMap, DeleteMeta, DeleteMap, Change
<1>2. CASE Produce
  <2>1. PICK t \in shards : unread' = [unread EXCEPT ![t] = @ + 1]
    BY <1>2 DEF Produce
  <2>2. t \in Topic /\ records' = records + 1 /\ records < MaxRecords
    BY <1>2 DEF Produce
  <2>3. \A u \in Topic : unread'[u] \in 0 .. MaxRecords /\ unread'[u] <= records'
    BY <2>1, <2>2
  <2> QED
    BY <1>2, <2>1, <2>2, <2>3 DEF Produce
<1> QED
  BY <1>1, <1>2 DEF Environment

LEMMA TypeStep == ASSUME TypeInv, [Next]_vars PROVE TypeInv'
<1>1. CASE UNCHANGED vars
  BY <1>1 DEF TypeInv, TypeData, Steps, UnreadInv, Closing, vars
<1> QED
  BY <1>1, TypeCallStep, TypeProcess, TypeReaperStep, TypeEnvironment DEF Next

\* The server's variables keep their types however many calls there are.
THEOREM ReplicaTypes == Spec => []TypeOK
<1>1. Flags /\ TypeInv => TypeOK
  BY TypeParts DEF TypeInv
<1> QED
  BY <1>1, FlagsInit, FlagsStep, TypeInit, TypeStep, PTL DEF Spec

-----------------------------------------------------------------------------
(* The consumer of the queue                                               *)

\* No consumer, no subscription: the call that creates the consumer replaces
\* subscribed, which may take no topic from a call that has its consumer.
RegistryInv == Resynced /\ (subscribed # {} => registered)

LEMMA RegistryInit == Init => RegistryInv
BY DEF Init, RegistryInv, Resynced

\* Whatever a call does but registering leaves the registry alone; what it read
\* it keeps until it ends.
LEMMA RegistryFrame ==
  ASSUME TypeData, [Next]_vars, ~ \E c \in Call : Register(c)
  PROVE  /\ UNCHANGED <<registered, subscribed>>
         /\ \A c \in Call : pc'[c] \in {"meta", "shards", "poll"} =>
                pc[c] \in {"meta", "shards", "poll"} /\ got'[c] = got[c]
<1> USE DEF TypeData, Steps
<1>1. ASSUME NEW c \in Call, Arrive(c) \/ CallStep(c) \/ CallFails(c)
      PROVE  UNCHANGED <<registered, subscribed>>
  BY <1>1 DEF Arrive, CallStep, CallFails, ReadShards, GetQueueMeta, ConsumableShards, Poll, Finish
<1>2. ASSUME NEW c \in Call, Arrive(c) \/ CallStep(c) \/ CallFails(c)
      PROVE  \A d \in Call : pc'[d] \in {"meta", "shards", "poll"} =>
                pc[d] \in {"meta", "shards", "poll"} /\ got'[d] = got[d]
  <2>1. CASE Return(c)
    BY <2>1 DEF Return, Goto
  <2>2. CASE Arrive(c) \/ ReadShards(c)
    BY <2>1, <2>2 DEF Arrive, ReadShards, Goto
  <2>3. CASE GetQueueMeta(c) \/ ConsumableShards(c)
    BY <2>1, <2>3 DEF GetQueueMeta, ConsumableShards, Goto
  <2>4. CASE Poll(c)
    BY <2>1, <2>4 DEF Poll
  <2> QED
    BY <1>2, <2>1, <2>2, <2>3, <2>4 DEF CallStep, CallFails, Finish
<1>3. CASE CloseClient
  BY <1>3 DEF CloseClient
<1>4. CASE Process \/ Signal \/ ReaperStep \/ Environment \/ UNCHANGED vars
  BY <1>3, <1>4 DEF Process, Signal, ServeGrpc, ServeHttp, ShutdownHttp, HttpDone, GrpcDone,
     CloseConsumers, ReaperStep, Discover, StopDiscovery, SweepStart, SweepEnd, StopReaper,
     Environment, PublishMeta, PublishMap, DeleteMeta, DeleteMap, Produce, vars
<1> QED
  BY <1>1, <1>2, <1>3, <1>4 DEF Next

LEMMA RegistryStep == ASSUME TypeData, RegistryInv, [Next]_vars PROVE RegistryInv'
<1> USE DEF RegistryInv, Resynced
<1>1. ASSUME NEW c \in Call, Register(c) PROVE RegistryInv'
  <2>1. subscribed \cup got[c] = subscribed' /\ registered'
    BY <1>1 DEF Register, Subscription
  <2>2. \A d \in Call : pc'[d] \in {"meta", "shards", "poll"} =>
            got'[d] = got[d] /\ (d = c \/ got[d] \subseteq subscribed)
    BY <1>1 DEF Register, Goto, TypeData
  <2> QED
    BY <2>1, <2>2
<1>2. CASE ~ \E c \in Call : Register(c)
  BY <1>2, RegistryFrame
<1> QED
  BY <1>1, <1>2

\* ConsumerRegistry.Get: a call that has its consumer finds it subscribed to all
\* the shards it read, also when a call with an older map was the last to
\* register.
THEOREM SubscribedToWhatWasRead == Spec => []Resynced
<1>1. RegistryInv => Resynced
  BY DEF RegistryInv
<1> QED
  BY <1>1, TypeInit, TypeStep, RegistryInit, RegistryStep, PTL DEF Spec, TypeInv

-----------------------------------------------------------------------------
(* The shutdown                                                            *)

\* A server that was told to stop serves no more, so no new call comes in ...
NotServing ==
    /\ main # "serve" => http # "serving"
    /\ main \notin {"serve", "http"} => grpc # "serving"

\* ... and the calls that were waited for are gone, over HTTP if they ended
\* within the timeout.
Drained ==
    /\ main \notin {"serve", "http"} /\ ~timedOut => Idle(HttpCall)
    /\ main \in Closing => Idle(GrpcCall)

\* Only a call that outlived the timeout opens a consumer after CloseAll.
ConsumersClosed == main \in Closing \ {"consumers"} => ~open \/ timedOut

ShutdownInv == NotServing /\ Drained /\ ConsumersClosed

LEMMA ShutdownInit == Init => ShutdownInv
BY DEF Init, ShutdownInv, NotServing, Drained, ConsumersClosed, Closing

LEMMA ShutdownCall ==
  ASSUME TypeData, ShutdownInv, NEW c \in Call, Arrive(c) \/ CallStep(c) \/ CallFails(c)
  PROVE  ShutdownInv'
<1> USE DEF ShutdownInv
<1>1. UNCHANGED processVars
  BY DEF Arrive, CallStep, CallFails, ReadShards, Register, GetQueueMeta, ConsumableShards, Poll,
     Finish
<1>2. NotServing'
  BY <1>1 DEF NotServing
<1>3. \A d \in Call : d # c => pc'[d] = pc[d]
  BY DEF TypeData, Arrive, CallStep, CallFails, ReadShards, Register, GetQueueMeta,
     ConsumableShards, Poll, Finish, Return, Goto
<1>4. pc[c] # "idle" \/ Arrive(c)
  BY DEF CallStep, CallFails, ReadShards, Register, GetQueueMeta, ConsumableShards, Poll, Finish
<1>5. Drained'
  <2>1. ASSUME main \notin {"serve", "http"}, ~timedOut PROVE Idle(HttpCall)'
    <3>1. Idle(HttpCall) /\ http # "serving" /\ grpc # "serving"
      BY <2>1 DEF Drained, NotServing
    <3>2. c \notin HttpCall
      BY <1>4, <3>1 DEF Idle, Arrive
    <3> QED
      BY <1>3, <3>1, <3>2 DEF Idle, Call
  <2>2. ASSUME main \in Closing PROVE Idle(GrpcCall)'
    <3>1. Idle(GrpcCall) /\ grpc # "serving"
      BY <2>2 DEF Drained, NotServing, Closing
    <3>2. c \notin GrpcCall
      BY <1>4, <3>1 DEF Idle, Arrive
    <3> QED
      BY <1>3, <3>1, <3>2 DEF Idle, Call
  <2> QED
    BY <1>1, <2>1, <2>2 DEF Drained, Closing
<1>6. ConsumersClosed'
  <2>1. CASE Register(c) /\ main \in Closing
    <3>1. timedOut
      BY <2>1 DEF Drained, Idle, Register, Call, Closing
    <3> QED
      BY <1>1, <3>1 DEF ConsumersClosed
  <2>2. CASE ~Register(c)
    BY <1>1, <2>2 DEF ConsumersClosed, Closing, Arrive, CallStep, CallFails, ReadShards,
       GetQueueMeta, ConsumableShards, Poll, Finish
  <2> QED
    BY <1>1, <2>1, <2>2 DEF ConsumersClosed, Closing
<1> QED
  BY <1>2, <1>5, <1>6

LEMMA ShutdownProcess == ASSUME TypeData, ShutdownInv, Process PROVE ShutdownInv'
<1> USE DEF ShutdownInv, NotServing, Drained, ConsumersClosed, Idle, Closing
<1>1. CASE ServeGrpc \/ ServeHttp
  BY <1>1 DEF ServeGrpc, ServeHttp, Served
<1>2. CASE ShutdownHttp
  BY <1>2 DEF ShutdownHttp, Stopped
<1>3. CASE HttpDone
  BY <1>3 DEF HttpDone, Stopped
<1>4. CASE GrpcDone
  BY <1>4 DEF GrpcDone
<1>5. CASE CloseConsumers
  BY <1>5 DEF CloseConsumers
<1>6. CASE CloseClient
  BY <1>6 DEF CloseClient, AfterClose, Call
<1> QED
  BY <1>1, <1>2, <1>3, <1>4, <1>5, <1>6 DEF Process

LEMMA ShutdownStep == ASSUME TypeData, ShutdownInv, [Next]_vars PROVE ShutdownInv'
<1>1. CASE Signal \/ ReaperStep \/ Environment \/ UNCHANGED vars
  <2>1. UNCHANGED <<open, pc, grpc, http, main, timedOut>>
    BY <1>1 DEF Signal, ReaperStep, Discover, StopDiscovery, SweepStart, SweepEnd, StopReaper,
       Environment, PublishMeta, PublishMap, DeleteMeta, DeleteMap, Produce, vars
  <2> QED
    BY <2>1 DEF ShutdownInv, NotServing, Drained, ConsumersClosed, Idle, Closing
<1> QED
  BY <1>1, ShutdownCall, ShutdownProcess DEF Next

\* run(): the clients are closed when no gRPC call, and no HTTP call that ended
\* within the timeout, uses them any more, in whatever order the goroutines, the
\* signal and the calls come; the process leaves no consumer open then.
THEOREM ShutdownIsClean == Spec => []CleanShutdown
<1>1. ShutdownInv => CleanShutdown
  BY DEF ShutdownInv, CleanShutdown, Drained, ConsumersClosed, Idle, Call, Closing
<1> QED
  BY <1>1, TypeInit, TypeStep, ShutdownInit, ShutdownStep, PTL DEF Spec, TypeInv
=============================================================================
