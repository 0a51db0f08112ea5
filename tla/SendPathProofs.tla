--------------------------- MODULE SendPathProofs ---------------------------
(***************************************************************************)
(* Theorems about SendPath, for any number of calls, any batches and any   *)
(* window.                                                                 *)
(***************************************************************************)
EXTENDS SendPath, TLAPS

USE DEF queueVars, responseVars, callVars, historyVars

-----------------------------------------------------------------------------
(* Operators                                                               *)

LEMMA CurrentEntry ==
  ASSUME NEW b \in Batches, NEW i \in DOMAIN b
  PROVE  b[i] \in Entry /\ DedupKey(b[i]) \in Key
BY DEF Entry, Key

\* Batches are sequences, so a batch has a first entry, and one after every
\* entry but the last.
LEMMA BatchIndex ==
  ASSUME NEW b \in Batches
  PROVE  /\ 1 \in DOMAIN b /\ DOMAIN b = 1 .. Len(b) /\ Len(b) \in Nat
         /\ \A i \in DOMAIN b : i < Len(b) => i + 1 \in DOMAIN b
<1>1. b \in Seq(Entry) /\ b # <<>>
  BY BatchAssumption
<1> QED
  BY <1>1

LEMMA Appended ==
  ASSUME NEW S, NEW q \in Seq(S), NEW x \in S, NEW r, r = Append(q, x)
  PROVE  /\ r \in Seq(S) /\ Len(r) = Len(q) + 1
         /\ DOMAIN r = DOMAIN q \cup {Len(q) + 1} /\ Len(q) + 1 \notin DOMAIN q
         /\ r[Len(q) + 1] = x /\ \A i \in DOMAIN q : r[i] = q[i]
OBVIOUS

-----------------------------------------------------------------------------
(* Type correctness                                                        *)

\* The type invariant in parts, with what it needs to be inductive: a call that
\* has not begun is at its first entry, so that the next one starts there.
Flags == mapped \in BOOLEAN /\ topics \in BOOLEAN

TypeMeta == meta \in Metas \cup {NoMeta}

TypeClaim ==
    /\ claim \in [Key -> 0 .. Window]
    /\ claimedAt \in [Key -> 0 .. MaxTime]

Record == [entry : Entry, fifo : BOOLEAN, claimed : 0 .. MaxTime]

TypeCall ==
    /\ pc \in [Sender -> Pc]
    /\ batch \in [Sender -> Batches \cup {<<>>}]
    /\ at \in [Sender -> Nat \ {0}]
    /\ \A s \in Sender : IF pc[s] = "idle" THEN at[s] = 1
                         ELSE batch[s] \in Batches /\ at[s] \in DOMAIN batch[s]
    /\ read \in [Sender -> Metas \cup {NoMeta}]
    /\ \A s \in Sender : pc[s] \in {"dedup", "route", "produce"} <=> read[s] # NoMeta
    /\ mine \in [Sender -> 0 .. MaxTime]

TypeResponse == successful \in [Sender -> SUBSET Nat] /\ failed \in [Sender -> SUBSET Nat]

TypeCount == now \in 0 .. MaxTime /\ calls \in 0 .. MaxCalls /\ faults \in 0 .. MaxFaults

TypeInv ==
    /\ Flags /\ TypeMeta /\ TypeClaim /\ log \in Seq(Record) /\ TypeCall /\ TypeResponse
    /\ TypeCount

LEMMA TypeInit == Init => TypeInv
<1> SUFFICES ASSUME Init PROVE TypeInv
  OBVIOUS
<1>1. Flags
  BY Zenon DEF Init, Flags
<1>2. TypeMeta /\ TypeClaim /\ TypeCount
  BY BoundAssumption DEF Init, TypeMeta, TypeClaim, TypeCount
<1>3. log \in Seq(Record)
  BY DEF Init
<1>4. TypeCall /\ TypeResponse
  BY BoundAssumption DEF Init, TypeCall, TypeResponse, Pc
<1> QED
  BY <1>1, <1>2, <1>3, <1>4 DEF TypeInv

\* The call goes on with its next entry, or has answered all of them.
LEMMA NextEntryType ==
  ASSUME TypeCall, TypeCount, NEW s \in Sender, pc[s] # "idle", NextEntry(s)
  PROVE  TypeCall'
<1>1. batch[s] \in Batches /\ at[s] \in DOMAIN batch[s] /\ at[s] \in Nat \ {0}
  BY DEF TypeCall
<1>2. PICK p \in {"meta", "return"}, i \in DOMAIN batch[s] :
        /\ i \in Nat \ {0}
        /\ pc' = [pc EXCEPT ![s] = p] /\ at' = [at EXCEPT ![s] = i]
  <2>1. CASE at[s] < Len(batch[s])
    <3>1. at[s] + 1 \in DOMAIN batch[s] /\ at[s] + 1 \in Nat \ {0}
      BY <1>1, <2>1, BatchIndex
    <3>2. pc' = [pc EXCEPT ![s] = "meta"] /\ at' = [at EXCEPT ![s] = at[s] + 1]
      BY <2>1 DEF NextEntry
    <3> QED
      BY <3>1, <3>2, Zenon
  <2>2. CASE ~(at[s] < Len(batch[s]))
    <3>1. at = [at EXCEPT ![s] = at[s]]
      BY DEF TypeCall
    <3> QED
      BY <1>1, <2>2, <3>1 DEF NextEntry
  <2> QED
    BY <2>1, <2>2
<1>3. /\ read' = [read EXCEPT ![s] = NoMeta] /\ mine' = [mine EXCEPT ![s] = 0]
      /\ batch' = batch
  BY DEF NextEntry
<1>4. 0 \in 0 .. MaxTime
  BY BoundAssumption
<1> QED
  BY <1>1, <1>2, <1>3, <1>4 DEF TypeCall, Pc

LEMMA EndCallType ==
  ASSUME TypeCall, TypeResponse, NEW s \in Sender, EndCall(s)
  PROVE  TypeCall' /\ TypeResponse'
BY BoundAssumption DEF TypeCall, TypeResponse, EndCall, Pc

LEMMA AnswerType ==
  ASSUME TypeCall, TypeResponse, TypeCount, NEW s \in Sender, pc[s] # "idle",
         Failed(s) \/ Succeed(s)
  PROVE  TypeCall' /\ TypeResponse'
<1>1. at[s] \in Nat
  BY DEF TypeCall
<1>2. TypeResponse'
  BY <1>1 DEF TypeResponse, Failed, Succeed
<1> QED
  BY <1>2, NextEntryType DEF Failed, Succeed

LEMMA CallerType ==
  ASSUME TypeInv, [Next]_vars
  PROVE  TypeCall' /\ TypeResponse'
<1> USE DEF TypeInv
<1>1. ASSUME NEW s \in Sender, Call(s) PROVE TypeCall' /\ TypeResponse'
  <2>1. PICK b \in Batches : batch' = [batch EXCEPT ![s] = b]
    BY <1>1 DEF Call
  <2>2. 1 \in DOMAIN b
    BY BatchIndex
  <2>3. TypeCall'
    BY <1>1, <2>1, <2>2 DEF Call, TypeCall, Pc
  <2> QED
    BY <1>1, <2>3 DEF Call, TypeResponse
<1>2. ASSUME NEW s \in Sender, GetQueueMeta(s) PROVE TypeCall' /\ TypeResponse'
  <2>1. CASE Failed(s)
    BY <1>2, <2>1, AnswerType DEF GetQueueMeta
  <2>2. CASE ~Failed(s)
    <3>1. meta \in Metas /\ meta # NoMeta
      BY <1>2, <2>2, MetaAssumption DEF GetQueueMeta, Accepts, TypeMeta
    <3>2. PICK p \in {"dedup", "route"} : pc' = [pc EXCEPT ![s] = p]
      BY <1>2, <2>2 DEF GetQueueMeta, Goto
    <3>3. read' = [read EXCEPT ![s] = meta] /\ UNCHANGED <<mine, batch, at, responseVars>>
      BY <1>2, <2>2 DEF GetQueueMeta, Goto
    <3> QED
      BY <1>2, <3>1, <3>2, <3>3 DEF GetQueueMeta, TypeCall, TypeResponse, Pc
  <2> QED
    BY <2>1, <2>2
<1>3. ASSUME NEW s \in Sender, TryDedup(s) PROVE TypeCall' /\ TypeResponse'
  <2>1. CASE Succeed(s)
    BY <1>3, <2>1, AnswerType DEF TryDedup
  <2>2. CASE ~Succeed(s)
    BY <1>3, <2>2 DEF TryDedup, TypeCall, TypeResponse, TypeCount, Goto, Pc
  <2> QED
    BY <2>1, <2>2
<1>4. ASSUME NEW s \in Sender, RouteForSend(s) PROVE TypeCall' /\ TypeResponse'
  <2>1. CASE Failed(s)
    BY <1>4, <2>1, AnswerType DEF RouteForSend
  <2>2. CASE ~Failed(s)
    BY <1>4, <2>2 DEF RouteForSend, TypeCall, TypeResponse, Goto, Pc
  <2> QED
    BY <2>1, <2>2
<1>5. ASSUME NEW s \in Sender, Produce(s) \/ RequestFails(s) \/ AnswerLost(s)
      PROVE  TypeCall' /\ TypeResponse'
  BY <1>5, AnswerType DEF Produce, RequestFails, AnswerLost
<1>6. ASSUME NEW s \in Sender, Return(s) \/ ReplicaDies(s) PROVE TypeCall' /\ TypeResponse'
  BY <1>6, EndCallType DEF Return, ReplicaDies
<1>7. CASE Operator \/ Tick \/ UNCHANGED vars
  <2>1. UNCHANGED callVars
    BY <1>7 DEF Operator, PublishMeta, PublishMap, DeleteTopics, DeleteMeta, DeleteMap, Tick, vars
  <2> QED
    BY <2>1 DEF TypeCall, TypeResponse
<1> QED
  BY <1>1, <1>2, <1>3, <1>4, <1>5, <1>6, <1>7 DEF Next, SendStep

LEMMA FlagsStep == ASSUME Flags, [Next]_vars PROVE Flags'
<1>1. ASSUME NEW s \in Sender,
             Call(s) \/ SendStep(s) \/ RequestFails(s) \/ AnswerLost(s) \/ ReplicaDies(s)
      PROVE  UNCHANGED queueVars
  BY <1>1 DEF Call, SendStep, GetQueueMeta, TryDedup, RouteForSend, Produce, Return, RequestFails,
     AnswerLost, ReplicaDies
<1> QED
  BY <1>1, Zenon DEF Next, Flags, Operator, PublishMeta, PublishMap, DeleteTopics, DeleteMeta,
     DeleteMap, Tick, vars

LEMMA MetaStep == ASSUME TypeMeta, [Next]_vars PROVE TypeMeta'
BY DEF TypeMeta, Next, Call, SendStep, GetQueueMeta, TryDedup, RouteForSend, Produce, Return,
   RequestFails, AnswerLost, ReplicaDies, Operator, PublishMeta, PublishMap, DeleteTopics,
   DeleteMeta, DeleteMap, Tick, vars

LEMMA CountStep == ASSUME TypeCount, [Next]_vars PROVE TypeCount'
BY BoundAssumption DEF TypeCount, Next, Call, SendStep, GetQueueMeta, TryDedup, RouteForSend,
   Produce, Return, RequestFails, AnswerLost, ReplicaDies, Operator, PublishMeta, PublishMap,
   DeleteTopics, DeleteMeta, DeleteMap, Tick, vars

\* The only steps that write a key are the claim of one that is not there, and
\* the passing of time.
LEMMA ClaimSteps ==
  ASSUME [Next]_vars, ~Tick
  PROVE  \/ \E s \in Sender : pc[s] = "dedup" /\ Claim(DedupKey(Current(s)))
         \/ UNCHANGED <<claim, claimedAt>>
BY DEF Next, Call, SendStep, GetQueueMeta, TryDedup, RouteForSend, Produce, Return, RequestFails,
   AnswerLost, ReplicaDies, Operator, PublishMeta, PublishMap, DeleteTopics, DeleteMeta,
   DeleteMap, vars

\* The only steps that write the log are those of a produce, and with them the
\* call is done with its entry.
LEMMA LogSteps ==
  ASSUME [Next]_vars
  PROVE  \/ \E s \in Sender : pc[s] = "produce" /\ Stored(s) /\ (Failed(s) \/ Succeed(s))
         \/ UNCHANGED log
BY DEF Next, Call, SendStep, GetQueueMeta, TryDedup, RouteForSend, Produce, Return, RequestFails,
   AnswerLost, ReplicaDies, Operator, PublishMeta, PublishMap, DeleteTopics, DeleteMeta,
   DeleteMap, Tick, vars

\* A call that is not idle is at an entry of its batch.
LEMMA AtEntry ==
  ASSUME TypeCall, NEW s \in Sender, pc[s] # "idle"
  PROVE  Current(s) \in Entry /\ DedupKey(Current(s)) \in Key
BY CurrentEntry DEF TypeCall, Current

LEMMA ClaimType == ASSUME TypeInv, [Next]_vars PROVE TypeClaim'
<1> USE BoundAssumption DEF TypeInv, TypeClaim, TypeCount
<1>1. CASE Tick
  BY <1>1 DEF Tick
<1>2. ASSUME NEW s \in Sender, pc[s] = "dedup", Claim(DedupKey(Current(s)))
      PROVE  TypeClaim'
  BY <1>2, AtEntry DEF Claim, ClaimFor
<1> QED
  BY <1>1, <1>2, ClaimSteps

\* What a produce appends is the current entry of the call, with the metadata
\* the call read and the time of its claim.
LEMMA StoredRecord ==
  ASSUME TypeInv, NEW s \in Sender, pc[s] = "produce", Stored(s)
  PROVE  LET r == [entry |-> Current(s), fifo |-> read[s].fifo, claimed |-> mine[s]]
         IN  r \in Record /\ log' = Append(log, r)
<1>1. Current(s) \in Entry /\ read[s] \in Metas /\ mine[s] \in 0 .. MaxTime
  BY AtEntry DEF TypeInv, TypeCall
<1>2. read[s].fifo \in BOOLEAN
  BY <1>1, MetaAssumption
<1>3. [entry |-> Current(s), fifo |-> read[s].fifo, claimed |-> mine[s]] \in Record
  BY <1>1, <1>2, Zenon DEF Record
<1> QED
  BY <1>3, Zenon DEF Stored

LEMMA LogType == ASSUME TypeInv, [Next]_vars PROVE (log \in Seq(Record))'
<1>1. ASSUME NEW s \in Sender, pc[s] = "produce", Stored(s) PROVE (log \in Seq(Record))'
  <2>1. PICK r \in Record : log' = Append(log, r)
    BY <1>1, StoredRecord, Zenon
  <2> QED
    BY <2>1 DEF TypeInv
<1> QED
  BY <1>1, LogSteps DEF TypeInv

LEMMA TypeStep == ASSUME TypeInv, [Next]_vars PROVE TypeInv'
BY FlagsStep, MetaStep, CountStep, ClaimType, LogType, CallerType DEF TypeInv

\* The variables of the send path keep their types; in particular a call that
\* deduplicates, routes or produces has read the metadata of a published queue.
THEOREM SendTypes == Spec => []TypeOK
<1>1. TypeInv => TypeOK
  <2> SUFFICES ASSUME TypeInv PROVE TypeOK
    OBVIOUS
  <2>1. \A s \in Sender : pc[s] # "idle" => at[s] \in DOMAIN batch[s]
    BY DEF TypeInv, TypeCall
  <2>2. \A s \in Sender : successful[s] \subseteq Nat /\ failed[s] \subseteq Nat
    BY DEF TypeInv, TypeResponse
  <2> QED
    BY <2>1, <2>2, Zenon
       DEF TypeInv, TypeOK, Flags, TypeMeta, TypeClaim, TypeCall, TypeCount, Record
<1> QED
  BY <1>1, TypeInit, TypeStep, PTL DEF Spec

-----------------------------------------------------------------------------
(* The deduplication window                                                *)

\* A key that is there expires a window after it was claimed.
KeyInv ==
    \A k \in Key : /\ claimedAt[k] <= now
                   /\ claim[k] > 0 => claimedAt[k] + Window = now + claim[k]

LEMMA KeyInit == Init => KeyInv
BY BoundAssumption DEF Init, KeyInv

LEMMA KeyStep == ASSUME TypeInv, KeyInv, [Next]_vars PROVE KeyInv'
<1> USE BoundAssumption DEF TypeInv, TypeClaim, TypeCount, KeyInv
<1>1. CASE Tick
  <2> SUFFICES ASSUME NEW k \in Key
               PROVE  /\ claimedAt'[k] <= now'
                      /\ claim'[k] > 0 => claimedAt'[k] + Window = now' + claim'[k]
    OBVIOUS
  <2>1. now' = now + 1 /\ claimedAt' = claimedAt
        /\ claim'[k] = IF claim[k] = 0 THEN 0 ELSE claim[k] - 1
    BY <1>1 DEF Tick
  <2>2. claim[k] \in Nat /\ claimedAt[k] \in Nat /\ now \in Nat /\ Window \in Nat
    OBVIOUS
  <2> QED
    BY <2>1, <2>2
<1>2. CASE ~Tick
  <2>1. now' = now
    BY <1>2 DEF Next, Call, SendStep, GetQueueMeta, TryDedup, RouteForSend, Produce, Return,
       RequestFails, AnswerLost, ReplicaDies, Operator, PublishMeta, PublishMap, DeleteTopics,
       DeleteMeta, DeleteMap, vars
  <2>2. ASSUME NEW s \in Sender, pc[s] = "dedup", Claim(DedupKey(Current(s))) PROVE KeyInv'
    BY <2>1, <2>2, AtEntry DEF Claim, ClaimFor
  <2> QED
    BY <1>2, <2>1, <2>2, ClaimSteps
<1> QED
  BY <1>1, <1>2

\* TryDedup: a caller is told that its message is a duplicate within the window
\* of the claim it was compared with, never of one that has expired.
THEOREM DuplicatesAreRecent == Spec => []DuplicateInWindow
<1>1. Init => DuplicateInWindow
  BY DEF Init, DuplicateInWindow
<1>2. ASSUME TypeInv, KeyInv, DuplicateInWindow, [Next]_vars PROVE DuplicateInWindow'
  <2>1. ASSUME NEW s \in Sender, TryDedup(s), claim[DedupKey(Current(s))] > 0
        PROVE  DuplicateInWindow'
    <3> DEFINE k == DedupKey(Current(s))
    <3>1. k \in Key /\ now < claimedAt[k] + Window
      BY <1>2, <2>1, AtEntry, BoundAssumption
         DEF TryDedup, KeyInv, TypeInv, TypeClaim, TypeCount
    <3>2. dups' \subseteq dups \cup {[key |-> k, told |-> now, claimed |-> claimedAt[k]]}
      BY <2>1 DEF TryDedup
    <3> QED
      BY <1>2, <3>1, <3>2 DEF DuplicateInWindow
  <2>2. CASE UNCHANGED dups
    BY <1>2, <2>2 DEF DuplicateInWindow
  <2>3. dups' = dups \/ \E s \in Sender : TryDedup(s) /\ claim[DedupKey(Current(s))] > 0
    BY <1>2 DEF Next, Call, SendStep, GetQueueMeta, TryDedup, RouteForSend, Produce, Return,
       RequestFails, AnswerLost, ReplicaDies, Operator, PublishMeta, PublishMap, DeleteTopics,
       DeleteMeta, DeleteMap, Tick, vars
  <2> QED
    BY <2>1, <2>2, <2>3
<1> QED
  BY <1>1, <1>2, TypeInit, TypeStep, KeyInit, KeyStep, PTL DEF Spec

\* The call s holds the claim of its current entry, which it will store.
Holds(s) == pc[s] \in {"route", "produce"} /\ Deduplicated(Current(s), read[s])

\* Two uses of a key, by a record or by a call that is going to store one, are a
\* window apart.
Apart(t, u) == t + Window <= u \/ u + Window <= t

\* A use of a key is no later than its last claim, and a window old when the key
\* has expired.
UseOK(k, t) == t <= claimedAt[k] /\ (claim[k] = 0 => t + Window <= now)

LogInv ==
    \A i \in DOMAIN log : Claimed(log[i]) =>
        /\ UseOK(DedupKey(log[i].entry), log[i].claimed)
        /\ \A j \in DOMAIN log :
              /\ i # j /\ Claimed(log[j])
              /\ DedupKey(log[i].entry) = DedupKey(log[j].entry)
              => Apart(log[i].claimed, log[j].claimed)

HoldInv ==
    \A s \in Sender : Holds(s) =>
        /\ UseOK(DedupKey(Current(s)), mine[s])
        /\ \A i \in DOMAIN log :
              Claimed(log[i]) /\ DedupKey(log[i].entry) = DedupKey(Current(s)) =>
                  Apart(log[i].claimed, mine[s])
        /\ \A t \in Sender :
              t # s /\ Holds(t) /\ DedupKey(Current(t)) = DedupKey(Current(s)) =>
                  Apart(mine[t], mine[s])

DedupInv == LogInv /\ HoldInv

LEMMA DedupInit == Init => DedupInv
BY DEF Init, DedupInv, LogInv, HoldInv, Holds

\* A call that answers its entry, or ends, holds nothing any more; the others do
\* not notice.
LEMMA Dropped ==
  ASSUME TypeCall, NEW s \in Sender, pc[s] # "idle",
         Failed(s) \/ Succeed(s) \/ EndCall(s)
  PROVE  \A t \in Sender : Holds(t)' =>
            t # s /\ Holds(t) /\ Current(t)' = Current(t) /\ mine'[t] = mine[t]
<1>1. pc'[s] \in {"meta", "return", "idle"}
  BY DEF TypeCall, Failed, Succeed, EndCall, NextEntry
<1>2. ~Holds(s)'
  BY <1>1 DEF Holds
<1>3. \A t \in Sender : t # s =>
        /\ pc'[t] = pc[t] /\ batch'[t] = batch[t] /\ at'[t] = at[t] /\ read'[t] = read[t]
        /\ mine'[t] = mine[t]
  BY DEF TypeCall, Failed, Succeed, EndCall, NextEntry
<1> QED
  BY <1>2, <1>3 DEF Holds, Current

\* Who holds a claim after a step: a call that held it before, or one that has
\* just claimed it.
LEMMA HoldersStep ==
  ASSUME TypeInv, [Next]_vars
  PROVE  \A t \in Sender : Holds(t)' =>
            \/ Holds(t) /\ Current(t)' = Current(t) /\ mine'[t] = mine[t]
            \/ /\ pc[t] = "dedup" /\ Claim(DedupKey(Current(t))) /\ UNCHANGED log
               /\ Current(t)' = Current(t) /\ mine'[t] = now /\ pc' = [pc EXCEPT ![t] = "route"]
<1> DEFINE Kept(t) == Holds(t) /\ Current(t)' = Current(t) /\ mine'[t] = mine[t]
           Took(t) == /\ pc[t] = "dedup" /\ Claim(DedupKey(Current(t))) /\ UNCHANGED log
                      /\ Current(t)' = Current(t) /\ mine'[t] = now
                      /\ pc' = [pc EXCEPT ![t] = "route"]
<1> SUFFICES \A t \in Sender : Holds(t)' => Kept(t) \/ Took(t)
  OBVIOUS
<1> HIDE DEF Took
<1> USE DEF TypeInv
<1>1. ASSUME NEW s \in Sender, pc[s] # "idle", Failed(s) \/ Succeed(s) \/ EndCall(s)
      PROVE  \A t \in Sender : Holds(t)' => Kept(t)
  BY <1>1, Dropped
<1>2. ASSUME NEW s \in Sender, Call(s) PROVE \A t \in Sender : Holds(t)' => Kept(t)
  BY <1>2 DEF Call, TypeCall, Holds, Current
<1>3. ASSUME NEW s \in Sender, GetQueueMeta(s), ~Failed(s)
      PROVE  \A t \in Sender : Holds(t)' => Kept(t)
  <2>1. ~Holds(s)'
    BY <1>3 DEF GetQueueMeta, Goto, TypeCall, Holds, Current, Deduplicated
  <2> QED
    BY <1>3, <2>1 DEF GetQueueMeta, Goto, TypeCall, Holds, Current
<1>4. ASSUME NEW s \in Sender, TryDedup(s), ~Succeed(s)
      PROVE  \A t \in Sender : Holds(t)' => Kept(t) \/ Took(t)
  <2>1. Took(s)
    BY <1>4 DEF TryDedup, Goto, TypeCall, Current, Took
  <2> QED
    BY <1>4, <2>1 DEF TryDedup, Goto, TypeCall, Holds, Current
<1>5. ASSUME NEW s \in Sender, RouteForSend(s), ~Failed(s)
      PROVE  \A t \in Sender : Holds(t)' => Kept(t)
  BY <1>5 DEF RouteForSend, Goto, TypeCall, Holds, Current
<1>6. CASE Operator \/ Tick \/ UNCHANGED vars
  <2>1. UNCHANGED callVars
    BY <1>6 DEF Operator, PublishMeta, PublishMap, DeleteTopics, DeleteMeta, DeleteMap, Tick, vars
  <2> QED
    BY <2>1 DEF Holds, Current
<1>7. ASSUME NEW s \in Sender, Produce(s) \/ Return(s) \/ RequestFails(s) \/ AnswerLost(s)
                               \/ ReplicaDies(s)
      PROVE  \A t \in Sender : Holds(t)' => Kept(t)
  <2>1. pc[s] # "idle" /\ (Failed(s) \/ Succeed(s) \/ EndCall(s))
    BY <1>7 DEF Produce, Return, RequestFails, AnswerLost, ReplicaDies
  <2> QED
    BY <1>1, <2>1
<1>8. ASSUME NEW s \in Sender, GetQueueMeta(s) \/ TryDedup(s) \/ RouteForSend(s)
      PROVE  pc[s] # "idle"
  BY <1>8 DEF GetQueueMeta, TryDedup, RouteForSend
<1> HIDE DEF Kept
<1> QED
  BY <1>1, <1>2, <1>3, <1>4, <1>5, <1>6, <1>7, <1>8 DEF Next, SendStep

\* UseOK in the next state, of a use that is described in this one.
UseAfter(k, t) == t <= claimedAt'[k] /\ (claim'[k] = 0 => t + Window <= now')

\* A use of a key stays what UseOK says of it, while time passes and the key is
\* claimed again.
LEMMA UseStep ==
  ASSUME TypeInv, KeyInv, [Next]_vars, NEW k \in Key, NEW t \in Nat, UseOK(k, t)
  PROVE  UseAfter(k, t)
<1>1. /\ claim[k] \in Nat /\ claimedAt[k] \in Nat /\ now \in Nat /\ Window \in Nat \ {0}
      /\ claimedAt[k] <= now /\ (claim[k] > 0 => claimedAt[k] + Window = now + claim[k])
  BY BoundAssumption DEF TypeInv, TypeClaim, TypeCount, KeyInv
<1>2. CASE Tick
  <2>1. now' = now + 1 /\ claimedAt' = claimedAt
        /\ claim'[k] = IF claim[k] = 0 THEN 0 ELSE claim[k] - 1
    BY <1>2 DEF Tick
  <2> QED
    BY <1>1, <2>1 DEF UseOK, UseAfter
<1>3. CASE ~Tick
  <2>1. now' = now
    BY <1>3 DEF Next, Call, SendStep, GetQueueMeta, TryDedup, RouteForSend, Produce, Return,
       RequestFails, AnswerLost, ReplicaDies, Operator, PublishMeta, PublishMap, DeleteTopics,
       DeleteMeta, DeleteMap, vars
  <2>2. ASSUME NEW s \in Sender, pc[s] = "dedup", Claim(DedupKey(Current(s)))
        PROVE  UseAfter(k, t)
    BY <1>1, <2>1, <2>2 DEF Claim, ClaimFor, UseOK, UseAfter, TypeInv, TypeClaim
  <2> QED
    BY <1>3, <2>1, <2>2, ClaimSteps DEF UseOK, UseAfter
<1> QED
  BY <1>2, <1>3

\* The claim of a key that has expired is a window after all its earlier uses.
LEMMA ClaimIsApart ==
  ASSUME TypeInv, NEW k \in Key, NEW t \in Nat, UseOK(k, t), Claim(k)
  PROVE  Apart(t, now) /\ Apart(now, t)
BY BoundAssumption DEF TypeInv, TypeCount, UseOK, Apart, Claim

LEMMA LogInvStep == ASSUME TypeInv, KeyInv, DedupInv, [Next]_vars PROVE LogInv'
<1>1. \A i \in DOMAIN log : DedupKey(log[i].entry) \in Key /\ log[i].claimed \in Nat
  <2> TAKE i \in DOMAIN log
  <2>1. log[i] \in Record
    BY DEF TypeInv
  <2> QED
    BY <2>1, BoundAssumption DEF Record, Key
<1>2. \A i \in DOMAIN log :
        Claimed(log[i]) => UseAfter(DedupKey(log[i].entry), log[i].claimed)
  BY <1>1, UseStep DEF DedupInv, LogInv
<1>3. CASE UNCHANGED log
  BY <1>2, <1>3 DEF DedupInv, LogInv, UseOK, UseAfter, Apart, Claimed
<1>4. ASSUME NEW s \in Sender, pc[s] = "produce", Stored(s) PROVE LogInv'
  <2>1. PICK r \in Record :
          /\ r.entry = Current(s) /\ r.fifo = read[s].fifo /\ r.claimed = mine[s]
          /\ log' = Append(log, r)
    BY <1>4, StoredRecord, Zenon
  <2>2. Claimed(r) => Holds(s)
    BY <1>4, <2>1 DEF Claimed, Holds, Deduplicated
  <2>3. mine[s] \in Nat /\ DedupKey(Current(s)) \in Key
    BY <1>4, AtEntry, BoundAssumption DEF TypeInv, TypeCall
  <2>4. Claimed(r) => UseAfter(DedupKey(r.entry), r.claimed)
    BY <2>1, <2>2, <2>3, UseStep DEF DedupInv, HoldInv
  <2>5. \A i \in DOMAIN log :
          Claimed(r) /\ Claimed(log[i]) /\ DedupKey(log[i].entry) = DedupKey(r.entry) =>
              Apart(log[i].claimed, r.claimed) /\ Apart(r.claimed, log[i].claimed)
    BY <2>1, <2>2 DEF DedupInv, HoldInv, Apart
  <2>6. /\ DOMAIN log' = DOMAIN log \cup {Len(log) + 1} /\ Len(log) + 1 \notin DOMAIN log
        /\ log'[Len(log) + 1] = r /\ \A i \in DOMAIN log : log'[i] = log[i]
    BY <2>1, Appended DEF TypeInv
  <2>7. \A i, j \in DOMAIN log :
          /\ Claimed(log[i]) /\ i # j /\ Claimed(log[j])
          /\ DedupKey(log[i].entry) = DedupKey(log[j].entry)
          => Apart(log[i].claimed, log[j].claimed)
    BY DEF DedupInv, LogInv
  <2>8. \A i \in DOMAIN log' : Claimed(log'[i]) => UseAfter(DedupKey(log'[i].entry), log'[i].claimed)
    BY <1>2, <2>4, <2>6
  <2>9. \A i, j \in DOMAIN log' :
          /\ Claimed(log'[i]) /\ i # j /\ Claimed(log'[j])
          /\ DedupKey(log'[i].entry) = DedupKey(log'[j].entry)
          => Apart(log'[i].claimed, log'[j].claimed)
    BY <2>5, <2>6, <2>7
  <2> QED
    BY <2>8, <2>9 DEF LogInv, UseOK, UseAfter, Apart, Claimed
<1> QED
  BY <1>3, <1>4, LogSteps

LEMMA HoldInvStep == ASSUME TypeInv, KeyInv, DedupInv, [Next]_vars PROVE HoldInv'
<1> DEFINE Kept(s) == Holds(s) /\ Current(s)' = Current(s) /\ mine'[s] = mine[s]
           Took(s) == /\ pc[s] = "dedup" /\ Claim(DedupKey(Current(s))) /\ UNCHANGED log
                      /\ Current(s)' = Current(s) /\ mine'[s] = now
                      /\ pc' = [pc EXCEPT ![s] = "route"]
<1>1. \A s \in Sender : Holds(s)' => Kept(s) \/ Took(s)
  BY HoldersStep
<1>2. \A s \in Sender : Kept(s) \/ Took(s) =>
          DedupKey(Current(s)) \in Key /\ mine[s] \in Nat /\ mine'[s] \in Nat
  BY AtEntry, BoundAssumption DEF TypeInv, TypeCall, TypeCount, Holds
<1>3. \A s, t \in Sender : s # t => ~(Took(s) /\ Took(t))
  BY DEF TypeInv, TypeCall
<1>4. \A i \in DOMAIN log : DedupKey(log[i].entry) \in Key /\ log[i].claimed \in Nat
  <2> TAKE i \in DOMAIN log
  <2>1. log[i] \in Record
    BY DEF TypeInv
  <2> QED
    BY <2>1, BoundAssumption DEF Record, Key
<1> SUFFICES ASSUME NEW s \in Sender, Holds(s)'
             PROVE  /\ UseAfter(DedupKey(Current(s)), mine'[s])
                    /\ \A i \in DOMAIN log' :
                          Claimed(log'[i]) /\ DedupKey(log'[i].entry) = DedupKey(Current(s)) =>
                              Apart(log'[i].claimed, mine'[s])
                    /\ \A t \in Sender :
                          /\ t # s /\ Holds(t)'
                          /\ DedupKey(Current(t)) = DedupKey(Current(s))
                          => Apart(mine'[t], mine'[s])
  <2>1. \A t \in Sender : Holds(t)' => Current(t)' = Current(t)
    BY <1>1
  <2> QED
    BY <2>1 DEF HoldInv, UseOK, UseAfter, Apart, Claimed, DedupKey
<1>5. UseAfter(DedupKey(Current(s)), mine'[s])
  <2>1. CASE Kept(s)
    BY <1>2, <2>1, UseStep DEF DedupInv, HoldInv
  <2>2. CASE Took(s)
    <3> DEFINE k == DedupKey(Current(s))
    <3>1. claim'[k] = Window /\ claimedAt'[k] = now /\ mine'[s] = now
      BY <1>2, <2>2 DEF Claim, ClaimFor, TypeInv, TypeClaim
    <3> QED
      BY <3>1, BoundAssumption DEF UseAfter, TypeInv, TypeCount
  <2> QED
    BY <1>1, <2>1, <2>2
<1>6. \A i \in DOMAIN log :
        Claimed(log[i]) /\ DedupKey(log[i].entry) = DedupKey(Current(s)) =>
            Apart(log[i].claimed, mine'[s])
  <2>1. CASE Kept(s)
    BY <2>1 DEF DedupInv, HoldInv
  <2>2. CASE Took(s)
    BY <1>4, <2>2, ClaimIsApart DEF DedupInv, LogInv
  <2> QED
    BY <1>1, <2>1, <2>2
<1>7. ASSUME NEW t \in Sender, t # s, Holds(t), mine[t] \in Nat, DedupKey(Current(t)) \in Key,
             DedupKey(Current(t)) = DedupKey(Current(s))
      PROVE  Apart(mine[t], mine'[s]) /\ Apart(mine'[s], mine[t])
  <2>1. CASE Kept(s)
    BY <1>7, <2>1 DEF DedupInv, HoldInv
  <2>2. CASE Took(s)
    BY <1>7, <2>2, ClaimIsApart DEF DedupInv, HoldInv
  <2> QED
    BY <1>1, <2>1, <2>2
<1>8. \A i \in DOMAIN log' :
        Claimed(log'[i]) /\ DedupKey(log'[i].entry) = DedupKey(Current(s)) =>
            Apart(log'[i].claimed, mine'[s])
  <2>1. CASE UNCHANGED log
    BY <1>6, <2>1
  <2>2. ASSUME NEW t \in Sender, pc[t] = "produce", Stored(t), Failed(t) \/ Succeed(t)
        PROVE  \A i \in DOMAIN log' :
                  Claimed(log'[i]) /\ DedupKey(log'[i].entry) = DedupKey(Current(s)) =>
                      Apart(log'[i].claimed, mine'[s])
    <3>1. PICK r \in Record :
            /\ r.entry = Current(t) /\ r.fifo = read[t].fifo /\ r.claimed = mine[t]
            /\ log' = Append(log, r)
      BY <2>2, StoredRecord, Zenon
    <3>2. Claimed(r) => Holds(t)
      BY <2>2, <3>1 DEF Claimed, Holds, Deduplicated
    <3>3. t # s
      BY <2>2, Dropped DEF TypeInv
    <3>4. mine[t] \in Nat /\ DedupKey(Current(t)) \in Key
      BY <2>2, AtEntry, BoundAssumption DEF TypeInv, TypeCall
    <3>5. Claimed(r) /\ DedupKey(r.entry) = DedupKey(Current(s)) => Apart(r.claimed, mine'[s])
      BY <1>7, <3>1, <3>2, <3>3, <3>4
    <3>6. /\ DOMAIN log' = DOMAIN log \cup {Len(log) + 1}
          /\ log'[Len(log) + 1] = r /\ \A i \in DOMAIN log : log'[i] = log[i]
      BY <3>1, Appended DEF TypeInv
    <3> QED
      BY <1>6, <3>5, <3>6
  <2> QED
    BY <2>1, <2>2, LogSteps
<1>9. \A t \in Sender :
        t # s /\ Holds(t)' /\ DedupKey(Current(t)) = DedupKey(Current(s)) =>
            Apart(mine'[t], mine'[s])
  <2> SUFFICES ASSUME NEW t \in Sender, t # s, Holds(t)',
                      DedupKey(Current(t)) = DedupKey(Current(s))
               PROVE  Apart(mine'[t], mine'[s])
    OBVIOUS
  <2>1. CASE Kept(t)
    BY <1>2, <1>7, <2>1
  <2>2. CASE Took(t) /\ Kept(s)
    <3>1. UseOK(DedupKey(Current(s)), mine[s])
      BY <2>2 DEF DedupInv, HoldInv
    <3> QED
      BY <1>2, <2>2, <3>1, ClaimIsApart
  <2> QED
    BY <1>1, <1>3, <2>1, <2>2
<1> QED
  BY <1>5, <1>8, <1>9

\* TryDedup and Produce: of two records with one group and one deduplication ID
\* on a FIFO queue one was claimed a window after the other, whatever calls race,
\* fail, lose their answer or die between the claim and the record.
THEOREM DuplicatesAreAWindowApart == Spec => []DedupWindow
<1>1. ASSUME TypeInv, DedupInv PROVE DedupWindow
  <2>1. \A i, j \in DOMAIN log : i < j => i # j
    BY <1>1 DEF TypeInv
  <2> SUFFICES ASSUME NEW i \in DOMAIN log, NEW j \in DOMAIN log,
                      i # j, Claimed(log[i]), Claimed(log[j]),
                      log[i].entry.group = log[j].entry.group,
                      log[i].entry.dedup = log[j].entry.dedup
               PROVE  Apart(log[i].claimed, log[j].claimed)
    BY <2>1, Zenon DEF DedupWindow, Apart
  <2>2. DedupKey(log[i].entry) = DedupKey(log[j].entry)
    BY DEF DedupKey
  <2> QED
    BY <1>1, <2>2 DEF DedupInv, LogInv
<1> QED
  BY <1>1, TypeInit, TypeStep, KeyInit, KeyStep, DedupInit, LogInvStep, HoldInvStep, PTL
     DEF Spec, DedupInv

-----------------------------------------------------------------------------
(* The answers                                                             *)

\* The entries before the current one are answered, each once.
Answered(s) ==
    /\ successful[s] \cap failed[s] = {}
    /\ successful[s] \cup failed[s] = IF pc[s] = "idle" THEN {}
                                      ELSE IF pc[s] = "return" THEN DOMAIN batch[s]
                                      ELSE 1 .. at[s] - 1

\* The entry is stored, or was told to be a duplicate; now and after a step.
SentOrDup(e) == (\E j \in DOMAIN log : log[j].entry = e) \/ \E d \in dups : d.key = DedupKey(e)
SentAfter(e) == (\E j \in DOMAIN log' : log'[j].entry = e) \/ \E d \in dups' : d.key = DedupKey(e)

True(s) == \A i \in successful[s] : SentOrDup(batch[s][i])

AnswerInv == \A s \in Sender : Answered(s) /\ True(s)

LEMMA AnswerInit == Init => AnswerInv
BY DEF Init, AnswerInv, Answered, True

\* What was stored, and what a caller was told, stays.
LEMMA HistoryGrows == ASSUME TypeInv, [Next]_vars, NEW e, SentOrDup(e) PROVE SentAfter(e)
<1>1. dups \subseteq dups'
  BY DEF Next, Call, SendStep, GetQueueMeta, TryDedup, RouteForSend, Produce, Return, RequestFails,
     AnswerLost, ReplicaDies, Operator, PublishMeta, PublishMap, DeleteTopics, DeleteMeta,
     DeleteMap, Tick, vars
<1>2. \A j \in DOMAIN log : j \in DOMAIN log' /\ log'[j] = log[j]
  <2>1. ASSUME NEW r \in Record, log' = Append(log, r)
        PROVE  \A j \in DOMAIN log : j \in DOMAIN log' /\ log'[j] = log[j]
    BY <2>1, Appended DEF TypeInv
  <2> QED
    BY <2>1, StoredRecord, LogSteps
<1> QED
  BY <1>1, <1>2 DEF SentOrDup, SentAfter

\* The current entry is answered, and the call goes on.
LEMMA AnswerNext ==
  ASSUME TypeInv, NEW s \in Sender, pc[s] \notin {"idle", "return"}, Answered(s),
         Failed(s) \/ Succeed(s)
  PROVE  Answered(s)'
<1>1. /\ batch[s] \in Batches /\ at[s] \in DOMAIN batch[s] /\ batch' = batch
      /\ at[s] \in 1 .. Len(batch[s]) /\ Len(batch[s]) \in Nat /\ DOMAIN batch[s] = 1 .. Len(batch[s])
  BY BatchIndex DEF TypeInv, TypeCall, Failed, Succeed, NextEntry
<1>2. successful[s] \cup failed[s] = 1 .. at[s] - 1 /\ successful[s] \cap failed[s] = {}
  BY DEF Answered
<1>3. /\ successful'[s] \cup failed'[s] = (1 .. at[s] - 1) \cup {at[s]}
      /\ successful'[s] \cap failed'[s] = {}
  <2>1. at[s] \notin 1 .. at[s] - 1
    BY <1>1
  <2> QED
    BY <1>2, <2>1 DEF Failed, Succeed, TypeInv, TypeResponse
<1>4. (1 .. at[s] - 1) \cup {at[s]} = 1 .. at[s]
  BY <1>1
<1>5. CASE at[s] < Len(batch[s])
  <2>1. at'[s] = at[s] + 1 /\ pc'[s] = "meta"
    BY <1>5 DEF Failed, Succeed, NextEntry, TypeInv, TypeCall
  <2>2. at'[s] - 1 = at[s]
    BY <1>1, <2>1
  <2> QED
    BY <1>3, <1>4, <2>1, <2>2 DEF Answered
<1>6. CASE ~(at[s] < Len(batch[s]))
  <2>1. pc'[s] = "return" /\ at[s] = Len(batch[s])
    BY <1>1, <1>6 DEF Failed, Succeed, NextEntry, TypeInv, TypeCall
  <2> QED
    BY <1>1, <1>3, <1>4, <2>1 DEF Answered
<1> QED
  BY <1>5, <1>6

\* A step of s is none of another call.
LEMMA OtherCalls ==
  ASSUME TypeInv, NEW s \in Sender, NEW t \in Sender, t # s,
         Call(s) \/ SendStep(s) \/ RequestFails(s) \/ AnswerLost(s) \/ ReplicaDies(s)
  PROVE  /\ pc'[t] = pc[t] /\ batch'[t] = batch[t] /\ at'[t] = at[t]
         /\ successful'[t] = successful[t] /\ failed'[t] = failed[t]
<1> USE DEF TypeInv, TypeCall, TypeResponse
<1>1. CASE Failed(s) \/ Succeed(s) \/ EndCall(s)
  BY <1>1 DEF Failed, Succeed, NextEntry, EndCall
<1>2. CASE Call(s)
  BY <1>2 DEF Call
<1> QED
  BY <1>1, <1>2 DEF SendStep, GetQueueMeta, TryDedup, RouteForSend, Produce, Return, RequestFails,
     AnswerLost, ReplicaDies, Goto

LEMMA AnswerStep == ASSUME TypeInv, AnswerInv, [Next]_vars PROVE AnswerInv'
<1> DEFINE TrueAfter(s) == \A i \in successful'[s] : SentAfter(batch'[s][i])
<1>1. \A s \in Sender : TrueAfter(s) => True(s)'
  BY DEF True, SentOrDup, SentAfter
<1>2. ASSUME NEW t \in Sender, pc'[t] = pc[t], batch'[t] = batch[t], at'[t] = at[t],
             successful'[t] = successful[t], failed'[t] = failed[t]
      PROVE  Answered(t)' /\ TrueAfter(t)
  BY <1>2, HistoryGrows DEF AnswerInv, Answered, True
<1>3. ASSUME NEW s \in Sender, pc[s] \notin {"idle", "return"}, Failed(s)
      PROVE  Answered(s)' /\ TrueAfter(s)
  <2>1. batch' = batch /\ successful' = successful
    BY <1>3 DEF Failed, NextEntry
  <2> QED
    BY <1>3, <2>1, AnswerNext, HistoryGrows DEF AnswerInv, True
<1>4. ASSUME NEW s \in Sender, pc[s] \notin {"idle", "return"}, Succeed(s), SentAfter(Current(s))
      PROVE  Answered(s)' /\ TrueAfter(s)
  <2>1. batch' = batch /\ \A i \in successful'[s] : i \in successful[s] \/ i = at[s]
    BY <1>4 DEF Succeed, NextEntry, TypeInv, TypeResponse
  <2>2. \A i \in successful[s] : SentAfter(batch[s][i])
    BY HistoryGrows DEF AnswerInv, True
  <2>3. SentAfter(batch[s][at[s]])
    BY <1>4 DEF Current
  <2> QED
    BY <1>4, <2>1, <2>2, <2>3, AnswerNext DEF AnswerInv
<1>5. ASSUME NEW s \in Sender, EndCall(s) \/ Call(s) PROVE Answered(s)' /\ TrueAfter(s)
  <2>1. CASE EndCall(s)
    BY <2>1 DEF EndCall, Answered, TypeInv, TypeCall, TypeResponse
  <2>2. CASE Call(s)
    <3>1. successful'[s] = {} /\ failed'[s] = {} /\ pc'[s] = "meta" /\ at'[s] = 1
      BY <2>2 DEF Call, AnswerInv, Answered, TypeInv, TypeCall
    <3> QED
      BY <3>1 DEF Answered
  <2> QED
    BY <1>5, <2>1, <2>2
<1>6. ASSUME NEW s \in Sender, Goto(s, "dedup") \/ Goto(s, "route") \/ Goto(s, "produce"),
             pc[s] \notin {"idle", "return"}
      PROVE  Answered(s)' /\ TrueAfter(s)
  <2>1. /\ pc'[s] \notin {"idle", "return"} /\ batch'[s] = batch[s] /\ at'[s] = at[s]
        /\ successful'[s] = successful[s] /\ failed'[s] = failed[s]
    BY <1>6 DEF Goto, TypeInv, TypeCall
  <2> QED
    BY <1>6, <2>1, HistoryGrows DEF AnswerInv, Answered, True
<1>7. ASSUME NEW s \in Sender, TryDedup(s) PROVE Answered(s)' /\ TrueAfter(s)
  <2>1. CASE Goto(s, "route")
    BY <1>6, <1>7, <2>1 DEF TryDedup
  <2>2. CASE Succeed(s) /\ dups' = dups \cup {[key |-> DedupKey(Current(s)), told |-> now,
                                               claimed |-> claimedAt[DedupKey(Current(s))]]}
    <3> DEFINE d == [key |-> DedupKey(Current(s)), told |-> now,
                     claimed |-> claimedAt[DedupKey(Current(s))]]
    <3>1. d \in dups' /\ d.key = DedupKey(Current(s))
      BY <2>2
    <3>2. SentAfter(Current(s))
      BY <3>1, Zenon DEF SentAfter
    <3> QED
      BY <1>4, <1>7, <2>2, <3>2 DEF TryDedup
  <2> QED
    BY <1>7, <2>1, <2>2 DEF TryDedup
<1>8. ASSUME NEW s \in Sender, Produce(s) PROVE Answered(s)' /\ TrueAfter(s)
  <2>1. CASE Stored(s) /\ Succeed(s)
    <3>1. PICK r \in Record : r.entry = Current(s) /\ log' = Append(log, r)
      BY <1>8, <2>1, StoredRecord, Zenon DEF Produce
    <3>2. Len(log) + 1 \in DOMAIN log' /\ log'[Len(log) + 1] = r
      BY <3>1, Appended DEF TypeInv
    <3>3. SentAfter(Current(s))
      BY <3>1, <3>2 DEF SentAfter
    <3> QED
      BY <1>4, <1>8, <2>1, <3>3 DEF Produce
  <2> QED
    BY <1>3, <1>8, <2>1 DEF Produce
<1>9. ASSUME NEW s \in Sender,
             Call(s) \/ SendStep(s) \/ RequestFails(s) \/ AnswerLost(s) \/ ReplicaDies(s)
      PROVE  AnswerInv'
  <2>1. Answered(s)' /\ TrueAfter(s)
    BY <1>3, <1>5, <1>6, <1>7, <1>8, <1>9
       DEF SendStep, GetQueueMeta, RouteForSend, Return, RequestFails, AnswerLost, ReplicaDies
  <2>2. \A t \in Sender : t # s => Answered(t)' /\ TrueAfter(t)
    BY <1>2, <1>9, OtherCalls
  <2> QED
    BY <1>1, <2>1, <2>2 DEF AnswerInv
<1>10. CASE Operator \/ Tick \/ UNCHANGED vars
  <2>1. UNCHANGED callVars
    BY <1>10 DEF Operator, PublishMeta, PublishMap, DeleteTopics, DeleteMeta, DeleteMap, Tick, vars
  <2>2. \A t \in Sender : Answered(t)' /\ TrueAfter(t)
    BY <1>2, <2>1
  <2> QED
    BY <1>1, <2>2 DEF AnswerInv
<1> QED
  BY <1>9, <1>10 DEF Next

\* SendMessageBatch: every entry is answered once, and an entry that is answered
\* as sent is in Kafka or was told to be a duplicate, whatever fails in between.
THEOREM BatchAnswersAreTrue == Spec => []AnswersAreTrue
<1>1. AnswerInv => AnswersAreTrue
  BY DEF AnswerInv, AnswersAreTrue, Answered, True, SentOrDup
<1> QED
  BY <1>1, TypeInit, TypeStep, AnswerInit, AnswerStep, PTL DEF Spec
=============================================================================
