------------------------ MODULE MessageDeliveryProofs -----------------------
(***************************************************************************)
(* How a message is handed out again: proofs that a group's lock is only   *)
(* taken from its holder by its own ack, reap or expiry, that a receipt    *)
(* handle is handed out at most MaxReceiveCount times, and that a message  *)
(* in flight can come back unless its call was cut short.                  *)
(*                                                                         *)
(* HandoutsBounded does not follow from count: the handle of a parked      *)
(* message waits both on the redeliver list and in vis_index, and comes to *)
(* be on the list several times.  TokenInv counts the chances a handle has *)
(* to be handed out; each one was paid for by an increment of its count.   *)
(***************************************************************************)
EXTENDS MessagePlaneProofs

USE DEF kafkaVars, offsetVars, recordVars, lockVars, receiverVars, clientVars,
        reaperVars, historyVars, boundVars

-----------------------------------------------------------------------------
(* The group locks                                                         *)

\* The lock of g may change hands.
MayRelease(g) ==
    \/ lock[g] \in acked' \ acked
    \/ lock[g] \in visIndex \ visIndex'
    \/ lockTTL[g] = 1 /\ acked' = acked /\ visIndex' = visIndex

LEMMA LockStep ==
  ASSUME TypeOK, LifeInv, [Next]_vars, NEW g \in Group, lock[g] # NoHandle, lock'[g] # lock[g]
  PROVE  MayRelease(g)
<1>0. lock \in [Group -> Handle \cup {NoHandle}]
  BY DEF TypeOK, TypeRecords
<1>1. ASSUME NEW h, NEW t, SetNXLock(h, t) PROVE FALSE
  BY <1>0, <1>1 DEF SetNXLock
<1>2. ASSUME NEW h, ReleaseLock(h) PROVE lock[g] = h
  BY <1>2 DEF ReleaseLock, HoldsLock
<1>3. ASSUME NEW r \in Receiver, ReceiverNext(r) PROVE FALSE
  <2>1. CASE AcquireRedelivered(r) \/ AcquireFresh(r)
    BY <1>1, <2>1 DEF AcquireRedelivered, AcquireFresh
  <2>2. CASE ~(AcquireRedelivered(r) \/ AcquireFresh(r))
    BY <1>3, <2>2 DEF ReceiverNext, ReceiveStart, ReceiveStep, ReceiveFails, PopRedeliverable,
       GetInFlight, PushBack, ExtendExists, ExtendZAdd, Poll, AddPending, PutInFlight,
       Park, ReceiveReturn, ReceiveAgain
  <2> QED
    BY <2>1, <2>2
<1>4. ASSUME NEW c \in Client, ClientNext(c) PROVE MayRelease(g)
  <2>1. DeleteAck(c) /\ ch[c] \in inflight /\ AckScript(ch[c])
    BY <1>4 DEF ClientNext, DeleteStep, DeleteGet, DeleteAck, DeleteMin, DeleteWatermark,
       DeleteCommit, VisExists, VisZAdd, CallFails
  <2>2. lock[g] = ch[c] /\ acked' = acked \cup {ch[c]}
    BY <1>2, <2>1 DEF AckScript
  <2>3. ch[c] \notin acked
    BY <2>1 DEF LifeInv
  <2> QED
    BY <2>2, <2>3 DEF MayRelease
<1>5. ASSUME NEW w \in Reaper, ReaperNext(w) PROVE MayRelease(g)
  <2>1. Reap(w)
    BY <1>5 DEF ReaperNext, SweepStep, Sweep, RouteToDLQ, SweepFails
  <2>2. PICK h : ReapRedeliver(h) \/ ReapDLQ(h)
    BY <2>1 DEF Reap, ReapGone
  <2>3. lock[g] = h /\ h \in visIndex /\ visIndex' = visIndex \ {h}
    BY <1>2, <2>2 DEF ReapRedeliver, ReapDLQ, ReapFound, ZRemVisIndex
  <2> QED
    BY <2>3 DEF MayRelease
<1>6. CASE Tick
  BY <1>0, <1>6 DEF Tick, MayRelease
<1> QED
  BY <1>3, <1>4, <1>5, <1>6, MoveFrame DEF Next, vars

\* A group's lock leaves its holder only with the holder's own ack, its own
\* reap, or its expiry: ack.lua and reap.lua compare the lock's value with
\* their handle, so a late ack cannot free a lock that was taken over.
THEOREM LocksAreReleasedByTheirHolder == Spec => LockReleasedByOwner
<1>1. HandleInv /\ [Next]_vars
      => [\A g \in Group :
             lock[g] # NoHandle /\ lock'[g] # lock[g]
             => \/ lock[g] \in acked' \ acked
                \/ lock[g] \in visIndex \ visIndex'
                \/ lockTTL[g] = 1 /\ acked' = acked /\ visIndex' = visIndex]_vars
  BY LockStep DEF HandleInv, MayRelease
<1> QED
  BY <1>1, HandleInvInvariant, PTL DEF Spec, LockReleasedByOwner

-----------------------------------------------------------------------------
(* How often a handle is handed out                                        *)

\* The positions of h on a list, and the calls that may hand it out: it was
\* popped, or its record was just written.
CopiesIn(s, h) == {i \in DOMAIN s : s[i] = h}
Copies(h) == CopiesIn(redeliver, h)
Carries(r, h) == rcur[r] = h /\ rpc[r] # "put"
Holders(h) == {r \in Receiver : Carries(r, h)}

\* The chances of a handle to be handed out, taken or open, are within its
\* count, which is 0 until its record is written.
TokenInv ==
    \A h \in Handle :
        /\ IsFiniteSet(Holders(h))
        /\ handouts[h] + Cardinality(Copies(h)) + Cardinality(Holders(h)) <= count[h]
FreshInv ==
    /\ \A h \in Handle \ minted : count[h] = 0
    /\ \A r \in Receiver : rpc[r] = "put" => count[rcur[r]] = 0

LEMMA CopiesFinite ==
  ASSUME NEW s \in Seq(Handle), NEW h
  PROVE  IsFiniteSet(CopiesIn(s, h)) /\ Cardinality(CopiesIn(s, h)) \in Nat
<1>1. Len(s) \in Nat /\ DOMAIN s = 1 .. Len(s)
  OBVIOUS
<1>2. IsFiniteSet(1 .. Len(s)) /\ CopiesIn(s, h) \in SUBSET (1 .. Len(s))
  BY <1>1, FS_Interval DEF CopiesIn
<1> QED
  BY <1>2, FS_Subset, FS_CardinalityType

\* RPUSH adds one copy, LPOP takes one away.
LEMMA PushCopies ==
  ASSUME NEW s \in Seq(Handle), NEW k \in Handle, NEW h
  PROVE  Cardinality(CopiesIn(Append(s, k), h))
            = IF h = k THEN Cardinality(CopiesIn(s, h)) + 1 ELSE Cardinality(CopiesIn(s, h))
<1> DEFINE n == Len(s)
           u == Append(s, k)
<1>1. /\ n \in Nat /\ DOMAIN s = 1 .. n /\ DOMAIN u = 1 .. n + 1
      /\ u[n + 1] = k /\ \A i \in 1 .. n : u[i] = s[i]
  OBVIOUS
<1>2. \A i \in 1 .. n + 1 : i \in 1 .. n \/ i = n + 1
  BY <1>1
<1>3. n + 1 \notin 1 .. n /\ n + 1 \in 1 .. n + 1 /\ \A i \in 1 .. n : i \in 1 .. n + 1
  BY <1>1
<1> HIDE DEF n, u
<1>4. CASE h = k
  <2>1. CopiesIn(u, h) = CopiesIn(s, h) \cup {n + 1}
    BY <1>1, <1>2, <1>3, <1>4 DEF CopiesIn
  <2>2. n + 1 \notin CopiesIn(s, h) /\ IsFiniteSet(CopiesIn(s, h))
    BY <1>1, <1>3, CopiesFinite DEF CopiesIn
  <2>3. Cardinality(CopiesIn(u, h)) = Cardinality(CopiesIn(s, h)) + 1
    BY <2>1, <2>2, FS_AddElement
  <2> QED
    BY <1>4, <2>3 DEF u
<1>5. CASE h # k
  <2>1. CopiesIn(u, h) = CopiesIn(s, h)
    BY <1>1, <1>2, <1>3, <1>5 DEF CopiesIn
  <2> QED
    BY <1>5, <2>1 DEF u
<1> QED
  BY <1>4, <1>5

LEMMA PopCopies ==
  ASSUME NEW s \in Seq(Handle), s # <<>>, NEW h
  PROVE  Cardinality(CopiesIn(s, h))
            = IF h = Head(s) THEN Cardinality(CopiesIn(Tail(s), h)) + 1
                             ELSE Cardinality(CopiesIn(Tail(s), h))
<1> DEFINE n == Len(s)
           u == Tail(s)
           A == CopiesIn(u, h)
           B == CopiesIn(s, h) \ {1}
           f == [i \in A |-> i + 1]
<1>1. /\ n \in Nat \ {0} /\ DOMAIN s = 1 .. n /\ u \in Seq(Handle) /\ DOMAIN u = 1 .. n - 1
      /\ \A i \in 1 .. n - 1 : u[i] = s[i + 1]
      /\ Head(s) = s[1]
  OBVIOUS
<1>2. \A i \in A : i \in 1 .. n - 1 /\ s[i + 1] = h
  BY <1>1 DEF CopiesIn
<1>3. \A j \in B : j \in 2 .. n /\ s[j] = h
  BY <1>1 DEF CopiesIn
<1>4. \A i \in A : i + 1 \in B
  BY <1>1, <1>2 DEF CopiesIn
<1>5. \A j \in B : j - 1 \in A /\ (j - 1) + 1 = j
  BY <1>1, <1>3 DEF CopiesIn
<1>6. \A i, j \in A : i + 1 = j + 1 => i = j
  BY <1>1, <1>2
<1> HIDE DEF A, B
<1>7. f \in Bijection(A, B)
  <2>1. f \in [A -> B]
    BY <1>4
  <2>2. \A j \in B : \E i \in A : f[i] = j
    BY <1>5
  <2>3. \A i, j \in A : f[i] = f[j] => i = j
    BY <1>6
  <2>4. DOMAIN f = A
    OBVIOUS
  <2> HIDE DEF f
  <2>5. IsInjective(f)
    BY <2>3, <2>4 DEF IsInjective
  <2>6. f \in Injection(A, B)
    BY <2>1, <2>5 DEF Injection
  <2>7. f \in Surjection(A, B)
    BY <2>1, <2>2 DEF Surjection
  <2> QED
    BY <2>6, <2>7 DEF Bijection
<1> HIDE DEF f
<1>8. IsFiniteSet(A) /\ Cardinality(A) \in Nat
  BY <1>1, CopiesFinite DEF A
<1>9. IsFiniteSet(B) /\ Cardinality(B) = Cardinality(A)
  <2>1. ExistsBijection(A, B)
    BY <1>7 DEF ExistsBijection
  <2> QED
    BY <1>8, <2>1, FS_Bijection
<1>10. IsFiniteSet(CopiesIn(s, h)) /\ Cardinality(CopiesIn(s, h)) \in Nat
  BY CopiesFinite
<1>11. CASE h = Head(s)
  <2>1. 1 \in CopiesIn(s, h)
    BY <1>1, <1>11 DEF CopiesIn
  <2>2. Cardinality(B) = Cardinality(CopiesIn(s, h)) - 1
    BY <1>10, <2>1, FS_RemoveElement DEF B
  <2>3. Cardinality(CopiesIn(s, h)) = Cardinality(A) + 1
    BY <1>8, <1>9, <1>10, <2>2
  <2> QED
    BY <1>11, <2>3 DEF A
<1>12. CASE h # Head(s)
  <2>1. B = CopiesIn(s, h)
    BY <1>1, <1>12 DEF CopiesIn, B
  <2> QED
    BY <1>9, <1>12, <2>1 DEF A
<1> QED
  BY <1>11, <1>12

\* A step of one call changes the holders of a handle by that call at most.
LEMMA HolderMoves ==
  ASSUME TypeOK, NEW r \in Receiver, ReceiverNext(r), NEW h, IsFiniteSet(Holders(h))
  PROVE  /\ IsFiniteSet(Holders(h)')
         /\ Cardinality(Holders(h)) \in Nat /\ Cardinality(Holders(h)') \in Nat
         /\ (Carries(r, h) <=> Carries(r, h)') => Cardinality(Holders(h)') = Cardinality(Holders(h))
         /\ Carries(r, h) /\ ~Carries(r, h)'
            => Cardinality(Holders(h)) = Cardinality(Holders(h)') + 1
         /\ ~Carries(r, h) /\ Carries(r, h)'
            => Cardinality(Holders(h)') = Cardinality(Holders(h)) + 1
<1> DEFINE S == Holders(h)
           T == Holders(h)'
<1>1. \A q \in Receiver : q # r => (Carries(q, h)' <=> Carries(q, h))
  BY OtherReceivers DEF Carries
<1>2. \A q : q \in S <=> q \in Receiver /\ Carries(q, h)
  BY DEF Holders
<1>3. \A q : q \in T <=> q \in Receiver /\ Carries(q, h)'
  BY DEF Holders
<1>4. CASE Carries(r, h) <=> Carries(r, h)'
  <2>1. T = S
    BY <1>1, <1>2, <1>3, <1>4
  <2> QED
    BY <1>4, <2>1, FS_CardinalityType
<1>5. CASE Carries(r, h) /\ ~Carries(r, h)'
  <2>1. T = S \ {r} /\ r \in S
    BY <1>1, <1>2, <1>3, <1>5
  <2>2. IsFiniteSet(T) /\ Cardinality(T) = Cardinality(S) - 1
    BY <2>1, FS_RemoveElement
  <2>3. Cardinality(S) \in Nat /\ Cardinality(T) \in Nat
    BY <2>2, FS_CardinalityType
  <2> HIDE DEF S, T
  <2>4. Cardinality(S) = Cardinality(T) + 1
    BY <2>2, <2>3
  <2> QED
    BY <1>5, <2>2, <2>3, <2>4 DEF S, T
<1>6. CASE ~Carries(r, h) /\ Carries(r, h)'
  <2>1. T = S \cup {r} /\ r \notin S
    BY <1>1, <1>2, <1>3, <1>6
  <2>2. IsFiniteSet(T) /\ Cardinality(T) = Cardinality(S) + 1
    BY <2>1, FS_AddElement
  <2>3. Cardinality(S) \in Nat /\ Cardinality(T) \in Nat
    BY <2>2, FS_CardinalityType
  <2> QED
    BY <1>6, <2>2, <2>3
<1> QED
  BY <1>4, <1>5, <1>6

\* What a step of a ReceiveMessage call does to the chances of h.
Keeps(r, h) == UNCHANGED <<redeliver, handouts, count>> /\ (Carries(r, h)' => Carries(r, h))
Pops(r, h) ==
    /\ redeliver # <<>> /\ redeliver' = Tail(redeliver) /\ UNCHANGED <<handouts, count>>
    /\ ~Carries(r, h) /\ (Carries(r, h)' <=> h = Head(redeliver))
Pushes(r, h) ==
    /\ rcur[r] \in Handle /\ redeliver' = Append(redeliver, rcur[r])
    /\ UNCHANGED <<handouts, count>>
    /\ (Carries(r, h) <=> h = rcur[r]) /\ ~Carries(r, h)'
HandsOut(r, h) ==
    /\ handouts' = [handouts EXCEPT ![rcur[r]] = @ + 1] /\ UNCHANGED <<redeliver, count>>
    /\ (Carries(r, h) <=> h = rcur[r]) /\ ~Carries(r, h)'
Puts(r, h) ==
    /\ rpc[r] = "put" /\ count' = [count EXCEPT ![rcur[r]] = 1] /\ UNCHANGED redeliver
    /\ ~Carries(r, h)
    /\ \/ handouts' = handouts /\ (Carries(r, h)' <=> h = rcur[r])
       \/ handouts' = [handouts EXCEPT ![rcur[r]] = @ + 1] /\ ~Carries(r, h)'

LEMMA ReceiverMoves ==
  ASSUME TypeOK, NEW r \in Receiver, ReceiverNext(r), NEW h \in Handle
  PROVE  Keeps(r, h) \/ Pops(r, h) \/ Pushes(r, h) \/ HandsOut(r, h) \/ Puts(r, h)
<1>0. /\ rpc \in [Receiver -> ReceiverPc] /\ rcur \in [Receiver -> Handle \cup {NoHandle}]
      /\ rpc[r] \in ReceiverHolds <=> rcur[r] # NoHandle
      /\ h # NoHandle
  BY HandleAssumption DEF TypeOK, TypeReceiver
<1> USE DEF Carries
<1>1. CASE PopRedeliverable(r)
  <2>1. rcur[r] = NoHandle
    BY <1>0, <1>1 DEF PopRedeliverable, ReceiverHolds
  <2> QED
    BY <1>0, <1>1, <2>1 DEF PopRedeliverable, Pops, Keeps
<1>2. CASE PushBack(r) \/ Park(r)
  <2>1. rpc[r] \in {"pushback", "park"}
    BY <1>2 DEF PushBack, Park
  <2>2. rcur[r] \in Handle
    BY <1>0, <2>1 DEF ReceiverHolds
  <2> QED
    BY <1>0, <1>2, <2>2 DEF PushBack, Park, PushRedeliverable, Pushes
<1>3. ASSUME NEW next, HandOut(r, rcur[r], next), UNCHANGED <<redeliver, count>>, rpc[r] # "put"
      PROVE  HandsOut(r, h)
  BY <1>0, <1>3 DEF HandOut, HandsOut
<1>4. CASE ExtendExists(r) \/ ExtendZAdd(r)
  BY <1>0, <1>3, <1>4 DEF ExtendExists, ExtendZAdd, Keeps
<1>5. CASE AcquireFresh(r)
  BY <1>0, <1>3, <1>5 DEF AcquireFresh, Keeps
<1>6. CASE PutInFlight(r)
  BY <1>0, <1>6 DEF PutInFlight, HandOut, Puts
<1>7. CASE AddPending(r)
  BY <1>0, <1>7 DEF AddPending, Keeps
<1>8. CASE ReceiveStart(r) \/ GetInFlight(r) \/ AcquireRedelivered(r) \/ Poll(r)
  BY <1>0, <1>8 DEF ReceiveStart, GetInFlight, AcquireRedelivered, Poll, Keeps
<1>9. CASE ReceiveReturn(r) \/ ReceiveAgain(r) \/ ReceiveFails(r)
  BY <1>0, <1>9 DEF ReceiveReturn, ReceiveAgain, ReceiveFails, EndReceive, BatchDone, Keeps
<1> QED
  BY <1>1, <1>2, <1>4, <1>5, <1>6, <1>7, <1>8, <1>9 DEF ReceiverNext, ReceiveStep

\* The only writers of a count are PutInFlight, on a new handle, and reap.lua,
\* on a handle that has a record; the latter queues the handle once.
LEMMA CountMoves ==
  ASSUME TypeOK, LifeInv, [Next]_vars
  PROVE  \/ count' = count
         \/ \E r \in Receiver : PutInFlight(r)
         \/ \E h \in inflight : count' = [count EXCEPT ![h] = @ + 1]
<1>1. ASSUME NEW r \in Receiver, ReceiverNext(r) PROVE count' = count \/ PutInFlight(r)
  BY <1>1 DEF ReceiverNext, ReceiveStart, ReceiveStep, ReceiveFails, PopRedeliverable,
     GetInFlight, AcquireRedelivered, PushBack, ExtendExists, ExtendZAdd, Poll, AddPending,
     AcquireFresh, Park, ReceiveReturn, ReceiveAgain
<1>2. ASSUME NEW w \in Reaper, ReaperNext(w)
      PROVE  count' = count \/ \E h \in inflight : count' = [count EXCEPT ![h] = @ + 1]
  BY <1>2 DEF ReaperNext, SweepStep, Sweep, Reap, RouteToDLQ, SweepFails, ReapGone, ReapRedeliver,
     ReapDLQ, ReapFound, ReceiveCountAfterReap
<1> QED
  BY <1>1, <1>2, ClientFrame, TickFrame, MoveFrame DEF Next, vars

LEMMA FreshStep == ASSUME TypeOK, LifeInv, FreshInv, [Next]_vars PROVE FreshInv'
<1>0. count \in [Handle -> 0 .. MaxReceiveCount] /\ inflight \subseteq Handle /\ minted \subseteq Handle
  BY DEF TypeOK, TypeRecords, TypeHistory
<1>1. minted \subseteq minted'
  BY StepCases DEF Quiet, Finish, AddPending, PutInFlight
<1>2. ASSUME NEW r \in Receiver, rpc'[r] = "put"
      PROVE  \/ rpc[r] = "put" /\ rcur'[r] = rcur[r] /\ ~PutInFlight(r)
             \/ AddPending(r) /\ rcur'[r] \in Handle \ minted
  <2>1. CASE AddPending(r)
    BY <2>1 DEF AddPending, TypeOK, TypeReceiver
  <2> QED
    BY <1>2, <2>1, ReachesPut
<1>3. CASE count' = count
  BY <1>1, <1>2, <1>3 DEF FreshInv
<1>4. ASSUME NEW q \in Receiver, PutInFlight(q) PROVE FreshInv'
  <2>1. rpc[q] = "put" /\ rcur[q] \in minted /\ count' = [count EXCEPT ![rcur[q]] = 1] /\ minted' = minted
    BY <1>4 DEF PutInFlight, LifeInv
  <2>2. \A h \in Handle : h # rcur[q] => count'[h] = count[h]
    BY <1>0, <2>1
  <2>3. ASSUME NEW r \in Receiver, rpc'[r] = "put" PROVE count'[rcur'[r]] = 0
    <3>1. rpc[r] = "put" /\ rcur'[r] = rcur[r] /\ r # q
      BY <1>2, <1>4, <2>1, <2>3 DEF AddPending
    <3>2. rcur[r] # rcur[q] /\ rcur[r] \in Handle
      BY <1>0, <2>1, <3>1 DEF LifeInv
    <3> QED
      BY <2>2, <3>1, <3>2 DEF FreshInv
  <2> QED
    BY <1>0, <2>1, <2>2, <2>3 DEF FreshInv
<1>5. ASSUME NEW k \in inflight, count' = [count EXCEPT ![k] = @ + 1] PROVE FreshInv'
  <2>1. \A h \in Handle : h # k => count'[h] = count[h]
    BY <1>0, <1>5
  <2>2. k \in minted /\ \A r \in Receiver : rpc[r] = "put" => rcur[r] # k /\ rcur[r] \in Handle
    BY <1>0 DEF LifeInv
  <2>3. ASSUME NEW r \in Receiver, rpc'[r] = "put" PROVE count'[rcur'[r]] = 0
    BY <1>2, <2>1, <2>2, <2>3 DEF FreshInv
  <2> QED
    BY <1>1, <2>1, <2>2, <2>3 DEF FreshInv
<1> QED
  BY <1>3, <1>4, <1>5, CountMoves

\* The three numbers TokenInv adds up.
Chances(h) == handouts[h] + Cardinality(Copies(h)) + Cardinality(Holders(h))

LEMMA ReceiverTokens ==
  ASSUME TypeOK, FreshInv, TokenInv, NEW r \in Receiver, ReceiverNext(r), NEW h \in Handle
  PROVE  IsFiniteSet(Holders(h)') /\ Chances(h)' <= count'[h]
<1> DEFINE o == handouts[h]
           c == Cardinality(Copies(h))
           k == Cardinality(Holders(h))
           n == count[h]
           o2 == handouts'[h]
           c2 == Cardinality(Copies(h)')
           k2 == Cardinality(Holders(h)')
           n2 == count'[h]
<1>1. /\ redeliver \in Seq(Handle) /\ count \in [Handle -> 0 .. MaxReceiveCount]
      /\ handouts \in [Handle -> Nat] /\ MaxReceiveCount \in Nat
  BY CountAssumption DEF TypeOK, TypeRecords, TypeHistory
<1>2. IsFiniteSet(Holders(h)) /\ o + c + k <= n
  BY DEF TokenInv
<1>3. o \in Nat /\ c \in Nat /\ n \in Nat
  BY <1>1, CopiesFinite DEF Copies
<1>4. /\ IsFiniteSet(Holders(h)') /\ k \in Nat /\ k2 \in Nat
      /\ (Carries(r, h) <=> Carries(r, h)') => k2 = k
      /\ Carries(r, h) /\ ~Carries(r, h)' => k = k2 + 1
      /\ ~Carries(r, h) /\ Carries(r, h)' => k2 = k + 1
  BY <1>2, HolderMoves
<1>5. redeliver' = redeliver => c2 = c
  BY DEF Copies
<1>6. /\ count' = count => n2 = n
      /\ handouts' = handouts => o2 = o
  OBVIOUS
<1>7. ASSUME handouts' = [handouts EXCEPT ![rcur[r]] = @ + 1]
      PROVE  o2 = IF h = rcur[r] THEN o + 1 ELSE o
  BY <1>1, <1>7
<1>8. CASE Keeps(r, h)
  <2>1. c2 = c /\ n2 = n /\ o2 = o
    BY <1>5, <1>6, <1>8 DEF Keeps
  <2>2. k2 <= k
    BY <1>4, <1>8 DEF Keeps
  <2> HIDE DEF o, c, k, n, o2, c2, k2, n2
  <2>3. o2 + c2 + k2 <= n2
    BY <1>2, <1>3, <1>4, <2>1, <2>2
  <2> QED
    BY <1>4, <2>3 DEF Chances, o2, c2, k2, n2
<1>9. CASE Pops(r, h)
  <2>1. n2 = n /\ o2 = o
    BY <1>6, <1>9 DEF Pops
  <2>2. c = IF h = Head(redeliver) THEN c2 + 1 ELSE c2
    BY <1>1, <1>9, PopCopies DEF Pops, Copies
  <2>3. c2 \in Nat
    <3>1. redeliver' \in Seq(Handle)
      BY <1>1, <1>9 DEF Pops
    <3>2. Copies(h)' = CopiesIn(redeliver', h)
      BY DEF Copies
    <3> QED
      BY <3>1, <3>2, CopiesFinite
  <2>4. k2 = IF h = Head(redeliver) THEN k + 1 ELSE k
    BY <1>4, <1>9 DEF Pops
  <2> HIDE DEF o, c, k, n, o2, c2, k2, n2
  <2>5. o2 + c2 + k2 <= n2
    BY <1>2, <1>3, <1>4, <2>1, <2>2, <2>3, <2>4
  <2> QED
    BY <1>4, <2>5 DEF Chances, o2, c2, k2, n2
<1>10. CASE Pushes(r, h)
  <2>1. n2 = n /\ o2 = o
    BY <1>6, <1>10 DEF Pushes
  <2>2. k = IF h = rcur[r] THEN k2 + 1 ELSE k2
    BY <1>4, <1>10 DEF Pushes
  <2>3. c2 = IF h = rcur[r] THEN c + 1 ELSE c
    BY <1>1, <1>10, PushCopies DEF Pushes, Copies
  <2> HIDE DEF o, c, k, n, o2, c2, k2, n2
  <2>4. o2 + c2 + k2 <= n2
    BY <1>2, <1>3, <1>4, <2>1, <2>2, <2>3
  <2> QED
    BY <1>4, <2>4 DEF Chances, o2, c2, k2, n2
<1>11. CASE HandsOut(r, h)
  <2>1. n2 = n /\ c2 = c
    BY <1>5, <1>6, <1>11 DEF HandsOut
  <2>2. o2 = IF h = rcur[r] THEN o + 1 ELSE o
    BY <1>7, <1>11 DEF HandsOut
  <2>3. k = IF h = rcur[r] THEN k2 + 1 ELSE k2
    BY <1>4, <1>11 DEF HandsOut
  <2> HIDE DEF o, c, k, n, o2, c2, k2, n2
  <2>4. o2 + c2 + k2 <= n2
    BY <1>2, <1>3, <1>4, <2>1, <2>2, <2>3
  <2> QED
    BY <1>4, <2>4 DEF Chances, o2, c2, k2, n2
<1>12. CASE Puts(r, h)
  <2>1. c2 = c
    BY <1>5, <1>12 DEF Puts
  <2>2. CASE h = rcur[r]
    <3>1. n = 0 /\ n2 = 1
      BY <1>1, <1>12, <2>2 DEF Puts, FreshInv
    <3>2. \/ o2 = o /\ k2 = k + 1
          \/ o2 = o + 1 /\ k2 = k
      BY <1>4, <1>7, <1>12, <2>2 DEF Puts
    <3> HIDE DEF o, c, k, n, o2, c2, k2, n2
    <3>3. o2 + c2 + k2 <= n2
      BY <1>2, <1>3, <1>4, <2>1, <3>1, <3>2
    <3> QED
      BY <1>4, <3>3 DEF Chances, o2, c2, k2, n2
  <2>3. CASE h # rcur[r]
    <3>1. n2 = n
      BY <1>1, <1>12, <2>3 DEF Puts
    <3>2. o2 = o /\ k2 = k
      BY <1>4, <1>7, <1>12, <2>3 DEF Puts
    <3> HIDE DEF o, c, k, n, o2, c2, k2, n2
    <3>3. o2 + c2 + k2 <= n2
      BY <1>2, <1>3, <1>4, <2>1, <3>1, <3>2
    <3> QED
      BY <1>4, <3>3 DEF Chances, o2, c2, k2, n2
  <2> QED
    BY <2>2, <2>3
<1> QED
  BY <1>8, <1>9, <1>10, <1>11, <1>12, ReceiverMoves

\* Steps that are not of a ReceiveMessage call leave the chances alone, but for
\* the reap, which counts the chance it adds, and a crash, which takes some.
LEMMA OtherMoves ==
  ASSUME TypeOK, LifeInv, [Next]_vars, ~\E r \in Receiver : ReceiverNext(r)
  PROVE  /\ handouts' = handouts
         /\ \A h \in Handle : Holders(h)' \in SUBSET Holders(h)
         /\ \/ redeliver' = redeliver /\ count' = count
            \/ \E k \in Handle : /\ redeliver' = Append(redeliver, k)
                                 /\ count' = [count EXCEPT ![k] = @ + 1]
<1> DEFINE Goal == /\ handouts' = handouts
                   /\ \A h \in Handle : Holders(h)' \in SUBSET Holders(h)
                   /\ \/ redeliver' = redeliver /\ count' = count
                      \/ \E k \in Handle : /\ redeliver' = Append(redeliver, k)
                                           /\ count' = [count EXCEPT ![k] = @ + 1]
<1>0. UNCHANGED receiverVars => \A h \in Handle : Holders(h)' \in SUBSET Holders(h)
  BY DEF Holders, Carries
<1>1. ASSUME NEW c \in Client, ClientNext(c) PROVE Goal
  BY <1>0, <1>1, ClientFrame
<1>2. ASSUME NEW w \in Reaper, ReaperNext(w) PROVE Goal
  <2>1. UNCHANGED <<receiverVars, handouts>>
    BY <1>2, ReaperFrame
  <2>2. CASE redeliver' = redeliver /\ count' = count
    BY <1>0, <2>1, <2>2
  <2>3. ASSUME NEW k \in wbatch[w], ReapRedeliver(k) PROVE Goal
    <3>1. k \in Handle
      BY <2>3 DEF ReapRedeliver, ReapFound, TypeOK, TypeRecords
    <3>2. redeliver' = Append(redeliver, k) /\ count' = [count EXCEPT ![k] = @ + 1]
      BY <2>3 DEF ReapRedeliver, PushRedeliverable, ReceiveCountAfterReap
    <3> QED
      BY <1>0, <2>1, <3>1, <3>2
  <2>4. (redeliver' = redeliver /\ count' = count) \/ \E k \in wbatch[w] : ReapRedeliver(k)
    BY <1>2 DEF ReaperNext, SweepStep, Sweep, Reap, RouteToDLQ, SweepFails, ReapGone, ReapDLQ
  <2> QED
    BY <2>2, <2>3, <2>4
<1>3. ASSUME Tick PROVE Goal
  BY <1>0, <1>3, TickFrame
<1>4. ASSUME NEW R \in SUBSET Receiver, Crash(R) PROVE Goal
  <2>1. UNCHANGED <<handouts, redeliver, count>>
    BY <1>4, MoveFrame
  <2>2. ASSUME NEW h \in Handle, NEW r \in Receiver, Carries(r, h)' PROVE Carries(r, h)
    BY <1>4, <2>2, HandleAssumption DEF Crash, Carries
  <2>3. ASSUME NEW h \in Handle PROVE Holders(h)' \in SUBSET Holders(h)
    BY <2>2 DEF Holders
  <2> QED
    BY <2>1, <2>3
<1>5. ASSUME NEW p \in Part, Rebalance(p) PROVE Goal
  BY <1>0, <1>5 DEF Rebalance
<1>6. ASSUME UNCHANGED vars PROVE Goal
  BY <1>0, <1>6 DEF vars
<1> QED
  <2> HIDE DEF Goal
  <2>1. Goal
    BY <1>1, <1>2, <1>3, <1>4, <1>5, <1>6 DEF Next
  <2> QED
    BY <2>1 DEF Goal

LEMMA TokenStep == ASSUME TypeOK, LifeInv, FreshInv, TokenInv, [Next]_vars PROVE TokenInv'
<1>1. CASE \E r \in Receiver : ReceiverNext(r)
  BY <1>1, ReceiverTokens DEF TokenInv, Chances
<1>2. CASE ~\E r \in Receiver : ReceiverNext(r)
  <2> SUFFICES ASSUME NEW h \in Handle
               PROVE  IsFiniteSet(Holders(h)') /\ Chances(h)' <= count'[h]
    BY DEF TokenInv, Chances
  <2> DEFINE o == handouts[h]
             c == Cardinality(Copies(h))
             k == Cardinality(Holders(h))
             n == count[h]
             c2 == Cardinality(Copies(h)')
             k2 == Cardinality(Holders(h)')
             n2 == count'[h]
  <2>1. /\ redeliver \in Seq(Handle) /\ count \in [Handle -> 0 .. MaxReceiveCount]
        /\ handouts \in [Handle -> Nat] /\ MaxReceiveCount \in Nat
    BY CountAssumption DEF TypeOK, TypeRecords, TypeHistory
  <2>2. IsFiniteSet(Holders(h)) /\ o + c + k <= n
    BY DEF TokenInv
  <2>3. o \in Nat /\ c \in Nat /\ n \in Nat
    BY <2>1, CopiesFinite DEF Copies
  <2>4. IsFiniteSet(Holders(h)') /\ k2 \in Nat /\ k \in Nat /\ k2 <= k
    BY <1>2, <2>2, OtherMoves, FS_Subset, FS_CardinalityType
  <2>5. (c2 = c /\ n2 = n) \/ (c2 = c + 1 /\ n2 = n + 1)
    <3>1. CASE redeliver' = redeliver /\ count' = count
      BY <3>1 DEF Copies
    <3>2. ASSUME NEW j \in Handle, redeliver' = Append(redeliver, j), count' = [count EXCEPT ![j] = @ + 1]
          PROVE  (c2 = c /\ n2 = n) \/ (c2 = c + 1 /\ n2 = n + 1)
      <4>1. c2 = IF h = j THEN c + 1 ELSE c
        BY <2>1, <3>2, PushCopies DEF Copies
      <4>2. n2 = IF h = j THEN n + 1 ELSE n
        BY <2>1, <3>2
      <4> QED
        BY <4>1, <4>2
    <3> QED
      BY <1>2, <3>1, <3>2, OtherMoves
  <2>6. handouts'[h] = o
    BY <1>2, OtherMoves
  <2> HIDE DEF o, c, k, n, c2, k2, n2
  <2>7. o + c2 + k2 <= n2
    BY <2>2, <2>3, <2>4, <2>5
  <2> QED
    BY <2>4, <2>6, <2>7 DEF Chances, c2, k2, n2
<1> QED
  BY <1>1, <1>2

LEMMA TokenInit == Init => FreshInv /\ TokenInv
<1> SUFFICES ASSUME Init PROVE FreshInv /\ TokenInv
  OBVIOUS
<1>1. FreshInv
  BY DEF Init, FreshInv
<1>2. ASSUME NEW h \in Handle PROVE Copies(h) = {} /\ Holders(h) = {}
  BY HandleAssumption DEF Init, Copies, CopiesIn, Holders, Carries
<1>3. \A h \in Handle : handouts[h] = 0 /\ count[h] = 0
  BY DEF Init
<1> QED
  BY <1>1, <1>2, <1>3, FS_EmptySet DEF TokenInv

\* No interleaving of receives, reapers, parked copies, visibility changes and
\* crashes hands a receipt handle out more than MaxReceiveCount times, although
\* one handle may wait at several places of the redeliver list.
THEOREM HandoutsAreBounded == Spec => []HandoutsBounded
<1>1. HandleInv /\ FreshInv /\ TokenInv /\ [Next]_vars => (FreshInv /\ TokenInv)'
  BY FreshStep, TokenStep DEF HandleInv
<1>2. HandleInv /\ TokenInv => HandoutsBounded
  <2> SUFFICES ASSUME HandleInv, TokenInv, NEW h \in Handle PROVE handouts[h] <= MaxReceiveCount
    BY DEF HandoutsBounded
  <2> DEFINE c == Cardinality(Copies(h))
             k == Cardinality(Holders(h))
  <2>1. /\ redeliver \in Seq(Handle) /\ count[h] \in 0 .. MaxReceiveCount
        /\ handouts[h] \in Nat /\ MaxReceiveCount \in Nat
    BY CountAssumption DEF HandleInv, TypeOK, TypeRecords, TypeHistory
  <2>2. c \in Nat /\ k \in Nat /\ handouts[h] + c + k <= count[h]
    BY <2>1, CopiesFinite, FS_CardinalityType DEF TokenInv, Copies
  <2> HIDE DEF c, k
  <2> QED
    BY <2>1, <2>2
<1> QED
  BY <1>1, <1>2, TokenInit, HandleInvInvariant, PTL DEF Spec

-----------------------------------------------------------------------------
(* What can come back                                                      *)

\* A call that holds h at one of these steps puts it back on the list or in
\* vis_index.  At "lockFresh" it does not: it may hand h out as it is.
BringsBack == {"get", "lock", "pushback", "exists", "extend", "park"}
Brings(r, h) == rcur[r] = h /\ rpc[r] \in BringsBack

Listed(h) == \E i \in DOMAIN redeliver : redeliver[i] = h
Back(h) == h \in visIndex \/ Listed(h) \/ \E r \in Receiver : Brings(r, h)

\* Redeliverable is not inductive: a handle at "lockFresh" is held, and is
\* stranded by its own hand-out if its other copies were lost before.  Lost
\* counts it from the moment the last copy goes.
Lost == {h \in inflight : ~Back(h)}
LostInv == IsFiniteSet(Lost) /\ Cardinality(Lost) <= cancels + faults * Cardinality(Receiver)

LEMMA ListedPush ==
  ASSUME NEW s \in Seq(Handle), NEW k \in Handle
  PROVE  /\ \E i \in DOMAIN Append(s, k) : Append(s, k)[i] = k
         /\ \A h : (\E i \in DOMAIN s : s[i] = h) => \E i \in DOMAIN Append(s, k) : Append(s, k)[i] = h
<1> DEFINE u == Append(s, k)
<1>1. /\ Len(s) \in Nat /\ DOMAIN s = 1 .. Len(s) /\ DOMAIN u = 1 .. Len(s) + 1
      /\ u[Len(s) + 1] = k /\ \A i \in 1 .. Len(s) : u[i] = s[i]
  OBVIOUS
<1>2. Len(s) + 1 \in DOMAIN u /\ \A i \in DOMAIN s : i \in DOMAIN u
  BY <1>1
<1> HIDE DEF u
<1>3. /\ \E i \in DOMAIN u : u[i] = k
      /\ \A h : (\E i \in DOMAIN s : s[i] = h) => \E i \in DOMAIN u : u[i] = h
  BY <1>1, <1>2
<1> QED
  BY <1>3 DEF u

LEMMA ListedPop ==
  ASSUME NEW s \in Seq(Handle), s # <<>>, NEW h, \E i \in DOMAIN s : s[i] = h, h # Head(s)
  PROVE  \E i \in DOMAIN Tail(s) : Tail(s)[i] = h
<1> DEFINE u == Tail(s)
<1>1. PICK i \in DOMAIN s : s[i] = h
  OBVIOUS
<1>2. Len(s) \in Nat /\ i \in 2 .. Len(s) /\ DOMAIN u = 1 .. Len(s) - 1
  BY <1>1
<1>3. i - 1 \in DOMAIN u /\ u[i - 1] = h
  BY <1>1, <1>2
<1> QED
  BY <1>3

\* A step of a call that goes on brings back whatever it could bring back.
LEMMA ReceiverBack ==
  ASSUME TypeOK, NEW r \in Receiver, ReceiverNext(r), ~ReceiveFails(r),
         NEW h \in inflight, Back(h)
  PROVE  Back(h)'
<1>0. /\ rpc \in [Receiver -> ReceiverPc] /\ rcur \in [Receiver -> Handle \cup {NoHandle}]
      /\ redeliver \in Seq(Handle) /\ h \in Handle
  BY DEF TypeOK, TypeReceiver, TypeRecords
<1>1. visIndex \subseteq visIndex'
  BY DEF ReceiverNext, ReceiveStart, ReceiveStep, ReceiveFails, PopRedeliverable, GetInFlight,
     AcquireRedelivered, PushBack, ExtendExists, ExtendZAdd, Poll, AddPending, PutInFlight,
     AcquireFresh, Park, ReceiveReturn, ReceiveAgain, ZAddVisIndex
<1>2. CASE h \in visIndex
  BY <1>1, <1>2 DEF Back
<1>3. (PushBack(r) \/ Park(r)) => rcur[r] \in Handle
  BY DEF PushBack, Park, TypeOK, TypeReceiver, ReceiverHolds
<1>4. CASE Listed(h)
  <2>1. CASE redeliver' = redeliver
    BY <1>4, <2>1 DEF Back, Listed
  <2>2. CASE PushBack(r) \/ Park(r)
    <3>1. redeliver' = Append(redeliver, rcur[r])
      BY <2>2 DEF PushBack, Park, PushRedeliverable
    <3>2. Listed(h)'
      BY <1>0, <1>3, <1>4, <2>2, <3>1, ListedPush DEF Listed
    <3> QED
      BY <3>2 DEF Back
  <2>3. CASE PopRedeliverable(r) /\ redeliver # <<>>
    <3>1. /\ redeliver' = Tail(redeliver)
          /\ rcur' = [rcur EXCEPT ![r] = Head(redeliver)]
          /\ rpc' = [rpc EXCEPT ![r] = "get"]
      BY <2>3 DEF PopRedeliverable
    <3>2. CASE h = Head(redeliver)
      <4>1. Brings(r, h)'
        BY <1>0, <3>1, <3>2 DEF Brings, BringsBack
      <4> QED
        BY <4>1 DEF Back
    <3>3. CASE h # Head(redeliver)
      <4>1. Listed(h)'
        BY <1>0, <1>4, <2>3, <3>1, <3>3, ListedPop DEF Listed
      <4> QED
        BY <4>1 DEF Back
    <3> QED
      BY <3>2, <3>3
  <2>4. redeliver' = redeliver \/ PushBack(r) \/ Park(r) \/ (PopRedeliverable(r) /\ redeliver # <<>>)
    BY DEF ReceiverNext, ReceiveStart, ReceiveStep, ReceiveFails, PopRedeliverable, GetInFlight,
       AcquireRedelivered, ExtendExists, ExtendZAdd, Poll, AddPending, PutInFlight, AcquireFresh,
       ReceiveReturn, ReceiveAgain
  <2> QED
    BY <2>1, <2>2, <2>3, <2>4
<1>5. ASSUME NEW q \in Receiver, Brings(q, h) PROVE Back(h)'
  <2>1. CASE q # r
    <3>1. Brings(q, h)'
      BY <1>5, <2>1, OtherReceivers DEF Brings
    <3> QED
      BY <3>1 DEF Back
  <2>2. CASE q = r
    <3>0. rcur[r] = h /\ rpc[r] \in BringsBack
      BY <1>5, <2>2 DEF Brings
    <3>1. CASE PushBack(r) \/ Park(r)
      <4>1. redeliver' = Append(redeliver, h)
        BY <3>0, <3>1 DEF PushBack, Park, PushRedeliverable
      <4>2. Listed(h)'
        BY <1>0, <4>1, ListedPush DEF Listed
      <4> QED
        BY <4>2 DEF Back
    <3>2. CASE ExtendZAdd(r)
      BY <3>0, <3>2 DEF ExtendZAdd, ZAddVisIndex, Back
    <3>3. CASE GetInFlight(r) \/ AcquireRedelivered(r) \/ ExtendExists(r)
      <4>1. Brings(r, h)'
        BY <1>0, <3>0, <3>3 DEF GetInFlight, AcquireRedelivered, ExtendExists, Brings, BringsBack
      <4> QED
        BY <4>1 DEF Back
    <3> QED
      BY <3>0, <3>1, <3>2, <3>3 DEF BringsBack, ReceiverNext, ReceiveStart, ReceiveStep,
         PopRedeliverable, Poll, AddPending, PutInFlight, AcquireFresh, ReceiveReturn,
         ReceiveAgain, BatchDone
  <2> QED
    BY <2>1, <2>2
<1> QED
  BY <1>2, <1>4, <1>5 DEF Back

\* Only a call that fails and a replica that dies lose handles: the ones the
\* calls held.
LEMMA LostMoves ==
  ASSUME TypeOK, [Next]_vars
  PROVE  \/ Lost' \subseteq Lost
         \/ \E r \in Receiver : ReceiveFails(r) /\ Lost' \subseteq Lost \cup {rcur[r]}
         \/ \E R \in SUBSET Receiver : Crash(R) /\ Lost' \subseteq Lost \cup {rcur[r] : r \in R}
<1>0. /\ rpc \in [Receiver -> ReceiverPc] /\ rcur \in [Receiver -> Handle \cup {NoHandle}]
      /\ redeliver \in Seq(Handle) /\ inflight \subseteq Handle
  BY DEF TypeOK, TypeReceiver, TypeRecords
<1>1. ASSUME NEW r \in Receiver, ReceiverNext(r), ~ReceiveFails(r) PROVE Lost' \subseteq Lost
  <2>1. ASSUME NEW h \in inflight', h \notin inflight PROVE Back(h)'
    <3>1. PutInFlight(r)
      BY <1>1, <2>1 DEF ReceiverNext, ReceiveStart, ReceiveStep, PopRedeliverable, GetInFlight,
         AcquireRedelivered, PushBack, ExtendExists, ExtendZAdd, Poll, AddPending, AcquireFresh,
         Park, ReceiveReturn, ReceiveAgain
    <3> QED
      BY <2>1, <3>1 DEF PutInFlight, ZAddVisIndex, Back
  <2>2. \A h \in inflight : Back(h) => Back(h)'
    BY <1>1, ReceiverBack
  <2> QED
    BY <2>1, <2>2 DEF Lost
<1>2. ASSUME inflight' \subseteq inflight, UNCHANGED receiverVars,
             \A h \in inflight' : (h \in visIndex \/ Listed(h)) => (h \in visIndex' \/ Listed(h)')
      PROVE  Lost' \subseteq Lost
  BY <1>2 DEF Lost, Back, Brings
<1>3. redeliver' = redeliver => \A h : Listed(h)' <=> Listed(h)
  BY DEF Listed
<1>4. ASSUME NEW c \in Client, ClientNext(c) PROVE Lost' \subseteq Lost
  <2>1. UNCHANGED <<redeliver, receiverVars>>
    BY <1>4, ClientFrame
  <2>2. inflight' \subseteq inflight /\ \A h \in inflight' : h \in visIndex => h \in visIndex'
    BY <1>4 DEF ClientNext, DeleteStep, DeleteGet, DeleteAck, DeleteMin, DeleteWatermark,
       DeleteCommit, VisExists, VisZAdd, CallFails, AckScript, ZRemVisIndex, DelInFlight,
       ZAddVisIndex
  <2> QED
    BY <1>2, <1>3, <2>1, <2>2
<1>5. ASSUME NEW w \in Reaper, ReaperNext(w) PROVE Lost' \subseteq Lost
  <2>0. UNCHANGED receiverVars
    BY <1>5, ReaperFrame
  <2>1. CASE UNCHANGED <<inflight, visIndex, redeliver>>
    BY <1>2, <1>3, <2>0, <2>1
  <2>2. ASSUME NEW k, ReapGone(k) \/ ReapDLQ(k) PROVE Lost' \subseteq Lost
    <3>1. /\ inflight' \subseteq inflight /\ redeliver' = redeliver
          /\ \A h \in inflight' : h \in visIndex => h \in visIndex'
      BY <2>2 DEF ReapGone, ReapDLQ, ZRemVisIndex, DelInFlight
    <3> QED
      BY <1>2, <1>3, <2>0, <3>1
  <2>3. ASSUME NEW k, ReapRedeliver(k) PROVE Lost' \subseteq Lost
    <3>1. /\ inflight' = inflight /\ visIndex' = visIndex \ {k} /\ k \in Handle
          /\ redeliver' = Append(redeliver, k)
      BY <1>0, <2>3 DEF ReapRedeliver, ReapFound, ZRemVisIndex, PushRedeliverable
    <3>2. /\ \E i \in DOMAIN redeliver' : redeliver'[i] = k
          /\ \A h : (\E i \in DOMAIN redeliver : redeliver[i] = h)
                   => \E i \in DOMAIN redeliver' : redeliver'[i] = h
      <4>1. redeliver \in Seq(Handle) /\ k \in Handle
        BY <1>0, <3>1
      <4>2. /\ \E i \in DOMAIN Append(redeliver, k) : Append(redeliver, k)[i] = k
            /\ \A h : (\E i \in DOMAIN redeliver : redeliver[i] = h)
                     => \E i \in DOMAIN Append(redeliver, k) : Append(redeliver, k)[i] = h
        BY <4>1, ListedPush, Zenon
      <4> QED
        BY <3>1, <4>2, Zenon
    <3>3. Listed(k)' /\ \A h : Listed(h) => Listed(h)'
      BY <3>2, Zenon DEF Listed
    <3> QED
      BY <1>2, <2>0, <3>1, <3>3
  <2> QED
    BY <1>5, <2>1, <2>2, <2>3 DEF ReaperNext, SweepStep, Sweep, Reap, RouteToDLQ, SweepFails
<1>6. CASE Tick
  BY <1>2, <1>3, <1>6, TickFrame DEF Tick
<1>7. ASSUME NEW r \in Receiver, ReceiveFails(r) PROVE Lost' \subseteq Lost \cup {rcur[r]}
  <2>1. UNCHANGED <<inflight, visIndex, redeliver>>
    BY <1>7 DEF ReceiveFails
  <2>2. \A q \in Receiver : q # r => rpc'[q] = rpc[q] /\ rcur'[q] = rcur[q]
    BY <1>0, <1>7 DEF ReceiveFails, EndReceive
  <2>3. \A h : h # rcur[r] => \A q \in Receiver : Brings(q, h) => Brings(q, h)'
    BY <2>2 DEF Brings
  <2> QED
    BY <1>3, <2>1, <2>3 DEF Lost, Back
<1>8. ASSUME NEW R \in SUBSET Receiver, Crash(R)
      PROVE  Lost' \subseteq Lost \cup {rcur[r] : r \in R}
  <2>1. UNCHANGED <<inflight, visIndex, redeliver>>
    BY <1>8 DEF Crash
  <2>2. \A q \in Receiver : q \notin R => rpc'[q] = rpc[q] /\ rcur'[q] = rcur[q]
    BY <1>0, <1>8 DEF Crash
  <2>3. \A h : h \notin {rcur[r] : r \in R} => \A q \in Receiver : Brings(q, h) => Brings(q, h)'
    BY <2>2 DEF Brings
  <2> QED
    BY <1>3, <2>1, <2>3 DEF Lost, Back
<1>9. ASSUME NEW p \in Part, Rebalance(p) PROVE Lost' \subseteq Lost
  BY <1>2, <1>3, <1>9 DEF Rebalance
<1>10. ASSUME UNCHANGED vars PROVE Lost' \subseteq Lost
  BY <1>2, <1>3, <1>10 DEF vars
<1> QED
  <2> HIDE DEF kafkaVars, offsetVars, recordVars, lockVars, receiverVars, clientVars, reaperVars,
               historyVars, boundVars
  <2>1. CASE \E r \in Receiver : ReceiverNext(r)
    BY <1>1, <1>7, <2>1
  <2> QED
    BY <1>4, <1>5, <1>6, <1>8, <1>9, <1>10, <2>1 DEF Next

\* The two bounds only grow, and by one at a time.
LEMMA BoundsGrow ==
  ASSUME TypeOK, [Next]_vars
  PROVE  /\ cancels \in Nat /\ cancels' \in Nat /\ faults \in Nat /\ faults' \in Nat
         /\ cancels' = cancels \/ cancels' = cancels + 1
         /\ faults' = faults \/ faults' = faults + 1
<1>0. cancels \in Nat /\ faults \in Nat
  BY FaultAssumption DEF TypeOK, TypeHistory
<1>1. cancels' = cancels \/ cancels' = cancels + 1
  <2>1. ASSUME NEW r \in Receiver, ReceiverNext(r) PROVE cancels' = cancels \/ cancels' = cancels + 1
    BY <2>1 DEF ReceiverNext, ReceiveStart, ReceiveStep, ReceiveFails, PopRedeliverable,
       GetInFlight, AcquireRedelivered, PushBack, ExtendExists, ExtendZAdd, Poll, AddPending,
       PutInFlight, AcquireFresh, Park, ReceiveReturn, ReceiveAgain
  <2> QED
    BY <2>1, ClientFrame, ReaperFrame, TickFrame, MoveFrame DEF Next, vars
<1>2. faults' = faults \/ faults' = faults + 1
  <2>1. ASSUME NEW c \in Client, ClientNext(c) PROVE faults' = faults \/ faults' = faults + 1
    BY <2>1 DEF ClientNext, DeleteStep, DeleteGet, DeleteAck, DeleteMin, DeleteWatermark,
       DeleteCommit, VisExists, VisZAdd, CallFails
  <2>2. ASSUME NEW w \in Reaper, ReaperNext(w) PROVE faults' = faults \/ faults' = faults + 1
    BY <2>2 DEF ReaperNext, SweepStep, Sweep, Reap, RouteToDLQ, SweepFails
  <2> QED
    BY <2>1, <2>2, ReceiverFrame, TickFrame DEF Next, vars, Crash, Rebalance
<1> QED
  BY <1>0, <1>1, <1>2

LEMMA LostStep == ASSUME IsFiniteSet(Receiver), TypeOK, LostInv, [Next]_vars PROVE LostInv'
<1> DEFINE N == Cardinality(Receiver)
           S == Lost
           T == Lost'
           bound == cancels + faults * N
           bound2 == cancels' + faults' * N
<1>1. N \in Nat
  BY FS_CardinalityType
<1>2. IsFiniteSet(S) /\ Cardinality(S) \in Nat /\ Cardinality(S) <= bound
  BY FS_CardinalityType DEF LostInv
<1>3. /\ cancels \in Nat /\ cancels' \in Nat /\ faults \in Nat /\ faults' \in Nat
      /\ cancels' = cancels \/ cancels' = cancels + 1
      /\ faults' = faults \/ faults' = faults + 1
  BY BoundsGrow
<1>4. SUFFICES IsFiniteSet(T) /\ Cardinality(T) <= bound2
  BY DEF LostInv
<1> HIDE DEF N, S, T
<1>5. CASE T \subseteq S
  <2>1. IsFiniteSet(T) /\ Cardinality(T) \in Nat /\ Cardinality(T) <= Cardinality(S)
    BY <1>2, <1>5, FS_Subset, FS_CardinalityType
  <2>2. /\ faults * N \in Nat
        /\ (faults + 1) * N = faults * N + N
    BY <1>1, <1>3
  <2>3. faults' * N = faults * N \/ faults' * N = faults * N + N
    BY <1>3, <2>2
  <2> DEFINE m == faults * N
             m2 == faults' * N
  <2> HIDE DEF m, m2
  <2>4. m \in Nat /\ (m2 = m \/ m2 = m + N)
    BY <2>2, <2>3 DEF m, m2
  <2>5. cancels + m \in Nat /\ cancels' + m2 \in Nat /\ cancels + m <= cancels' + m2
    BY <1>1, <1>3, <2>4
  <2>6. bound \in Nat /\ bound2 \in Nat /\ bound <= bound2
    BY <2>5 DEF m, m2
  <2> HIDE DEF bound, bound2
  <2> QED
    BY <1>2, <2>1, <2>6
<1>6. ASSUME NEW r \in Receiver, ReceiveFails(r), T \subseteq S \cup {rcur[r]}
      PROVE  IsFiniteSet(T) /\ Cardinality(T) <= bound2
  <2>1. IsFiniteSet(S \cup {rcur[r]}) /\ Cardinality(S \cup {rcur[r]}) <= Cardinality(S) + 1
    <3>1. /\ IsFiniteSet(S \cup {rcur[r]})
          /\ Cardinality(S \cup {rcur[r]}) = IF rcur[r] \in S THEN Cardinality(S) ELSE Cardinality(S) + 1
      BY <1>2, FS_AddElement, Zenon
    <3> QED
      BY <1>2, <3>1
  <2>2. IsFiniteSet(T) /\ Cardinality(T) <= Cardinality(S \cup {rcur[r]})
    BY <1>6, <2>1, FS_Subset
  <2>3. Cardinality(T) \in Nat /\ Cardinality(S \cup {rcur[r]}) \in Nat
    BY <2>1, <2>2, FS_CardinalityType
  <2>4. cancels' = cancels + 1 /\ faults' = faults
    BY <1>6 DEF ReceiveFails
  <2>5. faults * N \in Nat
    BY <1>1, <1>3
  <2>6. Cardinality(T) <= Cardinality(S) + 1
    BY <1>2, <2>1, <2>2, <2>3
  <2>7. bound2 = bound + 1
    BY <1>3, <2>4, <2>5
  <2> QED
    BY <1>2, <1>3, <2>2, <2>3, <2>5, <2>6, <2>7
<1>7. ASSUME NEW R \in SUBSET Receiver, Crash(R), T \subseteq S \cup {rcur[r] : r \in R}
      PROVE  IsFiniteSet(T) /\ Cardinality(T) <= bound2
  <2> DEFINE X == {rcur[r] : r \in R}
             f == [r \in R |-> rcur[r]]
  <2>1. IsFiniteSet(R) /\ Cardinality(R) \in Nat /\ Cardinality(R) <= N
    BY FS_Subset, FS_CardinalityType DEF N
  <2>2. f \in Surjection(R, X)
    BY DEF Surjection
  <2>3. IsFiniteSet(X) /\ Cardinality(X) <= Cardinality(R)
    <3> HIDE DEF X, f
    <3> QED
      BY <2>1, <2>2, FS_Surjection
  <2>4. T \subseteq S \cup X
    BY <1>7
  <2> HIDE DEF X
  <2>5. /\ IsFiniteSet(S \cup X)
        /\ Cardinality(S \cup X) = Cardinality(S) + Cardinality(X) - Cardinality(S \cap X)
    BY <1>2, <2>3, FS_Union
  <2>6. IsFiniteSet(S \cap X)
    BY <2>3, FS_Subset
  <2>7. IsFiniteSet(T) /\ Cardinality(T) <= Cardinality(S \cup X)
    BY <2>4, <2>5, FS_Subset
  <2>8. /\ Cardinality(T) \in Nat /\ Cardinality(X) \in Nat
        /\ Cardinality(S \cup X) \in Nat /\ Cardinality(S \cap X) \in Nat
    BY <2>3, <2>5, <2>6, <2>7, FS_CardinalityType
  <2>9. Cardinality(T) <= Cardinality(S) + N
    BY <1>1, <1>2, <2>1, <2>3, <2>5, <2>7, <2>8
  <2>10. cancels' = cancels /\ faults' = faults + 1
    BY <1>7 DEF Crash
  <2>11. faults * N \in Nat /\ (faults + 1) * N = faults * N + N
    BY <1>1, <1>3
  <2>12. bound2 = bound + N /\ bound \in Nat
    BY <1>1, <1>3, <2>10, <2>11
  <2> HIDE DEF bound, bound2
  <2> QED
    BY <1>1, <1>2, <2>7, <2>8, <2>9, <2>12
<1> QED
  BY <1>5, <1>6, <1>7, LostMoves DEF S, T

\* A message that is in flight is in vis_index, on the redeliver list or held
\* by a call that will bring it back, but for at most one message per failed
\* ReceiveMessage call and one per call a dying replica was serving; reaps,
\* acks, visibility changes and parking never strand one by themselves.
THEOREM InFlightComesBack ==
  ASSUME IsFiniteSet(Receiver)
  PROVE  Spec => []Redeliverable
<1>1. Init => LostInv
  <2> SUFFICES ASSUME Init PROVE LostInv
    OBVIOUS
  <2>1. Lost = {} /\ cancels = 0 /\ faults = 0
    BY DEF Init, Lost
  <2>2. Cardinality(Receiver) \in Nat
    BY FS_CardinalityType
  <2> QED
    BY <2>1, <2>2, FS_EmptySet DEF LostInv
<1>2. HandleInv /\ LostInv /\ [Next]_vars => LostInv'
  BY LostStep DEF HandleInv
<1>3. HandleInv /\ LostInv => Redeliverable
  <2> SUFFICES ASSUME HandleInv, LostInv PROVE Redeliverable
    OBVIOUS
  <2>1. Stranded \in SUBSET Lost
    BY DEF Stranded, Lost, Back, Listed, Brings, Held
  <2>2. IsFiniteSet(Stranded) /\ Cardinality(Stranded) <= Cardinality(Lost)
    BY <2>1, FS_Subset DEF LostInv
  <2>3. Cardinality(Stranded) \in Nat /\ Cardinality(Lost) \in Nat /\ Cardinality(Receiver) \in Nat
    BY <2>2, FS_CardinalityType DEF LostInv
  <2>4. cancels \in Nat /\ faults \in Nat
    BY FaultAssumption DEF HandleInv, TypeOK, TypeHistory
  <2> DEFINE bound == cancels + faults * Cardinality(Receiver)
  <2>5. bound \in Nat /\ Cardinality(Lost) <= bound
    BY <2>3, <2>4 DEF LostInv
  <2> HIDE DEF bound
  <2>6. Cardinality(Stranded) <= bound
    BY <2>2, <2>3, <2>5
  <2> QED
    BY <2>6 DEF Redeliverable, bound
<1> QED
  BY <1>1, <1>2, <1>3, HandleInvInvariant, PTL DEF Spec
=============================================================================
