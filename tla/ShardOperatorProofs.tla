------------------------ MODULE ShardOperatorProofs -------------------------
(***************************************************************************)
(* Every shard map the operator publishes routes every key: proofs about   *)
(* ShardOperator for every value of its constants.                         *)
(*                                                                         *)
(* RouteTotal alone is not inductive: a map is written from the shards in  *)
(* the reconciler's memory, those come from whichever version of the Queue *)
(* the cache held, and each stored version was once in memory.  GoodShards *)
(* is what all of these lists have in common, and RouteInv says so of each *)
(* place a list can be in, together with what the two loops that change a  *)
(* list rely on: a split only ever replaces an active shard by two halves, *)
(* and a drain only ever closes a shard that was closing.                  *)
(*                                                                         *)
(* On top of it: how many shards a list can have (SmallInv), that the list *)
(* in memory is ahead of the version it came from (ForwardInv), and types. *)
(***************************************************************************)
EXTENDS ShardOperator, TLAPS, FiniteSetTheorems

ShardRec == [id : Int, start : Nat, end : Nat, phase : Phase, created : Nat]
ObjectRec == [uid : Nat, spec : Specs, deleting : BOOLEAN, finalizer : BOOLEAN,
              phase : {"Pending", "Ready", "Failed", "Gone"}, shards : Seq(ShardRec)]

\* A shard is an active owner of hash h.
Owns(s, h) == s.phase = "Active" /\ s.start <= h /\ h < s.end

\* Each hash has one owner, at one position of the list.
Tiles(q) ==
    \A h \in KeySpace :
        \E i \in DOMAIN q : Owns(q[i], h) /\ \A j \in DOMAIN q : Owns(q[j], h) => j = i

\* A list of shards: numbered from 0 in the order in which they were made, with
\* ranges that are not inverted, and empty or tiling the key space.
GoodShards(q) ==
    /\ q \in Seq(ShardRec)
    /\ \A i \in DOMAIN q : q[i].id = i - 1 /\ q[i].start <= q[i].end
    /\ q = <<>> \/ Tiles(q)

\* The loops that run over mem with index oi.
Loops == {"topics", "split", "drain", "deltopic"}

ObjectInv ==
    /\ versions \in Seq(ObjectRec) /\ versions # <<>>
    /\ \A k \in DOMAIN versions : GoodShards(versions[k].shards)
    /\ opc # "idle" => base \in ObjectRec /\ GoodShards(base.shards)

LoopInv ==
    /\ now \in Nat
    /\ GoodShards(mem)
    /\ opc \in {"idle", "finalizer"} => oi = 1
    /\ opc \in Loops => oi \in 1 .. Len(mem)
    /\ opc = "topics" => Len(mem) = ShardsAtStart
    /\ opc = "split" => oi <= ShardsAtStart /\ ShardsAtStart <= Len(mem)
    /\ opc \notin {"drain", "deltopic"} => drained = {}
    /\ \A i \in DOMAIN mem : mem[i].id \in drained => mem[i].phase # "Active"
    /\ opc = "deltopic" => mem[oi].phase = "Closing"

RouteInv == ObjectInv /\ LoopInv /\ RouteTotal

-----------------------------------------------------------------------------
(* Lists of shards                                                         *)

\* SplitHashRange returns a point of the range it splits.
LEMMA SplitInRange ==
    ASSUME NEW s \in ShardRec, s.start <= s.end
    PROVE  SplitHashRange(s) \in Nat /\ s.start <= SplitHashRange(s) /\ SplitHashRange(s) <= s.end
<1> DEFINE d == s.end - s.start
<1>1. d \in Nat /\ s.start \in Nat /\ s.end \in Nat
  BY DEF ShardRec
<1>2. d \div 2 \in Nat /\ d \div 2 <= d
  BY <1>1, Z3
<1>3. SplitHashRange(s) = s.start + d \div 2
  BY DEF SplitHashRange
<1> HIDE DEF d
<1>4. s.end = s.start + d
  BY <1>1 DEF d
<1> QED BY <1>1, <1>2, <1>3, <1>4

\* nextShardID continues the numbering.
LEMMA NextShardIDIsLen ==
    ASSUME NEW q, GoodShards(q)
    PROVE  NextShardID(q) = Len(q)
<1> DEFINE S == {q[i].id : i \in DOMAIN q} \cup {-1}
<1>1. q \in Seq(ShardRec) /\ \A i \in DOMAIN q : q[i].id = i - 1
  BY DEF GoodShards
<1>2. Len(q) \in Nat /\ DOMAIN q = 1 .. Len(q)
  BY <1>1
<1>3. S = {i - 1 : i \in 1 .. Len(q)} \cup {-1}
  BY <1>1, <1>2
<1>4. Len(q) - 1 \in S /\ \A y \in S : y \in Int /\ Len(q) - 1 >= y
  <2>1. CASE Len(q) = 0
    BY <1>2, <1>3, <2>1
  <2>2. CASE Len(q) # 0
    <3>1. Len(q) \in 1 .. Len(q)
      BY <1>2, <2>2
    <3>2. \A y \in S : y = -1 \/ \E i \in 1 .. Len(q) : y = i - 1
      BY <1>3
    <3>3. Len(q) - 1 \in {i - 1 : i \in 1 .. Len(q)}
      BY <3>1
    <3>4. \A y \in S : y \in Int /\ Len(q) - 1 >= y
      BY <1>2, <2>2, <3>2
    <3> QED BY <1>3, <3>3, <3>4
  <2> QED BY <2>1, <2>2
<1> HIDE DEF S
<1>5. \A x \in S : (\A y \in S : x >= y) => x = Len(q) - 1
  BY <1>2, <1>4
<1>6. Max(S) = Len(q) - 1
  BY <1>2, <1>4, <1>5 DEF Max
<1>7. NextShardID(q) = Max(S) + 1
  BY DEF NextShardID, S
<1> QED BY <1>2, <1>6, <1>7

\* The list after a split: the parent closing, and its children at the end.
LEMMA SplitShape ==
    ASSUME NEW q, GoodShards(q), now \in Nat, NEW i \in DOMAIN q
    PROVE  /\ Split(q, i) \in Seq(ShardRec) /\ Len(Split(q, i)) = Len(q) + 2
           /\ Len(q) \in Nat /\ DOMAIN q = 1 .. Len(q)
           /\ DOMAIN Split(q, i) = 1 .. Len(q) + 2
           /\ \A j \in 1 .. Len(q) :
                 Split(q, i)[j] = IF j = i THEN [q[i] EXCEPT !.phase = "Closing"] ELSE q[j]
           /\ Split(q, i)[Len(q) + 1] = NewShard(Len(q), q[i].start, SplitHashRange(q[i]))
           /\ Split(q, i)[Len(q) + 2] = NewShard(Len(q) + 1, SplitHashRange(q[i]), q[i].end)
           /\ q[i] \in ShardRec /\ q[i].start \in Nat /\ q[i].end \in Nat
           /\ SplitHashRange(q[i]) \in Nat
           /\ q[i].start <= SplitHashRange(q[i]) /\ SplitHashRange(q[i]) <= q[i].end
<1> DEFINE mid == SplitHashRange(q[i])
           n   == Len(q)
           P   == [q[i] EXCEPT !.phase = "Closing"]
           A   == NewShard(n, q[i].start, mid)
           B   == NewShard(n + 1, mid, q[i].end)
           u   == Split(q, i)
<1>1. q \in Seq(ShardRec) /\ n \in Nat /\ DOMAIN q = 1 .. n /\ i \in 1 .. n
  BY DEF GoodShards
<1>2. q[i] \in ShardRec /\ q[i].start \in Nat /\ q[i].end \in Nat /\ q[i].start <= q[i].end
  <2>1. q[i] \in ShardRec
    BY <1>1
  <2>2. q[i].start <= q[i].end
    BY DEF GoodShards
  <2> QED BY <2>1, <2>2 DEF ShardRec
<1>3. mid \in Nat /\ q[i].start <= mid /\ mid <= q[i].end
  BY <1>2, SplitInRange
<1>4. P \in ShardRec
  BY <1>2 DEF ShardRec, Phase
<1>5. A \in ShardRec /\ B \in ShardRec
  BY <1>1, <1>2, <1>3 DEF NewShard, ShardRec, Phase
<1>6. u = [q EXCEPT ![i] = P] \o <<A, B>>
  BY NextShardIDIsLen DEF Split
<1> HIDE DEF P, A, B
<1>7. [q EXCEPT ![i] = P] \in Seq(ShardRec) /\ Len([q EXCEPT ![i] = P]) = n
  BY <1>1, <1>4
<1>8. /\ u \in Seq(ShardRec) /\ Len(u) = n + 2 /\ DOMAIN u = 1 .. n + 2
      /\ \A j \in 1 .. n : u[j] = IF j = i THEN P ELSE q[j]
      /\ u[n + 1] = A /\ u[n + 2] = B
  BY <1>1, <1>5, <1>6, <1>7
<1> QED BY <1>1, <1>2, <1>3, <1>8 DEF P, A, B

\* A split of an active shard leaves the key space tiled.
LEMMA SplitGood ==
    ASSUME NEW q, GoodShards(q), now \in Nat, NEW i \in DOMAIN q, q[i].phase = "Active"
    PROVE  GoodShards(Split(q, i)) /\ Len(Split(q, i)) = Len(q) + 2
<1> DEFINE mid == SplitHashRange(q[i])
           n   == Len(q)
           P   == [q[i] EXCEPT !.phase = "Closing"]
           A   == NewShard(n, q[i].start, mid)
           B   == NewShard(n + 1, mid, q[i].end)
           u   == Split(q, i)
<1>1. n \in Nat /\ DOMAIN q = 1 .. n /\ i \in 1 .. n
  BY SplitShape
<1>2. q[i] \in ShardRec /\ q[i].start \in Nat /\ q[i].end \in Nat /\ q[i].start <= q[i].end
  BY SplitShape DEF GoodShards
<1>3. mid \in Nat /\ q[i].start <= mid /\ mid <= q[i].end
  BY SplitShape
<1>4. P.id = q[i].id /\ P.start = q[i].start /\ P.end = q[i].end /\ P.phase = "Closing"
  BY <1>2 DEF ShardRec
<1>5. A.id = n /\ A.start = q[i].start /\ A.end = mid /\ A.phase = "Active"
      /\ B.id = n + 1 /\ B.start = mid /\ B.end = q[i].end /\ B.phase = "Active"
  BY DEF NewShard
<1>6. /\ u \in Seq(ShardRec) /\ Len(u) = n + 2 /\ DOMAIN u = 1 .. n + 2
      /\ \A j \in 1 .. n : u[j] = IF j = i THEN P ELSE q[j]
      /\ u[n + 1] = A /\ u[n + 2] = B
  BY SplitShape
<1> HIDE DEF P, A, B, mid, u
<1>7. \A j \in 1 .. n + 2 : u[j].id = j - 1 /\ u[j].start <= u[j].end
  <2> TAKE j \in 1 .. n + 2
  <2>1. CASE j \in 1 .. n
    BY <1>1, <1>2, <1>4, <1>6, <2>1 DEF GoodShards
  <2>2. CASE j = n + 1
    BY <1>1, <1>3, <1>5, <1>6, <2>2
  <2>3. CASE j = n + 2
    BY <1>1, <1>3, <1>5, <1>6, <2>3
  <2> QED BY <1>1, <2>1, <2>2, <2>3
<1>8. Tiles(u)
  <2> SUFFICES ASSUME NEW h \in KeySpace
               PROVE  \E k \in 1 .. n + 2 : /\ Owns(u[k], h)
                                            /\ \A j \in 1 .. n + 2 : Owns(u[j], h) => j = k
    BY <1>6 DEF Tiles
  <2>1. h \in Int
    BY DEF KeySpace
  <2>2. Tiles(q)
    BY <1>1 DEF GoodShards
  <2>3. PICK k \in 1 .. n : Owns(q[k], h) /\ \A j \in 1 .. n : Owns(q[j], h) => j = k
    BY <1>1, <2>2 DEF Tiles
  <2>4. \A j \in 1 .. n : Owns(u[j], h) <=> j # i /\ Owns(q[j], h)
    BY <1>1, <1>4, <1>6 DEF Owns
  <2>5. Owns(q[i], h) <=> q[i].start <= h /\ h < q[i].end
    BY DEF Owns
  <2>6. Owns(u[n + 1], h) <=> q[i].start <= h /\ h < mid
    BY <1>5, <1>6 DEF Owns
  <2>7. Owns(u[n + 2], h) <=> mid <= h /\ h < q[i].end
    BY <1>5, <1>6 DEF Owns
  <2>8. CASE k # i
    <3>1. ~Owns(q[i], h)
      BY <1>1, <2>3, <2>8
    <3>2. ~Owns(u[n + 1], h) /\ ~Owns(u[n + 2], h)
      BY <1>2, <1>3, <2>1, <2>5, <2>6, <2>7, <3>1
    <3>3. Owns(u[k], h) /\ \A j \in 1 .. n : Owns(u[j], h) => j = k
      BY <2>3, <2>4, <2>8
    <3>4. \A j \in 1 .. n + 2 : j \in 1 .. n \/ j = n + 1 \/ j = n + 2
      BY <1>1
    <3>5. \A j \in 1 .. n + 2 : Owns(u[j], h) => j = k
      BY <3>2, <3>3, <3>4
    <3>6. k \in 1 .. n + 2
      BY <1>1
    <3> QED BY <3>3, <3>5, <3>6
  <2>9. CASE k = i
    <3>1. q[i].start <= h /\ h < q[i].end
      BY <2>3, <2>5, <2>9
    <3>2. \A j \in 1 .. n : ~Owns(u[j], h)
      BY <2>3, <2>4, <2>9
    <3>3. \A j \in 1 .. n + 2 : j \in 1 .. n \/ j = n + 1 \/ j = n + 2
      BY <1>1
    <3>4. CASE h < mid
      <4>1. Owns(u[n + 1], h) /\ ~Owns(u[n + 2], h)
        BY <1>3, <2>1, <2>6, <2>7, <3>1, <3>4
      <4> QED BY <1>1, <3>2, <3>3, <4>1
    <3>5. CASE ~(h < mid)
      <4>1. ~Owns(u[n + 1], h) /\ Owns(u[n + 2], h)
        BY <1>3, <2>1, <2>6, <2>7, <3>1, <3>5
      <4>2. n + 2 \in 1 .. n + 2
        BY <1>1
      <4>3. \A j \in 1 .. n + 2 : Owns(u[j], h) => j = n + 2
        BY <3>2, <3>3, <4>1
      <4> QED BY <4>1, <4>2, <4>3
    <3> QED BY <3>4, <3>5
  <2> QED BY <2>8, <2>9
<1>9. GoodShards(u) /\ Len(u) = n + 2
  BY <1>6, <1>7, <1>8 DEF GoodShards
<1> QED BY <1>9 DEF u

\* Closing shards may be closed: they own nothing.
LEMMA CloseGood ==
    ASSUME NEW q, GoodShards(q), NEW D, \A i \in DOMAIN q : q[i].id \in D => q[i].phase # "Active"
    PROVE  GoodShards(Close(q, D)) /\ Len(Close(q, D)) = Len(q)
<1> DEFINE u == Close(q, D)
<1>1. q \in Seq(ShardRec) /\ Len(q) \in Nat /\ DOMAIN q = 1 .. Len(q)
  BY DEF GoodShards
<1>2. \A i \in DOMAIN q : /\ u[i] \in ShardRec
                          /\ u[i].id = q[i].id /\ u[i].start = q[i].start /\ u[i].end = q[i].end
                          /\ u[i].phase = "Active" <=> q[i].phase = "Active"
  <2> SUFFICES ASSUME NEW i \in DOMAIN q
               PROVE  /\ u[i] \in ShardRec
                      /\ u[i].id = q[i].id /\ u[i].start = q[i].start /\ u[i].end = q[i].end
                      /\ u[i].phase = "Active" <=> q[i].phase = "Active"
    OBVIOUS
  <2>1. q[i] \in ShardRec
    BY <1>1
  <2>2. CASE q[i].id \in D
    <3>1. u[i] = [q[i] EXCEPT !.phase = "Closed"]
      BY <2>2 DEF Close
    <3>2. q[i].phase # "Active"
      BY <2>2
    <3> HIDE DEF u
    <3> QED BY <2>1, <3>1, <3>2 DEF ShardRec, Phase
  <2>3. CASE q[i].id \notin D
    <3>1. u[i] = q[i]
      BY <2>3 DEF Close
    <3> QED BY <2>1, <3>1
  <2> QED BY <2>2, <2>3
<1>3. DOMAIN u = DOMAIN q
  BY DEF Close
<1>4. u = [i \in 1 .. Len(q) |-> u[i]]
  BY <1>1 DEF Close
<1> HIDE DEF u
<1>5. u \in Seq(ShardRec) /\ Len(u) = Len(q)
  BY <1>1, <1>2, <1>3, <1>4
<1>6. \A i \in DOMAIN u : u[i].id = i - 1 /\ u[i].start <= u[i].end
  BY <1>2, <1>3 DEF GoodShards
<1>7. u = <<>> \/ Tiles(u)
  <2>1. CASE q = <<>>
    BY <1>1, <1>5, <2>1
  <2>2. CASE Tiles(q)
    <3>1. \A i \in DOMAIN q, h \in KeySpace : Owns(u[i], h) <=> Owns(q[i], h)
      BY <1>2 DEF Owns
    <3> QED BY <1>3, <2>2, <3>1 DEF Tiles
  <2> QED BY <2>1, <2>2 DEF GoodShards
<1> QED BY <1>5, <1>6, <1>7 DEF GoodShards, u

\* The first shard owns every key.
LEMMA InitialGood ==
    ASSUME NEW q, GoodShards(q), now \in Nat
    PROVE  /\ GoodShards(InitialShards(q))
           /\ Len(InitialShards(q)) = IF q = <<>> THEN 1 ELSE Len(q)
           /\ Len(InitialShards(q)) \in Nat \ {0}
<1>1. CASE q # <<>>
  <2>1. InitialShards(q) = q /\ Len(q) \in Nat /\ Len(q) # 0
    BY <1>1 DEF InitialShards, GoodShards
  <2> QED BY <1>1, <2>1
<1>2. CASE q = <<>>
  <2> DEFINE s == NewShard(0, 0, FullHashRangeEnd)
  <2>1. s \in ShardRec /\ s.id = 0 /\ s.start = 0 /\ s.end = FullHashRangeEnd /\ s.phase = "Active"
    BY RangeAssumption DEF NewShard, ShardRec, Phase
  <2>2. InitialShards(q) = <<s>>
    BY <1>2 DEF InitialShards
  <2> HIDE DEF s
  <2>3. \A h \in KeySpace : Owns(s, h)
    BY <2>1, RangeAssumption DEF Owns, KeySpace
  <2>4. Tiles(<<s>>)
    BY <2>3 DEF Tiles
  <2>5. <<s>> \in Seq(ShardRec) /\ Len(<<s>>) = 1 /\ DOMAIN <<s>> = {1} /\ <<s>>[1] = s
    BY <2>1
  <2>6. \A i \in DOMAIN <<s>> : <<s>>[i].id = i - 1 /\ <<s>>[i].start <= <<s>>[i].end
    BY <2>1, <2>5, RangeAssumption
  <2>7. GoodShards(<<s>>)
    BY <2>4, <2>5, <2>6 DEF GoodShards
  <2> QED BY <1>2, <2>2, <2>5, <2>7
<1> QED BY <1>1, <1>2

\* What is published from a good list routes every key to one shard.
LEMMA PublishedRoutes ==
    ASSUME NEW q, GoodShards(q), Published(q) # {}, NEW h \in KeySpace
    PROVE  \E s \in Published(q) : Owners(Published(q), h) = {s}
<1>1. Tiles(q)
  BY DEF GoodShards, Published
<1>2. PICK i \in DOMAIN q : Owns(q[i], h) /\ \A j \in DOMAIN q : Owns(q[j], h) => j = i
  BY <1>1 DEF Tiles
<1>3. q[i] \in Published(q)
  BY <1>2 DEF Published, Owns
<1>4. \A s \in Published(q) : Owns(s, h) <=> s = q[i]
  BY <1>2 DEF Published
<1> QED BY <1>3, <1>4 DEF Owners, Owns

-----------------------------------------------------------------------------
(* The invariant                                                           *)

\* The Queue starts without shards and unpublished.
LEMMA InitRoutes == Init => RouteInv
<1> SUFFICES ASSUME Init PROVE RouteInv
  OBVIOUS
<1>1. PICK spec \in Specs : versions = <<NewObject(1, spec)>>
  BY DEF Init
<1>2. NewObject(1, spec) \in ObjectRec /\ NewObject(1, spec).shards = <<>>
  BY <1>1 DEF NewObject, Bare, ObjectRec
<1>3. GoodShards(<<>>)
  BY DEF GoodShards
<1>4. ObjectInv
  <2> DEFINE o == NewObject(1, spec)
  <2> HIDE DEF o
  <2>1. <<o>> \in Seq(ObjectRec) /\ <<o>> # <<>> /\ DOMAIN <<o>> = {1} /\ <<o>>[1] = o
    BY <1>2 DEF o
  <2>2. opc = "idle"
    BY DEF Init
  <2> QED BY <1>1, <1>2, <1>3, <2>1, <2>2 DEF ObjectInv, o
<1>5. LoopInv
  BY <1>3 DEF Init, LoopInv, Loops
<1>6. RouteTotal
  BY DEF Init, RouteTotal
<1> QED BY <1>4, <1>5, <1>6 DEF RouteInv

\* A good object may be stored.
LEMMA StoreGood ==
    ASSUME ObjectInv, NEW o \in ObjectRec, GoodShards(o.shards), Store(o)
    PROVE  /\ versions' \in Seq(ObjectRec) /\ versions' # <<>>
           /\ \A k \in DOMAIN versions' : GoodShards(versions'[k].shards)
<1>1. CASE versions' = versions
  BY <1>1 DEF ObjectInv
<1>2. CASE versions' = Append(versions, o)
  <2>1. versions \in Seq(ObjectRec) /\ Len(versions) \in Nat
    BY DEF ObjectInv
  <2>2. /\ versions' \in Seq(ObjectRec)
        /\ DOMAIN versions' = 1 .. Len(versions) + 1
        /\ \A k \in 1 .. Len(versions) : versions'[k] = versions[k]
        /\ versions'[Len(versions) + 1] = o
    BY <1>2, <2>1
  <2>3. \A k \in 1 .. Len(versions) + 1 : k \in DOMAIN versions \/ k = Len(versions) + 1
    BY <2>1
  <2>4. \A k \in DOMAIN versions' : GoodShards(versions'[k].shards)
    BY <2>1, <2>2, <2>3 DEF ObjectInv
  <2>5. versions' # <<>>
    BY <2>1, <2>2
  <2> QED BY <2>2, <2>4, <2>5
<1> QED BY <1>1, <1>2 DEF Store

\* An object that is gone has no shards.
LEMMA TombstoneGood ==
    ASSUME NEW o \in ObjectRec
    PROVE  Tombstone(o) \in ObjectRec /\ Tombstone(o).shards = <<>>
BY DEF ObjectRec, Tombstone, Bare

\* The stored and the cached version are good objects.
LEMMA EndsGood ==
    ASSUME ObjectInv
    PROVE  /\ Stored \in ObjectRec /\ GoodShards(Stored.shards)
           /\ Cached \in ObjectRec /\ GoodShards(Cached.shards)
<1>1. Len(versions) \in DOMAIN versions /\ 1 \in DOMAIN versions
  BY DEF ObjectInv
<1> QED BY <1>1 DEF ObjectInv, Stored, Cached

\* The empty list is good, and so is the state Reconcile returns in.
LEMMA ReturnGood ==
    ASSUME NEW f, LoopInv, Return(f), now' = now
    PROVE  LoopInv' /\ opc' = "idle"
<1>1. GoodShards(<<>>)
  BY DEF GoodShards
<1> QED BY <1>1 DEF LoopInv, Return, Loops

\* A step that leaves the object versions and the base alone.
LEMMA ObjectSame ==
    ASSUME ObjectInv, UNCHANGED <<versions, base>>, opc = "idle" => opc' = "idle"
    PROVE  ObjectInv'
BY DEF ObjectInv

\* Every step of the reconciler up to publication.
LEMMA ReconcileRoutes ==
    ASSUME RouteInv, Reconcile
    PROVE  RouteInv'
<1> USE DEF RouteInv
<1>1. CASE ReconcileIgnored
  BY <1>1 DEF ReconcileIgnored, ReconcileStart, ObjectInv, LoopInv, RouteTotal, Owners,
              objectVars, redisVars, kafkaVars, ShardsAtStart, Loops
<1>2. CASE ReconcileBegin
  <2>1. /\ opc = "idle" /\ versions' = versions /\ shardmap' = shardmap /\ now' = now
        /\ drained' = drained /\ oi' = oi /\ base' = Cached /\ opc' = FirstStep(Cached)
        /\ mem' = IF opc' = "topics" THEN InitialShards(Cached.shards) ELSE Cached.shards
    BY <1>2 DEF ReconcileBegin, ReconcileStart, objectVars, redisVars
  <2>2. Cached \in ObjectRec /\ GoodShards(Cached.shards)
    BY EndsGood
  <2>3. ObjectInv'
    BY <2>1, <2>2 DEF ObjectInv
  <2>4. LoopInv'
    <3>1. drained = {}
      BY <2>1 DEF LoopInv
    <3>2. opc' \in {"delmeta", "delete", "failed", "finalizer", "topics"}
      BY <2>1 DEF FirstStep
    <3>3. CASE opc' = "topics"
      <4>1. /\ GoodShards(mem') /\ Len(mem') \in Nat \ {0}
            /\ Len(mem') = IF Cached.shards = <<>> THEN 1 ELSE Len(Cached.shards)
        BY <2>1, <2>2, <3>3, InitialGood DEF LoopInv
      <4>2. oi = 1
        BY <2>1 DEF LoopInv
      <4> QED BY <2>1, <3>1, <3>3, <4>1, <4>2 DEF LoopInv, ShardsAtStart, Loops
    <3>4. CASE opc' # "topics"
      BY <2>1, <2>2, <3>1, <3>2, <3>4 DEF LoopInv, Loops
    <3> QED BY <3>3, <3>4
  <2>5. RouteTotal'
    BY <2>1 DEF RouteTotal, Owners
  <2> QED BY <2>3, <2>4, <2>5
<1>3. CASE AddFinalizer
  <2>1. /\ opc = "finalizer" /\ now' = now /\ shardmap' = shardmap
        /\ base \in ObjectRec /\ GoodShards(base.shards)
    BY <1>3 DEF AddFinalizer, ObjectInv, redisVars
  <2>2. CASE Return(TRUE) /\ versions' = versions
    <3>1. LoopInv' /\ opc' = "idle"
      BY <2>1, <2>2, ReturnGood
    <3>2. ObjectInv'
      BY <2>2, <3>1 DEF ObjectInv
    <3> QED BY <2>1, <3>1, <3>2 DEF RouteTotal, Owners
  <2>3. CASE /\ base' = [base EXCEPT !.finalizer = TRUE] /\ Store(base') /\ opc' = "topics"
             /\ mem' = InitialShards(base.shards) /\ UNCHANGED <<queued, oi, drained, sampled>>
    <3>1. base' \in ObjectRec /\ base'.shards = base.shards
      BY <2>1, <2>3 DEF ObjectRec
    <3>2. ObjectInv'
      BY <2>1, <2>3, <3>1, StoreGood DEF ObjectInv
    <3>3. drained = {} /\ oi = 1 /\ now \in Nat
      BY <2>1 DEF LoopInv
    <3>4. /\ GoodShards(mem') /\ Len(mem') \in Nat \ {0}
          /\ Len(mem') = IF base.shards = <<>> THEN 1 ELSE Len(base.shards)
      BY <2>1, <2>3, <3>3, InitialGood
    <3>5. LoopInv'
      BY <2>1, <2>3, <3>1, <3>3, <3>4 DEF LoopInv, ShardsAtStart, Loops
    <3> QED BY <2>1, <3>2, <3>5 DEF RouteTotal, Owners
  <2> QED BY <1>3, <2>2, <2>3 DEF AddFinalizer
<1>4. CASE EnsureTopic
  <2>1. /\ opc = "topics" /\ UNCHANGED <<versions, base, shardmap, mem, drained, now>>
        /\ NextShard(Len(mem), "split")
    BY <1>4 DEF EnsureTopic, objectVars, redisVars
  <2>2. mem \in Seq(ShardRec) /\ Len(mem) \in Nat
    BY DEF LoopInv, GoodShards
  <2>3. oi \in 1 .. Len(mem) /\ Len(mem) = ShardsAtStart /\ drained = {}
    BY <2>1 DEF LoopInv, Loops
  <2>4. ObjectInv'
    BY <2>1 DEF ObjectInv
  <2>5. LoopInv'
    BY <2>1, <2>2, <2>3 DEF LoopInv, ShardsAtStart, Loops, NextShard
  <2> QED BY <2>1, <2>4, <2>5 DEF RouteTotal, Owners
<1>5. CASE SampleShard
  <2>1. /\ opc = "split" /\ UNCHANGED <<versions, base, shardmap, mem, drained, now>>
        /\ NextShard(ShardsAtStart, "drain")
    BY <1>5 DEF SampleShard, objectVars, redisVars
  <2>2. mem \in Seq(ShardRec) /\ Len(mem) \in Nat
    BY DEF LoopInv, GoodShards
  <2>3. /\ oi \in 1 .. Len(mem) /\ drained = {} /\ ShardsAtStart \in Nat
        /\ oi <= ShardsAtStart /\ ShardsAtStart <= Len(mem)
    BY <2>1 DEF LoopInv, Loops, ObjectInv, ShardsAtStart, ObjectRec
  <2>4. ObjectInv'
    BY <2>1 DEF ObjectInv
  <2>5. LoopInv'
    BY <2>1, <2>2, <2>3 DEF LoopInv, ShardsAtStart, Loops, NextShard
  <2> QED BY <2>1, <2>4, <2>5 DEF RouteTotal, Owners
<1>6. CASE StopSplitting
  <2>1. /\ opc = "split" /\ UNCHANGED <<versions, base, shardmap, mem, drained, now>>
        /\ opc' = "drain" /\ oi' = 1
    BY <1>6 DEF StopSplitting, Goto, objectVars, redisVars
  <2>2. mem \in Seq(ShardRec) /\ Len(mem) \in Nat /\ oi \in 1 .. Len(mem)
    BY <2>1 DEF LoopInv, GoodShards, Loops
  <2>3. ObjectInv'
    BY <2>1 DEF ObjectInv
  <2>4. LoopInv'
    BY <2>1, <2>2 DEF LoopInv, Loops
  <2> QED BY <2>1, <2>3, <2>4 DEF RouteTotal, Owners
<1>7. CASE SplitShard
  <2>1. /\ opc = "split" /\ UNCHANGED <<versions, base, shardmap, drained, now>>
        /\ NextShard(ShardsAtStart, "drain")
        /\ mem[oi].phase = "Active" /\ mem' = Split(mem, oi)
    BY <1>7 DEF SplitShard, Sampleable, objectVars, redisVars
  <2>2. GoodShards(mem) /\ now \in Nat /\ Len(mem) \in Nat /\ DOMAIN mem = 1 .. Len(mem)
    BY DEF LoopInv, GoodShards
  <2>3. /\ oi \in 1 .. Len(mem) /\ drained = {} /\ ShardsAtStart \in Nat
        /\ oi <= ShardsAtStart /\ ShardsAtStart <= Len(mem)
    BY <2>1 DEF LoopInv, Loops, ObjectInv, ShardsAtStart, ObjectRec
  <2>4. GoodShards(mem') /\ Len(mem') = Len(mem) + 2
    BY <2>1, <2>2, <2>3, SplitGood
  <2>5. ObjectInv'
    BY <2>1 DEF ObjectInv
  <2>6. LoopInv'
    BY <2>1, <2>2, <2>3, <2>4 DEF LoopInv, ShardsAtStart, Loops, NextShard
  <2> QED BY <2>1, <2>5, <2>6 DEF RouteTotal, Owners
<1>8. CASE CheckLag
  <2>1. /\ opc = "drain" /\ UNCHANGED <<versions, base, shardmap, now>>
    BY <1>8 DEF CheckLag, objectVars, redisVars
  <2>2. /\ GoodShards(mem) /\ Len(mem) \in Nat /\ oi \in 1 .. Len(mem)
        /\ \A i \in DOMAIN mem : mem[i].id \in drained => mem[i].phase # "Active"
    BY <2>1 DEF LoopInv, GoodShards, Loops
  <2>3. ObjectInv'
    BY <2>1 DEF ObjectInv
  <2>4. CASE NextDrain(drained)
    <3>1. ASSUME oi < Len(mem) PROVE LoopInv'
      BY <2>1, <2>2, <2>4, <3>1 DEF NextDrain, NextShard, LoopInv, Loops
    <3>2. ASSUME ~(oi < Len(mem)) PROVE LoopInv'
      <4>1. opc' = "meta" /\ drained' = {} /\ mem' = Close(mem, drained)
        BY <2>4, <3>2 DEF NextDrain, NextShard
      <4>2. GoodShards(mem')
        BY <2>2, <4>1, CloseGood
      <4> QED BY <2>1, <4>1, <4>2 DEF LoopInv, Loops
    <3>3. LoopInv'
      BY <3>1, <3>2
    <3> QED BY <2>1, <2>3, <3>3 DEF RouteTotal, Owners
  <2>5. CASE opc' = "deltopic" /\ mem[oi].phase = "Closing" /\ UNCHANGED <<mem, oi, drained>>
    <3>1. LoopInv'
      BY <2>1, <2>2, <2>5 DEF LoopInv, Loops
    <3> QED BY <2>1, <2>3, <3>1 DEF RouteTotal, Owners
  <2> QED BY <1>8, <2>4, <2>5 DEF CheckLag
<1>9. CASE DeleteDrained
  <2>1. /\ opc = "deltopic" /\ UNCHANGED <<versions, base, shardmap, now>>
    BY <1>9 DEF DeleteDrained, objectVars, redisVars
  <2>2. /\ GoodShards(mem) /\ Len(mem) \in Nat /\ oi \in 1 .. Len(mem)
        /\ DOMAIN mem = 1 .. Len(mem) /\ mem[oi].phase = "Closing"
    BY <2>1 DEF LoopInv, GoodShards, Loops
  <2>3. \A i \in DOMAIN mem : mem[i].id \in drained \cup {mem[oi].id} => mem[i].phase # "Active"
    <3>1. \A i \in DOMAIN mem : mem[i].id = mem[oi].id => i = oi
      BY <2>2 DEF GoodShards
    <3> QED BY <2>2, <3>1 DEF LoopInv
  <2>4. ObjectInv'
    BY <2>1 DEF ObjectInv
  <2>5. CASE /\ oi < Len(mem) /\ opc' = "drain" /\ oi' = oi + 1
             /\ drained' = drained \cup {mem[oi].id} /\ UNCHANGED mem
    <3>1. LoopInv'
      BY <2>1, <2>2, <2>3, <2>5 DEF LoopInv, Loops
    <3> QED BY <2>1, <2>4, <3>1 DEF RouteTotal, Owners
  <2>6. CASE /\ oi = Len(mem) /\ opc' = "meta" /\ oi' = 1
             /\ drained' = {} /\ mem' = Close(mem, drained \cup {mem[oi].id})
    <3>1. GoodShards(mem')
      BY <2>2, <2>3, <2>6, CloseGood
    <3>2. LoopInv'
      BY <2>1, <2>6, <3>1 DEF LoopInv, Loops
    <3> QED BY <2>1, <2>4, <3>2 DEF RouteTotal, Owners
  <2> QED BY <1>9, <2>5, <2>6 DEF DeleteDrained
<1>10. CASE PublishMap
  <2>1. /\ opc = "map" /\ UNCHANGED <<versions, base, mem, drained, now>>
        /\ opc' = "temporal" /\ shardmap' = Published(mem)
    BY <1>10 DEF PublishMap, Goto, objectVars
  <2>2. GoodShards(mem)
    BY DEF LoopInv
  <2>3. RouteTotal'
    BY <2>1, <2>2, PublishedRoutes DEF RouteTotal, Owners
  <2>4. ObjectInv'
    BY <2>1 DEF ObjectInv
  <2>5. LoopInv'
    BY <2>1 DEF LoopInv, Loops
  <2> QED BY <2>3, <2>4, <2>5
<1>11. CASE UpdateStatus
  <2>1. /\ opc \in {"ready", "failed"} /\ UNCHANGED <<shardmap, now>>
        /\ Return(Conflict \/ opc = "failed")
    BY <1>11 DEF UpdateStatus, redisVars
  <2>2. LoopInv' /\ opc' = "idle"
    BY <2>1, ReturnGood
  <2> DEFINE o == [base EXCEPT !.shards = mem,
                               !.phase = IF opc = "ready" THEN "Ready" ELSE "Failed"]
  <2>3. base \in ObjectRec /\ GoodShards(mem)
    BY <2>1 DEF ObjectInv, LoopInv
  <2>4. o \in ObjectRec /\ o.shards = mem
    BY <2>3 DEF ObjectRec, GoodShards
  <2> HIDE DEF o
  <2>5. versions' = versions \/ Store(o)
    BY <1>11 DEF UpdateStatus, o
  <2>6. ObjectInv'
    BY <2>2, <2>3, <2>4, <2>5, StoreGood DEF ObjectInv
  <2> QED BY <2>1, <2>2, <2>6 DEF RouteTotal, Owners
<1>12. CASE RemoveFinalizer
  <2>1. /\ opc = "unfinalize" /\ UNCHANGED <<shardmap, now>> /\ Return(Conflict)
    BY <1>12 DEF RemoveFinalizer, redisVars
  <2>2. LoopInv' /\ opc' = "idle"
    BY <2>1, ReturnGood
  <2>3. base \in ObjectRec
    BY <2>1 DEF ObjectInv
  <2>4. Tombstone(base) \in ObjectRec /\ GoodShards(Tombstone(base).shards)
    <3>1. GoodShards(<<>>)
      BY DEF GoodShards
    <3> QED BY <2>3, <3>1, TombstoneGood
  <2>5. versions' = versions \/ Store(Tombstone(base))
    BY <1>12 DEF RemoveFinalizer
  <2>6. ObjectInv'
    BY <2>2, <2>4, <2>5, StoreGood DEF ObjectInv
  <2> QED BY <2>1, <2>2, <2>6 DEF RouteTotal, Owners
<1>13. CASE PublishMeta \/ ReconcileTemporalWorker \/ DeleteQueueMeta \/ DeleteTemporalWorker
  <2>1. /\ opc \notin Loops \cup {"idle"} /\ opc' \notin Loops \cup {"idle", "finalizer"}
        /\ UNCHANGED <<versions, base, mem, drained, shardmap, now>>
    BY <1>13 DEF PublishMeta, ReconcileTemporalWorker, DeleteQueueMeta, DeleteTemporalWorker, Goto,
                 Loops, objectVars, redisVars
  <2>2. ObjectInv'
    BY <2>1 DEF ObjectInv
  <2>3. LoopInv'
    BY <2>1 DEF LoopInv, Loops
  <2> QED BY <2>1, <2>2, <2>3 DEF RouteTotal, Owners
<1>14. CASE DeleteShardTopic
  <2>1. /\ opc = "delete" /\ opc' \in {"delete", "delmeta"}
        /\ UNCHANGED <<versions, base, mem, drained, shardmap, now>>
    BY <1>14 DEF DeleteShardTopic, NextShard, objectVars, redisVars
  <2>2. ObjectInv'
    BY <2>1 DEF ObjectInv
  <2>3. LoopInv'
    BY <2>1 DEF LoopInv, Loops
  <2> QED BY <2>1, <2>2, <2>3 DEF RouteTotal, Owners
<1>15. CASE DeleteShardMap
  <2>1. /\ opc = "delmap" /\ opc' = "delworker" /\ shardmap' = {}
        /\ UNCHANGED <<versions, base, mem, drained, now>>
    BY <1>15 DEF DeleteShardMap, DelShardMap, Goto, objectVars
  <2>2. ObjectInv'
    BY <2>1 DEF ObjectInv
  <2>3. LoopInv'
    BY <2>1 DEF LoopInv, Loops
  <2> QED BY <2>1, <2>2, <2>3 DEF RouteTotal
<1> QED
  BY <1>1, <1>2, <1>3, <1>4, <1>5, <1>6, <1>7, <1>8, <1>9, <1>10, <1>11, <1>12, <1>13, <1>14, <1>15
  DEF Reconcile, ReconcileStep

\* A failed request, a lost answer or a crash leaves no list half changed.
LEMMA FaultRoutes ==
    ASSUME RouteInv, RequestFails \/ AnswerLost \/ OperatorCrash
    PROVE  RouteInv'
<1> USE DEF RouteInv
<1>1. CASE \/ AnswerLost
           \/ RequestFails /\ opc \in FailsQueue /\ opc' = "failed" /\ drained' = {}
              /\ UNCHANGED <<base, mem>>
  <2>1. /\ opc # "idle" /\ opc' = "failed" /\ drained' = {}
        /\ UNCHANGED <<versions, base, mem, shardmap, now>>
    BY <1>1 DEF RequestFails, AnswerLost, FailsQueue, objectVars, redisVars
  <2>2. ObjectInv'
    BY <2>1 DEF ObjectInv
  <2>3. LoopInv'
    BY <2>1 DEF LoopInv, Loops
  <2> QED BY <2>1, <2>2, <2>3 DEF RouteTotal, Owners
<1>2. CASE RequestFails /\ Return(TRUE)
  <2>1. UNCHANGED <<versions, shardmap, now>>
    BY <1>2 DEF RequestFails, objectVars, redisVars
  <2>2. LoopInv' /\ opc' = "idle"
    BY <1>2, <2>1, ReturnGood
  <2>3. ObjectInv'
    BY <2>1, <2>2 DEF ObjectInv
  <2> QED BY <2>1, <2>2, <2>3 DEF RouteTotal, Owners
<1>3. CASE OperatorCrash
  <2>1. /\ versions' = <<Stored>> /\ opc' = "idle" /\ mem' = <<>> /\ oi' = 1 /\ drained' = {}
        /\ UNCHANGED <<shardmap, now>>
    BY <1>3 DEF OperatorCrash, redisVars
  <2>2. Stored \in ObjectRec /\ GoodShards(Stored.shards)
    BY EndsGood
  <2>3. ObjectInv'
    BY <2>1, <2>2 DEF ObjectInv
  <2>4. GoodShards(<<>>)
    BY DEF GoodShards
  <2>5. LoopInv'
    BY <2>1, <2>4 DEF LoopInv, Loops
  <2> QED BY <2>1, <2>3, <2>5 DEF RouteTotal, Owners
<1> QED BY <1>1, <1>2, <1>3 DEF RequestFails

\* Nor do the informer, the user, the clock, senders or consumers.
LEMMA OthersRoute ==
    ASSUME RouteInv,
           \/ Deliver \/ Resync \/ DeleteQueue \/ CreateQueue \/ Tick
           \/ \E s \in Sender : FindQueue(s) \/ RouteForSend(s) \/ Produce(s)
           \/ \E t \in Id : Consume(t) \/ RecordsExpire(t)
           \/ UNCHANGED vars
    PROVE  RouteInv'
<1> USE DEF RouteInv
<1>1. CASE Deliver
  <2>1. UNCHANGED <<opc, base, mem, oi, drained, shardmap, now>>
    BY <1>1 DEF Deliver, redisVars, localVars
  <2>2. versions \in Seq(ObjectRec) /\ Len(versions) \in Nat /\ Len(versions) > 1
    BY <1>1 DEF Deliver, ObjectInv
  <2>3. /\ versions' \in Seq(ObjectRec) /\ versions' # <<>> /\ DOMAIN versions' = 1 .. Len(versions) - 1
        /\ \A k \in 1 .. Len(versions) - 1 : versions'[k] = versions[k + 1]
    <3>1. versions' = Tail(versions)
      BY <1>1 DEF Deliver
    <3>2. Tail(versions) \in Seq(ObjectRec) /\ Len(Tail(versions)) = Len(versions) - 1
      BY <2>2
    <3>3. \A k \in 1 .. Len(versions) - 1 : Tail(versions)[k] = versions[k + 1]
      BY <2>2
    <3>4. Tail(versions) # <<>>
      <4> DEFINE n == Len(versions)
      <4>a. n \in Nat /\ n > 1
        BY <2>2
      <4> HIDE DEF n
      <4>b. n - 1 # 0
        BY <4>a
      <4>1. Len(Tail(versions)) # 0
        BY <3>2, <4>b DEF n
      <4>2. Len(<<>>) = 0
        OBVIOUS
      <4> QED BY <4>1, <4>2
    <3> QED BY <3>1, <3>2, <3>3, <3>4
  <2>4. \A k \in DOMAIN versions' : k + 1 \in DOMAIN versions
    BY <2>2, <2>3
  <2>5. ObjectInv'
    BY <2>1, <2>3, <2>4 DEF ObjectInv
  <2>6. LoopInv'
    BY <2>1 DEF LoopInv, ShardsAtStart
  <2> QED BY <2>1, <2>5, <2>6 DEF RouteTotal, Owners
<1>2. CASE DeleteQueue \/ CreateQueue
  <2>1. UNCHANGED <<opc, base, mem, oi, drained, shardmap, now>>
    BY <1>2 DEF DeleteQueue, CreateQueue, redisVars, operatorVars, localVars
  <2>2. Stored \in ObjectRec /\ GoodShards(Stored.shards)
    BY EndsGood
  <2>3. PICK o \in ObjectRec : GoodShards(o.shards) /\ Store(o)
    <3>1. GoodShards(<<>>)
      BY DEF GoodShards
    <3>2. CASE DeleteQueue
      <4>1. /\ [Stored EXCEPT !.deleting = TRUE] \in ObjectRec
            /\ [Stored EXCEPT !.deleting = TRUE].shards = Stored.shards
        BY <2>2 DEF ObjectRec
      <4>2. Tombstone(Stored) \in ObjectRec /\ Tombstone(Stored).shards = <<>>
        BY <2>2, TombstoneGood
      <4> QED BY <2>2, <3>1, <3>2, <4>1, <4>2 DEF DeleteQueue
    <3>3. CASE CreateQueue
      <4>1. PICK spec \in Specs : Store(NewObject(Stored.uid + 1, spec))
        BY <3>3 DEF CreateQueue
      <4>2. /\ NewObject(Stored.uid + 1, spec) \in ObjectRec
            /\ NewObject(Stored.uid + 1, spec).shards = <<>>
        BY <2>2 DEF ObjectRec, NewObject, Bare
      <4> QED BY <3>1, <4>1, <4>2
    <3> QED BY <1>2, <3>2, <3>3
  <2>4. ObjectInv'
    BY <2>1, <2>3, StoreGood DEF ObjectInv
  <2>5. LoopInv'
    BY <2>1 DEF LoopInv, ShardsAtStart
  <2> QED BY <2>1, <2>4, <2>5 DEF RouteTotal, Owners
<1>3. CASE Tick
  <2>1. UNCHANGED <<versions, opc, base, mem, oi, drained, shardmap>> /\ now' = now + 1
    BY <1>3 DEF Tick, objectVars, redisVars, operatorVars, localVars
  <2>2. ObjectInv'
    BY <2>1 DEF ObjectInv
  <2>3. LoopInv'
    BY <2>1 DEF LoopInv, ShardsAtStart
  <2> QED BY <2>1, <2>2, <2>3 DEF RouteTotal, Owners
<1>4. CASE \/ Resync \/ UNCHANGED vars \/ \E t \in Id : Consume(t) \/ RecordsExpire(t)
           \/ \E s \in Sender : FindQueue(s) \/ RouteForSend(s) \/ Produce(s)
  <2>1. UNCHANGED <<versions, opc, base, mem, oi, drained, shardmap, now>>
    BY <1>4 DEF Resync, Consume, RecordsExpire, FindQueue, RouteForSend, Produce, vars, objectVars, redisVars,
                operatorVars, localVars
  <2>2. ObjectInv'
    BY <2>1 DEF ObjectInv
  <2>3. LoopInv'
    BY <2>1 DEF LoopInv, ShardsAtStart
  <2> QED BY <2>1, <2>2, <2>3 DEF RouteTotal, Owners
<1> QED BY <1>1, <1>2, <1>3, <1>4

\* In every shard map publishRedisState writes, each hash belongs to exactly one
\* active shard: RouteForSend always finds a shard, and never has a choice,
\* whatever crashes, conflicts, stale reads and failures the reconciler meets,
\* and for every size of the key space and every maxShards.
THEOREM EveryKeyRoutes == Spec => []RouteTotal
<1>1. Init => RouteInv
  BY InitRoutes
<1>2. RouteInv /\ [Next]_vars => RouteInv'
  BY ReconcileRoutes, FaultRoutes, OthersRoute DEF Next
<1>3. RouteInv => RouteTotal
  BY DEF RouteInv
<1> QED BY <1>1, <1>2, <1>3, PTL DEF Spec

\* No two shards of a stored status share an ID, hence a topic: nextShardID
\* numbers them from 0 in the order of their creation, also when an update
\* starts from a stale copy.
THEOREM ShardIDsAreUnique == Spec => []OwnTopics
<1>1. Init => RouteInv
  BY InitRoutes
<1>2. RouteInv /\ [Next]_vars => RouteInv'
  BY ReconcileRoutes, FaultRoutes, OthersRoute DEF Next
<1>3. RouteInv => OwnTopics
  <2> SUFFICES ASSUME RouteInv, NEW i \in DOMAIN Stored.shards, NEW j \in DOMAIN Stored.shards,
                      Stored.shards[i].id = Stored.shards[j].id
               PROVE  i = j
    BY DEF OwnTopics
  <2>1. GoodShards(Stored.shards)
    BY EndsGood DEF RouteInv
  <2>2. i \in Int /\ j \in Int /\ Stored.shards[i].id = i - 1 /\ Stored.shards[j].id = j - 1
    BY <2>1 DEF GoodShards
  <2>3. i - 1 = j - 1
    BY <2>2
  <2> QED BY <2>2, <2>3
<1> QED BY <1>1, <1>2, <1>3, PTL DEF Spec

-----------------------------------------------------------------------------
(* How many shards there are                                               *)

\* A split makes one active shard more and two shards more, and nothing else
\* changes either number: a list that is not empty has 2 * n - 1 shards, n of
\* them active.  So the ceiling on active shards is one on all shards.
SmallShards(q) ==
    /\ \/ q = <<>>
       \/ Cardinality(Active(q)) <= MaxShards /\ Len(q) = 2 * Cardinality(Active(q)) - 1
    /\ \A i \in DOMAIN q : q[i].end <= FullHashRangeEnd /\ q[i].created <= MaxTime

SmallInv ==
    /\ \A k \in DOMAIN versions : SmallShards(versions[k].shards)
    /\ opc # "idle" => SmallShards(base.shards)
    /\ SmallShards(mem)
    /\ now <= MaxTime

LEMMA ActiveFinite ==
    ASSUME NEW q, GoodShards(q)
    PROVE  IsFiniteSet(Active(q)) /\ Cardinality(Active(q)) \in Nat
<1>1. q \in Seq(ShardRec) /\ Len(q) \in Nat /\ DOMAIN q = 1 .. Len(q)
  BY DEF GoodShards
<1>2. IsFiniteSet(1 .. Len(q)) /\ Active(q) \in SUBSET (1 .. Len(q))
  BY <1>1, FS_Interval DEF Active
<1> QED BY <1>2, FS_Subset, FS_CardinalityType

LEMMA SplitSmall ==
    ASSUME NEW q, GoodShards(q), SmallShards(q), now \in Nat, now <= MaxTime, NEW i \in DOMAIN q,
           q[i].phase = "Active", ~Full(q)
    PROVE  SmallShards(Split(q, i))
<1> DEFINE n == Len(q)
           u == Split(q, i)
           c == Cardinality(Active(q))
<1>1. /\ n \in Nat /\ DOMAIN q = 1 .. n /\ i \in 1 .. n /\ q[i] \in ShardRec
      /\ DOMAIN u = 1 .. n + 2 /\ Len(u) = n + 2
      /\ \A j \in 1 .. n : u[j] = IF j = i THEN [q[i] EXCEPT !.phase = "Closing"] ELSE q[j]
      /\ u[n + 1] = NewShard(n, q[i].start, SplitHashRange(q[i]))
      /\ u[n + 2] = NewShard(n + 1, SplitHashRange(q[i]), q[i].end)
  BY SplitShape
<1>2. /\ u[n + 1].phase = "Active" /\ u[n + 2].phase = "Active"
      /\ u[n + 1].created = now /\ u[n + 2].created = now
      /\ u[n + 1].end = SplitHashRange(q[i]) /\ u[n + 2].end = q[i].end
  BY <1>1 DEF NewShard
<1>3. \A j \in 1 .. n : /\ u[j].end = q[j].end /\ u[j].created = q[j].created
                        /\ u[j].phase = IF j = i THEN "Closing" ELSE q[j].phase
  BY <1>1 DEF ShardRec
<1>4. \A j \in 1 .. n + 2 : j \in 1 .. n \/ j = n + 1 \/ j = n + 2
  BY <1>1
<1> HIDE DEF u
<1>5. \A j \in DOMAIN u : u[j].end <= FullHashRangeEnd /\ u[j].created <= MaxTime
  <2>1. q[i].end <= FullHashRangeEnd
    BY DEF SmallShards
  <2>2. SplitHashRange(q[i]) <= FullHashRangeEnd
    <3>1. /\ SplitHashRange(q[i]) \in Nat /\ q[i].end \in Nat
          /\ SplitHashRange(q[i]) <= q[i].end /\ FullHashRangeEnd \in Nat
      BY SplitShape, RangeAssumption
    <3> QED BY <2>1, <3>1
  <2> QED BY <1>1, <1>2, <1>3, <1>4, <2>1, <2>2 DEF SmallShards
<1>6. Active(u) = ((Active(q) \ {i}) \cup {n + 1}) \cup {n + 2}
  <2>1. n + 1 \in 1 .. n + 2 /\ n + 2 \in 1 .. n + 2 /\ \A j \in 1 .. n : j \in 1 .. n + 2
    BY <1>1
  <2>2. \A j : j \in Active(u) <=> j \in 1 .. n + 2 /\ u[j].phase = "Active"
    BY <1>1 DEF Active
  <2>3. \A j : j \in Active(q) <=> j \in 1 .. n /\ q[j].phase = "Active"
    BY <1>1 DEF Active
  <2> QED BY <1>2, <1>3, <1>4, <2>1, <2>2, <2>3
<1>7. IsFiniteSet(Active(q)) /\ c \in Nat /\ i \in Active(q)
  BY ActiveFinite DEF Active
<1> DEFINE S == Active(q) \ {i}
           T == S \cup {n + 1}
<1>8. IsFiniteSet(S) /\ Cardinality(S) = c - 1
  BY <1>7, FS_RemoveElement
<1>9. n + 1 \notin S /\ n + 2 \notin T
  BY <1>1 DEF Active
<1>10. Active(u) = T \cup {n + 2}
  BY <1>6
<1> HIDE DEF S
<1>11. IsFiniteSet(T) /\ Cardinality(T) = c
  <2>1. IsFiniteSet(T) /\ Cardinality(T) = Cardinality(S) + 1
    BY <1>8, <1>9, FS_AddElement
  <2> QED BY <1>7, <1>8, <2>1
<1> HIDE DEF T
<1>12. Cardinality(Active(u)) = c + 1
  BY <1>9, <1>10, <1>11, FS_AddElement
<1>13. c < MaxShards /\ q # <<>> /\ n = 2 * c - 1
  BY <1>1, <1>7, SpecAssumption DEF Full, SmallShards
<1>14. Cardinality(Active(u)) <= MaxShards /\ Len(u) = 2 * Cardinality(Active(u)) - 1
  BY <1>1, <1>7, <1>12, <1>13, SpecAssumption
<1> QED BY <1>5, <1>14 DEF SmallShards, u

LEMMA CloseSmall ==
    ASSUME NEW q, GoodShards(q), SmallShards(q), NEW D,
           \A i \in DOMAIN q : q[i].id \in D => q[i].phase # "Active"
    PROVE  SmallShards(Close(q, D))
<1> DEFINE u == Close(q, D)
<1>1. \A i \in DOMAIN q : q[i] \in ShardRec
  BY DEF GoodShards
<1>2. DOMAIN u = DOMAIN q /\ Len(u) = Len(q)
  BY CloseGood DEF Close
<1>3. \A i \in DOMAIN q : /\ u[i].end = q[i].end /\ u[i].created = q[i].created
                          /\ u[i].phase = "Active" <=> q[i].phase = "Active"
  <2> SUFFICES ASSUME NEW i \in DOMAIN q
               PROVE  /\ u[i].end = q[i].end /\ u[i].created = q[i].created
                      /\ u[i].phase = "Active" <=> q[i].phase = "Active"
    OBVIOUS
  <2>1. u[i] = IF q[i].id \in D THEN [q[i] EXCEPT !.phase = "Closed"] ELSE q[i]
    BY DEF Close
  <2>2. q[i] \in ShardRec
    BY <1>1
  <2> HIDE DEF u
  <2> QED BY <2>1, <2>2 DEF ShardRec
<1>4. Active(u) = Active(q)
  BY <1>2, <1>3 DEF Active
<1> HIDE DEF u
<1>5. \/ q = <<>>
      \/ Cardinality(Active(u)) <= MaxShards /\ Len(u) = 2 * Cardinality(Active(u)) - 1
  <2>1. Cardinality(Active(u)) = Cardinality(Active(q))
    BY <1>4
  <2> QED BY <1>2, <2>1 DEF SmallShards
<1>6. q = <<>> => u = <<>>
  <2>1. q = <<>> => Len(u) = 0 /\ u \in Seq(ShardRec)
    BY <1>2, CloseGood DEF u, GoodShards
  <2> QED BY <2>1
<1>7. \A i \in DOMAIN u : u[i].end <= FullHashRangeEnd /\ u[i].created <= MaxTime
  BY <1>2, <1>3 DEF SmallShards
<1> QED BY <1>5, <1>6, <1>7 DEF SmallShards, u

LEMMA InitialSmall ==
    ASSUME NEW q, SmallShards(q), now \in Nat, now <= MaxTime
    PROVE  SmallShards(InitialShards(q))
<1>1. CASE q # <<>>
  BY <1>1 DEF InitialShards
<1>2. CASE q = <<>>
  <2> DEFINE s == NewShard(0, 0, FullHashRangeEnd)
  <2>1. s.end = FullHashRangeEnd /\ s.created = now /\ s.phase = "Active"
    BY DEF NewShard
  <2>2. InitialShards(q) = <<s>>
    BY <1>2 DEF InitialShards
  <2> HIDE DEF s
  <2>3. Len(<<s>>) = 1 /\ DOMAIN <<s>> = {1} /\ <<s>>[1] = s
    OBVIOUS
  <2>4. Active(<<s>>) = {1}
    BY <2>1, <2>3 DEF Active
  <2>5. Cardinality(Active(<<s>>)) = 1
    BY <2>4, FS_Singleton
  <2> QED BY <2>1, <2>2, <2>3, <2>5, RangeAssumption, SpecAssumption DEF SmallShards
<1> QED BY <1>1, <1>2

-----------------------------------------------------------------------------
(* What a step does to the versions and to the list in memory              *)

\* After a write the new object is stored, and the other versions are those that
\* were there.
LEMMA StoreShape ==
    ASSUME ObjectInv, NEW o \in ObjectRec, Store(o)
    PROVE  /\ Stored' = o /\ versions' \in Seq(ObjectRec) /\ versions' # <<>>
           /\ \A k \in DOMAIN versions' : \/ k \in DOMAIN versions /\ versions'[k] = versions[k]
                                          \/ k = Len(versions') /\ versions'[k] = o
<1>1. versions \in Seq(ObjectRec) /\ Len(versions) \in Nat /\ versions # <<>>
  BY DEF ObjectInv
<1>2. CASE o = Stored
  BY <1>1, <1>2 DEF Store, Stored
<1>3. CASE o # Stored
  <2>1. versions' = Append(versions, o)
    BY <1>3 DEF Store
  <2>2. /\ versions' \in Seq(ObjectRec) /\ Len(versions') = Len(versions) + 1
        /\ DOMAIN versions' = 1 .. Len(versions) + 1
        /\ \A k \in 1 .. Len(versions) : versions'[k] = versions[k]
        /\ versions'[Len(versions) + 1] = o
    BY <1>1, <2>1
  <2>3. Stored' = o
    BY <2>2 DEF Stored
  <2>4. versions' # <<>>
    BY <1>1, <2>2
  <2> QED BY <1>1, <2>2, <2>3, <2>4
<1> QED BY <1>2, <1>3

\* The cache catches up: what is stored stays, and what is left to see comes in
\* the same order.
SeenShift(k) == \A i \in DOMAIN versions' : i + k \in DOMAIN versions /\ versions'[i] = versions[i + k]
Seen ==
    /\ versions' \in Seq(ObjectRec) /\ versions' # <<>> /\ Stored' = Stored
    /\ \E k \in Nat : SeenShift(k)

\* Who writes the Queue, and with what.
Writes(o) ==
    \/ opc = "finalizer" /\ ~Conflict /\ o = [base EXCEPT !.finalizer = TRUE]
    \/ /\ opc \in {"ready", "failed"} /\ ~Conflict
       /\ o = [base EXCEPT !.shards = mem, !.phase = IF opc = "ready" THEN "Ready" ELSE "Failed"]
    \/ opc = "unfinalize" /\ ~Conflict /\ o = Tombstone(base)
    \/ /\ ~Stored.deleting
       /\ o = IF Stored.finalizer THEN [Stored EXCEPT !.deleting = TRUE] ELSE Tombstone(Stored)
    \/ /\ Gone(Stored) /\ Stored.uid < MaxCreates
       /\ \E spec \in Specs : o = NewObject(Stored.uid + 1, spec)

LEMMA VersionMoves ==
    ASSUME RouteInv, [Next]_vars
    PROVE  Seen \/ \E o \in ObjectRec : Store(o) /\ Writes(o)
<1>0. ObjectInv /\ Stored \in ObjectRec /\ GoodShards(mem) /\ (opc # "idle" => base \in ObjectRec)
  BY EndsGood DEF RouteInv, ObjectInv, LoopInv
<1>a. versions \in Seq(ObjectRec) /\ Len(versions) \in Nat /\ Len(versions) # 0 /\ versions # <<>>
  BY <1>0 DEF ObjectInv
<1>1. CASE UNCHANGED versions
  <2>1. \A i \in DOMAIN versions' : i + 0 \in DOMAIN versions /\ versions'[i] = versions[i + 0]
    BY <1>1, <1>a
  <2> QED BY <1>1, <1>a, <2>1 DEF Seen, SeenShift, Stored
<1>2. CASE Deliver
  <2>1. Len(versions) > 1 /\ versions' = Tail(versions)
    BY <1>2 DEF Deliver
  <2>2. /\ versions' \in Seq(ObjectRec) /\ Len(versions') = Len(versions) - 1
        /\ DOMAIN versions' = 1 .. Len(versions) - 1
        /\ \A k \in 1 .. Len(versions) - 1 : versions'[k] = versions[k + 1]
    BY <1>a, <2>1
  <2>3. \A i \in DOMAIN versions' : i + 1 \in DOMAIN versions /\ versions'[i] = versions[i + 1]
    BY <1>a, <2>2
  <2>4. Len(versions') \in 1 .. Len(versions) - 1 /\ Len(versions') + 1 = Len(versions)
    BY <1>a, <2>1, <2>2
  <2>5. Stored' = Stored
    BY <2>2, <2>4 DEF Stored
  <2>6. versions' # <<>>
    BY <2>2, <2>4
  <2>7. \E k \in Nat : SeenShift(k)
    <3>1. SeenShift(1)
      BY <2>3 DEF SeenShift
    <3> QED BY <3>1
  <2> QED BY <2>2, <2>5, <2>6, <2>7 DEF Seen
<1>3. CASE OperatorCrash
  <2>1. versions' = <<Stored>>
    BY <1>3 DEF OperatorCrash
  <2>2. /\ versions' \in Seq(ObjectRec) /\ Len(versions') = 1 /\ DOMAIN versions' = {1}
        /\ versions'[1] = versions[Len(versions)]
    BY <1>0, <2>1 DEF Stored
  <2>3. Len(versions) - 1 \in Nat
    BY <1>a
  <2>4. SeenShift(Len(versions) - 1)
    BY <1>a, <2>2 DEF SeenShift
  <2>5. Stored' = Stored /\ versions' # <<>>
    BY <2>2 DEF Stored
  <2> QED BY <2>2, <2>3, <2>4, <2>5 DEF Seen
<1>4. CASE AddFinalizer /\ ~Conflict
  <2>1. [base EXCEPT !.finalizer = TRUE] \in ObjectRec
    BY <1>0, <1>4 DEF AddFinalizer, ObjectRec
  <2> QED BY <1>4, <2>1 DEF AddFinalizer, Writes
<1>5. CASE UpdateStatus /\ ~Conflict
  <2> DEFINE o == [base EXCEPT !.shards = mem,
                               !.phase = IF opc = "ready" THEN "Ready" ELSE "Failed"]
  <2>1. o \in ObjectRec
    BY <1>0, <1>5 DEF UpdateStatus, ObjectRec, GoodShards
  <2>2. Store(o) /\ Writes(o)
    BY <1>5 DEF UpdateStatus, Writes
  <2> QED BY <2>1, <2>2
<1>6. CASE RemoveFinalizer /\ ~Conflict
  BY <1>0, <1>6, TombstoneGood DEF RemoveFinalizer, Writes
<1>7. CASE DeleteQueue
  <2>1. [Stored EXCEPT !.deleting = TRUE] \in ObjectRec /\ Tombstone(Stored) \in ObjectRec
    BY <1>0, TombstoneGood DEF ObjectRec
  <2> QED BY <1>7, <2>1 DEF DeleteQueue, Writes
<1>8. CASE CreateQueue
  <2>1. PICK spec \in Specs : Store(NewObject(Stored.uid + 1, spec))
    BY <1>8 DEF CreateQueue
  <2>2. NewObject(Stored.uid + 1, spec) \in ObjectRec
    BY <1>0 DEF ObjectRec, NewObject, Bare
  <2> QED BY <1>8, <2>1, <2>2 DEF CreateQueue, Writes
<1>9. AddFinalizer \/ UpdateStatus \/ RemoveFinalizer => UNCHANGED versions \/ ~Conflict
  BY DEF AddFinalizer, UpdateStatus, RemoveFinalizer
<1>10. \/ ReconcileIgnored \/ ReconcileBegin \/ EnsureTopic \/ SampleShard
       \/ StopSplitting \/ SplitShard \/ CheckLag \/ DeleteDrained
       => UNCHANGED versions
  BY DEF ReconcileIgnored, ReconcileBegin, ReconcileStart, EnsureTopic, SampleShard,
     StopSplitting, SplitShard, CheckLag, DeleteDrained, objectVars
<1>11. \/ PublishMeta \/ PublishMap \/ ReconcileTemporalWorker \/ DeleteShardTopic
       \/ DeleteQueueMeta \/ DeleteShardMap \/ DeleteTemporalWorker
       => UNCHANGED versions
  BY DEF PublishMeta, PublishMap, ReconcileTemporalWorker, DeleteShardTopic,
     DeleteQueueMeta, DeleteShardMap, DeleteTemporalWorker, objectVars
<1>12. RequestFails \/ AnswerLost \/ Resync \/ Tick \/ UNCHANGED vars => UNCHANGED versions
  BY DEF RequestFails, AnswerLost, Resync, Tick, vars, objectVars
<1>13. ASSUME NEW s \in Sender, FindQueue(s) \/ RouteForSend(s) \/ Produce(s)
       PROVE  UNCHANGED versions
  BY <1>13 DEF FindQueue, RouteForSend, Produce, objectVars
<1>14. ASSUME NEW t \in Id, Consume(t) \/ RecordsExpire(t)
       PROVE  UNCHANGED versions
  BY <1>14 DEF Consume, RecordsExpire, objectVars
<1> QED
  BY <1>1, <1>2, <1>3, <1>4, <1>5, <1>6, <1>7, <1>8, <1>9, <1>10, <1>11, <1>12, <1>13, <1>14
  DEF Next, Reconcile, ReconcileStep

\* Where the list in memory comes from: the cache, or the list there was.
LEMMA MemMoves ==
    ASSUME RouteInv, [Next]_vars
    PROVE  \/ mem' = mem /\ (opc' # "idle" => opc # "idle" /\ base'.shards = base.shards)
           \/ mem' = <<>> /\ opc' = "idle"
           \/ base'.shards = Cached.shards /\ mem' \in {Cached.shards, InitialShards(Cached.shards)}
           \/ opc # "idle" /\ base'.shards = base.shards /\ mem' = InitialShards(base.shards)
           \/ /\ opc # "idle" /\ base' = base /\ mem' = Split(mem, oi)
              /\ oi \in DOMAIN mem /\ mem[oi].phase = "Active" /\ ~Full(mem)
           \/ /\ opc # "idle" /\ base' = base
              /\ \E D : /\ mem' = Close(mem, D)
                        /\ \A i \in DOMAIN mem : mem[i].id \in D => mem[i].phase # "Active"
<1>0. /\ opc \in Loops => oi \in 1 .. Len(mem)
      /\ \A i \in DOMAIN mem : mem[i].id \in drained => mem[i].phase # "Active"
      /\ opc = "deltopic" => mem[oi].phase = "Closing"
      /\ GoodShards(mem) /\ DOMAIN mem = 1 .. Len(mem)
      /\ opc # "idle" => base \in ObjectRec
  BY DEF RouteInv, LoopInv, ObjectInv, GoodShards
<1>1. CASE ReconcileBegin
  BY <1>1 DEF ReconcileBegin
<1>2. CASE AddFinalizer
  <2>1. opc = "finalizer" /\ [base EXCEPT !.finalizer = TRUE].shards = base.shards
    BY <1>0, <1>2 DEF AddFinalizer, ObjectRec
  <2> QED BY <1>2, <2>1 DEF AddFinalizer, Return
<1>3. CASE SplitShard
  BY <1>0, <1>3 DEF SplitShard, Sampleable, Loops
<1>4. CASE CheckLag
  <2>1. opc = "drain" /\ base' = base
    BY <1>4 DEF CheckLag
  <2>2. mem' = mem \/ mem' = Close(mem, drained)
    BY <1>4 DEF CheckLag, NextDrain
  <2> QED BY <1>0, <2>1, <2>2
<1>5. CASE DeleteDrained
  <2>1. opc = "deltopic" /\ base' = base
    BY <1>5 DEF DeleteDrained
  <2>2. mem' = mem \/ mem' = Close(mem, drained \cup {mem[oi].id})
    BY <1>5 DEF DeleteDrained
  <2>3. \A i \in DOMAIN mem : mem[i].id \in drained \cup {mem[oi].id} => mem[i].phase # "Active"
    <3>1. oi \in DOMAIN mem /\ mem[oi].phase = "Closing"
      BY <1>0, <2>1 DEF Loops
    <3>2. \A i \in DOMAIN mem : mem[i].id = mem[oi].id => i = oi
      BY <1>0, <3>1 DEF GoodShards
    <3> QED BY <1>0, <3>1, <3>2
  <2> QED BY <2>1, <2>2, <2>3
<1>6. CASE UpdateStatus \/ RemoveFinalizer \/ OperatorCrash \/ RequestFails
  BY <1>6 DEF UpdateStatus, RemoveFinalizer, OperatorCrash, RequestFails, Return, FailsQueue
<1>7. CASE \/ EnsureTopic \/ SampleShard \/ StopSplitting \/ PublishMeta \/ PublishMap
           \/ ReconcileTemporalWorker \/ DeleteShardTopic \/ DeleteQueueMeta \/ DeleteShardMap
           \/ DeleteTemporalWorker \/ AnswerLost
  BY <1>7 DEF EnsureTopic, SampleShard, StopSplitting, PublishMeta, PublishMap,
     ReconcileTemporalWorker, DeleteShardTopic, DeleteQueueMeta, DeleteShardMap,
     DeleteTemporalWorker, AnswerLost, Goto
<1>8. CASE UNCHANGED <<mem, base, opc>>
  BY <1>8
<1> QED
  BY <1>1, <1>2, <1>3, <1>4, <1>5, <1>6, <1>7, <1>8
  DEF Next, Reconcile, ReconcileIgnored, ReconcileStart, ReconcileStep, Deliver, Resync,
      DeleteQueue, CreateQueue, Tick, FindQueue, RouteForSend, Produce, Consume, RecordsExpire,
      vars, operatorVars, localVars

\* Who writes the shard map, and the clock.
LEMMA MapMoves ==
    ASSUME [Next]_vars
    PROVE  /\ \/ shardmap' \in {shardmap, {}}
              \/ opc = "map" /\ shardmap' = Published(mem)
           /\ \/ now' = now
              \/ now < MaxTime /\ now' = now + 1
<1> DEFINE M == UNCHANGED <<shardmap, now>>
<1>1. \/ ReconcileIgnored \/ ReconcileBegin \/ EnsureTopic \/ SampleShard
      \/ StopSplitting \/ SplitShard \/ CheckLag \/ DeleteDrained
      => M
  BY DEF ReconcileIgnored, ReconcileBegin, ReconcileStart, EnsureTopic, SampleShard,
     StopSplitting, SplitShard, CheckLag, DeleteDrained, redisVars
<1>2. \/ AddFinalizer \/ PublishMeta \/ ReconcileTemporalWorker \/ UpdateStatus \/ DeleteShardTopic
      \/ DeleteQueueMeta \/ DeleteTemporalWorker \/ RemoveFinalizer
      => M
  BY DEF AddFinalizer, PublishMeta, ReconcileTemporalWorker, UpdateStatus, DeleteShardTopic,
     DeleteQueueMeta, DeleteTemporalWorker, RemoveFinalizer, redisVars
<1>3. PublishMap => opc = "map" /\ shardmap' = Published(mem) /\ UNCHANGED now
  BY DEF PublishMap
<1>4. DeleteShardMap => shardmap' = {} /\ UNCHANGED now
  BY DEF DeleteShardMap, DelShardMap
<1>5. \/ RequestFails \/ AnswerLost \/ OperatorCrash \/ Deliver \/ Resync \/ DeleteQueue
      \/ CreateQueue \/ UNCHANGED vars
      => M
  BY DEF RequestFails, AnswerLost, OperatorCrash, Deliver, Resync, DeleteQueue, CreateQueue,
     vars, redisVars
<1>6. Tick => UNCHANGED shardmap /\ now < MaxTime /\ now' = now + 1
  BY DEF Tick, redisVars
<1>7. ASSUME NEW s \in Sender, FindQueue(s) \/ RouteForSend(s) \/ Produce(s)
      PROVE  M
  BY <1>7 DEF FindQueue, RouteForSend, Produce, redisVars
<1>8. ASSUME NEW t \in Id, Consume(t) \/ RecordsExpire(t)
      PROVE  M
  BY <1>8 DEF Consume, RecordsExpire, redisVars
<1>9. \/ M \/ PublishMap \/ DeleteShardMap \/ Tick
  <2> HIDE DEF M
  <2> QED BY <1>1, <1>2, <1>5, <1>7, <1>8 DEF Next, Reconcile, ReconcileStep
<1> QED BY <1>3, <1>4, <1>6, <1>9

-----------------------------------------------------------------------------
(* The ceiling on active shards                                            *)

\* A published map has no more active shards than the list it was made from.
LEMMA PublishedSmall ==
    ASSUME NEW q, GoodShards(q), SmallShards(q)
    PROVE  Cardinality({s \in Published(q) : s.phase = "Active"}) <= MaxShards
<1> DEFINE S == {s \in Published(q) : s.phase = "Active"}
           A == Active(q)
           f == [i \in A |-> q[i]]
<1>1. IsFiniteSet(A) /\ Cardinality(A) \in Nat
  BY ActiveFinite
<1>2. \A i \in A : q[i] \in S
  BY DEF Active, Published
<1>3. \A s \in S : \E i \in A : q[i] = s
  BY DEF Active, Published
<1>4. f \in Surjection(A, S)
  BY <1>2, <1>3 DEF Surjection
<1> HIDE DEF f
<1>5. IsFiniteSet(S) /\ Cardinality(S) <= Cardinality(A)
  BY <1>1, <1>4, FS_Surjection
<1>6. Cardinality(S) \in Nat
  BY <1>5, FS_CardinalityType
<1>7. Cardinality(A) <= MaxShards
  <2>1. CASE q = <<>>
    <3>1. A = {}
      BY <2>1 DEF Active
    <3> QED BY <3>1, FS_EmptySet, SpecAssumption
  <2>2. CASE q # <<>>
    BY <2>2 DEF SmallShards
  <2> QED BY <2>1, <2>2
<1> HIDE DEF S, A
<1>8. Cardinality(S) <= MaxShards
  BY <1>1, <1>5, <1>6, <1>7, SpecAssumption
<1> QED BY <1>8 DEF S

LEMMA RouteStep == RouteInv /\ [Next]_vars => RouteInv'
  BY ReconcileRoutes, FaultRoutes, OthersRoute DEF Next

LEMMA EmptySmall == SmallShards(<<>>)
<1>1. DOMAIN <<>> = {}
  OBVIOUS
<1> QED BY <1>1 DEF SmallShards

LEMMA SmallInit == Init => SmallInv /\ ActiveWithinMax
<1> SUFFICES ASSUME Init PROVE SmallInv /\ ActiveWithinMax
  OBVIOUS
<1>1. PICK spec \in Specs : versions = <<NewObject(1, spec)>>
  BY DEF Init
<1>2. opc = "idle" /\ mem = <<>> /\ shardmap = {} /\ now = 0
  BY DEF Init
<1>3. \A k \in DOMAIN versions : versions[k].shards = <<>>
  BY <1>1 DEF NewObject, Bare
<1>4. Cardinality({s \in shardmap : s.phase = "Active"}) = 0
  <2>1. {s \in shardmap : s.phase = "Active"} = {}
    BY <1>2
  <2> QED BY <2>1, FS_EmptySet
<1> QED BY <1>2, <1>3, <1>4, EmptySmall, BoundAssumption, SpecAssumption DEF SmallInv, ActiveWithinMax

\* SmallInv and the ceiling it gives are kept: a list comes from the cache, is
\* the initial one, or is the one in memory, split or closed; what is written,
\* to the API server or to Redis, is one of these lists.
LEMMA SmallStep ==
    ASSUME RouteInv, SmallInv, ActiveWithinMax, [Next]_vars
    PROVE  SmallInv' /\ ActiveWithinMax'
<1>0. /\ now \in Nat /\ now <= MaxTime /\ GoodShards(mem) /\ SmallShards(mem) /\ ObjectInv
      /\ opc # "idle" => SmallShards(base.shards) /\ GoodShards(base.shards) /\ base \in ObjectRec
      /\ \A k \in DOMAIN versions : SmallShards(versions[k].shards)
  BY DEF RouteInv, SmallInv, ObjectInv, LoopInv
<1>1. /\ SmallShards(Stored.shards) /\ SmallShards(Cached.shards)
      /\ Stored \in ObjectRec /\ Cached \in ObjectRec
  <2>1. Len(versions) \in DOMAIN versions /\ 1 \in DOMAIN versions
    BY <1>0 DEF ObjectInv
  <2> QED BY <1>0, <2>1 DEF Stored, Cached, ObjectInv
<1>2. \A k \in DOMAIN versions' : SmallShards(versions'[k].shards)
  <2>1. CASE Seen
    <3>1. PICK k \in Nat : SeenShift(k)
      BY <2>1 DEF Seen
    <3> QED BY <1>0, <3>1 DEF SeenShift
  <2>2. CASE \E o \in ObjectRec : Store(o) /\ Writes(o)
    <3>1. PICK o \in ObjectRec : Store(o) /\ Writes(o)
      BY <2>2
    <3>2. \/ opc # "idle" /\ o.shards = base.shards
          \/ o.shards \in {mem, Stored.shards, <<>>}
      <4>1. opc = "finalizer" /\ o = [base EXCEPT !.finalizer = TRUE] => o.shards = base.shards
        BY <1>0 DEF ObjectRec
      <4>2. ASSUME opc \in {"ready", "failed"}, NEW p, o = [base EXCEPT !.shards = mem, !.phase = p]
            PROVE  o.shards = mem
        BY <1>0, <4>2 DEF ObjectRec
      <4>3. o = [Stored EXCEPT !.deleting = TRUE] => o.shards = Stored.shards
        BY <1>1 DEF ObjectRec
      <4>4. \A p : o = Tombstone(p) => o.shards = <<>>
        BY DEF Tombstone, Bare
      <4>5. \A n, spec : o = NewObject(n, spec) => o.shards = <<>>
        BY DEF NewObject, Bare
      <4> QED BY <3>1, <4>1, <4>2, <4>3, <4>4, <4>5 DEF Writes
    <3>3. SmallShards(o.shards)
      BY <1>0, <1>1, <3>2, EmptySmall
    <3>4. \A k \in DOMAIN versions' : \/ k \in DOMAIN versions /\ versions'[k] = versions[k]
                                      \/ versions'[k] = o
      BY <1>0, <3>1, StoreShape
    <3> QED BY <1>0, <3>3, <3>4
  <2> QED BY <2>1, <2>2, VersionMoves
<1>3. SmallShards(mem') /\ (opc' # "idle" => SmallShards(base'.shards))
  <2>1. SmallShards(InitialShards(Cached.shards))
    BY <1>0, <1>1, InitialSmall
  <2>2. opc # "idle" => SmallShards(InitialShards(base.shards))
    BY <1>0, InitialSmall
  <2>3. oi \in DOMAIN mem /\ mem[oi].phase = "Active" /\ ~Full(mem) => SmallShards(Split(mem, oi))
    BY <1>0, SplitSmall
  <2>4. ASSUME NEW D, \A i \in DOMAIN mem : mem[i].id \in D => mem[i].phase # "Active"
        PROVE  SmallShards(Close(mem, D))
    BY <1>0, <2>4, CloseSmall
  <2> QED BY <1>0, <1>1, <2>1, <2>2, <2>3, <2>4, EmptySmall, MemMoves
<1>4. now' <= MaxTime
  BY <1>0, MapMoves, BoundAssumption
<1>5. ActiveWithinMax'
  <2>1. CASE shardmap' = shardmap
    BY <2>1 DEF ActiveWithinMax
  <2>2. CASE shardmap' = {}
    <3>1. {s \in shardmap' : s.phase = "Active"} = {}
      BY <2>2
    <3> QED BY <3>1, FS_EmptySet, SpecAssumption DEF ActiveWithinMax
  <2>3. CASE shardmap' = Published(mem)
    BY <1>0, <2>3, PublishedSmall DEF ActiveWithinMax
  <2> QED BY <2>1, <2>2, <2>3, MapMoves
<1> QED BY <1>2, <1>3, <1>4, <1>5 DEF SmallInv

\* Every map publishRedisState writes has at most maxShards active shards, for
\* every maxShards: the check in reconcileSplits counts the shards of the list
\* that is published, so a stale status that is split again cannot exceed it.
THEOREM CeilingHolds == Spec => []ActiveWithinMax
<1>1. Init => RouteInv /\ SmallInv /\ ActiveWithinMax
  BY InitRoutes, SmallInit
<1>2. /\ RouteInv /\ SmallInv /\ ActiveWithinMax /\ [Next]_vars
      => (RouteInv /\ SmallInv /\ ActiveWithinMax)'
  BY RouteStep, SmallStep
<1> QED BY <1>1, <1>2, PTL DEF Spec

-----------------------------------------------------------------------------
(* The stored status only moves forward                                    *)

\* List u has what list q has, each shard as far in its life or further.
Forward(q, u) ==
    \A i \in DOMAIN q :
        /\ i \in DOMAIN u /\ Rank(u[i]) >= Rank(q[i])
        /\ u[i].start = q[i].start /\ u[i].end = q[i].end

\* What a reconcile holds in memory is ahead of what it read: with the conflict
\* check, its update is ahead of what is stored.
ForwardInv == opc # "idle" => Forward(base.shards, mem)

LEMMA RankType ==
    ASSUME NEW s \in ShardRec
    PROVE  /\ Rank(s) \in 0 .. 2
           /\ s.phase = "Active" => Rank(s) = 0
           /\ s.phase = "Closing" => Rank(s) = 1
           /\ s.phase = "Closed" => Rank(s) = 2
<1>1. s.phase \in {"Active", "Closing", "Closed"}
  BY DEF ShardRec, Phase
<1> QED BY <1>1 DEF Rank

LEMMA ForwardRefl ==
    ASSUME NEW q, GoodShards(q)
    PROVE  Forward(q, q)
<1> SUFFICES ASSUME NEW i \in DOMAIN q PROVE Rank(q[i]) >= Rank(q[i])
  BY DEF Forward
<1>1. q[i] \in ShardRec
  BY DEF GoodShards
<1>2. Rank(q[i]) \in 0 .. 2
  BY <1>1, RankType
<1> QED BY <1>2

LEMMA ForwardInitial ==
    ASSUME NEW q, GoodShards(q)
    PROVE  Forward(q, InitialShards(q))
<1>1. CASE q = <<>>
  <2>1. DOMAIN q = {}
    BY <1>1
  <2> QED BY <2>1 DEF Forward
<1>2. CASE q # <<>>
  BY <1>2, ForwardRefl DEF InitialShards
<1> QED BY <1>1, <1>2

\* A list that changes only the phases of its shards, and those to later ones,
\* stays ahead.
LEMMA ForwardTrans ==
    ASSUME NEW q, NEW u, NEW w, GoodShards(q), GoodShards(u), GoodShards(w),
           Forward(q, u), Forward(u, w)
    PROVE  Forward(q, w)
<1> SUFFICES ASSUME NEW i \in DOMAIN q
             PROVE  /\ i \in DOMAIN w /\ Rank(w[i]) >= Rank(q[i])
                    /\ w[i].start = q[i].start /\ w[i].end = q[i].end
  BY DEF Forward
<1>1. /\ i \in DOMAIN u /\ Rank(u[i]) >= Rank(q[i])
      /\ u[i].start = q[i].start /\ u[i].end = q[i].end
  BY DEF Forward
<1>2. /\ i \in DOMAIN w /\ Rank(w[i]) >= Rank(u[i])
      /\ w[i].start = u[i].start /\ w[i].end = u[i].end
  BY <1>1 DEF Forward
<1>3. q[i] \in ShardRec /\ u[i] \in ShardRec /\ w[i] \in ShardRec
  BY <1>1, <1>2 DEF GoodShards
<1>4. Rank(q[i]) \in 0 .. 2 /\ Rank(u[i]) \in 0 .. 2 /\ Rank(w[i]) \in 0 .. 2
  BY <1>3, RankType
<1> QED BY <1>1, <1>2, <1>4

LEMMA ForwardSplit ==
    ASSUME NEW q, GoodShards(q), now \in Nat, NEW i \in DOMAIN q, q[i].phase = "Active"
    PROVE  Forward(q, Split(q, i))
<1> DEFINE u == Split(q, i)
<1>1. GoodShards(u)
  BY SplitGood
<1>2. /\ Len(q) \in Nat /\ DOMAIN q = 1 .. Len(q) /\ DOMAIN u = 1 .. Len(q) + 2
      /\ \A j \in 1 .. Len(q) : u[j] = IF j = i THEN [q[i] EXCEPT !.phase = "Closing"] ELSE q[j]
  BY SplitShape
<1> HIDE DEF u
<1> SUFFICES ASSUME NEW j \in DOMAIN q
             PROVE  /\ j \in DOMAIN u /\ Rank(u[j]) >= Rank(q[j])
                    /\ u[j].start = q[j].start /\ u[j].end = q[j].end
  BY DEF Forward, u
<1>3. j \in DOMAIN u
  BY <1>2
<1>4. q[j] \in ShardRec /\ u[j] \in ShardRec
  BY <1>1, <1>3 DEF GoodShards
<1>5. CASE j # i
  <2>1. u[j] = q[j] /\ Rank(q[j]) \in 0 .. 2
    BY <1>2, <1>4, <1>5, RankType
  <2> QED BY <1>3, <2>1
<1>6. CASE j = i
  <2>1. u[j] = [q[j] EXCEPT !.phase = "Closing"]
    BY <1>2, <1>6
  <2>2. u[j].phase = "Closing" /\ u[j].start = q[j].start /\ u[j].end = q[j].end
    BY <1>4, <2>1 DEF ShardRec
  <2>3. Rank(u[j]) = 1 /\ Rank(q[j]) = 0
    BY <1>4, <1>6, <2>2, RankType
  <2> QED BY <1>3, <2>2, <2>3
<1> QED BY <1>5, <1>6

LEMMA ForwardClose ==
    ASSUME NEW q, GoodShards(q), NEW D,
           \A i \in DOMAIN q : q[i].id \in D => q[i].phase # "Active"
    PROVE  GoodShards(Close(q, D)) /\ Forward(q, Close(q, D))
<1> DEFINE u == Close(q, D)
<1>1. GoodShards(u)
  BY CloseGood
<1>2. /\ DOMAIN u = DOMAIN q
      /\ \A j \in DOMAIN q : u[j] = IF q[j].id \in D THEN [q[j] EXCEPT !.phase = "Closed"] ELSE q[j]
  BY DEF Close
<1> HIDE DEF u
<1> SUFFICES ASSUME NEW j \in DOMAIN q
             PROVE  /\ j \in DOMAIN u /\ Rank(u[j]) >= Rank(q[j])
                    /\ u[j].start = q[j].start /\ u[j].end = q[j].end
  BY <1>1 DEF Forward, u
<1>3. q[j] \in ShardRec /\ u[j] \in ShardRec /\ j \in DOMAIN u
  BY <1>1, <1>2 DEF GoodShards
<1>4. Rank(q[j]) \in 0 .. 2
  BY <1>3, RankType
<1>5. CASE q[j].id \notin D
  BY <1>2, <1>3, <1>4, <1>5
<1>6. CASE q[j].id \in D
  <2>1. u[j] = [q[j] EXCEPT !.phase = "Closed"]
    BY <1>2, <1>6
  <2>2. u[j].phase = "Closed" /\ u[j].start = q[j].start /\ u[j].end = q[j].end
    BY <1>3, <2>1 DEF ShardRec
  <2>3. Rank(u[j]) = 2
    BY <1>3, <2>2, RankType
  <2> QED BY <1>3, <1>4, <2>2, <2>3
<1> QED BY <1>5, <1>6

LEMMA ForwardStep ==
    ASSUME RouteInv, ForwardInv, [Next]_vars
    PROVE  ForwardInv'
<1>0. /\ now \in Nat /\ GoodShards(mem) /\ GoodShards(Cached.shards)
      /\ opc # "idle" => GoodShards(base.shards) /\ Forward(base.shards, mem)
  BY EndsGood DEF RouteInv, ForwardInv, ObjectInv, LoopInv
<1> SUFFICES ASSUME opc' # "idle" PROVE Forward(base'.shards, mem')
  BY DEF ForwardInv
<1>1. Forward(Cached.shards, Cached.shards) /\ Forward(Cached.shards, InitialShards(Cached.shards))
  BY <1>0, ForwardRefl, ForwardInitial
<1>2. opc # "idle" => Forward(base.shards, InitialShards(base.shards))
  BY <1>0, ForwardInitial
<1>3. ASSUME opc # "idle", oi \in DOMAIN mem, mem[oi].phase = "Active"
      PROVE  Forward(base.shards, Split(mem, oi))
  <2>1. GoodShards(Split(mem, oi)) /\ Forward(mem, Split(mem, oi))
    BY <1>0, <1>3, SplitGood, ForwardSplit
  <2> QED BY <1>0, <1>3, <2>1, ForwardTrans
<1>4. ASSUME opc # "idle", NEW D, \A i \in DOMAIN mem : mem[i].id \in D => mem[i].phase # "Active"
      PROVE  Forward(base.shards, Close(mem, D))
  <2>1. GoodShards(Close(mem, D)) /\ Forward(mem, Close(mem, D))
    BY <1>0, <1>4, ForwardClose
  <2> QED BY <1>0, <1>4, <2>1, ForwardTrans
<1> QED BY <1>0, <1>1, <1>2, <1>3, <1>4, MemMoves

\* A step leaves the stored status, gives it a later one, or ends the object.
LEMMA StatusStep ==
    ASSUME RouteInv, ForwardInv, [Next]_vars, Stored'.uid = Stored.uid, ~Gone(Stored')
    PROVE  Forward(Stored.shards, Stored'.shards)
<1>0. /\ Stored \in ObjectRec /\ GoodShards(Stored.shards) /\ ObjectInv
      /\ opc # "idle" => base \in ObjectRec /\ Forward(base.shards, mem)
  BY EndsGood DEF RouteInv, ForwardInv, ObjectInv
<1>1. Forward(Stored.shards, Stored.shards)
  BY <1>0, ForwardRefl
<1>2. CASE Seen
  BY <1>1, <1>2 DEF Seen
<1>3. CASE \E o \in ObjectRec : Store(o) /\ Writes(o)
  <2>1. PICK o \in ObjectRec : Store(o) /\ Writes(o)
    BY <1>3
  <2>2. Stored' = o
    BY <1>0, <2>1, StoreShape
  <2>3. CASE opc = "finalizer" /\ ~Conflict /\ o = [base EXCEPT !.finalizer = TRUE]
    <3>1. o.shards = Stored.shards
      BY <1>0, <2>3 DEF Conflict, ObjectRec
    <3> QED BY <1>1, <2>2, <3>1
  <2>4. CASE /\ opc \in {"ready", "failed"} /\ ~Conflict
             /\ o = [base EXCEPT !.shards = mem,
                                 !.phase = IF opc = "ready" THEN "Ready" ELSE "Failed"]
    <3>1. o.shards = mem /\ Stored = base
      BY <1>0, <2>4 DEF Conflict, ObjectRec
    <3> QED BY <1>0, <2>2, <2>4, <3>1
  <2>5. CASE o = [Stored EXCEPT !.deleting = TRUE]
    <3>1. o.shards = Stored.shards
      BY <1>0, <2>5 DEF ObjectRec
    <3> QED BY <1>1, <2>2, <3>1
  <2>6. \A p : o # Tombstone(p)
    BY <2>2 DEF Tombstone, Bare, Gone
  <2>7. \A spec : o # NewObject(Stored.uid + 1, spec)
    <3>1. Stored.uid \in Nat
      BY <1>0 DEF ObjectRec
    <3> QED BY <2>2, <3>1 DEF NewObject, Bare
  <2> QED BY <2>1, <2>3, <2>4, <2>5, <2>6, <2>7 DEF Writes
<1> QED BY <1>2, <1>3, VersionMoves

\* While a Queue lives, no update takes a shard out of its status, opens it
\* again or moves its range, though the reconciler works from a cached copy:
\* the resource version makes a late update fail, and in memory a shard only
\* goes from active to closing to closed.
THEOREM StatusNeverGoesBack == Spec => StatusForward
<1>1. Init => RouteInv /\ ForwardInv
  BY InitRoutes DEF Init, ForwardInv
<1>2. RouteInv /\ ForwardInv /\ [Next]_vars => (RouteInv /\ ForwardInv)'
  BY RouteStep, ForwardStep
<1>3. RouteInv /\ ForwardInv /\ [Next]_vars
      => [Stored'.uid = Stored.uid /\ ~Gone(Stored') =>
             \A i \in DOMAIN Stored.shards :
                 /\ i \in DOMAIN Stored'.shards
                 /\ Rank(Stored'.shards[i]) >= Rank(Stored.shards[i])
                 /\ Stored'.shards[i].start = Stored.shards[i].start
                 /\ Stored'.shards[i].end = Stored.shards[i].end]_vars
  BY StatusStep DEF Forward
<1> QED BY <1>1, <1>2, <1>3, PTL DEF Spec, StatusForward

-----------------------------------------------------------------------------
(* Type correctness                                                        *)

\* What the types need beyond RouteInv and SmallInv, which bound the lists of
\* shards wherever they are.
Flags == worker \in BOOLEAN /\ meta \in BOOLEAN /\ queued \in BOOLEAN
KafkaTypes == topics \subseteq Id /\ lag \in [Id -> 0 .. MaxLag]
SendTypes == target \in [Sender -> Id \cup {NoTopic, QueueFound}] /\ faults \in 0 .. MaxFaults
SetTypes == shardmap \subseteq Shard /\ drained \subseteq Id /\ sampled \subseteq Id
PcTypes ==
    /\ opc \in FailsQueue \cup JustFails \cup {"idle"}
    /\ opc = "idle" => base = NoObject
    /\ opc = "delete" => oi \in 1 .. Len(mem)
    /\ opc \notin Loops \cup {"delete"} => oi = 1
UidTypes ==
    /\ \A k \in DOMAIN versions : versions[k].uid \in 1 .. MaxCreates
    /\ opc # "idle" => base.uid \in 1 .. MaxCreates
TypeRest == Flags /\ KafkaTypes /\ SendTypes /\ SetTypes /\ PcTypes /\ UidTypes

LEMMA ShardTypes ==
    ASSUME NEW q, GoodShards(q), SmallShards(q)
    PROVE  /\ q \in Seq(Shard) /\ Len(q) \in 0 .. 2 * MaxShards - 1 /\ DOMAIN q = 1 .. Len(q)
           /\ \A i \in DOMAIN q : q[i] \in Shard /\ q[i].id \in Id
<1> DEFINE n == Len(q)
           c == Cardinality(Active(q))
<1>1. q \in Seq(ShardRec) /\ n \in Nat /\ DOMAIN q = 1 .. n
  BY DEF GoodShards
<1>2. n <= 2 * MaxShards - 1
  <2>1. CASE q = <<>>
    BY <2>1, SpecAssumption
  <2>2. CASE q # <<>>
    <3>1. c \in Nat /\ c <= MaxShards /\ n = 2 * c - 1
      BY <2>2, ActiveFinite DEF SmallShards
    <3> HIDE DEF c, n
    <3> QED BY <3>1, SpecAssumption
  <2> QED BY <2>1, <2>2
<1>3. ASSUME NEW i \in DOMAIN q PROVE q[i] \in Shard /\ q[i].id \in Id
  <2>1. q[i] \in ShardRec /\ q[i].id = i - 1 /\ q[i].start <= q[i].end /\ i \in 1 .. n
    BY <1>1 DEF GoodShards
  <2>2. q[i].end <= FullHashRangeEnd /\ q[i].created <= MaxTime
    BY DEF SmallShards
  <2>3. q[i].id \in Id
    <3> HIDE DEF n
    <3> QED BY <1>1, <1>2, <2>1, SpecAssumption DEF Id
  <2>4. /\ q[i].start \in Nat /\ q[i].end \in Nat /\ q[i].created \in Nat
        /\ q[i] = [id |-> q[i].id, start |-> q[i].start, end |-> q[i].end,
                   phase |-> q[i].phase, created |-> q[i].created]
        /\ q[i].phase \in Phase
    BY <2>1 DEF ShardRec
  <2>5. /\ q[i].start \in 0 .. FullHashRangeEnd /\ q[i].end \in 0 .. FullHashRangeEnd
        /\ q[i].created \in 0 .. MaxTime
    BY <2>1, <2>2, <2>4, RangeAssumption, BoundAssumption
  <2> QED BY <2>3, <2>4, <2>5 DEF Shard
<1>4. q \in Seq(Shard)
  BY <1>1, <1>3
<1> QED BY <1>1, <1>2, <1>3, <1>4, SpecAssumption

\* What a step of the reconciler knows about the shard it is at.
LEMMA AtShard ==
    ASSUME RouteInv, SmallInv, PcTypes
    PROVE  /\ mem \in Seq(Shard) /\ Len(mem) \in 0 .. 2 * MaxShards - 1
           /\ oi \in 1 .. 2 * MaxShards - 1
           /\ opc \in Loops \cup {"delete"} => oi \in 1 .. Len(mem) /\ mem[oi].id \in Id
<1>1. /\ mem \in Seq(Shard) /\ Len(mem) \in 0 .. 2 * MaxShards - 1 /\ DOMAIN mem = 1 .. Len(mem)
      /\ \A i \in DOMAIN mem : mem[i] \in Shard /\ mem[i].id \in Id
  BY ShardTypes DEF RouteInv, LoopInv, SmallInv
<1>2. opc \in Loops \cup {"delete"} => oi \in 1 .. Len(mem)
  BY DEF RouteInv, LoopInv, PcTypes
<1>3. opc \notin Loops \cup {"delete"} => oi = 1
  BY DEF PcTypes
<1> QED BY <1>1, <1>2, <1>3, SpecAssumption

LEMMA RestInit == Init => TypeRest
<1> SUFFICES ASSUME Init PROVE TypeRest
  OBVIOUS
<1>1. Flags
  BY Zenon DEF Init, Flags
<1>2. KafkaTypes /\ SetTypes
  BY BoundAssumption DEF Init, KafkaTypes, SetTypes
<1>3. SendTypes
  BY BoundAssumption DEF Init, SendTypes, NoTopic
<1>4. PcTypes
  BY DEF Init, PcTypes
<1>5. UidTypes
  <2>1. PICK spec \in Specs : versions = <<NewObject(1, spec)>>
    BY DEF Init
  <2> QED BY <2>1, BoundAssumption DEF Init, UidTypes, NewObject, Bare
<1> QED BY <1>1, <1>2, <1>3, <1>4, <1>5 DEF TypeRest

LEMMA FlagsStep == ASSUME Flags, [Next]_vars PROVE Flags'
<1> USE DEF Flags
<1>1. ASSUME NEW failed, Return(failed) PROVE queued' \in BOOLEAN
  BY <1>1, Zenon DEF Return, Requeue
<1>2. CASE AddFinalizer \/ UpdateStatus \/ RemoveFinalizer
  BY <1>1, <1>2, Zenon DEF AddFinalizer, UpdateStatus, RemoveFinalizer, redisVars
<1>3. CASE RequestFails \/ AnswerLost \/ OperatorCrash
  BY <1>1, <1>3, Zenon DEF RequestFails, AnswerLost, OperatorCrash, redisVars, objectVars
<1>4. CASE \/ ReconcileIgnored \/ ReconcileBegin \/ EnsureTopic \/ SampleShard
           \/ StopSplitting \/ SplitShard \/ CheckLag \/ DeleteDrained
  BY <1>4, Zenon DEF ReconcileIgnored, ReconcileBegin, ReconcileStart, EnsureTopic, SampleShard,
     StopSplitting, SplitShard, CheckLag, DeleteDrained, Goto, redisVars, objectVars
<1>5. CASE \/ PublishMeta \/ PublishMap \/ ReconcileTemporalWorker \/ DeleteShardTopic
           \/ DeleteQueueMeta \/ DeleteShardMap \/ DeleteTemporalWorker
  BY <1>5, Zenon DEF PublishMeta, PublishMap, ReconcileTemporalWorker, DeleteShardTopic,
     DeleteQueueMeta, DeleteShardMap, DeleteTemporalWorker, Goto, redisVars, objectVars
<1>6. CASE Deliver \/ Resync \/ DeleteQueue \/ CreateQueue \/ Tick \/ UNCHANGED vars
  BY <1>6, Zenon DEF Deliver, Resync, DeleteQueue, CreateQueue, Tick, vars, redisVars,
     objectVars, operatorVars
<1>7. CASE \/ \E s \in Sender : FindQueue(s) \/ RouteForSend(s) \/ Produce(s)
           \/ \E t \in Id : Consume(t) \/ RecordsExpire(t)
  BY <1>7, Zenon DEF FindQueue, RouteForSend, Produce, Consume, RecordsExpire, redisVars,
     objectVars, operatorVars
<1> HIDE DEF Flags
<1> QED
  BY <1>2, <1>3, <1>4, <1>5, <1>6, <1>7, Zenon DEF Next, Reconcile, ReconcileStep

LEMMA KafkaStep ==
    ASSUME RouteInv, SmallInv, PcTypes, KafkaTypes, [Next]_vars
    PROVE  KafkaTypes'
<1>0. opc \in Loops \cup {"delete"} => mem[oi].id \in Id
  BY AtShard
<1>1. ASSUME NEW t \in Id, DropTopic(t) PROVE KafkaTypes'
  BY <1>1, BoundAssumption DEF DropTopic, KafkaTypes
<1>2. CASE EnsureTopic \/ AnswerLost
  BY <1>0, <1>1, <1>2 DEF EnsureTopic, AnswerLost, KafkaTypes, Loops
<1>3. CASE DeleteDrained \/ DeleteShardTopic
  BY <1>0, <1>1, <1>3 DEF DeleteDrained, DeleteShardTopic, KafkaTypes, Loops, kafkaVars
<1>4. ASSUME NEW s \in Sender, Produce(s) PROVE KafkaTypes'
  BY <1>4, BoundAssumption DEF Produce, KafkaTypes
<1>5. ASSUME NEW t \in Id, Consume(t) \/ RecordsExpire(t) PROVE KafkaTypes'
  BY <1>5, BoundAssumption DEF Consume, RecordsExpire, KafkaTypes
<1> DEFINE Same == UNCHANGED kafkaVars
<1>6. \/ ReconcileIgnored \/ ReconcileBegin \/ AddFinalizer \/ SampleShard
      \/ StopSplitting \/ SplitShard \/ CheckLag \/ PublishMeta \/ PublishMap
      => Same
  BY DEF ReconcileIgnored, ReconcileBegin, ReconcileStart, AddFinalizer, SampleShard,
     StopSplitting, SplitShard, CheckLag, PublishMeta, PublishMap
<1>7. \/ ReconcileTemporalWorker \/ UpdateStatus \/ DeleteQueueMeta \/ DeleteShardMap
      \/ DeleteTemporalWorker \/ RemoveFinalizer \/ RequestFails \/ OperatorCrash
      => Same
  BY DEF ReconcileTemporalWorker, UpdateStatus, DeleteQueueMeta, DeleteShardMap,
     DeleteTemporalWorker, RemoveFinalizer, RequestFails, OperatorCrash
<1>8. Deliver \/ Resync \/ DeleteQueue \/ CreateQueue \/ Tick \/ UNCHANGED vars => Same
  BY DEF Deliver, Resync, DeleteQueue, CreateQueue, Tick, vars
<1>9. ASSUME NEW s \in Sender, FindQueue(s) \/ RouteForSend(s) PROVE Same
  BY <1>9 DEF FindQueue, RouteForSend
<1>10. Same => KafkaTypes'
  BY DEF KafkaTypes, kafkaVars
<1> HIDE DEF Same
<1> QED
  BY <1>2, <1>3, <1>4, <1>5, <1>6, <1>7, <1>8, <1>9, <1>10 DEF Next, Reconcile, ReconcileStep

LEMMA SendStep ==
    ASSUME SetTypes, SendTypes, [Next]_vars
    PROVE  SendTypes'
<1> USE BoundAssumption
<1>1. CASE RequestFails \/ AnswerLost \/ OperatorCrash \/ CheckLag
  <2>1. target' = target /\ (faults' = faults \/ (faults < MaxFaults /\ faults' = faults + 1))
    BY <1>1 DEF RequestFails, AnswerLost, OperatorCrash, CheckLag
  <2> QED BY <2>1 DEF SendTypes
<1>2. ASSUME NEW s \in Sender, RouteForSend(s) PROVE SendTypes'
  <2>1. \A h : \A o \in Owners(shardmap, h) : o.id \in Id
    BY DEF SetTypes, Owners, Shard
  <2> QED BY <1>2, <2>1 DEF RouteForSend, SendTypes
<1>3. ASSUME NEW s \in Sender, FindQueue(s) \/ Produce(s) PROVE SendTypes'
  BY <1>3 DEF FindQueue, Produce, SendTypes
<1> DEFINE Same == UNCHANGED <<target, faults>>
<1>4. \/ ReconcileIgnored \/ ReconcileBegin \/ AddFinalizer \/ EnsureTopic \/ SampleShard
      \/ StopSplitting \/ SplitShard \/ DeleteDrained \/ PublishMeta \/ PublishMap
      => Same
  BY DEF ReconcileIgnored, ReconcileBegin, ReconcileStart, AddFinalizer, EnsureTopic, SampleShard,
     StopSplitting, SplitShard, DeleteDrained, PublishMeta, PublishMap
<1>5. \/ ReconcileTemporalWorker \/ UpdateStatus \/ DeleteShardTopic \/ DeleteQueueMeta
      \/ DeleteShardMap \/ DeleteTemporalWorker \/ RemoveFinalizer
      => Same
  BY DEF ReconcileTemporalWorker, UpdateStatus, DeleteShardTopic, DeleteQueueMeta,
     DeleteShardMap, DeleteTemporalWorker, RemoveFinalizer
<1>6. Deliver \/ Resync \/ DeleteQueue \/ CreateQueue \/ Tick \/ UNCHANGED vars => Same
  BY DEF Deliver, Resync, DeleteQueue, CreateQueue, Tick, vars
<1>7. ASSUME NEW t \in Id, Consume(t) \/ RecordsExpire(t) PROVE Same
  BY <1>7 DEF Consume, RecordsExpire
<1>8. Same => SendTypes'
  BY DEF SendTypes
<1> HIDE DEF Same
<1> QED
  BY <1>1, <1>2, <1>3, <1>4, <1>5, <1>6, <1>7, <1>8 DEF Next, Reconcile, ReconcileStep

LEMMA SetStep ==
    ASSUME RouteInv, SmallInv, PcTypes, SetTypes, [Next]_vars
    PROVE  SetTypes'
<1>0. /\ opc \in Loops \cup {"delete"} => mem[oi].id \in Id
      /\ Published(mem) \subseteq Shard
  <2>1. \A i \in DOMAIN mem : mem[i] \in Shard
    BY ShardTypes DEF RouteInv, LoopInv, SmallInv
  <2> QED BY <2>1, AtShard DEF Published
<1>1. shardmap' \subseteq Shard
  BY <1>0, MapMoves DEF SetTypes
<1> DEFINE D == drained' \subseteq Id
           S == sampled' \subseteq Id
<1> SUFFICES D /\ S
  BY <1>1 DEF SetTypes
<1>2. ASSUME NEW failed, Return(failed) PROVE D /\ S
  BY <1>2 DEF Return, SetTypes
<1>3. ASSUME NEW pc, Goto(pc) PROVE D /\ S
  BY <1>3 DEF Goto, SetTypes
<1>4. CASE AddFinalizer \/ UpdateStatus \/ RemoveFinalizer \/ RequestFails \/ AnswerLost
  BY <1>2, <1>4 DEF AddFinalizer, UpdateStatus, RemoveFinalizer, RequestFails, AnswerLost, SetTypes
<1>5. CASE \/ StopSplitting \/ PublishMeta \/ PublishMap \/ ReconcileTemporalWorker
           \/ DeleteQueueMeta \/ DeleteShardMap \/ DeleteTemporalWorker
  BY <1>3, <1>5 DEF StopSplitting, PublishMeta, PublishMap, ReconcileTemporalWorker,
     DeleteQueueMeta, DeleteShardMap, DeleteTemporalWorker
<1>6. CASE SampleShard \/ SplitShard
  BY <1>0, <1>6 DEF SampleShard, SplitShard, Loops, SetTypes
<1>7. CASE CheckLag
  BY <1>7 DEF CheckLag, NextDrain, SetTypes
<1>8. CASE DeleteDrained
  BY <1>0, <1>8 DEF DeleteDrained, Loops, SetTypes
<1>9. CASE OperatorCrash
  BY <1>9 DEF OperatorCrash
<1>10. CASE UNCHANGED <<drained, sampled>>
  BY <1>10 DEF SetTypes
<1>11. CASE ReconcileIgnored \/ ReconcileBegin \/ EnsureTopic \/ DeleteShardTopic
  BY <1>11 DEF ReconcileIgnored, ReconcileBegin, ReconcileStart, EnsureTopic, DeleteShardTopic,
     SetTypes
<1>12. Deliver \/ Resync \/ DeleteQueue \/ CreateQueue \/ Tick \/ UNCHANGED vars
       => UNCHANGED <<drained, sampled>>
  BY DEF Deliver, Resync, DeleteQueue, CreateQueue, Tick, vars, operatorVars, localVars
<1>13. ASSUME NEW s \in Sender, FindQueue(s) \/ RouteForSend(s) \/ Produce(s)
       PROVE  UNCHANGED <<drained, sampled>>
  BY <1>13 DEF FindQueue, RouteForSend, Produce, operatorVars, localVars
<1>14. ASSUME NEW t \in Id, Consume(t) \/ RecordsExpire(t)
       PROVE  UNCHANGED <<drained, sampled>>
  BY <1>14 DEF Consume, RecordsExpire, operatorVars, localVars
<1> HIDE DEF D, S
<1> QED
  BY <1>4, <1>5, <1>6, <1>7, <1>8, <1>9, <1>10, <1>11, <1>12, <1>13, <1>14
  DEF Next, Reconcile, ReconcileStep

LEMMA PcStep ==
    ASSUME RouteInv, PcTypes, [Next]_vars
    PROVE  PcTypes'
<1> USE DEF FailsQueue, JustFails, Loops
<1>0. /\ opc \in {"idle", "finalizer"} => oi = 1
      /\ opc \in Loops => oi \in 1 .. Len(mem)
      /\ Len(mem) \in Nat
      /\ Cached.shards \in Seq(ShardRec)
  <2>1. mem \in Seq(ShardRec)
    BY DEF RouteInv, LoopInv, GoodShards
  <2> QED BY <2>1, EndsGood DEF RouteInv, LoopInv, GoodShards
<1>1. ASSUME NEW failed, Return(failed) PROVE PcTypes'
  BY <1>1 DEF Return, PcTypes
<1>2. ASSUME NEW pc \in FailsQueue \cup JustFails, Goto(pc), pc \notin Loops \cup {"delete"}
      PROVE  PcTypes'
  BY <1>2 DEF Goto, PcTypes
<1>3. CASE ReconcileBegin
  <2>1. /\ opc' = FirstStep(Cached) /\ opc = "idle" /\ oi' = oi
        /\ opc' # "topics" => mem' = Cached.shards
    BY <1>3 DEF ReconcileBegin, ReconcileStart
  <2>2. opc' \in {"delmeta", "delete", "failed", "finalizer", "topics"}
    BY <2>1 DEF FirstStep
  <2>3. opc' = "delete" => Cached.shards # <<>>
    BY <2>1 DEF FirstStep
  <2>4. opc' = "delete" => 1 \in 1 .. Len(mem')
    BY <1>0, <2>1, <2>3
  <2> QED BY <1>0, <2>1, <2>2, <2>4 DEF PcTypes
<1>4. CASE AddFinalizer
  <2>1. Return(TRUE) \/ opc' = "topics"
    BY <1>4 DEF AddFinalizer
  <2> QED BY <1>1, <2>1 DEF PcTypes
<1>5. CASE UpdateStatus
  BY <1>1, <1>5 DEF UpdateStatus
<1>6. CASE RemoveFinalizer
  BY <1>1, <1>6 DEF RemoveFinalizer
<1>7. CASE RequestFails
  <2>1. (opc' = "failed" /\ oi' = 1) \/ Return(TRUE)
    BY <1>7 DEF RequestFails
  <2> QED BY <1>1, <2>1 DEF PcTypes
<1>8. CASE AnswerLost
  BY <1>8 DEF AnswerLost, PcTypes
<1>9. CASE OperatorCrash
  BY <1>9 DEF OperatorCrash, PcTypes
<1>10. CASE EnsureTopic \/ SampleShard \/ SplitShard
  <2>1. \/ opc' = opc /\ opc \in {"topics", "split"}
        \/ opc' \in {"split", "drain"}
    BY <1>10 DEF EnsureTopic, SampleShard, SplitShard, NextShard
  <2> QED BY <2>1 DEF PcTypes
<1>11. CASE CheckLag \/ DeleteDrained
  <2>1. opc' \in {"drain", "deltopic"} \/ (opc' = "meta" /\ oi' = 1)
    BY <1>11 DEF CheckLag, DeleteDrained, NextDrain, NextShard
  <2> QED BY <2>1 DEF PcTypes
<1>12. CASE DeleteShardTopic
  <2>1. /\ opc = "delete" /\ mem' = mem
        /\ \/ oi < Len(mem) /\ oi' = oi + 1 /\ opc' = opc
           \/ oi' = 1 /\ opc' = "delmeta"
    BY <1>12 DEF DeleteShardTopic, NextShard
  <2>2. oi \in 1 .. Len(mem)
    BY <2>1 DEF PcTypes
  <2>3. oi < Len(mem) => oi + 1 \in 1 .. Len(mem)
    BY <1>0, <2>2
  <2> QED BY <2>1, <2>3 DEF PcTypes
<1>13. CASE StopSplitting
  BY <1>13 DEF StopSplitting, Goto, PcTypes
<1>14. CASE \/ PublishMeta \/ PublishMap \/ ReconcileTemporalWorker
            \/ DeleteQueueMeta \/ DeleteShardMap \/ DeleteTemporalWorker
  <2>1. \E pc \in {"map", "temporal", "ready", "delmap", "delworker", "unfinalize"} : Goto(pc)
    BY <1>14 DEF PublishMeta, PublishMap, ReconcileTemporalWorker, DeleteQueueMeta,
       DeleteShardMap, DeleteTemporalWorker
  <2> QED BY <1>2, <2>1
<1> DEFINE Same == UNCHANGED <<opc, base, mem, oi>>
<1>15. ReconcileIgnored \/ Deliver \/ Resync \/ DeleteQueue \/ CreateQueue \/ Tick
       \/ UNCHANGED vars => Same
  BY DEF ReconcileIgnored, ReconcileStart, Deliver, Resync, DeleteQueue, CreateQueue, Tick,
     vars, operatorVars, localVars
<1>16. ASSUME NEW s \in Sender, FindQueue(s) \/ RouteForSend(s) \/ Produce(s) PROVE Same
  BY <1>16 DEF FindQueue, RouteForSend, Produce, operatorVars, localVars
<1>17. ASSUME NEW t \in Id, Consume(t) \/ RecordsExpire(t) PROVE Same
  BY <1>17 DEF Consume, RecordsExpire, operatorVars, localVars
<1>18. Same => PcTypes'
  BY DEF PcTypes
<1> HIDE DEF Same
<1> QED
  BY <1>3, <1>4, <1>5, <1>6, <1>7, <1>8, <1>9, <1>10, <1>11, <1>12, <1>13, <1>14, <1>15, <1>16,
     <1>17, <1>18 DEF Next, Reconcile, ReconcileStep

\* What a reconcile works with: what it worked with, or what the cache has.
LEMMA BaseMoves ==
    ASSUME RouteInv, [Next]_vars, opc' # "idle"
    PROVE  \/ opc # "idle" /\ base' = base
           \/ ReconcileBegin /\ base' = Cached
           \/ AddFinalizer /\ ~Conflict /\ base' = [base EXCEPT !.finalizer = TRUE]
<1>1. ReconcileBegin => base' = Cached
  BY DEF ReconcileBegin
<1>2. AddFinalizer => ~Conflict /\ base' = [base EXCEPT !.finalizer = TRUE]
  BY DEF AddFinalizer, Return
<1> DEFINE Same == opc # "idle" /\ base' = base
<1>3. \/ EnsureTopic \/ SampleShard \/ SplitShard \/ CheckLag \/ DeleteDrained \/ StopSplitting
      \/ DeleteShardTopic
      => Same
  BY DEF EnsureTopic, SampleShard, SplitShard, CheckLag, DeleteDrained, StopSplitting,
     DeleteShardTopic, Goto
<1>4. \/ PublishMeta \/ PublishMap \/ ReconcileTemporalWorker \/ DeleteQueueMeta
      \/ DeleteShardMap \/ DeleteTemporalWorker
      => Same
  BY DEF PublishMeta, PublishMap, ReconcileTemporalWorker, DeleteQueueMeta, DeleteShardMap,
     DeleteTemporalWorker, Goto
<1>5. UpdateStatus \/ RemoveFinalizer \/ RequestFails \/ AnswerLost \/ OperatorCrash => Same
  BY DEF UpdateStatus, RemoveFinalizer, RequestFails, AnswerLost, OperatorCrash, Return, FailsQueue
<1>6. ReconcileIgnored \/ Deliver \/ Resync \/ DeleteQueue \/ CreateQueue \/ Tick
      \/ UNCHANGED vars => Same
  BY DEF ReconcileIgnored, ReconcileStart, Deliver, Resync, DeleteQueue, CreateQueue, Tick,
     vars, operatorVars, localVars
<1>7. ASSUME NEW s \in Sender, FindQueue(s) \/ RouteForSend(s) \/ Produce(s) PROVE Same
  BY <1>7 DEF FindQueue, RouteForSend, Produce, operatorVars, localVars
<1>8. ASSUME NEW t \in Id, Consume(t) \/ RecordsExpire(t) PROVE Same
  BY <1>8 DEF Consume, RecordsExpire, operatorVars, localVars
<1>9. Same \/ ReconcileBegin \/ AddFinalizer
  <2> HIDE DEF Same
  <2> QED BY <1>3, <1>4, <1>5, <1>6, <1>7, <1>8 DEF Next, Reconcile, ReconcileStep
<1> QED BY <1>1, <1>2, <1>9

LEMMA UidStep ==
    ASSUME RouteInv, UidTypes, [Next]_vars
    PROVE  UidTypes'
<1>0. /\ ObjectInv /\ Stored \in ObjectRec /\ Cached \in ObjectRec
      /\ opc # "idle" => base \in ObjectRec /\ base.uid \in 1 .. MaxCreates
      /\ \A k \in DOMAIN versions : versions[k].uid \in 1 .. MaxCreates
  BY EndsGood DEF RouteInv, ObjectInv, UidTypes
<1>1. Stored.uid \in 1 .. MaxCreates /\ Cached.uid \in 1 .. MaxCreates
  <2>1. Len(versions) \in DOMAIN versions /\ 1 \in DOMAIN versions
    BY <1>0 DEF ObjectInv
  <2> QED BY <1>0, <2>1 DEF Stored, Cached
<1>2. \A k \in DOMAIN versions' : versions'[k].uid \in 1 .. MaxCreates
  <2>1. CASE Seen
    <3>1. PICK k \in Nat : SeenShift(k)
      BY <2>1 DEF Seen
    <3> QED BY <1>0, <3>1 DEF SeenShift
  <2>2. CASE \E o \in ObjectRec : Store(o) /\ Writes(o)
    <3>1. PICK o \in ObjectRec : Store(o) /\ Writes(o)
      BY <2>2
    <3>2. o.uid \in 1 .. MaxCreates
      <4>1. opc = "finalizer" /\ o = [base EXCEPT !.finalizer = TRUE] => o.uid = base.uid
        BY <1>0 DEF ObjectRec
      <4>2. ASSUME opc \in {"ready", "failed"}, NEW p, o = [base EXCEPT !.shards = mem, !.phase = p]
            PROVE  o.uid = base.uid
        BY <1>0, <4>2 DEF ObjectRec
      <4>3. o = [Stored EXCEPT !.deleting = TRUE] => o.uid = Stored.uid
        BY <1>0 DEF ObjectRec
      <4>4. \A p : o = Tombstone(p) => o.uid = p.uid
        BY DEF Tombstone, Bare
      <4>5. \A spec : o = NewObject(Stored.uid + 1, spec) => o.uid = Stored.uid + 1
        BY DEF NewObject, Bare
      <4>6. Stored.uid < MaxCreates => Stored.uid + 1 \in 1 .. MaxCreates
        BY <1>1, BoundAssumption
      <4> QED BY <1>0, <1>1, <3>1, <4>1, <4>2, <4>3, <4>4, <4>5, <4>6 DEF Writes
    <3>3. \A k \in DOMAIN versions' : \/ k \in DOMAIN versions /\ versions'[k] = versions[k]
                                      \/ versions'[k] = o
      BY <1>0, <3>1, StoreShape
    <3> QED BY <1>0, <3>2, <3>3
  <2> QED BY <2>1, <2>2, VersionMoves
<1>3. opc' # "idle" => base'.uid \in 1 .. MaxCreates
  <2>1. AddFinalizer => opc # "idle"
    BY DEF AddFinalizer
  <2>2. opc # "idle" => [base EXCEPT !.finalizer = TRUE].uid = base.uid
    BY <1>0 DEF ObjectRec
  <2> QED BY <1>0, <1>1, <2>1, <2>2, BaseMoves
<1> QED BY <1>2, <1>3 DEF UidTypes

\* An object of the proofs that is within the bounds is one of the model.
LEMMA ObjectTypes ==
    ASSUME NEW o \in ObjectRec, o.uid \in 1 .. MaxCreates, GoodShards(o.shards),
           SmallShards(o.shards)
    PROVE  o \in Object
<1>1. o.shards \in Seq(Shard)
  BY ShardTypes
<1> QED BY <1>1 DEF ObjectRec, Object

\* Every variable keeps its type.  That no shard, topic or loop index ever
\* leaves the 2 * maxShards - 1 numbers there are is a consequence of how a
\* split counts active shards.
THEOREM OperatorTypes == Spec => []TypeOK
<1> DEFINE Inv == RouteInv /\ SmallInv /\ ActiveWithinMax /\ TypeRest
<1>1. Init => Inv
  BY InitRoutes, SmallInit, RestInit
<1>2. Inv /\ [Next]_vars => Inv'
  BY RouteStep, SmallStep, FlagsStep, KafkaStep, SendStep, SetStep, PcStep, UidStep DEF TypeRest
<1>3. Inv => TypeOK
  <2> SUFFICES ASSUME Inv PROVE TypeOK
    OBVIOUS
  <2>1. \A k \in DOMAIN versions : versions[k] \in Object
    BY ObjectTypes DEF RouteInv, ObjectInv, SmallInv, TypeRest, UidTypes
  <2>2. versions \in Seq(Object) /\ versions # <<>>
    BY <2>1 DEF RouteInv, ObjectInv
  <2>3. opc # "idle" => base \in Object
    BY ObjectTypes DEF RouteInv, ObjectInv, SmallInv, TypeRest, UidTypes
  <2>4. base \in Object \cup {NoObject} /\ opc \in FailsQueue \cup JustFails \cup {"idle"}
    BY <2>3 DEF TypeRest, PcTypes
  <2>5. mem \in Seq(Shard) /\ oi \in 1 .. 2 * MaxShards - 1
    BY AtShard DEF TypeRest
  <2>6. now \in 0 .. MaxTime
    BY BoundAssumption DEF RouteInv, LoopInv, SmallInv
  <2>7. worker \in BOOLEAN /\ meta \in BOOLEAN /\ queued \in BOOLEAN
    BY DEF TypeRest, Flags
  <2> QED
    BY <2>2, <2>3, <2>4, <2>5, <2>6, <2>7 DEF TypeRest, KafkaTypes, SendTypes, SetTypes, TypeOK
<1> QED BY <1>1, <1>2, <1>3, PTL DEF Spec
=============================================================================
