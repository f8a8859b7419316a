--------------------------- MODULE DhtNodeProofs ----------------------------
(***************************************************************************)
(* The routing table stays searchable through every operation, a node      *)
(* changes it by these operations only, and what a node holds of others    *)
(* and of itself follows from the answers it got: for any IDs, endpoints,  *)
(* limits and addresses.                                                   *)
(***************************************************************************)
EXTENDS DhtNode, TLAPS, FiniteSetTheorems, FunctionTheorems, SequenceTheorems

\* Bucket i of m, holding the nodes N and the cache C: each belongs here, under an ID of its
\* own, and a bucket that can still be split has no cache.
GoodBucket(N, C, i, m) ==
    /\ N \subseteq Node /\ C \subseteq Node
    /\ IsFiniteSet(N) /\ Cardinality(N) <= K
    /\ IsFiniteSet(C) /\ Cardinality(C) <= K
    /\ \A n \in N \cup C : n.id # self /\ bucketIndexFor(n.id, m) = i
    /\ \A n, k \in N \cup C : n.id = k.id => n = k
    /\ N \cap C = {}
    /\ canSplit(i, m) => C = {}

\* A table of one bucket per bit at most, each of them good.
Good(bs) ==
    /\ bs \in Seq(Pair) /\ Len(bs) \in 1..Bits
    /\ \A i \in 1..Len(bs) : GoodBucket(bs[i].nodes, bs[i].cache, i, Len(bs))

\* Who is in the table or in a cache, and who waits to be put there by rebuild().
Held(bs) == InTable(bs) \cup InCache(bs)
Waiting == left.nodes \cup left.cache

\* What rebuild() has yet to insert: no ID twice, and none that is in the table already.
WaitingApart ==
    /\ left.nodes \cap left.cache = {}
    /\ \A n, k \in Waiting : n.id = k.id => n = k
    /\ \A n \in Waiting, k \in Held(buckets) : n.id # k.id

\* The inductive invariant of the table.
TInv == self \in Ids /\ now \in 1..MaxNow /\ left \in Pair /\ Good(buckets) /\ WaitingApart

-----------------------------------------------------------------------------
(* Places                                                                  *)

\* Every ID has a place among m buckets, and keeps it when buckets are added unless it was
\* the last.
LEMMA Places ==
    ASSUME NEW id, NEW m \in Nat \ {0}
    PROVE  /\ commonPrefixLength(self, id) \in Nat
           /\ bucketIndexFor(id, m) \in 1..m
           /\ \A k \in Nat : k >= m /\ bucketIndexFor(id, m) < m
                               => bucketIndexFor(id, k) = bucketIndexFor(id, m)
           /\ \A k \in Nat : k >= m /\ bucketIndexFor(id, m) = m => bucketIndexFor(id, k) \in m..k
<1> DEFINE c == commonPrefixLength(self, id)
           S == {n \in 1..Bits : \A i \in 1..n : self[i] = id[i]}
<1>1. IsFiniteSet(1..Bits) /\ S \in SUBSET (1..Bits)
  BY TableAssumption, FS_Interval
<1>2. c \in Nat
  <2>1. IsFiniteSet(S)
    BY <1>1, FS_Subset
  <2>2. QED
    BY <2>1, FS_CardinalityType DEF commonPrefixLength
<1> HIDE DEF c, S
<1>3. \A k \in Nat : bucketIndexFor(id, k) = IF c < k THEN c + 1 ELSE k
  BY DEF bucketIndexFor, Place, c
<1>4. QED
  BY <1>2, <1>3 DEF c

\* The table's entries, bucket by bucket.
LEMMA Entries ==
    ASSUME NEW bs
    PROVE  /\ \A n : n \in InTable(bs) <=> \E i \in 1..Len(bs) : n \in bs[i].nodes
           /\ \A n : n \in InCache(bs) <=> \E i \in 1..Len(bs) : n \in bs[i].cache
  BY DEF InTable, InCache

-----------------------------------------------------------------------------
(* One bucket                                                              *)

\* Dropping entries leaves a bucket good.
LEMMA Fewer ==
    ASSUME NEW N, NEW C, NEW i, NEW m, GoodBucket(N, C, i, m),
           NEW N1 \in SUBSET N, NEW C1 \in SUBSET C
    PROVE  GoodBucket(N1, C1, i, m)
<1>1. /\ IsFiniteSet(N) /\ Cardinality(N) \in Nat /\ Cardinality(N) <= K
      /\ IsFiniteSet(C) /\ Cardinality(C) \in Nat /\ Cardinality(C) <= K
  BY FS_CardinalityType DEF GoodBucket
<1>2. /\ IsFiniteSet(N1) /\ Cardinality(N1) \in Nat /\ Cardinality(N1) <= Cardinality(N)
      /\ IsFiniteSet(C1) /\ Cardinality(C1) \in Nat /\ Cardinality(C1) <= Cardinality(C)
  BY <1>1, FS_Subset, FS_CardinalityType
<1>3. Cardinality(N1) <= K /\ Cardinality(C1) <= K
  BY <1>1, <1>2, TableAssumption
<1>4. QED
  BY <1>2, <1>3, Zenon DEF GoodBucket

\* x may join the bucket: it belongs here and nothing here has its ID.
Fits(x, N, C, i, m) ==
    /\ x \in Node /\ x.id # self /\ bucketIndexFor(x.id, m) = i
    /\ \A n \in N \cup C : n.id # x.id

\* A node that belongs here joins a bucket that is not full.
LEMMA Joined ==
    ASSUME NEW N, NEW C, NEW i, NEW m, GoodBucket(N, C, i, m),
           NEW x, Fits(x, N, C, i, m), Cardinality(N) < K
    PROVE  GoodBucket(N \cup {x}, C, i, m)
<1>1. IsFiniteSet(N) /\ Cardinality(N) \in Nat /\ x \notin N /\ x \notin C
  BY FS_CardinalityType DEF GoodBucket, Fits
<1>2. IsFiniteSet(N \cup {x}) /\ Cardinality(N \cup {x}) = Cardinality(N) + 1
  BY <1>1, FS_AddElement
<1>3. Cardinality(N \cup {x}) <= K
  BY <1>1, <1>2, TableAssumption
<1>4. QED
  BY <1>1, <1>2, <1>3 DEF GoodBucket, Fits

\* A node that belongs here takes the place of another.
LEMMA Swapped ==
    ASSUME NEW N, NEW C, NEW i, NEW m, GoodBucket(N, C, i, m),
           NEW v \in N, NEW x, Fits(x, N \ {v}, C, i, m)
    PROVE  GoodBucket((N \ {v}) \cup {x}, C, i, m)
<1>1. IsFiniteSet(N) /\ Cardinality(N) \in Nat /\ Cardinality(N) <= K
  BY FS_CardinalityType DEF GoodBucket
<1>2. Cardinality(N \ {v}) = Cardinality(N) - 1
  BY <1>1, FS_RemoveElement
<1>3. Cardinality(N \ {v}) < K
  BY <1>1, <1>2, TableAssumption
<1>4. GoodBucket(N \ {v}, C, i, m)
  BY Fewer
<1>5. QED
  BY <1>3, <1>4, Joined

\* A node that belongs here goes into the cache, which is trimmed to K.
LEMMA Cached ==
    ASSUME NEW N, NEW C, NEW i, NEW m, GoodBucket(N, C, i, m), ~canSplit(i, m),
           NEW x, Fits(x, N, C, i, m), NEW rest, Trimmed(C \cup {x}, rest)
    PROVE  GoodBucket(N, rest, i, m) /\ rest \subseteq C \cup {x}
<1>1. IsFiniteSet(C) /\ Cardinality(C) \in Nat /\ Cardinality(C) <= K /\ x \notin C /\ x \notin N
  BY FS_CardinalityType DEF GoodBucket, Fits
<1>2. IsFiniteSet(C \cup {x}) /\ Cardinality(C \cup {x}) = Cardinality(C) + 1
  BY <1>1, FS_AddElement
<1>3. rest \subseteq C \cup {x} /\ IsFiniteSet(rest) /\ Cardinality(rest) <= K
  <2>1. CASE Cardinality(C \cup {x}) <= K
    BY <1>2, <2>1 DEF Trimmed
  <2>2. CASE ~(Cardinality(C \cup {x}) <= K)
    <3>1. PICK o \in C \cup {x} : rest = (C \cup {x}) \ {o}
      BY <2>2 DEF Trimmed
    <3>2. IsFiniteSet(rest) /\ Cardinality(rest) = Cardinality(C \cup {x}) - 1
      BY <1>2, <3>1, FS_RemoveElement
    <3>3. QED
      BY <1>1, <1>2, <3>1, <3>2, TableAssumption
  <2>3. QED
    BY <2>1, <2>2
<1>4. QED
  BY <1>1, <1>3 DEF GoodBucket, Fits

-----------------------------------------------------------------------------
(* The whole table                                                         *)

\* An ID is in one bucket only, and there once.
LEMMA OneEach ==
    ASSUME NEW bs, Good(bs)
    PROVE  /\ \A n, k \in Held(bs) : n.id = k.id => n = k
           /\ InTable(bs) \cap InCache(bs) = {}
           /\ \A n \in Held(bs) : n \in Node /\ n.id # self
<1>1. \A n \in Held(bs) : \E i \in 1..Len(bs) : n \in bs[i].nodes \cup bs[i].cache
  BY Entries DEF Held
<1>2. ASSUME NEW i \in 1..Len(bs), NEW j \in 1..Len(bs),
             NEW n \in bs[i].nodes \cup bs[i].cache, NEW k \in bs[j].nodes \cup bs[j].cache,
             n.id = k.id
      PROVE  i = j /\ n = k
  <2>1. bucketIndexFor(n.id, Len(bs)) = i /\ bucketIndexFor(k.id, Len(bs)) = j
    BY DEF Good, GoodBucket
  <2>2. i = j
    BY <1>2, <2>1
  <2>3. QED
    BY <1>2, <2>2 DEF Good, GoodBucket
<1>3. \A n, k \in Held(bs) : n.id = k.id => n = k
  BY <1>1, <1>2
<1>4. ASSUME NEW n \in InTable(bs), n \in InCache(bs) PROVE FALSE
  <2>1. PICK i \in 1..Len(bs) : n \in bs[i].nodes
    BY Entries
  <2>2. PICK j \in 1..Len(bs) : n \in bs[j].cache
    BY <1>4, Entries
  <2>3. i = j
    BY <1>2, <2>1, <2>2
  <2>4. QED
    BY <2>1, <2>2, <2>3 DEF Good, GoodBucket
<1>5. \A n \in Held(bs) : n \in Node /\ n.id # self
  BY <1>1 DEF Good, GoodBucket
<1>6. QED
  BY <1>3, <1>4, <1>5

\* An entry of a given ID can only be in the bucket that heardFrom() looks into.
LEMMA Looked ==
    ASSUME NEW bs, Good(bs), NEW n \in Held(bs)
    PROVE  LET i == bucketIndexFor(n.id, Len(bs)) IN
           /\ i \in 1..Len(bs)
           /\ n \in InTable(bs) => n \in bs[i].nodes
           /\ n \in InCache(bs) => n \in bs[i].cache
  BY Entries DEF Held, Good, GoodBucket

\* Bucket i now holds N and C, and the others what they held.
Changed(bs, t, i, N, C) ==
    /\ t \in Seq(Pair) /\ Len(t) = Len(bs)
    /\ t[i].nodes = N /\ t[i].cache = C
    /\ \A j \in 1..Len(bs) : j # i => t[j] = bs[j]

\* A table in which one bucket was replaced by a good one is good.
LEMMA OneBucket ==
    ASSUME NEW bs, Good(bs), NEW i \in 1..Len(bs), NEW N, NEW C,
           GoodBucket(N, C, i, Len(bs)), NEW t, Changed(bs, t, i, N, C)
    PROVE  Good(t)
  BY DEF Good, Changed

\* What Changed does to the entries.
LEMMA ChangedEntries ==
    ASSUME NEW bs, NEW i \in 1..Len(bs), NEW N, NEW C, NEW t, Changed(bs, t, i, N, C)
    PROVE  /\ \A n \in InTable(t) : n \in InTable(bs) \/ n \in N
           /\ \A n \in InTable(bs) : n \in InTable(t) \/ n \in bs[i].nodes
           /\ \A n \in N : n \in InTable(t)
           /\ \A n \in InCache(t) : n \in InCache(bs) \/ n \in C
           /\ \A n \in InCache(bs) : n \in InCache(t) \/ n \in bs[i].cache
           /\ \A n \in C : n \in InCache(t)
           /\ bs[i].nodes \subseteq InTable(bs) /\ bs[i].cache \subseteq InCache(bs)
  BY Entries DEF Changed

\* The three forms in which the operations update a bucket.
LEMMA Updates ==
    ASSUME NEW bs \in Seq(Pair), NEW i \in 1..Len(bs),
           NEW N \in SUBSET Node, NEW C \in SUBSET Node
    PROVE  /\ Changed(bs, [bs EXCEPT ![i].nodes = N], i, N, bs[i].cache)
           /\ Changed(bs, [bs EXCEPT ![i].cache = C], i, bs[i].nodes, C)
           /\ Changed(bs, [bs EXCEPT ![i].nodes = N, ![i].cache = C], i, N, C)
<1>1. bs[i] \in Pair
  OBVIOUS
<1>2. /\ [bs[i] EXCEPT !.nodes = N] \in Pair
      /\ [bs[i] EXCEPT !.nodes = N].nodes = N
      /\ [bs[i] EXCEPT !.nodes = N].cache = bs[i].cache
  BY <1>1 DEF Pair
<1>3. /\ [bs[i] EXCEPT !.cache = C] \in Pair
      /\ [bs[i] EXCEPT !.cache = C].nodes = bs[i].nodes
      /\ [bs[i] EXCEPT !.cache = C].cache = C
  BY <1>1 DEF Pair
<1>4. /\ [[bs[i] EXCEPT !.nodes = N] EXCEPT !.cache = C] \in Pair
      /\ [[bs[i] EXCEPT !.nodes = N] EXCEPT !.cache = C].nodes = N
      /\ [[bs[i] EXCEPT !.nodes = N] EXCEPT !.cache = C].cache = C
  BY <1>1 DEF Pair
<1>5. ASSUME NEW b \in Pair
      PROVE  Changed(bs, [bs EXCEPT ![i] = b], i, b.nodes, b.cache)
  <2>1. /\ [bs EXCEPT ![i] = b] \in Seq(Pair) /\ Len([bs EXCEPT ![i] = b]) = Len(bs)
        /\ \A j \in 1..Len(bs) : [bs EXCEPT ![i] = b][j] = IF j = i THEN b ELSE bs[j]
    BY ExceptSeq
  <2>2. QED
    BY <2>1 DEF Changed
<1>6. /\ [bs EXCEPT ![i].nodes = N] = [bs EXCEPT ![i] = [bs[i] EXCEPT !.nodes = N]]
      /\ [bs EXCEPT ![i].cache = C] = [bs EXCEPT ![i] = [bs[i] EXCEPT !.cache = C]]
  OBVIOUS
<1>7. [bs EXCEPT ![i].nodes = N, ![i].cache = C]
        = [bs EXCEPT ![i] = [[bs[i] EXCEPT !.nodes = N] EXCEPT !.cache = C]]
  OBVIOUS
<1>8. QED
  BY <1>2, <1>3, <1>4, <1>5, <1>6, <1>7

\* split() moves each node of the last bucket to its place and loses none.
LEMMA SplitKeeps ==
    ASSUME NEW bs, Good(bs), NEW m \in Len(bs)..Bits
    PROVE  /\ Good(SplitTo(bs, m)) /\ Len(SplitTo(bs, m)) = m
           /\ InTable(SplitTo(bs, m)) = InTable(bs) /\ InCache(SplitTo(bs, m)) = InCache(bs)
<1> DEFINE last == Len(bs)
           t == SplitTo(bs, m)
           Part(S, i) == {n \in S : bucketIndexFor(n.id, m) = i}
<1>1. last \in Nat \ {0} /\ last <= m /\ m \in Nat /\ m <= Bits /\ bs \in Seq(Pair)
  BY TableAssumption DEF Good
<1>2. \A i \in 1..m : t[i] = IF i < last THEN bs[i]
                             ELSE [nodes |-> Part(bs[last].nodes, i),
                                   cache |-> Part(bs[last].cache, i)]
  BY DEF SplitTo
<1>3. t \in Seq(Pair) /\ Len(t) = m
  <2>1. bs[last] \in Pair /\ \A i \in 1..m : i < last => bs[i] \in Pair
    BY <1>1
  <2>2. ASSUME NEW i \in 1..m PROVE t[i] \in Pair
    <3>1. /\ Part(bs[last].nodes, i) \in SUBSET Node
          /\ Part(bs[last].cache, i) \in SUBSET Node
      BY <2>1 DEF Pair
    <3> HIDE DEF Part, t
    <3>2. [nodes |-> Part(bs[last].nodes, i), cache |-> Part(bs[last].cache, i)] \in Pair
      BY <3>1 DEF Pair
    <3>3. QED
      BY <1>1, <1>2, <2>1, <3>2
  <2>3. t \in [1..m -> Pair]
    BY <2>2 DEF SplitTo
  <2> HIDE DEF t
  <2>4. QED
    BY <1>1, <2>3
<1>4. ASSUME NEW i \in 1..m
      PROVE  /\ i < last => t[i].nodes = bs[i].nodes /\ t[i].cache = bs[i].cache
             /\ i >= last => /\ t[i].nodes = Part(bs[last].nodes, i)
                             /\ t[i].cache = Part(bs[last].cache, i)
  <2> HIDE DEF Part, t
  <2>1. i < last => t[i] = bs[i]
    BY <1>2
  <2>2. i >= last => t[i] = [nodes |-> Part(bs[last].nodes, i), cache |-> Part(bs[last].cache, i)]
    BY <1>1, <1>2
  <2>3. QED
    BY <2>1, <2>2
<1> HIDE DEF t
<1>5. ASSUME NEW i \in 1..m PROVE GoodBucket(t[i].nodes, t[i].cache, i, m)
  <2>1. CASE i < last
    <3>1. GoodBucket(bs[i].nodes, bs[i].cache, i, last)
      BY <1>1, <2>1 DEF Good
    <3>2. \A n \in bs[i].nodes \cup bs[i].cache : bucketIndexFor(n.id, m) = i
      BY <1>1, <2>1, <3>1, Places DEF GoodBucket
    <3>3. ~canSplit(i, m)
      BY <1>1, <2>1 DEF canSplit
    <3>4. GoodBucket(bs[i].nodes, bs[i].cache, i, m)
      BY <3>1, <3>2, <3>3, Zenon DEF GoodBucket
    <3>5. QED
      BY <1>4, <2>1, <3>4
  <2>2. CASE i >= last
    <3>1. GoodBucket(bs[last].nodes, bs[last].cache, last, last)
      BY <1>1 DEF Good
    <3>2. GoodBucket(t[i].nodes, t[i].cache, last, last)
      BY <1>4, <2>2, <3>1, Fewer
    <3>3. \A n \in t[i].nodes \cup t[i].cache : bucketIndexFor(n.id, m) = i
      BY <1>4, <2>2
    <3>4. canSplit(i, m) => t[i].cache = {}
      <4>1. canSplit(i, m) => canSplit(last, last)
        BY <1>1, TableAssumption DEF canSplit
      <4>2. QED
        BY <3>2, <4>1, Zenon DEF GoodBucket
    <3>5. QED
      BY <3>2, <3>3, <3>4, Zenon DEF GoodBucket
  <2>3. QED
    BY <1>1, <2>1, <2>2
<1>6. Good(t)
  BY <1>1, <1>3, <1>5 DEF Good
<1>7. ASSUME NEW n, NEW S, n \in S, \A k \in S : bucketIndexFor(k.id, last) = last
      PROVE  \E i \in 1..m : i >= last /\ n \in Part(S, i)
  <2>1. bucketIndexFor(n.id, m) \in last..m
    BY <1>1, <1>7, Places
  <2>2. QED
    BY <1>1, <1>7, <2>1
<1>8. /\ \A k \in bs[last].nodes : bucketIndexFor(k.id, last) = last
      /\ \A k \in bs[last].cache : bucketIndexFor(k.id, last) = last
  BY <1>1 DEF Good, GoodBucket
<1>9. InTable(t) = InTable(bs)
  <2>1. ASSUME NEW n \in InTable(t) PROVE n \in InTable(bs)
    <3>1. PICK i \in 1..m : n \in t[i].nodes
      BY <1>3, Entries
    <3>2. CASE i < last
      BY <1>1, <1>4, <3>1, <3>2, Entries
    <3>3. CASE i >= last
      BY <1>1, <1>4, <3>1, <3>3, Entries
    <3>4. QED
      BY <1>1, <3>2, <3>3
  <2>2. ASSUME NEW n \in InTable(bs) PROVE n \in InTable(t)
    <3>1. PICK i \in 1..last : n \in bs[i].nodes
      BY Entries
    <3>2. CASE i < last
      BY <1>1, <1>3, <1>4, <3>1, <3>2, Entries
    <3>3. CASE i = last
      <4>1. PICK j \in 1..m : j >= last /\ n \in Part(bs[last].nodes, j)
        BY <1>7, <1>8, <3>1, <3>3
      <4>2. n \in t[j].nodes
        BY <1>4, <4>1
      <4>3. QED
        BY <1>3, <4>2, Entries
    <3>4. QED
      BY <1>1, <3>2, <3>3
  <2>3. QED
    BY <2>1, <2>2
<1>10. InCache(t) = InCache(bs)
  <2>1. ASSUME NEW n \in InCache(t) PROVE n \in InCache(bs)
    <3>1. PICK i \in 1..m : n \in t[i].cache
      BY <1>3, Entries
    <3>2. CASE i < last
      BY <1>1, <1>4, <3>1, <3>2, Entries
    <3>3. CASE i >= last
      BY <1>1, <1>4, <3>1, <3>3, Entries
    <3>4. QED
      BY <1>1, <3>2, <3>3
  <2>2. ASSUME NEW n \in InCache(bs) PROVE n \in InCache(t)
    <3>1. PICK i \in 1..last : n \in bs[i].cache
      BY Entries
    <3>2. CASE i < last
      BY <1>1, <1>3, <1>4, <3>1, <3>2, Entries
    <3>3. CASE i = last
      <4>1. PICK j \in 1..m : j >= last /\ n \in Part(bs[last].cache, j)
        BY <1>7, <1>8, <3>1, <3>3
      <4>2. n \in t[j].cache
        BY <1>4, <4>1
      <4>3. QED
        BY <1>3, <4>2, Entries
    <3>4. QED
      BY <1>1, <3>2, <3>3
  <2>3. QED
    BY <2>1, <2>2
<1>11. QED
  BY <1>3, <1>6, <1>9, <1>10 DEF t

\* A table with some entries taken out.
LEMMA Thinned ==
    ASSUME NEW bs, Good(bs), NEW t \in Seq(Pair), Len(t) = Len(bs),
           \A i \in 1..Len(bs) : t[i].nodes \subseteq bs[i].nodes /\ t[i].cache \subseteq bs[i].cache
    PROVE  Good(t) /\ InTable(t) \subseteq InTable(bs) /\ InCache(t) \subseteq InCache(bs)
<1>1. \A i \in 1..Len(bs) : GoodBucket(t[i].nodes, t[i].cache, i, Len(bs))
  BY Fewer DEF Good
<1>2. Good(t)
  BY <1>1 DEF Good
<1>3. QED
  BY <1>2, Entries

-----------------------------------------------------------------------------
(* insert()                                                                *)

\* insert() of an ID the table does not have adds at most that node, and what leaves the
\* table is bad.
LEMMA InsertKeeps ==
    ASSUME NEW bs, Good(bs), NEW x \in Node, \A n \in Held(bs) : n.id # x.id, Insert(bs, x)
    PROVE  /\ Good(buckets')
           /\ \A n \in InTable(buckets') : n \in InTable(bs) \/ n = x
           /\ \A n \in InCache(buckets') : n \in InCache(bs) \/ n = x
           /\ \A n \in InTable(bs) : n \in InTable(buckets') \/ Bad(n)
<1>1. CASE buckets' = bs
  BY <1>1
<1>2. ASSUME x.id # self, NEW m \in Len(bs)..Bits, Stops(bs, x.id, m),
             NEW t, NEW i, t = SplitTo(bs, m), i = bucketIndexFor(x.id, m),
             \/ HasRoom(t[i]) /\ buckets' = [t EXCEPT ![i].nodes = @ \cup {x}]
             \/ \E v \in Victims(t[i]) : buckets' = [t EXCEPT ![i].nodes = (@ \ {v}) \cup {x}]
             \/ /\ ~HasRoom(t[i])
                /\ \E rest \in SUBSET (t[i].cache \cup {x}) :
                      Trimmed(t[i].cache \cup {x}, rest) /\ buckets' = [t EXCEPT ![i].cache = rest]
      PROVE  /\ Good(buckets')
             /\ \A n \in InTable(buckets') : n \in InTable(bs) \/ n = x
             /\ \A n \in InCache(buckets') : n \in InCache(bs) \/ n = x
             /\ \A n \in InTable(bs) : n \in InTable(buckets') \/ Bad(n)
  <2>1. Good(t) /\ Len(t) = m /\ InTable(t) = InTable(bs) /\ InCache(t) = InCache(bs)
    BY <1>2, SplitKeeps
  <2>2. m \in Nat \ {0} /\ i \in 1..Len(t) /\ t \in Seq(Pair)
    <3>1. m \in Nat \ {0}
      BY TableAssumption DEF Good
    <3>2. QED
      BY <1>2, <2>1, <3>1, Places DEF Good
  <2> DEFINE N == t[i].nodes
             C == t[i].cache
  <2>3. GoodBucket(N, C, i, m) /\ N \in SUBSET Node /\ C \in SUBSET Node
    BY <2>1, <2>2 DEF Good, GoodBucket
  <2>4. Fits(x, N, C, i, m)
    <3>1. N \subseteq InTable(t) /\ C \subseteq InCache(t)
      BY <2>2, Entries
    <3>2. QED
      BY <1>2, <2>1, <3>1 DEF Fits, Held
  <2>5. CASE HasRoom(t[i]) /\ buckets' = [t EXCEPT ![i].nodes = @ \cup {x}]
    <3>1. GoodBucket(N \cup {x}, C, i, m)
      BY <2>3, <2>4, <2>5, Joined DEF HasRoom
    <3>2. N \cup {x} \in SUBSET Node
      BY <2>3
    <3>3. Changed(t, buckets', i, N \cup {x}, C)
      BY <2>2, <2>5, <3>2, Updates
    <3>4. Good(buckets')
      BY <2>1, <2>2, <3>1, <3>3, OneBucket
    <3>5. QED
      BY <2>1, <2>2, <3>3, <3>4, ChangedEntries
  <2>6. ASSUME NEW v \in Victims(t[i]), buckets' = [t EXCEPT ![i].nodes = (@ \ {v}) \cup {x}]
        PROVE  /\ Good(buckets')
               /\ \A n \in InTable(buckets') : n \in InTable(bs) \/ n = x
               /\ \A n \in InCache(buckets') : n \in InCache(bs) \/ n = x
               /\ \A n \in InTable(bs) : n \in InTable(buckets') \/ Bad(n)
    <3>1. v \in N /\ Bad(v)
      BY DEF Victims
    <3>2. Fits(x, N \ {v}, C, i, m)
      BY <2>4 DEF Fits
    <3>3. GoodBucket((N \ {v}) \cup {x}, C, i, m)
      BY <2>3, <3>1, <3>2, Swapped
    <3>4. (N \ {v}) \cup {x} \in SUBSET Node
      BY <2>3
    <3>5. Changed(t, buckets', i, (N \ {v}) \cup {x}, C)
      BY <2>2, <2>6, <3>4, Updates
    <3>6. Good(buckets')
      BY <2>1, <2>2, <3>3, <3>5, OneBucket
    <3>7. QED
      BY <2>1, <2>2, <3>1, <3>5, <3>6, ChangedEntries
  <2>7. ASSUME ~HasRoom(t[i]), NEW rest, Trimmed(t[i].cache \cup {x}, rest),
               buckets' = [t EXCEPT ![i].cache = rest]
        PROVE  /\ Good(buckets')
               /\ \A n \in InTable(buckets') : n \in InTable(bs) \/ n = x
               /\ \A n \in InCache(buckets') : n \in InCache(bs) \/ n = x
               /\ \A n \in InTable(bs) : n \in InTable(buckets') \/ Bad(n)
    <3>1. ~canSplit(i, m)
      BY <1>2, <2>7 DEF Stops
    <3>2. GoodBucket(N, rest, i, m) /\ rest \subseteq C \cup {x}
      <4>1. Trimmed(C \cup {x}, rest)
        BY <2>7
      <4> HIDE DEF N, C
      <4>2. QED
        BY <2>3, <2>4, <3>1, <4>1, Cached, Zenon
    <3>3. rest \in SUBSET Node
      BY <3>2 DEF GoodBucket
    <3>4. Changed(t, buckets', i, N, rest)
      BY <2>2, <2>3, <2>7, <3>3, Updates
    <3>5. Good(buckets')
      BY <2>1, <2>2, <3>2, <3>4, OneBucket
    <3>6. QED
      BY <2>1, <2>2, <3>2, <3>4, <3>5, ChangedEntries
  <2>8. QED
    BY <1>2, <2>5, <2>6, <2>7
<1>3. QED
  BY <1>1, <1>2 DEF Insert

-----------------------------------------------------------------------------
(* heardFrom()                                                             *)

\* What an answer of ep under this ID may do to a table bs: nothing new but that node, and
\* only a bad node or one that had the endpoint before loses its place.
Heard(bs, id, ep) ==
    /\ Good(buckets')
    /\ \A n \in InTable(buckets') : (\E k \in InTable(bs) : k.id = n.id /\ k.ep = n.ep)
                                      \/ (n.id = id /\ n.ep = ep)
    /\ \A n \in InCache(buckets') : (\E k \in InCache(bs) : k.id = n.id /\ k.ep = n.ep)
                                      \/ (n.id = id /\ n.ep = ep)
    /\ \A n \in InTable(bs) : n.id \in IdsOf(InTable(buckets')) \/ n.ep = ep \/ Bad(n)

\* The entry of a node that answered.
LEMMA Renewed ==
    ASSUME NEW n \in Node, NEW ep \in Endpoints, now \in 1..MaxNow
    PROVE  /\ [n EXCEPT !.ep = ep, !.resp = now, !.fails = 0] \in Node
           /\ [n EXCEPT !.ep = ep, !.resp = now, !.fails = 0].id = n.id
           /\ [n EXCEPT !.ep = ep, !.resp = now, !.fails = 0].ep = ep
           /\ [n EXCEPT !.resp = now, !.fails = 0] \in Node
           /\ [n EXCEPT !.resp = now, !.fails = 0].id = n.id
           /\ [n EXCEPT !.resp = now, !.fails = 0].ep = n.ep
<1>1. 0 \in 0..(RemoveFailCount - 1)
  BY TableAssumption
<1>2. QED
  BY <1>1 DEF Node

\* An entry is replaced by another of the same ID.
LEMMA SameId ==
    ASSUME NEW bs, Good(bs), NEW i \in 1..Len(bs), NEW n \in bs[i].nodes,
           NEW x \in Node, x.id = n.id,
           Changed(bs, buckets', i, (bs[i].nodes \ {n}) \cup {x}, bs[i].cache)
    PROVE  /\ Good(buckets')
           /\ InCache(buckets') = InCache(bs)
           /\ \A k \in InTable(buckets') : k \in InTable(bs) \/ k = x
           /\ \A k \in InTable(bs) : k \in InTable(buckets') \/ k = n
           /\ x \in InTable(buckets')
<1> DEFINE N == bs[i].nodes
           C == bs[i].cache
<1>1. GoodBucket(N, C, i, Len(bs)) /\ bs \in Seq(Pair)
  BY DEF Good
<1>2. Fits(x, N \ {n}, C, i, Len(bs))
  BY <1>1 DEF Fits, GoodBucket
<1>3. GoodBucket((N \ {n}) \cup {x}, C, i, Len(bs))
  BY <1>1, <1>2, Swapped
<1>5. Changed(bs, buckets', i, (N \ {n}) \cup {x}, C)
  OBVIOUS
<1>6. Good(buckets')
  BY <1>3, <1>5, OneBucket
<1> HIDE DEF N, C
<1>7. /\ \A k \in InTable(buckets') : k \in InTable(bs) \/ k \in (N \ {n}) \cup {x}
      /\ \A k \in InTable(bs) : k \in InTable(buckets') \/ k \in N
      /\ \A k \in (N \ {n}) \cup {x} : k \in InTable(buckets')
      /\ \A k \in InCache(buckets') : k \in InCache(bs) \/ k \in C
      /\ \A k \in InCache(bs) : k \in InCache(buckets') \/ k \in C
      /\ \A k \in C : k \in InCache(buckets')
      /\ N \subseteq InTable(bs) /\ C \subseteq InCache(bs)
  BY <1>5, ChangedEntries DEF N, C
<1>8. InCache(buckets') = InCache(bs)
  BY <1>7, Zenon
<1>9. QED
  BY <1>6, <1>7, <1>8, Zenon

\* DropStale touches caches only, and leaves none of this ID's entries there.
LEMMA DropStaleKeeps ==
    ASSUME NEW bs, Good(bs), NEW id, NEW ep
    PROVE  LET t == DropStale(bs, id, ep) IN
           /\ Good(t) /\ InTable(t) = InTable(bs) /\ InCache(t) \subseteq InCache(bs)
           /\ \A n \in InCache(t) : n.id # id
<1> DEFINE t == DropStale(bs, id, ep)
           kept(i) == {n \in bs[i].cache : n.ep # ep /\ n.id # id}
<1>1. bs \in Seq(Pair) /\ Len(bs) \in Nat /\ \A i \in 1..Len(bs) : bs[i] \in Pair
  BY DEF Good
<1>2. ASSUME NEW i \in 1..Len(bs)
      PROVE  /\ t[i] = [bs[i] EXCEPT !.cache = kept(i)]
             /\ t[i] \in Pair /\ t[i].nodes = bs[i].nodes /\ t[i].cache = kept(i)
  <2>1. t[i] = [bs[i] EXCEPT !.cache = kept(i)]
    BY DEF DropStale
  <2>2. kept(i) \in SUBSET Node /\ bs[i] \in Pair
    BY <1>1 DEF Pair
  <2> HIDE DEF kept, t
  <2>3. QED
    BY <2>1, <2>2 DEF Pair
<1>3. t \in [1..Len(bs) -> Pair]
  BY <1>2 DEF DropStale
<1> HIDE DEF t
<1>4. t \in Seq(Pair) /\ Len(t) = Len(bs)
  BY <1>1, <1>3
<1>5. \A i \in 1..Len(bs) : t[i].nodes \subseteq bs[i].nodes /\ t[i].cache \subseteq bs[i].cache
  BY <1>2
<1>6. Good(t) /\ InTable(t) \subseteq InTable(bs) /\ InCache(t) \subseteq InCache(bs)
  BY <1>4, <1>5, Thinned
<1>7. ASSUME NEW n \in InTable(bs) PROVE n \in InTable(t)
  <2>1. PICK i \in 1..Len(bs) : n \in bs[i].nodes
    BY Entries
  <2>2. n \in t[i].nodes
    BY <1>2, <2>1
  <2>3. QED
    BY <1>4, <2>2, Entries
<1>8. ASSUME NEW n \in InCache(t) PROVE n.id # id
  <2>1. PICK i \in 1..Len(bs) : n \in t[i].cache
    BY <1>4, Entries
  <2>2. QED
    BY <1>2, <2>1
<1>9. QED
  BY <1>6, <1>7, <1>8 DEF t

\* heardFrom() of a node whose endpoint is not in the table.
LEMMA ElsewhereKeeps ==
    ASSUME NEW bs, Good(bs), NEW id \in Ids, id # self, NEW ep \in Endpoints, now \in 1..MaxNow,
           HeardElsewhere(bs, id, ep)
    PROVE  Heard(bs, id, ep)
<1> DEFINE i == bucketIndexFor(id, Len(bs))
           held == {n \in bs[i].nodes : n.id = id}
<1>1. i \in 1..Len(bs)
  BY Places DEF Good
<1>2. \A n \in Held(bs) : n \in Node
  BY OneEach
<1>3. CASE buckets' = bs
  BY <1>3 DEF Heard, IdsOf
<1>4. ASSUME NEW n \in held,
             buckets' = [bs EXCEPT ![i].nodes =
                          (@ \ {n}) \cup {[n EXCEPT !.ep = ep, !.resp = now, !.fails = 0]}]
      PROVE  Heard(bs, id, ep)
  <2> DEFINE x == [n EXCEPT !.ep = ep, !.resp = now, !.fails = 0]
  <2>1. n \in bs[i].nodes /\ n.id = id /\ n \in Node
    BY <1>1, <1>2, Entries DEF Held
  <2>2. x \in Node /\ x.id = id /\ x.ep = ep
    BY <2>1, Renewed
  <2> HIDE DEF i, x
  <2>3. /\ Good(buckets') /\ InCache(buckets') = InCache(bs)
        /\ \A k \in InTable(buckets') : k \in InTable(bs) \/ k = x
        /\ \A k \in InTable(bs) : k \in InTable(buckets') \/ k = n
        /\ x \in InTable(buckets')
    <3>1. Changed(bs, buckets', i, (bs[i].nodes \ {n}) \cup {x}, bs[i].cache)
      <4>1. buckets' = [bs EXCEPT ![i].nodes = (bs[i].nodes \ {n}) \cup {x}]
        BY <1>4, Zenon DEF x
      <4>2. bs \in Seq(Pair) /\ (bs[i].nodes \ {n}) \cup {x} \in SUBSET Node
        BY <1>1, <2>2 DEF Good, GoodBucket
      <4>3. QED
        BY <1>1, <4>1, <4>2, Updates
    <3>2. x.id = n.id
      BY <2>1, <2>2
    <3>3. QED
      BY <1>1, <2>1, <2>2, <3>1, <3>2, SameId, Zenon
  <2>4. QED
    BY <2>1, <2>2, <2>3 DEF Heard, IdsOf
<1>5. ASSUME held = {},
             Insert(DropStale(bs, id, ep), [id |-> id, ep |-> ep, fails |-> 0, resp |-> now])
      PROVE  Heard(bs, id, ep)
  <2> DEFINE t == DropStale(bs, id, ep)
             x == [id |-> id, ep |-> ep, fails |-> 0, resp |-> now]
  <2>1. /\ Good(t) /\ InTable(t) = InTable(bs) /\ InCache(t) \subseteq InCache(bs)
        /\ \A n \in InCache(t) : n.id # id
    BY DropStaleKeeps
  <2>2. x \in Node /\ x.id = id /\ x.ep = ep
    <3>1. 0 \in 0..(RemoveFailCount - 1)
      BY TableAssumption
    <3>2. QED
      BY <3>1 DEF Node
  <2>3. \A n \in InTable(bs) : n.id # id
    BY <1>5, Looked DEF Held
  <2> HIDE DEF t, x
  <2>4. \A n \in Held(t) : n.id # x.id
    BY <2>1, <2>2, <2>3 DEF Held
  <2>5. Insert(t, x)
    BY <1>5 DEF t, x
  <2>6. /\ Good(buckets')
        /\ \A n \in InTable(buckets') : n \in InTable(t) \/ n = x
        /\ \A n \in InCache(buckets') : n \in InCache(t) \/ n = x
        /\ \A n \in InTable(t) : n \in InTable(buckets') \/ Bad(n)
    BY <2>1, <2>2, <2>4, <2>5, InsertKeeps
  <2>7. QED
    BY <2>1, <2>2, <2>6 DEF Heard, IdsOf
<1>6. QED
  BY <1>3, <1>4, <1>5 DEF HeardElsewhere

\* heardFrom() as a whole.
LEMMA HeardKeeps ==
    ASSUME Good(buckets), now \in 1..MaxNow, NEW id \in Ids, NEW ep \in Endpoints, heardFrom(id, ep)
    PROVE  Heard(buckets, id, ep)
<1>1. id # self /\ buckets \in Seq(Pair)
  BY DEF heardFrom, Good
<1>2. \A j \in Holding(ep) : j \in 1..Len(buckets)
  BY DEF Holding
<1>3. ASSUME NEW i \in Holding(ep), NEW n \in buckets[i].nodes, n.ep = ep, n.id = id,
             buckets' = [buckets EXCEPT ![i].nodes =
                          (@ \ {n}) \cup {[n EXCEPT !.resp = now, !.fails = 0]}]
      PROVE  Heard(buckets, id, ep)
  <2> DEFINE x == [n EXCEPT !.resp = now, !.fails = 0]
  <2>1. i \in 1..Len(buckets) /\ n \in Node
    BY <1>2 DEF Good, GoodBucket
  <2>2. x \in Node /\ x.id = n.id /\ x.ep = ep
    BY <1>3, <2>1, Renewed
  <2> HIDE DEF x
  <2>3. Changed(buckets, buckets', i, (buckets[i].nodes \ {n}) \cup {x}, buckets[i].cache)
    <3>1. buckets' = [buckets EXCEPT ![i].nodes = (buckets[i].nodes \ {n}) \cup {x}]
      BY <1>3, Zenon DEF x
    <3>2. (buckets[i].nodes \ {n}) \cup {x} \in SUBSET Node
      BY <2>1, <2>2 DEF Good, GoodBucket
    <3>3. QED
      BY <1>1, <2>1, <3>1, <3>2, Updates
  <2>4. /\ Good(buckets') /\ InCache(buckets') = InCache(buckets)
        /\ \A k \in InTable(buckets') : k \in InTable(buckets) \/ k = x
        /\ \A k \in InTable(buckets) : k \in InTable(buckets') \/ k = n
        /\ x \in InTable(buckets')
    BY <2>1, <2>2, <2>3, SameId, Zenon
  <2>5. QED
    BY <1>3, <2>2, <2>4, Zenon DEF Heard, IdsOf
<1>4. ASSUME NEW i \in Holding(ep),
             HeardElsewhere([buckets EXCEPT ![i].nodes = {n \in @ : n.ep # ep}], id, ep)
      PROVE  Heard(buckets, id, ep)
  <2> DEFINE N == {n \in buckets[i].nodes : n.ep # ep}
             bs == [buckets EXCEPT ![i].nodes = N]
  <2>1. i \in 1..Len(buckets)
    BY <1>2
  <2>2. GoodBucket(buckets[i].nodes, buckets[i].cache, i, Len(buckets))
    BY <2>1 DEF Good
  <2>3. GoodBucket(N, buckets[i].cache, i, Len(buckets)) /\ N \in SUBSET Node
    <3>1. N \in SUBSET buckets[i].nodes /\ buckets[i].cache \in SUBSET buckets[i].cache
      OBVIOUS
    <3> HIDE DEF N
    <3>2. GoodBucket(N, buckets[i].cache, i, Len(buckets))
      BY <2>2, <3>1, Fewer, Zenon
    <3>3. QED
      BY <3>2 DEF GoodBucket
  <2>4. \A n \in buckets[i].nodes : n \in N \/ n.ep = ep
    OBVIOUS
  <2>5. N \subseteq buckets[i].nodes /\ HeardElsewhere(bs, id, ep)
    BY <1>4
  <2> HIDE DEF N
  <2>6. Changed(buckets, bs, i, N, buckets[i].cache)
    BY <1>1, <2>1, <2>3, Updates
  <2> HIDE DEF bs
  <2>7. Good(bs)
    BY <2>1, <2>3, <2>6, OneBucket
  <2>8. Heard(bs, id, ep)
    BY <1>1, <2>5, <2>7, ElsewhereKeeps
  <2>9. /\ \A n \in InTable(bs) : n \in InTable(buckets)
        /\ \A n \in InTable(buckets) : n \in InTable(bs) \/ n.ep = ep
        /\ \A n \in InCache(bs) : n \in InCache(buckets)
    BY <2>1, <2>4, <2>5, <2>6, ChangedEntries
  <2>10. QED
    BY <2>8, <2>9, Zenon DEF Heard
<1>5. CASE HeardElsewhere(buckets, id, ep)
  BY <1>1, <1>5, ElsewhereKeeps
<1>6. QED
  BY <1>3, <1>4, <1>5 DEF heardFrom

-----------------------------------------------------------------------------
(* failed()                                                                *)

\* A failure teaches nothing; a node it displaces is bad with it, and the one promoted was
\* in a cache.
LEMMA FailedKeeps ==
    ASSUME Good(buckets), NEW ep \in Endpoints, failed(ep)
    PROVE  /\ Good(buckets')
           /\ \A n \in InTable(buckets') :
                 (\E k \in InTable(buckets) : k.id = n.id /\ k.ep = n.ep) \/ n \in InCache(buckets)
           /\ InCache(buckets') \subseteq InCache(buckets)
           /\ \A n \in InTable(buckets), m \in InTable(buckets') :
                 \/ n.id \in IdsOf(InTable(buckets'))
                 \/ m.id \in IdsOf(InTable(buckets))
                 \/ m \in InCache(buckets) /\ n.fails + 1 >= BadFailCount
<1>1. buckets \in Seq(Pair) /\ Len(buckets) \in Nat
  BY DEF Good
<1>2. ASSUME NEW i \in Holding(ep), NEW n \in buckets[i].nodes, NEW worse,
             worse = [n EXCEPT !.fails = @ + 1],
             \/ /\ ~Bad(worse) \/ (buckets[i].cache = {} /\ ~Gone(worse))
                /\ buckets' = [buckets EXCEPT ![i].nodes = (@ \ {n}) \cup {worse}]
             \/ /\ Bad(worse)
                /\ \E best \in buckets[i].cache :
                      buckets' = [buckets EXCEPT ![i].nodes = (@ \ {n}) \cup {best},
                                                 ![i].cache = @ \ {best}]
             \/ buckets' = [buckets EXCEPT ![i].nodes = {m \in @ : m.ep # ep}]
      PROVE  /\ Good(buckets')
             /\ \A k \in InTable(buckets') :
                   (\E l \in InTable(buckets) : l.id = k.id /\ l.ep = k.ep) \/ k \in InCache(buckets)
             /\ InCache(buckets') \subseteq InCache(buckets)
             /\ \A k \in InTable(buckets), m \in InTable(buckets') :
                   \/ k.id \in IdsOf(InTable(buckets'))
                   \/ m.id \in IdsOf(InTable(buckets))
                   \/ m \in InCache(buckets) /\ k.fails + 1 >= BadFailCount
  <2> DEFINE N == buckets[i].nodes
             C == buckets[i].cache
  <2>1. i \in 1..Len(buckets) /\ GoodBucket(N, C, i, Len(buckets)) /\ n \in Node
    BY DEF Good, GoodBucket, Holding
  <2>2. N \subseteq Node /\ C \subseteq Node
    BY <2>1 DEF GoodBucket
  <2>3. worse.id = n.id /\ worse.ep = n.ep /\ worse.fails = n.fails + 1 /\ n.fails \in Nat
    BY <1>2, <2>1 DEF Node
  <2>4. CASE /\ ~Bad(worse) \/ (buckets[i].cache = {} /\ ~Gone(worse))
             /\ buckets' = [buckets EXCEPT ![i].nodes = (@ \ {n}) \cup {worse}]
    <3>1. worse \in Node
      <4>1. worse.fails \in 0..(RemoveFailCount - 1)
        BY <2>3, <2>4, TableAssumption DEF Bad, Gone
      <4>2. QED
        BY <1>2, <2>1, <2>3, <4>1 DEF Node
    <3>2. Changed(buckets, buckets', i, (N \ {n}) \cup {worse}, C)
      <4>1. (N \ {n}) \cup {worse} \in SUBSET Node
        BY <2>2, <3>1
      <4>2. QED
        BY <1>1, <2>1, <2>4, <4>1, Updates
    <3>3. /\ Good(buckets') /\ InCache(buckets') = InCache(buckets)
          /\ \A k \in InTable(buckets') : k \in InTable(buckets) \/ k = worse
          /\ \A k \in InTable(buckets) : k \in InTable(buckets') \/ k = n
          /\ worse \in InTable(buckets')
      BY <2>1, <2>3, <3>1, <3>2, SameId, Zenon
    <3>4. n \in InTable(buckets)
      BY <2>1, Entries
    <3>5. QED
      BY <2>3, <3>3, <3>4, Zenon DEF IdsOf
  <2>5. ASSUME Bad(worse), NEW best \in C,
               buckets' = [buckets EXCEPT ![i].nodes = (@ \ {n}) \cup {best}, ![i].cache = @ \ {best}]
        PROVE  /\ Good(buckets')
               /\ \A k \in InTable(buckets') :
                     (\E l \in InTable(buckets) : l.id = k.id /\ l.ep = k.ep) \/ k \in InCache(buckets)
               /\ InCache(buckets') \subseteq InCache(buckets)
               /\ \A k \in InTable(buckets), m \in InTable(buckets') :
                     \/ k.id \in IdsOf(InTable(buckets'))
                     \/ m.id \in IdsOf(InTable(buckets))
                     \/ m \in InCache(buckets) /\ k.fails + 1 >= BadFailCount
    <3>1. GoodBucket(N, C \ {best}, i, Len(buckets))
      BY <2>1, Fewer
    <3>2. Fits(best, N \ {n}, C \ {best}, i, Len(buckets))
      BY <2>1 DEF GoodBucket, Fits
    <3>3. GoodBucket((N \ {n}) \cup {best}, C \ {best}, i, Len(buckets))
      BY <3>1, <3>2, Swapped
    <3>4. (N \ {n}) \cup {best} \in SUBSET Node /\ C \ {best} \in SUBSET Node
      BY <2>2
    <3>5. Changed(buckets, buckets', i, (N \ {n}) \cup {best}, C \ {best})
      BY <1>1, <2>1, <2>5, <3>4, Updates
    <3>6. Good(buckets')
      BY <2>1, <3>3, <3>5, OneBucket
    <3> HIDE DEF N, C
    <3>7. /\ \A k \in InTable(buckets') : k \in InTable(buckets) \/ k \in (N \ {n}) \cup {best}
          /\ \A k \in InTable(buckets) : k \in InTable(buckets') \/ k \in N
          /\ \A k \in (N \ {n}) \cup {best} : k \in InTable(buckets')
          /\ \A k \in InCache(buckets') : k \in InCache(buckets) \/ k \in C \ {best}
          /\ N \subseteq InTable(buckets) /\ C \subseteq InCache(buckets)
      BY <2>1, <3>5, ChangedEntries DEF N, C
    <3>8. n.fails + 1 >= BadFailCount
      BY <2>3, <2>5 DEF Bad
    <3>9. /\ \A k \in InTable(buckets') : k \in InTable(buckets) \/ k = best
          /\ \A k \in InTable(buckets) : k \in InTable(buckets') \/ k = n
          /\ best \in InCache(buckets)
          /\ InCache(buckets') \subseteq InCache(buckets)
      BY <2>5, <3>7, Zenon
    <3>10. QED
      BY <3>6, <3>8, <3>9, Zenon DEF IdsOf
  <2>6. CASE buckets' = [buckets EXCEPT ![i].nodes = {m \in @ : m.ep # ep}]
    <3> DEFINE R == {m \in N : m.ep # ep}
    <3>1. R \in SUBSET N /\ C \in SUBSET C /\ R \in SUBSET Node
      BY <2>2
    <3>2. buckets' = [buckets EXCEPT ![i].nodes = R]
      BY <2>6
    <3> HIDE DEF R
    <3>3. Changed(buckets, buckets', i, R, C)
      BY <1>1, <2>1, <3>1, <3>2, Updates
    <3>4. GoodBucket(R, C, i, Len(buckets))
      BY <2>1, <3>1, Fewer
    <3>5. Good(buckets')
      BY <2>1, <3>3, <3>4, OneBucket
    <3>6. /\ \A k \in InTable(buckets') : k \in InTable(buckets)
          /\ \A k \in InCache(buckets') : k \in InCache(buckets)
      BY <2>1, <3>1, <3>3, ChangedEntries
    <3>7. QED
      BY <3>5, <3>6, Zenon DEF IdsOf
  <2>7. QED
    BY <1>2, <2>4, <2>5, <2>6
<1>3. CASE buckets' = [i \in 1..Len(buckets) |->
                         [buckets[i] EXCEPT !.cache = {n \in @ : n.ep # ep}]]
  <2> DEFINE kept(i) == {n \in buckets[i].cache : n.ep # ep}
  <2>1. ASSUME NEW i \in 1..Len(buckets)
        PROVE  /\ buckets'[i] \in Pair /\ buckets'[i].nodes = buckets[i].nodes
               /\ buckets'[i].cache \subseteq buckets[i].cache
    <3>1. buckets'[i] = [buckets[i] EXCEPT !.cache = kept(i)]
      BY <1>3
    <3>2. kept(i) \in SUBSET Node /\ kept(i) \subseteq buckets[i].cache /\ buckets[i] \in Pair
      <4>1. buckets[i] \in Pair
        BY <1>1
      <4>2. buckets[i].cache \subseteq Node
        BY <4>1 DEF Pair
      <4>3. QED
        BY <4>1, <4>2
    <3> HIDE DEF kept
    <3>3. QED
      BY <3>1, <3>2 DEF Pair
  <2>2. buckets' \in [1..Len(buckets) -> Pair]
    BY <1>3, <2>1
  <2>3. buckets' \in Seq(Pair) /\ Len(buckets') = Len(buckets)
    BY <1>1, <2>2
  <2>4. Good(buckets') /\ InTable(buckets') \subseteq InTable(buckets) /\ InCache(buckets') \subseteq InCache(buckets)
    BY <2>1, <2>3, Thinned
  <2>5. QED
    BY <2>4, Zenon DEF IdsOf
<1>4. QED
  BY <1>2, <1>3 DEF failed

-----------------------------------------------------------------------------
(* The table as a whole                                                    *)

\* Nothing waits while no rebuild() runs.
LEMMA IdleApart ==
    ASSUME left = NoneLeft
    PROVE  left \in Pair /\ WaitingApart
  BY DEF NoneLeft, Pair, WaitingApart, Waiting

\* A table of one empty bucket.
LEMMA InitGood ==
    buckets = <<EmptyBucket>> => Good(buckets) /\ InTable(buckets) = {} /\ InCache(buckets) = {}
<1> SUFFICES ASSUME buckets = <<EmptyBucket>>
             PROVE  Good(buckets) /\ InTable(buckets) = {} /\ InCache(buckets) = {}
  OBVIOUS
<1>1. buckets \in Seq(Pair) /\ Len(buckets) = 1 /\ buckets[1] = EmptyBucket
  <2>1. EmptyBucket \in Pair
    BY DEF EmptyBucket, Pair
  <2>2. QED
    BY <2>1
<1>2. buckets[1].nodes = {} /\ buckets[1].cache = {}
  BY <1>1 DEF EmptyBucket
<1>3. IsFiniteSet({}) /\ Cardinality({}) = 0
  BY FS_EmptySet
<1>4. GoodBucket({}, {}, 1, 1)
  BY <1>3, TableAssumption DEF GoodBucket
<1>5. \A i \in 1..Len(buckets) : i = 1
  BY <1>1
<1>6. Good(buckets)
  <2>1. Len(buckets) \in 1..Bits
    BY <1>1, TableAssumption
  <2>2. \A i \in 1..Len(buckets) : GoodBucket(buckets[i].nodes, buckets[i].cache, i, Len(buckets))
    BY <1>1, <1>2, <1>4, <1>5, Zenon
  <2>3. QED
    BY <1>1, <2>1, <2>2, Zenon DEF Good
<1>7. QED
  BY <1>2, <1>5, <1>6, Entries

\* rebuild() empties the table and holds on to all that was in it.
LEMMA RebuildKeeps ==
    ASSUME TInv, NEW id \in Ids, rebuild(id)
    PROVE  /\ self' \in Ids /\ left' \in Pair /\ Good(buckets)'  /\ WaitingApart'
           /\ InTable(buckets') = {} /\ InCache(buckets') = {}
           /\ left'.nodes = InTable(buckets) /\ left'.cache = InCache(buckets)
<1>1. Good(buckets)' /\ InTable(buckets') = {} /\ InCache(buckets') = {}
  <2>1. (buckets = <<EmptyBucket>> => Good(buckets) /\ InTable(buckets) = {} /\ InCache(buckets) = {})'
    BY InitGood, PTL
  <2>2. QED
    BY <2>1 DEF rebuild
<1>2. /\ left'.nodes = InTable(buckets) /\ left'.cache = InCache(buckets)
  BY DEF rebuild
<1>3. left' \in Pair
  <2>1. InTable(buckets) \in SUBSET Node /\ InCache(buckets) \in SUBSET Node
    BY OneEach DEF TInv, Held
  <2>2. QED
    BY <2>1 DEF rebuild, Pair
<1>4. WaitingApart'
  <2>1. /\ \A n, k \in InTable(buckets) \cup InCache(buckets) : n.id = k.id => n = k
        /\ InTable(buckets) \cap InCache(buckets) = {}
    BY OneEach DEF TInv, Held
  <2>2. QED
    BY <1>1, <1>2, <2>1, Zenon DEF WaitingApart, Waiting, Held
<1>5. QED
  BY <1>1, <1>2, <1>3, <1>4 DEF rebuild

\* A waiting node goes into the table, or is refused; either way nothing else is new there.
LEMMA ReinsertKeeps ==
    ASSUME TInv, reinsert
    PROVE  /\ left' \in Pair /\ Good(buckets') /\ WaitingApart'
           /\ left'.nodes \subseteq left.nodes /\ left'.cache \subseteq left.cache
           /\ \A n \in Held(buckets') : n \in Held(buckets) \/ n \in Waiting
           /\ \A n \in InTable(buckets) : n \in InTable(buckets') \/ Bad(n)
<1> DEFINE rest(x) == /\ Insert(buckets, x) /\ x \in Waiting
                      /\ left' \in Pair
                      /\ left'.nodes \subseteq left.nodes /\ left'.cache \subseteq left.cache
                      /\ x \notin left'.nodes \cup left'.cache
<1>1. left \in Pair /\ left.nodes \subseteq Node /\ left.cache \subseteq Node
  BY DEF TInv, Pair
<1>2. left.nodes \cap left.cache = {}
  BY DEF TInv, WaitingApart
<1>3. ASSUME NEW n \in left.nodes, Insert(buckets, n), left' = [left EXCEPT !.nodes = @ \ {n}]
      PROVE  rest(n)
  <2>1. left'.nodes = left.nodes \ {n} /\ left'.cache = left.cache /\ left' \in Pair
    BY <1>1, <1>3 DEF Pair
  <2>2. QED
    BY <1>2, <1>3, <2>1 DEF Waiting
<1>4. ASSUME left.nodes = {}, NEW n \in left.cache, Insert(buckets, n),
             left' = [left EXCEPT !.cache = @ \ {n}]
      PROVE  rest(n)
  <2>1. left'.nodes = left.nodes /\ left'.cache = left.cache \ {n} /\ left' \in Pair
    BY <1>1, <1>4 DEF Pair
  <2>2. QED
    BY <1>2, <1>4, <2>1 DEF Waiting
<1>5. PICK x : rest(x)
  BY <1>3, <1>4 DEF reinsert
<1>6. x \in Node /\ \A n \in Held(buckets) : n.id # x.id
  BY <1>1, <1>5 DEF TInv, WaitingApart, Waiting
<1>7. /\ Good(buckets')
      /\ \A n \in InTable(buckets') : n \in InTable(buckets) \/ n = x
      /\ \A n \in InCache(buckets') : n \in InCache(buckets) \/ n = x
      /\ \A n \in InTable(buckets) : n \in InTable(buckets') \/ Bad(n)
  BY <1>5, <1>6, InsertKeeps DEF TInv
<1>8. /\ \A n \in Held(buckets') : n \in Held(buckets) \/ n = x
      /\ \A n \in left'.nodes \cup left'.cache : n \in Waiting /\ n # x
  BY <1>5, <1>7, Zenon DEF Held, Waiting
<1>9. WaitingApart'
  <2>1. \A n, k \in Waiting : n.id = k.id => n = k
    BY DEF TInv, WaitingApart
  <2>2. \A n \in Waiting, k \in Held(buckets) : n.id # k.id
    BY DEF TInv, WaitingApart
  <2>3. left'.nodes \cap left'.cache = {}
    BY <1>2, <1>5
  <2>4. \A n, k \in Waiting' : n.id = k.id => n = k
    BY <1>8, <2>1, Zenon DEF Waiting
  <2>5. \A n \in Waiting', k \in Held(buckets') : n.id # k.id
    BY <1>5, <1>8, <2>1, <2>2, Zenon DEF Waiting
  <2>6. QED
    BY <2>3, <2>4, <2>5, Zenon DEF WaitingApart, Waiting, Held
<1>10. QED
  BY <1>5, <1>7, <1>8, <1>9

\* The same table under the same ID is as good after the step as before it.
LEMMA StillGood ==
    ASSUME Good(buckets'), self' = self PROVE Good(buckets)'
  BY DEF Good, GoodBucket, bucketIndexFor, Place

\* The invariant holds of the empty table.
LEMMA TableInit == Init => TInv
<1> SUFFICES ASSUME Init PROVE TInv
  OBVIOUS
<1>1. Good(buckets)
  BY InitGood DEF Init
<1>2. left \in Pair /\ WaitingApart
  BY IdleApart DEF Init
<1>3. 1 \in 1..MaxNow
  BY TableAssumption
<1>4. QED
  BY <1>1, <1>2, <1>3 DEF Init, TInv

\* Every operation of the table keeps the invariant.
LEMMA TableNext == TInv /\ [Next]_vars => TInv'
<1> SUFFICES ASSUME TInv, [Next]_vars PROVE TInv'
  OBVIOUS
<1>1. self \in Ids /\ now \in 1..MaxNow /\ left \in Pair /\ Good(buckets) /\ WaitingApart
  BY DEF TInv
<1>2. ASSUME left' = left, left = NoneLeft PROVE left' \in Pair /\ WaitingApart'
  <2>1. left' = NoneLeft
    BY <1>2
  <2>2. (left = NoneLeft => left \in Pair /\ WaitingApart)'
    BY <2>1 DEF NoneLeft, Pair, WaitingApart, Waiting
  <2>3. QED
    BY <2>1, <2>2
<1>3. ASSUME NEW id \in Ids, NEW ep \in Endpoints, heardFrom(id, ep) PROVE TInv'
  <2>1. /\ self' = self /\ left' = left /\ now' = now /\ left = NoneLeft
    BY <1>3 DEF heardFrom, Idle
  <2>2. Good(buckets')
    BY <1>1, <1>3, HeardKeeps DEF Heard
  <2>3. QED
    BY <1>1, <1>2, <2>1, <2>2, StillGood DEF TInv
<1>4. ASSUME NEW ep \in Endpoints, failed(ep) PROVE TInv'
  <2>1. /\ self' = self /\ left' = left /\ now' = now /\ left = NoneLeft
    BY <1>4 DEF failed, Idle
  <2>2. Good(buckets')
    BY <1>1, <1>4, FailedKeeps
  <2>3. QED
    BY <1>1, <1>2, <2>1, <2>2, StillGood DEF TInv
<1>5. ASSUME NEW id \in Ids, rebuild(id) PROVE TInv'
  <2>1. now' = now
    BY <1>5 DEF rebuild
  <2>2. QED
    BY <1>1, <1>5, <2>1, RebuildKeeps DEF TInv
<1>6. CASE reinsert
  <2>1. self' = self /\ now' = now
    BY <1>6 DEF reinsert
  <2>2. QED
    BY <1>1, <1>6, <2>1, ReinsertKeeps, StillGood DEF TInv
<1>7. CASE Tick
  <2>1. /\ self' = self /\ left' = left /\ buckets' = buckets /\ left = NoneLeft
        /\ now' \in 1..MaxNow
    BY <1>1, <1>7, TableAssumption DEF Tick, Idle
  <2>2. Good(buckets')
    BY <1>1, <2>1
  <2>3. QED
    BY <1>1, <1>2, <2>1, <2>2, StillGood DEF TInv
<1>8. CASE UNCHANGED vars
  <2>1. /\ self' = self /\ left' = left /\ buckets' = buckets /\ now' = now
    BY <1>8 DEF vars
  <2>2. Good(buckets')
    BY <1>1, <2>1
  <2>3. WaitingApart'
    BY <1>1, <2>1 DEF WaitingApart, Waiting, Held, InTable, InCache
  <2>4. QED
    BY <1>1, <2>1, <2>2, <2>3, StillGood DEF TInv
<1>9. QED
  BY <1>3, <1>4, <1>5, <1>6, <1>7, <1>8 DEF Next

\* The inductive invariant says what the runs check.
LEMMA TableImplied == TInv => TableInv
<1> SUFFICES ASSUME TInv PROVE TableInv
  OBVIOUS
<1>1. self \in Ids /\ now \in 1..MaxNow /\ left \in Pair /\ Good(buckets) /\ WaitingApart
  BY DEF TInv
<1>2. TypeOK
  BY <1>1 DEF TypeOK, Good
<1>3. WellPlaced
  BY <1>1 DEF WellPlaced, Good, GoodBucket
<1>4. /\ \A n, k \in Held(buckets) : n.id = k.id => n = k
      /\ InTable(buckets) \cap InCache(buckets) = {}
      /\ \A n \in Held(buckets) : n.id # self
  BY <1>1, OneEach
<1>5. OneEntryPerId
  <2> DEFINE all == InTable(buckets) \cup InCache(buckets) \cup left.nodes \cup left.cache
  <2>1. \A n \in all : n \in Held(buckets) \/ n \in Waiting
    BY DEF Held, Waiting
  <2>2. \A m, n \in all : m.id = n.id => m = n
    BY <1>1, <1>4, <2>1 DEF WaitingApart
  <2>3. self \notin IdsOf(InTable(buckets) \cup InCache(buckets))
    BY <1>4 DEF IdsOf, Held
  <2>4. QED
    BY <1>4, <2>2, <2>3 DEF OneEntryPerId
<1>6. WithinK
  BY <1>1 DEF WithinK, Good, GoodBucket
<1>7. SplitFindsNoCache
  BY <1>1, TableAssumption DEF SplitFindsNoCache, Good, GoodBucket, canSplit
<1>8. QED
  BY <1>2, <1>3, <1>5, <1>6, <1>7 DEF TableInv

\* Through any sequence of answers, failures and changes of our own ID, every node is in the
\* bucket it is looked for in, under an ID nobody else in the table, the caches or the nodes
\* being re-inserted has, no bucket or cache outgrows K, and split() never meets a cache:
\* for IDs of any length, any K and any limits on failures.
THEOREM TableSafety == Spec => []TableInv
<1>1. TInv /\ [Next]_vars => TInv'
  BY TableNext
<1>2. QED
  BY <1>1, TableInit, TableImplied, PTL DEF Spec

\* A node of the table makes way for another only when it is bad, or is with the failure just
\* reported: neither an answer nor a rebuild() pushes a working node out.
THEOREM NoGoodNodeDisplaced == Spec => OnlyBadDisplaced
<1> DEFINE Kept == \A n \in InTable(buckets), m \in InTable(buckets') :
                     ( /\ n.id \notin IdsOf(InTable(buckets'))
                       /\ m.id \notin IdsOf(InTable(buckets))
                       /\ m.ep # n.ep )
                     => Bad(n) \/ (m \in InCache(buckets) /\ n.fails + 1 >= BadFailCount)
<1>1. TInv /\ [Next]_vars => [Kept]_vars
  <2> SUFFICES ASSUME TInv, Next PROVE Kept
    OBVIOUS
  <2>1. Good(buckets) /\ now \in 1..MaxNow
    BY DEF TInv
  <2>2. ASSUME NEW id \in Ids, NEW ep \in Endpoints, heardFrom(id, ep) PROVE Kept
    <3>1. Heard(buckets, id, ep)
      BY <2>1, <2>2, HeardKeeps
    <3>2. QED
      BY <3>1, Zenon DEF Heard, IdsOf
  <2>3. ASSUME NEW ep \in Endpoints, failed(ep) PROVE Kept
    BY <2>1, <2>3, FailedKeeps
  <2>4. ASSUME NEW id \in Ids, rebuild(id) PROVE Kept
    BY <2>4, RebuildKeeps
  <2>5. CASE reinsert
    <3>1. \A n \in InTable(buckets) : n \in InTable(buckets') \/ Bad(n)
      BY <2>5, ReinsertKeeps
    <3>2. QED
      BY <3>1, Zenon DEF IdsOf
  <2>6. CASE Tick
    <3>1. InTable(buckets') = InTable(buckets)
      BY <2>6 DEF Tick
    <3>2. QED
      BY <3>1, Zenon DEF IdsOf
  <2>7. QED
    BY <2>2, <2>3, <2>4, <2>5, <2>6 DEF Next
<1>2. QED
  BY <1>1, TableInit, TableNext, PTL DEF Spec, OnlyBadDisplaced

-----------------------------------------------------------------------------
(* The vote on our address                                                 *)

\* What one address said ours is.
Vote == [ip : {e.ip : e \in Endpoints}, reported : Addresses]

\* At most MaxVoters votes, one per address.
GoodVotes(vs) ==
    /\ vs \in Seq(Vote) /\ Len(vs) <= MaxVoters
    /\ \A i, j \in 1..Len(vs) : vs[i].ip = vs[j].ip => i = j

\* The votes without the i-th, which was the voter's own.
LEMMA WithoutKeeps ==
    ASSUME GoodVotes(votes), NEW i \in 1..Len(votes)
    PROVE  /\ GoodVotes(Without(i)) /\ Len(Without(i)) = Len(votes) - 1
           /\ \A j \in 1..Len(Without(i)) : Without(i)[j].ip # votes[i].ip
<1> DEFINE w == Without(i)
           at(j) == IF j < i THEN j ELSE j + 1
<1>1. /\ votes \in Seq(Vote) /\ Len(votes) \in Nat /\ Len(votes) <= MaxVoters /\ MaxVoters \in Nat
      /\ Len(votes) - 1 \in Nat
  BY NodeAssumption DEF GoodVotes
<1>2. /\ \A j \in 1..(Len(votes) - 1) : at(j) \in 1..Len(votes) /\ at(j) # i
      /\ \A j, k \in 1..(Len(votes) - 1) : at(j) = at(k) => j = k
  BY <1>1
<1>3. \A j \in 1..(Len(votes) - 1) : w[j] = votes[at(j)]
  BY DEF Without
<1>4. w \in [1..(Len(votes) - 1) -> Vote]
  BY <1>1, <1>2 DEF Without
<1> HIDE DEF w, at
<1>5. w \in Seq(Vote) /\ Len(w) = Len(votes) - 1
  BY <1>1, <1>4
<1>6. \A j, k \in 1..Len(votes) : votes[j].ip = votes[k].ip => j = k
  BY DEF GoodVotes
<1>7. ASSUME NEW j \in 1..Len(w), NEW k \in 1..Len(w), w[j].ip = w[k].ip PROVE j = k
  BY <1>2, <1>3, <1>5, <1>6, <1>7
<1>8. ASSUME NEW j \in 1..Len(w) PROVE w[j].ip # votes[i].ip
  BY <1>2, <1>3, <1>5, <1>6
<1>9. Len(w) <= MaxVoters
  BY <1>1, <1>5
<1>10. QED
  BY <1>5, <1>7, <1>8, <1>9, Zenon DEF GoodVotes, w

\* addVote() keeps one vote per address, and no more than MaxVoters.
LEMMA VotedKeeps ==
    ASSUME GoodVotes(votes), NEW ip \in {e.ip : e \in Endpoints}, NEW x \in Addresses
    PROVE  GoodVotes(Voted(ip, x))
<1> DEFINE mine == {i \in 1..Len(votes) : votes[i].ip = ip}
           others == IF mine = {} THEN votes ELSE Without(CHOOSE i \in mine : TRUE)
           v == [ip |-> ip, reported |-> x]
           all == Append(others, v)
<1>1. v \in Vote /\ v.ip = ip /\ MaxVoters \in Nat \ {0}
  BY NodeAssumption DEF Vote
<1>2. GoodVotes(others) /\ \A j \in 1..Len(others) : others[j].ip # ip
  <2>1. CASE mine = {}
    BY <2>1
  <2>2. CASE mine # {}
    <3>1. PICK i \in 1..Len(votes) : i = (CHOOSE k \in mine : TRUE) /\ votes[i].ip = ip
      BY <2>2
    <3>2. others = Without(i)
      BY <2>2, <3>1
    <3>3. QED
      BY <3>1, <3>2, WithoutKeeps
  <2>3. QED
    BY <2>1, <2>2
<1> HIDE DEF mine, others, v
<1>3. /\ all \in Seq(Vote) /\ Len(all) = Len(others) + 1
      /\ \A j \in 1..Len(others) : all[j] = others[j]
      /\ all[Len(others) + 1] = v
      /\ Len(others) \in Nat /\ Len(others) <= MaxVoters
  BY <1>1, <1>2 DEF GoodVotes
<1> HIDE DEF all
<1>4. ASSUME NEW j \in 1..Len(all), NEW k \in 1..Len(all), all[j].ip = all[k].ip PROVE j = k
  <2>1. (j \in 1..Len(others) \/ j = Len(others) + 1) /\ (k \in 1..Len(others) \/ k = Len(others) + 1)
    BY <1>3
  <2>2. \A a, b \in 1..Len(others) : others[a].ip = others[b].ip => a = b
    BY <1>2 DEF GoodVotes
  <2>3. QED
    BY <1>1, <1>2, <1>3, <1>4, <2>1, <2>2, Zenon
<1>5. CASE Len(all) > MaxVoters
  <2>1. /\ Tail(all) \in Seq(Vote) /\ Len(Tail(all)) = Len(all) - 1
        /\ \A j \in 1..Len(Tail(all)) : Tail(all)[j] = all[j + 1]
    BY <1>3
  <2>2. Len(Tail(all)) <= MaxVoters
    BY <1>1, <1>3, <2>1
  <2>3. ASSUME NEW j \in 1..Len(Tail(all)), NEW k \in 1..Len(Tail(all)),
               Tail(all)[j].ip = Tail(all)[k].ip
        PROVE  j = k
    <3>1. j + 1 \in 1..Len(all) /\ k + 1 \in 1..Len(all)
      BY <1>3, <2>1
    <3>2. all[j + 1].ip = all[k + 1].ip
      BY <2>1, <2>3
    <3>3. j + 1 = k + 1
      BY <1>4, <3>1, <3>2
    <3>4. QED
      BY <3>3
  <2>4. GoodVotes(Tail(all))
    BY <2>1, <2>2, <2>3 DEF GoodVotes
  <2>5. Voted(ip, x) = Tail(all)
    BY <1>5 DEF Voted, all, others, mine, v
  <2>6. QED
    BY <2>4, <2>5
<1>6. CASE ~(Len(all) > MaxVoters)
  <2>1. GoodVotes(all)
    BY <1>1, <1>3, <1>4, <1>6 DEF GoodVotes
  <2>2. Voted(ip, x) = all
    BY <1>6 DEF Voted, all, others, mine, v
  <2>3. QED
    BY <2>1, <2>2
<1>7. QED
  BY <1>5, <1>6

\* Two addresses cannot both be reported twice as often as the other.
LEMMA OneWinner ==
    ASSUME NEW vs, GoodVotes(vs), NEW x \in Winners(vs), NEW y \in Winners(vs)
    PROVE  x = y
<1>1. ASSUME NEW z PROVE Tally(vs, z) \in Nat
  <2>1. Len(vs) \in Nat
    BY DEF GoodVotes
  <2>2. IsFiniteSet(1..Len(vs))
    BY <2>1, FS_Interval
  <2>3. IsFiniteSet({i \in 1..Len(vs) : vs[i].reported = z})
    BY <2>2, FS_Subset
  <2>4. QED
    BY <2>3, FS_CardinalityType DEF Tally
<1>2. MinVotes \in Nat \ {0}
  BY NodeAssumption
<1>3. CASE x # y
  <2>1. /\ Tally(vs, x) >= 2 * Tally(vs, y) /\ Tally(vs, y) >= 2 * Tally(vs, x)
        /\ Tally(vs, x) >= MinVotes
    BY <1>3 DEF Winners
  <2>2. QED
    BY <1>1, <1>2, <2>1
<1>4. QED
  BY <1>3

\* As votes are of different addresses, the tally counts addresses.
LEMMA TallyCountsVoters ==
    ASSUME NEW vs, GoodVotes(vs), NEW x
    PROVE  Tally(vs, x) = Cardinality({v.ip : v \in {vs[i] : i \in {j \in 1..Len(vs) : vs[j].reported = x}}})
<1> DEFINE J == {j \in 1..Len(vs) : vs[j].reported = x}
           T == {v.ip : v \in {vs[i] : i \in J}}
           f == [i \in J |-> vs[i].ip]
<1>1. IsFiniteSet(J)
  <2>1. Len(vs) \in Nat
    BY DEF GoodVotes
  <2>2. IsFiniteSet(1..Len(vs))
    BY <2>1, FS_Interval
  <2>3. QED
    BY <2>2, FS_Subset
<1>2. \A i, j \in J : vs[i].ip = vs[j].ip => i = j
  BY DEF GoodVotes
<1>3. f \in Bijection(J, T)
  <2>1. f \in [J -> T]
    OBVIOUS
  <2>2. \A i, j \in J : f[i] = f[j] => i = j
    BY <1>2
  <2>3. \A t \in T : \E i \in J : f[i] = t
    OBVIOUS
  <2> HIDE DEF J, T, f
  <2>4. QED
    BY <2>1, <2>2, <2>3 DEF Bijection, Injection, Surjection, IsInjective
<1>4. ExistsBijection(J, T)
  BY <1>3 DEF ExistsBijection
<1>5. Cardinality(T) = Cardinality(J)
  BY <1>1, <1>4, FS_Bijection
<1>6. QED
  BY <1>5 DEF Tally

-----------------------------------------------------------------------------
(* The node changes its table by the table's own operations                *)

\* What an answer can say.
LEMMA Answers ==
    ASSUME NEW r \in Answer
    PROVE  /\ r.from \in Endpoints /\ r.seed \in BOOLEAN
           /\ r.id = {} \/ \E i \in RemoteIds : r.id = {i}
           /\ r.reported \subseteq Addresses
<1>1. Nameless \subseteq Endpoints
  BY NodeAssumption
<1>2. CASE r \in [from : Endpoints \ Nameless, id : {{}} \cup {{i} : i \in RemoteIds},
                  reported : {{}} \cup {{x} : x \in Addresses}, seed : BOOLEAN]
  BY <1>2
<1>3. CASE r \in [from : Nameless, id : {{}}, reported : {{x} : x \in Addresses}, seed : {FALSE}]
  BY <1>1, <1>3
<1>4. QED
  BY <1>2, <1>3 DEF Answer

\* Learning from an answer is heardFrom() of the node that sent it, or nothing.
LEMMA LearnStep ==
    ASSUME NEW r \in Answer, Learn(r)
    PROVE  \/ UNCHANGED vars
           \/ \E id \in Ids : /\ r.id = {id} /\ ~isRouter(r.from) /\ heardFrom(id, r.from)
<1>1. CASE Learnable(r)
  <2>1. PICK id \in r.id : heardFrom(id, r.from)
    BY <1>1 DEF Learn
  <2>2. r.id = {id} /\ id \in Ids
    BY <2>1, Answers, NodeAssumption
  <2>3. QED
    BY <1>1, <2>1, <2>2 DEF Learnable
<1>2. CASE ~Learnable(r)
  BY <1>2 DEF Learn
<1>3. QED
  BY <1>1, <1>2

\* The address decided on is one that votes are cast for.
LEMMA WinnersAreAddresses ==
    ASSUME NEW vs, NEW x \in Winners(vs) PROVE x \in Addresses /\ IdFor[x] \in Ids
  BY NodeAssumption DEF Winners, Addresses

\* onRpcReply() of a response, for the table.
LEMMA ResponseStep ==
    ASSUME NEW r \in Answer, onResponse(r)
    PROVE  \/ UNCHANGED vars
           \/ \E id \in Ids : r.id = {id} /\ ~isRouter(r.from) /\ heardFrom(id, r.from)
           \/ \E id \in Ids : rebuild(id)
<1> DEFINE after == IF r.reported = {} THEN votes ELSE Voted(r.from.ip, CHOOSE x \in r.reported : TRUE)
           won == IF r.reported = {} THEN {} ELSE Winners(after) \ consensus
<1>1. CASE \E x \in won : Adopts(x)
  <2>1. PICK x \in won : rebuild(IdFor[x])
    BY <1>1 DEF onResponse
  <2> HIDE DEF after
  <2>2. IdFor[x] \in Ids
    BY <2>1, WinnersAreAddresses
  <2>3. QED
    BY <2>1, <2>2
<1>2. CASE ~\E x \in won : Adopts(x)
  <2>1. Learn(r)
    BY <1>2 DEF onResponse
  <2>2. QED
    BY <2>1, LearnStep
<1>3. QED
  BY <1>1, <1>2

\* Every step of the node is an operation of the table or leaves it alone.
LEMMA NodeStep ==
    ASSUME handling \subseteq Answer, [NodeNext]_nodeVars PROVE [Next]_vars
<1>1. ASSUME NEW id \in RemoteIds, NEW e \in Endpoints \ Nameless, handleQuery(id, e)
      PROVE  UNCHANGED vars
  BY <1>1 DEF handleQuery, maybeVerify
<1>2. ASSUME NEW r \in Answer, onResponse(r) PROVE [Next]_vars
  BY <1>2, ResponseStep, Answers DEF Next
<1>3. ASSUME NEW e \in Endpoints \ Nameless, onTimeout(e) PROVE [Next]_vars
  BY <1>3 DEF onTimeout, Next
<1>4. ASSUME NEW e \in SeedEndpoints, onSeedFailure(e) PROVE [Next]_vars
  <2>1. e \in Endpoints
    BY NodeAssumption
  <2>2. QED
    BY <1>4, <2>1 DEF onSeedFailure, Next
<1>5. ASSUME NEW e \in SeedEndpoints, NEW source \in Sources, addSeed(e, source) PROVE UNCHANGED vars
  BY <1>5 DEF addSeed
<1>6. CASE resume
  BY <1>6, LearnStep, Answers DEF resume, Next
<1>7. CASE rekey
  BY <1>7 DEF rekey, Next
<1>8. CASE onMaintenance
  BY <1>8 DEF onMaintenance
<1>9. CASE UNCHANGED nodeVars
  BY <1>9 DEF nodeVars
<1>10. QED
  BY <1>1, <1>2, <1>3, <1>4, <1>5, <1>6, <1>7, <1>8, <1>9 DEF NodeNext

-----------------------------------------------------------------------------
(* The node's own state                                                    *)

\* A seed as the user sees it.
Seed == [source : Sources, state : States]

\* Seeds, and the queries to them whose callbacks are to come.
SeedsOK ==
    /\ seeds \in [DOMAIN seeds -> Seed] /\ DOMAIN seeds \subseteq SeedEndpoints
    /\ asked \in [SeedEndpoints -> 0..MaxAsked]
    /\ QueryingIsAwaited

\* The endpoints verified lately are within their limit.
RecentOK ==
    /\ recent \subseteq Endpoints
    /\ IsFiniteSet(recent) /\ Cardinality(recent) <= MaxPendingVerifications

\* The votes, what they decided, and the ID that follows from it.
VoterOK == GoodVotes(votes) /\ consensus \subseteq Addresses /\ IdFollowsAddress

\* The answer being handled while the table is re-keyed is one whose callback is known.
HandlingOK == handling \subseteq Answer /\ \A r \in handling : r.seed => r.from \in SeedEndpoints

\* The inductive invariant of the node's own state.
NInv == SeedsOK /\ RecentOK /\ VoterOK /\ HandlingOK

\* A seed is settled by the callback of one query to it.
LEMMA SettledKeeps ==
    ASSUME SeedsOK, NEW e \in SeedEndpoints, NEW state \in {"Responded", "NoResponse"},
           SeedSettled(e, state)
    PROVE  SeedsOK'
<1>1. MaxAsked \in Nat \ {0}
  BY NodeAssumption
<1>2. /\ asked' \in [SeedEndpoints -> 0..MaxAsked]
      /\ \A f \in SeedEndpoints : f # e => asked'[f] = asked[f]
  BY <1>1 DEF SeedSettled, SeedsOK
<1>3. DOMAIN seeds' = DOMAIN seeds /\ seeds' \in [DOMAIN seeds -> Seed]
  BY DEF SeedSettled, SeedsOK, Seed, States
<1>4. \A f \in DOMAIN seeds : seeds'[f].state = IF f = e THEN state ELSE seeds[f].state
  BY DEF SeedSettled, SeedsOK, Seed
<1>5. QueryingIsAwaited'
  BY <1>2, <1>3, <1>4 DEF QueryingIsAwaited, SeedsOK
<1>6. QED
  BY <1>2, <1>3, <1>5 DEF SeedsOK

\* The callback of an answer, which is one to a seed or changes no seed.
LEMMA CallbackKeeps ==
    ASSUME SeedsOK, NEW r \in Answer, r.seed => r.from \in SeedEndpoints, Callback(r, "Responded")
    PROVE  SeedsOK'
<1>1. CASE r.seed
  BY <1>1, SettledKeeps DEF Callback
<1>2. CASE ~r.seed
  BY <1>2 DEF Callback, seedVars, SeedsOK, QueryingIsAwaited
<1>3. QED
  BY <1>1, <1>2, Answers

\* addSeed() keeps the seeds.
LEMMA AddSeedKeeps ==
    ASSUME SeedsOK, NEW e \in SeedEndpoints, NEW source \in Sources, addSeed(e, source)
    PROVE  SeedsOK'
<1> DEFINE D == DOMAIN seeds \cup {e}
<1>1. MaxAsked \in Nat \ {0}
  BY NodeAssumption
<1>2. /\ asked' \in [SeedEndpoints -> 0..MaxAsked] /\ asked'[e] > 0
      /\ \A f \in SeedEndpoints : f # e => asked'[f] = asked[f]
  BY <1>1 DEF addSeed, SeedsOK
<1>3. SourceOf(e, source) \in Sources
  BY DEF SourceOf, SeedsOK, Seed
<1>4. [source |-> SourceOf(e, source), state |-> "Querying"] \in Seed
  BY <1>3 DEF Seed, States
<1>5. \A f \in D : f # e => seeds[f] \in Seed
  BY DEF SeedsOK
<1>6. /\ DOMAIN seeds' = D /\ seeds' \in [D -> Seed] /\ D \subseteq SeedEndpoints
      /\ \A f \in D : f # e => f \in DOMAIN seeds /\ seeds'[f] = seeds[f]
  BY <1>4, <1>5 DEF addSeed, SeedsOK
<1>7. QueryingIsAwaited'
  BY <1>2, <1>6 DEF QueryingIsAwaited, SeedsOK
<1>8. QED
  BY <1>2, <1>6, <1>7 DEF SeedsOK

\* The vote, and the ID that follows a decision.
LEMMA ResponseVotes ==
    ASSUME VoterOK, NEW r \in Answer, onResponse(r)
    PROVE  /\ VoterOK'
           /\ \A x \in consensus' \ consensus : x \in Winners(votes')
<1> DEFINE after == IF r.reported = {} THEN votes ELSE Voted(r.from.ip, CHOOSE x \in r.reported : TRUE)
           won == IF r.reported = {} THEN {} ELSE Winners(after) \ consensus
<1>1. GoodVotes(after)
  <2>1. CASE r.reported = {}
    BY <2>1 DEF VoterOK
  <2>2. CASE r.reported # {}
    <3>1. (CHOOSE x \in r.reported : TRUE) \in Addresses /\ r.from.ip \in {e.ip : e \in Endpoints}
      BY <2>2, Answers
    <3>2. GoodVotes(Voted(r.from.ip, CHOOSE x \in r.reported : TRUE))
      BY <3>1, VotedKeeps DEF VoterOK
    <3>3. QED
      BY <2>2, <3>2
  <2>3. QED
    BY <2>1, <2>2
<1>2. votes' = after /\ consensus' = IF won = {} THEN consensus ELSE won
  BY DEF onResponse
<1> HIDE DEF after
<1>3. \A x \in won : x \in Winners(after) /\ x \in Addresses
  BY WinnersAreAddresses
<1>4. \A x, y \in won : x = y
  BY <1>1, <1>3, OneWinner
<1>5. consensus' \subseteq Addresses
  BY <1>2, <1>3 DEF VoterOK
<1>6. IdFollowsAddress'
  <2>1. CASE \E x \in won : Adopts(x)
    <3>1. PICK x \in won : rebuild(IdFor[x])
      BY <2>1 DEF onResponse, after
    <3>2. self' = IdFor[x] /\ consensus' = {x}
      BY <1>2, <1>4, <3>1 DEF rebuild
    <3>3. QED
      BY <3>2 DEF IdFollowsAddress
  <2>2. CASE ~\E x \in won : Adopts(x)
    <3>1. Learn(r)
      BY <2>2 DEF onResponse, after
    <3>2. self' = self
      BY <3>1, LearnStep DEF heardFrom, vars
    <3>3. \A x \in won : x \in Exempt \/ self = IdFor[x]
      BY <2>2 DEF Adopts
    <3>4. QED
      BY <1>2, <3>2, <3>3 DEF IdFollowsAddress, VoterOK
  <2>3. QED
    BY <2>1, <2>2
<1>7. \A x \in consensus' \ consensus : x \in Winners(votes')
  BY <1>2, <1>3
<1>8. QED
  BY <1>1, <1>2, <1>5, <1>6, <1>7, Zenon DEF VoterOK

\* One more verification, below the limit.
LEMMA VerifyKeeps ==
    ASSUME RecentOK, NEW e \in Endpoints, Cardinality(recent) < MaxPendingVerifications,
           recent' = recent \cup {e}
    PROVE  RecentOK'
<1>1. IsFiniteSet(recent) /\ Cardinality(recent) \in Nat /\ MaxPendingVerifications \in Nat
  BY FS_CardinalityType, NodeAssumption DEF RecentOK
<1>2. IsFiniteSet(recent') /\ Cardinality(recent') <= Cardinality(recent) + 1 /\ Cardinality(recent') \in Nat
  <2>1. /\ IsFiniteSet(recent \cup {e})
        /\ Cardinality(recent \cup {e}) = IF e \in recent THEN Cardinality(recent) ELSE Cardinality(recent) + 1
    BY <1>1, FS_AddElement
  <2>2. QED
    BY <1>1, <2>1
<1>3. Cardinality(recent') <= MaxPendingVerifications
  BY <1>1, <1>2
<1>4. QED
  BY <1>2, <1>3 DEF RecentOK

\* Verifications forgotten.
LEMMA ForgottenKeeps ==
    ASSUME RecentOK, recent' \subseteq recent PROVE RecentOK'
<1>1. IsFiniteSet(recent) /\ Cardinality(recent) \in Nat /\ MaxPendingVerifications \in Nat
  BY FS_CardinalityType, NodeAssumption DEF RecentOK
<1>2. IsFiniteSet(recent') /\ Cardinality(recent') <= Cardinality(recent) /\ Cardinality(recent') \in Nat
  BY <1>1, FS_Subset, FS_CardinalityType
<1>3. Cardinality(recent') <= MaxPendingVerifications
  BY <1>1, <1>2 DEF RecentOK
<1>4. QED
  BY <1>2, <1>3 DEF RecentOK

\* The voter is left alone.
LEMMA VoterStays ==
    ASSUME VoterOK, votes' = votes, consensus' = consensus, self' = self PROVE VoterOK'
  BY DEF VoterOK, GoodVotes, IdFollowsAddress

\* The seeds are left alone.
LEMMA SeedsStay ==
    ASSUME SeedsOK, seeds' = seeds, asked' = asked PROVE SeedsOK'
  BY DEF SeedsOK, QueryingIsAwaited

\* A node begins with an empty table and an ID that follows its address.
LEMMA NodeInitOK == NodeInit => Init /\ NInv
<1> SUFFICES ASSUME NodeInit PROVE Init /\ NInv
  OBVIOUS
<1>1. Init
  BY NodeAssumption DEF NodeInit, Init
<1>2. SeedsOK
  BY NodeAssumption DEF NodeInit, SeedsOK, QueryingIsAwaited
<1>3. RecentOK
  BY FS_EmptySet, NodeAssumption DEF NodeInit, RecentOK
<1>4. VoterOK
  BY NodeAssumption DEF NodeInit, VoterOK, GoodVotes, IdFollowsAddress
<1>5. HandlingOK
  BY DEF NodeInit, HandlingOK
<1>6. QED
  BY <1>1, <1>2, <1>3, <1>4, <1>5 DEF NInv

\* Every step of the node keeps its own state's invariant.
LEMMA NodeNextOK == NInv /\ [NodeNext]_nodeVars => NInv'
<1> SUFFICES ASSUME NInv, [NodeNext]_nodeVars PROVE NInv'
  OBVIOUS
<1> USE DEF NInv
<1>1. ASSUME NEW id \in RemoteIds, NEW e \in Endpoints \ Nameless, handleQuery(id, e) PROVE NInv'
  <2>1. /\ seeds' = seeds /\ asked' = asked /\ votes' = votes /\ consensus' = consensus
        /\ handling' = handling /\ self' = self
        /\ Cardinality(recent) < MaxPendingVerifications /\ recent' = recent \cup {e}
    BY <1>1 DEF handleQuery, maybeVerify, seedVars, voter, vars
  <2>2. RecentOK'
    BY <2>1, VerifyKeeps
  <2>3. QED
    BY <2>1, <2>2, VoterStays, SeedsStay DEF HandlingOK
<1>2. ASSUME NEW r \in Answer, onResponse(r) PROVE NInv'
  <2>1. VoterOK' /\ recent' = recent
    BY <1>2, ResponseVotes DEF onResponse
  <2>2. r.seed => r.from \in SeedEndpoints
    BY <1>2 DEF onResponse
  <2>3. \/ UNCHANGED seedVars /\ handling' = {r}
        \/ Learn(r) /\ UNCHANGED handling
    BY <1>2 DEF onResponse
  <2>4. SeedsOK'
    <3>1. CASE UNCHANGED seedVars
      BY <3>1, SeedsStay DEF seedVars
    <3>2. CASE Learn(r)
      BY <2>2, <3>2, CallbackKeeps DEF Learn
    <3>3. QED
      BY <2>3, <3>1, <3>2
  <2>5. HandlingOK'
    BY <2>2, <2>3 DEF HandlingOK
  <2>6. RecentOK'
    BY <2>1, ForgottenKeeps
  <2>7. QED
    BY <2>1, <2>4, <2>5, <2>6
<1>3. ASSUME NEW e \in Endpoints \ Nameless, onTimeout(e) PROVE NInv'
  <2>1. /\ seeds' = seeds /\ asked' = asked /\ votes' = votes /\ consensus' = consensus
        /\ handling' = handling /\ self' = self /\ recent' = recent
    BY <1>3 DEF onTimeout, failed, seedVars, voter
  <2>2. QED
    BY <2>1, VoterStays, SeedsStay, ForgottenKeeps DEF HandlingOK
<1>4. ASSUME NEW e \in SeedEndpoints, onSeedFailure(e) PROVE NInv'
  <2>1. /\ votes' = votes /\ consensus' = consensus
        /\ handling' = handling /\ self' = self /\ recent' = recent
    BY <1>4 DEF onSeedFailure, failed, voter, vars
  <2>2. SeedsOK'
    BY <1>4, SettledKeeps DEF onSeedFailure
  <2>3. QED
    BY <2>1, <2>2, VoterStays, ForgottenKeeps DEF HandlingOK
<1>5. ASSUME NEW e \in SeedEndpoints, NEW source \in Sources, addSeed(e, source) PROVE NInv'
  <2>1. /\ votes' = votes /\ consensus' = consensus
        /\ handling' = handling /\ self' = self /\ recent' = recent
    BY <1>5 DEF addSeed, voter, vars
  <2>2. QED
    BY <1>5, <2>1, AddSeedKeeps, VoterStays, ForgottenKeeps DEF HandlingOK
<1>6. CASE resume
  <2>1. PICK r \in handling : Learn(r)
    BY <1>6 DEF resume
  <2>2. r \in Answer /\ (r.seed => r.from \in SeedEndpoints)
    BY <2>1 DEF HandlingOK
  <2>3. SeedsOK'
    BY <2>1, <2>2, CallbackKeeps DEF Learn
  <2>4. self' = self
    BY <2>1, <2>2, LearnStep DEF heardFrom, vars
  <2>5. votes' = votes /\ consensus' = consensus /\ handling' = {} /\ recent' = recent
    BY <1>6 DEF resume, voter
  <2>6. QED
    BY <2>3, <2>4, <2>5, VoterStays, ForgottenKeeps DEF HandlingOK
<1>7. CASE rekey
  <2>1. /\ seeds' = seeds /\ asked' = asked /\ votes' = votes /\ consensus' = consensus
        /\ handling' = handling /\ self' = self /\ recent' = recent
    BY <1>7 DEF rekey, reinsert, seedVars, voter
  <2>2. QED
    BY <2>1, VoterStays, SeedsStay, ForgottenKeeps DEF HandlingOK
<1>8. CASE onMaintenance
  <2>1. /\ seeds' = seeds /\ asked' = asked /\ votes' = votes /\ consensus' = consensus
        /\ handling' = handling /\ self' = self /\ recent' \subseteq recent
    BY <1>8 DEF onMaintenance, seedVars, voter, vars
  <2>2. QED
    BY <2>1, VoterStays, SeedsStay, ForgottenKeeps DEF HandlingOK
<1>9. CASE UNCHANGED nodeVars
  <2>1. /\ seeds' = seeds /\ asked' = asked /\ votes' = votes /\ consensus' = consensus
        /\ handling' = handling /\ self' = self /\ recent' = recent
    BY <1>9 DEF nodeVars, seedVars, voter, vars
  <2>2. QED
    BY <2>1, VoterStays, SeedsStay, ForgottenKeeps DEF HandlingOK
<1>10. QED
  BY <1>1, <1>2, <1>3, <1>4, <1>5, <1>6, <1>7, <1>8, <1>9 DEF NodeNext

\* Whatever a node is asked and answered, its table goes through the steps of RoutingTable
\* and no others: no handler touches m_table but through its operations, and none between two
\* steps of rebuild().
THEOREM NodeUsesTable == NodeSpec => Spec
<1>1. NInv /\ [NodeNext]_nodeVars => [Next]_vars
  BY NodeStep DEF NInv, HandlingOK
<1>2. QED
  BY <1>1, NodeInitOK, NodeNextOK, PTL DEF NodeSpec, Spec

\* No seed is shown as being queried without a callback to come, and our ID is the one
\* derived from the address agreed on, however votes, answers and timeouts interleave.
THEOREM NodeSafety == NodeSpec => []NodeInv
<1>1. NInv /\ TableInv => NodeInv
  <2> SUFFICES ASSUME NInv, TableInv PROVE NodeInv
    OBVIOUS
  <2>1. \A e \in DOMAIN seeds : seeds[e] \in [source : Sources, state : States]
    BY DEF NInv, SeedsOK, Seed
  <2>2. NodeTypeOK
    BY <2>1 DEF NInv, SeedsOK, RecentOK, VoterOK, HandlingOK, GoodVotes, NodeTypeOK, TableInv
  <2>3. QED
    BY <2>2 DEF NodeInv, NInv, SeedsOK, VoterOK
<1>2. NodeSpec => []NInv
  BY NodeInitOK, NodeNextOK, PTL DEF NodeSpec
<1>3. QED
  BY <1>1, <1>2, NodeUsesTable, TableSafety, PTL

\* Whoever is new in the table, in a cache, or among the nodes being re-inserted is the sender
\* of the answer being handled, under the ID it gave, and no bootstrap router.
THEOREM OnlyAnswersTeach == NodeSpec => LearnsFromAnswers
<1> DEFINE Taught == \A n \in Known(buckets', left') :
              (\A k \in Known(buckets, left) : k.id # n.id \/ k.ep # n.ep) =>
                 \E r \in Answer :
                    /\ r.from = n.ep /\ r.id = {n.id} /\ ~isRouter(n.ep)
                    /\ IF handling = {} THEN onResponse(r) ELSE r \in handling
<1>1. NInv /\ TInv /\ [NodeNext]_nodeVars => [Taught]_nodeVars
  <2> SUFFICES ASSUME NInv, TInv, NodeNext PROVE Taught
    OBVIOUS
  <2>1. Good(buckets) /\ now \in 1..MaxNow
    BY DEF TInv
  <2>2. \A n : n \in Known(buckets, left) <=> n \in Held(buckets) \/ n \in Waiting
    BY DEF Known, Held, Waiting
  <2>3. \A n : n \in Known(buckets', left') <=>
               \/ n \in InTable(buckets') \/ n \in InCache(buckets')
               \/ n \in left'.nodes \/ n \in left'.cache
    BY DEF Known
  <2>4. CASE UNCHANGED vars
    <3>1. \A n \in Known(buckets', left') : n \in Known(buckets, left)
      BY <2>4 DEF vars
    <3>2. QED
      BY <3>1
  <2>5. ASSUME NEW r \in Answer, NEW id \in Ids, r.id = {id}, ~isRouter(r.from),
               heardFrom(id, r.from), IF handling = {} THEN onResponse(r) ELSE r \in handling
        PROVE  Taught
    <3>1. Heard(buckets, id, r.from)
      BY <2>1, <2>5, HeardKeeps, Answers
    <3>2. left' = left
      BY <2>5 DEF heardFrom
    <3>3. ASSUME NEW n \in Known(buckets', left'),
                 \A k \in Known(buckets, left) : k.id # n.id \/ k.ep # n.ep
          PROVE  n.id = id /\ n.ep = r.from
      BY <2>2, <2>3, <3>1, <3>2, <3>3 DEF Heard, Held, Waiting
    <3>4. QED
      BY <2>5, <3>3
  <2>6. ASSUME NEW e \in Endpoints, failed(e) PROVE Taught
    <3>1. /\ \A n \in InTable(buckets') :
                (\E k \in InTable(buckets) : k.id = n.id /\ k.ep = n.ep) \/ n \in InCache(buckets)
          /\ InCache(buckets') \subseteq InCache(buckets) /\ left' = left
      BY <2>1, <2>6, FailedKeeps DEF failed
    <3>2. \A n \in Known(buckets', left') : \E k \in Known(buckets, left) : k.id = n.id /\ k.ep = n.ep
      BY <2>2, <2>3, <3>1 DEF Held, Waiting
    <3>3. QED
      BY <3>2
  <2>7. ASSUME NEW id \in Ids, rebuild(id) PROVE Taught
    <3>1. \A n \in Known(buckets', left') : n \in Known(buckets, left)
      BY <2>2, <2>3, <2>7, RebuildKeeps DEF Held
    <3>2. QED
      BY <3>1
  <2>8. CASE reinsert
    <3>1. \A n \in Known(buckets', left') : n \in Known(buckets, left)
      BY <2>2, <2>3, <2>8, ReinsertKeeps DEF Held, Waiting
    <3>2. QED
      BY <3>1
  <2>9. ASSUME NEW r \in Answer, onResponse(r) PROVE Taught
    <3>1. handling = {}
      BY <2>9 DEF onResponse, Free
    <3>2. QED
      BY <2>4, <2>5, <2>7, <2>9, <3>1, ResponseStep
  <2>10. ASSUME NEW r \in handling, Learn(r) PROVE Taught
    <3>1. r \in Answer
      BY DEF NInv, HandlingOK
    <3>2. QED
      BY <2>4, <2>5, <2>10, <3>1, LearnStep
  <2>11. ASSUME NEW e \in Endpoints, onTimeout(e) \/ onSeedFailure(e) PROVE Taught
    BY <2>4, <2>6, <2>11 DEF onTimeout, onSeedFailure
  <2>12. SeedEndpoints \subseteq Endpoints
    BY NodeAssumption
  <2>13. ASSUME NEW id \in RemoteIds, NEW e \in Endpoints, handleQuery(id, e) PROVE Taught
    BY <2>4, <2>13 DEF handleQuery, maybeVerify
  <2>14. ASSUME NEW e \in SeedEndpoints, NEW source \in Sources, addSeed(e, source) PROVE Taught
    BY <2>4, <2>14 DEF addSeed
  <2>15. CASE resume
    BY <2>10, <2>15 DEF resume
  <2>16. CASE rekey
    BY <2>8, <2>16 DEF rekey
  <2>17. CASE onMaintenance
    BY <2>4, <2>17 DEF onMaintenance
  <2> HIDE DEF Taught
  <2>18. QED
    BY <2>9, <2>11, <2>12, <2>13, <2>14, <2>15, <2>16, <2>17 DEF NodeNext
<1>2. NodeSpec => []NInv
  BY NodeInitOK, NodeNextOK, PTL DEF NodeSpec
<1>3. Spec => []TInv
  BY TableInit, TableNext, PTL DEF Spec
<1>4. QED
  BY <1>1, <1>2, <1>3, NodeUsesTable, PTL DEF NodeSpec, LearnsFromAnswers

\* Our external address changes only on the word of MinVotes different addresses, twice as
\* many as say anything else: as votes are kept per address, nobody counts twice.
THEOREM MajorityDecides == NodeSpec => ConsensusIsMajority
<1> DEFINE
      sayers(y) == {v.ip : v \in {votes'[i] : i \in {j \in 1..Len(votes') : votes'[j].reported = y}}}
      Decided ==
        \A x \in consensus' \ consensus :
           /\ Cardinality(sayers(x)) >= MinVotes
           /\ \A y \in Addresses \ {x} : Cardinality(sayers(x)) >= 2 * Cardinality(sayers(y))
<1>1. NInv /\ [NodeNext]_nodeVars => [Decided]_nodeVars
  <2> SUFFICES ASSUME NInv, NodeNext PROVE Decided
    OBVIOUS
  <2>1. CASE consensus' = consensus
    BY <2>1
  <2>2. ASSUME NEW r \in Answer, onResponse(r) PROVE Decided
    <3>1. GoodVotes(votes') /\ \A x \in consensus' \ consensus : x \in Winners(votes')
      <4>1. VoterOK'
        BY <2>2, ResponseVotes DEF NInv
      <4>2. GoodVotes(votes')
        BY <4>1 DEF VoterOK, GoodVotes
      <4>3. QED
        BY <2>2, <4>2, ResponseVotes DEF NInv
    <3>2. \A y : Tally(votes', y) = Cardinality(sayers(y))
      BY <3>1, TallyCountsVoters
    <3>3. \A x \in consensus' \ consensus :
            /\ Tally(votes', x) >= MinVotes
            /\ \A y \in Addresses \ {x} : Tally(votes', x) >= 2 * Tally(votes', y)
      BY <3>1 DEF Winners
    <3> HIDE DEF sayers
    <3>4. QED
      BY <3>2, <3>3
  <2>3. \/ consensus' = consensus
        \/ \E r \in Answer : onResponse(r)
    BY DEF NodeNext, handleQuery, onTimeout, onSeedFailure, addSeed, resume, rekey, onMaintenance, voter
  <2>4. QED
    BY <2>1, <2>2, <2>3
<1>2. QED
  BY <1>1, NodeInitOK, NodeNextOK, PTL DEF NodeSpec, ConsensusIsMajority
=============================================================================
