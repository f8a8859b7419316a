---------------------------- MODULE LookupProofs ----------------------------
(***************************************************************************)
(* A lookup keeps exact count of its slots, always has a callback to come, *)
(* and reports the K closest that answered, for any number of nodes, any   *)
(* limits, and any order of replies, promotions and refusals.              *)
(***************************************************************************)
EXTENDS Lookup, TLAPS, FiniteSetTheorems, FunctionTheorems

\* m_candidates: what is new, awaited or settled.
Held == {"New"} \cup Awaited \cup Settled

\* The counters of a lookup with candidates f.
Counted(f, inF, out, asked) ==
    /\ f \in [Nodes -> States]
    /\ inF = Cardinality(In(f, {"InFlight"})) /\ inF <= Alpha
    /\ out = Cardinality(In(f, Awaited)) /\ out <= MaxOutstanding
    /\ asked = Cardinality(In(f, Awaited \cup Settled)) /\ asked <= MaxQueries
    /\ Cardinality(In(f, Held)) <= MaxCandidates

\* The queries timed by seq are distinct and in flight.
Timed(seq, f) ==
    /\ seq \in Seq(Nodes)
    /\ \A i \in 1..Len(seq) : f[seq[i]] = "InFlight"
    /\ \A i, j \in 1..Len(seq) : seq[i] = seq[j] => i = j

\* The item kept is the latest that any answer gave.
LatestKept(f, best) ==
    /\ best \in 0..2
    /\ \A n \in In(f, {"Responded"}) : n \in HoldsNew => best = 2
    /\ best = 1 => In(f, {"Responded"}) \cap HoldsOld # {}

\* Before start() nothing has been asked.
NotStarted == ~started => ~finished /\ ~slowTimer /\ In(st, Awaited \cup Settled) = {}

\* What canFinish() found still holds of a finished lookup, and its report is what
\* finish() collected.
EndsForAReason ==
    LET responded == In(st, {"Responded"}) IN
    finished =>
        /\ \/ /\ Cardinality(responded) >= K
              /\ \A n \in In(st, Awaited) : Closer(responded, n) >= K
           \/ outstanding = 0 /\ (queries = MaxQueries \/ In(st, {"New"}) = {})
        /\ result.closest \subseteq responded
        /\ Cardinality(result.closest) = Least(K, Cardinality(responded))
        /\ \A m \in result.closest, n \in responded \ result.closest : m < n
        /\ \A n \in responded : n \in HoldsNew => result.item = 2
        /\ result.item = 1 => responded \cap HoldsOld # {}

\* The inductive invariant.
IInv ==
    /\ Counted(st, inFlight, outstanding, queries) /\ Timed(clock, st) /\ LatestKept(st, item)
    /\ slowTimer \in BOOLEAN /\ started \in BOOLEAN /\ finished \in BOOLEAN
    /\ result \in [closest : SUBSET Nodes, item : 0..2]
    /\ NotStarted /\ SlotsCanBeFreed /\ NeverStuck /\ EndsForAReason

-----------------------------------------------------------------------------
(* Counting the closest                                                    *)

\* The candidates in any states are finitely many.
LEMMA InIsFinite ==
    ASSUME NEW f, NEW S
    PROVE  /\ In(f, S) \subseteq Nodes /\ IsFiniteSet(In(f, S)) /\ Cardinality(In(f, S)) \in Nat
<1>1. IsFiniteSet(Nodes)
  BY LookupAssumption, FS_Interval DEF Nodes
<1>2. In(f, S) \subseteq Nodes
  BY DEF In
<1>3. QED
  BY <1>1, <1>2, FS_Subset, FS_CardinalityType

\* The places in order of distance are 0 up to the number of nodes, each taken once.
LEMMA PlacesAreDistinct ==
    ASSUME NEW S \in SUBSET Nodes
    PROVE  /\ IsFiniteSet(S) /\ Cardinality(S) \in Nat
           /\ \A n \in S : Closer(S, n) \in 0..(Cardinality(S) - 1)
           /\ \A m, n \in S : m < n => Closer(S, m) < Closer(S, n)
           /\ \A m, n \in S : m # n => Closer(S, m) # Closer(S, n)
<1>1. IsFiniteSet(S) /\ Cardinality(S) \in Nat
  <2>1. IsFiniteSet(Nodes)
    BY LookupAssumption, FS_Interval DEF Nodes
  <2>2. QED
    BY <2>1, FS_Subset, FS_CardinalityType
<1>2. S \subseteq Int
  BY DEF Nodes
<1>3. ASSUME NEW n \in S PROVE Closer(S, n) \in 0..(Cardinality(S) - 1)
  <2> DEFINE T == {m \in S : m < n}
  <2>1. T \in SUBSET S /\ T # S
    BY <1>2
  <2>2. IsFiniteSet(T) /\ Cardinality(T) \in Nat /\ Cardinality(T) <= Cardinality(S)
        /\ Cardinality(T) # Cardinality(S)
    BY <1>1, <2>1, FS_Subset, FS_CardinalityType
  <2>3. QED
    BY <1>1, <2>2 DEF Closer
<1>4. ASSUME NEW m \in S, NEW n \in S, m < n PROVE Closer(S, m) < Closer(S, n)
  <2> DEFINE T == {x \in S : x < m}
             U == {x \in S : x < n}
  <2>1. T \in SUBSET U /\ T # U
    <3>1. m \in U /\ m \notin T
      BY <1>2, <1>4
    <3>2. \A x \in T : x \in U
      BY <1>2, <1>4
    <3>3. QED
      BY <3>1, <3>2
  <2>2. IsFiniteSet(U)
    BY <1>1, FS_Subset
  <2>3. IsFiniteSet(T) /\ Cardinality(T) \in Nat /\ Cardinality(U) \in Nat
        /\ Cardinality(T) <= Cardinality(U) /\ Cardinality(T) # Cardinality(U)
    BY <2>1, <2>2, FS_Subset, FS_CardinalityType
  <2>4. QED
    BY <2>3 DEF Closer
<1>5. \A m, n \in S : m # n => m < n \/ n < m
  BY <1>2
<1>6. \A m, n \in S : m # n => Closer(S, m) # Closer(S, n)
  BY <1>3, <1>4, <1>5
<1>7. QED
  BY <1>1, <1>3, <1>4, <1>6

\* The k closest of S are k, or all there are.
LEMMA ClosestCount ==
    ASSUME NEW S \in SUBSET Nodes, NEW k \in Int
    PROVE  Cardinality({n \in S : Closer(S, n) < k})
             = IF k <= 0 THEN 0 ELSE Least(k, Cardinality(S))
<1> DEFINE T == {n \in S : Closer(S, n) < k}
           c == Cardinality(S)
           f == [n \in S |-> Closer(S, n)]
<1>1. /\ IsFiniteSet(S) /\ c \in Nat
      /\ \A n \in S : Closer(S, n) \in 0..(c - 1)
      /\ \A m, n \in S : m # n => Closer(S, m) # Closer(S, n)
  BY PlacesAreDistinct
<1>2. CASE k <= 0
  <2>1. T = {}
    BY <1>1, <1>2
  <2>2. QED
    BY <1>2, <2>1, FS_EmptySet
<1>3. CASE k > 0
  <2>1. f \in Injection(S, 0..(c - 1))
    <3>1. f \in [S -> 0..(c - 1)]
      BY <1>1
    <3>2. \A m, n \in S : f[m] = f[n] => m = n
      BY <1>1
    <3>3. QED
      BY <3>1, <3>2 DEF Injection, IsInjective
  <2>2. IsFiniteSet(0..(c - 1)) /\ Cardinality(0..(c - 1)) = c
    BY <1>1, FS_Interval
  <2>3. f \in Surjection(S, 0..(c - 1))
    BY <2>1, <2>2, FS_Injection
  <2>4. \A x \in 0..(c - 1) : \E n \in S : Closer(S, n) = x
    BY <2>3 DEF Surjection
  <2> DEFINE r == Least(k, c)
             g == [n \in T |-> Closer(S, n)]
  <2>5. r \in Nat /\ \A x \in Int : x \in 0..(r - 1) <=> x \in 0..(c - 1) /\ x < k
    BY <1>1, <1>3 DEF Least
  <2>6. g \in Bijection(T, 0..(r - 1))
    <3>1. g \in [T -> 0..(r - 1)]
      <4>1. \A n \in T : Closer(S, n) \in 0..(r - 1)
        BY <1>1, <2>5
      <4>2. QED
        BY <4>1
    <3>2. \A x \in 0..(r - 1) : \E n \in T : g[n] = x
      BY <2>4, <2>5
    <3>3. \A m, n \in T : g[m] = g[n] => m = n
      BY <1>1
    <3>4. QED
      BY <3>1, <3>2, <3>3 DEF Bijection, Injection, Surjection, IsInjective
  <2>7. IsFiniteSet(T)
    BY <1>1, FS_Subset
  <2>8. Cardinality(0..(r - 1)) = Cardinality(T)
    BY <2>6, <2>7, FS_Bijection DEF ExistsBijection
  <2>9. QED
    BY <1>3, <2>5, <2>8, FS_Interval
<1>4. QED
  BY <1>2, <1>3

-----------------------------------------------------------------------------
(* Candidates                                                              *)

\* addCandidate() leaves alone whatever was asked and holds to MaxCandidates.
LEMMA InsertKeeps ==
    ASSUME NEW f, NEW found \in SUBSET Nodes, NEW inF, NEW out,
           Counted(f, inF, out, queries)
    PROVE  /\ Counted(Insert(f, found), inF, out, queries)
           /\ \A S \in SUBSET (Awaited \cup Settled) : In(Insert(f, found), S) = In(f, S)
           /\ \A n \in Nodes : f[n] \in Awaited \cup Settled => Insert(f, found)[n] = f[n]
<1> DEFINE new == {n \in found : f[n] = "unseen"}
           pool == new \cup In(f, {"New"})
           asked == Cardinality(In(f, Awaited \cup Settled))
           kept == {n \in pool : Closer(pool, n) + asked < MaxCandidates}
           g == Insert(f, found)
<1>1. f \in [Nodes -> States] /\ pool \in SUBSET Nodes /\ kept \subseteq pool
  BY DEF Counted, In
<1>2. g = [n \in Nodes |-> IF n \in kept THEN "New" ELSE IF n \in pool THEN "trimmed" ELSE f[n]]
  BY DEF Insert
<1>3. \A n \in pool : f[n] \in {"unseen", "New"}
  BY DEF In
<1>4. \A n \in pool : f[n] \notin Awaited \cup Settled
  BY <1>3 DEF Awaited, Settled
<1> HIDE DEF pool, kept, g
<1>5. g \in [Nodes -> States]
  BY <1>1, <1>2 DEF States
<1>6. \A n \in Nodes : f[n] \in Awaited \cup Settled => g[n] = f[n]
  BY <1>1, <1>2, <1>4
<1>7. \A n \in Nodes : g[n] \in Awaited \cup Settled => g[n] = f[n]
  BY <1>1, <1>2 DEF Awaited, Settled
<1>8. ASSUME NEW S \in SUBSET (Awaited \cup Settled) PROVE In(g, S) = In(f, S)
  BY <1>6, <1>7 DEF In
<1>9. Cardinality(In(g, Held)) <= MaxCandidates
  <2>1. In(g, Held) = In(f, Awaited \cup Settled) \cup kept
    <3>1. \A n \in kept : n \in Nodes /\ g[n] = "New"
      BY <1>1, <1>2
    <3>2. \A n \in Nodes : g[n] = "New" => n \in kept
      <4>1. \A n \in Nodes \ pool : f[n] # "New"
        BY DEF pool, In
      <4>2. QED
        BY <1>2, <4>1
    <3>3. \A n \in Nodes : g[n] \in Held <=> g[n] = "New" \/ g[n] \in Awaited \cup Settled
      BY DEF Held
    <3>4. QED
      BY <1>6, <1>7, <3>1, <3>2, <3>3 DEF In
  <2>2. asked \in Nat /\ asked <= MaxCandidates
    <3>1. In(f, Awaited \cup Settled) \subseteq In(f, Held)
      BY DEF In, Held
    <3>2. Cardinality(In(f, Awaited \cup Settled)) <= Cardinality(In(f, Held))
      BY <3>1, InIsFinite, FS_Subset
    <3>3. QED
      BY <3>2, InIsFinite, LookupAssumption DEF Counted
  <2>3. Cardinality(kept) <= MaxCandidates - asked /\ IsFiniteSet(kept) /\ Cardinality(kept) \in Nat
    <3>1. MaxCandidates - asked \in Int /\ MaxCandidates - asked >= 0
      BY <2>2, LookupAssumption
    <3>2. \A n \in pool : Closer(pool, n) \in Int
      <4>1. Cardinality(pool) \in Nat /\ \A n \in pool : Closer(pool, n) \in 0..(Cardinality(pool) - 1)
        BY <1>1, PlacesAreDistinct
      <4>2. QED
        BY <4>1
    <3>3. kept = {n \in pool : Closer(pool, n) < MaxCandidates - asked}
      BY <2>2, <3>1, <3>2, LookupAssumption DEF kept
    <3>4. IsFiniteSet(pool) /\ Cardinality(pool) \in Nat
      BY <1>1, PlacesAreDistinct
    <3>5. IsFiniteSet(kept) /\ Cardinality(kept) \in Nat
      BY <1>1, <3>4, FS_Subset, FS_CardinalityType
    <3>6. Cardinality(kept) = IF MaxCandidates - asked <= 0 THEN 0
                              ELSE Least(MaxCandidates - asked, Cardinality(pool))
      BY <1>1, <3>1, <3>3, ClosestCount
    <3>7. QED
      BY <3>1, <3>4, <3>5, <3>6 DEF Least
  <2>4. In(f, Awaited \cup Settled) \cap kept = {}
    BY <1>1, <1>4 DEF In
  <2>5. Cardinality(In(g, Held)) = asked + Cardinality(kept)
    <3>1. Cardinality(In(f, Awaited \cup Settled) \cup kept)
            = asked + Cardinality(kept) - Cardinality(In(f, Awaited \cup Settled) \cap kept)
      BY <2>3, InIsFinite, FS_Union
    <3>2. Cardinality(In(f, Awaited \cup Settled) \cap kept) = 0
      BY <2>4, FS_EmptySet
    <3>3. QED
      BY <2>1, <2>2, <2>3, <3>1, <3>2
  <2>6. QED
    BY <2>2, <2>3, <2>5, LookupAssumption
<1>10. /\ In(g, {"InFlight"}) = In(f, {"InFlight"}) /\ In(g, Awaited) = In(f, Awaited)
       /\ In(g, Awaited \cup Settled) = In(f, Awaited \cup Settled)
  BY <1>8 DEF Awaited, Settled
<1>11. Counted(g, inF, out, queries)
  BY <1>5, <1>9, <1>10 DEF Counted
<1>12. QED
  BY <1>6, <1>8, <1>11 DEF g

-----------------------------------------------------------------------------
(* step()                                                                  *)

\* The size of a disjoint union.
LEMMA DisjointCount ==
    ASSUME NEW S, NEW T, IsFiniteSet(S), IsFiniteSet(T), S \cap T = {}
    PROVE  Cardinality(S \cup T) = Cardinality(S) + Cardinality(T)
<1>1. Cardinality(S \cup T) = Cardinality(S) + Cardinality(T) - Cardinality(S \cap T)
  BY FS_Union
<1>2. Cardinality(S) \in Nat /\ Cardinality(T) \in Nat /\ Cardinality(S \cap T) = 0
  BY FS_CardinalityType, FS_EmptySet
<1>3. QED
  BY <1>1, <1>2

\* The candidates after the queries to those in sending.
Marked(f, sending) == [n \in Nodes |-> IF n \in sending THEN "InFlight" ELSE f[n]]

\* step() sends no more than there is room for, and the counters stay exact.
LEMMA SendingCounted ==
    ASSUME NEW f, NEW inF, NEW out, Counted(f, inF, out, queries)
    PROVE  LET room == Room(inF, out, queries)
               sending == ToSend(f, room)
               more == Cardinality(sending)
           IN  /\ room \in Nat /\ more \in Nat /\ more <= room
               /\ IsFiniteSet(sending) /\ sending \subseteq In(f, {"New"})
               /\ Counted(Marked(f, sending), inF + more, out + more, queries + more)
<1> DEFINE room == Room(inF, out, queries)
           new == In(f, {"New"})
           sending == ToSend(f, room)
           more == Cardinality(sending)
           first == {n \in new : Closer(new, n) < room}
           g == Marked(f, sending)
<1>1. inF \in Nat /\ out \in Nat /\ queries \in Nat /\ f \in [Nodes -> States]
  BY InIsFinite DEF Counted
<1>2. room \in Nat /\ room <= Alpha - inF /\ room <= MaxOutstanding - out /\ room <= MaxQueries - queries
  BY <1>1, LookupAssumption DEF Counted, Room, Least
<1> HIDE DEF room
<1>3. new \in SUBSET Nodes /\ IsFiniteSet(new) /\ Cardinality(new) \in Nat
  BY InIsFinite
<1>4. sending \subseteq first /\ first \subseteq new
  BY DEF ToSend
<1>5. IsFiniteSet(first) /\ Cardinality(first) \in Nat
  BY <1>3, <1>4, FS_Subset, FS_CardinalityType
<1>6. Cardinality(first) <= room
  <2>1. Cardinality(first) = IF room <= 0 THEN 0 ELSE Least(room, Cardinality(new))
    BY <1>2, <1>3, ClosestCount
  <2>2. QED
    BY <1>2, <1>3, <2>1 DEF Least
<1>7. IsFiniteSet(sending) /\ more \in Nat /\ more <= room
  <2>1. IsFiniteSet(sending) /\ more \in Nat /\ more <= Cardinality(first)
    BY <1>4, <1>5, FS_Subset, FS_CardinalityType
  <2>2. QED
    BY <1>2, <1>5, <1>6, <2>1
<1>8. sending \subseteq Nodes /\ \A n \in sending : f[n] = "New"
  BY <1>4 DEF In
<1> HIDE DEF sending
<1>9. g \in [Nodes -> States] /\ \A n \in Nodes : g[n] = IF n \in sending THEN "InFlight" ELSE f[n]
  BY <1>1 DEF Marked, States, Awaited
<1>10. ASSUME NEW S \in {{"InFlight"}, Awaited, Awaited \cup Settled}
       PROVE  Cardinality(In(g, S)) = Cardinality(In(f, S)) + more
  <2>1. "InFlight" \in S /\ "New" \notin S
    BY DEF Awaited, Settled
  <2>2. In(g, S) = In(f, S) \cup sending /\ In(f, S) \cap sending = {}
    BY <1>8, <1>9, <2>1 DEF In
  <2>3. QED
    BY <1>7, <2>2, InIsFinite, DisjointCount
<1>11. In(g, Held) = In(f, Held)
  BY <1>8, <1>9 DEF In, Held, Awaited
<1>12. Counted(g, inF + more, out + more, queries + more)
  <2>1. inF + more <= Alpha /\ out + more <= MaxOutstanding /\ queries + more <= MaxQueries
    BY <1>1, <1>2, <1>7, LookupAssumption
  <2>2. QED
    BY <1>1, <1>9, <1>10, <1>11, <2>1 DEF Counted
<1>13. QED
  BY <1>2, <1>4, <1>7, <1>12 DEF room, sending

\* A step that leaves nothing awaited finishes: it would have sent otherwise.
LEMMA IdleStepEnds ==
    ASSUME NEW f, NEW inF, NEW out, Counted(f, inF, out, queries),
           LET sending == ToSend(f, Room(inF, out, queries))
               more == Cardinality(sending)
           IN  out + more = 0 /\ ~CanFinish(Marked(f, sending), out + more, queries + more)
    PROVE  FALSE
<1> DEFINE room == Room(inF, out, queries)
           sending == ToSend(f, room)
           more == Cardinality(sending)
           new == In(f, {"New"})
           first == {n \in new : Closer(new, n) < room}
           g == Marked(f, sending)
           responded == In(g, {"Responded"})
<1>1. /\ more \in Nat /\ IsFiniteSet(sending) /\ Counted(g, inF + more, out + more, queries + more)
  BY SendingCounted
<1>2. inF \in Nat /\ out \in Nat /\ queries \in Nat /\ f \in [Nodes -> States]
  BY InIsFinite DEF Counted
<1>3. out = 0 /\ more = 0
  BY <1>1, <1>2
<1>4. sending = {}
  BY <1>1, <1>3, FS_EmptySet
<1>5. In(g, Awaited) = {} /\ In(f, Awaited) = {}
  BY <1>1, <1>3, InIsFinite, FS_EmptySet DEF Counted
<1>6. inF = 0
  <2>1. In(f, {"InFlight"}) = {}
    BY <1>5 DEF In, Awaited
  <2>2. QED
    BY <2>1, FS_EmptySet DEF Counted
<1>7. g = f
  BY <1>2, <1>4 DEF Marked
<1>8. Cardinality(responded) < K /\ queries < MaxQueries /\ new # {}
  <2>1. ~(Cardinality(responded) >= K) /\ ~(queries >= MaxQueries) /\ In(g, {"New"}) # {}
    BY <1>2, <1>3, <1>5 DEF CanFinish
  <2>2. Cardinality(responded) \in Nat
    BY InIsFinite
  <2>3. QED
    BY <1>2, <1>7, <2>1, <2>2, LookupAssumption
<1>9. room \in Nat /\ room > 0
  BY <1>2, <1>3, <1>6, <1>8, LookupAssumption DEF Room, Least
<1> HIDE DEF room
<1>10. new \in SUBSET Nodes /\ IsFiniteSet(new) /\ Cardinality(new) \in Nat /\ Cardinality(new) # 0
  BY <1>8, InIsFinite, FS_EmptySet
<1>11. first # {}
  <2>1. Cardinality(first) = IF room <= 0 THEN 0 ELSE Least(room, Cardinality(new))
    BY <1>9, <1>10, ClosestCount
  <2>2. Cardinality(first) # 0
    BY <1>9, <1>10, <2>1 DEF Least
  <2>3. QED
    BY <2>2, FS_EmptySet
<1>12. PICK n \in new : Closer(new, n) < room
  BY <1>11
<1>13. Closer(In(f, {"Responded"}), n) < K
  <2> DEFINE T == {m \in responded : m < n}
  <2>1. T \in SUBSET responded /\ IsFiniteSet(responded) /\ Cardinality(responded) \in Nat
    BY InIsFinite
  <2>2. Cardinality(T) <= Cardinality(responded) /\ Cardinality(T) \in Nat
    BY <2>1, FS_Subset, FS_CardinalityType
  <2>3. QED
    BY <1>7, <1>8, <2>1, <2>2, LookupAssumption DEF Closer
<1>14. n \in sending
  BY <1>12, <1>13 DEF ToSend
<1>15. QED
  BY <1>4, <1>14

\* What finish() reports.
LEMMA ReportIsClosest ==
    ASSUME NEW g, NEW best
    PROVE  LET responded == In(g, {"Responded"})
               closest == Result(g, best).closest
           IN  /\ closest \subseteq responded
               /\ Cardinality(closest) = Least(K, Cardinality(responded))
               /\ \A m \in closest, n \in responded \ closest : m < n
               /\ Result(g, best).item = best
<1> DEFINE responded == In(g, {"Responded"})
           closest == {n \in responded : Closer(responded, n) < K}
<1>1. Result(g, best).closest = closest /\ Result(g, best).item = best
  BY DEF Result
<1>2. /\ responded \in SUBSET Nodes /\ IsFiniteSet(responded) /\ Cardinality(responded) \in Nat
      /\ responded \subseteq Int
  BY InIsFinite DEF Nodes
<1>3. /\ \A n \in responded : Closer(responded, n) \in 0..(Cardinality(responded) - 1)
      /\ \A m, n \in responded : m < n => Closer(responded, m) < Closer(responded, n)
  BY <1>2, PlacesAreDistinct
<1>4. Cardinality(closest) = Least(K, Cardinality(responded))
  BY <1>2, ClosestCount, LookupAssumption
<1>5. \A m \in closest, n \in responded \ closest : m < n
  <2> SUFFICES ASSUME NEW m \in closest, NEW n \in responded \ closest, ~(m < n)
               PROVE  FALSE
    OBVIOUS
  <2>1. m # n /\ n < m
    BY <1>2
  <2>2. Closer(responded, n) < Closer(responded, m) /\ Closer(responded, m) < K
        /\ ~(Closer(responded, n) < K)
    BY <1>3, <2>1
  <2>3. Closer(responded, n) \in Int /\ Closer(responded, m) \in Int
    BY <1>2, <1>3
  <2>4. QED
    BY <2>2, <2>3, LookupAssumption
<1>6. QED
  BY <1>1, <1>4, <1>5

\* step() from candidates that are counted, timed and have the latest item.
LEMMA StepKeeps ==
    ASSUME NEW f, NEW inF, NEW out, NEW timer \in BOOLEAN,
           Counted(f, inF, out, queries), Timed(clock', f), LatestKept(f, item'),
           started', started' \in BOOLEAN, ~finished,
           result \in [closest : SUBSET Nodes, item : 0..2],
           step(f, inF, out, timer)
    PROVE  IInv'
<1> DEFINE sending == ToSend(f, Room(inF, out, queries))
           more == Cardinality(sending)
           g == Marked(f, sending)
           done == CanFinish(g, out + more, queries + more)
<1>1. /\ st' = g /\ inFlight' = inF + more /\ outstanding' = out + more /\ queries' = queries + more
      /\ finished' = done /\ slowTimer' = TimerAfter(done, timer, out + more)
      /\ result' = IF done THEN Result(g, item') ELSE result
  BY DEF step, Marked
<1>2. /\ more \in Nat /\ IsFiniteSet(sending) /\ sending \subseteq In(f, {"New"})
      /\ Counted(g, inF + more, out + more, queries + more)
  BY SendingCounted
<1>3. out + more = 0 => done
  BY IdleStepEnds
<1>4. f \in [Nodes -> States] /\ sending \subseteq Nodes /\ \A n \in sending : f[n] = "New"
  BY <1>2 DEF Counted, In
<1> HIDE DEF sending, more
<1>5. \A n \in Nodes : g[n] = IF n \in sending THEN "InFlight" ELSE f[n]
  BY DEF Marked
<1>6. In(g, {"Responded"}) = In(f, {"Responded"})
  BY <1>4, <1>5 DEF In
<1>7. done \in BOOLEAN
  BY DEF CanFinish
<1> HIDE DEF g, done
<1>8. Timed(clock', g)
  <2>1. \A i \in 1..Len(clock') : clock'[i] \in Nodes
    BY DEF Timed
  <2>2. QED
    BY <1>4, <1>5, <2>1 DEF Timed
<1>9. LatestKept(g, item') /\ item' \in 0..2
  BY <1>6 DEF LatestKept
<1>10. /\ inF + more \in Nat /\ out + more \in Nat /\ queries + more \in Nat
       /\ inF + more <= out + more
  <2>1. In(g, {"InFlight"}) \subseteq In(g, Awaited)
    BY DEF In, Awaited
  <2>2. QED
    BY <1>2, <2>1, InIsFinite, FS_Subset DEF Counted
<1>11. SlotsCanBeFreed' /\ NeverStuck'
  <2>1. CASE done
    BY <1>1, <2>1 DEF SlotsCanBeFreed, NeverStuck
  <2>2. CASE ~done
    <3>1. out + more > 0
      BY <1>3, <1>10, <2>2
    <3>2. slowTimer' /\ outstanding' > 0
      BY <1>1, <2>2, <3>1 DEF TimerAfter
    <3>3. QED
      BY <3>2 DEF SlotsCanBeFreed, NeverStuck
  <2>3. QED
    BY <2>1, <2>2
<1>12. result' \in [closest : SUBSET Nodes, item : 0..2]
  <2>1. CASE done
    <3>1. In(g, {"Responded"}) \subseteq Nodes
      BY InIsFinite
    <3>2. QED
      BY <1>1, <1>9, <2>1, <3>1 DEF Result
  <2>2. CASE ~done
    BY <1>1, <2>2
  <2>3. QED
    BY <2>1, <2>2
<1>13. EndsForAReason'
  <2> DEFINE responded == In(g, {"Responded"})
  <2> SUFFICES ASSUME done
               PROVE  /\ \/ /\ Cardinality(responded) >= K
                            /\ \A n \in In(g, Awaited) : Closer(responded, n) >= K
                         \/ outstanding' = 0 /\ (queries' = MaxQueries \/ In(g, {"New"}) = {})
                      /\ result'.closest \subseteq responded
                      /\ Cardinality(result'.closest) = Least(K, Cardinality(responded))
                      /\ \A m \in result'.closest, n \in responded \ result'.closest : m < n
                      /\ \A n \in responded : n \in HoldsNew => result'.item = 2
                      /\ result'.item = 1 => responded \cap HoldsOld # {}
    BY <1>1 DEF EndsForAReason, In, Closer, Nodes
  <2>1. /\ \A n \in In(g, Awaited) : Closer(responded, n) >= K
        /\ \/ Cardinality(responded) >= K
           \/ out + more = 0 /\ (queries + more >= MaxQueries \/ In(g, {"New"}) = {})
    BY DEF CanFinish, done
  <2>2. queries + more <= MaxQueries
    BY <1>2 DEF Counted
  <2>3. result' = Result(g, item')
    BY <1>1
  <2>4. /\ result'.closest \subseteq responded
        /\ Cardinality(result'.closest) = Least(K, Cardinality(responded))
        /\ \A m \in result'.closest, n \in responded \ result'.closest : m < n
        /\ result'.item = item'
    BY <2>3, ReportIsClosest
  <2>5. QED
    BY <1>1, <1>9, <1>10, <2>1, <2>2, <2>4, LookupAssumption DEF LatestKept
<1>14. slowTimer' \in BOOLEAN
  BY <1>1, <1>7, <1>10 DEF TimerAfter
<1>15. QED
  BY <1>1, <1>2, <1>7, <1>8, <1>9, <1>11, <1>12, <1>13, <1>14
     DEF IInv, NotStarted, Counted, Timed, LatestKept, In, Nodes

-----------------------------------------------------------------------------
(* Handlers                                                                *)

\* The invariant holds of a lookup just made.
LEMMA InitInv == Init => IInv
<1> SUFFICES ASSUME Init PROVE IInv
  OBVIOUS
<1>1. \A S \in SUBSET Held : In(st, S) = {}
  BY DEF Init, In, Held, Awaited, Settled
<1>2. /\ In(st, {"InFlight"}) = {} /\ In(st, Awaited) = {} /\ In(st, Awaited \cup Settled) = {}
      /\ In(st, Held) = {} /\ In(st, {"Responded"}) = {}
  BY <1>1 DEF Held, Awaited, Settled
<1>3. Counted(st, inFlight, outstanding, queries)
  <2>1. st \in [Nodes -> States] /\ inFlight = 0 /\ outstanding = 0 /\ queries = 0
    BY DEF Init, States
  <2>2. Cardinality({}) = 0 /\ 0 <= Alpha /\ 0 <= MaxOutstanding /\ 0 <= MaxQueries /\ 0 <= MaxCandidates
    BY FS_EmptySet, LookupAssumption
  <2>3. QED
    BY <1>2, <2>1, <2>2 DEF Counted
<1>4. Timed(clock, st) /\ LatestKept(st, item)
  BY <1>2 DEF Init, Timed, LatestKept
<1>5. /\ slowTimer = FALSE /\ started = FALSE /\ finished = FALSE
      /\ result \in [closest : SUBSET Nodes, item : 0..2]
  BY DEF Init
<1>6. QED
  BY <1>2, <1>3, <1>4, <1>5 DEF IInv, NotStarted, SlotsCanBeFreed, NeverStuck, EndsForAReason

\* What insertion leaves of the clock and of the item.
LEMMA InsertAgrees ==
    ASSUME NEW f, NEW found \in SUBSET Nodes, NEW inF, NEW out, NEW seq, NEW best,
           Counted(f, inF, out, queries), Timed(seq, f), LatestKept(f, best)
    PROVE  /\ Counted(Insert(f, found), inF, out, queries)
           /\ Timed(seq, Insert(f, found)) /\ LatestKept(Insert(f, found), best)
<1>1. /\ Counted(Insert(f, found), inF, out, queries)
      /\ \A S \in SUBSET (Awaited \cup Settled) : In(Insert(f, found), S) = In(f, S)
      /\ \A n \in Nodes : f[n] \in Awaited \cup Settled => Insert(f, found)[n] = f[n]
  BY InsertKeeps
<1>2. In(Insert(f, found), {"Responded"}) = In(f, {"Responded"})
  BY <1>1 DEF Settled
<1>3. Timed(seq, Insert(f, found))
  <2>1. \A i \in 1..Len(seq) : seq[i] \in Nodes /\ f[seq[i]] = "InFlight"
    BY DEF Timed
  <2>2. "InFlight" \in Awaited \cup Settled
    BY DEF Awaited
  <2>3. QED
    BY <1>1, <2>1, <2>2 DEF Timed
<1>4. QED
  BY <1>1, <1>2, <1>3 DEF LatestKept

\* addCandidate() keeps the invariant.
LEMMA AddCandidateKeeps ==
    ASSUME IInv, NEW n \in Nodes, addCandidate(n) PROVE IInv'
<1>1. /\ ~finished /\ clock' = clock /\ started' = started /\ item' = item
      /\ {n} \in SUBSET Nodes
  BY DEF addCandidate
<1>2. /\ Counted(Insert(st, {n}), inFlight, outstanding, queries)
      /\ Timed(clock, Insert(st, {n})) /\ LatestKept(Insert(st, {n}), item)
  BY <1>1, InsertAgrees DEF IInv
<1>3. CASE started /\ step(Insert(st, {n}), inFlight, outstanding, slowTimer)
  BY <1>1, <1>2, <1>3, StepKeeps DEF IInv
<1>4. CASE /\ ~started /\ st' = Insert(st, {n})
           /\ UNCHANGED <<inFlight, outstanding, queries, slowTimer, finished, result>>
  <2>1. In(Insert(st, {n}), Awaited \cup Settled) = In(st, Awaited \cup Settled)
    BY <1>1, InsertKeeps DEF IInv
  <2>2. In(Insert(st, {n}), Awaited \cup Settled) = {}
    BY <1>4, <2>1 DEF IInv, NotStarted
  <2>3. Counted(st, inFlight, outstanding, queries)'
    BY <1>2, <1>4 DEF Counted, In, Nodes
  <2>4. Timed(clock, st)' /\ LatestKept(st, item)'
    BY <1>1, <1>2, <1>4 DEF Timed, LatestKept, In, Nodes
  <2>5. NotStarted' /\ SlotsCanBeFreed' /\ NeverStuck' /\ EndsForAReason'
    <3>1. ~started' /\ ~finished' /\ ~slowTimer' /\ In(st', Awaited \cup Settled) = {}
      BY <1>1, <1>4, <2>2 DEF IInv, NotStarted
    <3>2. QED
      BY <3>1 DEF NotStarted, SlotsCanBeFreed, NeverStuck, EndsForAReason, In, Nodes
  <2>6. QED
    BY <1>1, <1>4, <2>3, <2>4, <2>5 DEF IInv
<1>5. QED
  BY <1>3, <1>4 DEF addCandidate

\* start() keeps the invariant.
LEMMA StartKeeps ==
    ASSUME IInv, start PROVE IInv'
<1>1. ~started /\ started' /\ started' \in BOOLEAN /\ clock' = clock /\ item' = item /\ ~finished
  BY DEF start, IInv, NotStarted
<1>2. QED
  BY <1>1, StepKeeps DEF start, IInv

\* onSent() keeps the invariant: the query that left is the newest timed.
LEMMA SentKeeps ==
    ASSUME IInv, NEW n \in Nodes, onSent(n) PROVE IInv'
<1>1. /\ st[n] = "InFlight" /\ ~Left(n) /\ clock' = Append(clock, n) /\ clock \in Seq(Nodes)
  BY DEF onSent, IInv, Timed
<1>2. /\ clock' \in Seq(Nodes) /\ Len(clock') = Len(clock) + 1 /\ Len(clock) \in Nat
      /\ \A i \in 1..Len(clock) : clock'[i] = clock[i]
      /\ clock'[Len(clock) + 1] = n
  BY <1>1
<1>3. \A i \in 1..Len(clock') : i \in 1..Len(clock) \/ i = Len(clock) + 1
  BY <1>2
<1>4. \A i \in 1..Len(clock) : clock[i] # n
  BY <1>1 DEF Left
<1>5. Timed(clock', st)
  <2>1. \A i \in 1..Len(clock') : st[clock'[i]] = "InFlight"
    BY <1>1, <1>2, <1>3 DEF IInv, Timed
  <2>2. \A i, j \in 1..Len(clock') : clock'[i] = clock'[j] => i = j
    BY <1>2, <1>3, <1>4 DEF IInv, Timed
  <2>3. QED
    BY <1>2, <2>1, <2>2 DEF Timed
<1>6. QED
  BY <1>5 DEF onSent, IInv, NotStarted, SlotsCanBeFreed, NeverStuck, EndsForAReason,
     Counted, Timed, LatestKept, In, Nodes, Closer

\* checkSlow() frees exactly the slots of the queries it promotes.
LEMMA CheckSlowKeeps ==
    ASSUME IInv, NEW k \in 0..Len(clock), checkSlow(k) PROVE IInv'
<1> DEFINE overdue == {clock[i] : i \in 1..k}
           f == [n \in Nodes |-> IF n \in overdue THEN "Slow" ELSE st[n]]
           freed == FreedSlots(overdue)
<1>1. /\ ~finished /\ slowTimer /\ started' = started /\ item' = item
      /\ clock' = SubSeq(clock, k + 1, Len(clock))
  BY DEF checkSlow
<1>2. clock \in Seq(Nodes) /\ Len(clock) \in Nat /\ k \in Nat /\ k <= Len(clock)
  BY DEF IInv, Timed
<1>3. started
  <2>1. SUFFICES ASSUME ~started PROVE FALSE
    BY DEF IInv
  <2>2. QED
    BY <1>1, <2>1 DEF IInv, NotStarted
<1>4. CASE k = 0 /\ slowTimer' = (inFlight > 0)
           /\ UNCHANGED <<st, inFlight, outstanding, queries, finished, result>>
  <2>1. clock' = clock
    BY <1>1, <1>2, <1>4
  <2>2. /\ Counted(st, inFlight, outstanding, queries)' /\ Timed(clock, st)' /\ LatestKept(st, item)'
    BY <1>1, <1>4, <2>1 DEF IInv, Counted, Timed, LatestKept, In, Nodes
  <2>3. NotStarted' /\ SlotsCanBeFreed' /\ NeverStuck' /\ EndsForAReason'
    BY <1>1, <1>3, <1>4 DEF IInv, NotStarted, SlotsCanBeFreed, NeverStuck, EndsForAReason
  <2>4. QED
    BY <1>1, <1>3, <1>4, <2>2, <2>3 DEF IInv
<1>5. CASE k > 0 /\ step(f, freed, outstanding, freed > 0)
  <2>1. \A n \in overdue : n \in Nodes /\ st[n] = "InFlight"
    BY <1>2 DEF IInv, Timed
  <2>2. /\ st \in [Nodes -> States] /\ f \in [Nodes -> States]
        /\ \A n \in Nodes : f[n] = IF n \in overdue THEN "Slow" ELSE st[n]
    BY DEF IInv, Counted, States, Awaited
  <2> HIDE DEF overdue, f
  <2>3. In(f, {"InFlight"}) = In(st, {"InFlight"}) \ overdue /\ overdue \subseteq In(st, {"InFlight"})
    BY <2>1, <2>2 DEF In
  <2>4. /\ In(f, Awaited) = In(st, Awaited) /\ In(f, Awaited \cup Settled) = In(st, Awaited \cup Settled)
        /\ In(f, Held) = In(st, Held) /\ In(f, {"Responded"}) = In(st, {"Responded"})
    BY <2>1, <2>2 DEF In, Held, Awaited, Settled
  <2>5. /\ freed = Cardinality(In(f, {"InFlight"})) /\ freed <= Alpha
    <3>1. overdue \cap In(st, {"InFlight"}) = overdue /\ In(st, {"InFlight"}) \cap overdue = overdue
      BY <2>3
    <3>2. Cardinality(In(f, {"InFlight"})) = Cardinality(In(st, {"InFlight"})) - Cardinality(overdue)
      <4>1. IsFiniteSet(In(st, {"InFlight"}))
        BY InIsFinite
      <4>2. Cardinality(In(st, {"InFlight"}) \ overdue)
              = Cardinality(In(st, {"InFlight"})) - Cardinality(In(st, {"InFlight"}) \cap overdue)
        BY <4>1, FS_Difference
      <4>3. QED
        BY <2>3, <3>1, <4>2
    <3>3. IsFiniteSet(overdue) /\ Cardinality(overdue) \in Nat
      BY <2>3, InIsFinite, FS_Subset, FS_CardinalityType
    <3>4. inFlight = Cardinality(In(st, {"InFlight"})) /\ inFlight <= Alpha /\ inFlight \in Nat
      BY InIsFinite DEF IInv, Counted
    <3>5. QED
      BY <3>2, <3>3, <3>4, LookupAssumption DEF FreedSlots
  <2>6. Counted(f, freed, outstanding, queries)
    BY <2>2, <2>4, <2>5 DEF IInv, Counted
  <2>7. Timed(clock', f)
    <3>1. /\ clock' \in Seq(Nodes) /\ Len(clock') = Len(clock) - k
          /\ \A i \in 1..Len(clock') : clock'[i] = clock[k + i] /\ k + i \in 1..Len(clock)
      BY <1>1, <1>2
    <3>2. \A i \in 1..Len(clock') : clock'[i] \notin overdue
      <4>1. \A i \in 1..Len(clock'), j \in 1..k : j \in 1..Len(clock) /\ k + i # j
        BY <1>2, <3>1
      <4>2. \A i \in 1..Len(clock'), j \in 1..k : clock[k + i] # clock[j]
        BY <3>1, <4>1 DEF IInv, Timed
      <4>3. QED
        BY <3>1, <4>2 DEF overdue
    <3>3. \A i \in 1..Len(clock') : clock'[i] \in Nodes /\ f[clock'[i]] = "InFlight"
      BY <2>2, <3>1, <3>2 DEF IInv, Timed
    <3>4. \A i, j \in 1..Len(clock') : clock'[i] = clock'[j] => i = j
      <4>1. \A i, j \in 1..Len(clock') : k + i = k + j => i = j
        BY <1>2, <3>1
      <4>2. QED
        BY <3>1, <4>1 DEF IInv, Timed
    <3>5. QED
      BY <3>1, <3>3, <3>4 DEF Timed
  <2>8. LatestKept(f, item')
    BY <1>1, <2>4 DEF IInv, LatestKept
  <2>9. (freed > 0) \in BOOLEAN /\ started' /\ started' \in BOOLEAN
    BY <1>1, <1>3
  <2>10. QED
    BY <1>1, <1>5, <2>6, <2>7, <2>8, <2>9, StepKeeps DEF IInv
<1>6. QED
  BY <1>4, <1>5 DEF checkSlow

\* The first lines of onReply(): n is settled, and its slot given back once.
LEMMA ReleaseCounted ==
    ASSUME IInv, NEW n \in Nodes, st[n] \in Awaited, NEW outcome \in Settled
    PROVE  LET r == Release(n, outcome)
           IN  /\ Counted(r.f, r.inF, r.out, queries)
               /\ \A x \in Nodes : r.f[x] = IF x = n THEN outcome ELSE st[x]
<1> DEFINE f == [st EXCEPT ![n] = outcome]
           inF == IF st[n] = "InFlight" THEN inFlight - 1 ELSE inFlight
           out == outstanding - 1
<1>1. Release(n, outcome).f = f /\ Release(n, outcome).inF = inF /\ Release(n, outcome).out = out
  BY DEF Release
<1>2. /\ st \in [Nodes -> States] /\ f \in [Nodes -> States]
      /\ \A x \in Nodes : f[x] = IF x = n THEN outcome ELSE st[x]
  BY DEF IInv, Counted, States
<1> HIDE DEF f
<1>3. outcome \notin Awaited /\ outcome # "InFlight" /\ outcome \in Held /\ st[n] \in Held
  BY DEF Settled, Awaited, Held
<1>4. In(f, {"InFlight"}) = In(st, {"InFlight"}) \ {n} /\ In(f, Awaited) = In(st, Awaited) \ {n}
  BY <1>2, <1>3 DEF In
<1>5. In(f, Awaited \cup Settled) = In(st, Awaited \cup Settled) /\ In(f, Held) = In(st, Held)
  BY <1>2, <1>3 DEF In
<1>6. inFlight \in Nat /\ outstanding \in Nat
      /\ inFlight = Cardinality(In(st, {"InFlight"})) /\ outstanding = Cardinality(In(st, Awaited))
      /\ inFlight <= Alpha /\ outstanding <= MaxOutstanding
  BY InIsFinite DEF IInv, Counted
<1>7. out = Cardinality(In(f, Awaited)) /\ out <= MaxOutstanding
  <2>1. n \in In(st, Awaited) /\ IsFiniteSet(In(st, Awaited))
    BY InIsFinite DEF In
  <2>2. Cardinality(In(st, Awaited) \ {n}) = Cardinality(In(st, Awaited)) - 1
    BY <2>1, FS_RemoveElement
  <2>3. QED
    BY <1>4, <1>6, <2>2, LookupAssumption
<1>8. inF = Cardinality(In(f, {"InFlight"})) /\ inF <= Alpha
  <2>1. n \in In(st, {"InFlight"}) <=> st[n] = "InFlight"
    BY DEF In
  <2>2. IsFiniteSet(In(st, {"InFlight"}))
    BY InIsFinite
  <2>3. Cardinality(In(st, {"InFlight"}) \ {n}) = IF st[n] = "InFlight" THEN inFlight - 1 ELSE inFlight
    BY <1>6, <2>1, <2>2, FS_RemoveElement
  <2>4. QED
    BY <1>4, <1>6, <2>3, LookupAssumption
<1>9. Counted(f, inF, out, queries)
  BY <1>2, <1>5, <1>7, <1>8 DEF IInv, Counted
<1>10. QED
  BY <1>1, <1>2, <1>9

\* What is timed is in flight after an answer of n.
LEMMA ForgetKeeps ==
    ASSUME IInv, NEW n \in Nodes, Forget(n), NEW f, NEW outcome,
           \A x \in Nodes : f[x] = IF x = n THEN outcome ELSE st[x]
    PROVE  Timed(clock', f)
<1>1. /\ clock \in Seq(Nodes) /\ Len(clock) \in Nat
      /\ \A i \in 1..Len(clock) : clock[i] \in Nodes /\ st[clock[i]] = "InFlight"
      /\ \A i, j \in 1..Len(clock) : clock[i] = clock[j] => i = j
  BY DEF IInv, Timed
<1>2. ASSUME NEW i \in 1..Len(clock), clock[i] = n,
             clock' = [j \in 1..(Len(clock) - 1) |-> clock[IF j < i THEN j ELSE j + 1]]
      PROVE  Timed(clock', f)
  <2> DEFINE at(j) == IF j < i THEN j ELSE j + 1
  <2>1. /\ clock' \in Seq(Nodes) /\ Len(clock') = Len(clock) - 1
        /\ \A j \in 1..(Len(clock) - 1) : clock'[j] = clock[at(j)]
    <3>1. Len(clock) - 1 \in Nat /\ \A j \in 1..(Len(clock) - 1) : at(j) \in 1..Len(clock)
      BY <1>1
    <3>2. clock' \in [1..(Len(clock) - 1) -> Nodes]
      BY <1>1, <1>2, <3>1
    <3>3. clock' \in Seq(Nodes) /\ Len(clock') = Len(clock) - 1
      BY <3>1, <3>2
    <3>4. \A j \in 1..(Len(clock) - 1) : clock'[j] = clock[at(j)]
      BY <1>2
    <3>5. QED
      BY <3>3, <3>4
  <2>2. \A j \in 1..(Len(clock) - 1) : at(j) \in 1..Len(clock) /\ at(j) # i
    BY <1>1
  <2>3. \A j, k \in 1..(Len(clock) - 1) : at(j) = at(k) => j = k
    BY <1>1
  <2> HIDE DEF at
  <2>4. ASSUME NEW j \in 1..Len(clock')
        PROVE  clock'[j] \in Nodes /\ clock'[j] # n /\ st[clock'[j]] = "InFlight"
    <3>1. clock'[j] = clock[at(j)] /\ at(j) \in 1..Len(clock) /\ at(j) # i
      BY <2>1, <2>2, Zenon
    <3>2. clock[at(j)] # n
      BY <1>1, <1>2, <3>1, Zenon
    <3>3. QED
      BY <1>1, <3>1, <3>2, Zenon
  <2>5. ASSUME NEW j \in 1..Len(clock'), NEW k \in 1..Len(clock'), clock'[j] = clock'[k]
        PROVE  j = k
    <3>1. /\ j \in 1..(Len(clock) - 1) /\ k \in 1..(Len(clock) - 1)
      BY <2>1, <2>5
    <3>2. at(j) \in 1..Len(clock) /\ at(k) \in 1..Len(clock) /\ clock[at(j)] = clock[at(k)]
      BY <2>1, <2>2, <2>5, <3>1
    <3>3. QED
      BY <1>1, <2>3, <3>1, <3>2
  <2>6. QED
    BY <2>1, <2>4, <2>5 DEF Timed
<1>3. CASE ~Left(n) /\ clock' = clock
  <2>1. \A i \in 1..Len(clock) : clock[i] # n
    BY <1>3 DEF Left
  <2>2. QED
    BY <1>1, <1>3, <2>1 DEF Timed
<1>4. QED
  BY <1>2, <1>3 DEF Forget

\* Something is awaited only once the lookup was started.
LEMMA AwaitedStarted ==
    ASSUME IInv, NEW n \in Nodes, st[n] \in Awaited
    PROVE  started
<1>1. n \in In(st, Awaited \cup Settled)
  BY DEF In
<1>2. QED
  BY <1>1 DEF IInv, NotStarted

\* onReply() without an answer keeps the invariant.
LEMMA FailureKeeps ==
    ASSUME IInv, NEW n \in Nodes, onFailure(n) PROVE IInv'
<1> DEFINE r == Release(n, "Failed")
<1>1. /\ ~finished /\ st[n] \in Awaited /\ item' = item /\ step(r.f, r.inF, r.out, slowTimer)
      /\ Forget(n) /\ started' = started
  BY DEF onFailure
<1>2. "Failed" \in Settled
  BY DEF Settled
<1>3. Counted(r.f, r.inF, r.out, queries) /\ \A x \in Nodes : r.f[x] = IF x = n THEN "Failed" ELSE st[x]
  BY <1>1, <1>2, ReleaseCounted
<1> HIDE DEF r
<1>4. Timed(clock', r.f)
  BY <1>1, <1>3, ForgetKeeps
<1>5. In(r.f, {"Responded"}) = In(st, {"Responded"})
  BY <1>1, <1>3 DEF In, Awaited
<1>6. LatestKept(r.f, item')
  BY <1>1, <1>5 DEF IInv, LatestKept
<1>7. started' /\ started' \in BOOLEAN
  BY <1>1, AwaitedStarted DEF IInv
<1>8. QED
  BY <1>1, <1>3, <1>4, <1>6, <1>7, StepKeeps DEF IInv

\* onReply() with an answer keeps the invariant.
LEMMA ResponseKeeps ==
    ASSUME IInv, NEW n \in Nodes, NEW found \in SUBSET Nodes, onResponse(n, found) PROVE IInv'
<1> DEFINE r == Release(n, "Responded")
<1>1. /\ ~finished /\ st[n] \in Awaited /\ item' = collectItem(n)
      /\ step(Insert(r.f, found), r.inF, r.out, slowTimer)
      /\ Forget(n) /\ started' = started
  BY DEF onResponse
<1>2. "Responded" \in Settled
  BY DEF Settled
<1>3. /\ Counted(r.f, r.inF, r.out, queries)
      /\ \A x \in Nodes : r.f[x] = IF x = n THEN "Responded" ELSE st[x]
  BY <1>1, <1>2, ReleaseCounted
<1> HIDE DEF r
<1>4. Timed(clock', r.f)
  BY <1>1, <1>3, ForgetKeeps
<1>5. In(r.f, {"Responded"}) = In(st, {"Responded"}) \cup {n}
  BY <1>1, <1>3 DEF In, Awaited
<1>6. LatestKept(r.f, item')
  <2>1. /\ item' \in 0..2 /\ item \in 0..2
        /\ n \in HoldsNew => item' = 2
        /\ item = 2 => item' = 2
        /\ item' = 1 => item = 1 \/ n \in HoldsOld
    BY <1>1 DEF collectItem, IInv, LatestKept
  <2>2. QED
    BY <1>5, <2>1 DEF IInv, LatestKept
<1>7. /\ Counted(Insert(r.f, found), r.inF, r.out, queries)
      /\ Timed(clock', Insert(r.f, found)) /\ LatestKept(Insert(r.f, found), item')
  BY <1>3, <1>4, <1>6, InsertAgrees
<1>8. started' /\ started' \in BOOLEAN
  BY <1>1, AwaitedStarted DEF IInv
<1>9. QED
  BY <1>1, <1>7, <1>8, StepKeeps DEF IInv

\* Every step keeps the invariant.
LEMMA NextKeeps ==
    ASSUME IInv, [Next]_vars PROVE IInv'
<1>1. ASSUME NEW n \in Nodes, onReply(n) PROVE IInv'
  BY <1>1, FailureKeeps, ResponseKeeps DEF onReply, FoundSets
<1>2. CASE UNCHANGED vars
  BY <1>2 DEF vars, IInv, NotStarted, SlotsCanBeFreed, NeverStuck, EndsForAReason,
     Counted, Timed, LatestKept, In, Nodes, Closer
<1>3. QED
  BY <1>1, <1>2, AddCandidateKeeps, SentKeeps, StartKeeps, CheckSlowKeeps DEF Next

-----------------------------------------------------------------------------
(* Theorems                                                                *)

\* What every handler of Lookup leaves behind.
THEOREM LookupInvariant == Spec => []IInv
<1>1. Init => IInv
  BY InitInv
<1>2. IInv /\ [Next]_vars => IInv'
  BY NextKeeps
<1>3. QED
  BY <1>1, <1>2, PTL DEF Spec

\* The slots of a lookup are counted exactly and stay within Alpha, MaxOutstanding,
\* MaxQueries and MaxCandidates; while it runs a callback is to come, and the timer
\* that frees slots runs while one is taken (step, checkSlow, onReply).
THEOREM LookupSafety == Spec => []LookupInv
<1>1. IInv => LookupInv
  <2> SUFFICES ASSUME IInv PROVE LookupInv
    OBVIOUS
  <2>1. inFlight \in Nat /\ outstanding \in Nat /\ queries \in Nat
    BY InIsFinite DEF IInv, Counted
  <2>2. queries <= MaxCandidates
    <3>1. In(st, Awaited \cup Settled) \subseteq In(st, Held) /\ IsFiniteSet(In(st, Held))
      BY InIsFinite DEF In, Held
    <3>2. Cardinality(In(st, Awaited \cup Settled)) <= Cardinality(In(st, Held))
      BY <3>1, FS_Subset
    <3>3. Cardinality(In(st, Held)) \in Nat
      BY InIsFinite
    <3>4. QED
      BY <2>1, <3>2, <3>3, LookupAssumption DEF IInv, Counted
  <2>3. SlotsCounted
    BY <2>1, <2>2 DEF IInv, Counted, SlotsCounted, Least
  <2>4. TypeOK
    BY <2>1 DEF IInv, Counted, Timed, LatestKept, TypeOK
  <2>5. QED
    BY <2>3, <2>4 DEF IInv, LookupInv
<1>2. QED
  BY <1>1, LookupInvariant, PTL

\* Of a set of nodes with K members ahead of n, the K that are ahead of the rest are
\* all ahead of n.
LEMMA ReportIsAhead ==
    ASSUME NEW R \in SUBSET Nodes, NEW C \in SUBSET R, NEW n \in Nodes \ R,
           Cardinality(C) <= K, \A m \in C, r \in R \ C : m < r,
           Closer(R, n) >= K
    PROVE  \A m \in C : m < n
<1> DEFINE A == {m \in R : m < n}
<1>1. IsFiniteSet(R) /\ IsFiniteSet(C) /\ IsFiniteSet(A)
  <2>1. IsFiniteSet(Nodes)
    BY LookupAssumption, FS_Interval DEF Nodes
  <2>2. IsFiniteSet(R)
    BY <2>1, FS_Subset
  <2>3. A \subseteq R
    OBVIOUS
  <2>4. QED
    BY <2>2, <2>3, FS_Subset
<1>2. SUFFICES ASSUME NEW m \in C, ~(m < n) PROVE FALSE
  OBVIOUS
<1>3. K \in Nat /\ R \subseteq Int /\ n \in Int
  BY LookupAssumption DEF Nodes
<1>4. CASE A \subseteq C
  <2>1. A \cup {m} \subseteq C /\ m \notin A
    BY <1>2, <1>4
  <2>2. IsFiniteSet(A \cup {m}) /\ Cardinality(A \cup {m}) = Cardinality(A) + 1
    BY <1>1, <2>1, FS_AddElement
  <2>3. Cardinality(A \cup {m}) <= Cardinality(C)
    BY <1>1, <2>1, FS_Subset
  <2>4. Cardinality(A) >= K /\ Cardinality(A) \in Nat /\ Cardinality(C) \in Nat
    BY <1>1, FS_CardinalityType DEF Closer
  <2>5. QED
    BY <1>3, <2>2, <2>3, <2>4
<1>5. CASE ~(A \subseteq C)
  <2>1. PICK y \in A : y \notin C
    BY <1>5
  <2>2. m < y /\ y < n
    BY <1>2, <2>1
  <2>3. QED
    BY <1>2, <1>3, <2>1, <2>2
<1>6. QED
  BY <1>4, <1>5

\* The report is the best there is: the closest that answered, none of the nodes still
\* awaited among them, and the latest item any gave.
THEOREM ReportSafety == Spec => []ReportsBestAnswers
<1>1. IInv => ReportsBestAnswers
  <2> SUFFICES ASSUME IInv, finished PROVE ReportsBestAnswers
    BY DEF ReportsBestAnswers
  <2> DEFINE R == In(st, {"Responded"})
             C == result.closest
  <2>1. /\ C \subseteq R /\ Cardinality(C) = Least(K, Cardinality(R))
        /\ \A m \in C, n \in R \ C : m < n
        /\ \A n \in R : n \in HoldsNew => result.item = 2
        /\ result.item = 1 => R \cap HoldsOld # {}
    BY DEF IInv, EndsForAReason
  <2>2. R \subseteq Nodes /\ In(st, Awaited) \subseteq Nodes \ R
    BY DEF In, Awaited
  <2>3. K \in Nat /\ IsFiniteSet(R) /\ Cardinality(R) \in Nat
    BY <2>2, InIsFinite, LookupAssumption, FS_Subset, FS_CardinalityType
  <2>4. \A n \in In(st, Awaited) : Cardinality(R) >= K /\ Closer(R, n) >= K
    <3>1. CASE outstanding = 0
      <4>1. Cardinality(In(st, Awaited)) = 0 /\ IsFiniteSet(In(st, Awaited))
        BY <3>1, InIsFinite DEF IInv, Counted
      <4>2. QED
        BY <4>1, FS_EmptySet
    <3>2. CASE outstanding # 0
      BY <3>2 DEF IInv, EndsForAReason
    <3>3. QED
      BY <3>1, <3>2
  <2>5. ASSUME NEW n \in In(st, Awaited)
        PROVE  Cardinality(C) = K /\ \A m \in C : m < n
    <3>1. Cardinality(C) = K
      BY <2>1, <2>3, <2>4, <2>5 DEF Least
    <3>2. QED
      BY <2>1, <2>2, <2>3, <2>4, <2>5, <3>1, ReportIsAhead
  <2>6. QED
    BY <2>1, <2>5 DEF ReportsBestAnswers
<1>2. QED
  BY <1>1, LookupInvariant, PTL
=============================================================================
