--------------------------- MODULE CrawlerProofs ---------------------------
(***************************************************************************)
(* The scan loses no node and asks none twice, and its catalogue finds      *)
(* every node once: for any endpoints, hashes, caps and batches, any nodes  *)
(* named in answers, and any order of answers, evictions and reuse.         *)
(***************************************************************************)
EXTENDS Crawler, TLAPS, FiniteSetTheorems, SequenceTheorems

-----------------------------------------------------------------------------
(* Induction along a loop                                                  *)

\* Among numbers there is a least one.
LEMMA Least ==
    ASSUME NEW S, S \subseteq Nat, S # {}
    PROVE  \E x \in S : \A y \in S : x <= y
<1> DEFINE R == {ss \in Nat \X Nat : ss[1] < ss[2]}
<1>1. IsWellFoundedOn(R, Nat)
  BY NatLessThanWellFounded DEF OpToRel
<1>2. PICK x \in S : \A y \in S : ~(<<y, x>> \in R)
  <2> HIDE DEF R
  <2>1. QED
    BY <1>1, WFMin
<1>3. \A y \in S : y < x => <<y, x>> \in R
  OBVIOUS
<1>4. \A y \in S : ~(y < x)
  BY <1>2, <1>3
<1>5. \A y \in S : x <= y
  BY <1>4
<1>6. QED
  BY <1>5

\* What holds before a loop and is kept by each of its n turns holds after it.
LEMMA EveryTurn ==
    ASSUME NEW n \in Nat, NEW P, 0 \in P, \A k \in 0..(n - 1) : k \in P => k + 1 \in P
    PROVE  \A k \in 0..n : k \in P
<1> DEFINE T == (0..n) \ P
<1>1. SUFFICES ASSUME T # {} PROVE FALSE
  OBVIOUS
<1>2. T \subseteq Nat
  OBVIOUS
<1>3. PICK x \in T : \A y \in T : x <= y
  <2> HIDE DEF T
  <2>1. QED
    BY <1>1, <1>2, Least
<1>4. x \in 1..n /\ x - 1 \notin T
  BY <1>3
<1>5. x - 1 \in P /\ x - 1 \in 0..(n - 1)
  BY <1>4
<1>6. (x - 1) + 1 \in P
  BY <1>5
<1>7. QED
  BY <1>4, <1>6

-----------------------------------------------------------------------------
(* Positions of the index                                                  *)

\* How far y lies behind h, going round.
Dist(h, y, n) == IF h <= y THEN y - h ELSE y - h + n

\* Going round reaches every position once.
LEMMA DistAhead ==
    ASSUME NEW n \in Nat \ {0}, NEW h \in 1..n
    PROVE  /\ \A y \in 1..n : Dist(h, y, n) \in 0..(n - 1) /\ Ahead(h, Dist(h, y, n), n) = y
           /\ \A k \in 0..(n - 1) : Ahead(h, k, n) \in 1..n /\ Dist(h, Ahead(h, k, n), n) = k
  BY DEF Dist, Ahead

\* Everybody has a home.
LEMMA HomeIs ==
    ASSUME NEW e \in Endpoints, NEW n \in Nat \ {0}
    PROVE  Home(e, n) \in 1..n
<1>1. HashOf[e] \in Nat
  BY CatalogAssumption
<1>2. HashOf[e] % n \in 0..(n - 1)
  BY <1>1
<1>3. QED
  BY <1>2 DEF Home

\* The slots S of the entries E have endpoints, each its own.
Distinct(E, S) ==
    /\ \A s \in S : s \in Nat \ {0} /\ E[s].endpoint \in Endpoints
    /\ \A s, r \in S : E[s].endpoint = E[r].endpoint => s = r

\* Where the slot at i wants to be.
HomeAt(E, t, i) == Home(E[t[i]].endpoint, Len(t))

\* Nothing free lies between the home of what is at i, and i.
Reached(E, t, i) ==
    \A y \in 1..Len(t) :
        Dist(HomeAt(E, t, i), y, Len(t)) <= Dist(HomeAt(E, t, i), i, Len(t)) => t[y] # NoSlot

\* The table t holds the slots S and no others.
Holds(t, S) ==
    /\ t \in Seq(Nat)
    /\ \A i \in 1..Len(t) : t[i] # NoSlot => t[i] \in S
    /\ \A s \in S : \E i \in 1..Len(t) : t[i] = s
    /\ \A i, j \in 1..Len(t) : t[i] # NoSlot /\ t[i] = t[j] => i = j

\* It indexes them.
Indexed(E, t, S) ==
    Holds(t, S) /\ \A i \in 1..Len(t) : t[i] # NoSlot => Reached(E, t, i)

\* There is a free position.
Room(t) == \E z \in 1..Len(t) : t[z] = NoSlot

\* The probe for e ends at its slot or at a free position, the first of either.
LEMMA ProbeStops ==
    ASSUME NEW c, NEW t, NEW e \in Endpoints, t \in Seq(Nat), Room(t)
    PROVE  LET i == ProbeEnd(c, t, e)
               h == Home(e, Len(t))
           IN /\ i \in 1..Len(t) /\ (t[i] = NoSlot \/ c.entries[t[i]].endpoint = e)
              /\ \A y \in 1..Len(t) :
                    Dist(h, y, Len(t)) < Dist(h, i, Len(t)) =>
                        t[y] # NoSlot /\ c.entries[t[y]].endpoint # e
<1> DEFINE n == Len(t)
           h == Home(e, n)
           stops(k) == LET at == t[Position(e, k, n)] IN at = NoSlot \/ c.entries[at].endpoint = e
           S == {k \in 0..(n - 1) : stops(k)}
           k0 == CHOOSE k \in 0..(n - 1) : stops(k) /\ \A j \in 0..(k - 1) : ~stops(j)
           i == ProbeEnd(c, t, e)
<1>1. PICK z \in 1..n : t[z] = NoSlot
  BY DEF Room
<1>2. n \in Nat \ {0}
  BY <1>1
<1>3. i = Position(e, k0, n)
  BY DEF ProbeEnd
<1>4. h \in 1..n
  BY <1>2, HomeIs
<1>5. \A k : Position(e, k, n) = Ahead(h, k, n)
  BY DEF Position
<1> HIDE DEF n, h
<1>6. /\ \A y \in 1..n : Dist(h, y, n) \in 0..(n - 1) /\ Ahead(h, Dist(h, y, n), n) = y
      /\ \A k \in 0..(n - 1) : Ahead(h, k, n) \in 1..n /\ Dist(h, Ahead(h, k, n), n) = k
  BY <1>2, <1>4, DistAhead
<1>7. stops(Dist(h, z, n)) /\ Dist(h, z, n) \in 0..(n - 1)
  BY <1>1, <1>5, <1>6
<1>8. k0 \in 0..(n - 1) /\ stops(k0) /\ \A j \in 0..(k0 - 1) : ~stops(j)
  <2> HIDE DEF stops
  <2>1. S # {} /\ S \subseteq Nat
    BY <1>2, <1>7
  <2>2. PICK m \in S : \A y \in S : m <= y
    <3> HIDE DEF S
    <3>1. QED
      BY <2>1, Least
  <2>3. m \in 0..(n - 1) /\ stops(m) /\ \A j \in 0..(m - 1) : ~stops(j)
    BY <1>2, <2>2
  <2>4. QED
    BY <2>3
<1> HIDE DEF k0, i
<1>9. i \in 1..n /\ Dist(h, i, n) = k0 /\ (t[i] = NoSlot \/ c.entries[t[i]].endpoint = e)
  BY <1>3, <1>5, <1>6, <1>8
<1>10. ASSUME NEW y \in 1..n, Dist(h, y, n) < Dist(h, i, n)
       PROVE  t[y] # NoSlot /\ c.entries[t[y]].endpoint # e
  <2>1. Dist(h, y, n) \in 0..(k0 - 1)
    BY <1>2, <1>6, <1>8, <1>9, <1>10
  <2>2. ~stops(Dist(h, y, n)) /\ Position(e, Dist(h, y, n), n) = y
    BY <1>5, <1>6, <1>8, <2>1
  <2>3. QED
    BY <2>2
<1>11. QED
  BY <1>9, <1>10 DEF n, h, i

\* The probe finds what is there, and nothing else.
LEMMA ProbeFinds ==
    ASSUME NEW c, NEW t, NEW S, NEW e \in Endpoints, Distinct(c.entries, S), Indexed(c.entries, t, S), Room(t)
    PROVE  LET i == ProbeEnd(c, t, e)
           IN /\ i \in 1..Len(t)
              /\ \A s \in S : c.entries[s].endpoint = e => t[i] = s
              /\ (\A s \in S : c.entries[s].endpoint # e) => t[i] = NoSlot
<1> DEFINE i == ProbeEnd(c, t, e)
           h == Home(e, Len(t))
           E == c.entries
<1>1. /\ i \in 1..Len(t) /\ (t[i] = NoSlot \/ E[t[i]].endpoint = e)
      /\ \A y \in 1..Len(t) : Dist(h, y, Len(t)) < Dist(h, i, Len(t)) =>
                                t[y] # NoSlot /\ E[t[y]].endpoint # e
  BY ProbeStops DEF Indexed, Holds
<1> HIDE DEF i
<1>2. ASSUME NEW s \in S, E[s].endpoint = e PROVE t[i] = s
  <2>1. PICK x \in 1..Len(t) : t[x] = s
    BY DEF Indexed, Holds
  <2>2. t[x] # NoSlot /\ HomeAt(E, t, x) = h
    BY <1>2, <2>1 DEF Distinct, HomeAt, NoSlot
  <2>3. Len(t) \in Nat \ {0}
    BY <2>1 DEF Indexed, Holds
  <2>4. h \in 1..Len(t)
    BY <2>3, HomeIs
  <2>5. Dist(h, i, Len(t)) \in Nat /\ Dist(h, x, Len(t)) \in Nat
    BY <1>1, <2>3, <2>4 DEF Dist
  <2>6. Dist(h, i, Len(t)) <= Dist(h, x, Len(t))
    BY <1>1, <1>2, <2>1, <2>5
  <2>7. t[i] # NoSlot
    BY <1>1, <2>2, <2>6 DEF Indexed, Reached
  <2>8. QED
    BY <1>1, <1>2, <2>7 DEF Indexed, Holds, Distinct
<1>3. ASSUME \A s \in S : E[s].endpoint # e PROVE t[i] = NoSlot
  BY <1>1, <1>3 DEF Indexed, Holds
<1>4. QED
  BY <1>1, <1>2, <1>3 DEF i

\* A table with more positions than slots has room.
LEMMA HasRoom ==
    ASSUME NEW t, NEW S, Holds(t, S), IsFiniteSet(S), Cardinality(S) < Len(t)
    PROVE  Room(t)
<1>1. SUFFICES ASSUME ~Room(t) PROVE FALSE
  OBVIOUS
<1>2. Len(t) \in Nat /\ t \in [1..Len(t) -> S]
  <2>1. \A i \in 1..Len(t) : t[i] \in S
    BY <1>1 DEF Room, Holds
  <2>2. t \in Seq(Nat)
    BY DEF Holds
  <2>3. QED
    BY <2>1, <2>2
<1>3. t \in Injection(1..Len(t), S)
  BY <1>1, <1>2 DEF Injection, IsInjective, Holds, Room
<1>5. IsFiniteSet(1..Len(t)) /\ Cardinality(1..Len(t)) = Len(t)
  BY <1>2, FS_Interval
<1>6. Cardinality(1..Len(t)) <= Cardinality(S)
  <2> HIDE DEF Holds
  <2>1. QED
    BY <1>3, FS_Injection
<1>7. Cardinality(S) \in Nat
  BY FS_CardinalityType
<1>8. QED
  BY <1>2, <1>5, <1>6, <1>7

\* The slot s, with those of S the slots R, can go into the table t.
Insertable(c, t, S, s, R) ==
    /\ R = S \cup {s} /\ s \notin S
    /\ Distinct(c.entries, R) /\ Indexed(c.entries, t, S) /\ Room(t)

\* A slot more in the index.
LEMMA Inserted ==
    ASSUME NEW c, NEW t, NEW S, NEW s, NEW R, Insertable(c, t, S, s, R)
    PROVE  Indexed(c.entries, insertIndex(c, t, s), R) /\ Len(insertIndex(c, t, s)) = Len(t)
<1> DEFINE E == c.entries
           e == E[s].endpoint
           n == Len(t)
           h == Home(e, n)
           i == ProbeEnd(c, t, e)
           u == [t EXCEPT ![i] = s]
<1>0. insertIndex(c, t, s) = u
  BY DEF insertIndex
<1> USE DEF Insertable
<1>1. t \in Seq(Nat) /\ e \in Endpoints /\ s \in Nat \ {0}
  BY DEF Indexed, Holds, Distinct
<1>2. /\ i \in 1..n
      /\ \A y \in 1..n : Dist(h, y, n) < Dist(h, i, n) => t[y] # NoSlot
  <2> HIDE DEF e, E
  <2>1. QED
    BY <1>1, ProbeStops
<1>3. t[i] = NoSlot
  <2>1. Distinct(E, S) /\ \A r \in S : E[r].endpoint # e
    BY DEF Distinct
  <2>2. QED
    BY <1>1, <2>1, ProbeFinds
<1> HIDE DEF i
<1>4. /\ u \in Seq(Nat) /\ Len(u) = n /\ u[i] = s
      /\ \A y \in 1..n : y # i => u[y] = t[y]
  BY <1>1, <1>2
<1> HIDE DEF u
<1>5. s # NoSlot /\ n \in Nat \ {0}
  BY <1>1, <1>2 DEF NoSlot
<1>6. Holds(u, R)
  <2>1. \A y \in 1..n : u[y] # NoSlot => u[y] \in R
    BY <1>4 DEF Indexed, Holds
  <2>2. \A r \in R : \E y \in 1..n : u[y] = r
    <3>1. ASSUME NEW r \in S PROVE \E y \in 1..n : u[y] = r
      <4>1. PICK y \in 1..n : t[y] = r
        BY DEF Indexed, Holds
      <4>2. r # NoSlot
        BY DEF Distinct, NoSlot
      <4>3. QED
        BY <1>3, <1>4, <4>1, <4>2
    <3>2. QED
      BY <1>2, <1>4, <3>1
  <2>3. \A y, x \in 1..n : u[y] # NoSlot /\ u[y] = u[x] => y = x
    <3>1. \A y \in 1..n : t[y] # s
      BY <1>5 DEF Indexed, Holds
    <3>2. QED
      BY <1>4, <3>1 DEF Indexed, Holds
  <2>4. QED
    BY <1>4, <2>1, <2>2, <2>3 DEF Holds
<1>7. ASSUME NEW x \in 1..n, u[x] # NoSlot PROVE Reached(E, u, x)
  <2>1. CASE x = i
    <3>1. HomeAt(E, u, x) = h /\ h \in 1..n
      BY <1>1, <1>4, <1>5, <2>1, HomeIs DEF HomeAt
    <3>2. ASSUME NEW y \in 1..n, Dist(h, y, n) <= Dist(h, i, n) PROVE u[y] # NoSlot
      <4>1. CASE y = i
        BY <1>4, <1>5, <4>1
      <4>2. CASE y # i
        <5>1. Dist(h, y, n) < Dist(h, i, n)
          BY <1>2, <1>5, <3>1, <3>2, <4>2 DEF Dist
        <5>2. QED
          BY <1>2, <1>4, <4>2, <5>1
      <4>3. QED
        BY <4>1, <4>2
    <3>3. QED
      BY <1>4, <2>1, <3>1, <3>2 DEF Reached
  <2>2. CASE x # i
    <3>1. u[x] = t[x] /\ HomeAt(E, u, x) = HomeAt(E, t, x) /\ Reached(E, t, x)
      BY <1>4, <1>7, <2>2 DEF HomeAt, Indexed
    <3>2. \A y \in 1..n : t[y] # NoSlot => u[y] # NoSlot
      BY <1>4, <1>5
    <3>3. QED
      BY <1>4, <3>1, <3>2 DEF Reached
  <2>3. QED
    BY <2>1, <2>2
<1>8. QED
  BY <1>0, <1>4, <1>6, <1>7 DEF Indexed

-----------------------------------------------------------------------------
(* A slot less in the index.  Seen from a free position z nothing goes     *)
(* round: what is stored lies behind its home in the plain order.          *)

\* The place of x in the order that ends at z.
Off(x, z, n) == IF z < x THEN x - z ELSE x - z + n

\* Whatever is reached without passing z is reached in that order.
LEMMA OffDist ==
    ASSUME NEW n \in Nat \ {0}, NEW z \in 1..n, NEW h \in 1..n, NEW x \in 1..n
    PROVE  /\ Off(x, z, n) \in 1..n /\ (Off(x, z, n) = n <=> x = z)
           /\ Dist(h, z, n) > Dist(h, x, n) => Off(h, z, n) <= Off(x, z, n)
           /\ Off(h, z, n) <= Off(x, z, n) =>
                \A y \in 1..n : Dist(h, y, n) <= Dist(h, x, n)
                                  <=> Off(h, z, n) <= Off(y, z, n) /\ Off(y, z, n) <= Off(x, z, n)
           /\ \A y \in 1..n : Off(x, z, n) = Off(y, z, n) => x = y
  BY DEF Off, Dist

\* Every position has a place of its own.
LEMMA OffType ==
    ASSUME NEW n \in Nat \ {0}, NEW z \in 1..n
    PROVE  /\ \A x \in 1..n : Off(x, z, n) \in 1..n /\ (Off(x, z, n) = n <=> x = z)
           /\ \A x, y \in 1..n : Off(x, z, n) = Off(y, z, n) => x = y
  BY DEF Off

\* What is at x lies behind its home, with nothing free between but perhaps the hole, as
\* long as the walk has not come by.
InLine(E, v, z, x, hole, seen) ==
    LET n == Len(v)
        h == HomeAt(E, v, x)
    IN /\ Off(h, z, n) <= Off(x, z, n)
       /\ \A y \in 1..n : Off(h, z, n) <= Off(y, z, n) /\ Off(y, z, n) <= Off(x, z, n) =>
                            v[y] # NoSlot \/ (y = hole /\ Off(x, z, n) > seen)

\* In a table where z is free, what is reached is in line.
LEMMA ReachedInLine ==
    ASSUME NEW E, NEW S, NEW v, Holds(v, S), Distinct(E, S),
           NEW z \in 1..Len(v), v[z] = NoSlot, NEW x \in 1..Len(v), v[x] # NoSlot
    PROVE  /\ HomeAt(E, v, x) \in 1..Len(v)
           /\ Reached(E, v, x) => \A hole, seen : InLine(E, v, z, x, hole, seen)
           /\ \A hole : InLine(E, v, z, x, hole, Len(v)) => Reached(E, v, x)
<1> DEFINE n == Len(v)
           h == HomeAt(E, v, x)
<1>1. n \in Nat \ {0}
  BY DEF Holds
<1>2. h \in 1..n
  BY <1>1, HomeIs DEF Holds, Distinct, HomeAt
<1> HIDE DEF h, n
<1>3. /\ Off(x, z, n) \in 1..n
      /\ Dist(h, z, n) > Dist(h, x, n) => Off(h, z, n) <= Off(x, z, n)
      /\ Off(h, z, n) <= Off(x, z, n) =>
           \A y \in 1..n : Dist(h, y, n) <= Dist(h, x, n)
                             <=> Off(h, z, n) <= Off(y, z, n) /\ Off(y, z, n) <= Off(x, z, n)
  BY <1>1, <1>2, OffDist DEF n
<1>4. Dist(h, z, n) \in Nat /\ Dist(h, x, n) \in Nat
  BY <1>1, <1>2 DEF Dist, n
<1>5. ASSUME Reached(E, v, x), NEW hole, NEW seen PROVE InLine(E, v, z, x, hole, seen)
  <2>1. \A y \in 1..n : Dist(h, y, n) <= Dist(h, x, n) => v[y] # NoSlot
    BY <1>5 DEF Reached, n, h
  <2>2. Dist(h, z, n) > Dist(h, x, n)
    BY <1>4, <2>1 DEF n
  <2>3. QED
    BY <1>3, <2>1, <2>2 DEF InLine, n, h
<1>6. ASSUME NEW hole, InLine(E, v, z, x, hole, n) PROVE Reached(E, v, x)
  <2>1. /\ Off(h, z, n) <= Off(x, z, n)
        /\ \A y \in 1..n : Off(h, z, n) <= Off(y, z, n) /\ Off(y, z, n) <= Off(x, z, n) =>
                             v[y] # NoSlot \/ (y = hole /\ Off(x, z, n) > n)
    BY <1>6 DEF InLine, n, h
  <2>2. ~(Off(x, z, n) > n)
    BY <1>1, <1>3
  <2>3. QED
    BY <1>3, <2>1, <2>2 DEF Reached, n, h
<1>7. QED
  BY <1>2, <1>5, <1>6 DEF n, h

\* The hole may be crossed by what stays put, and by nothing else.
LEMMA StaysPutIs ==
    ASSUME NEW n \in Nat \ {0}, NEW z \in 1..n, NEW i \in 1..n, NEW h \in 1..n, NEW j \in 1..n,
           Off(i, z, n) < Off(j, z, n), Off(h, z, n) <= Off(j, z, n)
    PROVE  StaysPut(i, h, j) <=> Off(i, z, n) < Off(h, z, n)
  BY DEF Off, StaysPut

\* The table with the hole free.
Emptied(w) == [w.table EXCEPT ![w.hole] = NoSlot]

\* The walk as a record.
IsWalk(w) ==
    /\ DOMAIN w = {"table", "hole", "open"} /\ w = [x \in DOMAIN w |-> w[x]]
    /\ w.open \in BOOLEAN /\ w.table \in Seq(Nat) /\ w.hole \in 1..Len(w.table)

\* The walk, seen from z, that began at the place b and made k steps, over the slots S
\* that remain.
WalkOK(E, S, z, n, b, w, k) ==
    /\ IsWalk(w) /\ Len(w.table) = n
    /\ w.hole # z /\ w.table[z] = NoSlot
    /\ Holds(Emptied(w), S)
    /\ w.open => /\ b + k < n /\ Off(w.hole, z, n) <= b + k
                 /\ \A x \in 1..n : Emptied(w)[x] # NoSlot => InLine(E, Emptied(w), z, x, w.hole, b + k)
    /\ ~w.open => \A x \in 1..n : Emptied(w)[x] # NoSlot => InLine(E, Emptied(w), z, x, w.hole, n)

\* What a table with the hole free has.
LEMMA EmptiedIs ==
    ASSUME NEW w, IsWalk(w)
    PROVE  /\ Emptied(w) \in Seq(Nat) /\ Len(Emptied(w)) = Len(w.table)
           /\ Emptied(w)[w.hole] = NoSlot
           /\ \A x \in 1..Len(w.table) : x # w.hole => Emptied(w)[x] = w.table[x]
<1>1. w.table \in Seq(Nat) /\ w.hole \in 1..Len(w.table) /\ NoSlot \in Nat
  BY DEF IsWalk, NoSlot
<1>2. QED
  BY <1>1 DEF Emptied

\* The walk comes to a free position: nothing behind it can miss the hole.
LEMMA WalkCloses ==
    ASSUME NEW E, NEW S, NEW n \in Nat \ {0}, NEW z \in 1..n, NEW b \in Nat, NEW k \in Nat,
           NEW w, WalkOK(E, S, z, n, b, w, k), w.open, Distinct(E, S),
           NEW j \in 1..n, Off(j, z, n) = b + k + 1, w.table[j] = NoSlot
    PROVE  WalkOK(E, S, z, n, b, [w EXCEPT !.open = FALSE], k + 1)
<1> DEFINE u == [w EXCEPT !.open = FALSE]
           v == Emptied(w)
           i == w.hole
<1>0. /\ \A x \in 1..n : Off(x, z, n) \in 1..n /\ (Off(x, z, n) = n <=> x = z)
      /\ \A x, y \in 1..n : Off(x, z, n) = Off(y, z, n) => x = y
  BY OffType, Zenon
<1>1. IsWalk(w) /\ Len(w.table) = n /\ Holds(v, S) /\ i \in 1..n
  BY DEF WalkOK, IsWalk
<1>2. /\ IsWalk(u) /\ u.table = w.table /\ u.hole = w.hole /\ u.open = FALSE
  BY <1>1 DEF IsWalk
<1>3. Emptied(u) = v
  BY <1>2 DEF Emptied
<1>4. /\ v \in Seq(Nat) /\ Len(v) = n /\ v[i] = NoSlot
      /\ \A x \in 1..n : x # i => v[x] = w.table[x]
  BY <1>1, EmptiedIs
<1>5. v[j] = NoSlot /\ v[z] = NoSlot
  BY <1>4 DEF WalkOK
<1> HIDE DEF u, v
<1>6. ASSUME NEW x \in 1..n, v[x] # NoSlot PROVE InLine(E, v, z, x, i, n)
  <2> DEFINE h == HomeAt(E, v, x)
  <2>1. InLine(E, v, z, x, i, b + k) /\ Off(i, z, n) <= b + k
    BY <1>6 DEF WalkOK, v
  <2>2. h \in 1..n
    BY <1>1, <1>4, <1>5, <1>6, ReachedInLine
  <2> HIDE DEF h
  <2>3. /\ Off(h, z, n) <= Off(x, z, n)
        /\ \A y \in 1..n : Off(h, z, n) <= Off(y, z, n) /\ Off(y, z, n) <= Off(x, z, n) =>
                             v[y] # NoSlot \/ (y = i /\ Off(x, z, n) > b + k)
    BY <1>4, <2>1 DEF InLine, h
  <2>4. /\ Off(x, z, n) \in Nat /\ Off(h, z, n) \in Nat /\ Off(i, z, n) \in Nat
        /\ (Off(x, z, n) = Off(j, z, n) => x = j) /\ (Off(i, z, n) = Off(j, z, n) => i = j)
    <3>1. Off(x, z, n) \in 1..n /\ Off(h, z, n) \in 1..n /\ Off(i, z, n) \in 1..n
      BY <1>0, <1>1, <2>2, Zenon
    <3>2. Off(x, z, n) \in Nat /\ Off(h, z, n) \in Nat /\ Off(i, z, n) \in Nat
      BY <3>1
    <3>3. QED
      BY <1>0, <1>1, <3>2, Zenon
  <2>5. ~(Off(h, z, n) <= Off(i, z, n) /\ Off(x, z, n) > b + k)
    <3>1. SUFFICES ASSUME Off(h, z, n) <= Off(i, z, n), Off(x, z, n) > b + k PROVE FALSE
      OBVIOUS
    <3>2. x # j /\ Off(x, z, n) # b + k + 1
      BY <1>5, <1>6, <2>4
    <3>3. Off(h, z, n) <= Off(j, z, n) /\ Off(j, z, n) <= Off(x, z, n)
      BY <2>1, <2>4, <3>1, <3>2
    <3>4. j = i
      BY <1>5, <2>3, <3>3
    <3>5. QED
      BY <2>1, <3>4
  <2>6. \A y \in 1..n : Off(h, z, n) <= Off(y, z, n) /\ Off(y, z, n) <= Off(x, z, n) => v[y] # NoSlot
    BY <2>3, <2>5
  <2>7. QED
    BY <1>4, <2>3, <2>6 DEF InLine, h
<1>7. QED
  BY <1>1, <1>2, <1>3, <1>6 DEF WalkOK, u, v

\* What may stay where it is stays.
LEMMA WalkStays ==
    ASSUME NEW E, NEW S, NEW n \in Nat \ {0}, NEW z \in 1..n, NEW b \in Nat, NEW k \in Nat,
           NEW w, WalkOK(E, S, z, n, b, w, k), w.open, Distinct(E, S),
           NEW j \in 1..n, Off(j, z, n) = b + k + 1, w.table[j] # NoSlot,
           StaysPut(w.hole, HomeAt(E, w.table, j), j)
    PROVE  WalkOK(E, S, z, n, b, w, k + 1)
<1> DEFINE v == Emptied(w)
           i == w.hole
<1>0. /\ \A x \in 1..n : Off(x, z, n) \in 1..n /\ (Off(x, z, n) = n <=> x = z)
      /\ \A x, y \in 1..n : Off(x, z, n) = Off(y, z, n) => x = y
  BY OffType, Zenon
<1>1. IsWalk(w) /\ Len(w.table) = n /\ Holds(v, S) /\ i \in 1..n /\ Off(i, z, n) <= b + k
  BY DEF WalkOK, IsWalk
<1>2. /\ v \in Seq(Nat) /\ Len(v) = n /\ v[i] = NoSlot
      /\ \A x \in 1..n : x # i => v[x] = w.table[x]
  BY <1>1, EmptiedIs
<1>3. /\ Off(i, z, n) \in 1..n /\ Off(j, z, n) \in 1..n /\ (Off(j, z, n) = n <=> j = z)
  BY <1>0, <1>1
<1>4. j # i /\ j # z /\ b + (k + 1) < n /\ Off(i, z, n) < Off(j, z, n)
  BY <1>1, <1>3 DEF WalkOK
<1>5. v[j] = w.table[j] /\ v[z] = NoSlot /\ HomeAt(E, w.table, j) = HomeAt(E, v, j)
  BY <1>1, <1>2, <1>4 DEF WalkOK, HomeAt
<1> HIDE DEF v
<1>6. ASSUME NEW x \in 1..n, v[x] # NoSlot PROVE InLine(E, v, z, x, i, b + (k + 1))
  <2> DEFINE h == HomeAt(E, v, x)
  <2>1. InLine(E, v, z, x, i, b + k)
    BY <1>6 DEF WalkOK, v
  <2>2. h \in 1..n
    BY <1>1, <1>2, <1>5, <1>6, ReachedInLine
  <2>3. /\ Off(h, z, n) <= Off(x, z, n)
        /\ \A y \in 1..n : Off(h, z, n) <= Off(y, z, n) /\ Off(y, z, n) <= Off(x, z, n) =>
                             v[y] # NoSlot \/ (y = i /\ Off(x, z, n) > b + k)
    BY <1>2, <2>1 DEF InLine
  <2>4. /\ Off(x, z, n) \in Nat /\ Off(h, z, n) \in Nat
        /\ Off(x, z, n) = Off(j, z, n) => x = j
    <3> HIDE DEF h
    <3>1. QED
      BY <1>0, <2>2
  <2>5. CASE x = j
    <3>1. StaysPut(i, h, j)
      BY <1>5, <2>5
    <3>2. Off(i, z, n) < Off(h, z, n)
      <4> HIDE DEF h
      <4>1. QED
        BY <1>1, <1>4, <2>2, <2>3, <2>5, <3>1, StaysPutIs
    <3> HIDE DEF h
    <3>3. ~(Off(h, z, n) <= Off(i, z, n))
      BY <1>3, <2>4, <3>2
    <3>4. QED
      BY <1>2, <2>3, <3>3 DEF InLine, h
  <2>6. CASE x # j
    <3> HIDE DEF h
    <3>1. Off(x, z, n) > b + k => Off(x, z, n) > b + (k + 1)
      BY <2>4, <2>6
    <3>2. QED
      BY <1>2, <2>3, <3>1 DEF InLine, h
  <2>7. QED
    BY <2>5, <2>6
<1>7. Off(i, z, n) <= b + (k + 1)
  BY <1>1, <1>3
<1>8. QED
  BY <1>1, <1>4, <1>6, <1>7 DEF WalkOK, v

\* The walk m has moved what w has at j into the hole.
IsPulled(w, m, j) ==
    /\ IsWalk(m) /\ m.hole = j /\ m.open = TRUE /\ Len(m.table) = Len(w.table)
    /\ m.table[w.hole] = w.table[j]
    /\ \A x \in 1..Len(w.table) : x # w.hole => m.table[x] = w.table[x]

\* What the hole would hide is pulled back into it, and leaves a hole behind.
LEMMA WalkPulls ==
    ASSUME NEW E, NEW S, NEW n \in Nat \ {0}, NEW z \in 1..n, NEW b \in Nat, NEW k \in Nat,
           NEW w, WalkOK(E, S, z, n, b, w, k), w.open, Distinct(E, S),
           NEW j \in 1..n, Off(j, z, n) = b + k + 1, w.table[j] # NoSlot,
           ~StaysPut(w.hole, HomeAt(E, w.table, j), j),
           NEW m, IsPulled(w, m, j)
    PROVE  WalkOK(E, S, z, n, b, m, k + 1)
<1> DEFINE v == Emptied(w)
           u == Emptied(m)
           i == w.hole
<1>0. /\ \A x \in 1..n : Off(x, z, n) \in 1..n /\ (Off(x, z, n) = n <=> x = z)
      /\ \A x, y \in 1..n : Off(x, z, n) = Off(y, z, n) => x = y
  BY OffType, Zenon
<1>1. IsWalk(w) /\ Len(w.table) = n /\ Holds(v, S) /\ i \in 1..n /\ Off(i, z, n) <= b + k /\ i # z
  BY DEF WalkOK, IsWalk
<1>2. /\ v \in Seq(Nat) /\ Len(v) = n /\ v[i] = NoSlot
      /\ \A x \in 1..n : x # i => v[x] = w.table[x]
  BY <1>1, EmptiedIs
<1>3. /\ Off(i, z, n) \in 1..n /\ Off(j, z, n) \in 1..n /\ (Off(j, z, n) = n <=> j = z)
  BY <1>0, <1>1
<1>4. j # i /\ j # z /\ b + (k + 1) < n /\ Off(i, z, n) < Off(j, z, n)
  BY <1>1, <1>3 DEF WalkOK
<1>5. v[j] = w.table[j] /\ v[z] = NoSlot /\ HomeAt(E, w.table, j) = HomeAt(E, v, j)
  BY <1>1, <1>2, <1>4 DEF WalkOK, HomeAt
<1>6. /\ IsWalk(m) /\ m.hole = j /\ m.open = TRUE /\ Len(m.table) = n
      /\ m.table[i] = w.table[j] /\ \A x \in 1..n : x # i => m.table[x] = w.table[x]
  BY <1>1 DEF IsPulled
<1>7. /\ u \in Seq(Nat) /\ Len(u) = n /\ u[j] = NoSlot
      /\ \A x \in 1..n : x # j => u[x] = m.table[x]
  BY <1>6, EmptiedIs
<1> HIDE DEF v, u
<1>8. u[i] = v[j] /\ u[j] = NoSlot /\ \A x \in 1..n : x # i /\ x # j => u[x] = v[x]
  BY <1>1, <1>2, <1>4, <1>5, <1>6, <1>7
<1>9. Holds(u, S)
  <2>1. \A x \in 1..n : u[x] # NoSlot => u[x] \in S
    BY <1>1, <1>2, <1>8 DEF Holds
  <2>2. ASSUME NEW s \in S PROVE \E x \in 1..n : u[x] = s
    <3>1. PICK x \in 1..n : v[x] = s
      BY <1>1, <1>2 DEF Holds
    <3>2. x # i
      BY <1>2, <3>1 DEF Distinct, NoSlot
    <3>3. QED
      BY <1>1, <1>8, <3>1, <3>2
  <2>3. ASSUME NEW x \in 1..n, NEW y \in 1..n, u[x] # NoSlot, u[x] = u[y] PROVE x = y
    <3>1. \A a, d \in 1..n : v[a] # NoSlot /\ v[a] = v[d] => a = d
      BY <1>1, <1>2 DEF Holds
    <3>2. x # j /\ y # j
      BY <1>8, <2>3
    <3>3. CASE x = i
      BY <1>8, <2>3, <3>1, <3>2, <3>3
    <3>4. CASE y = i
      BY <1>8, <2>3, <3>1, <3>2, <3>4
    <3>5. CASE x # i /\ y # i
      BY <1>8, <2>3, <3>1, <3>2, <3>5
    <3>6. QED
      BY <3>3, <3>4, <3>5
  <2>4. QED
    BY <1>7, <2>1, <2>2, <2>3 DEF Holds
<1>10. ASSUME NEW x \in 1..n, v[x] # NoSlot
       PROVE  /\ HomeAt(E, v, x) \in 1..n /\ Off(HomeAt(E, v, x), z, n) <= Off(x, z, n)
              /\ \A y \in 1..n :
                  Off(HomeAt(E, v, x), z, n) <= Off(y, z, n) /\ Off(y, z, n) <= Off(x, z, n) =>
                    v[y] # NoSlot \/ y = i
  <2>1. InLine(E, v, z, x, i, b + k)
    BY <1>10 DEF WalkOK, v
  <2>2. HomeAt(E, v, x) \in 1..Len(v)
    <3>1. z \in 1..Len(v) /\ x \in 1..Len(v)
      BY <1>2, <1>10, Zenon
    <3>2. QED
      BY <1>1, <1>5, <1>10, <3>1, ReachedInLine, Zenon
  <2>3. HomeAt(E, v, x) \in 1..n
    BY <1>2, <2>2, Zenon
  <2>4. /\ Off(HomeAt(E, v, x), z, n) <= Off(x, z, n)
        /\ \A y \in 1..n :
             Off(HomeAt(E, v, x), z, n) <= Off(y, z, n) /\ Off(y, z, n) <= Off(x, z, n) =>
               v[y] # NoSlot \/ y = i
    BY <1>2, <2>1 DEF InLine
  <2>5. QED
    BY <2>3, <2>4, Zenon
<1>11. ASSUME NEW x \in 1..n, u[x] # NoSlot PROVE InLine(E, u, z, x, j, b + (k + 1))
  <2>1. CASE x = i
    <3> DEFINE h == HomeAt(E, v, j)
    <3>1. HomeAt(E, u, x) = h
      BY <1>2, <1>7, <1>8, <2>1 DEF HomeAt
    <3>2. h \in 1..n /\ Off(h, z, n) <= Off(j, z, n) /\ ~StaysPut(i, h, j)
      BY <1>5, <1>10
    <3> HIDE DEF h
    <3>3. Off(h, z, n) \in 1..n
      BY <1>0, <3>2
    <3>4. ~(Off(i, z, n) < Off(h, z, n))
      BY <1>1, <1>4, <3>2, StaysPutIs
    <3>5. Off(h, z, n) <= Off(i, z, n)
      BY <1>3, <3>3, <3>4
    <3>6. ASSUME NEW y \in 1..n, Off(h, z, n) <= Off(y, z, n), Off(y, z, n) <= Off(i, z, n) PROVE u[y] # NoSlot
      <4>1. Off(y, z, n) \in 1..n
        BY <1>0
      <4>2. Off(y, z, n) <= Off(j, z, n) /\ y # j
        BY <1>3, <1>4, <3>6, <4>1
      <4>3. v[y] # NoSlot \/ y = i
        BY <1>5, <1>10, <3>6, <4>2 DEF h
      <4>4. QED
        BY <1>5, <1>8, <4>2, <4>3
    <3>7. QED
      BY <1>7, <2>1, <3>1, <3>5, <3>6 DEF InLine
  <2>2. CASE x # i
    <3> DEFINE h == HomeAt(E, v, x)
    <3>1. x # j /\ u[x] = v[x] /\ HomeAt(E, u, x) = h
      BY <1>2, <1>7, <1>8, <1>11, <2>2 DEF HomeAt
    <3>2. /\ Off(h, z, n) <= Off(x, z, n)
          /\ \A y \in 1..n : Off(h, z, n) <= Off(y, z, n) /\ Off(y, z, n) <= Off(x, z, n) =>
                               v[y] # NoSlot \/ y = i
      BY <1>10, <1>11, <3>1
    <3> HIDE DEF h
    <3>3. ASSUME Off(j, z, n) <= Off(x, z, n) PROVE Off(x, z, n) > b + (k + 1)
      <4>1. Off(x, z, n) \in 1..n /\ Off(x, z, n) # Off(j, z, n)
        BY <1>0, <3>1
      <4>2. QED
        BY <3>3, <4>1
    <3>4. \A y \in 1..n : Off(h, z, n) <= Off(y, z, n) /\ Off(y, z, n) <= Off(x, z, n) =>
                            u[y] # NoSlot \/ (y = j /\ Off(x, z, n) > b + (k + 1))
      BY <1>5, <1>8, <3>2, <3>3
    <3>5. QED
      BY <1>7, <3>1, <3>2, <3>4 DEF InLine
  <2>3. QED
    BY <2>1, <2>2
<1>12. m.table[z] = NoSlot
  BY <1>1, <1>6 DEF WalkOK
<1>13. Off(j, z, n) <= b + (k + 1)
  BY <1>3
<1>14. QED
  BY <1>4, <1>6, <1>9, <1>11, <1>12, <1>13 DEF WalkOK, u

\* The steps of the walk follow the order that ends at z.
LEMMA AheadOff ==
    ASSUME NEW n \in Nat \ {0}, NEW z \in 1..n, NEW i \in 1..n, NEW m \in 0..(n - 1),
           Off(i, z, n) + m <= n
    PROVE  Ahead(i, m, n) \in 1..n /\ Off(Ahead(i, m, n), z, n) = Off(i, z, n) + m
  BY DEF Off, Ahead

\* A step of the walk.
LEMMA WalkStep ==
    ASSUME NEW c, NEW S, Distinct(c.entries, S), NEW n \in Nat \ {0}, NEW z \in 1..n, NEW i \in 1..n,
           NEW k \in 0..(n - 2), NEW w, WalkOK(c.entries, S, z, n, Off(i, z, n), w, k)
    PROVE  WalkOK(c.entries, S, z, n, Off(i, z, n), PulledBack(c, w, Ahead(i, k + 1, n)), k + 1)
<1> DEFINE E == c.entries
           b == Off(i, z, n)
           j == Ahead(i, k + 1, n)
           p == PulledBack(c, w, j)
<1>1. IsWalk(w) /\ Len(w.table) = n /\ w.open \in BOOLEAN /\ k \in Nat
  BY DEF WalkOK, IsWalk
<1>2. b \in Nat
  BY OffType
<1>3. CASE ~w.open
  <2>1. p = w
    BY <1>3 DEF PulledBack
  <2>2. QED
    BY <1>3, <2>1 DEF WalkOK
<1>4. CASE w.open
  <2>1. b + k < n
    BY <1>4 DEF WalkOK
  <2>2. k + 1 \in 0..(n - 1) /\ b + (k + 1) <= n
    BY <1>1, <1>2, <2>1
  <2>3. j \in 1..n /\ Off(j, z, n) = b + (k + 1)
    BY <2>2, AheadOff
  <2> HIDE DEF j, b
  <2>4. Off(j, z, n) = b + k + 1
    BY <1>1, <1>2, <2>3
  <2>5. CASE w.table[j] = NoSlot
    <3>1. p = [w EXCEPT !.open = FALSE]
      BY <1>4, <2>5 DEF PulledBack
    <3>2. QED
      BY <1>1, <1>2, <1>4, <2>3, <2>4, <2>5, <3>1, WalkCloses, SMTT(30) DEF b, j
  <2>6. CASE w.table[j] # NoSlot /\ StaysPut(w.hole, HomeAt(E, w.table, j), j)
    <3>1. p = w
      BY <1>4, <2>6 DEF PulledBack, HomeAt
    <3>2. QED
      BY <1>1, <1>2, <1>4, <2>3, <2>4, <2>6, <3>1, WalkStays DEF b, j
  <2>7. CASE w.table[j] # NoSlot /\ ~StaysPut(w.hole, HomeAt(E, w.table, j), j)
    <3>1. p = [w EXCEPT !.table = [w.table EXCEPT ![w.hole] = w.table[j]], !.hole = j]
      BY <1>4, <2>7 DEF PulledBack, HomeAt
    <3>2. IsPulled(w, p, j)
      <4>1. w.table \in Seq(Nat) /\ w.hole \in 1..n /\ w.table[j] \in Nat
        <5>1. w.table \in Seq(Nat) /\ w.hole \in 1..Len(w.table)
          BY <1>1 DEF IsWalk
        <5> HIDE DEF p
        <5>2. w.table[j] \in Nat
          <6>1. j \in 1..Len(w.table)
            BY <1>1, <2>3, Zenon
          <6>2. QED
            BY <5>1, <6>1, SMTT(30)
        <5>3. QED
          BY <1>1, <5>1, <5>2, Zenon
      <4>2. /\ DOMAIN p = {"table", "hole", "open"} /\ p = [x \in DOMAIN p |-> p[x]]
            /\ p.table = [w.table EXCEPT ![w.hole] = w.table[j]] /\ p.hole = j /\ p.open = TRUE
        BY <1>1, <1>4, <3>1 DEF IsWalk
      <4> HIDE DEF p
      <4>3. /\ p.table \in Seq(Nat) /\ Len(p.table) = n /\ p.table[w.hole] = w.table[j]
            /\ \A x \in 1..n : x # w.hole => p.table[x] = w.table[x]
        BY <1>1, <4>1, <4>2
      <4>4. QED
        BY <1>1, <2>3, <4>2, <4>3 DEF IsPulled, IsWalk
    <3> HIDE DEF p
    <3>3. QED
      <4>1. WalkOK(E, S, z, n, b, p, k + 1)
        BY <1>1, <1>2, <1>4, <2>3, <2>4, <2>7, <3>2, WalkPulls DEF b
      <4>2. QED
        BY <4>1 DEF p, b, j
  <2>8. QED
    BY <2>5, <2>6, <2>7
<1>5. QED
  BY <1>1, <1>3, <1>4

\* The walk from i to the table u: one step for each position but the first.
IsWalkOf(c, i, n, u, walk) ==
    /\ walk[0] = [table |-> c.table, hole |-> i, open |-> TRUE]
    /\ u = Emptied(walk[n - 1])
    /\ \A k \in 0..(n - 2) : walk[k + 1] = PulledBack(c, walk[k], Ahead(i, k + 1, n))

\* eraseIndex() makes such a walk.
LEMMA WalkLoop ==
    ASSUME NEW c, NEW s, NEW n, n = Len(c.table), n \in Nat \ {0},
           NEW i, i = ProbeEnd(c, c.table, c.entries[s].endpoint)
    PROVE  \E walk : IsWalkOf(c, i, n, eraseIndex(c, s), walk)
<1> DEFINE w0 == [table |-> c.table, hole |-> i, open |-> TRUE]
           L == n - 1
           Body(r, m) == [k \in 0..m |-> IF k = 0 THEN w0 ELSE PulledBack(c, r[k - 1], Ahead(i, k, n))]
           P == {m \in Nat : \E r : r = Body(r, m)}
           f == CHOOSE h : h = Body(h, L)
<1>0. L \in Nat
  OBVIOUS
<1>1. eraseIndex(c, s) = Emptied(f[L])
  BY DEF eraseIndex, Emptied
<1> HIDE DEF w0, L
<1>2. 0 \in P
  <2>1. [k \in 0..0 |-> w0] = Body([k \in 0..0 |-> w0], 0)
    OBVIOUS
  <2>2. QED
    BY <2>1
<1>3. \A m \in 0..(L - 1) : m \in P => m + 1 \in P
  <2> SUFFICES ASSUME NEW m \in 0..(L - 1), m \in P PROVE m + 1 \in P
    OBVIOUS
  <2> PICK r : r = Body(r, m)
    OBVIOUS
  <2> DEFINE q == [k \in 0..(m + 1) |-> IF k = m + 1 THEN PulledBack(c, r[m], Ahead(i, m + 1, n)) ELSE r[k]]
  <2>1. q = Body(q, m + 1)
    OBVIOUS
  <2>2. \E x : x = Body(x, m + 1)
    BY <2>1
  <2>3. QED
    BY <1>0, <2>2
<1>4. PICK r : r = Body(r, L)
  <2> HIDE DEF P
  <2>1. \A k \in 0..L : k \in P
    BY <1>0, <1>2, <1>3, EveryTurn
  <2>2. L \in P
    BY <1>0, <2>1
  <2>3. QED
    BY <2>2 DEF P
<1>5. f = Body(f, L)
  BY <1>4
<1> HIDE DEF f
<1>6. f[0] = w0 /\ \A k \in 0..(L - 1) : f[k + 1] = PulledBack(c, f[k], Ahead(i, k + 1, n))
  BY <1>0, <1>5
<1>7. L - 1 = n - 2
  BY DEF L
<1>8. IsWalkOf(c, i, n, eraseIndex(c, s), f)
  BY <1>1, <1>6, <1>7 DEF w0, L, IsWalkOf
<1>9. QED
  BY <1>8

\* Backward-shift deletion keeps every remaining slot in reach of its home.
LEMMA Erased ==
    ASSUME NEW c, NEW S, NEW s \in S, Distinct(c.entries, S), Indexed(c.entries, c.table, S), Room(c.table)
    PROVE  Indexed(c.entries, eraseIndex(c, s), S \ {s}) /\ Len(eraseIndex(c, s)) = Len(c.table)
<1> DEFINE E == c.entries
           t == c.table
           n == Len(t)
           i == ProbeEnd(c, t, E[s].endpoint)
           w0 == [table |-> t, hole |-> i, open |-> TRUE]
           R == S \ {s}
<1>1. PICK z \in 1..n : t[z] = NoSlot
  BY DEF Room
<1>2. t \in Seq(Nat) /\ n \in Nat \ {0}
  BY <1>1 DEF Indexed, Holds
<1>3. i \in 1..n /\ t[i] = s
  BY ProbeFinds DEF Distinct
<1>4. PICK walk :
        /\ walk[0] = w0 /\ eraseIndex(c, s) = Emptied(walk[n - 1])
        /\ \A k \in 0..(n - 2) : walk[k + 1] = PulledBack(c, walk[k], Ahead(i, k + 1, n))
  <2>1. i = ProbeEnd(c, c.table, c.entries[s].endpoint) /\ n = Len(c.table)
    OBVIOUS
  <2> HIDE DEF i, n, E
  <2>2. PICK walk : IsWalkOf(c, i, n, eraseIndex(c, s), walk)
    BY <1>2, <2>1, WalkLoop
  <2>3. QED
    BY <2>2 DEF IsWalkOf
<1> HIDE DEF i
<1>5. Distinct(E, R)
  BY DEF Distinct
<1>6. s \in Nat /\ s # NoSlot /\ i # z
  BY <1>1, <1>3 DEF Distinct, NoSlot
<1> DEFINE b == Off(i, z, n)
<1>7. b \in 1..n /\ b # n /\ b + 0 < n /\ b <= b + 0
  <2>1. /\ \A x \in 1..n : Off(x, z, n) \in 1..n /\ (Off(x, z, n) = n <=> x = z)
        /\ \A x, y \in 1..n : Off(x, z, n) = Off(y, z, n) => x = y
    BY <1>2, OffType, Zenon
  <2>2. b \in 1..n /\ b # n
    BY <1>3, <1>6, <2>1, Zenon
  <2> HIDE DEF b, n
  <2>3. QED
    BY <1>2, <2>2
<1>8. WalkOK(E, R, z, n, b, w0, 0)
  <2>1. IsWalk(w0) /\ w0.table = t /\ w0.hole = i /\ w0.open = TRUE
    BY <1>2, <1>3 DEF IsWalk
  <2> HIDE DEF w0
  <2> DEFINE v == Emptied(w0)
  <2>2. /\ v \in Seq(Nat) /\ Len(v) = n /\ v[i] = NoSlot
        /\ \A x \in 1..n : x # i => v[x] = t[x]
    BY <2>1, EmptiedIs
  <2> HIDE DEF v
  <2>3. Holds(v, R)
    <3>1. \A x, y \in 1..n : t[x] # NoSlot /\ t[x] = t[y] => x = y
      BY DEF Indexed, Holds
    <3>2. \A x \in 1..n : v[x] # NoSlot => v[x] \in R
      <4> SUFFICES ASSUME NEW x \in 1..n, v[x] # NoSlot PROVE v[x] \in R
        OBVIOUS
      <4>1. x # i /\ v[x] = t[x]
        BY <2>2
      <4>2. t[x] # s
        BY <1>3, <3>1, <4>1
      <4>3. t[x] \in S
        BY <4>1 DEF Indexed, Holds
      <4>4. QED
        BY <4>1, <4>2, <4>3
    <3>3. ASSUME NEW r \in R PROVE \E x \in 1..n : v[x] = r
      <4>1. PICK x \in 1..n : t[x] = r
        BY DEF Indexed, Holds
      <4>2. QED
        BY <1>3, <2>2, <4>1
    <3>4. \A x, y \in 1..n : v[x] # NoSlot /\ v[x] = v[y] => x = y
      BY <2>2, <3>1
    <3>5. QED
      BY <2>2, <3>2, <3>3, <3>4 DEF Holds
  <2>4. ASSUME NEW x \in 1..n, v[x] # NoSlot PROVE InLine(E, v, z, x, i, b + 0)
    <3>1. x # i /\ v[x] = t[x] /\ HomeAt(E, v, x) = HomeAt(E, t, x)
      BY <2>2, <2>4 DEF HomeAt
    <3>2. InLine(E, t, z, x, i, b + 0)
      <4>1. Reached(E, t, x)
        BY <2>4, <3>1 DEF Indexed
      <4>2. QED
        BY <1>1, <2>4, <3>1, <4>1, ReachedInLine DEF Indexed
    <3>3. Off(x, z, n) \in 1..n /\ Off(x, z, n) # b
      <4>1. /\ \A y \in 1..n : Off(y, z, n) \in 1..n
            /\ \A y, a \in 1..n : Off(y, z, n) = Off(a, z, n) => y = a
        BY <1>2, OffType, Zenon
      <4>2. QED
        BY <1>3, <3>1, <4>1, Zenon
    <3>4. b <= Off(x, z, n) => Off(x, z, n) > b + 0
      <4> HIDE DEF b
      <4>1. QED
        BY <1>7, <3>3
    <3> DEFINE h == HomeAt(E, t, x)
    <3>5. /\ Off(h, z, n) <= Off(x, z, n)
          /\ \A y \in 1..n : Off(h, z, n) <= Off(y, z, n) /\ Off(y, z, n) <= Off(x, z, n) => t[y] # NoSlot \/ y = i
      BY <3>2 DEF InLine
    <3> HIDE DEF h
    <3>6. \A y \in 1..n : Off(h, z, n) <= Off(y, z, n) /\ Off(y, z, n) <= Off(x, z, n) =>
                            v[y] # NoSlot \/ (y = i /\ Off(x, z, n) > b + 0)
      BY <2>2, <3>4, <3>5
    <3>7. QED
      BY <2>2, <3>1, <3>5, <3>6 DEF InLine, h
  <2>5. QED
    BY <1>1, <1>6, <1>7, <2>1, <2>3, <2>4 DEF WalkOK, v
<1> HIDE DEF w0, b
<1> DEFINE P == {k \in Nat : WalkOK(E, R, z, n, b, walk[k], k)}
<1>9. 0 \in P
  BY <1>4, <1>8
<1>10. \A k \in 0..((n - 1) - 1) : k \in P => k + 1 \in P
  <2> SUFFICES ASSUME NEW k \in 0..((n - 1) - 1), k \in P PROVE k + 1 \in P
    OBVIOUS
  <2>1. k \in 0..(n - 2)
    BY <1>2
  <2>2. WalkOK(E, R, z, n, b, walk[k + 1], k + 1)
    <3>1. WalkOK(E, R, z, n, b, walk[k], k)
      OBVIOUS
    <3>2. WalkOK(E, R, z, n, b, PulledBack(c, walk[k], Ahead(i, k + 1, n)), k + 1)
      <4> HIDE DEF E, R, n, P
      <4>1. QED
        BY <1>2, <1>3, <1>5, <2>1, <3>1, WalkStep DEF b, E, R, n
    <3>3. QED
      BY <1>4, <2>1, <3>2
  <2>3. QED
    BY <2>1, <2>2
<1>11. n - 1 \in P
  <2>1. n - 1 \in Nat
    BY <1>2
  <2> HIDE DEF P, n
  <2>2. \A k \in 0..(n - 1) : k \in P
    BY <1>9, <1>10, <2>1, EveryTurn
  <2>3. QED
    BY <2>1, <2>2
<1> DEFINE w == walk[n - 1]
           v == Emptied(w)
<1>12. WalkOK(E, R, z, n, b, w, n - 1)
  BY <1>11
<1>13. eraseIndex(c, s) = v
  BY <1>4
<1> HIDE DEF w, v
<1>14. IsWalk(w) /\ Len(w.table) = n /\ Holds(v, R)
  BY <1>12 DEF WalkOK, v
<1>15. ~w.open
  <2>1. ~(b + (n - 1) < n)
    BY <1>2, <1>7
  <2>2. QED
    BY <1>12, <2>1 DEF WalkOK
<1>16. Len(v) = n /\ v[z] = NoSlot
  BY <1>12, <1>14, EmptiedIs DEF WalkOK, v
<1>17. ASSUME NEW x \in 1..n, v[x] # NoSlot PROVE Reached(E, v, x)
  <2>1. InLine(E, v, z, x, w.hole, Len(v))
    BY <1>12, <1>15, <1>16, <1>17 DEF WalkOK, v
  <2>2. QED
    BY <1>5, <1>14, <1>16, <1>17, <2>1, ReachedInLine
<1>18. QED
  BY <1>13, <1>14, <1>16, <1>17 DEF Indexed

-----------------------------------------------------------------------------
(* The catalogue                                                           *)

\* A catalogue entry.
Entry ==
    [endpoint : Endpoints, generation : 1..MaxNodes, inUse : BOOLEAN,
     state : EntryStates, failures : 0..FailuresToGiveUp,
     answered : BOOLEAN, tested : SUBSET Checks, tries : 0..(FeatureTries - 1),
     featureQueued : BOOLEAN]

\* The members of a catalogue.
IsCat(c) ==
    /\ DOMAIN c = {"entries", "free", "table", "size", "cap", "counts", "nextGeneration"}
    /\ c = [x \in DOMAIN c |-> c[x]]

\* Entries, each of a generation handed out.
EntriesOK(c) ==
    /\ c.entries \in Seq(Entry) /\ c.cap \in Nat /\ c.nextGeneration \in 1..(MaxNodes + 1)
    /\ \A s \in Slots(c) : c.entries[s].generation < c.nextGeneration

\* The nodes of a state.
InState(c, st) == {s \in InUse(c) : c.entries[s].state = st}

\* The counts and the slots given back.
CountsOK(c) ==
    /\ c.free \in Seq(Nat) /\ c.counts = [st \in EntryStates |-> c.counts[st]]
    /\ CountsAgree(c)

\* The index, at most half full.
IndexOK(c) ==
    /\ Distinct(c.entries, InUse(c)) /\ Indexed(c.entries, c.table, InUse(c))
    /\ 2 * c.size <= Len(c.table)

\* A sound catalogue.
CatOK(c) == IsCat(c) /\ EntriesOK(c) /\ CountsOK(c) /\ IndexOK(c)

\* The limits are positive numbers.
LEMMA Limits ==
    /\ FailuresToGiveUp \in Nat \ {0} /\ FeatureTries \in Nat \ {0} /\ MinBatch \in Nat \ {0}
    /\ MaxBatch \in Nat \ {0} /\ TrimPerTick \in Nat \ {0} /\ MaxNodes \in Nat /\ MaxListed \in Nat
    /\ InitialTableSize \in Nat \ {0, 1} /\ Checks \subseteq Nat \ {0}
  BY CrawlerAssumption, CatalogAssumption

\* The slots in use are finitely many.
LEMMA UsedFinite ==
    ASSUME NEW c, c.entries \in Seq(Entry)
    PROVE  /\ IsFiniteSet(InUse(c)) /\ Cardinality(InUse(c)) \in Nat
           /\ Slots(c) = 1..Len(c.entries) /\ Len(c.entries) \in Nat
           /\ \A s \in Slots(c) : c.entries[s] \in Entry /\ s \in Nat \ {0}
           /\ \A st : IsFiniteSet(InState(c, st)) /\ Cardinality(InState(c, st)) \in Nat
<1>1. /\ Slots(c) = 1..Len(c.entries) /\ Len(c.entries) \in Nat
      /\ \A s \in Slots(c) : c.entries[s] \in Entry /\ s \in Nat \ {0}
  BY DEF Slots
<1>2. IsFiniteSet(1..Len(c.entries))
  BY <1>1, FS_Interval
<1>3. InUse(c) \subseteq 1..Len(c.entries) /\ \A st : InState(c, st) \subseteq InUse(c)
  BY <1>1 DEF InUse, InState
<1>4. IsFiniteSet(InUse(c))
  BY <1>2, <1>3, FS_Subset
<1>5. \A st : IsFiniteSet(InState(c, st))
  BY <1>3, <1>4, FS_Subset
<1>6. QED
  BY <1>1, <1>4, <1>5, FS_CardinalityType

\* The index depends on the endpoints alone.
LEMMA IndexedSame ==
    ASSUME NEW E, NEW F, NEW t, NEW S, Indexed(E, t, S), Distinct(E, S),
           \A s \in S : F[s].endpoint = E[s].endpoint
    PROVE  Indexed(F, t, S) /\ Distinct(F, S)
<1>1. Distinct(F, S)
  BY DEF Distinct
<1>2. ASSUME NEW i \in 1..Len(t), t[i] # NoSlot PROVE Reached(F, t, i)
  <2>1. HomeAt(F, t, i) = HomeAt(E, t, i)
    BY <1>2 DEF HomeAt, Indexed, Holds
  <2>2. Reached(E, t, i)
    BY <1>2 DEF Indexed
  <2>3. QED
    BY <2>1, <2>2 DEF Reached
<1>3. QED
  BY <1>1, <1>2 DEF Indexed

\* A table that is at most half full has room, unless it is empty.
LEMMA CatHasRoom ==
    ASSUME NEW c, CatOK(c), c.table # <<>>
    PROVE  Room(c.table)
<1>1. IsFiniteSet(InUse(c)) /\ Cardinality(InUse(c)) \in Nat
  BY UsedFinite DEF CatOK, EntriesOK
<1>2. c.size = Cardinality(InUse(c)) /\ 2 * c.size <= Len(c.table) /\ Holds(c.table, InUse(c))
  BY DEF CatOK, CountsOK, CountsAgree, IndexOK, Indexed
<1>3. Len(c.table) \in Nat \ {0}
  <2>1. c.table \in Seq(Nat)
    BY <1>2 DEF Holds
  <2>2. QED
    BY <2>1
<1>4. Cardinality(InUse(c)) < Len(c.table)
  BY <1>1, <1>2, <1>3
<1>5. QED
  BY <1>1, <1>2, <1>4, HasRoom

\* An empty table indexes nothing.
LEMMA EmptyTable ==
    ASSUME NEW c, CatOK(c), c.table = <<>>
    PROVE  InUse(c) = {}
  BY DEF CatOK, IndexOK, Indexed, Holds

\* find() finds exactly what is stored.
LEMMA FindIs ==
    ASSUME NEW c, CatOK(c), NEW e \in Endpoints
    PROVE  /\ \A s \in InUse(c) : c.entries[s].endpoint = e => find(c, e) = s
           /\ (\A s \in InUse(c) : c.entries[s].endpoint # e) => find(c, e) = NoSlot
<1>1. CASE c.table = <<>>
  BY <1>1, EmptyTable DEF find
<1>2. CASE c.table # <<>>
  <2>1. Room(c.table) /\ find(c, e) = c.table[ProbeEnd(c, c.table, e)]
    BY <1>2, CatHasRoom DEF find
  <2>2. QED
    BY <2>1, ProbeFinds DEF CatOK, IndexOK
<1>3. QED
  BY <1>1, <1>2

\* So the index is exact.
LEMMA FoundExactly ==
    ASSUME NEW c, CatOK(c)
    PROVE  FindsExactly(c)
<1> SUFFICES ASSUME NEW e \in Endpoints
             PROVE  LET holders == {s \in InUse(c) : c.entries[s].endpoint = e}
                    IN IF holders = {} THEN find(c, e) = NoSlot ELSE holders = {find(c, e)}
  BY DEF FindsExactly
<1> DEFINE holders == {s \in InUse(c) : c.entries[s].endpoint = e}
<1>1. CASE holders = {}
  BY <1>1, FindIs
<1>2. CASE holders # {}
  <2>1. PICK s \in holders : TRUE
    BY <1>2
  <2>2. find(c, e) = s
    BY <2>1, FindIs
  <2>3. holders = {s}
    BY <2>1 DEF CatOK, IndexOK, Distinct
  <2>4. QED
    BY <1>2, <2>2, <2>3
<1>3. QED
  BY <1>1, <1>2

-----------------------------------------------------------------------------
(* The index grows                                                         *)

\* The size the index grows to.
GrownTo(c) == IF c.table = <<>> THEN InitialTableSize ELSE 2 * Len(c.table)

\* The tables built from an empty one, up to u: one slot after the other.
IsGrowth(c, u, built) ==
    /\ built[0] = [i \in 1..GrownTo(c) |-> NoSlot]
    /\ u = built[Len(c.entries)]
    /\ \A s \in 0..(Len(c.entries) - 1) :
          built[s + 1] = IF c.entries[s + 1].inUse THEN insertIndex(c, built[s], s + 1) ELSE built[s]

\* growTable() builds such tables.
LEMMA GrowLoop ==
    ASSUME NEW c, Len(c.entries) \in Nat
    PROVE  \E u, built : growTable(c) = [c EXCEPT !.table = u] /\ IsGrowth(c, u, built)
<1> DEFINE w0 == [i \in 1..GrownTo(c) |-> NoSlot]
           L == Len(c.entries)
           step(t, s) == IF c.entries[s].inUse THEN insertIndex(c, t, s) ELSE t
           Body(r, m) == [s \in 0..m |-> IF s = 0 THEN w0 ELSE step(r[s - 1], s)]
           P == {m \in Nat : \E r : r = Body(r, m)}
           f == CHOOSE h : h = Body(h, L)
<1>1. growTable(c) = [c EXCEPT !.table = f[L]]
  BY DEF growTable, GrownTo
<1> HIDE DEF w0, L, step
<1>0. L \in Nat
  BY DEF L
<1>2. 0 \in P
  <2>1. [k \in 0..0 |-> w0] = Body([k \in 0..0 |-> w0], 0)
    OBVIOUS
  <2>2. QED
    BY <2>1
<1>3. \A m \in 0..(L - 1) : m \in P => m + 1 \in P
  <2> SUFFICES ASSUME NEW m \in 0..(L - 1), m \in P PROVE m + 1 \in P
    OBVIOUS
  <2> PICK r : r = Body(r, m)
    OBVIOUS
  <2> DEFINE q == [k \in 0..(m + 1) |-> IF k = m + 1 THEN step(r[m], m + 1) ELSE r[k]]
  <2>1. q = Body(q, m + 1)
    OBVIOUS
  <2>2. \E x : x = Body(x, m + 1)
    BY <2>1
  <2>3. QED
    BY <1>0, <2>2
<1>4. PICK r : r = Body(r, L)
  <2> HIDE DEF P
  <2>1. \A k \in 0..L : k \in P
    BY <1>0, <1>2, <1>3, EveryTurn
  <2>2. L \in P
    BY <1>0, <2>1
  <2>3. QED
    BY <2>2 DEF P
<1>5. f = Body(f, L)
  BY <1>4
<1> HIDE DEF f
<1>6. f[0] = w0 /\ \A s \in 0..(L - 1) : f[s + 1] = step(f[s], s + 1)
  BY <1>0, <1>5
<1>7. IsGrowth(c, f[L], f)
  BY <1>6 DEF IsGrowth, w0, L, step
<1>8. QED
  BY <1>1, <1>7

\* An empty table has room and indexes nothing.
LEMMA BlankTable ==
    ASSUME NEW E, NEW n \in Nat \ {0}
    PROVE  Indexed(E, [i \in 1..n |-> NoSlot], {}) /\ Len([i \in 1..n |-> NoSlot]) = n
<1> DEFINE t == [i \in 1..n |-> NoSlot]
<1>1. t \in Seq(Nat) /\ Len(t) = n /\ \A i \in 1..n : t[i] = NoSlot
  BY DEF NoSlot
<1> HIDE DEF t
<1>2. Indexed(E, t, {})
  BY <1>1 DEF Indexed, Holds
<1>3. QED
  BY <1>1, <1>2 DEF t

\* The grown index has the slots it had, and is a quarter full at most, or new.
LEMMA Grown ==
    ASSUME NEW c, CatOK(c)
    PROVE  \E u : /\ growTable(c) = [c EXCEPT !.table = u]
                  /\ Indexed(c.entries, u, InUse(c)) /\ Len(u) = GrownTo(c)
<1> DEFINE E == c.entries
           L == Len(E)
           n == GrownTo(c)
           Upto(k) == {s \in InUse(c) : s <= k}
<1>1. /\ E \in Seq(Entry) /\ L \in Nat /\ InUse(c) \subseteq 1..L
      /\ IsFiniteSet(InUse(c)) /\ Cardinality(InUse(c)) \in Nat
  BY UsedFinite DEF CatOK, EntriesOK, InUse, Slots
<1>2. PICK u, built : growTable(c) = [c EXCEPT !.table = u] /\ IsGrowth(c, u, built)
  BY <1>1, GrowLoop
<1>3. n \in Nat \ {0} /\ Cardinality(InUse(c)) < n
  <2>1. c.table \in Seq(Nat) /\ Cardinality(InUse(c)) * 2 <= Len(c.table)
    BY <1>1 DEF CatOK, IndexOK, Indexed, Holds, CountsOK, CountsAgree
  <2>2. CASE c.table = <<>>
    BY <1>1, <2>1, <2>2, Limits DEF GrownTo
  <2>3. CASE c.table # <<>>
    <3>1. Len(c.table) \in Nat \ {0}
      BY <2>1, <2>3
    <3>2. n = 2 * Len(c.table)
      BY <2>3 DEF GrownTo
    <3> HIDE DEF n
    <3>3. QED
      BY <1>1, <2>1, <3>1, <3>2
  <2>4. QED
    BY <2>2, <2>3
<1>4. Distinct(E, InUse(c))
  BY DEF CatOK, IndexOK
<1> HIDE DEF n
<1> DEFINE P == {k \in Nat : Indexed(E, built[k], Upto(k)) /\ Len(built[k]) = n}
<1>5. 0 \in P
  <2>1. Upto(0) = {}
    BY <1>1
  <2>2. built[0] = [i \in 1..n |-> NoSlot]
    BY <1>2 DEF IsGrowth, n
  <2>3. QED
    BY <1>3, <2>1, <2>2, BlankTable
<1>6. \A k \in 0..(L - 1) : k \in P => k + 1 \in P
  <2> SUFFICES ASSUME NEW k \in 0..(L - 1), k \in P PROVE k + 1 \in P
    OBVIOUS
  <2>1. k \in Nat /\ k + 1 \in Nat /\ k + 1 \in Slots(c)
    BY <1>1, UsedFinite DEF CatOK, EntriesOK
  <2>2. built[k + 1] = IF E[k + 1].inUse THEN insertIndex(c, built[k], k + 1) ELSE built[k]
    BY <1>2 DEF IsGrowth
  <2>3. Indexed(E, built[k], Upto(k)) /\ Len(built[k]) = n
    OBVIOUS
  <2>4. CASE ~E[k + 1].inUse
    <3>1. Upto(k + 1) = Upto(k)
      BY <1>1, <2>1, <2>4 DEF InUse
    <3>2. QED
      BY <2>1, <2>2, <2>3, <2>4, <3>1
  <2>5. CASE E[k + 1].inUse
    <3>1. Upto(k + 1) = Upto(k) \cup {k + 1} /\ k + 1 \notin Upto(k)
      BY <1>1, <2>1, <2>5 DEF InUse
    <3>2. Upto(k + 1) \subseteq InUse(c) /\ Upto(k) \subseteq InUse(c)
      OBVIOUS
    <3>3. Distinct(E, Upto(k) \cup {k + 1})
      <4>1. Distinct(E, Upto(k + 1))
        BY <1>4, <3>2 DEF Distinct
      <4>2. QED
        BY <3>1, <4>1
    <3>4. IsFiniteSet(Upto(k)) /\ Cardinality(Upto(k)) <= Cardinality(InUse(c))
      <4> HIDE DEF Upto
      <4>1. QED
        BY <1>1, <3>2, FS_Subset
    <3>5. Room(built[k])
      <4>1. Cardinality(Upto(k)) \in Nat
        BY <3>4, FS_CardinalityType
      <4>2. Cardinality(Upto(k)) < Len(built[k])
        BY <1>1, <1>3, <2>3, <3>4, <4>1
      <4>3. Holds(built[k], Upto(k))
        BY <2>3 DEF Indexed
      <4> HIDE DEF Upto
      <4>4. QED
        BY <3>4, <4>2, <4>3, HasRoom
    <3> HIDE DEF Upto, P
    <3>6. /\ Indexed(E, insertIndex(c, built[k], k + 1), Upto(k) \cup {k + 1})
          /\ Len(insertIndex(c, built[k], k + 1)) = Len(built[k])
      <4> DEFINE r == k + 1
      <4>1. Insertable(c, built[k], Upto(k), r, Upto(r))
        BY <2>3, <3>1, <3>3, <3>5 DEF Insertable
      <4> HIDE DEF r
      <4>2. /\ Indexed(c.entries, insertIndex(c, built[k], r), Upto(r))
            /\ Len(insertIndex(c, built[k], r)) = Len(built[k])
        BY <4>1, Inserted
      <4>3. QED
        BY <3>1, <4>2 DEF r
    <3>7. Indexed(E, built[k + 1], Upto(k + 1)) /\ Len(built[k + 1]) = n
      BY <2>2, <2>3, <2>5, <3>1, <3>6
    <3>8. QED
      BY <2>1, <3>7 DEF P
  <2>6. QED
    BY <2>4, <2>5
<1>7. L \in P
  <2> HIDE DEF P, L
  <2>1. \A k \in 0..L : k \in P
    BY <1>1, <1>5, <1>6, EveryTurn
  <2>2. QED
    BY <1>1, <2>1
<1>8. Upto(L) = InUse(c) /\ u = built[L]
  BY <1>1, <1>2 DEF IsGrowth
<1>9. QED
  BY <1>2, <1>7, <1>8 DEF n

-----------------------------------------------------------------------------
(* One entry changes                                                       *)

\* 1 for what is so, 0 for what is not.
One(b) == IF b THEN 1 ELSE 0

\* Sets that differ in s alone differ in size by it.
LEMMA Recounted ==
    ASSUME NEW S, NEW T, NEW s, IsFiniteSet(S), T \ {s} = S \ {s}
    PROVE  /\ IsFiniteSet(T) /\ Cardinality(T) \in Nat /\ Cardinality(S) \in Nat
           /\ Cardinality(T) = Cardinality(S) - One(s \in S) + One(s \in T)
<1> DEFINE R == S \ {s}
<1>1. IsFiniteSet(R) /\ Cardinality(R) = IF s \in S THEN Cardinality(S) - 1 ELSE Cardinality(S)
  BY FS_RemoveElement
<1>2. s \notin R
  OBVIOUS
<1>3. T = IF s \in T THEN R \cup {s} ELSE R
  OBVIOUS
<1> HIDE DEF R
<1>4. IsFiniteSet(R \cup {s}) /\ Cardinality(R \cup {s}) = Cardinality(R) + 1
  BY <1>1, <1>2, FS_AddElement
<1>5. Cardinality(S) \in Nat /\ Cardinality(R) \in Nat
  BY <1>1, FS_CardinalityType
<1>6. CASE s \in T
  <2>1. T = R \cup {s}
    BY <1>3, <1>6
  <2>2. IsFiniteSet(T) /\ Cardinality(T) = Cardinality(R) + 1
    BY <1>4, <2>1
  <2>3. QED
    BY <1>1, <1>5, <1>6, <2>2 DEF One
<1>7. CASE s \notin T
  <2>1. T = R
    BY <1>3, <1>7
  <2>2. QED
    BY <1>1, <1>5, <1>7, <2>1 DEF One
<1>8. QED
  BY <1>6, <1>7

\* Catalogues that differ in the entry of slot s.
Alike(c, d, s) ==
    /\ c.entries \in Seq(Entry) /\ d.entries \in Seq(Entry)
    /\ InUse(d) \ {s} = InUse(c) \ {s}
    /\ \A r \in InUse(c) \ {s} : d.entries[r] = c.entries[r]

\* What d counts is what c counts, less the entry of s and with it.
Adjusted(c, d, s) ==
    /\ d.size = c.size - One(s \in InUse(c)) + One(s \in InUse(d))
    /\ \A st \in EntryStates : d.counts[st] = c.counts[st] - One(s \in InState(c, st)) + One(s \in InState(d, st))

\* Then d counts right as well.
LEMMA CountsFollow ==
    ASSUME NEW c, NEW d, NEW s, Alike(c, d, s), Adjusted(c, d, s), CountsAgree(c)
    PROVE  /\ d.size = Cardinality(InUse(d))
           /\ \A st \in EntryStates : d.counts[st] = Cardinality({r \in InUse(d) : d.entries[r].state = st})
<1>1. /\ IsFiniteSet(InUse(c)) /\ \A st : IsFiniteSet(InState(c, st))
  BY UsedFinite DEF Alike
<1>2. /\ c.size = Cardinality(InUse(c))
      /\ \A st \in EntryStates : c.counts[st] = Cardinality(InState(c, st))
  BY DEF CountsAgree, InState
<1>3. InUse(d) \ {s} = InUse(c) \ {s}
  BY DEF Alike
<1>4. Cardinality(InUse(d)) = Cardinality(InUse(c)) - One(s \in InUse(c)) + One(s \in InUse(d))
  BY <1>1, <1>3, Recounted
<1>5. ASSUME NEW st \in EntryStates PROVE d.counts[st] = Cardinality(InState(d, st))
  <2>1. InState(d, st) \ {s} = InState(c, st) \ {s}
    BY <1>3 DEF InState, Alike
  <2>2. Cardinality(InState(d, st)) = Cardinality(InState(c, st)) - One(s \in InState(c, st)) + One(s \in InState(d, st))
    BY <1>1, <2>1, Recounted
  <2>3. QED
    BY <1>2, <2>2 DEF Adjusted
<1>6. QED
  BY <1>2, <1>4, <1>5 DEF Adjusted, InState

\* What eviction leaves: entries unchanged, and fewer of them.
Kept(c, d) ==
    /\ d.cap = c.cap /\ d.nextGeneration = c.nextGeneration /\ Len(d.entries) = Len(c.entries)
    /\ InUse(d) \subseteq InUse(c) /\ \A s \in InUse(d) : d.entries[s] = c.entries[s]

\* The members after release().
IsRelease(c, d, s) ==
    /\ IsCat(d) /\ d.cap = c.cap /\ d.nextGeneration = c.nextGeneration
    /\ d.size = c.size - 1 /\ d.free = Append(c.free, s) /\ d.table = eraseIndex(c, s)
    /\ d.entries \in Seq(Entry) /\ Len(d.entries) = Len(c.entries)
    /\ \A r \in Slots(c) : r # s => d.entries[r] = c.entries[r]
    /\ d.entries[s].generation = c.entries[s].generation /\ ~d.entries[s].inUse
    /\ d.counts = [st \in EntryStates |-> d.counts[st]]
    /\ \A st \in EntryStates : d.counts[st] = IF st = c.entries[s].state THEN c.counts[st] - 1 ELSE c.counts[st]

\* release() as its members.
LEMMA ReleaseIs ==
    ASSUME NEW c, CatOK(c), NEW s \in InUse(c)
    PROVE  IsRelease(c, release(c, s), s)
<1> DEFINE d == release(c, s)
           n == [c.entries[s] EXCEPT !.inUse = FALSE]
<1>1. IsCat(c) /\ c.entries \in Seq(Entry) /\ c.counts = [st \in EntryStates |-> c.counts[st]]
  BY DEF CatOK, EntriesOK, CountsOK
<1>2. /\ IsCat(d) /\ d.cap = c.cap /\ d.nextGeneration = c.nextGeneration
      /\ d.size = c.size - 1 /\ d.free = Append(c.free, s) /\ d.table = eraseIndex(c, s)
      /\ d.entries = [c.entries EXCEPT ![s] = n]
      /\ d.counts = [c.counts EXCEPT ![c.entries[s].state] = @ - 1]
  BY <1>1 DEF release, IsCat
<1>3. s \in 1..Len(c.entries) /\ c.entries[s] \in Entry /\ Slots(c) = 1..Len(c.entries)
  BY <1>1, UsedFinite DEF InUse
<1>4. n \in Entry /\ n.generation = c.entries[s].generation /\ ~n.inUse
  BY <1>3 DEF Entry
<1>5. c.entries[s].state \in EntryStates
  BY <1>3 DEF Entry
<1> HIDE DEF d, n
<1>6. /\ d.entries \in Seq(Entry) /\ Len(d.entries) = Len(c.entries) /\ d.entries[s] = n
      /\ \A r \in Slots(c) : r # s => d.entries[r] = c.entries[r]
  BY <1>1, <1>2, <1>3, <1>4
<1>7. /\ d.counts = [st \in EntryStates |-> d.counts[st]]
      /\ \A st \in EntryStates : d.counts[st] = IF st = c.entries[s].state THEN c.counts[st] - 1 ELSE c.counts[st]
  BY <1>1, <1>2, <1>5
<1>8. QED
  BY <1>2, <1>4, <1>6, <1>7 DEF IsRelease, d

\* An eviction leaves a sound catalogue.
LEMMA Released ==
    ASSUME NEW c, CatOK(c), NEW s \in InUse(c)
    PROVE  CatOK(release(c, s)) /\ Kept(c, release(c, s)) /\ InUse(release(c, s)) = InUse(c) \ {s}
<1> DEFINE d == release(c, s)
<1>1. IsRelease(c, d, s)
  BY ReleaseIs
<1> HIDE DEF d
<1>2. /\ IsCat(c) /\ c.entries \in Seq(Entry) /\ c.cap \in Nat /\ c.nextGeneration \in 1..(MaxNodes + 1)
      /\ \A r \in Slots(c) : c.entries[r].generation < c.nextGeneration
      /\ c.free \in Seq(Nat) /\ CountsAgree(c) /\ IndexOK(c)
  BY DEF CatOK, EntriesOK, CountsOK
<1>3. /\ Slots(c) = 1..Len(c.entries) /\ Len(c.entries) \in Nat /\ Slots(d) = Slots(c) /\ s \in Slots(c) /\ s \in Nat
      /\ IsFiniteSet(InUse(c)) /\ Cardinality(InUse(c)) \in Nat
      /\ \A r \in Slots(c) : c.entries[r] \in Entry
  <2>1. /\ Slots(c) = 1..Len(c.entries) /\ Len(c.entries) \in Nat
        /\ IsFiniteSet(InUse(c)) /\ Cardinality(InUse(c)) \in Nat
        /\ \A r \in Slots(c) : c.entries[r] \in Entry
    BY <1>2, UsedFinite
  <2>2. Slots(d) = 1..Len(d.entries) /\ Len(d.entries) = Len(c.entries)
    BY <1>1, UsedFinite DEF IsRelease
  <2>3. s \in Slots(c)
    BY DEF InUse
  <2>4. QED
    BY <2>1, <2>2, <2>3
<1>4. InUse(d) = InUse(c) \ {s}
  BY <1>1, <1>3 DEF IsRelease, InUse
<1>5. \A r \in InUse(d) : d.entries[r] = c.entries[r]
  BY <1>1, <1>3, <1>4 DEF IsRelease, InUse
<1>6. EntriesOK(d)
  <2>1. \A r \in Slots(d) : d.entries[r].generation < d.nextGeneration
    BY <1>1, <1>2, <1>3 DEF IsRelease
  <2>2. QED
    BY <1>1, <1>2, <2>1 DEF EntriesOK, IsRelease
<1>7. CountsOK(d)
  <2>1. Alike(c, d, s)
    BY <1>1, <1>2, <1>4, <1>5 DEF Alike, IsRelease
  <2>2. Adjusted(c, d, s)
    <3>1. s \in InUse(c) /\ s \notin InUse(d) /\ c.size \in Nat /\ d.size = c.size - 1
      BY <1>1, <1>2, <1>3, <1>4 DEF IsRelease, CountsAgree
    <3>2. ASSUME NEW st \in EntryStates
          PROVE  d.counts[st] = c.counts[st] - One(s \in InState(c, st)) + One(s \in InState(d, st))
      <4>1. /\ s \in InState(c, st) <=> c.entries[s].state = st
            /\ s \notin InState(d, st)
        BY <1>4 DEF InState
      <4>2. c.counts[st] \in Nat
        <5>1. Cardinality(InState(c, st)) \in Nat
          BY <1>2, UsedFinite
        <5>2. QED
          BY <1>2, <5>1 DEF CountsAgree, InState
      <4>3. d.counts[st] = IF st = c.entries[s].state THEN c.counts[st] - 1 ELSE c.counts[st]
        BY <1>1 DEF IsRelease
      <4>4. QED
        BY <4>1, <4>2, <4>3 DEF One
    <3>3. QED
      BY <3>1, <3>2 DEF Adjusted, One
  <2>3. /\ d.size = Cardinality(InUse(d))
        /\ \A st \in EntryStates : d.counts[st] = Cardinality({r \in InUse(d) : d.entries[r].state = st})
    BY <1>2, <2>1, <2>2, CountsFollow
  <2>4. ToSet(c.free) = Slots(c) \ InUse(c) /\ IsInjective(c.free) /\ d.free = Append(c.free, s)
    BY <1>1, <1>2 DEF CountsAgree, IsRelease
  <2>5. /\ d.free \in Seq(Nat) /\ Len(d.free) = Len(c.free) + 1 /\ d.free[Len(c.free) + 1] = s
        /\ \A i \in 1..Len(c.free) : d.free[i] = c.free[i]
        /\ DOMAIN c.free = 1..Len(c.free) /\ DOMAIN d.free = 1..(Len(c.free) + 1) /\ Len(c.free) \in Nat
    BY <1>2, <1>3, <2>4
  <2>6. \A i \in 1..Len(c.free) : c.free[i] # s
    BY <2>4, <2>5 DEF ToSet
  <2>7. IsInjective(d.free)
    BY <2>4, <2>5, <2>6 DEF IsInjective
  <2>8. ToSet(d.free) = ToSet(c.free) \cup {s}
    <3>1. \A i \in 1..(Len(c.free) + 1) : i \in 1..Len(c.free) \/ i = Len(c.free) + 1
      BY <2>5
    <3>2. Len(c.free) + 1 \in 1..(Len(c.free) + 1) /\ \A i \in 1..Len(c.free) : i \in 1..(Len(c.free) + 1)
      BY <2>5
    <3>3. QED
      BY <2>5, <3>1, <3>2, Zenon DEF ToSet
  <2>9. ToSet(d.free) = Slots(d) \ InUse(d)
    BY <1>3, <1>4, <2>4, <2>8
  <2>10. QED
    BY <1>1, <2>3, <2>5, <2>7, <2>9 DEF CountsOK, CountsAgree, IsRelease
<1>8. IndexOK(d)
  <2>1. Distinct(c.entries, InUse(c)) /\ Indexed(c.entries, c.table, InUse(c)) /\ 2 * c.size <= Len(c.table)
    BY <1>2 DEF IndexOK
  <2>2. Room(c.table)
    BY CatHasRoom, EmptyTable
  <2>3. Indexed(c.entries, eraseIndex(c, s), InUse(c) \ {s}) /\ Len(eraseIndex(c, s)) = Len(c.table)
    BY <2>1, <2>2, Erased
  <2>4. Distinct(c.entries, InUse(d)) /\ Indexed(c.entries, d.table, InUse(d)) /\ Len(d.table) = Len(c.table)
    BY <1>1, <1>4, <2>1, <2>3 DEF IsRelease, Distinct
  <2>5. Indexed(d.entries, d.table, InUse(d)) /\ Distinct(d.entries, InUse(d))
    BY <1>5, <2>4, IndexedSame
  <2>6. 2 * d.size <= Len(d.table)
    <3>1. c.size \in Nat /\ Len(c.table) \in Nat /\ d.size = c.size - 1
      BY <1>1, <1>2, <1>3, <2>1 DEF CountsAgree, IsRelease, Indexed, Holds
    <3>2. QED
      BY <2>1, <2>4, <3>1
  <2>7. QED
    BY <2>5, <2>6 DEF IndexOK
<1>9. CatOK(d)
  BY <1>1, <1>6, <1>7, <1>8 DEF CatOK, IsRelease
<1>10. Kept(c, d)
  BY <1>1, <1>4, <1>5 DEF Kept, IsRelease
<1>11. QED
  BY <1>4, <1>9, <1>10 DEF d

\* The members after the entry of s is written anew.
IsRewrite(c, d, s) ==
    /\ IsCat(d) /\ d.cap = c.cap /\ d.nextGeneration = c.nextGeneration
    /\ d.size = c.size /\ d.free = c.free /\ d.table = c.table
    /\ d.entries \in Seq(Entry) /\ Len(d.entries) = Len(c.entries)
    /\ \A r \in Slots(c) : r # s => d.entries[r] = c.entries[r]
    /\ d.entries[s].generation = c.entries[s].generation /\ d.entries[s].endpoint = c.entries[s].endpoint
    /\ d.entries[s].inUse
    /\ d.counts = [st \in EntryStates |-> d.counts[st]]
    /\ \A st \in EntryStates :
          d.counts[st] = c.counts[st] - One(c.entries[s].state = st) + One(d.entries[s].state = st)

\* A node rewritten, its endpoint and generation kept, leaves a sound catalogue.
LEMMA Rewritten ==
    ASSUME NEW c, NEW d, CatOK(c), NEW s \in InUse(c), IsRewrite(c, d, s)
    PROVE  CatOK(d) /\ InUse(d) = InUse(c) /\ Slots(d) = Slots(c)
<1>2. /\ IsCat(c) /\ c.entries \in Seq(Entry) /\ c.cap \in Nat /\ c.nextGeneration \in 1..(MaxNodes + 1)
      /\ \A r \in Slots(c) : c.entries[r].generation < c.nextGeneration
      /\ c.free \in Seq(Nat) /\ CountsAgree(c) /\ IndexOK(c)
  BY DEF CatOK, EntriesOK, CountsOK
<1>3. /\ Slots(c) = 1..Len(c.entries) /\ Slots(d) = Slots(c) /\ s \in Slots(c)
  <2>1. Slots(c) = 1..Len(c.entries) /\ Slots(d) = 1..Len(d.entries) /\ Len(d.entries) = Len(c.entries)
    BY <1>2, UsedFinite DEF IsRewrite
  <2>2. s \in Slots(c)
    BY DEF InUse
  <2>3. QED
    BY <2>1, <2>2
<1>4. InUse(d) = InUse(c)
  BY <1>3 DEF IsRewrite, InUse
<1>5. \A r \in InUse(c) : r # s => d.entries[r] = c.entries[r]
  BY <1>3 DEF IsRewrite, InUse
<1>6. EntriesOK(d)
  <2>1. \A r \in Slots(d) : d.entries[r].generation < d.nextGeneration
    BY <1>2, <1>3 DEF IsRewrite
  <2>2. QED
    BY <1>2, <2>1 DEF EntriesOK, IsRewrite
<1>7. CountsOK(d)
  <2>1. Alike(c, d, s)
    BY <1>2, <1>4, <1>5 DEF Alike, IsRewrite
  <2>2. Adjusted(c, d, s)
    <3>1. d.size = c.size - One(s \in InUse(c)) + One(s \in InUse(d))
      <4>1. c.size \in Nat /\ d.size = c.size
        BY <1>2, UsedFinite DEF IsRewrite, CountsAgree
      <4>2. QED
        BY <1>4, <4>1 DEF One
    <3>2. ASSUME NEW st \in EntryStates
          PROVE  d.counts[st] = c.counts[st] - One(s \in InState(c, st)) + One(s \in InState(d, st))
      <4>1. /\ s \in InState(c, st) <=> c.entries[s].state = st
            /\ s \in InState(d, st) <=> d.entries[s].state = st
        BY <1>4 DEF InState
      <4>2. d.counts[st] = c.counts[st] - One(c.entries[s].state = st) + One(d.entries[s].state = st)
        BY DEF IsRewrite
      <4>3. QED
        BY <4>1, <4>2 DEF One
    <3>3. QED
      BY <3>1, <3>2 DEF Adjusted
  <2>3. /\ d.size = Cardinality(InUse(d))
        /\ \A st \in EntryStates : d.counts[st] = Cardinality({r \in InUse(d) : d.entries[r].state = st})
    BY <1>2, <2>1, <2>2, CountsFollow
  <2>4. ToSet(d.free) = Slots(d) \ InUse(d) /\ IsInjective(d.free) /\ d.free \in Seq(Nat)
    BY <1>2, <1>3, <1>4 DEF CountsAgree, IsRewrite
  <2>5. QED
    BY <2>3, <2>4 DEF CountsOK, CountsAgree, IsRewrite
<1>8. IndexOK(d)
  <2>1. Distinct(c.entries, InUse(c)) /\ Indexed(c.entries, c.table, InUse(c)) /\ 2 * c.size <= Len(c.table)
    BY <1>2 DEF IndexOK
  <2>2. \A r \in InUse(c) : d.entries[r].endpoint = c.entries[r].endpoint
    BY <1>5 DEF IsRewrite
  <2>3. Indexed(d.entries, c.table, InUse(c)) /\ Distinct(d.entries, InUse(c))
    BY <2>1, <2>2, IndexedSame
  <2>4. QED
    BY <1>4, <2>1, <2>3 DEF IndexOK, IsRewrite
<1>9. QED
  BY <1>3, <1>4, <1>6, <1>7, <1>8 DEF CatOK, IsRewrite

\* The entry of s becomes n.
Put(c, s, n) ==
    [c EXCEPT !.entries = [c.entries EXCEPT ![s] = n],
              !.counts = IF n.state = c.entries[s].state THEN c.counts
                         ELSE [c.counts EXCEPT ![c.entries[s].state] = @ - 1, ![n.state] = @ + 1]]

\* It is rewritten.
LEMMA PutIs ==
    ASSUME NEW c, CatOK(c), NEW s \in InUse(c), NEW n \in Entry, n.endpoint = c.entries[s].endpoint,
           n.generation = c.entries[s].generation, n.inUse
    PROVE  IsRewrite(c, Put(c, s, n), s) /\ Put(c, s, n).entries[s] = n
<1> DEFINE d == Put(c, s, n)
           o == c.entries[s].state
           k == IF n.state = o THEN c.counts ELSE [c.counts EXCEPT ![o] = @ - 1, ![n.state] = @ + 1]
           E == [c.entries EXCEPT ![s] = n]
<1>1. IsCat(c) /\ c.entries \in Seq(Entry) /\ c.counts = [st \in EntryStates |-> c.counts[st]]
  BY DEF CatOK, EntriesOK, CountsOK
<1>0. d = [c EXCEPT !.entries = E, !.counts = k]
  BY DEF Put
<1> HIDE DEF d, k, E
<1>2. /\ IsCat(d) /\ d.cap = c.cap /\ d.nextGeneration = c.nextGeneration
      /\ d.size = c.size /\ d.free = c.free /\ d.table = c.table
      /\ d.entries = E /\ d.counts = k
  BY <1>0, <1>1 DEF IsCat
<1>3. s \in 1..Len(c.entries) /\ c.entries[s] \in Entry /\ Slots(c) = 1..Len(c.entries)
  BY <1>1, UsedFinite DEF InUse
<1>4. o \in EntryStates /\ n.state \in EntryStates
  BY <1>3 DEF Entry
<1> HIDE DEF d, o
<1>5. /\ d.entries \in Seq(Entry) /\ Len(d.entries) = Len(c.entries) /\ d.entries[s] = n
      /\ \A r \in Slots(c) : r # s => d.entries[r] = c.entries[r]
  BY <1>1, <1>2, <1>3 DEF E
<1>6. \A st \in EntryStates : c.counts[st] \in Nat
  <2>1. \A st \in EntryStates : c.counts[st] = Cardinality(InState(c, st))
    BY DEF CatOK, CountsOK, CountsAgree, InState
  <2>2. QED
    BY <1>1, <2>1, UsedFinite
<1>7. /\ d.counts = [st \in EntryStates |-> d.counts[st]]
      /\ \A st \in EntryStates : d.counts[st] = c.counts[st] - One(o = st) + One(n.state = st)
  <2>1. CASE n.state = o
    BY <1>1, <1>2, <1>6, <2>1 DEF One, k
  <2>2. CASE n.state # o
    <3>1. d.counts = [c.counts EXCEPT ![o] = @ - 1, ![n.state] = @ + 1]
      BY <1>2, <2>2 DEF k
    <3>2. \A st \in EntryStates : d.counts[st] = IF st = o THEN c.counts[st] - 1
                                               ELSE IF st = n.state THEN c.counts[st] + 1 ELSE c.counts[st]
      BY <1>1, <1>4, <2>2, <3>1
    <3>3. d.counts = [st \in EntryStates |-> d.counts[st]]
      BY <1>1, <3>1
    <3>4. QED
      BY <1>6, <2>2, <3>2, <3>3 DEF One
  <2>3. QED
    BY <2>1, <2>2
<1>8. QED
  BY <1>2, <1>5, <1>7 DEF IsRewrite, d, o

\* Only nodes in use are evicted.
LEMMA VictimsUsed ==
    ASSUME NEW c
    PROVE  Victims(c) \subseteq InUse(c)
  BY DEF Victims

\* An eviction, as its effect.
LEMMA EvictedIs ==
    ASSUME NEW c, CatOK(c), NEW d \in Evicted(c)
    PROVE  CatOK(d) /\ Kept(c, d)
<1>1. PICK s \in Victims(c) : d = release(c, s)
  BY DEF Evicted
<1>2. s \in InUse(c)
  BY VictimsUsed
<1>3. QED
  BY <1>1, <1>2, Released

\* Evictions add up.
LEMMA KeptTransitive ==
    ASSUME NEW a, NEW b, NEW c, Kept(a, b), Kept(b, c)
    PROVE  Kept(a, c)
  BY DEF Kept

\* The catalogues after k evictions.
IsTrim(c, n, U, after) ==
    /\ after[0] = {c} /\ U = after[n]
    /\ \A k \in 0..(n - 1) : after[k + 1] = UNION {IF d.size > d.cap THEN Evicted(d) ELSE {d} : d \in after[k]}

\* trim() goes through them.
LEMMA TrimLoop ==
    ASSUME NEW c, NEW n \in Nat
    PROVE  \E after : IsTrim(c, n, trim(c, n), after)
<1> DEFINE w0 == {c}
           step(D) == UNION {IF d.size > d.cap THEN Evicted(d) ELSE {d} : d \in D}
           Body(r, m) == [k \in 0..m |-> IF k = 0 THEN w0 ELSE step(r[k - 1])]
           P == {m \in Nat : \E r : r = Body(r, m)}
           f == CHOOSE h : h = Body(h, n)
<1>1. trim(c, n) = f[n]
  BY DEF trim
<1> HIDE DEF step, w0
<1>2. 0 \in P
  <2>1. [k \in 0..0 |-> w0] = Body([k \in 0..0 |-> w0], 0)
    OBVIOUS
  <2>2. QED
    BY <2>1
<1>3. \A m \in 0..(n - 1) : m \in P => m + 1 \in P
  <2> SUFFICES ASSUME NEW m \in 0..(n - 1), m \in P PROVE m + 1 \in P
    OBVIOUS
  <2> PICK r : r = Body(r, m)
    OBVIOUS
  <2> DEFINE q == [k \in 0..(m + 1) |-> IF k = m + 1 THEN step(r[m]) ELSE r[k]]
  <2>1. q = Body(q, m + 1)
    OBVIOUS
  <2>2. \E x : x = Body(x, m + 1)
    BY <2>1
  <2>3. QED
    BY <2>2
<1>4. PICK r : r = Body(r, n)
  <2> HIDE DEF P
  <2>1. \A k \in 0..n : k \in P
    BY <1>2, <1>3, EveryTurn
  <2>2. n \in P
    BY <2>1
  <2>3. QED
    BY <2>2 DEF P
<1>5. f = Body(f, n)
  BY <1>4
<1> HIDE DEF f
<1>6. f[0] = w0 /\ \A k \in 0..(n - 1) : f[k + 1] = step(f[k])
  BY <1>5
<1>7. IsTrim(c, n, trim(c, n), f)
  BY <1>1, <1>6 DEF IsTrim, step, w0
<1>8. QED
  BY <1>7

\* trim() evicts and leaves a sound catalogue.
LEMMA Trimmed ==
    ASSUME NEW c, CatOK(c), NEW n \in Nat, NEW d \in trim(c, n)
    PROVE  CatOK(d) /\ Kept(c, d)
<1>1. PICK after : IsTrim(c, n, trim(c, n), after)
  BY TrimLoop
<1> DEFINE P == {k \in Nat : \A x \in after[k] : CatOK(x) /\ Kept(c, x)}
<1>2. 0 \in P
  <2>1. after[0] = {c} /\ Kept(c, c)
    BY <1>1 DEF IsTrim, Kept
  <2>2. QED
    BY <2>1
<1>3. \A k \in 0..(n - 1) : k \in P => k + 1 \in P
  <2> SUFFICES ASSUME NEW k \in 0..(n - 1), k \in P, NEW y \in after[k + 1] PROVE CatOK(y) /\ Kept(c, y)
    OBVIOUS
  <2>1. y \in UNION {IF x.size > x.cap THEN Evicted(x) ELSE {x} : x \in after[k]}
    BY <1>1 DEF IsTrim
  <2>2. PICK x \in after[k] : y \in IF x.size > x.cap THEN Evicted(x) ELSE {x}
    BY <2>1
  <2>3. CatOK(x) /\ Kept(c, x)
    BY <2>2
  <2>4. CASE y = x
    BY <2>3, <2>4
  <2>5. CASE y \in Evicted(x)
    <3>1. CatOK(y) /\ Kept(x, y)
      BY <2>3, <2>5, EvictedIs
    <3>2. QED
      BY <2>3, <3>1, KeptTransitive
  <2>6. QED
    BY <2>2, <2>4, <2>5
<1>4. n \in P
  <2> HIDE DEF P
  <2>1. \A k \in 0..n : k \in P
    BY <1>2, <1>3, EveryTurn
  <2>2. QED
    BY <2>1
<1>5. QED
  BY <1>1, <1>4 DEF IsTrim

-----------------------------------------------------------------------------
(* A new node                                                              *)

\* fill() of upsert(): the index at most half full with one more ...
Widened(d) == IF (d.size + 1) * 2 > Len(d.table) THEN growTable(d) ELSE d

\* ... the slot for it ...
NextSlot(g) == IF g.free # <<>> THEN Last(g.free) ELSE Len(g.entries) + 1

\* ... the entry written ...
Written(g, e, s, n) ==
    [g EXCEPT
        !.entries = IF s \in Slots(g) THEN [@ EXCEPT ![s] = NewEntry(e, n)] ELSE Append(@, NewEntry(e, n)),
        !.free = IF @ # <<>> THEN Front(@) ELSE @,
        !.nextGeneration = @ + 1, !.counts["New"] = @ + 1, !.size = @ + 1]

\* ... and indexed.
Filed(w, s) == [w EXCEPT !.table = insertIndex(w, @, s)]

\* The catalogue with e stored.
Fill(d, e) == LET g == Widened(d) IN Filed(Written(g, e, NextSlot(g), d.nextGeneration), NextSlot(g))

\* The index has room for one more, and nothing else changed.
LEMMA WidenedIs ==
    ASSUME NEW c, CatOK(c)
    PROVE  /\ IsCat(Widened(c)) /\ Widened(c) = [c EXCEPT !.table = Widened(c).table]
           /\ Indexed(c.entries, Widened(c).table, InUse(c))
           /\ (c.size + 1) * 2 <= Len(Widened(c).table)
<1>1. /\ IsCat(c) /\ c.size \in Nat /\ Indexed(c.entries, c.table, InUse(c)) /\ 2 * c.size <= Len(c.table)
      /\ Len(c.table) \in Nat
  BY UsedFinite DEF CatOK, EntriesOK, CountsOK, CountsAgree, IndexOK, Indexed, Holds
<1>2. CASE ~((c.size + 1) * 2 > Len(c.table))
  <2>1. Widened(c) = c
    BY <1>2 DEF Widened
  <2>2. c = [c EXCEPT !.table = c.table]
    BY <1>1 DEF IsCat
  <2>3. (c.size + 1) * 2 <= Len(c.table)
    BY <1>1, <1>2
  <2>4. QED
    BY <1>1, <2>1, <2>2, <2>3
<1>3. CASE (c.size + 1) * 2 > Len(c.table)
  <2>1. Widened(c) = growTable(c)
    BY <1>3 DEF Widened
  <2>2. PICK u : /\ growTable(c) = [c EXCEPT !.table = u]
                 /\ Indexed(c.entries, u, InUse(c)) /\ Len(u) = GrownTo(c)
    BY Grown
  <2>3. IsCat(Widened(c)) /\ Widened(c).table = u
    BY <1>1, <2>1, <2>2 DEF IsCat
  <2>4. (c.size + 1) * 2 <= Len(u)
    <3>1. CASE c.table = <<>>
      <4>1. Len(c.table) = 0 /\ Len(u) = InitialTableSize
        BY <2>2, <3>1 DEF GrownTo
      <4>2. QED
        BY <1>1, <4>1, Limits
    <3>2. CASE c.table # <<>>
      <4>1. c.table \in Seq(Nat)
        BY <1>1 DEF Indexed, Holds
      <4>2. Len(c.table) # 0 /\ Len(u) = 2 * Len(c.table)
        BY <2>2, <3>2, <4>1 DEF GrownTo
      <4>3. QED
        BY <1>1, <4>2
    <3>3. QED
      BY <3>1, <3>2
  <2>5. QED
    BY <2>1, <2>2, <2>3, <2>4
<1>4. QED
  BY <1>2, <1>3

\* The members of d, which is c with e stored in slot s.
IsStore(c, d, e, s) ==
    /\ IsCat(d) /\ d.cap = c.cap /\ d.nextGeneration = c.nextGeneration + 1 /\ d.size = c.size + 1
    /\ s \in Nat \ {0} /\ s \notin InUse(c)
    /\ d.entries \in Seq(Entry) /\ Slots(d) = Slots(c) \cup {s} /\ Len(d.entries) >= Len(c.entries)
    /\ \A r \in Slots(c) : r # s => d.entries[r] = c.entries[r]
    /\ d.entries[s] = NewEntry(e, c.nextGeneration)
    /\ d.free \in Seq(Nat) /\ ToSet(d.free) = Slots(c) \ (InUse(c) \cup {s}) /\ IsInjective(d.free)
    /\ d.counts = [st \in EntryStates |-> d.counts[st]]
    /\ \A st \in EntryStates : d.counts[st] = c.counts[st] + One(st = "New")

\* A part of a sequence.
LEMMA Part ==
    ASSUME NEW S, NEW q \in Seq(S), NEW a \in 1..(Len(q) + 1), NEW b \in (a - 1)..Len(q)
    PROVE  /\ SubSeq(q, a, b) \in Seq(S) /\ Len(SubSeq(q, a, b)) = b - a + 1
           /\ \A i \in 1..(b - a + 1) : SubSeq(q, a, b)[i] = q[a + i - 1]
<1>1. Len(q) \in Nat /\ a \in Int /\ b \in Int
  OBVIOUS
<1>2. \A i \in a..b : q[i] \in S
  OBVIOUS
<1>3. /\ SubSeq(q, a, b) \in Seq(S)
      /\ Len(SubSeq(q, a, b)) = IF a <= b THEN b - a + 1 ELSE 0
      /\ \A i \in 1..(b - a + 1) : SubSeq(q, a, b)[i] = q[a + i - 1]
  BY <1>1, <1>2, SubSeqProperties
<1>4. QED
  BY <1>1, <1>3

\* The slot chosen is free, and is taken from those given back.
LEMMA NextSlotIs ==
    ASSUME NEW c, CatOK(c), NEW s, s = NextSlot(c), NEW f, f = IF c.free # <<>> THEN Front(c.free) ELSE c.free
    PROVE  /\ s \in Nat \ {0} /\ s \notin InUse(c) /\ (s \in Slots(c) \/ s = Len(c.entries) + 1)
           /\ f \in Seq(Nat) /\ ToSet(f) = Slots(c) \ (InUse(c) \cup {s}) /\ IsInjective(f)
<1>1. /\ c.free \in Seq(Nat) /\ IsInjective(c.free) /\ ToSet(c.free) = Slots(c) \ InUse(c)
      /\ Slots(c) = 1..Len(c.entries) /\ Len(c.entries) \in Nat
  BY UsedFinite DEF CatOK, EntriesOK, CountsOK, CountsAgree
<1>2. CASE c.free = <<>>
  <2>1. f = <<>> /\ s = Len(c.entries) + 1
    BY <1>2 DEF NextSlot
  <2>2. ToSet(c.free) = {}
    BY <1>2 DEF ToSet
  <2>3. InUse(c) \subseteq Slots(c)
    BY DEF InUse
  <2>4. s \in Nat \ {0} /\ s \notin Slots(c)
    BY <1>1, <2>1
  <2>5. QED
    BY <1>1, <1>2, <2>1, <2>2, <2>3, <2>4
<1>3. CASE c.free # <<>>
  <2> DEFINE m == Len(c.free)
  <2>1. m \in Nat \ {0} /\ DOMAIN c.free = 1..m
    BY <1>1, <1>3
  <2>2. s = c.free[m] /\ f = SubSeq(c.free, 1, m - 1)
    BY <1>3 DEF NextSlot, Last, Front
  <2>3. f \in Seq(Nat) /\ DOMAIN f = 1..(m - 1) /\ \A i \in 1..(m - 1) : f[i] = c.free[i]
    <3>1. 1 \in 1..(m + 1) /\ m - 1 \in (1 - 1)..m /\ (m - 1) - 1 + 1 = m - 1
      BY <2>1
    <3> HIDE DEF m
    <3>2. /\ SubSeq(c.free, 1, m - 1) \in Seq(Nat) /\ Len(SubSeq(c.free, 1, m - 1)) = (m - 1) - 1 + 1
          /\ \A i \in 1..((m - 1) - 1 + 1) : SubSeq(c.free, 1, m - 1)[i] = c.free[1 + i - 1]
      BY <1>1, <3>1, Part DEF m
    <3>3. \A i \in 1..(m - 1) : 1 + i - 1 = i
      OBVIOUS
    <3>4. QED
      BY <2>1, <2>2, <3>1, <3>2, <3>3
  <2> HIDE DEF m
  <2>4. s \in ToSet(c.free)
    BY <2>1, <2>2 DEF ToSet
  <2>5. IsInjective(f)
    <3>1. \A i \in 1..(m - 1) : i \in 1..m
      BY <2>1
    <3>2. QED
      BY <1>1, <2>1, <2>3, <3>1, ZenonT(30) DEF IsInjective
  <2>6. ToSet(f) = ToSet(c.free) \ {s}
    <3>1. \A i \in 1..(m - 1) : c.free[i] # s /\ i \in 1..m
      BY <1>1, <2>1, <2>2, SMTT(30) DEF IsInjective
    <3>2. \A i \in 1..m : i = m \/ i \in 1..(m - 1)
      BY <2>1
    <3>3. QED
      BY <2>1, <2>2, <2>3, <3>1, <3>2, Zenon DEF ToSet
  <2>7. QED
    BY <1>1, <2>3, <2>4, <2>5, <2>6
<1>4. QED
  BY <1>2, <1>3

\* A new entry is one.
LEMMA NewEntryIs ==
    ASSUME NEW e \in Endpoints, NEW g \in 1..MaxNodes
    PROVE  /\ NewEntry(e, g) \in Entry /\ NewEntry(e, g).endpoint = e /\ NewEntry(e, g).generation = g
           /\ NewEntry(e, g).inUse /\ NewEntry(e, g).state = "New" /\ ~NewEntry(e, g).featureQueued
           /\ ~NewEntry(e, g).answered
  BY Limits DEF NewEntry, Entry, EntryStates

\* Written() as its members.
LEMMA WrittenIs ==
    ASSUME NEW c, CatOK(c), NEW e \in Endpoints, c.nextGeneration <= MaxNodes
    PROVE  LET g == Widened(c)
               s == NextSlot(c)
               w == Written(g, e, s, c.nextGeneration)
           IN NextSlot(g) = s /\ IsStore(c, w, e, s) /\ w.table = g.table
<1> DEFINE g == Widened(c)
           s == NextSlot(c)
           n == NewEntry(e, c.nextGeneration)
           w == Written(g, e, s, c.nextGeneration)
           E == IF s \in Slots(c) THEN [c.entries EXCEPT ![s] = n] ELSE Append(c.entries, n)
           f == IF c.free # <<>> THEN Front(c.free) ELSE c.free
           k == [c.counts EXCEPT !["New"] = @ + 1]
<1>1. /\ IsCat(c) /\ c.entries \in Seq(Entry) /\ c.counts = [st \in EntryStates |-> c.counts[st]]
      /\ c.nextGeneration \in 1..MaxNodes
  BY Limits DEF CatOK, EntriesOK, CountsOK
<1>2. IsCat(g) /\ g = [c EXCEPT !.table = g.table]
  BY WidenedIs
<1> HIDE DEF g
<1>3. /\ g.entries = c.entries /\ g.free = c.free /\ g.size = c.size /\ g.cap = c.cap
      /\ g.counts = c.counts /\ g.nextGeneration = c.nextGeneration
  BY <1>1, <1>2 DEF IsCat
<1>4. NextSlot(g) = s /\ Slots(g) = Slots(c)
  BY <1>3 DEF NextSlot, Slots
<1>5. /\ s \in Nat \ {0} /\ s \notin InUse(c) /\ (s \in Slots(c) \/ s = Len(c.entries) + 1)
      /\ f \in Seq(Nat) /\ ToSet(f) = Slots(c) \ (InUse(c) \cup {s}) /\ IsInjective(f)
  <2> HIDE DEF s, f
  <2>1. s = NextSlot(c) /\ f = IF c.free # <<>> THEN Front(c.free) ELSE c.free
    BY DEF s, f
  <2>2. QED
    BY <2>1, NextSlotIs
<1>6. n \in Entry
  BY <1>1, NewEntryIs
<1>7. w = [g EXCEPT !.entries = E, !.free = f, !.nextGeneration = c.nextGeneration + 1,
                    !.counts = k, !.size = c.size + 1]
  <2> HIDE DEF n, s
  <2>1. w = [g EXCEPT !.entries = IF s \in Slots(g) THEN [g.entries EXCEPT ![s] = NewEntry(e, c.nextGeneration)]
                                                    ELSE Append(g.entries, NewEntry(e, c.nextGeneration)),
                      !.free = IF g.free # <<>> THEN Front(g.free) ELSE g.free,
                      !.nextGeneration = g.nextGeneration + 1,
                      !.counts = [g.counts EXCEPT !["New"] = @ + 1], !.size = g.size + 1]
    BY <1>2 DEF Written, IsCat
  <2>2. QED
    BY <1>3, <1>4, <2>1, Zenon DEF n
<1> HIDE DEF w, E, f, k, n, s
<1>8. /\ IsCat(w) /\ w.cap = c.cap /\ w.nextGeneration = c.nextGeneration + 1 /\ w.size = c.size + 1
      /\ w.entries = E /\ w.free = f /\ w.counts = k /\ w.table = g.table
  BY <1>2, <1>3, <1>7 DEF IsCat
<1>9. /\ E \in Seq(Entry) /\ DOMAIN E = (1..Len(c.entries)) \cup {s} /\ Len(E) >= Len(c.entries) /\ E[s] = n
      /\ \A r \in 1..Len(c.entries) : r # s => E[r] = c.entries[r]
  <2>1. Slots(c) = 1..Len(c.entries) /\ Len(c.entries) \in Nat
    BY <1>1, UsedFinite
  <2>2. CASE s \in Slots(c)
    <3>1. E = [c.entries EXCEPT ![s] = n]
      BY <2>2 DEF E
    <3>2. QED
      BY <1>1, <1>6, <2>1, <2>2, <3>1
  <2>3. CASE s \notin Slots(c)
    <3>1. E = Append(c.entries, n) /\ s = Len(c.entries) + 1
      BY <1>5, <2>3 DEF E
    <3>2. QED
      BY <1>1, <1>6, <2>1, <3>1
  <2>4. QED
    BY <2>2, <2>3
<1>10. /\ k = [st \in EntryStates |-> k[st]]
       /\ \A st \in EntryStates : k[st] = c.counts[st] + One(st = "New")
  <2>1. \A st \in EntryStates : c.counts[st] \in Nat
    <3>1. \A st \in EntryStates : c.counts[st] = Cardinality(InState(c, st))
      BY DEF CatOK, CountsOK, CountsAgree, InState
    <3>2. QED
      BY <1>1, <3>1, UsedFinite
  <2>2. k = [c.counts EXCEPT !["New"] = @ + 1] /\ "New" \in EntryStates
    BY DEF k, EntryStates
  <2>3. /\ k = [st \in EntryStates |-> k[st]]
        /\ \A st \in EntryStates : k[st] = IF st = "New" THEN c.counts[st] + 1 ELSE c.counts[st]
    BY <1>1, <2>2
  <2>4. QED
    BY <2>1, <2>3 DEF One
<1>11. Slots(c) = 1..Len(c.entries)
  BY <1>1, UsedFinite
<1>12. IsStore(c, w, e, s)
  BY <1>5, <1>8, <1>9, <1>10, <1>11 DEF IsStore, Slots, n
<1>13. QED
  BY <1>4, <1>8, <1>12 DEF w, s, g

\* The new node stored leaves a sound catalogue.
LEMMA Filled ==
    ASSUME NEW c, CatOK(c), NEW e \in Endpoints, c.nextGeneration <= MaxNodes,
           \A s \in InUse(c) : c.entries[s].endpoint # e
    PROVE  CatOK(Fill(c, e)) /\ IsStore(c, Fill(c, e), e, NextSlot(c)) /\ InUse(Fill(c, e)) = InUse(c) \cup {NextSlot(c)}
<1> DEFINE g == Widened(c)
           s == NextSlot(c)
           w == Written(g, e, s, c.nextGeneration)
           d == Fill(c, e)
           t == insertIndex(w, w.table, s)
<1>1. NextSlot(g) = s /\ IsStore(c, w, e, s) /\ w.table = g.table
  BY WrittenIs
<1>2. Indexed(c.entries, g.table, InUse(c)) /\ (c.size + 1) * 2 <= Len(g.table)
  BY WidenedIs
<1>3. d = [w EXCEPT !.table = t]
  <2>1. d = Filed(w, s)
    BY <1>1 DEF Fill
  <2> HIDE DEF w, s
  <2>2. IsCat(w)
    BY <1>1 DEF IsStore
  <2>3. QED
    BY <2>1, <2>2 DEF Filed, IsCat
<1> HIDE DEF g, s, w, d, t
<1>4. /\ IsCat(d) /\ d.entries = w.entries /\ d.free = w.free /\ d.size = w.size /\ d.cap = w.cap
      /\ d.counts = w.counts /\ d.nextGeneration = w.nextGeneration /\ d.table = t
  BY <1>1, <1>3 DEF IsCat, IsStore
<1>5. IsStore(c, d, e, s)
  BY <1>1, <1>4 DEF IsStore, Slots
<1> USE DEF EntriesOK
<1>6. /\ IsCat(c) /\ c.entries \in Seq(Entry) /\ c.cap \in Nat /\ c.nextGeneration \in 1..MaxNodes
      /\ \A r \in Slots(c) : c.entries[r].generation < c.nextGeneration
      /\ c.free \in Seq(Nat) /\ CountsAgree(c) /\ IndexOK(c)
  BY Limits DEF CatOK, CountsOK
<1>7. /\ NewEntry(e, c.nextGeneration) \in Entry /\ d.entries[s] = NewEntry(e, c.nextGeneration)
      /\ d.entries[s].endpoint = e /\ d.entries[s].generation = c.nextGeneration
      /\ d.entries[s].inUse /\ d.entries[s].state = "New"
  BY <1>5, <1>6, NewEntryIs DEF IsStore
<1>8. s \notin InUse(c) /\ s \in Slots(d) /\ Slots(d) = Slots(c) \cup {s} /\ s \in Nat \ {0}
  BY <1>5 DEF IsStore
<1>9. /\ \A r \in Slots(c) : r # s => d.entries[r] = c.entries[r]
  BY <1>5 DEF IsStore
<1>10. InUse(d) = InUse(c) \cup {s}
  BY <1>7, <1>8, <1>9 DEF InUse
<1>11. \A r \in InUse(c) : d.entries[r] = c.entries[r]
  BY <1>8, <1>9 DEF InUse
<1>12. EntriesOK(d)
  <2>1. d.nextGeneration = c.nextGeneration + 1 /\ d.cap = c.cap /\ d.entries \in Seq(Entry)
    BY <1>5 DEF IsStore
  <2>2. \A r \in Slots(c) : c.entries[r].generation \in Nat
    <3>1. \A r \in Slots(c) : c.entries[r] \in Entry
      BY <1>6, UsedFinite
    <3>2. \A x \in Entry : x.generation \in Nat
      BY Limits DEF Entry
    <3>3. QED
      BY <3>1, <3>2
  <2>3. ASSUME NEW r \in Slots(d) PROVE d.entries[r].generation < d.nextGeneration
    <3>1. CASE r = s
      BY <1>6, <1>7, <2>1, <3>1
    <3>2. CASE r # s
      <4>1. r \in Slots(c) /\ d.entries[r] = c.entries[r]
        BY <1>8, <1>9, <3>2
      <4>2. c.entries[r].generation \in Nat /\ c.entries[r].generation < c.nextGeneration
        BY <1>6, <2>2, <4>1
      <4>3. QED
        BY <1>6, <2>1, <4>1, <4>2
    <3>3. QED
      BY <3>1, <3>2
  <2>4. d.nextGeneration \in 1..(MaxNodes + 1)
    BY <1>6, <2>1, Limits
  <2>5. QED
    BY <1>6, <2>1, <2>3, <2>4
<1>13. CountsOK(d)
  <2>1. Alike(c, d, s)
    BY <1>5, <1>6, <1>8, <1>10, <1>11 DEF Alike, IsStore
  <2>2. Adjusted(c, d, s)
    <3>1. c.size \in Nat /\ d.size = c.size + 1 /\ d.size = c.size - One(s \in InUse(c)) + One(s \in InUse(d))
      <4>1. c.size \in Nat /\ d.size = c.size + 1
        BY <1>5, <1>6, UsedFinite DEF IsStore, CountsAgree
      <4>2. QED
        BY <1>8, <1>10, <4>1 DEF One
    <3>2. ASSUME NEW st \in EntryStates
          PROVE  d.counts[st] = c.counts[st] - One(s \in InState(c, st)) + One(s \in InState(d, st))
      <4>1. /\ s \notin InState(c, st)
            /\ s \in InState(d, st) <=> st = "New"
        BY <1>7, <1>8, <1>10 DEF InState
      <4>2. c.counts[st] \in Nat
        <5>1. Cardinality(InState(c, st)) \in Nat
          BY <1>6, UsedFinite
        <5>2. QED
          BY <1>6, <5>1 DEF CountsAgree, InState
      <4>3. d.counts[st] = c.counts[st] + One(st = "New")
        BY <1>5 DEF IsStore
      <4>4. QED
        BY <4>1, <4>2, <4>3 DEF One
    <3>3. QED
      BY <3>1, <3>2 DEF Adjusted
  <2>3. /\ d.size = Cardinality(InUse(d))
        /\ \A st \in EntryStates : d.counts[st] = Cardinality({r \in InUse(d) : d.entries[r].state = st})
    BY <1>6, <2>1, <2>2, CountsFollow
  <2>4. ToSet(d.free) = Slots(c) \ (InUse(c) \cup {s}) /\ IsInjective(d.free) /\ d.free \in Seq(Nat)
    BY <1>5 DEF IsStore
  <2>5. ToSet(d.free) = Slots(d) \ InUse(d)
    BY <1>8, <1>10, <2>4
  <2>6. QED
    BY <1>5, <2>3, <2>4, <2>5 DEF CountsOK, CountsAgree, IsStore
<1>14. IndexOK(d)
  <2>1. Distinct(c.entries, InUse(c)) /\ Indexed(c.entries, g.table, InUse(c))
    BY <1>2, <1>6 DEF IndexOK
  <2>2. Distinct(d.entries, InUse(d))
    <3>1. /\ \A r \in InUse(c) : r \in Nat \ {0} /\ d.entries[r].endpoint \in Endpoints /\ d.entries[r].endpoint # e
          /\ \A r, q \in InUse(c) : d.entries[r].endpoint = d.entries[q].endpoint => r = q
      BY <1>11, <2>1 DEF Distinct
    <3>2. QED
      BY <1>7, <1>8, <1>10, <3>1 DEF Distinct
  <2>3. Indexed(d.entries, g.table, InUse(c))
    BY <1>11, <2>1, IndexedSame
  <2>4. Room(g.table) /\ Len(g.table) \in Nat
    <3>1. IsFiniteSet(InUse(c)) /\ c.size = Cardinality(InUse(c)) /\ Cardinality(InUse(c)) \in Nat
      BY <1>6, UsedFinite DEF CountsAgree
    <3>2. Holds(g.table, InUse(c)) /\ Len(g.table) \in Nat
      BY <2>1 DEF Indexed, Holds
    <3>3. Cardinality(InUse(c)) < Len(g.table)
      BY <1>2, <3>1, <3>2
    <3>4. QED
      BY <3>1, <3>2, <3>3, HasRoom
  <2>5. Insertable(w, w.table, InUse(c), s, InUse(d))
    BY <1>1, <1>4, <1>8, <1>10, <2>2, <2>3, <2>4 DEF Insertable
  <2>6. Indexed(w.entries, t, InUse(d)) /\ Len(t) = Len(w.table)
    BY <2>5, Inserted DEF t
  <2>7. Indexed(d.entries, d.table, InUse(d)) /\ Len(d.table) = Len(g.table)
    BY <1>1, <1>4, <2>6
  <2>8. 2 * d.size <= Len(d.table)
    <3>1. c.size \in Nat /\ d.size = c.size + 1
      BY <1>5, <1>6, UsedFinite DEF IsStore, CountsAgree
    <3>2. QED
      BY <1>2, <2>4, <2>7, <3>1
  <2>9. QED
    BY <2>2, <2>7, <2>8 DEF IndexOK
<1>15. QED
  BY <1>4, <1>5, <1>10, <1>12, <1>13, <1>14 DEF CatOK, d, s

\* d is c after evictions, with e new in slot s.
Joined(c, d, e, s) ==
    /\ d.cap = c.cap /\ d.nextGeneration = c.nextGeneration + 1 /\ Len(d.entries) >= Len(c.entries)
    /\ s \in InUse(d) /\ d.entries[s] = NewEntry(e, c.nextGeneration)
    /\ \A r \in InUse(d) \ {s} : r \in InUse(c) /\ d.entries[r] = c.entries[r]

\* upsert() fills a slot, after an eviction if it must.
LEMMA UpsertIs ==
    ASSUME NEW c, NEW e
    PROVE  upsert(c, e) = {Fill(d, e) : d \in IF MustEvict(c) THEN Evicted(c) ELSE {c}}
  BY DEF upsert, Fill, Filed, Written, Widened, NextSlot

\* upsert() of a node that is not there.
LEMMA Upserted ==
    ASSUME NEW c, CatOK(c), NEW e \in Endpoints, c.nextGeneration <= MaxNodes,
           \A s \in InUse(c) : c.entries[s].endpoint # e, NEW d \in upsert(c, e)
    PROVE  CatOK(d) /\ \E s : Joined(c, d, e, s)
<1>1. PICK b \in IF MustEvict(c) THEN Evicted(c) ELSE {c} : d = Fill(b, e)
  BY UpsertIs
<1>2. CatOK(b) /\ Kept(c, b)
  <2>1. CASE b = c
    BY <2>1 DEF Kept
  <2>2. CASE b \in Evicted(c)
    BY <2>2, EvictedIs
  <2>3. QED
    BY <1>1, <2>1, <2>2
<1>3. b.nextGeneration <= MaxNodes /\ \A s \in InUse(b) : b.entries[s].endpoint # e
  BY <1>2 DEF Kept
<1> DEFINE s == NextSlot(b)
<1>4. CatOK(d) /\ IsStore(b, d, e, s) /\ InUse(d) = InUse(b) \cup {s}
  BY <1>1, <1>2, <1>3, Filled
<1> HIDE DEF s
<1>5. \A r \in InUse(d) \ {s} : r \in InUse(c) /\ d.entries[r] = c.entries[r]
  BY <1>2, <1>4 DEF IsStore, Kept, InUse
<1>6. Joined(c, d, e, s)
  BY <1>2, <1>4, <1>5 DEF IsStore, Kept, Joined
<1>7. QED
  BY <1>4, <1>6

\* The first catalogue is sound.
LEMMA EmptyOK ==
    ASSUME NEW limit \in Nat
    PROVE  CatOK(Empty(limit)) /\ InUse(Empty(limit)) = {}
<1> DEFINE c == Empty(limit)
<1>1. /\ IsCat(c) /\ c.entries = <<>> /\ c.free = <<>> /\ c.table = <<>> /\ c.size = 0 /\ c.cap = limit
      /\ c.counts = [s \in EntryStates |-> 0] /\ c.nextGeneration = 1
  BY DEF Empty, IsCat
<1> HIDE DEF c
<1>2. Slots(c) = {} /\ InUse(c) = {}
  BY <1>1 DEF Slots, InUse
<1>3. EntriesOK(c)
  BY <1>1, <1>2, Limits DEF EntriesOK
<1>4. CountsOK(c)
  <2>1. ToSet(c.free) = {} /\ IsInjective(c.free) /\ c.free \in Seq(Nat)
    BY <1>1 DEF ToSet, IsInjective
  <2>2. \A st : {s \in InUse(c) : c.entries[s].state = st} = {}
    BY <1>2
  <2>3. c.counts = [st \in EntryStates |-> c.counts[st]] /\ \A st \in EntryStates : c.counts[st] = 0
    BY <1>1
  <2>4. QED
    BY <1>1, <1>2, <2>1, <2>2, <2>3, FS_EmptySet DEF CountsOK, CountsAgree
<1>5. IndexOK(c)
  BY <1>1, <1>2 DEF IndexOK, Distinct, Indexed, Holds
<1>6. QED
  BY <1>1, <1>2, <1>3, <1>4, <1>5 DEF CatOK, c

\* A new cap changes nothing else.
LEMMA CapSet ==
    ASSUME NEW c, CatOK(c), NEW limit \in Nat
    PROVE  /\ CatOK(setCap(c, limit)) /\ setCap(c, limit).entries = c.entries /\ InUse(setCap(c, limit)) = InUse(c)
           /\ setCap(c, limit).nextGeneration = c.nextGeneration
<1> DEFINE d == setCap(c, limit)
<1>1. /\ IsCat(d) /\ d.entries = c.entries /\ d.free = c.free /\ d.table = c.table /\ d.size = c.size
      /\ d.cap = limit /\ d.counts = c.counts /\ d.nextGeneration = c.nextGeneration
  BY DEF setCap, IsCat, CatOK
<1> HIDE DEF d
<1>2. Slots(d) = Slots(c) /\ InUse(d) = InUse(c)
  BY <1>1 DEF Slots, InUse
<1>3. EntriesOK(d)
  BY <1>1, <1>2 DEF EntriesOK, CatOK
<1>4. CountsOK(d)
  BY <1>1, <1>2 DEF CountsOK, CountsAgree, CatOK
<1>5. IndexOK(d)
  BY <1>1, <1>2 DEF IndexOK, CatOK
<1>6. QED
  BY <1>1, <1>2, <1>3, <1>4, <1>5 DEF CatOK, d

-----------------------------------------------------------------------------
(* Places in queues                                                        *)

\* The places of x in the queue q ...
PlacesOf(q, x) == {i \in DOMAIN q : q[i] = x}

\* ... and their number.
Times(q, x) == Cardinality(PlacesOf(q, x))

\* A queue has finitely many places.
LEMMA TimesIs ==
    ASSUME NEW S, NEW q \in Seq(S), NEW x
    PROVE  /\ IsFiniteSet(PlacesOf(q, x)) /\ Times(q, x) \in Nat
           /\ PlacesOf(q, x) = {i \in 1..Len(q) : q[i] = x}
           /\ (\E i \in 1..Len(q) : q[i] = x) => Times(q, x) >= 1
           /\ (\A i \in 1..Len(q) : q[i] # x) => Times(q, x) = 0
<1>1. PlacesOf(q, x) = {i \in 1..Len(q) : q[i] = x} /\ Len(q) \in Nat
  BY DEF PlacesOf
<1>2. IsFiniteSet(1..Len(q)) /\ PlacesOf(q, x) \subseteq 1..Len(q)
  BY <1>1, FS_Interval
<1>3. IsFiniteSet(PlacesOf(q, x))
  BY <1>2, FS_Subset
<1>4. Times(q, x) \in Nat
  BY <1>3, FS_CardinalityType DEF Times
<1>5. Times(q, x) = 0 <=> PlacesOf(q, x) = {}
  BY <1>3, FS_EmptySet DEF Times
<1>6. QED
  BY <1>1, <1>3, <1>4, <1>5

\* One more at the end.
LEMMA TimesAppend ==
    ASSUME NEW S, NEW q \in Seq(S), NEW y \in S, NEW x
    PROVE  Append(q, y) \in Seq(S) /\ Times(Append(q, y), x) = Times(q, x) + One(y = x)
<1> DEFINE u == Append(q, y)
           m == Len(q) + 1
<1>1. u \in Seq(S) /\ Len(u) = m /\ u[m] = y /\ Len(q) \in Nat /\ \A i \in 1..Len(q) : u[i] = q[i]
  OBVIOUS
<1> HIDE DEF u
<1>2. /\ PlacesOf(q, x) = {i \in 1..Len(q) : q[i] = x} /\ IsFiniteSet(PlacesOf(q, x))
      /\ PlacesOf(u, x) = {i \in 1..m : u[i] = x}
  BY <1>1, TimesIs
<1>3. \A i : i \in 1..Len(q) <=> i \in 1..m /\ i # m
  BY <1>1
<1>4. m \in 1..m
  BY <1>1
<1>5. PlacesOf(u, x) \ {m} = PlacesOf(q, x) \ {m}
  <2> HIDE DEF m
  <2>1. QED
    BY <1>1, <1>2, <1>3, Zenon
<1>6. /\ m \notin PlacesOf(q, x)
      /\ m \in PlacesOf(u, x) <=> y = x
  <2> HIDE DEF m
  <2>1. QED
    BY <1>1, <1>2, <1>3, <1>4, Zenon
<1> HIDE DEF m
<1>7. /\ Times(u, x) = Times(q, x) - One(m \in PlacesOf(q, x)) + One(m \in PlacesOf(u, x)) /\ Times(q, x) \in Nat
  BY <1>2, <1>5, Recounted, ZenonT(30) DEF Times
<1>8. Times(u, x) = Times(q, x) + One(y = x)
  BY <1>6, <1>7 DEF One
<1>9. QED
  BY <1>1, <1>8 DEF u

\* u is q without its first k.
Behind(q, k, u) ==
    /\ k \in 0..Len(q) /\ Len(u) = Len(q) - k
    /\ \A i \in 1..Len(u) : u[i] = q[i + k]

\* It has the places behind them.
LEMMA TimesBehind ==
    ASSUME NEW S, NEW q \in Seq(S), NEW u \in Seq(S), NEW k, Behind(q, k, u), NEW x
    PROVE  Times(u, x) = Cardinality({i \in (k + 1)..Len(q) : q[i] = x})
<1> DEFINE A == PlacesOf(u, x)
           B == {i \in (k + 1)..Len(q) : q[i] = x}
           f == [i \in A |-> i + k]
<1> USE DEF Behind
<1>1. A = {i \in 1..Len(u) : u[i] = x} /\ IsFiniteSet(A) /\ Len(q) \in Nat
  BY TimesIs
<1>2. \A i \in 1..Len(u) : i \in Nat /\ i + k \in (k + 1)..Len(q)
  BY <1>1
<1>3. \A i \in (k + 1)..Len(q) : i \in Nat /\ i - k \in 1..Len(u) /\ (i - k) + k = i
  BY <1>1
<1> HIDE DEF A
<1>4. f \in [A -> B]
  BY <1>1, <1>2
<1>5. \A a, b \in A : f[a] = f[b] => a = b
  BY <1>1, <1>2
<1>6. \A b \in B : \E a \in A : f[a] = b
  <2> SUFFICES ASSUME NEW b \in B PROVE \E a \in A : f[a] = b
    OBVIOUS
  <2>1. b - k \in A
    BY <1>1, <1>3
  <2>2. f[b - k] = b
    BY <1>3, <2>1
  <2>3. QED
    BY <2>1, <2>2
<1> HIDE DEF f, B
<1>7. f \in Bijection(A, B)
  BY <1>4, <1>5, <1>6 DEF Bijection, Injection, Surjection, IsInjective
<1>8. Cardinality(B) = Cardinality(A)
  BY <1>1, <1>7, FS_Bijection DEF ExistsBijection
<1>9. QED
  BY <1>8 DEF Times, A, B

\* One less at the front.
LEMMA TimesTail ==
    ASSUME NEW S, NEW q \in Seq(S), q # <<>>, NEW x
    PROVE  /\ Tail(q) \in Seq(S) /\ Head(q) \in S /\ Len(Tail(q)) = Len(q) - 1
           /\ Times(Tail(q), x) = Times(q, x) - One(Head(q) = x)
<1> DEFINE B == {i \in (1 + 1)..Len(q) : q[i] = x}
<1>1. /\ Tail(q) \in Seq(S) /\ Head(q) = q[1] /\ q[1] \in S /\ Len(q) \in Nat \ {0} /\ Len(Tail(q)) = Len(q) - 1
      /\ \A i \in 1..Len(Tail(q)) : Tail(q)[i] = q[i + 1]
  OBVIOUS
<1>2. 1 \in 0..Len(q)
  BY <1>1
<1>3. Times(Tail(q), x) = Cardinality(B)
  <2> HIDE DEF B
  <2> DEFINE u == Tail(q)
             k == 1
  <2>1. u \in Seq(S) /\ Behind(q, k, u)
    BY <1>1, <1>2 DEF Behind
  <2> HIDE DEF u, k
  <2>2. Times(u, x) = Cardinality({i \in (k + 1)..Len(q) : q[i] = x})
    BY <2>1, TimesBehind
  <2>3. QED
    BY <2>2 DEF u, k, B
<1>4. PlacesOf(q, x) = {i \in 1..Len(q) : q[i] = x} /\ IsFiniteSet(PlacesOf(q, x))
  BY TimesIs
<1>5. B \ {1} = PlacesOf(q, x) \ {1} /\ 1 \notin B /\ (1 \in PlacesOf(q, x) <=> q[1] = x)
  BY <1>1, <1>4
<1> HIDE DEF B
<1>6. /\ Cardinality(B) = Times(q, x) - One(1 \in PlacesOf(q, x)) + One(1 \in B) /\ Times(q, x) \in Nat
  BY <1>4, <1>5, Recounted DEF Times
<1>7. Times(Tail(q), x) = Times(q, x) - One(q[1] = x)
  BY <1>3, <1>5, <1>6 DEF One
<1>8. QED
  BY <1>1, <1>7

\* takeDue() drops references whose node is gone, and none that is current.
LEMMA DroppedIs ==
    ASSUME NEW st, NEW q \in Seq(Refs)
    PROVE  /\ Dropped(st, q) \in Seq(Refs)
           /\ Dropped(st, q) # <<>> => isCurrent(st.cat, Head(Dropped(st, q)))
           /\ \A x \in Refs : Times(Dropped(st, q), x) <= Times(q, x)
           /\ \A x \in Refs : isCurrent(st.cat, x) => Times(Dropped(st, q), x) = Times(q, x)
<1> DEFINE ok(n) == /\ \A i \in 1..n : ~isCurrent(st.cat, q[i])
                    /\ n < Len(q) => isCurrent(st.cat, q[n + 1])
           k == CHOOSE n \in 0..Len(q) : ok(n)
           u == Dropped(st, q)
           D == {n \in 0..Len(q) : n < Len(q) => isCurrent(st.cat, q[n + 1])}
<1>0. u = SubSeq(q, k + 1, Len(q)) /\ Len(q) \in Nat
  BY DEF Dropped
<1>1. \E n \in 0..Len(q) : ok(n)
  <2>1. Len(q) \in D /\ D \subseteq Nat
    BY <1>0
  <2>2. PICK m \in D : \A y \in D : m <= y
    <3> HIDE DEF D
    <3>1. QED
      BY <2>1, Least
  <2>3. ASSUME NEW i \in 1..m PROVE ~isCurrent(st.cat, q[i])
    <3>1. i - 1 \in 0..Len(q) /\ i - 1 < Len(q) /\ ~(m <= i - 1) /\ (i - 1) + 1 = i
      BY <1>0, <2>2
    <3>2. i - 1 \notin D
      BY <2>2, <3>1
    <3>3. QED
      BY <3>1, <3>2
  <2>4. ok(m) /\ m \in 0..Len(q)
    BY <2>2, <2>3
  <2>5. QED
    BY <2>4
<1>2. k \in 0..Len(q) /\ ok(k)
  <2> HIDE DEF ok
  <2>1. QED
    BY <1>1
<1> HIDE DEF k, u
<1>3. /\ u \in Seq(Refs) /\ Len(u) = Len(q) - k
      /\ \A i \in 1..(Len(q) - k) : u[i] = q[i + k]
  <2>1. k + 1 \in 1..(Len(q) + 1) /\ Len(q) \in ((k + 1) - 1)..Len(q) /\ Len(q) - (k + 1) + 1 = Len(q) - k
    BY <1>0, <1>2
  <2> DEFINE a == k + 1
  <2>2. \A i \in Nat : a + i - 1 = i + k
    BY <1>2
  <2>3. a \in 1..(Len(q) + 1) /\ Len(q) \in (a - 1)..Len(q) /\ Len(q) - a + 1 = Len(q) - k
    BY <2>1
  <2> HIDE DEF a
  <2>4. /\ SubSeq(q, a, Len(q)) \in Seq(Refs) /\ Len(SubSeq(q, a, Len(q))) = Len(q) - a + 1
        /\ \A i \in 1..(Len(q) - a + 1) : SubSeq(q, a, Len(q))[i] = q[a + i - 1]
    BY <2>3, Part
  <2>5. u = SubSeq(q, a, Len(q))
    BY <1>0 DEF a
  <2>6. \A i \in 1..(Len(q) - k) : i \in Nat
    BY <1>0, <1>2
  <2>7. QED
    BY <2>2, <2>3, <2>4, <2>5, <2>6
<1>4. Behind(q, k, u)
  BY <1>2, <1>3 DEF Behind
<1>5. ASSUME u # <<>> PROVE isCurrent(st.cat, Head(u))
  <2>1. Len(u) >= 1 /\ Head(u) = u[1]
    BY <1>3, <1>5
  <2>2. k < Len(q) /\ u[1] = q[k + 1]
    BY <1>0, <1>2, <1>3, <2>1
  <2>3. QED
    BY <1>2, <2>1, <2>2
<1>6. ASSUME NEW x \in Refs
      PROVE  Times(u, x) <= Times(q, x) /\ (isCurrent(st.cat, x) => Times(u, x) = Times(q, x))
  <2> DEFINE B == {i \in (k + 1)..Len(q) : q[i] = x}
  <2>1. Times(u, x) = Cardinality(B)
    BY <1>3, <1>4, TimesBehind
  <2>2. PlacesOf(q, x) = {i \in 1..Len(q) : q[i] = x} /\ IsFiniteSet(PlacesOf(q, x))
    BY TimesIs
  <2>3. B \subseteq PlacesOf(q, x)
    BY <1>0, <1>2, <2>2
  <2>4. isCurrent(st.cat, x) => B = PlacesOf(q, x)
    <3>1. \A i \in 1..Len(q) : i \in 1..k \/ i \in (k + 1)..Len(q)
      BY <1>0, <1>2
    <3>2. ASSUME isCurrent(st.cat, x), NEW i \in PlacesOf(q, x) PROVE i \in B
      BY <1>2, <2>2, <3>1, <3>2
    <3>3. QED
      BY <2>3, <3>2
  <2> HIDE DEF B
  <2>5. Cardinality(B) <= Cardinality(PlacesOf(q, x))
    BY <2>2, <2>3, FS_Subset
  <2>6. QED
    BY <2>1, <2>4, <2>5 DEF Times
<1>7. QED
  BY <1>3, <1>5, <1>6 DEF u

\* The queries of the scan to x in flight, and the feature checks.
Asking(O, x) == {q \in O : q.kind = FindNode /\ q.ref = x}
Checking(O, x) == {q \in O : q.kind # FindNode /\ q.ref = x}

\* A query.
Queries == [kind : {FindNode} \cup Checks, ref : Refs, to : Endpoints]

\* In how many places of the rounds x is, and in how many of the checks.
Weight(st, x) ==
    Times(st.fresh, x) + Times(st.retry, x) + Times(st.revisit, x) + Times(st.revisitSilent, x)
      + Times(st.deferred, x) + Cardinality(Asking(st.out, x))
CheckWeight(st, x) == Times(st.features, x) + Cardinality(Checking(st.out, x))

Weights(st) == [x \in Refs |-> Weight(st, x)]
CheckWeights(st) == [x \in Refs |-> CheckWeight(st, x)]

\* What a tick works on is of its type, and counts its queries.
IsMembers(st) ==
    /\ DOMAIN st = {"cat", "fresh", "retry", "revisit", "revisitSilent", "deferred", "features",
                    "out", "outstanding", "sent"}
    /\ st = [x \in DOMAIN st |-> st[x]]

QueuesOK(st) ==
    /\ st.fresh \in Seq(Refs) /\ st.retry \in Seq(Refs) /\ st.revisit \in Seq(Refs)
    /\ st.revisitSilent \in Seq(Refs) /\ st.deferred \in Seq(Refs) /\ st.features \in Seq(Refs)

OutOK(st) ==
    /\ st.out \subseteq Queries /\ IsFiniteSet(st.out) /\ st.outstanding = Cardinality(st.out)
    /\ st.sent \in Nat

Placed(st) == IsMembers(st) /\ QueuesOK(st) /\ OutOK(st)

\* An entry e whose node is in w places of the rounds and v of the checks, when the
\* endpoints A have answered.
Fits(e, w, v, A) ==
    /\ w = One(e.state # "Unroutable") /\ v = One(e.featureQueued)
    /\ e.state = "Responsive" /\ ~featuresDone(e) => e.featureQueued
    /\ (e.state \in {"Responsive", "Gone"} \/ e.answered) => e.endpoint \in A

\* The node of each current reference is where it should be, and queries to it go to
\* its endpoint; a reference not handed out yet is nowhere.
Sound(c, W, V, O, A) ==
    /\ CatOK(c)
    /\ \A x \in Refs : isCurrent(c, x) => Fits(c.entries[x.slot], W[x], V[x], A)
    /\ \A x \in Refs, q \in O : isCurrent(c, x) /\ q.ref = x => q.to = c.entries[x.slot].endpoint
    /\ \A x \in Refs : x.generation >= c.nextGeneration => W[x] = 0 /\ V[x] = 0
    /\ \A q \in O : q.ref \in Refs /\ q.ref.generation < c.nextGeneration

\* The inductive invariant.
Good(st, A) == Placed(st) /\ Sound(st.cat, Weights(st), CheckWeights(st), st.out, A)

\* Weights are numbers; who is asked or checked has one.
LEMMA WeightsAre ==
    ASSUME NEW st, Placed(st)
    PROVE  \A x \in Refs :
             /\ Weights(st)[x] = Weight(st, x) /\ CheckWeights(st)[x] = CheckWeight(st, x)
             /\ Times(st.fresh, x) \in Nat /\ Times(st.retry, x) \in Nat /\ Times(st.revisit, x) \in Nat
             /\ Times(st.revisitSilent, x) \in Nat /\ Times(st.deferred, x) \in Nat /\ Times(st.features, x) \in Nat
             /\ IsFiniteSet(Asking(st.out, x)) /\ Cardinality(Asking(st.out, x)) \in Nat
             /\ IsFiniteSet(Checking(st.out, x)) /\ Cardinality(Checking(st.out, x)) \in Nat
             /\ Weight(st, x) \in Nat /\ CheckWeight(st, x) \in Nat
             /\ \A q \in st.out : q.ref = x => IF q.kind = FindNode THEN Cardinality(Asking(st.out, x)) >= 1
                                                                    ELSE Cardinality(Checking(st.out, x)) >= 1
<1> SUFFICES ASSUME NEW x \in Refs
             PROVE  /\ Weights(st)[x] = Weight(st, x) /\ CheckWeights(st)[x] = CheckWeight(st, x)
                    /\ Times(st.fresh, x) \in Nat /\ Times(st.retry, x) \in Nat /\ Times(st.revisit, x) \in Nat
                    /\ Times(st.revisitSilent, x) \in Nat /\ Times(st.deferred, x) \in Nat /\ Times(st.features, x) \in Nat
                    /\ IsFiniteSet(Asking(st.out, x)) /\ Cardinality(Asking(st.out, x)) \in Nat
                    /\ IsFiniteSet(Checking(st.out, x)) /\ Cardinality(Checking(st.out, x)) \in Nat
                    /\ Weight(st, x) \in Nat /\ CheckWeight(st, x) \in Nat
                    /\ \A q \in st.out : q.ref = x => IF q.kind = FindNode THEN Cardinality(Asking(st.out, x)) >= 1
                                                                           ELSE Cardinality(Checking(st.out, x)) >= 1
  OBVIOUS
<1>1. Weights(st)[x] = Weight(st, x) /\ CheckWeights(st)[x] = CheckWeight(st, x)
  BY DEF Weights, CheckWeights
<1>2. /\ Times(st.fresh, x) \in Nat /\ Times(st.retry, x) \in Nat /\ Times(st.revisit, x) \in Nat
      /\ Times(st.revisitSilent, x) \in Nat /\ Times(st.deferred, x) \in Nat /\ Times(st.features, x) \in Nat
  BY TimesIs DEF Placed, QueuesOK
<1>3. Asking(st.out, x) \subseteq st.out /\ Checking(st.out, x) \subseteq st.out /\ IsFiniteSet(st.out)
  BY DEF Asking, Checking, Placed, OutOK
<1>4. IsFiniteSet(Asking(st.out, x)) /\ IsFiniteSet(Checking(st.out, x))
  BY <1>3, FS_Subset
<1>5. Cardinality(Asking(st.out, x)) \in Nat /\ Cardinality(Checking(st.out, x)) \in Nat
  BY <1>4, FS_CardinalityType
<1>6. Weight(st, x) \in Nat /\ CheckWeight(st, x) \in Nat
  BY <1>2, <1>5 DEF Weight, CheckWeight
<1>7. ASSUME NEW q \in st.out, q.ref = x
      PROVE  IF q.kind = FindNode THEN Cardinality(Asking(st.out, x)) >= 1 ELSE Cardinality(Checking(st.out, x)) >= 1
  <2>1. q \in IF q.kind = FindNode THEN Asking(st.out, x) ELSE Checking(st.out, x)
    BY <1>7 DEF Asking, Checking
  <2>2. /\ Cardinality(Asking(st.out, x)) = 0 <=> Asking(st.out, x) = {}
        /\ Cardinality(Checking(st.out, x)) = 0 <=> Checking(st.out, x) = {}
    BY <1>4, FS_EmptySet
  <2>3. QED
    BY <1>5, <2>1, <2>2
<1>8. QED
  BY <1>1, <1>2, <1>4, <1>5, <1>6, <1>7

-----------------------------------------------------------------------------
(* Steps of the catalogue and of the queues                                *)

\* A current reference is the reference of its slot, handed out before.
LEMMA CurrentIs ==
    ASSUME NEW c, CatOK(c), NEW x \in Refs, isCurrent(c, x)
    PROVE  /\ x.slot \in InUse(c) /\ c.entries[x.slot] \in Entry /\ x = RefOf(c, x.slot)
           /\ x.generation < c.nextGeneration /\ x.generation = c.entries[x.slot].generation
<1>1. x.slot \in InUse(c) /\ c.entries[x.slot].generation = x.generation
  BY DEF isCurrent
<1>2. x.slot \in Slots(c)
  BY <1>1 DEF InUse
<1>3. c.entries[x.slot] \in Entry
  BY <1>2, UsedFinite DEF CatOK, EntriesOK
<1>4. c.entries[x.slot].generation < c.nextGeneration
  BY <1>2 DEF CatOK, EntriesOK
<1>5. x = [slot |-> x.slot, generation |-> x.generation]
  BY DEF Refs
<1>6. QED
  BY <1>1, <1>3, <1>4, <1>5 DEF RefOf

\* The reference of a slot in use is current.
LEMMA RefOfIs ==
    ASSUME NEW c, CatOK(c), NEW s \in InUse(c)
    PROVE  RefOf(c, s) \in Refs /\ isCurrent(c, RefOf(c, s)) /\ RefOf(c, s).slot = s /\ c.entries[s] \in Entry
<1>1. s \in Slots(c)
  BY DEF InUse
<1>2. c.entries[s] \in Entry /\ s \in Nat \ {0}
  BY <1>1, UsedFinite DEF CatOK, EntriesOK
<1>3. c.entries[s].generation \in 1..MaxNodes
  BY <1>2 DEF Entry
<1>4. RefOf(c, s) = [slot |-> s, generation |-> c.entries[s].generation]
  BY DEF RefOf
<1>5. QED
  BY <1>2, <1>3, <1>4 DEF isCurrent, Refs

\* Evictions leave the rest where it was.
LEMMA SoundKept ==
    ASSUME NEW c, NEW d, NEW W, NEW V, NEW O, NEW A, Sound(c, W, V, O, A), CatOK(d), Kept(c, d)
    PROVE  Sound(d, W, V, O, A)
<1>1. \A x \in Refs : isCurrent(d, x) => isCurrent(c, x) /\ d.entries[x.slot] = c.entries[x.slot]
  BY DEF isCurrent, Kept
<1>2. QED
  BY <1>1 DEF Sound, Kept

\* A new cap, and a new answer, change nothing of it.
LEMMA SoundSame ==
    ASSUME NEW c, NEW d, NEW W, NEW V, NEW O, NEW A, Sound(c, W, V, O, A), CatOK(d),
           d.entries = c.entries, d.nextGeneration = c.nextGeneration
    PROVE  Sound(d, W, V, O, A)
<1>1. InUse(d) = InUse(c)
  BY DEF InUse, Slots
<1>2. \A x \in Refs : isCurrent(d, x) <=> isCurrent(c, x)
  BY <1>1 DEF isCurrent
<1>3. QED
  BY <1>2 DEF Sound

\* A new node is in one place.
LEMMA SoundJoined ==
    ASSUME NEW c, NEW d, NEW W, NEW V, NEW O, NEW A, Sound(c, W, V, O, A), CatOK(d),
           NEW e \in Endpoints, NEW s, Joined(c, d, e, s), c.nextGeneration <= MaxNodes,
           NEW U, \A x \in Refs : W[x] \in Nat /\ U[x] = W[x] + One(x = RefOf(d, s))
    PROVE  Sound(d, U, V, O, A)
<1> DEFINE g == c.nextGeneration
           n == NewEntry(e, g)
           ref == RefOf(d, s)
<1>1. /\ s \in InUse(d) /\ d.entries[s] = n /\ d.nextGeneration = g + 1
      /\ \A r \in InUse(d) \ {s} : r \in InUse(c) /\ d.entries[r] = c.entries[r]
  BY DEF Joined
<1>2. g \in 1..MaxNodes
  BY Limits DEF Sound, CatOK, EntriesOK
<1>3. /\ n \in Entry /\ n.generation = g /\ n.state = "New" /\ ~n.featureQueued /\ ~n.answered
  BY <1>2, NewEntryIs
<1>4. ref \in Refs /\ ref.slot = s /\ ref.generation = g
  <2>1. ref \in Refs /\ ref.slot = s
    BY <1>1, RefOfIs
  <2>2. ref.generation = d.entries[s].generation
    BY DEF RefOf
  <2>3. QED
    BY <1>1, <1>3, <2>1, <2>2
<1> HIDE DEF n, ref, g
<1>5. W[ref] = 0 /\ V[ref] = 0 /\ U[ref] = 1
  <2>1. W[ref] = 0 /\ V[ref] = 0
    BY <1>2, <1>4 DEF Sound, g
  <2>2. U[ref] = W[ref] + One(ref = ref)
    BY <1>4 DEF ref
  <2>3. QED
    BY <2>1, <2>2 DEF One
<1>6. \A x \in Refs : x # ref => U[x] = W[x]
  BY DEF One, ref
<1>7. ASSUME NEW x \in Refs, isCurrent(d, x), x # ref
      PROVE  isCurrent(c, x) /\ d.entries[x.slot] = c.entries[x.slot]
  <2>1. x = RefOf(d, x.slot) /\ x.slot \in InUse(d)
    BY <1>7, CurrentIs
  <2>2. x.slot # s
    BY <1>7, <2>1 DEF ref
  <2>3. QED
    BY <1>1, <1>7, <2>1, <2>2 DEF isCurrent
<1>8. ASSUME NEW x \in Refs, isCurrent(d, x) PROVE Fits(d.entries[x.slot], U[x], V[x], A)
  <2>1. CASE x = ref
    <3>1. d.entries[x.slot] = n
      BY <1>1, <1>4, <2>1
    <3>2. QED
      BY <1>3, <1>5, <2>1, <3>1 DEF Fits, One
  <2>2. CASE x # ref
    BY <1>6, <1>7, <1>8, <2>2 DEF Sound
  <2>3. QED
    BY <2>1, <2>2
<1>9. ASSUME NEW q \in O PROVE q.ref # ref /\ q.ref \in Refs /\ q.ref.generation < g + 1
  <2>1. q.ref \in Refs /\ q.ref.generation < g
    BY DEF Sound, g
  <2>2. q.ref.generation \in Nat
    BY <2>1 DEF Refs
  <2>3. QED
    BY <1>2, <1>4, <2>1, <2>2
<1>10. \A x \in Refs, q \in O : isCurrent(d, x) /\ q.ref = x => q.to = d.entries[x.slot].endpoint
  BY <1>7, <1>9 DEF Sound
<1>11. ASSUME NEW x \in Refs, x.generation >= g + 1 PROVE U[x] = 0 /\ V[x] = 0
  <2>1. x.generation >= g /\ x # ref
    <3>1. x.generation \in Nat
      BY DEF Refs
    <3>2. QED
      BY <1>2, <1>4, <1>11, <3>1
  <2>2. W[x] = 0 /\ V[x] = 0
    BY <2>1 DEF Sound, g
  <2>3. QED
    BY <1>6, <2>1, <2>2
<1>12. QED
  BY <1>1, <1>8, <1>9, <1>10, <1>11 DEF Sound

\* All places but those of ref are the same, there are no more queries, and the endpoints
\* that answered have.
SameBut(W, V, O, A, W2, V2, O2, A2, ref) ==
    /\ A \subseteq A2 /\ O2 \subseteq O
    /\ \A x \in Refs : x # ref => W2[x] = W[x] /\ V2[x] = V[x]

\* A node is rewritten while it moves.
LEMMA SoundRewritten ==
    ASSUME NEW c, NEW d, NEW W, NEW V, NEW O, NEW A, Sound(c, W, V, O, A), NEW ref \in Refs, isCurrent(c, ref),
           IsRewrite(c, d, ref.slot), NEW W2, NEW V2, NEW O2, NEW A2, SameBut(W, V, O, A, W2, V2, O2, A2, ref),
           Fits(d.entries[ref.slot], W2[ref], V2[ref], A2)
    PROVE  Sound(d, W2, V2, O2, A2)
<1> DEFINE s == ref.slot
<1>1. CatOK(c) /\ s \in InUse(c) /\ ref = RefOf(c, s) /\ ref.generation < c.nextGeneration
  BY CurrentIs DEF Sound
<1>2. CatOK(d) /\ InUse(d) = InUse(c)
  BY <1>1, Rewritten
<1>3. /\ \A r \in InUse(c) : r # s => d.entries[r] = c.entries[r]
      /\ d.entries[s].generation = c.entries[s].generation /\ d.entries[s].endpoint = c.entries[s].endpoint
      /\ d.nextGeneration = c.nextGeneration
  BY DEF IsRewrite, InUse
<1> HIDE DEF s
<1>4. \A x \in Refs : isCurrent(d, x) <=> isCurrent(c, x)
  BY <1>2, <1>3 DEF isCurrent
<1>5. ASSUME NEW x \in Refs, isCurrent(c, x), x # ref PROVE d.entries[x.slot] = c.entries[x.slot]
  <2>1. x = RefOf(c, x.slot) /\ x.slot \in InUse(c)
    BY <1>1, <1>5, CurrentIs
  <2>2. x.slot # s
    BY <1>1, <1>5, <2>1
  <2>3. QED
    BY <1>3, <2>1, <2>2
<1>6. ASSUME NEW x \in Refs, isCurrent(d, x) PROVE Fits(d.entries[x.slot], W2[x], V2[x], A2)
  <2>1. CASE x = ref
    BY <2>1
  <2>2. CASE x # ref
    <3>1. Fits(c.entries[x.slot], W[x], V[x], A) /\ d.entries[x.slot] = c.entries[x.slot]
      BY <1>4, <1>5, <1>6, <2>2 DEF Sound
    <3>2. W2[x] = W[x] /\ V2[x] = V[x] /\ A \subseteq A2
      BY <2>2 DEF SameBut
    <3>3. QED
      BY <3>1, <3>2 DEF Fits
  <2>3. QED
    BY <2>1, <2>2
<1>7. \A x \in Refs, q \in O2 : isCurrent(d, x) /\ q.ref = x => q.to = d.entries[x.slot].endpoint
  <2>1. \A x \in Refs : isCurrent(c, x) => d.entries[x.slot].endpoint = c.entries[x.slot].endpoint
    BY <1>3, <1>5 DEF s
  <2>2. QED
    BY <1>4, <2>1 DEF Sound, SameBut
<1>8. ASSUME NEW x \in Refs, x.generation >= d.nextGeneration PROVE W2[x] = 0 /\ V2[x] = 0
  <2>1. x # ref
    <3>1. x.generation \in Nat /\ c.nextGeneration \in Nat /\ ref.generation \in Nat
      BY Limits DEF Refs, Sound, CatOK, EntriesOK
    <3>2. QED
      BY <1>1, <1>3, <1>8, <3>1
  <2>2. QED
    BY <1>3, <1>8, <2>1 DEF Sound, SameBut
<1>9. \A q \in O2 : q.ref \in Refs /\ q.ref.generation < d.nextGeneration
  BY <1>3 DEF Sound, SameBut
<1>10. QED
  BY <1>2, <1>6, <1>7, <1>8, <1>9 DEF Sound

\* Nodes move between queues and queries: every current one weighs what it did, nobody
\* is new, and a new query goes to the endpoint of its node.
Moved(c, W, V, O, W2, V2, O2) ==
    /\ \A x \in Refs : isCurrent(c, x) => W2[x] = W[x] /\ V2[x] = V[x]
    /\ \A x \in Refs : (W[x] = 0 => W2[x] = 0) /\ (V[x] = 0 => V2[x] = 0)
    /\ \A q \in O2 : q \in O \/ (q.ref \in Refs /\ isCurrent(c, q.ref) /\ q.to = c.entries[q.ref.slot].endpoint)

\* Moves keep it sound.
LEMMA SoundMoved ==
    ASSUME NEW c, NEW W, NEW V, NEW O, NEW A, Sound(c, W, V, O, A), NEW W2, NEW V2, NEW O2,
           Moved(c, W, V, O, W2, V2, O2)
    PROVE  Sound(c, W2, V2, O2, A)
<1>1. \A x \in Refs : isCurrent(c, x) => Fits(c.entries[x.slot], W2[x], V2[x], A)
  BY DEF Sound, Moved
<1>2. \A x \in Refs, q \in O2 : isCurrent(c, x) /\ q.ref = x => q.to = c.entries[x.slot].endpoint
  BY DEF Sound, Moved
<1>3. \A x \in Refs : x.generation >= c.nextGeneration => W2[x] = 0 /\ V2[x] = 0
  BY DEF Sound, Moved
<1>4. \A q \in O2 : q.ref \in Refs /\ q.ref.generation < c.nextGeneration
  BY CurrentIs DEF Sound, Moved
<1>5. QED
  BY <1>1, <1>2, <1>3, <1>4 DEF Sound

\* s is a slot of c, and r an entry with a state.
Loose(c, s) == IsCat(c) /\ s \in DOMAIN c.entries /\ c.entries = [i \in DOMAIN c.entries |-> c.entries[i]]
IsRec(r) == r = [x \in DOMAIN r |-> r[x]] /\ "state" \in DOMAIN r

\* Those in use are.
LEMMA LooseIs ==
    ASSUME NEW c, CatOK(c), NEW s \in InUse(c)
    PROVE  Loose(c, s) /\ IsRec(c.entries[s])
<1>1. c.entries[s] \in Entry /\ s \in DOMAIN c.entries /\ c.entries \in Seq(Entry) /\ IsCat(c)
  BY RefOfIs DEF CatOK, EntriesOK, InUse, Slots
<1>2. IsRec(c.entries[s])
  BY <1>1 DEF Entry, IsRec
<1>3. c.entries = [i \in DOMAIN c.entries |-> c.entries[i]]
  BY <1>1
<1>4. QED
  BY <1>1, <1>2, <1>3 DEF Loose

\* An entry can be written.
LEMMA LooseWrite ==
    ASSUME NEW c, NEW s, Loose(c, s), NEW n
    PROVE  IsCat(Put(c, s, n)) /\ Put(c, s, n).entries = [c.entries EXCEPT ![s] = n]
<1> DEFINE d == Put(c, s, n)
           E == [c.entries EXCEPT ![s] = n]
           k == IF n.state = c.entries[s].state THEN c.counts
                ELSE [c.counts EXCEPT ![c.entries[s].state] = @ - 1, ![n.state] = @ + 1]
<1>1. d = [c EXCEPT !.entries = E, !.counts = k]
  BY DEF Put
<1> HIDE DEF E, k, d
<1>2. IsCat(d) /\ d.entries = E
  BY <1>1 DEF Loose, IsCat
<1>3. QED
  BY <1>2 DEF d, E

\* It is there then.
LEMMA LoosePut ==
    ASSUME NEW c, NEW s, Loose(c, s), NEW n
    PROVE  Loose(Put(c, s, n), s) /\ Put(c, s, n).entries[s] = n
<1> DEFINE d == Put(c, s, n)
           E == [c.entries EXCEPT ![s] = n]
<1>1. IsCat(d) /\ d.entries = E
  BY LooseWrite
<1>2. DOMAIN E = DOMAIN c.entries /\ E[s] = n /\ E = [i \in DOMAIN E |-> E[i]]
  BY DEF Loose
<1> HIDE DEF E, d
<1>3. s \in DOMAIN E
  BY <1>2 DEF Loose
<1>4. QED
  BY <1>1, <1>2, <1>3 DEF Loose, d

\* Of two writes the second counts, if only one of them changes the state.
LEMMA PutPut ==
    ASSUME NEW c, NEW s, Loose(c, s), NEW a, NEW b, a.state = c.entries[s].state \/ a.state = b.state
    PROVE  Put(Put(c, s, a), s, b) = Put(c, s, b)
<1> DEFINE p == c.entries[s].state
           ka == IF a.state = p THEN c.counts ELSE [c.counts EXCEPT ![p] = @ - 1, ![a.state] = @ + 1]
           kb == IF b.state = p THEN c.counts ELSE [c.counts EXCEPT ![p] = @ - 1, ![b.state] = @ + 1]
           Ea == [c.entries EXCEPT ![s] = a]
           Eb == [c.entries EXCEPT ![s] = b]
           d == Put(c, s, a)
           kd == IF b.state = d.entries[s].state THEN d.counts
                 ELSE [d.counts EXCEPT ![d.entries[s].state] = @ - 1, ![b.state] = @ + 1]
           Ed == [d.entries EXCEPT ![s] = b]
<1>1. d = [c EXCEPT !.entries = Ea, !.counts = ka] /\ Put(c, s, b) = [c EXCEPT !.entries = Eb, !.counts = kb]
  BY DEF Put
<1>2. Put(d, s, b) = [d EXCEPT !.entries = Ed, !.counts = kd]
  BY DEF Put
<1>3. d.entries[s] = a /\ d.entries = Ea
  BY LooseWrite, LoosePut
<1>4. Ed = Eb
  <2>1. Ed = [Ea EXCEPT ![s] = b]
    BY <1>3
  <2>2. QED
    BY <2>1 DEF Loose
<1> HIDE DEF d, Ed, Eb, Ea, ka, kb
<1>5. d.counts = ka
  BY <1>1 DEF Loose, IsCat
<1>6. kd = kb
  <2>1. kd = IF b.state = a.state THEN ka ELSE [ka EXCEPT ![a.state] = @ - 1, ![b.state] = @ + 1]
    BY <1>3, <1>5
  <2> HIDE DEF kd
  <2>2. CASE b.state = a.state
    <3>1. kd = ka
      BY <2>1, <2>2
    <3>2. QED
      BY <2>2, <3>1 DEF ka, kb
  <2>3. CASE b.state # a.state
    <3>1. a.state = p
      BY <2>3
    <3>2. ka = c.counts
      BY <3>1 DEF ka
    <3>3. QED
      BY <2>1, <2>3, <3>1, <3>2 DEF kb
  <2>4. QED
    BY <2>2, <2>3
<1> HIDE DEF kd
<1>7. [d EXCEPT !.entries = Ed, !.counts = kd] = [c EXCEPT !.entries = Eb, !.counts = kb]
  BY <1>1, <1>4, <1>6 DEF Loose, IsCat
<1>8. QED
  BY <1>1, <1>2, <1>7 DEF d

\* setState() writes the entry with another state ...
LEMMA StateWritten ==
    ASSUME NEW c, NEW s, Loose(c, s), IsRec(c.entries[s]), NEW st
    PROVE  setState(c, s, st) = Put(c, s, [c.entries[s] EXCEPT !.state = st])
<1> DEFINE n == [c.entries[s] EXCEPT !.state = st]
           E == [c.entries EXCEPT ![s] = n]
<1>1. s \in DOMAIN c.entries /\ c.entries = [i \in DOMAIN c.entries |-> c.entries[i]] /\ IsCat(c)
  BY DEF Loose
<1>2. n.state = st
  BY DEF IsRec
<1>3. CASE c.entries[s].state = st
  <2>1. setState(c, s, st) = c
    BY <1>3 DEF setState
  <2>2. n = c.entries[s]
    BY <1>3 DEF IsRec
  <2>3. E = c.entries
    BY <1>1, <2>2
  <2> HIDE DEF n, E
  <2>4. Put(c, s, n) = [c EXCEPT !.entries = c.entries, !.counts = c.counts]
    BY <1>2, <1>3, <2>3 DEF Put, E
  <2>5. [c EXCEPT !.entries = c.entries, !.counts = c.counts] = c
    BY <1>1 DEF IsCat
  <2>6. QED
    BY <2>1, <2>4, <2>5 DEF n
<1>4. CASE c.entries[s].state # st
  <2> DEFINE o == c.entries[s].state
             k == [c.counts EXCEPT ![o] = @ - 1, ![st] = @ + 1]
  <2>1. setState(c, s, st) = [c EXCEPT !.entries = E, !.counts = k]
    <3>1. setState(c, s, st) = [c EXCEPT !.entries[s].state = st, !.counts = [c.counts EXCEPT ![o] = @ - 1, ![st] = @ + 1]]
      BY <1>4 DEF setState
    <3> DEFINE d == setState(c, s, st)
    <3>2. /\ IsCat(d) /\ d.cap = c.cap /\ d.nextGeneration = c.nextGeneration
          /\ d.size = c.size /\ d.free = c.free /\ d.table = c.table
      BY <1>1, <3>1 DEF IsCat
    <3>3. d.entries = E
      BY <1>1, <3>1 DEF IsCat
    <3>4. d.counts = k
      <4> HIDE DEF k, E, n
      <4>1. d = [c EXCEPT !.entries[s].state = st, !.counts = k]
        BY <3>1 DEF k
      <4>2. QED
        BY <1>1, <4>1 DEF IsCat
    <3> HIDE DEF E, k, d
    <3>5. d = [c EXCEPT !.entries = E, !.counts = k]
      BY <1>1, <3>2, <3>3, <3>4 DEF IsCat
    <3>6. QED
      BY <3>5 DEF d
  <2> HIDE DEF n, E
  <2>2. Put(c, s, n) = [c EXCEPT !.entries = E, !.counts = k]
    BY <1>2, <1>4 DEF Put, E
  <2>3. QED
    BY <2>1, <2>2 DEF n
<1>5. QED
  BY <1>3, <1>4

\* ... of a sound catalogue, too.
LEMMA StateSet ==
    ASSUME NEW c, CatOK(c), NEW s \in InUse(c), NEW st \in EntryStates
    PROVE  setState(c, s, st) = Put(c, s, [c.entries[s] EXCEPT !.state = st])
BY LooseIs, StateWritten

\* The members with the catalogue and m_fresh of p.
With(st, p) == [st EXCEPT !.cat = p.cat, !.fresh = p.fresh]

\* With() changes these two.
LEMMA WithIs ==
    ASSUME NEW st, IsMembers(st), NEW p
    PROVE  /\ IsMembers(With(st, p)) /\ With(st, p).cat = p.cat /\ With(st, p).fresh = p.fresh
           /\ With(st, p).retry = st.retry /\ With(st, p).revisit = st.revisit
           /\ With(st, p).revisitSilent = st.revisitSilent /\ With(st, p).deferred = st.deferred
           /\ With(st, p).features = st.features /\ With(st, p).out = st.out
           /\ With(st, p).outstanding = st.outstanding /\ With(st, p).sent = st.sent
  BY DEF IsMembers, With

\* learn() of one node puts it in one place, or in none if its address is unusable.
LEMMA Learnt ==
    ASSUME NEW st, IsMembers(st), NEW p, NEW A, Good(With(st, p), A), NEW e \in Endpoints, NEW r \in Learn(p, e)
    PROVE  Good(With(st, r), A)
<1> DEFINE u == With(st, p)
           v == With(st, r)
           W == Weights(u)
           V == CheckWeights(u)
           O == st.out
<1>1. CASE r = p
  BY <1>1
<1>2. CASE ~(find(p.cat, e) # NoSlot \/ p.cat.cap = 0 \/ p.cat.nextGeneration > MaxNodes)
  <2>1. PICK c \in upsert(p.cat, e) :
          r = LET s == find(c, e)
              IN IF e \in Unroutable
                 THEN [cat |-> setState(c, s, "Unroutable"), fresh |-> p.fresh]
                 ELSE [cat |-> c, fresh |-> Append(p.fresh, RefOf(c, s))]
    BY <1>2 DEF Learn
  <2>2. /\ IsMembers(u) /\ u.cat = p.cat /\ u.fresh = p.fresh /\ u.retry = st.retry /\ u.revisit = st.revisit
        /\ u.revisitSilent = st.revisitSilent /\ u.deferred = st.deferred /\ u.features = st.features
        /\ u.out = O /\ u.outstanding = st.outstanding /\ u.sent = st.sent
    BY WithIs
  <2>3. /\ IsMembers(v) /\ v.cat = r.cat /\ v.fresh = r.fresh /\ v.retry = st.retry /\ v.revisit = st.revisit
        /\ v.revisitSilent = st.revisitSilent /\ v.deferred = st.deferred /\ v.features = st.features
        /\ v.out = O /\ v.outstanding = st.outstanding /\ v.sent = st.sent
    BY WithIs
  <2> HIDE DEF u, v
  <2>4. Placed(u) /\ Sound(p.cat, W, V, O, A)
    BY <2>2 DEF Good, u
  <2>5. \A x \in Refs : W[x] \in Nat
    BY <2>4, WeightsAre
  <2>6. CatOK(p.cat)
    BY <2>4 DEF Sound
  <2>7. p.cat.nextGeneration <= MaxNodes /\ \A s \in InUse(p.cat) : p.cat.entries[s].endpoint # e
    <3>1. p.cat.nextGeneration <= MaxNodes
      BY <1>2, <2>6, Limits DEF CatOK, EntriesOK
    <3>2. ASSUME NEW s \in InUse(p.cat), p.cat.entries[s].endpoint = e PROVE FALSE
      <4>1. find(p.cat, e) = s
        BY <2>6, <3>2, FindIs
      <4>2. s \in Nat \ {0}
        BY <2>6 DEF CatOK, IndexOK, Distinct
      <4>3. QED
        BY <1>2, <4>1, <4>2 DEF NoSlot
    <3>3. QED
      BY <3>1, <3>2
  <2>8. PICK s : CatOK(c) /\ Joined(p.cat, c, e, s)
    BY <2>1, <2>6, <2>7, Upserted
  <2>9. s \in InUse(c) /\ c.entries[s] = NewEntry(e, p.cat.nextGeneration) /\ find(c, e) = s
    <3>1. s \in InUse(c) /\ c.entries[s] = NewEntry(e, p.cat.nextGeneration)
      BY <2>8 DEF Joined
    <3>2. c.entries[s].endpoint = e
      BY <3>1 DEF NewEntry
    <3>3. QED
      BY <2>8, <3>1, <3>2, FindIs
  <2> DEFINE ref == RefOf(c, s)
             U == [x \in Refs |-> W[x] + One(x = ref)]
  <2>10. ref \in Refs /\ isCurrent(c, ref) /\ ref.slot = s /\ c.entries[s] \in Entry
    BY <2>8, <2>9, RefOfIs
  <2>11. Sound(c, U, V, O, A)
    <3>1. \A x \in Refs : W[x] \in Nat /\ U[x] = W[x] + One(x = RefOf(c, s))
      BY <2>5
    <3> HIDE DEF U, W, V, O
    <3>2. QED
      BY <2>4, <2>7, <2>8, <3>1, SoundJoined
  <2>12. CASE e \notin Unroutable
    <3>1. r = [cat |-> c, fresh |-> Append(p.fresh, ref)]
      BY <2>1, <2>9, <2>12
    <3>2. v.cat = c /\ v.fresh = Append(u.fresh, ref)
      BY <2>2, <2>3, <3>1
    <3> HIDE DEF ref
    <3>3. v.fresh \in Seq(Refs) /\ \A x \in Refs : Times(v.fresh, x) = Times(u.fresh, x) + One(ref = x)
      BY <2>4, <2>10, <3>2, TimesAppend DEF Placed, QueuesOK
    <3>4. Placed(v)
      BY <2>2, <2>3, <2>4, <3>3 DEF Placed, QueuesOK, OutOK
    <3>5. CheckWeights(v) = V
      BY <2>2, <2>3 DEF CheckWeights, CheckWeight
    <3>6. Weights(v) = U
      <4>1. ASSUME NEW x \in Refs PROVE Weight(v, x) = Weight(u, x) + One(x = ref)
        <5>1. /\ Times(u.fresh, x) \in Nat /\ Times(u.retry, x) \in Nat /\ Times(u.revisit, x) \in Nat
              /\ Times(u.revisitSilent, x) \in Nat /\ Times(u.deferred, x) \in Nat
              /\ Cardinality(Asking(u.out, x)) \in Nat
          BY <2>4, WeightsAre
        <5>2. Times(v.fresh, x) = Times(u.fresh, x) + One(x = ref) /\ One(x = ref) \in Nat
          BY <3>3 DEF One
        <5>3. /\ v.retry = u.retry /\ v.revisit = u.revisit /\ v.revisitSilent = u.revisitSilent
              /\ v.deferred = u.deferred /\ v.out = u.out
          BY <2>2, <2>3
        <5>4. QED
          BY <5>1, <5>2, <5>3 DEF Weight
      <4>2. QED
        BY <4>1 DEF Weights
    <3>7. QED
      BY <2>3, <2>11, <3>2, <3>4, <3>5, <3>6 DEF Good, v
  <2>13. CASE e \in Unroutable
    <3> DEFINE n == [c.entries[s] EXCEPT !.state = "Unroutable"]
               d == Put(c, s, n)
    <3>1. r = [cat |-> setState(c, s, "Unroutable"), fresh |-> p.fresh]
      BY <2>1, <2>9, <2>13
    <3>2. setState(c, s, "Unroutable") = d
      BY <2>8, <2>9, StateSet DEF EntryStates
    <3>3. v.cat = d /\ v.fresh = u.fresh
      BY <2>2, <2>3, <3>1, <3>2
    <3>4. /\ c.entries[s].state = "New" /\ c.entries[s].inUse /\ ~c.entries[s].featureQueued /\ ~c.entries[s].answered
      BY <2>9 DEF NewEntry
    <3>5. /\ n \in Entry /\ n.endpoint = c.entries[s].endpoint /\ n.generation = c.entries[s].generation
          /\ n.inUse /\ n.state = "Unroutable" /\ ~n.featureQueued /\ ~n.answered
      BY <2>10, <3>4 DEF Entry, EntryStates
    <3> HIDE DEF n, d, ref, U, W, V
    <3>6. IsRewrite(c, d, s) /\ d.entries[s] = n
      BY <2>8, <2>9, <3>5, PutIs DEF d
    <3>7. W[ref] = 0 /\ V[ref] = 0
      <4>1. U[ref] = 1 /\ V[ref] = 0
        <5>1. Fits(c.entries[s], U[ref], V[ref], A)
          BY <2>10, <2>11 DEF Sound
        <5>2. QED
          BY <3>4, <5>1 DEF Fits, One
      <4>2. U[ref] = W[ref] + 1
        BY <2>10 DEF U, One
      <4>3. QED
        BY <2>5, <2>10, <4>1, <4>2
    <3>8. SameBut(U, V, O, A, W, V, O, A, ref)
      <4>1. \A x \in Refs : x # ref => U[x] = W[x]
        BY <2>5 DEF U, One
      <4>2. QED
        BY <4>1 DEF SameBut
    <3>9. Fits(d.entries[ref.slot], W[ref], V[ref], A)
      BY <2>10, <3>5, <3>6, <3>7 DEF Fits, One
    <3>10. Sound(d, W, V, O, A)
      BY <2>10, <2>11, <3>6, <3>8, <3>9, SoundRewritten
    <3>11. Weights(v) = W /\ CheckWeights(v) = V
      BY <2>2, <2>3, <3>3 DEF Weights, Weight, CheckWeights, CheckWeight, W, V
    <3>12. Placed(v)
      BY <2>2, <2>3, <2>4, <3>3 DEF Placed, QueuesOK, OutOK
    <3>13. QED
      BY <2>3, <3>3, <3>10, <3>11, <3>12 DEF Good, v
  <2>14. QED
    BY <2>12, <2>13
<1>3. QED
  BY <1>1, <1>2 DEF Learn

\* The catalogues and queues after each node of a list.
IsLearning(p, list, U, after) ==
    /\ after[0] = {p} /\ U = after[Len(list)]
    /\ \A k \in 0..(Len(list) - 1) : after[k + 1] = UNION {Learn(o, list[k + 1]) : o \in after[k]}

\* LearnAll() goes through them.
LEMMA LearnLoop ==
    ASSUME NEW c, NEW list, Len(list) \in Nat
    PROVE  \E after : IsLearning([cat |-> c, fresh |-> fresh], list, LearnAll(c, list), after)
<1> DEFINE n == Len(list)
           w0 == {[cat |-> c, fresh |-> fresh]}
           step(D, k) == UNION {Learn(o, list[k]) : o \in D}
           Body(r, m) == [k \in 0..m |-> IF k = 0 THEN w0 ELSE step(r[k - 1], k)]
           P == {m \in Nat : \E r : r = Body(r, m)}
           f == CHOOSE h : h = Body(h, n)
<1>1. LearnAll(c, list) = f[n]
  BY DEF LearnAll
<1> HIDE DEF step, w0, n
<1>0. n \in Nat
  BY DEF n
<1>2. 0 \in P
  <2>1. [k \in 0..0 |-> w0] = Body([k \in 0..0 |-> w0], 0)
    OBVIOUS
  <2>2. QED
    BY <2>1
<1>3. \A m \in 0..(n - 1) : m \in P => m + 1 \in P
  <2> SUFFICES ASSUME NEW m \in 0..(n - 1), m \in P PROVE m + 1 \in P
    OBVIOUS
  <2> PICK r : r = Body(r, m)
    OBVIOUS
  <2> DEFINE q == [k \in 0..(m + 1) |-> IF k = m + 1 THEN step(r[m], m + 1) ELSE r[k]]
  <2>1. q = Body(q, m + 1)
    OBVIOUS
  <2>2. \E x : x = Body(x, m + 1)
    BY <2>1
  <2>3. QED
    BY <1>0, <2>2
<1>4. PICK r : r = Body(r, n)
  <2> HIDE DEF P
  <2>1. \A k \in 0..n : k \in P
    BY <1>0, <1>2, <1>3, EveryTurn
  <2>2. n \in P
    BY <1>0, <2>1
  <2>3. QED
    BY <2>2 DEF P
<1>5. f = Body(f, n)
  BY <1>4
<1> HIDE DEF f
<1>6. f[0] = w0 /\ \A k \in 0..(n - 1) : f[k + 1] = step(f[k], k + 1)
  BY <1>0, <1>5
<1>7. IsLearning([cat |-> c, fresh |-> fresh], list, LearnAll(c, list), f)
  BY <1>1, <1>6 DEF IsLearning, step, w0, n
<1>8. QED
  BY <1>7

\* Learning a list keeps every node in its place.
LEMMA LearntAll ==
    ASSUME NEW st, IsMembers(st), NEW c, NEW A, Good(With(st, [cat |-> c, fresh |-> fresh]), A),
           NEW list, list \in Seq(Endpoints), NEW p \in LearnAll(c, list)
    PROVE  Good(With(st, p), A)
<1> DEFINE n == Len(list)
           p0 == [cat |-> c, fresh |-> fresh]
<1>0. n \in Nat /\ \A k \in 0..(n - 1) : list[k + 1] \in Endpoints
  OBVIOUS
<1>1. PICK after : IsLearning(p0, list, LearnAll(c, list), after)
  BY <1>0, LearnLoop
<1> DEFINE P == {k \in Nat : \A x \in after[k] : Good(With(st, x), A)}
<1> HIDE DEF p0
<1>2. 0 \in P
  <2>1. after[0] = {p0}
    BY <1>1 DEF IsLearning
  <2>2. \A x \in after[0] : Good(With(st, x), A)
    BY <2>1 DEF p0
  <2>3. QED
    BY <2>2
<1>3. \A k \in 0..(n - 1) : k \in P => k + 1 \in P
  <2> SUFFICES ASSUME NEW k \in 0..(n - 1), k \in P, NEW y \in after[k + 1] PROVE Good(With(st, y), A)
    BY <1>0
  <2>1. y \in UNION {Learn(o, list[k + 1]) : o \in after[k]}
    BY <1>1 DEF IsLearning
  <2>2. PICK o \in after[k] : y \in Learn(o, list[k + 1])
    BY <2>1
  <2>3. Good(With(st, o), A) /\ list[k + 1] \in Endpoints
    BY <1>0, <2>2
  <2>4. QED
    BY <2>2, <2>3, Learnt
<1>4. n \in P
  <2> HIDE DEF P, n
  <2>1. \A k \in 0..n : k \in P
    BY <1>0, <1>2, <1>3, EveryTurn
  <2>2. QED
    BY <1>0, <2>1
<1>5. p \in after[n]
  BY <1>1 DEF IsLearning
<1>6. QED
  BY <1>4, <1>5

-----------------------------------------------------------------------------
(* Queries and queues of a tick                                            *)

\* u is t after a query of this kind to ref.
IsSend(t, u, kind, ref) ==
    /\ Placed(u) /\ u.cat = t.cat /\ u.sent = t.sent + 1
    /\ u.fresh = t.fresh /\ u.retry = t.retry /\ u.revisit = t.revisit /\ u.revisitSilent = t.revisitSilent
    /\ u.deferred = t.deferred /\ u.features = t.features
    /\ \A x \in Refs :
          /\ Cardinality(Asking(u.out, x)) = Cardinality(Asking(t.out, x)) + One(kind = FindNode /\ x = ref)
          /\ Cardinality(Checking(u.out, x)) = Cardinality(Checking(t.out, x)) + One(kind # FindNode /\ x = ref)
    /\ \A q \in u.out : q \in t.out \/ (q.ref = ref /\ q.to = t.cat.entries[ref.slot].endpoint)

\* A query of a kind that is not in flight is one more.
LEMMA Sent ==
    ASSUME NEW t, Placed(t), CatOK(t.cat), NEW ref \in Refs, isCurrent(t.cat, ref), NEW kind \in {FindNode} \cup Checks,
           Cardinality(IF kind = FindNode THEN Asking(t.out, ref) ELSE Checking(t.out, ref)) = 0
    PROVE  IsSend(t, Send(t, kind, ref), kind, ref)
<1> DEFINE e == t.cat.entries[ref.slot].endpoint
           q == [kind |-> kind, ref |-> ref, to |-> e]
           u == Send(t, kind, ref)
<1>1. IsMembers(t) /\ QueuesOK(t) /\ OutOK(t)
  BY DEF Placed
<1>2. /\ IsMembers(u) /\ u.cat = t.cat /\ u.sent = t.sent + 1 /\ u.outstanding = t.outstanding + 1
      /\ u.fresh = t.fresh /\ u.retry = t.retry /\ u.revisit = t.revisit /\ u.revisitSilent = t.revisitSilent
      /\ u.deferred = t.deferred /\ u.features = t.features /\ u.out = t.out \cup {q}
  BY <1>1 DEF IsMembers, Send
<1>3. e \in Endpoints
  BY CurrentIs DEF Entry
<1>4. q \in Queries /\ q.kind = kind /\ q.ref = ref /\ q.to = e
  BY <1>3 DEF Queries
<1> HIDE DEF u, q
<1>5. IsFiniteSet(Asking(t.out, ref)) /\ IsFiniteSet(Checking(t.out, ref))
  BY WeightsAre
<1>6. q \notin t.out
  <2>1. (IF kind = FindNode THEN Asking(t.out, ref) ELSE Checking(t.out, ref)) = {}
    BY <1>5, FS_EmptySet
  <2>2. QED
    BY <1>4, <2>1 DEF Asking, Checking
<1>7. OutOK(u)
  <2>1. IsFiniteSet(t.out) /\ t.out \subseteq Queries /\ t.outstanding = Cardinality(t.out) /\ t.sent \in Nat
    BY <1>1 DEF OutOK
  <2>2. IsFiniteSet(u.out) /\ Cardinality(u.out) = Cardinality(t.out) + 1
    BY <1>2, <1>6, <2>1, FS_AddElement, SMTT(30)
  <2>3. QED
    BY <1>2, <1>4, <2>1, <2>2 DEF OutOK
<1>8. ASSUME NEW x \in Refs
      PROVE  /\ Cardinality(Asking(u.out, x)) = Cardinality(Asking(t.out, x)) + One(kind = FindNode /\ x = ref)
             /\ Cardinality(Checking(u.out, x)) = Cardinality(Checking(t.out, x)) + One(kind # FindNode /\ x = ref)
  <2>1. /\ IsFiniteSet(Asking(t.out, x)) /\ Cardinality(Asking(t.out, x)) \in Nat
        /\ IsFiniteSet(Checking(t.out, x)) /\ Cardinality(Checking(t.out, x)) \in Nat
    BY WeightsAre
  <2>2. /\ Asking(u.out, x) \ {q} = Asking(t.out, x) \ {q} /\ Checking(u.out, x) \ {q} = Checking(t.out, x) \ {q}
    BY <1>2 DEF Asking, Checking
  <2>3. /\ q \notin Asking(t.out, x) /\ q \notin Checking(t.out, x)
        /\ q \in Asking(u.out, x) <=> kind = FindNode /\ x = ref
        /\ q \in Checking(u.out, x) <=> kind # FindNode /\ x = ref
    BY <1>2, <1>4, <1>6 DEF Asking, Checking
  <2>4. Cardinality(Asking(u.out, x)) = Cardinality(Asking(t.out, x)) - One(q \in Asking(t.out, x)) + One(q \in Asking(u.out, x))
    BY <2>1, <2>2, Recounted
  <2>5. Cardinality(Checking(u.out, x)) = Cardinality(Checking(t.out, x)) - One(q \in Checking(t.out, x)) + One(q \in Checking(u.out, x))
    BY <2>1, <2>2, Recounted
  <2>6. QED
    BY <2>1, <2>3, <2>4, <2>5 DEF One
<1>9. \A y \in u.out : y \in t.out \/ (y.ref = ref /\ y.to = e)
  BY <1>2, <1>4
<1>10. QED
  BY <1>1, <1>2, <1>7, <1>8, <1>9 DEF IsSend, Placed, QueuesOK, u

\* u is t with ref taken from a queue of the rounds; references to nodes that are gone may
\* have been dropped.
Taken(t, u, ref) ==
    /\ Placed(u) /\ u.cat = t.cat /\ u.out = t.out
    /\ ref \in Refs /\ isCurrent(t.cat, ref)
    /\ \A x \in Refs : /\ CheckWeight(u, x) = CheckWeight(t, x) /\ Weight(u, x) <= Weight(t, x)
                       /\ isCurrent(t.cat, x) => Weight(u, x) = Weight(t, x) - One(x = ref)

\* A node weighs one at most, so that one that is taken is nowhere else.
LEMMA TakenIs ==
    ASSUME NEW t, NEW A, Good(t, A), NEW u, NEW ref, Taken(t, u, ref)
    PROVE  Weight(t, ref) = 1 /\ Weight(u, ref) = 0 /\ Cardinality(Asking(u.out, ref)) = 0
<1>1. Placed(t) /\ ref \in Refs /\ isCurrent(t.cat, ref) /\ Placed(u)
  BY DEF Good, Taken
<1>2. Weight(t, ref) \in Nat /\ Weights(t)[ref] = Weight(t, ref)
  BY <1>1, WeightsAre
<1>3. Fits(t.cat.entries[ref.slot], Weights(t)[ref], CheckWeights(t)[ref], A)
  BY <1>1 DEF Good, Sound
<1>4. Weight(t, ref) \in {0, 1}
  BY <1>2, <1>3 DEF Fits, One
<1>5. Weight(u, ref) = Weight(t, ref) - 1
  BY <1>1 DEF Taken, One
<1>6. /\ Times(u.fresh, ref) \in Nat /\ Times(u.retry, ref) \in Nat /\ Times(u.revisit, ref) \in Nat
      /\ Times(u.revisitSilent, ref) \in Nat /\ Times(u.deferred, ref) \in Nat
      /\ Cardinality(Asking(u.out, ref)) \in Nat /\ Weight(u, ref) \in Nat
  BY <1>1, WeightsAre
<1>7. QED
  BY <1>4, <1>5, <1>6 DEF Weight

\* It is put back with the weight it had.
Returned(t, u, v, ref) ==
    /\ Placed(v) /\ v.cat = u.cat
    /\ \A x \in Refs : CheckWeight(v, x) = CheckWeight(u, x) /\ Weight(v, x) = Weight(u, x) + One(x = ref)
    /\ \A q \in v.out : q \in t.out \/ (q.ref = ref /\ q.to = t.cat.entries[ref.slot].endpoint)

\* Then everything is as it should be.
LEMMA GoodReturned ==
    ASSUME NEW t, NEW A, Good(t, A), NEW u, NEW v, NEW ref, Taken(t, u, ref), Returned(t, u, v, ref)
    PROVE  Good(v, A)
<1>1. Placed(t) /\ Placed(u) /\ Placed(v) /\ v.cat = t.cat /\ ref \in Refs /\ isCurrent(t.cat, ref)
  BY DEF Good, Taken, Returned
<1>2. Weight(t, ref) = 1 /\ Weight(u, ref) = 0
  BY TakenIs
<1>3. ASSUME NEW x \in Refs
      PROVE  /\ CheckWeights(v)[x] = CheckWeights(t)[x]
             /\ isCurrent(t.cat, x) => Weights(v)[x] = Weights(t)[x]
             /\ Weights(t)[x] = 0 => Weights(v)[x] = 0
  <2>1. /\ Weights(t)[x] = Weight(t, x) /\ CheckWeights(t)[x] = CheckWeight(t, x) /\ Weight(t, x) \in Nat
        /\ Weights(v)[x] = Weight(v, x) /\ CheckWeights(v)[x] = CheckWeight(v, x)
        /\ Weight(u, x) \in Nat
    BY <1>1, WeightsAre
  <2>2. /\ CheckWeight(u, x) = CheckWeight(t, x) /\ Weight(u, x) <= Weight(t, x)
        /\ isCurrent(t.cat, x) => Weight(u, x) = Weight(t, x) - One(x = ref)
        /\ CheckWeight(v, x) = CheckWeight(u, x) /\ Weight(v, x) = Weight(u, x) + One(x = ref)
    BY DEF Taken, Returned
  <2>3. One(x = ref) \in Nat /\ (x # ref => One(x = ref) = 0)
    BY DEF One
  <2>4. QED
    BY <1>2, <2>1, <2>2, <2>3
<1>4. Moved(t.cat, Weights(t), CheckWeights(t), t.out, Weights(v), CheckWeights(v), v.out)
  BY <1>1, <1>3 DEF Moved, Returned
<1>5. Sound(t.cat, Weights(v), CheckWeights(v), v.out, A)
  BY <1>4, SoundMoved DEF Good
<1>6. QED
  BY <1>1, <1>5 DEF Good

\* ask() returns it as a query.
LEMMA Asked ==
    ASSUME NEW t, NEW A, Good(t, A), NEW u, NEW ref, Taken(t, u, ref)
    PROVE  Good(ask(u, ref), A) /\ ask(u, ref).sent = u.sent + 1 /\ ask(u, ref).deferred = u.deferred
<1> DEFINE v == ask(u, ref)
<1>1. Placed(u) /\ u.cat = t.cat /\ u.out = t.out /\ ref \in Refs /\ isCurrent(u.cat, ref) /\ CatOK(u.cat)
  BY DEF Good, Taken, Sound
<1>2. Cardinality(Asking(u.out, ref)) = 0
  BY TakenIs
<1>3. IsSend(u, v, FindNode, ref)
  BY <1>1, <1>2, Sent DEF ask
<1> HIDE DEF v
<1>4. ASSUME NEW x \in Refs
      PROVE  CheckWeight(v, x) = CheckWeight(u, x) /\ Weight(v, x) = Weight(u, x) + One(x = ref)
  <2>1. /\ Cardinality(Asking(v.out, x)) = Cardinality(Asking(u.out, x)) + One(FindNode = FindNode /\ x = ref)
        /\ Cardinality(Checking(v.out, x)) = Cardinality(Checking(u.out, x)) + One(FindNode # FindNode /\ x = ref)
    BY <1>3 DEF IsSend
  <2>2. /\ One(FindNode # FindNode /\ x = ref) = 0 /\ One(FindNode = FindNode /\ x = ref) = One(x = ref)
        /\ One(x = ref) \in Nat
    BY DEF One
  <2>3. /\ Times(u.fresh, x) \in Nat /\ Times(u.retry, x) \in Nat /\ Times(u.revisit, x) \in Nat
        /\ Times(u.revisitSilent, x) \in Nat /\ Times(u.deferred, x) \in Nat /\ Times(u.features, x) \in Nat
        /\ Cardinality(Asking(u.out, x)) \in Nat /\ Cardinality(Checking(u.out, x)) \in Nat
    BY <1>1, WeightsAre
  <2>4. /\ v.fresh = u.fresh /\ v.retry = u.retry /\ v.revisit = u.revisit /\ v.revisitSilent = u.revisitSilent
        /\ v.deferred = u.deferred /\ v.features = u.features
    BY <1>3 DEF IsSend
  <2>5. CheckWeight(v, x) = CheckWeight(u, x)
    BY <2>1, <2>2, <2>3, <2>4 DEF CheckWeight
  <2>6. Weight(v, x) = Weight(u, x) + One(x = ref)
    BY <2>1, <2>2, <2>3, <2>4 DEF Weight
  <2>7. QED
    BY <2>5, <2>6
<1>5. Returned(t, u, v, ref)
  BY <1>1, <1>3, <1>4 DEF Returned, IsSend
<1>6. QED
  BY <1>3, <1>5, GoodReturned DEF IsSend, v

\* Or it is set aside; n is what m_sent becomes.
SetAside(u, ref, n) == [u EXCEPT !.deferred = Append(@, ref), !.sent = n]

\* Then everything is as it should be, too.
LEMMA WasSetAside ==
    ASSUME NEW t, NEW A, Good(t, A), NEW u, NEW ref, Taken(t, u, ref), NEW n \in Nat
    PROVE  /\ Good(SetAside(u, ref, n), A) /\ SetAside(u, ref, n).sent = n
           /\ SetAside(u, ref, n).deferred = Append(u.deferred, ref)
<1> DEFINE v == SetAside(u, ref, n)
<1>1. Placed(u) /\ u.cat = t.cat /\ u.out = t.out /\ ref \in Refs
  BY DEF Taken
<1>2. /\ IsMembers(v) /\ v.cat = u.cat /\ v.fresh = u.fresh /\ v.retry = u.retry /\ v.revisit = u.revisit
      /\ v.revisitSilent = u.revisitSilent /\ v.deferred = Append(u.deferred, ref) /\ v.features = u.features
      /\ v.out = u.out /\ v.outstanding = u.outstanding /\ v.sent = n
  BY <1>1 DEF Placed, IsMembers, SetAside
<1> HIDE DEF v
<1>3. v.deferred \in Seq(Refs) /\ \A x \in Refs : Times(v.deferred, x) = Times(u.deferred, x) + One(ref = x)
  BY <1>1, <1>2, TimesAppend DEF Placed, QueuesOK
<1>4. Placed(v)
  BY <1>1, <1>2, <1>3 DEF Placed, QueuesOK, OutOK
<1>5. ASSUME NEW x \in Refs
      PROVE  CheckWeight(v, x) = CheckWeight(u, x) /\ Weight(v, x) = Weight(u, x) + One(x = ref)
  <2>1. /\ Times(u.fresh, x) \in Nat /\ Times(u.retry, x) \in Nat /\ Times(u.revisit, x) \in Nat
        /\ Times(u.revisitSilent, x) \in Nat /\ Times(u.deferred, x) \in Nat
        /\ Cardinality(Asking(u.out, x)) \in Nat
    BY <1>1, WeightsAre
  <2>2. Times(v.deferred, x) = Times(u.deferred, x) + One(x = ref) /\ One(x = ref) \in Nat
    BY <1>3 DEF One
  <2>3. QED
    BY <1>2, <2>1, <2>2 DEF Weight, CheckWeight
<1>6. Returned(t, u, v, ref)
  BY <1>1, <1>2, <1>4, <1>5 DEF Returned
<1>7. QED
  BY <1>2, <1>6, GoodReturned DEF v

\* u is t without some references to nodes that are gone.
Lighter(t, u) ==
    /\ Placed(u) /\ u.cat = t.cat /\ u.out = t.out
    /\ \A x \in Refs : /\ CheckWeight(u, x) <= CheckWeight(t, x) /\ Weight(u, x) <= Weight(t, x)
                       /\ isCurrent(t.cat, x) => Weight(u, x) = Weight(t, x) /\ CheckWeight(u, x) = CheckWeight(t, x)

\* They may go.
LEMMA GoodLighter ==
    ASSUME NEW t, NEW A, Good(t, A), NEW u, Lighter(t, u)
    PROVE  Good(u, A)
<1>1. Placed(t) /\ Placed(u) /\ u.cat = t.cat /\ u.out = t.out
  BY DEF Good, Lighter
<1>2. ASSUME NEW x \in Refs
      PROVE  /\ isCurrent(t.cat, x) => Weights(u)[x] = Weights(t)[x] /\ CheckWeights(u)[x] = CheckWeights(t)[x]
             /\ Weights(t)[x] = 0 => Weights(u)[x] = 0
             /\ CheckWeights(t)[x] = 0 => CheckWeights(u)[x] = 0
  <2>1. /\ Weights(t)[x] = Weight(t, x) /\ CheckWeights(t)[x] = CheckWeight(t, x)
        /\ Weights(u)[x] = Weight(u, x) /\ CheckWeights(u)[x] = CheckWeight(u, x)
        /\ Weight(u, x) \in Nat /\ CheckWeight(u, x) \in Nat
    BY <1>1, WeightsAre
  <2>2. /\ CheckWeight(u, x) <= CheckWeight(t, x) /\ Weight(u, x) <= Weight(t, x)
        /\ isCurrent(t.cat, x) => Weight(u, x) = Weight(t, x) /\ CheckWeight(u, x) = CheckWeight(t, x)
    BY DEF Lighter
  <2>3. QED
    BY <2>1, <2>2
<1>3. Moved(t.cat, Weights(t), CheckWeights(t), t.out, Weights(u), CheckWeights(u), u.out)
  BY <1>1, <1>2 DEF Moved
<1>4. QED
  BY <1>1, <1>3, SoundMoved DEF Good

\* The first of m_deferred taken.
LEMMA DeferredTaken ==
    ASSUME NEW t, Placed(t), t.deferred # <<>>
    PROVE  LET u == [t EXCEPT !.deferred = Tail(@)]
               ref == Head(t.deferred)
           IN /\ Placed(u) /\ u.cat = t.cat /\ u.out = t.out /\ u.sent = t.sent /\ ref \in Refs
              /\ u.deferred = Tail(t.deferred) /\ Len(u.deferred) = Len(t.deferred) - 1
              /\ \A x \in Refs : CheckWeight(u, x) = CheckWeight(t, x) /\ Weight(u, x) = Weight(t, x) - One(x = ref)
<1> DEFINE u == [t EXCEPT !.deferred = Tail(@)]
           ref == Head(t.deferred)
<1>1. IsMembers(t) /\ QueuesOK(t) /\ OutOK(t)
  BY DEF Placed
<1>2. /\ IsMembers(u) /\ u.cat = t.cat /\ u.fresh = t.fresh /\ u.retry = t.retry /\ u.revisit = t.revisit
      /\ u.revisitSilent = t.revisitSilent /\ u.deferred = Tail(t.deferred) /\ u.features = t.features
      /\ u.out = t.out /\ u.outstanding = t.outstanding /\ u.sent = t.sent
  BY <1>1 DEF IsMembers
<1> HIDE DEF u
<1>3. /\ u.deferred \in Seq(Refs) /\ ref \in Refs /\ Len(u.deferred) = Len(t.deferred) - 1
      /\ \A x \in Refs : Times(u.deferred, x) = Times(t.deferred, x) - One(ref = x)
  BY <1>1, <1>2, TimesTail DEF QueuesOK
<1>4. Placed(u)
  BY <1>1, <1>2, <1>3 DEF Placed, QueuesOK, OutOK
<1> HIDE DEF ref
<1>5. ASSUME NEW x \in Refs
      PROVE  CheckWeight(u, x) = CheckWeight(t, x) /\ Weight(u, x) = Weight(t, x) - One(x = ref)
  <2>1. /\ Times(t.fresh, x) \in Nat /\ Times(t.retry, x) \in Nat /\ Times(t.revisit, x) \in Nat
        /\ Times(t.revisitSilent, x) \in Nat /\ Times(t.deferred, x) \in Nat
        /\ Cardinality(Asking(t.out, x)) \in Nat
    BY WeightsAre
  <2>2. Times(u.deferred, x) = Times(t.deferred, x) - One(x = ref) /\ One(x = ref) \in Nat
    BY <1>3 DEF One
  <2>3. QED
    BY <1>2, <2>1, <2>2 DEF Weight, CheckWeight
<1>6. QED
  BY <1>2, <1>3, <1>4, <1>5 DEF u, ref

\* A node set aside is asked, put back or dropped.
LEMMA DeferredTurned ==
    ASSUME NEW t, NEW A, Good(t, A), NEW budget \in Nat, t.sent < budget => t.deferred # <<>>,
           NEW v \in DeferredTurn(t, budget)
    PROVE  /\ Good(v, A) /\ v.sent >= t.sent
           /\ t.sent < budget => Len(v.deferred) >= Len(t.deferred) - 1
<1> DEFINE ref == Head(t.deferred)
           u == [t EXCEPT !.deferred = Tail(@)]
<1>1. Placed(t) /\ t.sent \in Nat /\ t.deferred \in Seq(Refs) /\ Len(t.deferred) \in Nat
  BY DEF Good, Placed, OutOK, QueuesOK
<1>2. CASE t.sent >= budget
  <2>1. v = t
    BY <1>1, <1>2 DEF DeferredTurn
  <2>2. QED
    BY <1>1, <1>2, <2>1
<1>3. CASE t.sent < budget
  <2>1. /\ Placed(u) /\ u.cat = t.cat /\ u.out = t.out /\ u.sent = t.sent /\ ref \in Refs
        /\ u.deferred = Tail(t.deferred) /\ Len(u.deferred) = Len(t.deferred) - 1
        /\ \A x \in Refs : CheckWeight(u, x) = CheckWeight(t, x) /\ Weight(u, x) = Weight(t, x) - One(x = ref)
    BY <1>1, <1>3, DeferredTaken
  <2>2. \/ ~isCurrent(t.cat, ref) /\ v = u
        \/ isCurrent(t.cat, ref) /\ v \in {[u EXCEPT !.deferred = Append(@, ref)], ask(u, ref)}
    BY <1>1, <1>3 DEF DeferredTurn
  <2> HIDE DEF u, ref
  <2>3. ASSUME NEW x \in Refs PROVE Weight(t, x) \in Nat /\ Weight(u, x) \in Nat /\ CheckWeight(t, x) \in Nat
    BY <1>1, <2>1, WeightsAre
  <2>4. CASE ~isCurrent(t.cat, ref) /\ v = u
    <3>1. ASSUME NEW x \in Refs
          PROVE  /\ CheckWeight(u, x) <= CheckWeight(t, x) /\ Weight(u, x) <= Weight(t, x)
                 /\ isCurrent(t.cat, x) => Weight(u, x) = Weight(t, x) /\ CheckWeight(u, x) = CheckWeight(t, x)
      <4>1. CheckWeight(u, x) = CheckWeight(t, x) /\ Weight(u, x) = Weight(t, x) - One(x = ref)
        BY <2>1
      <4>2. isCurrent(t.cat, x) => x # ref
        BY <2>4
      <4>3. QED
        BY <2>3, <4>1, <4>2 DEF One
    <3>2. Lighter(t, u)
      BY <2>1, <3>1 DEF Lighter
    <3>3. Good(v, A)
      BY <2>4, <3>2, GoodLighter
    <3>4. v.sent = t.sent /\ Len(v.deferred) = Len(t.deferred) - 1
      BY <2>1, <2>4, Zenon
    <3>5. QED
      BY <1>1, <3>3, <3>4
  <2>5. CASE isCurrent(t.cat, ref) /\ v \in {[u EXCEPT !.deferred = Append(@, ref)], ask(u, ref)}
    <3>1. Taken(t, u, ref)
      <4>1. ASSUME NEW x \in Refs PROVE Weight(u, x) <= Weight(t, x)
        BY <2>1, <2>3 DEF One
      <4>2. QED
        BY <2>1, <2>5, <4>1 DEF Taken
    <3>2. CASE v = ask(u, ref)
      <4>1. Good(v, A) /\ v.sent = u.sent + 1 /\ v.deferred = u.deferred
        BY <3>1, <3>2, Asked
      <4>2. QED
        BY <1>1, <2>1, <4>1
    <3>3. CASE v = [u EXCEPT !.deferred = Append(@, ref)]
      <4>1. v = SetAside(u, ref, u.sent)
        BY <2>1, <3>3 DEF SetAside, Placed, IsMembers
      <4>2. u.sent \in Nat
        BY <1>1, <2>1
      <4>3. Good(v, A) /\ v.sent = u.sent /\ v.deferred = Append(u.deferred, ref)
        BY <3>1, <4>1, <4>2, WasSetAside
      <4>4. Len(v.deferred) = Len(u.deferred) + 1
        BY <2>1, <4>3 DEF Placed, QueuesOK
      <4>5. QED
        BY <1>1, <2>1, <4>3, <4>4
    <3>4. v = ask(u, ref) \/ v = [u EXCEPT !.deferred = Append(@, ref)]
      BY <2>5
    <3>5. QED
      BY <3>2, <3>3, <3>4, Zenon
  <2>6. QED
    BY <2>2, <2>4, <2>5
<1>4. QED
  BY <1>1, <1>2, <1>3

\* The members after each node set aside.
IsDeferral(st, budget, U, after) ==
    /\ after[0] = {st} /\ U = after[Len(st.deferred)]
    /\ \A k \in 0..(Len(st.deferred) - 1) : after[k + 1] = UNION {DeferredTurn(t, budget) : t \in after[k]}

\* dispatchDeferred() goes through them.
LEMMA DeferredLoop ==
    ASSUME NEW st, NEW budget, Len(st.deferred) \in Nat
    PROVE  \E after : IsDeferral(st, budget, dispatchDeferred(st, budget), after)
<1> DEFINE n == Len(st.deferred)
           w0 == {st}
           step(D) == UNION {DeferredTurn(t, budget) : t \in D}
           Body(r, m) == [k \in 0..m |-> IF k = 0 THEN w0 ELSE step(r[k - 1])]
           P == {m \in Nat : \E r : r = Body(r, m)}
           f == CHOOSE h : h = Body(h, n)
<1>1. dispatchDeferred(st, budget) = f[n]
  BY DEF dispatchDeferred
<1> HIDE DEF step, w0, n
<1>0. n \in Nat
  BY DEF n
<1>2. 0 \in P
  <2>1. [k \in 0..0 |-> w0] = Body([k \in 0..0 |-> w0], 0)
    OBVIOUS
  <2>2. QED
    BY <2>1
<1>3. \A m \in 0..(n - 1) : m \in P => m + 1 \in P
  <2> SUFFICES ASSUME NEW m \in 0..(n - 1), m \in P PROVE m + 1 \in P
    OBVIOUS
  <2> PICK r : r = Body(r, m)
    OBVIOUS
  <2> DEFINE q == [k \in 0..(m + 1) |-> IF k = m + 1 THEN step(r[m]) ELSE r[k]]
  <2>1. q = Body(q, m + 1)
    OBVIOUS
  <2>2. \E x : x = Body(x, m + 1)
    BY <2>1
  <2>3. QED
    BY <1>0, <2>2
<1>4. PICK r : r = Body(r, n)
  <2> HIDE DEF P
  <2>1. \A k \in 0..n : k \in P
    BY <1>0, <1>2, <1>3, EveryTurn
  <2>2. n \in P
    BY <1>0, <2>1
  <2>3. QED
    BY <2>2 DEF P
<1>5. f = Body(f, n)
  BY <1>4
<1> HIDE DEF f
<1>6. f[0] = w0 /\ \A k \in 0..(n - 1) : f[k + 1] = step(f[k])
  BY <1>0, <1>5
<1>7. IsDeferral(st, budget, dispatchDeferred(st, budget), f)
  BY <1>1, <1>6 DEF IsDeferral, step, w0, n
<1>8. QED
  BY <1>7

\* A round through the nodes set aside loses none.
LEMMA DeferredDone ==
    ASSUME NEW st, NEW A, Good(st, A), NEW budget \in Nat, NEW v \in dispatchDeferred(st, budget)
    PROVE  Good(v, A)
<1> DEFINE n == Len(st.deferred)
           Rest(t, k) == t.sent < budget => Len(t.deferred) + k >= n
<1>0. n \in Nat
  BY DEF Good, Placed, QueuesOK
<1>1. PICK after : IsDeferral(st, budget, dispatchDeferred(st, budget), after)
  BY <1>0, DeferredLoop
<1> DEFINE P == {k \in Nat : \A t \in after[k] : Good(t, A) /\ Rest(t, k)}
<1>2. 0 \in P
  <2>1. after[0] = {st}
    BY <1>1 DEF IsDeferral
  <2>2. Rest(st, 0)
    BY <1>0
  <2>3. QED
    BY <2>1, <2>2
<1>3. \A k \in 0..(n - 1) : k \in P => k + 1 \in P
  <2> SUFFICES ASSUME NEW k \in 0..(n - 1), k \in P PROVE k + 1 \in P
    OBVIOUS
  <2>0. k \in Nat /\ k + 1 \in Nat
    BY <1>0
  <2> SUFFICES ASSUME NEW u \in after[k + 1] PROVE Good(u, A) /\ Rest(u, k + 1)
    BY <2>0
  <2>1. u \in UNION {DeferredTurn(t, budget) : t \in after[k]}
    BY <1>1 DEF IsDeferral
  <2>2. PICK t \in after[k] : u \in DeferredTurn(t, budget)
    BY <2>1
  <2>3. Good(t, A) /\ Rest(t, k)
    BY <2>2
  <2>4. t.deferred \in Seq(Refs) /\ Len(t.deferred) \in Nat /\ t.sent \in Nat
    BY <2>3 DEF Good, Placed, QueuesOK, OutOK
  <2>5. t.sent < budget => t.deferred # <<>>
    BY <1>0, <2>3, <2>4
  <2>6. /\ Good(u, A) /\ u.sent >= t.sent
        /\ t.sent < budget => Len(u.deferred) >= Len(t.deferred) - 1
    BY <2>2, <2>3, <2>5, DeferredTurned
  <2>7. u.deferred \in Seq(Refs) /\ Len(u.deferred) \in Nat /\ u.sent \in Nat
    BY <2>6 DEF Good, Placed, QueuesOK, OutOK
  <2>8. Rest(u, k + 1)
    <3> SUFFICES ASSUME u.sent < budget PROVE Len(u.deferred) + (k + 1) >= n
      OBVIOUS
    <3>1. t.sent < budget
      BY <2>4, <2>6, <2>7
    <3>2. Len(t.deferred) + k >= n /\ Len(u.deferred) >= Len(t.deferred) - 1
      BY <2>3, <2>6, <3>1
    <3> HIDE DEF n, P
    <3>3. \A a, b, m, j \in Nat : b + j >= m /\ a >= b - 1 => a + (j + 1) >= m
      OBVIOUS
    <3>4. QED
      BY <1>0, <2>0, <2>4, <2>7, <3>2, <3>3, Zenon
  <2>9. QED
    BY <2>6, <2>8
<1>4. n \in P
  <2> HIDE DEF P, n
  <2>1. \A k \in 0..n : k \in P
    BY <1>0, <1>2, <1>3, EveryTurn
  <2>2. QED
    BY <1>0, <2>1
<1>5. v \in after[n]
  BY <1>1 DEF IsDeferral
<1>6. QED
  BY <1>4, <1>5

\* An entry written without a change of its state.
LEMMA PutSame ==
    ASSUME NEW c, IsCat(c), NEW s, NEW n, n.state = c.entries[s].state
    PROVE  Put(c, s, n) = [c EXCEPT !.entries = [c.entries EXCEPT ![s] = n]]
<1> DEFINE E == [c.entries EXCEPT ![s] = n]
<1>1. Put(c, s, n) = [c EXCEPT !.entries = E, !.counts = c.counts]
  BY DEF Put
<1> HIDE DEF E
<1>2. [c EXCEPT !.entries = E, !.counts = c.counts] = [c EXCEPT !.entries = E]
  BY DEF IsCat
<1>3. QED
  BY <1>1, <1>2 DEF E

\* There is a next check until all are done.
LEMMA NextCheckIs ==
    ASSUME NEW e, ~featuresDone(e)
    PROVE  NextCheck(e) \in Checks /\ NextCheck(e) # FindNode
<1> DEFINE S == Checks \ e.tested
<1>1. S # {} /\ S \subseteq Nat \ {0}
  BY Limits DEF featuresDone
<1> HIDE DEF S
<1>2. PICK k \in S : \A j \in S : k <= j
  BY <1>1, Least
<1>3. NextCheck(e) \in S
  BY <1>2 DEF NextCheck, S
<1>4. QED
  BY <1>1, <1>3 DEF S, FindNode

\* The first of m_features taken.
LEMMA FeatureTaken ==
    ASSUME NEW t, Placed(t), t.features # <<>>
    PROVE  LET u == [t EXCEPT !.features = Tail(@)]
               ref == Head(t.features)
           IN /\ Placed(u) /\ u.cat = t.cat /\ u.out = t.out /\ u.sent = t.sent /\ ref \in Refs
              /\ u.features = Tail(t.features) /\ Len(u.features) = Len(t.features) - 1
              /\ \A x \in Refs : Weight(u, x) = Weight(t, x) /\ CheckWeight(u, x) = CheckWeight(t, x) - One(x = ref)
<1> DEFINE u == [t EXCEPT !.features = Tail(@)]
           ref == Head(t.features)
<1>1. IsMembers(t) /\ QueuesOK(t) /\ OutOK(t)
  BY DEF Placed
<1>2. /\ IsMembers(u) /\ u.cat = t.cat /\ u.fresh = t.fresh /\ u.retry = t.retry /\ u.revisit = t.revisit
      /\ u.revisitSilent = t.revisitSilent /\ u.deferred = t.deferred /\ u.features = Tail(t.features)
      /\ u.out = t.out /\ u.outstanding = t.outstanding /\ u.sent = t.sent
  BY <1>1 DEF IsMembers
<1> HIDE DEF u
<1>3. /\ u.features \in Seq(Refs) /\ ref \in Refs /\ Len(u.features) = Len(t.features) - 1
      /\ \A x \in Refs : Times(u.features, x) = Times(t.features, x) - One(ref = x)
  BY <1>1, <1>2, TimesTail DEF QueuesOK
<1>4. Placed(u)
  BY <1>1, <1>2, <1>3 DEF Placed, QueuesOK, OutOK
<1> HIDE DEF ref
<1>5. ASSUME NEW x \in Refs
      PROVE  Weight(u, x) = Weight(t, x) /\ CheckWeight(u, x) = CheckWeight(t, x) - One(x = ref)
  <2>1. Times(t.features, x) \in Nat /\ Cardinality(Checking(t.out, x)) \in Nat
    BY WeightsAre
  <2>2. Times(u.features, x) = Times(t.features, x) - One(x = ref) /\ One(x = ref) \in Nat
    BY <1>3 DEF One
  <2>3. QED
    BY <1>2, <2>1, <2>2 DEF Weight, CheckWeight
<1>6. QED
  BY <1>2, <1>3, <1>4, <1>5 DEF u, ref

\* A current node that waits for a check waits once, and is not being checked.
LEMMA FeatureAlone ==
    ASSUME NEW t, NEW A, Good(t, A), t.features # <<>>, isCurrent(t.cat, Head(t.features))
    PROVE  /\ CheckWeight(t, Head(t.features)) = 1 /\ Cardinality(Checking(t.out, Head(t.features))) = 0
           /\ t.cat.entries[Head(t.features).slot].featureQueued
<1> DEFINE ref == Head(t.features)
<1>1. Placed(t) /\ t.features \in Seq(Refs)
  BY DEF Good, Placed, QueuesOK
<1>2. ref \in Refs /\ \E i \in 1..Len(t.features) : t.features[i] = ref
  <2>1. 1 \in 1..Len(t.features) /\ ref = t.features[1] /\ t.features[1] \in Refs
    BY <1>1
  <2>2. QED
    BY <2>1
<1> HIDE DEF ref
<1>3. Times(t.features, ref) >= 1
  BY <1>1, <1>2, TimesIs
<1>4. /\ CheckWeights(t)[ref] = CheckWeight(t, ref) /\ Times(t.features, ref) \in Nat
      /\ Cardinality(Checking(t.out, ref)) \in Nat
  BY <1>1, <1>2, WeightsAre
<1>5. CheckWeights(t)[ref] = One(t.cat.entries[ref.slot].featureQueued)
  BY <1>2 DEF Good, Sound, Fits, ref
<1>6. CheckWeight(t, ref) = Times(t.features, ref) + Cardinality(Checking(t.out, ref))
  BY DEF CheckWeight
<1>7. QED
  BY <1>3, <1>4, <1>5, <1>6 DEF One, ref

\* A node queued for checks is checked, put back, dropped, or loses its mark.
LEMMA FeatureTurned ==
    ASSUME NEW t, NEW A, Good(t, A), NEW budget \in Nat, t.sent < budget => t.features # <<>>,
           NEW v \in FeatureTurn(t, budget)
    PROVE  /\ Good(v, A) /\ v.sent >= t.sent
           /\ t.sent < budget => Len(v.features) >= Len(t.features) - 1
<1> DEFINE ref == Head(t.features)
           e == t.cat.entries[ref.slot]
           u == [t EXCEPT !.features = Tail(@)]
<1>1. Placed(t) /\ t.sent \in Nat /\ t.features \in Seq(Refs) /\ Len(t.features) \in Nat /\ CatOK(t.cat)
  BY DEF Good, Placed, OutOK, QueuesOK, Sound
<1>2. CASE t.sent >= budget
  <2>1. v = t
    BY <1>1, <1>2 DEF FeatureTurn
  <2>2. QED
    BY <1>1, <1>2, <2>1
<1>3. CASE t.sent < budget
  <2>1. /\ Placed(u) /\ u.cat = t.cat /\ u.out = t.out /\ u.sent = t.sent /\ ref \in Refs
        /\ u.features = Tail(t.features) /\ Len(u.features) = Len(t.features) - 1
        /\ \A x \in Refs : Weight(u, x) = Weight(t, x) /\ CheckWeight(u, x) = CheckWeight(t, x) - One(x = ref)
    BY <1>1, <1>3, FeatureTaken
  <2>2. \/ ~isCurrent(t.cat, ref) /\ v = u
        \/ isCurrent(t.cat, ref) /\ ~WorthChecking(e) /\ v = [u EXCEPT !.cat.entries[ref.slot].featureQueued = FALSE]
        \/ isCurrent(t.cat, ref) /\ WorthChecking(e) /\ v = [u EXCEPT !.features = Append(@, ref)]
        \/ isCurrent(t.cat, ref) /\ WorthChecking(e) /\ v = Send(u, NextCheck(e), ref)
    <3> HIDE DEF u, ref
    <3>1. v \in CASE t.sent >= budget -> {t}
                  [] t.sent < budget /\ ~isCurrent(t.cat, ref) -> {u}
                  [] t.sent < budget /\ isCurrent(t.cat, ref) /\ ~WorthChecking(e) ->
                        {[u EXCEPT !.cat.entries[ref.slot].featureQueued = FALSE]}
                  [] OTHER -> {[u EXCEPT !.features = Append(@, ref)], Send(u, NextCheck(e), ref)}
      BY DEF FeatureTurn, u, ref
    <3> HIDE DEF e
    <3>2. QED
      BY <1>1, <1>3, <3>1
  <2> HIDE DEF u, ref
  <2>3. ASSUME NEW x \in Refs
        PROVE  /\ Weight(t, x) \in Nat /\ CheckWeight(t, x) \in Nat /\ CheckWeight(u, x) \in Nat
               /\ Weights(t)[x] = Weight(t, x) /\ CheckWeights(t)[x] = CheckWeight(t, x)
               /\ Weight(u, x) = Weight(t, x) /\ CheckWeight(u, x) = CheckWeight(t, x) - One(x = ref)
    BY <1>1, <2>1, WeightsAre
  <2>4. CASE ~isCurrent(t.cat, ref) /\ v = u
    <3>1. ASSUME NEW x \in Refs
          PROVE  /\ CheckWeight(u, x) <= CheckWeight(t, x) /\ Weight(u, x) <= Weight(t, x)
                 /\ isCurrent(t.cat, x) => Weight(u, x) = Weight(t, x) /\ CheckWeight(u, x) = CheckWeight(t, x)
      <4>2. isCurrent(t.cat, x) => x # ref
        BY <2>4
      <4>3. QED
        BY <2>3, <4>2 DEF One
    <3>2. Lighter(t, u)
      BY <2>1, <3>1 DEF Lighter
    <3>3. Good(v, A)
      BY <2>4, <3>2, GoodLighter
    <3>4. v.sent = t.sent /\ Len(v.features) = Len(t.features) - 1
      BY <2>1, <2>4, Zenon
    <3>5. QED
      BY <1>1, <3>3, <3>4
  <2>5. CASE isCurrent(t.cat, ref) /\ ~WorthChecking(e) /\ v = [u EXCEPT !.cat.entries[ref.slot].featureQueued = FALSE]
    <3> DEFINE c == t.cat
               s == ref.slot
               n == [e EXCEPT !.featureQueued = FALSE]
               d == Put(c, s, n)
    <3>1. s \in InUse(c) /\ e \in Entry /\ IsCat(c) /\ e.inUse
      BY <1>1, <2>1, <2>5, CurrentIs DEF CatOK, InUse
    <3>2. /\ n \in Entry /\ n.endpoint = e.endpoint /\ n.generation = e.generation /\ n.inUse /\ n.state = e.state
          /\ ~n.featureQueued /\ n.answered = e.answered /\ n.tested = e.tested
      BY <3>1 DEF Entry
    <3>3. [c EXCEPT !.entries[s].featureQueued = FALSE] = [c EXCEPT !.entries = [c.entries EXCEPT ![s] = n]]
      BY <3>1 DEF IsCat
    <3>4. d = [c EXCEPT !.entries[s].featureQueued = FALSE]
      <4>1. IsCat(c) /\ n.state = c.entries[s].state
        BY <3>1, <3>2
      <4> HIDE DEF n
      <4>2. d = [c EXCEPT !.entries = [c.entries EXCEPT ![s] = n]]
        BY <4>1, PutSame
      <4>3. QED
        BY <3>3, <4>2, Zenon
    <3>5. v = [u EXCEPT !.cat = [c EXCEPT !.entries[s].featureQueued = FALSE]]
      <4>1. v = [u EXCEPT !.cat = [u.cat EXCEPT !.entries[s].featureQueued = FALSE]]
        BY <2>1, <2>5 DEF Placed, IsMembers
      <4>2. QED
        BY <2>1, <4>1
    <3>6. v = [u EXCEPT !.cat = d]
      BY <3>4, <3>5
    <3> HIDE DEF d, n
    <3>7. /\ IsMembers(v) /\ v.cat = d /\ v.fresh = u.fresh /\ v.retry = u.retry /\ v.revisit = u.revisit
          /\ v.revisitSilent = u.revisitSilent /\ v.deferred = u.deferred /\ v.features = u.features
          /\ v.out = u.out /\ v.outstanding = u.outstanding /\ v.sent = u.sent
      BY <2>1, <3>6 DEF Placed, IsMembers
    <3>8. Placed(v) /\ \A x \in Refs : Weight(v, x) = Weight(u, x) /\ CheckWeight(v, x) = CheckWeight(u, x)
      BY <2>1, <3>7 DEF Placed, QueuesOK, OutOK, Weight, CheckWeight
    <3>9. IsRewrite(c, d, s) /\ d.entries[s] = n
      BY <1>1, <3>1, <3>2, PutIs DEF d
    <3>10. /\ CheckWeight(t, ref) = 1 /\ e.featureQueued
      BY <1>3, <2>5, FeatureAlone DEF ref
    <3>11. /\ \A x \in Refs : Weights(v)[x] = Weights(t)[x]
           /\ \A x \in Refs : x # ref => CheckWeights(v)[x] = CheckWeights(t)[x]
           /\ CheckWeights(v)[ref] = 0
      <4>1. ASSUME NEW x \in Refs
            PROVE  /\ Weights(v)[x] = Weights(t)[x]
                   /\ CheckWeights(v)[x] = CheckWeights(t)[x] - One(x = ref)
                   /\ CheckWeights(t)[x] \in Nat
        <5>1. Weights(v)[x] = Weight(v, x) /\ CheckWeights(v)[x] = CheckWeight(v, x)
          BY <3>8, WeightsAre
        <5>2. QED
          BY <2>3, <3>8, <5>1
      <4>2. CheckWeights(t)[ref] = 1
        BY <2>1, <2>3, <3>10
      <4>3. QED
        BY <2>1, <4>1, <4>2 DEF One
    <3>12. SameBut(Weights(t), CheckWeights(t), t.out, A, Weights(v), CheckWeights(v), v.out, A, ref)
      BY <2>1, <3>7, <3>11 DEF SameBut
    <3>13. Fits(d.entries[ref.slot], Weights(v)[ref], CheckWeights(v)[ref], A)
      <4>1. Fits(e, Weights(t)[ref], CheckWeights(t)[ref], A)
        BY <2>1, <2>5 DEF Good, Sound
      <4>2. Weights(v)[ref] = Weights(t)[ref] /\ CheckWeights(v)[ref] = 0
        BY <2>1, <3>11
      <4> HIDE DEF e
      <4>3. Fits(n, Weights(v)[ref], CheckWeights(v)[ref], A)
        BY <2>5, <3>2, <4>1, <4>2 DEF Fits, One, WorthChecking, featuresDone
      <4>4. QED
        BY <3>9, <4>3
    <3>14. Sound(d, Weights(v), CheckWeights(v), v.out, A)
      <4>1. Sound(c, Weights(t), CheckWeights(t), t.out, A) /\ ref \in Refs /\ isCurrent(c, ref) /\ IsRewrite(c, d, ref.slot)
        BY <2>1, <2>5, <3>9 DEF Good
      <4> HIDE DEF c, s, e
      <4>2. QED
        BY <3>12, <3>13, <4>1, SoundRewritten
    <3>15. Good(v, A)
      BY <3>7, <3>8, <3>14 DEF Good
    <3>16. v.sent = t.sent /\ Len(v.features) = Len(t.features) - 1
      BY <2>1, <3>7, Zenon
    <3>17. QED
      BY <1>1, <3>15, <3>16
  <2>6. CASE isCurrent(t.cat, ref) /\ WorthChecking(e) /\ v = [u EXCEPT !.features = Append(@, ref)]
    <3>1. /\ IsMembers(v) /\ v.cat = u.cat /\ v.fresh = u.fresh /\ v.retry = u.retry /\ v.revisit = u.revisit
          /\ v.revisitSilent = u.revisitSilent /\ v.deferred = u.deferred /\ v.features = Append(u.features, ref)
          /\ v.out = u.out /\ v.outstanding = u.outstanding /\ v.sent = u.sent
      BY <2>1, <2>6 DEF Placed, IsMembers
    <3>2. v.features \in Seq(Refs) /\ \A x \in Refs : Times(v.features, x) = Times(u.features, x) + One(ref = x)
      <4>1. u.features \in Seq(Refs) /\ ref \in Refs
        BY <2>1 DEF Placed, QueuesOK
      <4>2. \A x : Append(u.features, ref) \in Seq(Refs) /\ Times(Append(u.features, ref), x) = Times(u.features, x) + One(ref = x)
        BY <4>1, TimesAppend
      <4>3. QED
        BY <3>1, <4>2, Zenon
    <3>3. Placed(v)
      BY <2>1, <3>1, <3>2 DEF Placed, QueuesOK, OutOK
    <3>4. ASSUME NEW x \in Refs PROVE Weight(v, x) = Weight(t, x) /\ CheckWeight(v, x) = CheckWeight(t, x)
      <4>1. Times(u.features, x) \in Nat /\ Cardinality(Checking(u.out, x)) \in Nat
        BY <2>1, WeightsAre
      <4>2. Times(v.features, x) = Times(u.features, x) + One(x = ref) /\ One(x = ref) \in Nat
        BY <3>2 DEF One
      <4>3. CheckWeight(v, x) = CheckWeight(u, x) + One(x = ref)
        BY <3>1, <4>1, <4>2 DEF CheckWeight
      <4>4. Weight(v, x) = Weight(u, x)
        BY <3>1 DEF Weight
      <4>5. QED
        BY <2>3, <4>2, <4>3, <4>4
    <3>5. Lighter(t, v)
      <4>1. ASSUME NEW x \in Refs PROVE Weight(v, x) <= Weight(t, x) /\ CheckWeight(v, x) <= CheckWeight(t, x)
        BY <2>3, <3>4
      <4>2. QED
        BY <2>1, <3>1, <3>3, <3>4, <4>1 DEF Lighter
    <3>6. Good(v, A)
      BY <3>5, GoodLighter
    <3>7. v.sent = t.sent /\ Len(v.features) = Len(t.features)
      <4>1. u.features \in Seq(Refs) /\ Len(u.features) = Len(t.features) - 1 /\ u.sent = t.sent
        BY <2>1 DEF Placed, QueuesOK
      <4>2. Len(v.features) = Len(u.features) + 1
        BY <2>1, <3>1, <4>1
      <4>3. QED
        BY <1>1, <3>1, <4>1, <4>2
    <3>8. QED
      BY <1>1, <3>6, <3>7
  <2>7. CASE isCurrent(t.cat, ref) /\ WorthChecking(e) /\ v = Send(u, NextCheck(e), ref)
    <3> DEFINE k == NextCheck(e)
    <3>1. k \in Checks /\ k # FindNode
      BY <2>7, NextCheckIs DEF WorthChecking
    <3> HIDE DEF k
    <3>2. Cardinality(Checking(u.out, ref)) = 0
      BY <1>3, <2>1, <2>7, FeatureAlone DEF ref
    <3>3. IsSend(u, v, k, ref)
      BY <1>1, <2>1, <2>7, <3>1, <3>2, Sent DEF k
    <3>4. ASSUME NEW x \in Refs PROVE Weight(v, x) = Weight(t, x) /\ CheckWeight(v, x) = CheckWeight(t, x)
      <4>1. /\ Cardinality(Asking(v.out, x)) = Cardinality(Asking(u.out, x)) + One(k = FindNode /\ x = ref)
            /\ Cardinality(Checking(v.out, x)) = Cardinality(Checking(u.out, x)) + One(k # FindNode /\ x = ref)
        BY <3>3 DEF IsSend
      <4>2. /\ One(k = FindNode /\ x = ref) = 0 /\ One(k # FindNode /\ x = ref) = One(x = ref)
            /\ One(x = ref) \in Nat
        BY <3>1 DEF One
      <4>3. /\ Times(u.features, x) \in Nat /\ Cardinality(Asking(u.out, x)) \in Nat
            /\ Cardinality(Checking(u.out, x)) \in Nat
        BY <2>1, WeightsAre
      <4>4. /\ v.fresh = u.fresh /\ v.retry = u.retry /\ v.revisit = u.revisit /\ v.revisitSilent = u.revisitSilent
            /\ v.deferred = u.deferred /\ v.features = u.features
        BY <3>3 DEF IsSend
      <4>5. CheckWeight(v, x) = CheckWeight(u, x) + One(x = ref)
        BY <4>1, <4>2, <4>3, <4>4 DEF CheckWeight
      <4>6. Cardinality(Asking(v.out, x)) = Cardinality(Asking(u.out, x))
        BY <4>1, <4>2, <4>3
      <4>7. Weight(v, x) = Weight(u, x)
        BY <4>4, <4>6 DEF Weight
      <4>8. QED
        BY <2>3, <4>2, <4>5, <4>7
    <3>5. Placed(v) /\ v.cat = t.cat /\ v.sent = u.sent + 1 /\ v.features = u.features
      BY <2>1, <3>3 DEF IsSend
    <3>6. \A q \in v.out : q \in t.out \/ (q.ref \in Refs /\ isCurrent(t.cat, q.ref) /\ q.to = t.cat.entries[q.ref.slot].endpoint)
      BY <2>1, <2>7, <3>3 DEF IsSend
    <3>7. Moved(t.cat, Weights(t), CheckWeights(t), t.out, Weights(v), CheckWeights(v), v.out)
      <4>1. \A x \in Refs : Weights(v)[x] = Weights(t)[x] /\ CheckWeights(v)[x] = CheckWeights(t)[x]
        BY <3>4 DEF Weights, CheckWeights
      <4>2. QED
        BY <3>6, <4>1 DEF Moved
    <3>8. Good(v, A)
      BY <3>5, <3>7, SoundMoved DEF Good
    <3>9. v.sent = t.sent + 1 /\ Len(v.features) = Len(t.features) - 1
      BY <2>1, <3>5, Zenon
    <3>10. QED
      BY <1>1, <3>8, <3>9
  <2>8. QED
    BY <2>2, <2>4, <2>5, <2>6, <2>7
<1>4. QED
  BY <1>1, <1>2, <1>3

\* The members after each node queued for checks.
IsChecking(st, budget, U, after) ==
    /\ after[0] = {st} /\ U = after[Len(st.features)]
    /\ \A k \in 0..(Len(st.features) - 1) : after[k + 1] = UNION {FeatureTurn(t, budget) : t \in after[k]}

\* dispatchFeatures() goes through them.
LEMMA FeatureLoop ==
    ASSUME NEW st, NEW budget, Len(st.features) \in Nat
    PROVE  \E after : IsChecking(st, budget, dispatchFeatures(st, budget), after)
<1> DEFINE n == Len(st.features)
           w0 == {st}
           step(D) == UNION {FeatureTurn(t, budget) : t \in D}
           Body(r, m) == [k \in 0..m |-> IF k = 0 THEN w0 ELSE step(r[k - 1])]
           P == {m \in Nat : \E r : r = Body(r, m)}
           f == CHOOSE h : h = Body(h, n)
<1>1. dispatchFeatures(st, budget) = f[n]
  BY DEF dispatchFeatures
<1> HIDE DEF step, w0, n
<1>0. n \in Nat
  BY DEF n
<1>2. 0 \in P
  <2>1. [k \in 0..0 |-> w0] = Body([k \in 0..0 |-> w0], 0)
    OBVIOUS
  <2>2. QED
    BY <2>1
<1>3. \A m \in 0..(n - 1) : m \in P => m + 1 \in P
  <2> SUFFICES ASSUME NEW m \in 0..(n - 1), m \in P PROVE m + 1 \in P
    OBVIOUS
  <2> PICK r : r = Body(r, m)
    OBVIOUS
  <2> DEFINE q == [k \in 0..(m + 1) |-> IF k = m + 1 THEN step(r[m]) ELSE r[k]]
  <2>1. q = Body(q, m + 1)
    OBVIOUS
  <2>2. \E x : x = Body(x, m + 1)
    BY <2>1
  <2>3. QED
    BY <1>0, <2>2
<1>4. PICK r : r = Body(r, n)
  <2> HIDE DEF P
  <2>1. \A k \in 0..n : k \in P
    BY <1>0, <1>2, <1>3, EveryTurn
  <2>2. n \in P
    BY <1>0, <2>1
  <2>3. QED
    BY <2>2 DEF P
<1>5. f = Body(f, n)
  BY <1>4
<1> HIDE DEF f
<1>6. f[0] = w0 /\ \A k \in 0..(n - 1) : f[k + 1] = step(f[k])
  BY <1>0, <1>5
<1>7. IsChecking(st, budget, dispatchFeatures(st, budget), f)
  BY <1>1, <1>6 DEF IsChecking, step, w0, n
<1>8. QED
  BY <1>7

\* A round through the checks loses none.
LEMMA FeaturesRound ==
    ASSUME NEW st, NEW A, Good(st, A), NEW budget \in Nat, NEW v \in dispatchFeatures(st, budget)
    PROVE  Good(v, A)
<1> DEFINE n == Len(st.features)
           Rest(t, k) == t.sent < budget => Len(t.features) + k >= n
<1>0. n \in Nat
  BY DEF Good, Placed, QueuesOK
<1>1. PICK after : IsChecking(st, budget, dispatchFeatures(st, budget), after)
  BY <1>0, FeatureLoop
<1> DEFINE P == {k \in Nat : \A t \in after[k] : Good(t, A) /\ Rest(t, k)}
<1>2. 0 \in P
  <2>1. after[0] = {st}
    BY <1>1 DEF IsChecking
  <2>2. Rest(st, 0)
    BY <1>0
  <2>3. QED
    BY <2>1, <2>2
<1>3. \A k \in 0..(n - 1) : k \in P => k + 1 \in P
  <2> SUFFICES ASSUME NEW k \in 0..(n - 1), k \in P PROVE k + 1 \in P
    OBVIOUS
  <2>0. k \in Nat /\ k + 1 \in Nat
    BY <1>0
  <2> SUFFICES ASSUME NEW u \in after[k + 1] PROVE Good(u, A) /\ Rest(u, k + 1)
    BY <2>0
  <2>1. u \in UNION {FeatureTurn(t, budget) : t \in after[k]}
    BY <1>1 DEF IsChecking
  <2>2. PICK t \in after[k] : u \in FeatureTurn(t, budget)
    BY <2>1
  <2>3. Good(t, A) /\ Rest(t, k)
    BY <2>2
  <2>4. t.features \in Seq(Refs) /\ Len(t.features) \in Nat /\ t.sent \in Nat
    BY <2>3 DEF Good, Placed, QueuesOK, OutOK
  <2>5. t.sent < budget => t.features # <<>>
    BY <1>0, <2>3, <2>4
  <2>6. /\ Good(u, A) /\ u.sent >= t.sent
        /\ t.sent < budget => Len(u.features) >= Len(t.features) - 1
    BY <2>2, <2>3, <2>5, FeatureTurned
  <2>7. u.features \in Seq(Refs) /\ Len(u.features) \in Nat /\ u.sent \in Nat
    BY <2>6 DEF Good, Placed, QueuesOK, OutOK
  <2>8. Rest(u, k + 1)
    <3> SUFFICES ASSUME u.sent < budget PROVE Len(u.features) + (k + 1) >= n
      OBVIOUS
    <3>1. t.sent < budget
      BY <2>4, <2>6, <2>7
    <3>2. Len(t.features) + k >= n /\ Len(u.features) >= Len(t.features) - 1
      BY <2>3, <2>6, <3>1
    <3> HIDE DEF n, P
    <3>3. \A a, b, m, j \in Nat : b + j >= m /\ a >= b - 1 => a + (j + 1) >= m
      OBVIOUS
    <3>4. QED
      BY <1>0, <2>0, <2>4, <2>7, <3>2, <3>3, Zenon
  <2>9. QED
    BY <2>6, <2>8
<1>4. n \in P
  <2> HIDE DEF P, n
  <2>1. \A k \in 0..n : k \in P
    BY <1>0, <1>2, <1>3, EveryTurn
  <2>2. QED
    BY <1>0, <2>1
<1>5. v \in after[n]
  BY <1>1 DEF IsChecking
<1>6. QED
  BY <1>4, <1>5

\* dispatchNext() clears the first k queues of what is gone at their front.
Cleaned(st, k) ==
    [f \in DOMAIN st |-> IF \E j \in 1..k : Queues[j] = f THEN Dropped(st, st[f]) ELSE st[f]]

\* The queues but those are as they were.
LEMMA CleanedIs ==
    ASSUME NEW st, IsMembers(st), NEW k \in 1..4
    PROVE  LET u == Cleaned(st, k)
           IN /\ IsMembers(u) /\ u.cat = st.cat /\ u.deferred = st.deferred /\ u.features = st.features
              /\ u.out = st.out /\ u.outstanding = st.outstanding /\ u.sent = st.sent
              /\ u.fresh \in {st.fresh, Dropped(st, st.fresh)} /\ u.retry \in {st.retry, Dropped(st, st.retry)}
              /\ u.revisit \in {st.revisit, Dropped(st, st.revisit)}
              /\ u.revisitSilent \in {st.revisitSilent, Dropped(st, st.revisitSilent)}
              /\ u[Queues[k]] = Dropped(st, st[Queues[k]])
<1> DEFINE u == Cleaned(st, k)
           in(f) == \E j \in 1..k : Queues[j] = f
<1>1. /\ Queues[1] = "fresh" /\ Queues[2] = "retry" /\ Queues[3] = "revisit" /\ Queues[4] = "revisitSilent"
      /\ Queues[k] \in {"fresh", "retry", "revisit", "revisitSilent"}
  BY DEF Queues
<1>2. \A j \in 1..k : j = 1 \/ j = 2 \/ j = 3 \/ j = 4
  OBVIOUS
<1>3. \A j \in 1..k : Queues[j] \in {"fresh", "retry", "revisit", "revisitSilent"}
  BY <1>1, <1>2
<1>4. ~in("cat") /\ ~in("deferred") /\ ~in("features") /\ ~in("out") /\ ~in("outstanding") /\ ~in("sent") /\ in(Queues[k])
  BY <1>3
<1>5. DOMAIN u = DOMAIN st /\ \A f \in DOMAIN st : u[f] = IF in(f) THEN Dropped(st, st[f]) ELSE st[f]
  BY DEF Cleaned
<1>6. u = [x \in DOMAIN u |-> u[x]]
  BY DEF Cleaned
<1> HIDE DEF u, in
<1>7. DOMAIN st = {"cat", "fresh", "retry", "revisit", "revisitSilent", "deferred", "features", "out", "outstanding", "sent"}
  BY DEF IsMembers
<1>8. IsMembers(u)
  BY <1>5, <1>6, <1>7 DEF IsMembers
<1>9. u[Queues[k]] = Dropped(st, st[Queues[k]])
  BY <1>1, <1>4, <1>5, <1>7
<1>10. /\ u.cat = st.cat /\ u.deferred = st.deferred /\ u.features = st.features
       /\ u.out = st.out /\ u.outstanding = st.outstanding /\ u.sent = st.sent
  BY <1>4, <1>5, <1>7
<1>11. /\ u.fresh \in {st.fresh, Dropped(st, st.fresh)} /\ u.retry \in {st.retry, Dropped(st, st.retry)}
       /\ u.revisit \in {st.revisit, Dropped(st, st.revisit)}
       /\ u.revisitSilent \in {st.revisitSilent, Dropped(st, st.revisitSilent)}
  BY <1>5, <1>7
<1>12. QED
  BY <1>8, <1>9, <1>10, <1>11 DEF u

\* Nothing current is cleared away.
LEMMA CleanedLighter ==
    ASSUME NEW st, Placed(st), NEW k \in 1..4
    PROVE  Lighter(st, Cleaned(st, k))
<1> DEFINE u == Cleaned(st, k)
<1>1. IsMembers(st) /\ QueuesOK(st) /\ OutOK(st)
  BY DEF Placed
<1>2. /\ IsMembers(u) /\ u.cat = st.cat /\ u.deferred = st.deferred /\ u.features = st.features
      /\ u.out = st.out /\ u.outstanding = st.outstanding /\ u.sent = st.sent
      /\ u.fresh \in {st.fresh, Dropped(st, st.fresh)} /\ u.retry \in {st.retry, Dropped(st, st.retry)}
      /\ u.revisit \in {st.revisit, Dropped(st, st.revisit)}
      /\ u.revisitSilent \in {st.revisitSilent, Dropped(st, st.revisitSilent)}
  BY <1>1, CleanedIs
<1> HIDE DEF u
<1>3. /\ u.fresh \in Seq(Refs)
      /\ \A x \in Refs : Times(u.fresh, x) <= Times(st.fresh, x) /\ (isCurrent(st.cat, x) => Times(u.fresh, x) = Times(st.fresh, x))
  <2>1. st.fresh \in Seq(Refs) /\ \A x \in Refs : Times(st.fresh, x) \in Nat
    BY <1>1, TimesIs DEF QueuesOK
  <2>2. /\ Dropped(st, st.fresh) \in Seq(Refs)
        /\ \A x \in Refs : Times(Dropped(st, st.fresh), x) <= Times(st.fresh, x)
        /\ \A x \in Refs : isCurrent(st.cat, x) => Times(Dropped(st, st.fresh), x) = Times(st.fresh, x)
    BY <2>1, DroppedIs
  <2>3. CASE u.fresh = st.fresh
    BY <2>1, <2>3
  <2>4. CASE u.fresh = Dropped(st, st.fresh)
    BY <2>2, <2>4
  <2>5. QED
    BY <1>2, <2>3, <2>4
<1>4. /\ u.retry \in Seq(Refs)
      /\ \A x \in Refs : Times(u.retry, x) <= Times(st.retry, x) /\ (isCurrent(st.cat, x) => Times(u.retry, x) = Times(st.retry, x))
  <2>1. st.retry \in Seq(Refs) /\ \A x \in Refs : Times(st.retry, x) \in Nat
    BY <1>1, TimesIs DEF QueuesOK
  <2>2. /\ Dropped(st, st.retry) \in Seq(Refs)
        /\ \A x \in Refs : Times(Dropped(st, st.retry), x) <= Times(st.retry, x)
        /\ \A x \in Refs : isCurrent(st.cat, x) => Times(Dropped(st, st.retry), x) = Times(st.retry, x)
    BY <2>1, DroppedIs
  <2>3. CASE u.retry = st.retry
    BY <2>1, <2>3
  <2>4. CASE u.retry = Dropped(st, st.retry)
    BY <2>2, <2>4
  <2>5. QED
    BY <1>2, <2>3, <2>4
<1>5. /\ u.revisit \in Seq(Refs)
      /\ \A x \in Refs : Times(u.revisit, x) <= Times(st.revisit, x) /\ (isCurrent(st.cat, x) => Times(u.revisit, x) = Times(st.revisit, x))
  <2>1. st.revisit \in Seq(Refs) /\ \A x \in Refs : Times(st.revisit, x) \in Nat
    BY <1>1, TimesIs DEF QueuesOK
  <2>2. /\ Dropped(st, st.revisit) \in Seq(Refs)
        /\ \A x \in Refs : Times(Dropped(st, st.revisit), x) <= Times(st.revisit, x)
        /\ \A x \in Refs : isCurrent(st.cat, x) => Times(Dropped(st, st.revisit), x) = Times(st.revisit, x)
    BY <2>1, DroppedIs
  <2>3. CASE u.revisit = st.revisit
    BY <2>1, <2>3
  <2>4. CASE u.revisit = Dropped(st, st.revisit)
    BY <2>2, <2>4
  <2>5. QED
    BY <1>2, <2>3, <2>4
<1>6. /\ u.revisitSilent \in Seq(Refs)
      /\ \A x \in Refs : Times(u.revisitSilent, x) <= Times(st.revisitSilent, x) /\ (isCurrent(st.cat, x) => Times(u.revisitSilent, x) = Times(st.revisitSilent, x))
  <2>1. st.revisitSilent \in Seq(Refs) /\ \A x \in Refs : Times(st.revisitSilent, x) \in Nat
    BY <1>1, TimesIs DEF QueuesOK
  <2>2. /\ Dropped(st, st.revisitSilent) \in Seq(Refs)
        /\ \A x \in Refs : Times(Dropped(st, st.revisitSilent), x) <= Times(st.revisitSilent, x)
        /\ \A x \in Refs : isCurrent(st.cat, x) => Times(Dropped(st, st.revisitSilent), x) = Times(st.revisitSilent, x)
    BY <2>1, DroppedIs
  <2>3. CASE u.revisitSilent = st.revisitSilent
    BY <2>1, <2>3
  <2>4. CASE u.revisitSilent = Dropped(st, st.revisitSilent)
    BY <2>2, <2>4
  <2>5. QED
    BY <1>2, <2>3, <2>4
<1>7. Placed(u)
  BY <1>1, <1>2, <1>3, <1>4, <1>5, <1>6 DEF Placed, QueuesOK, OutOK
<1>8. ASSUME NEW x \in Refs
      PROVE  /\ CheckWeight(u, x) <= CheckWeight(st, x) /\ Weight(u, x) <= Weight(st, x)
             /\ isCurrent(st.cat, x) => Weight(u, x) = Weight(st, x) /\ CheckWeight(u, x) = CheckWeight(st, x)
  <2>1. /\ Times(st.fresh, x) \in Nat /\ Times(st.retry, x) \in Nat /\ Times(st.revisit, x) \in Nat
        /\ Times(st.revisitSilent, x) \in Nat /\ Times(st.deferred, x) \in Nat
        /\ Cardinality(Asking(st.out, x)) \in Nat /\ CheckWeight(st, x) \in Nat
    BY WeightsAre
  <2>2. /\ Times(u.fresh, x) \in Nat /\ Times(u.retry, x) \in Nat /\ Times(u.revisit, x) \in Nat
        /\ Times(u.revisitSilent, x) \in Nat
    BY <1>7, WeightsAre
  <2>3. CheckWeight(u, x) = CheckWeight(st, x)
    BY <1>2 DEF CheckWeight
  <2>4. /\ Times(u.fresh, x) <= Times(st.fresh, x) /\ (isCurrent(st.cat, x) => Times(u.fresh, x) = Times(st.fresh, x))
        /\ Times(u.retry, x) <= Times(st.retry, x) /\ (isCurrent(st.cat, x) => Times(u.retry, x) = Times(st.retry, x))
        /\ Times(u.revisit, x) <= Times(st.revisit, x) /\ (isCurrent(st.cat, x) => Times(u.revisit, x) = Times(st.revisit, x))
        /\ Times(u.revisitSilent, x) <= Times(st.revisitSilent, x)
        /\ (isCurrent(st.cat, x) => Times(u.revisitSilent, x) = Times(st.revisitSilent, x))
    BY <1>3, <1>4, <1>5, <1>6
  <2>5. Weight(u, x) <= Weight(st, x) /\ (isCurrent(st.cat, x) => Weight(u, x) = Weight(st, x))
    BY <1>2, <2>1, <2>2, <2>4 DEF Weight
  <2>6. QED
    BY <2>1, <2>3, <2>5
<1>9. QED
  BY <1>2, <1>7, <1>8 DEF Lighter, u

\* The first of the k-th queue taken.
LEMMA QueueTaken ==
    ASSUME NEW v, Placed(v), NEW k \in 1..4, v[Queues[k]] # <<>>
    PROVE  LET u == [v EXCEPT ![Queues[k]] = Tail(@)]
               ref == Head(v[Queues[k]])
           IN /\ Placed(u) /\ u.cat = v.cat /\ u.out = v.out /\ u.sent = v.sent /\ ref \in Refs
              /\ \A x \in Refs : CheckWeight(u, x) = CheckWeight(v, x) /\ Weight(u, x) = Weight(v, x) - One(x = ref)
<1> DEFINE u == [v EXCEPT ![Queues[k]] = Tail(@)]
           ref == Head(v[Queues[k]])
<1>1. IsMembers(v) /\ QueuesOK(v) /\ OutOK(v)
  BY DEF Placed
<1>2. Queues[1] = "fresh" /\ Queues[2] = "retry" /\ Queues[3] = "revisit" /\ Queues[4] = "revisitSilent"
  BY DEF Queues
<1>3. CASE k = 1
  <2>1. u = [v EXCEPT !.fresh = Tail(v.fresh)] /\ ref = Head(v.fresh) /\ v.fresh # <<>>
    BY <1>2, <1>3
  <2> HIDE DEF u
  <2>2. /\ IsMembers(u) /\ u.cat = v.cat /\ u.deferred = v.deferred /\ u.features = v.features
        /\ u.out = v.out /\ u.outstanding = v.outstanding /\ u.sent = v.sent
        /\ u.fresh = Tail(v.fresh) /\ u.retry = v.retry /\ u.revisit = v.revisit /\ u.revisitSilent = v.revisitSilent
    BY <1>1, <2>1 DEF IsMembers
  <2> HIDE DEF ref
  <2>3. /\ u.fresh \in Seq(Refs) /\ ref \in Refs
        /\ \A x \in Refs : Times(u.fresh, x) = Times(v.fresh, x) - One(ref = x)
    BY <1>1, <2>1, <2>2, TimesTail DEF QueuesOK
  <2>4. Placed(u)
    BY <1>1, <2>2, <2>3 DEF Placed, QueuesOK, OutOK
  <2>5. ASSUME NEW x \in Refs
        PROVE  CheckWeight(u, x) = CheckWeight(v, x) /\ Weight(u, x) = Weight(v, x) - One(x = ref)
    <3>1. /\ Times(v.fresh, x) \in Nat /\ Times(v.retry, x) \in Nat /\ Times(v.revisit, x) \in Nat
          /\ Times(v.revisitSilent, x) \in Nat /\ Times(v.deferred, x) \in Nat
          /\ Cardinality(Asking(v.out, x)) \in Nat
      BY WeightsAre
    <3>2. Times(u.fresh, x) = Times(v.fresh, x) - One(x = ref) /\ One(x = ref) \in Nat
      BY <2>3 DEF One
    <3>3. QED
      BY <2>2, <3>1, <3>2 DEF Weight, CheckWeight
  <2>6. QED
    BY <2>2, <2>3, <2>4, <2>5 DEF u, ref
<1>4. CASE k = 2
  <2>1. u = [v EXCEPT !.retry = Tail(v.retry)] /\ ref = Head(v.retry) /\ v.retry # <<>>
    BY <1>2, <1>4
  <2> HIDE DEF u
  <2>2. /\ IsMembers(u) /\ u.cat = v.cat /\ u.deferred = v.deferred /\ u.features = v.features
        /\ u.out = v.out /\ u.outstanding = v.outstanding /\ u.sent = v.sent
        /\ u.retry = Tail(v.retry) /\ u.fresh = v.fresh /\ u.revisit = v.revisit /\ u.revisitSilent = v.revisitSilent
    BY <1>1, <2>1 DEF IsMembers
  <2> HIDE DEF ref
  <2>3. /\ u.retry \in Seq(Refs) /\ ref \in Refs
        /\ \A x \in Refs : Times(u.retry, x) = Times(v.retry, x) - One(ref = x)
    BY <1>1, <2>1, <2>2, TimesTail DEF QueuesOK
  <2>4. Placed(u)
    BY <1>1, <2>2, <2>3 DEF Placed, QueuesOK, OutOK
  <2>5. ASSUME NEW x \in Refs
        PROVE  CheckWeight(u, x) = CheckWeight(v, x) /\ Weight(u, x) = Weight(v, x) - One(x = ref)
    <3>1. /\ Times(v.fresh, x) \in Nat /\ Times(v.retry, x) \in Nat /\ Times(v.revisit, x) \in Nat
          /\ Times(v.revisitSilent, x) \in Nat /\ Times(v.deferred, x) \in Nat
          /\ Cardinality(Asking(v.out, x)) \in Nat
      BY WeightsAre
    <3>2. Times(u.retry, x) = Times(v.retry, x) - One(x = ref) /\ One(x = ref) \in Nat
      BY <2>3 DEF One
    <3>3. QED
      BY <2>2, <3>1, <3>2, SMTT(30) DEF Weight, CheckWeight
  <2>6. QED
    BY <2>2, <2>3, <2>4, <2>5 DEF u, ref
<1>5. CASE k = 3
  <2>1. u = [v EXCEPT !.revisit = Tail(v.revisit)] /\ ref = Head(v.revisit) /\ v.revisit # <<>>
    BY <1>2, <1>5
  <2> HIDE DEF u
  <2>2. /\ IsMembers(u) /\ u.cat = v.cat /\ u.deferred = v.deferred /\ u.features = v.features
        /\ u.out = v.out /\ u.outstanding = v.outstanding /\ u.sent = v.sent
        /\ u.revisit = Tail(v.revisit) /\ u.fresh = v.fresh /\ u.retry = v.retry /\ u.revisitSilent = v.revisitSilent
    BY <1>1, <2>1 DEF IsMembers
  <2> HIDE DEF ref
  <2>3. /\ u.revisit \in Seq(Refs) /\ ref \in Refs
        /\ \A x \in Refs : Times(u.revisit, x) = Times(v.revisit, x) - One(ref = x)
    BY <1>1, <2>1, <2>2, TimesTail DEF QueuesOK
  <2>4. Placed(u)
    BY <1>1, <2>2, <2>3 DEF Placed, QueuesOK, OutOK
  <2>5. ASSUME NEW x \in Refs
        PROVE  CheckWeight(u, x) = CheckWeight(v, x) /\ Weight(u, x) = Weight(v, x) - One(x = ref)
    <3>1. /\ Times(v.fresh, x) \in Nat /\ Times(v.retry, x) \in Nat /\ Times(v.revisit, x) \in Nat
          /\ Times(v.revisitSilent, x) \in Nat /\ Times(v.deferred, x) \in Nat
          /\ Cardinality(Asking(v.out, x)) \in Nat
      BY WeightsAre
    <3>2. Times(u.revisit, x) = Times(v.revisit, x) - One(x = ref) /\ One(x = ref) \in Nat
      BY <2>3 DEF One
    <3>3. QED
      BY <2>2, <3>1, <3>2 DEF Weight, CheckWeight
  <2>6. QED
    BY <2>2, <2>3, <2>4, <2>5 DEF u, ref
<1>6. CASE k = 4
  <2>1. u = [v EXCEPT !.revisitSilent = Tail(v.revisitSilent)] /\ ref = Head(v.revisitSilent) /\ v.revisitSilent # <<>>
    BY <1>2, <1>6
  <2> HIDE DEF u
  <2>2. /\ IsMembers(u) /\ u.cat = v.cat /\ u.deferred = v.deferred /\ u.features = v.features
        /\ u.out = v.out /\ u.outstanding = v.outstanding /\ u.sent = v.sent
        /\ u.revisitSilent = Tail(v.revisitSilent) /\ u.fresh = v.fresh /\ u.retry = v.retry /\ u.revisit = v.revisit
    BY <1>1, <2>1 DEF IsMembers
  <2> HIDE DEF ref
  <2>3. /\ u.revisitSilent \in Seq(Refs) /\ ref \in Refs
        /\ \A x \in Refs : Times(u.revisitSilent, x) = Times(v.revisitSilent, x) - One(ref = x)
    BY <1>1, <2>1, <2>2, TimesTail DEF QueuesOK
  <2>4. Placed(u)
    BY <1>1, <2>2, <2>3 DEF Placed, QueuesOK, OutOK
  <2>5. ASSUME NEW x \in Refs
        PROVE  CheckWeight(u, x) = CheckWeight(v, x) /\ Weight(u, x) = Weight(v, x) - One(x = ref)
    <3>1. /\ Times(v.fresh, x) \in Nat /\ Times(v.retry, x) \in Nat /\ Times(v.revisit, x) \in Nat
          /\ Times(v.revisitSilent, x) \in Nat /\ Times(v.deferred, x) \in Nat
          /\ Cardinality(Asking(v.out, x)) \in Nat
      BY WeightsAre
    <3>2. Times(u.revisitSilent, x) = Times(v.revisitSilent, x) - One(x = ref) /\ One(x = ref) \in Nat
      BY <2>3 DEF One
    <3>3. QED
      BY <2>2, <3>1, <3>2 DEF Weight, CheckWeight
  <2>6. QED
    BY <2>2, <2>3, <2>4, <2>5 DEF u, ref
<1>7. k = 1 \/ k = 2 \/ k = 3 \/ k = 4
  OBVIOUS
<1>8. QED
  BY <1>3, <1>4, <1>5, <1>6, <1>7, Zenon

\* dispatchNext() asks or sets aside one node, or finds none.
LEMMA NextDispatched ==
    ASSUME NEW t, NEW A, Good(t, A), NEW v \in dispatchNext(t)
    PROVE  Good(v, A)
<1> DEFINE left(k) == Dropped(t, t[Queues[k]])
           b(k) == Cleaned(t, k)
           u(k) == [b(k) EXCEPT ![Queues[k]] = Tail(@)]
<1>1. Placed(t) /\ IsMembers(t)
  BY DEF Good, Placed
<1>2. \/ v = b(4)
      \/ \E k \in 1..4 : left(k) # <<>> /\ v \in {ask(u(k), Head(left(k))),
                                 [u(k) EXCEPT !.deferred = Append(@, Head(left(k))), !.sent = @ + 1]}
  <2> DEFINE L == [k \in 1..4 |-> left(k)]
             found(k) == {ask(u(k), Head(L[k])), [u(k) EXCEPT !.deferred = Append(@, Head(L[k])), !.sent = @ + 1]}
             reachable == IF L[1] # <<>> THEN {1} ELSE {k \in 2..4 : L[k] # <<>>}
  <2>1. v \in (UNION {found(k) : k \in reachable}) \cup (IF L[1] = <<>> THEN {b(4)} ELSE {})
    BY DEF dispatchNext, Cleaned
  <2>2. \A k \in 1..4 : L[k] = left(k)
    OBVIOUS
  <2>3. reachable \subseteq 1..4 /\ \A k \in reachable : L[k] # <<>>
    BY <2>2
  <2> HIDE DEF L, reachable, left, b, found, u
  <2>4. v = b(4) \/ \E k \in reachable : v \in found(k)
    <3> DEFINE F == {found(k) : k \in reachable}
               E == IF L[1] = <<>> THEN {b(4)} ELSE {}
    <3>1. v \in UNION F \/ v \in E
      BY <2>1
    <3>2. v \in E => v = b(4)
      OBVIOUS
    <3>3. v \in UNION F => \E k \in reachable : v \in found(k)
      OBVIOUS
    <3>4. QED
      BY <3>1, <3>2, <3>3, Zenon
  <2>5. QED
    BY <2>2, <2>3, <2>4 DEF found
<1>3. \A k \in 1..4 : Lighter(t, b(k))
  BY <1>1, CleanedLighter
<1>4. CASE v = b(4)
  BY <1>3, <1>4, GoodLighter
<1>5. ASSUME NEW k \in 1..4, left(k) # <<>>,
             v \in {ask(u(k), Head(left(k))), [u(k) EXCEPT !.deferred = Append(@, Head(left(k))), !.sent = @ + 1]}
      PROVE  Good(v, A)
  <2> DEFINE w == u(k)
             ref == Head(left(k))
  <2>1. Placed(b(k)) /\ b(k).cat = t.cat /\ b(k).out = t.out
    BY <1>3 DEF Lighter
  <2>2. b(k)[Queues[k]] = left(k)
    BY <1>1, CleanedIs
  <2>3. /\ Placed(w) /\ w.cat = b(k).cat /\ w.out = b(k).out /\ ref \in Refs
        /\ \A x \in Refs : CheckWeight(w, x) = CheckWeight(b(k), x) /\ Weight(w, x) = Weight(b(k), x) - One(x = ref)
    <3> DEFINE y == b(k)
    <3>1. Placed(y) /\ y[Queues[k]] # <<>> /\ ref = Head(y[Queues[k]]) /\ w = [y EXCEPT ![Queues[k]] = Tail(@)]
      BY <1>5, <2>1, <2>2
    <3> HIDE DEF y, w, ref, u, b
    <3>2. LET z == [y EXCEPT ![Queues[k]] = Tail(@)]
              r == Head(y[Queues[k]])
          IN /\ Placed(z) /\ z.cat = y.cat /\ z.out = y.out /\ r \in Refs
             /\ \A x \in Refs : CheckWeight(z, x) = CheckWeight(y, x) /\ Weight(z, x) = Weight(y, x) - One(x = r)
      BY <3>1, QueueTaken
    <3>3. QED
      BY <3>1, <3>2 DEF y
  <2>4. isCurrent(t.cat, ref)
    <3>1. t[Queues[k]] \in Seq(Refs)
      <4>1. Queues[1] = "fresh" /\ Queues[2] = "retry" /\ Queues[3] = "revisit" /\ Queues[4] = "revisitSilent"
        BY DEF Queues
      <4>2. k = 1 \/ k = 2 \/ k = 3 \/ k = 4
        OBVIOUS
      <4>3. QED
        BY <1>1, <4>1, <4>2 DEF Placed, QueuesOK
    <3>2. QED
      BY <1>5, <3>1, DroppedIs
  <2> HIDE DEF w, ref, left, b, u
  <2>5. Taken(t, w, ref)
    <3>1. ASSUME NEW x \in Refs
          PROVE  /\ CheckWeight(w, x) = CheckWeight(t, x) /\ Weight(w, x) <= Weight(t, x)
                 /\ isCurrent(t.cat, x) => Weight(w, x) = Weight(t, x) - One(x = ref)
      <4>1. /\ CheckWeight(w, x) = CheckWeight(b(k), x) /\ Weight(w, x) = Weight(b(k), x) - One(x = ref)
            /\ One(x = ref) \in Nat
        BY <2>3 DEF One
      <4>2. /\ CheckWeight(b(k), x) = CheckWeight(t, x) /\ Weight(b(k), x) <= Weight(t, x)
            /\ isCurrent(t.cat, x) => Weight(b(k), x) = Weight(t, x)
        <5>1. b(k).features = t.features
          BY <1>1, CleanedIs DEF b
        <5>2. CheckWeight(b(k), x) = CheckWeight(t, x)
          BY <2>1, <5>1 DEF CheckWeight
        <5>3. QED
          BY <1>3, <5>2 DEF Lighter
      <4>3. Weight(t, x) \in Nat /\ Weight(b(k), x) \in Nat
        BY <1>1, <2>1, WeightsAre
      <4>4. QED
        BY <4>1, <4>2, <4>3
    <3>2. QED
      BY <2>1, <2>3, <2>4, <3>1 DEF Taken
  <2>6. CASE v = ask(w, ref)
    BY <2>5, <2>6, Asked
  <2>7. CASE v = [w EXCEPT !.deferred = Append(@, ref), !.sent = @ + 1]
    <3>1. w.sent \in Nat /\ IsMembers(w)
      BY <2>3 DEF Placed, OutOK
    <3>2. v = SetAside(w, ref, w.sent + 1)
      BY <2>7, <3>1 DEF SetAside, IsMembers
    <3>3. w.sent + 1 \in Nat
      BY <3>1
    <3>4. QED
      BY <2>5, <3>2, <3>3, WasSetAside
  <2>8. QED
    BY <1>5, <2>6, <2>7 DEF w, ref
<1>6. QED
  BY <1>2, <1>4, <1>5

\* A turn of the scan's loop.
ScanTurn(t, budget) == {t} \cup (IF t.sent < budget THEN dispatchNext(t) ELSE {})

\* The members after each node asked.
IsScan(st, budget, U, after) ==
    /\ after[0] = {st} /\ U = after[budget]
    /\ \A k \in 0..(budget - 1) : after[k + 1] = UNION {ScanTurn(t, budget) : t \in after[k]}

\* The scan's loop goes through them.
LEMMA ScanLoop ==
    ASSUME NEW st, NEW budget, budget \in Nat
    PROVE  \E after : IsScan(st, budget, Scan(st, budget), after)
<1> DEFINE n == budget
           w0 == {st}
           step(D) == UNION {ScanTurn(t, budget) : t \in D}
           Body(r, m) == [k \in 0..m |-> IF k = 0 THEN w0 ELSE step(r[k - 1])]
           P == {m \in Nat : \E r : r = Body(r, m)}
           f == CHOOSE h : h = Body(h, n)
<1>1. Scan(st, budget) = f[n]
  BY DEF Scan, ScanTurn
<1> HIDE DEF step, w0, n
<1>0. n \in Nat
  BY DEF n
<1>2. 0 \in P
  <2>1. [k \in 0..0 |-> w0] = Body([k \in 0..0 |-> w0], 0)
    OBVIOUS
  <2>2. QED
    BY <2>1
<1>3. \A m \in 0..(n - 1) : m \in P => m + 1 \in P
  <2> SUFFICES ASSUME NEW m \in 0..(n - 1), m \in P PROVE m + 1 \in P
    OBVIOUS
  <2> PICK r : r = Body(r, m)
    OBVIOUS
  <2> DEFINE q == [k \in 0..(m + 1) |-> IF k = m + 1 THEN step(r[m]) ELSE r[k]]
  <2>1. q = Body(q, m + 1)
    OBVIOUS
  <2>2. \E x : x = Body(x, m + 1)
    BY <2>1
  <2>3. QED
    BY <1>0, <2>2
<1>4. PICK r : r = Body(r, n)
  <2> HIDE DEF P
  <2>1. \A k \in 0..n : k \in P
    BY <1>0, <1>2, <1>3, EveryTurn
  <2>2. n \in P
    BY <1>0, <2>1
  <2>3. QED
    BY <2>2 DEF P
<1>5. f = Body(f, n)
  BY <1>4
<1> HIDE DEF f
<1>6. f[0] = w0 /\ \A k \in 0..(n - 1) : f[k + 1] = step(f[k])
  BY <1>0, <1>5
<1>7. IsScan(st, budget, Scan(st, budget), f)
  BY <1>1, <1>6 DEF IsScan, step, w0, n
<1>8. QED
  BY <1>7


\* The scan's loop keeps every node in its place.
LEMMA ScanDone ==
    ASSUME NEW st, NEW A, Good(st, A), NEW budget \in Nat, NEW v \in Scan(st, budget)
    PROVE  Good(v, A)
<1>1. PICK after : IsScan(st, budget, Scan(st, budget), after)
  BY ScanLoop
<1> DEFINE P == {k \in Nat : \A t \in after[k] : Good(t, A)}
<1>2. 0 \in P
  <2>1. after[0] = {st}
    BY <1>1 DEF IsScan
  <2>2. QED
    BY <2>1
<1>3. \A k \in 0..(budget - 1) : k \in P => k + 1 \in P
  <2> SUFFICES ASSUME NEW k \in 0..(budget - 1), k \in P, NEW u \in after[k + 1] PROVE Good(u, A)
    OBVIOUS
  <2>1. u \in UNION {ScanTurn(t, budget) : t \in after[k]}
    BY <1>1 DEF IsScan
  <2>2. PICK t \in after[k] : u \in ScanTurn(t, budget)
    BY <2>1
  <2>3. Good(t, A)
    BY <2>2
  <2>4. u = t \/ u \in dispatchNext(t)
    BY <2>2 DEF ScanTurn
  <2>5. QED
    BY <2>3, <2>4, NextDispatched
<1>4. budget \in P
  <2> HIDE DEF P
  <2>1. \A k \in 0..budget : k \in P
    BY <1>2, <1>3, EveryTurn
  <2>2. QED
    BY <2>1
<1>5. v \in after[budget]
  BY <1>1 DEF IsScan
<1>6. QED
  BY <1>4, <1>5

\* The scan's share is not negative.
LEMMA ShareIs ==
    ASSUME NEW batch \in MinBatch..MaxBatch
    PROVE  batch \in Nat /\ ScanShare(batch) \in Nat
<1>1. MinBatch \in Nat \ {0} /\ MaxBatch \in Nat \ {0}
  BY CrawlerAssumption
<1>2. batch \in Nat /\ batch >= 1
  BY <1>1
<1>3. batch \div 4 \in Nat /\ batch \div 4 <= batch
  BY <1>2
<1>4. QED
  BY <1>2, <1>3 DEF ScanShare

\* The four loops of a tick keep every node in its place.
LEMMA DispatchedIs ==
    ASSUME NEW st, NEW A, Good(st, A), NEW batch \in MinBatch..MaxBatch, NEW v \in Dispatched(st, batch)
    PROVE  Good(v, A)
<1> DEFINE n == ScanShare(batch)
           s1 == {st} \cup dispatchDeferred(st, n)
           s2 == UNION {Scan(t, n) : t \in s1}
           s3 == s2 \cup UNION {dispatchFeatures(t, batch) : t \in s2}
<1>1. n \in Nat /\ batch \in Nat
  BY ShareIs
<1>2. v \in UNION {Scan(t, batch) : t \in s3}
  BY DEF Dispatched
<1> HIDE DEF n
<1>3. \A t \in s1 : Good(t, A)
  <2> SUFFICES ASSUME NEW t \in s1 PROVE Good(t, A)
    OBVIOUS
  <2>1. t = st \/ t \in dispatchDeferred(st, n)
    OBVIOUS
  <2>2. QED
    BY <1>1, <2>1, DeferredDone
<1> HIDE DEF s1
<1>4. \A t \in s2 : Good(t, A)
  <2> SUFFICES ASSUME NEW t \in s2 PROVE Good(t, A)
    OBVIOUS
  <2>1. PICK u \in s1 : t \in Scan(u, n)
    OBVIOUS
  <2>2. QED
    BY <1>1, <1>3, <2>1, ScanDone
<1> HIDE DEF s2
<1>5. \A t \in s3 : Good(t, A)
  <2> SUFFICES ASSUME NEW t \in s3 PROVE Good(t, A)
    OBVIOUS
  <2>1. t \in s2 \/ \E u \in s2 : t \in dispatchFeatures(u, batch)
    OBVIOUS
  <2>2. QED
    BY <1>1, <1>4, <2>1, FeaturesRound
<1> HIDE DEF s3
<1>6. PICK u \in s3 : v \in Scan(u, batch)
  BY <1>2
<1>7. QED
  BY <1>1, <1>5, <1>6, ScanDone

\* What is the same but for m_sent is as good.
LEMMA SameMembers ==
    ASSUME NEW t, NEW A, Good(t, A), NEW u, IsMembers(u), u.sent \in Nat, u.cat = t.cat, u.fresh = t.fresh,
           u.retry = t.retry, u.revisit = t.revisit, u.revisitSilent = t.revisitSilent, u.deferred = t.deferred,
           u.features = t.features, u.out = t.out, u.outstanding = t.outstanding
    PROVE  Good(u, A)
<1>1. Placed(u)
  BY DEF Good, Placed, QueuesOK, OutOK
<1>2. Weights(u) = Weights(t)
  <2>1. \A x \in Refs : Weight(u, x) = Weight(t, x)
    BY DEF Weight
  <2>2. QED
    BY <2>1 DEF Weights
<1>3. CheckWeights(u) = CheckWeights(t)
  <2>1. \A x \in Refs : CheckWeight(u, x) = CheckWeight(t, x)
    BY DEF CheckWeight
  <2>2. QED
    BY <2>1 DEF CheckWeights
<1>4. Sound(t.cat, Weights(t), CheckWeights(t), t.out, A)
  BY DEF Good
<1>5. QED
  BY <1>1, <1>2, <1>3, <1>4 DEF Good

\* The members are the variables.
LEMMA MembersAre ==
    /\ IsMembers(Members) /\ Members.sent = 0 /\ Members.cat = cat /\ Members.fresh = fresh
    /\ Members.retry = retry /\ Members.revisit = revisit /\ Members.revisitSilent = revisitSilent
    /\ Members.deferred = deferred /\ Members.features = features /\ Members.out = out
    /\ Members.outstanding = outstanding
<1>1. IsMembers(Members)
  BY DEF Members, IsMembers
<1>2. QED
  BY <1>1 DEF Members

\* A step that leaves the variables as v has them.
LEMMA NowMembers ==
    ASSUME NEW v, Good(v, alive'), cat' = v.cat, fresh' = v.fresh, retry' = v.retry, revisit' = v.revisit,
           revisitSilent' = v.revisitSilent, deferred' = v.deferred, features' = v.features,
           out' = v.out, outstanding' = v.outstanding
    PROVE  Good(Members, alive)'
<1> DEFINE m == Members'
<1>1. /\ IsMembers(m) /\ m.sent = 0 /\ m.cat = cat' /\ m.fresh = fresh'
      /\ m.retry = retry' /\ m.revisit = revisit' /\ m.revisitSilent = revisitSilent'
      /\ m.deferred = deferred' /\ m.features = features' /\ m.out = out'
      /\ m.outstanding = outstanding'
  <2>1. IsMembers(m)
    BY DEF Members, IsMembers
  <2>2. QED
    BY <2>1 DEF Members
<1> HIDE DEF m
<1>2. Good(m, alive')
  BY <1>1, SameMembers
<1>3. QED
  BY <1>2 DEF m

\* One more endpoint that has answered hurts nobody.
LEMMA SoundMore ==
    ASSUME NEW c, NEW W, NEW V, NEW O, NEW A, Sound(c, W, V, O, A), NEW B, A \subseteq B
    PROVE  Sound(c, W, V, O, B)
<1>1. ASSUME NEW x \in Refs, isCurrent(c, x) PROVE Fits(c.entries[x.slot], W[x], V[x], B)
  <2>1. Fits(c.entries[x.slot], W[x], V[x], A)
    BY <1>1 DEF Sound
  <2>2. QED
    BY <2>1 DEF Fits
<1>2. QED
  BY <1>1 DEF Sound

\* A handler that takes references to nodes that are gone, and queries, away.
LEMMA GoodGone ==
    ASSUME NEW t, NEW A, Good(t, A), NEW B, A \subseteq B, NEW v, Placed(v), v.cat = t.cat, v.out \subseteq t.out,
           \A x \in Refs : Weight(v, x) <= Weight(t, x) /\ CheckWeight(v, x) <= CheckWeight(t, x),
           \A x \in Refs : isCurrent(t.cat, x) => Weight(v, x) = Weight(t, x) /\ CheckWeight(v, x) = CheckWeight(t, x)
    PROVE  Good(v, B)
<1>1. Placed(t) /\ Sound(t.cat, Weights(t), CheckWeights(t), t.out, A)
  BY DEF Good
<1>2. ASSUME NEW x \in Refs
      PROVE  /\ Weights(t)[x] = Weight(t, x) /\ CheckWeights(t)[x] = CheckWeight(t, x)
             /\ Weights(v)[x] = Weight(v, x) /\ CheckWeights(v)[x] = CheckWeight(v, x)
             /\ Weight(t, x) \in Nat /\ CheckWeight(t, x) \in Nat /\ Weight(v, x) \in Nat /\ CheckWeight(v, x) \in Nat
  BY <1>1, WeightsAre
<1>3. Moved(t.cat, Weights(t), CheckWeights(t), t.out, Weights(v), CheckWeights(v), v.out)
  <2>1. ASSUME NEW x \in Refs
        PROVE  /\ isCurrent(t.cat, x) => Weights(v)[x] = Weights(t)[x] /\ CheckWeights(v)[x] = CheckWeights(t)[x]
               /\ Weights(t)[x] = 0 => Weights(v)[x] = 0
               /\ CheckWeights(t)[x] = 0 => CheckWeights(v)[x] = 0
    BY <1>2
  <2>2. QED
    BY <2>1 DEF Moved
<1>4. Sound(t.cat, Weights(v), CheckWeights(v), v.out, A)
  BY <1>1, <1>3, SoundMoved
<1>5. Sound(t.cat, Weights(v), CheckWeights(v), v.out, B)
  BY <1>4, SoundMore
<1>6. QED
  BY <1>5 DEF Good

\* A handler that writes the entry of ref and moves the node.
LEMMA GoodWritten ==
    ASSUME NEW t, NEW A, Good(t, A), NEW B, A \subseteq B, NEW v, Placed(v), v.out \subseteq t.out,
           NEW ref \in Refs, isCurrent(t.cat, ref),
           NEW n \in Entry, n.endpoint = t.cat.entries[ref.slot].endpoint,
           n.generation = t.cat.entries[ref.slot].generation, n.inUse, v.cat = Put(t.cat, ref.slot, n),
           \A x \in Refs : x # ref => Weight(v, x) = Weight(t, x) /\ CheckWeight(v, x) = CheckWeight(t, x),
           Fits(n, Weight(v, ref), CheckWeight(v, ref), B)
    PROVE  Good(v, B)
<1>1. Placed(t) /\ Sound(t.cat, Weights(t), CheckWeights(t), t.out, A) /\ CatOK(t.cat)
  BY DEF Good, Sound
<1>2. ASSUME NEW x \in Refs
      PROVE  /\ Weights(t)[x] = Weight(t, x) /\ CheckWeights(t)[x] = CheckWeight(t, x)
             /\ Weights(v)[x] = Weight(v, x) /\ CheckWeights(v)[x] = CheckWeight(v, x)
  BY <1>1, WeightsAre
<1>3. ref.slot \in InUse(t.cat)
  BY <1>1, CurrentIs
<1>4. IsRewrite(t.cat, v.cat, ref.slot) /\ v.cat.entries[ref.slot] = n
  BY <1>1, <1>3, PutIs
<1>5. SameBut(Weights(t), CheckWeights(t), t.out, A, Weights(v), CheckWeights(v), v.out, B, ref)
  BY <1>2 DEF SameBut
<1>6. Fits(v.cat.entries[ref.slot], Weights(v)[ref], CheckWeights(v)[ref], B)
  BY <1>2, <1>4
<1>7. Sound(v.cat, Weights(v), CheckWeights(v), v.out, B)
  BY <1>1, <1>4, <1>5, <1>6, SoundRewritten
<1>8. QED
  BY <1>7 DEF Good

\* The members without the query q.
Without(t, q) == [t EXCEPT !.out = t.out \ {q}, !.outstanding = t.outstanding - 1]

\* Its node weighs one less.
LEMMA WithoutIs ==
    ASSUME NEW t, Placed(t), NEW q \in t.out
    PROVE  LET u == Without(t, q)
           IN /\ Placed(u) /\ u.cat = t.cat /\ u.fresh = t.fresh /\ u.retry = t.retry /\ u.revisit = t.revisit
              /\ u.revisitSilent = t.revisitSilent /\ u.deferred = t.deferred /\ u.features = t.features
              /\ u.out = t.out \ {q} /\ u.outstanding = t.outstanding - 1 /\ u.sent = t.sent /\ q.ref \in Refs
              /\ \A x \in Refs : /\ Weight(u, x) = Weight(t, x) - One(q.kind = FindNode /\ x = q.ref)
                                 /\ CheckWeight(u, x) = CheckWeight(t, x) - One(q.kind # FindNode /\ x = q.ref)
<1> DEFINE u == Without(t, q)
<1>1. /\ IsMembers(t) /\ QueuesOK(t) /\ OutOK(t)
  BY DEF Placed
<1>2. /\ IsMembers(u) /\ u.cat = t.cat /\ u.fresh = t.fresh /\ u.retry = t.retry /\ u.revisit = t.revisit
      /\ u.revisitSilent = t.revisitSilent /\ u.deferred = t.deferred /\ u.features = t.features
      /\ u.out = t.out \ {q} /\ u.outstanding = t.outstanding - 1 /\ u.sent = t.sent
  BY <1>1 DEF Without, IsMembers
<1> HIDE DEF u
<1>3. /\ IsFiniteSet(u.out) /\ Cardinality(u.out) = Cardinality(t.out) - 1
  <2>1. IsFiniteSet(t.out) /\ u.out \ {q} = t.out \ {q} /\ q \in t.out /\ q \notin u.out
    BY <1>1, <1>2 DEF OutOK
  <2>2. /\ IsFiniteSet(u.out) /\ Cardinality(u.out) \in Nat /\ Cardinality(t.out) \in Nat
        /\ Cardinality(u.out) = Cardinality(t.out) - One(q \in t.out) + One(q \in u.out)
    BY <2>1, Recounted
  <2>3. QED
    BY <2>1, <2>2 DEF One
<1>4. Placed(u)
  BY <1>1, <1>2, <1>3 DEF Placed, QueuesOK, OutOK
<1>5. q.ref \in Refs
  BY <1>1 DEF OutOK, Queries
<1>6. ASSUME NEW x \in Refs
      PROVE  /\ Weight(u, x) = Weight(t, x) - One(q.kind = FindNode /\ x = q.ref)
             /\ CheckWeight(u, x) = CheckWeight(t, x) - One(q.kind # FindNode /\ x = q.ref)
  <2>1. /\ Times(t.fresh, x) \in Nat /\ Times(t.retry, x) \in Nat /\ Times(t.revisit, x) \in Nat
        /\ Times(t.revisitSilent, x) \in Nat /\ Times(t.deferred, x) \in Nat /\ Times(t.features, x) \in Nat
        /\ IsFiniteSet(Asking(t.out, x)) /\ IsFiniteSet(Checking(t.out, x))
    BY WeightsAre
  <2>2. /\ Cardinality(Asking(u.out, x)) \in Nat /\ Cardinality(Asking(t.out, x)) \in Nat
        /\ Cardinality(Asking(u.out, x)) = Cardinality(Asking(t.out, x)) - One(q.kind = FindNode /\ x = q.ref)
    <3> DEFINE S == Asking(t.out, x)
               T == Asking(u.out, x)
    <3>1. IsFiniteSet(S) /\ T \ {q} = S \ {q} /\ q \notin T /\ (q \in S <=> q.kind = FindNode /\ x = q.ref)
      BY <1>2, <2>1 DEF Asking
    <3> HIDE DEF S, T
    <3>2. Cardinality(T) \in Nat /\ Cardinality(S) \in Nat /\ Cardinality(T) = Cardinality(S) - One(q \in S) + One(q \in T)
      BY <3>1, Recounted
    <3>3. Cardinality(T) \in Nat /\ Cardinality(S) \in Nat
          /\ Cardinality(T) = Cardinality(S) - One(q.kind = FindNode /\ x = q.ref)
      BY <3>1, <3>2 DEF One
    <3>4. QED
      BY <3>3 DEF S, T
  <2>3. /\ Cardinality(Checking(u.out, x)) \in Nat /\ Cardinality(Checking(t.out, x)) \in Nat
        /\ Cardinality(Checking(u.out, x)) = Cardinality(Checking(t.out, x)) - One(q.kind # FindNode /\ x = q.ref)
    <3> DEFINE S == Checking(t.out, x)
               T == Checking(u.out, x)
    <3>1. IsFiniteSet(S) /\ T \ {q} = S \ {q} /\ q \notin T /\ (q \in S <=> q.kind # FindNode /\ x = q.ref)
      BY <1>2, <2>1 DEF Checking
    <3> HIDE DEF S, T
    <3>2. Cardinality(T) \in Nat /\ Cardinality(S) \in Nat /\ Cardinality(T) = Cardinality(S) - One(q \in S) + One(q \in T)
      BY <3>1, Recounted
    <3>3. Cardinality(T) \in Nat /\ Cardinality(S) \in Nat
          /\ Cardinality(T) = Cardinality(S) - One(q.kind # FindNode /\ x = q.ref)
      BY <3>1, <3>2 DEF One
    <3>4. QED
      BY <3>3 DEF S, T
  <2>4. One(q.kind = FindNode /\ x = q.ref) \in Nat /\ One(q.kind # FindNode /\ x = q.ref) \in Nat
    BY DEF One
  <2>5. QED
    BY <1>2, <2>1, <2>2, <2>3, <2>4 DEF Weight, CheckWeight
<1>7. QED
  BY <1>2, <1>4, <1>5, <1>6 DEF u

\* The queue, with ref at its end if b.
Joining(q, b, ref) == IF b THEN Append(q, ref) ELSE q

\* It weighs one more, if so.
LEMMA JoiningIs ==
    ASSUME NEW q \in Seq(Refs), NEW b \in BOOLEAN, NEW ref \in Refs
    PROVE  Joining(q, b, ref) \in Seq(Refs) /\ \A x \in Refs : Times(Joining(q, b, ref), x) = Times(q, x) + One(b /\ x = ref)
<1>1. CASE b
  <2>1. Joining(q, b, ref) = Append(q, ref)
    BY <1>1 DEF Joining
  <2>2. \A x : Append(q, ref) \in Seq(Refs) /\ Times(Append(q, ref), x) = Times(q, x) + One(ref = x)
    BY TimesAppend
  <2>3. \A x : One(b /\ x = ref) = One(ref = x)
    BY <1>1 DEF One
  <2>4. QED
    BY <2>1, <2>2, <2>3, Zenon
<1>2. CASE ~b
  <2>1. Joining(q, b, ref) = q
    BY <1>2 DEF Joining
  <2>2. ASSUME NEW x \in Refs PROVE Times(q, x) = Times(q, x) + One(b /\ x = ref)
    <3>1. Times(q, x) \in Nat
      BY TimesIs
    <3>2. One(b /\ x = ref) = 0
      BY <1>2 DEF One
    <3>3. QED
      BY <3>1, <3>2
  <2>3. QED
    BY <2>1, <2>2, Zenon
<1>3. QED
  BY <1>1, <1>2

\* The members after the callback of q: the catalogue is c, and its reference joins those
\* queues that b1 to b4 say.
Handled(t, q, c, b1, b2, b3, b4) ==
    [Without(t, q) EXCEPT !.cat = c, !.retry = Joining(t.retry, b1, q.ref), !.revisit = Joining(t.revisit, b2, q.ref),
                          !.revisitSilent = Joining(t.revisitSilent, b3, q.ref),
                          !.features = Joining(t.features, b4, q.ref)]

\* What v, which are such members, weigh.
IsHandled(t, v, q, c, b1, b2, b3, b4) ==
    /\ Placed(v) /\ v.cat = c /\ v.fresh = t.fresh /\ v.deferred = t.deferred
    /\ v.retry = Joining(t.retry, b1, q.ref) /\ v.revisit = Joining(t.revisit, b2, q.ref)
    /\ v.revisitSilent = Joining(t.revisitSilent, b3, q.ref) /\ v.features = Joining(t.features, b4, q.ref)
    /\ v.out = t.out \ {q} /\ v.outstanding = t.outstanding - 1 /\ q.ref \in Refs
    /\ \A x \in Refs :
          /\ Weight(v, x) = Weight(t, x) - One(q.kind = FindNode /\ x = q.ref)
                              + One(b1 /\ x = q.ref) + One(b2 /\ x = q.ref) + One(b3 /\ x = q.ref)
          /\ CheckWeight(v, x) = CheckWeight(t, x) - One(q.kind # FindNode /\ x = q.ref) + One(b4 /\ x = q.ref)

\* Handled() makes them.
LEMMA HandledIs ==
    ASSUME NEW t, Placed(t), NEW q \in t.out, NEW c,
           NEW b1 \in BOOLEAN, NEW b2 \in BOOLEAN, NEW b3 \in BOOLEAN, NEW b4 \in BOOLEAN
    PROVE  IsHandled(t, Handled(t, q, c, b1, b2, b3, b4), q, c, b1, b2, b3, b4)
<1> DEFINE u == Without(t, q)
           v == Handled(t, q, c, b1, b2, b3, b4)
<1>1. /\ Placed(u) /\ u.cat = t.cat /\ u.fresh = t.fresh /\ u.retry = t.retry /\ u.revisit = t.revisit
      /\ u.revisitSilent = t.revisitSilent /\ u.deferred = t.deferred /\ u.features = t.features
      /\ u.out = t.out \ {q} /\ u.outstanding = t.outstanding - 1 /\ u.sent = t.sent /\ q.ref \in Refs
      /\ \A x \in Refs : /\ Weight(u, x) = Weight(t, x) - One(q.kind = FindNode /\ x = q.ref)
                         /\ CheckWeight(u, x) = CheckWeight(t, x) - One(q.kind # FindNode /\ x = q.ref)
  BY WithoutIs
<1>2. v = [u EXCEPT !.cat = c, !.retry = Joining(t.retry, b1, q.ref), !.revisit = Joining(t.revisit, b2, q.ref),
                    !.revisitSilent = Joining(t.revisitSilent, b3, q.ref), !.features = Joining(t.features, b4, q.ref)]
  BY DEF Handled
<1> HIDE DEF u, v
<1>3. /\ IsMembers(v) /\ v.cat = c /\ v.fresh = u.fresh /\ v.deferred = u.deferred
      /\ v.retry = Joining(t.retry, b1, q.ref) /\ v.revisit = Joining(t.revisit, b2, q.ref)
      /\ v.revisitSilent = Joining(t.revisitSilent, b3, q.ref) /\ v.features = Joining(t.features, b4, q.ref)
      /\ v.out = u.out /\ v.outstanding = u.outstanding /\ v.sent = u.sent
  <2>1. IsMembers(u)
    BY <1>1 DEF Placed
  <2>2. QED
    BY <1>2, <2>1 DEF IsMembers
<1>4. t.retry \in Seq(Refs) /\ t.revisit \in Seq(Refs) /\ t.revisitSilent \in Seq(Refs) /\ t.features \in Seq(Refs)
  BY DEF Placed, QueuesOK
<1>r. q.ref \in Refs
  BY <1>1
<1>j. \A y \in Seq(Refs), b \in BOOLEAN, r \in Refs :
         Joining(y, b, r) \in Seq(Refs) /\ \A x \in Refs : Times(Joining(y, b, r), x) = Times(y, x) + One(b /\ x = r)
  BY JoiningIs, Zenon
<1>5. v.retry \in Seq(Refs) /\ \A x \in Refs : Times(v.retry, x) = Times(t.retry, x) + One(b1 /\ x = q.ref)
  <2>1. /\ Joining(t.retry, b1, q.ref) \in Seq(Refs)
        /\ \A x \in Refs : Times(Joining(t.retry, b1, q.ref), x) = Times(t.retry, x) + One(b1 /\ x = q.ref)
    BY <1>4, <1>r, <1>j, Zenon
  <2>2. QED
    BY <1>3, <2>1, Zenon
<1>6. v.revisit \in Seq(Refs) /\ \A x \in Refs : Times(v.revisit, x) = Times(t.revisit, x) + One(b2 /\ x = q.ref)
  <2>1. /\ Joining(t.revisit, b2, q.ref) \in Seq(Refs)
        /\ \A x \in Refs : Times(Joining(t.revisit, b2, q.ref), x) = Times(t.revisit, x) + One(b2 /\ x = q.ref)
    BY <1>4, <1>r, <1>j, Zenon
  <2>2. QED
    BY <1>3, <2>1, Zenon
<1>7. v.revisitSilent \in Seq(Refs)
      /\ \A x \in Refs : Times(v.revisitSilent, x) = Times(t.revisitSilent, x) + One(b3 /\ x = q.ref)
  <2>1. /\ Joining(t.revisitSilent, b3, q.ref) \in Seq(Refs)
        /\ \A x \in Refs : Times(Joining(t.revisitSilent, b3, q.ref), x) = Times(t.revisitSilent, x) + One(b3 /\ x = q.ref)
    BY <1>4, <1>r, <1>j, Zenon
  <2>2. QED
    BY <1>3, <2>1, Zenon
<1>8. v.features \in Seq(Refs) /\ \A x \in Refs : Times(v.features, x) = Times(t.features, x) + One(b4 /\ x = q.ref)
  <2>1. /\ Joining(t.features, b4, q.ref) \in Seq(Refs)
        /\ \A x \in Refs : Times(Joining(t.features, b4, q.ref), x) = Times(t.features, x) + One(b4 /\ x = q.ref)
    BY <1>4, <1>r, <1>j, Zenon
  <2>2. QED
    BY <1>3, <2>1, Zenon
<1>9. Placed(v)
  BY <1>1, <1>3, <1>5, <1>6, <1>7, <1>8 DEF Placed, QueuesOK, OutOK
<1>10. ASSUME NEW x \in Refs
       PROVE  /\ Weight(v, x) = Weight(t, x) - One(q.kind = FindNode /\ x = q.ref)
                                  + One(b1 /\ x = q.ref) + One(b2 /\ x = q.ref) + One(b3 /\ x = q.ref)
              /\ CheckWeight(v, x) = CheckWeight(t, x) - One(q.kind # FindNode /\ x = q.ref) + One(b4 /\ x = q.ref)
  <2>1. /\ Times(u.fresh, x) \in Nat /\ Times(u.retry, x) \in Nat /\ Times(u.revisit, x) \in Nat
        /\ Times(u.revisitSilent, x) \in Nat /\ Times(u.deferred, x) \in Nat /\ Times(u.features, x) \in Nat
        /\ Cardinality(Asking(u.out, x)) \in Nat /\ Cardinality(Checking(u.out, x)) \in Nat
        /\ Weight(u, x) \in Nat /\ CheckWeight(u, x) \in Nat
    BY <1>1, WeightsAre
  <2>2. /\ One(b1 /\ x = q.ref) \in Nat /\ One(b2 /\ x = q.ref) \in Nat /\ One(b3 /\ x = q.ref) \in Nat
        /\ One(b4 /\ x = q.ref) \in Nat
    BY DEF One
  <2>3. /\ Times(v.fresh, x) = Times(u.fresh, x) /\ Times(v.deferred, x) = Times(u.deferred, x)
        /\ Times(v.retry, x) = Times(u.retry, x) + One(b1 /\ x = q.ref)
        /\ Times(v.revisit, x) = Times(u.revisit, x) + One(b2 /\ x = q.ref)
        /\ Times(v.revisitSilent, x) = Times(u.revisitSilent, x) + One(b3 /\ x = q.ref)
        /\ Times(v.features, x) = Times(u.features, x) + One(b4 /\ x = q.ref)
        /\ Asking(v.out, x) = Asking(u.out, x) /\ Checking(v.out, x) = Checking(u.out, x)
    BY <1>1, <1>3, <1>5, <1>6, <1>7, <1>8
  <2>4. Weight(v, x) = Weight(u, x) + One(b1 /\ x = q.ref) + One(b2 /\ x = q.ref) + One(b3 /\ x = q.ref)
    BY <2>1, <2>2, <2>3 DEF Weight
  <2>5. CheckWeight(v, x) = CheckWeight(u, x) + One(b4 /\ x = q.ref)
    BY <2>1, <2>2, <2>3 DEF CheckWeight
  <2>6. QED
    BY <1>1, <2>4, <2>5
<1>11. QED
  BY <1>1, <1>3, <1>9, <1>10 DEF v, IsHandled

\* The weights of a current node whose query is in flight.
LEMMA InFlight ==
    ASSUME NEW t, NEW A, Good(t, A), NEW q \in t.out, isCurrent(t.cat, q.ref)
    PROVE  LET e == t.cat.entries[q.ref.slot]
           IN /\ q.ref \in Refs /\ q.ref.slot \in InUse(t.cat) /\ e \in Entry /\ e.inUse /\ q.to = e.endpoint
              /\ Fits(e, Weight(t, q.ref), CheckWeight(t, q.ref), A)
              /\ q.kind = FindNode => Weight(t, q.ref) = 1 /\ e.state # "Unroutable"
              /\ q.kind # FindNode => CheckWeight(t, q.ref) = 1 /\ e.featureQueued
<1> DEFINE e == t.cat.entries[q.ref.slot]
           ref == q.ref
<1>1. Placed(t) /\ CatOK(t.cat) /\ q.ref \in Refs
  BY DEF Good, Sound
<1>2. q.ref.slot \in InUse(t.cat) /\ e \in Entry /\ e.inUse
  BY <1>1, CurrentIs DEF InUse
<1>3. /\ Weights(t)[ref] = Weight(t, ref) /\ CheckWeights(t)[ref] = CheckWeight(t, ref)
      /\ Times(t.fresh, ref) \in Nat /\ Times(t.retry, ref) \in Nat /\ Times(t.revisit, ref) \in Nat
      /\ Times(t.revisitSilent, ref) \in Nat /\ Times(t.deferred, ref) \in Nat /\ Times(t.features, ref) \in Nat
      /\ Cardinality(Asking(t.out, ref)) \in Nat /\ Cardinality(Checking(t.out, ref)) \in Nat
      /\ q.kind = FindNode => Cardinality(Asking(t.out, ref)) >= 1
      /\ q.kind # FindNode => Cardinality(Checking(t.out, ref)) >= 1
  BY <1>1, WeightsAre
<1>4. Fits(e, Weights(t)[ref], CheckWeights(t)[ref], A) /\ q.to = e.endpoint
  BY <1>1 DEF Good, Sound
<1>5. Fits(e, Weight(t, ref), CheckWeight(t, ref), A)
  BY <1>3, <1>4
<1> HIDE DEF e, ref
<1>6. q.kind = FindNode => Weight(t, ref) >= 1
  BY <1>3 DEF Weight
<1>7. q.kind # FindNode => CheckWeight(t, ref) >= 1
  BY <1>3 DEF CheckWeight
<1>8. q.kind = FindNode => Weight(t, ref) = 1 /\ e.state # "Unroutable"
  BY <1>5, <1>6 DEF Fits, One
<1>9. q.kind # FindNode => CheckWeight(t, ref) = 1 /\ e.featureQueued
  BY <1>5, <1>7 DEF Fits, One
<1>10. QED
  BY <1>1, <1>2, <1>4, <1>5, <1>8, <1>9 DEF e, ref

\* A reply for a node that is gone, and one that puts a node back, change no entry.
LEMMA HandledGone ==
    ASSUME NEW t, NEW A, Good(t, A), NEW B, A \subseteq B, NEW q \in t.out, NEW b1 \in BOOLEAN,
           b1 => q.kind = FindNode, isCurrent(t.cat, q.ref) => b1
    PROVE  Good(Handled(t, q, t.cat, b1, FALSE, FALSE, FALSE), B)
<1> DEFINE v == Handled(t, q, t.cat, b1, FALSE, FALSE, FALSE)
<1>1. Placed(t)
  BY DEF Good
<1>2. /\ Placed(v) /\ v.cat = t.cat /\ v.out = t.out \ {q} /\ q.ref \in Refs
      /\ \A x \in Refs :
            /\ Weight(v, x) = Weight(t, x) - One(q.kind = FindNode /\ x = q.ref)
                                + One(b1 /\ x = q.ref) + One(FALSE /\ x = q.ref) + One(FALSE /\ x = q.ref)
            /\ CheckWeight(v, x) = CheckWeight(t, x) - One(q.kind # FindNode /\ x = q.ref) + One(FALSE /\ x = q.ref)
  <2>1. IsHandled(t, v, q, t.cat, b1, FALSE, FALSE, FALSE)
    BY <1>1, HandledIs
  <2> HIDE DEF v
  <2>2. QED
    BY <2>1 DEF IsHandled
<1> HIDE DEF v
<1>3. ASSUME NEW x \in Refs
      PROVE  /\ Weight(v, x) <= Weight(t, x) /\ CheckWeight(v, x) <= CheckWeight(t, x)
             /\ isCurrent(t.cat, x) => Weight(v, x) = Weight(t, x) /\ CheckWeight(v, x) = CheckWeight(t, x)
  <2>1. Weight(t, x) \in Nat /\ CheckWeight(t, x) \in Nat
    BY <1>1, WeightsAre
  <2>2. isCurrent(t.cat, x) /\ x = q.ref => b1
    OBVIOUS
  <2>3. /\ Weight(v, x) = Weight(t, x) - One(q.kind = FindNode /\ x = q.ref) + One(b1 /\ x = q.ref)
        /\ CheckWeight(v, x) = CheckWeight(t, x) - One(q.kind # FindNode /\ x = q.ref)
    BY <1>2, <2>1 DEF One
  <2>4. QED
    BY <2>1, <2>2, <2>3 DEF One
<1>4. Good(v, B)
  BY <1>2, <1>3, GoodGone
<1>5. QED
  BY <1>4 DEF v

\* The callback of a current node, of which the entry becomes n.
LEMMA HandledWritten ==
    ASSUME NEW t, NEW A, Good(t, A), NEW B, A \subseteq B, NEW q \in t.out, isCurrent(t.cat, q.ref),
           NEW b1 \in BOOLEAN, NEW b2 \in BOOLEAN, NEW b3 \in BOOLEAN, NEW b4 \in BOOLEAN,
           NEW n \in Entry, n.endpoint = t.cat.entries[q.ref.slot].endpoint,
           n.generation = t.cat.entries[q.ref.slot].generation, n.inUse,
           Fits(n, Weight(t, q.ref) - One(q.kind = FindNode) + One(b1) + One(b2) + One(b3),
                CheckWeight(t, q.ref) - One(q.kind # FindNode) + One(b4), B)
    PROVE  Good(Handled(t, q, Put(t.cat, q.ref.slot, n), b1, b2, b3, b4), B)
<1> DEFINE c == Put(t.cat, q.ref.slot, n)
           v == Handled(t, q, c, b1, b2, b3, b4)
           w == Weight(t, q.ref) - One(q.kind = FindNode) + One(b1) + One(b2) + One(b3)
           k == CheckWeight(t, q.ref) - One(q.kind # FindNode) + One(b4)
<1>1. Placed(t)
  BY DEF Good
<1> HIDE DEF c
<1>2. /\ Placed(v) /\ v.cat = c /\ v.out = t.out \ {q} /\ q.ref \in Refs
      /\ \A x \in Refs :
            /\ Weight(v, x) = Weight(t, x) - One(q.kind = FindNode /\ x = q.ref)
                                + One(b1 /\ x = q.ref) + One(b2 /\ x = q.ref) + One(b3 /\ x = q.ref)
            /\ CheckWeight(v, x) = CheckWeight(t, x) - One(q.kind # FindNode /\ x = q.ref) + One(b4 /\ x = q.ref)
  <2>1. IsHandled(t, v, q, c, b1, b2, b3, b4)
    BY <1>1, HandledIs
  <2> HIDE DEF v
  <2>2. QED
    BY <2>1 DEF IsHandled
<1> HIDE DEF v
<1>3. ASSUME NEW x \in Refs, x # q.ref
      PROVE  Weight(v, x) = Weight(t, x) /\ CheckWeight(v, x) = CheckWeight(t, x)
  <2>1. Weight(t, x) \in Nat /\ CheckWeight(t, x) \in Nat
    BY <1>1, WeightsAre
  <2>2. QED
    BY <1>2, <1>3, <2>1 DEF One
<1>4. Weight(v, q.ref) = w /\ CheckWeight(v, q.ref) = k
  BY <1>2 DEF One
<1>5. Fits(n, Weight(v, q.ref), CheckWeight(v, q.ref), B)
  BY <1>4
<1> HIDE DEF w, k
<1>6. q.ref \in Refs /\ v.cat = Put(t.cat, q.ref.slot, n) /\ v.out \subseteq t.out /\ Placed(v)
  BY <1>2 DEF c
<1>7. Good(v, B)
  BY <1>3, <1>5, <1>6, GoodWritten
<1>8. QED
  BY <1>7 DEF v, c

\* Learning nothing.
LEMMA WithSame ==
    ASSUME NEW v, IsMembers(v)
    PROVE  With(v, [cat |-> v.cat, fresh |-> v.fresh]) = v
BY DEF With, IsMembers

\* The last thing a handler does: learn the nodes of a list.
LEMMA HandledLearns ==
    ASSUME NEW v, Good(v, alive'), v.fresh = fresh, NEW list, list \in Seq(Endpoints), learnFrom(v.cat, list),
           retry' = v.retry, revisit' = v.revisit, revisitSilent' = v.revisitSilent, deferred' = v.deferred,
           features' = v.features, out' = v.out, outstanding' = v.outstanding
    PROVE  Good(Members, alive)'
<1>1. PICK p \in LearnAll(v.cat, list) : cat' = p.cat /\ fresh' = p.fresh
  BY DEF learnFrom
<1>2. IsMembers(v)
  BY DEF Good, Placed
<1> DEFINE c == v.cat
<1>3. Good(With(v, [cat |-> c, fresh |-> fresh]), alive')
  BY <1>2, WithSame
<1>4. p \in LearnAll(c, list)
  BY <1>1
<1> HIDE DEF c
<1>5. Good(With(v, p), alive')
  BY <1>2, <1>3, <1>4, LearntAll
<1> DEFINE w == With(v, p)
<1>6. /\ w.cat = p.cat /\ w.fresh = p.fresh /\ w.retry = v.retry /\ w.revisit = v.revisit
      /\ w.revisitSilent = v.revisitSilent /\ w.deferred = v.deferred
      /\ w.features = v.features /\ w.out = v.out /\ w.outstanding = v.outstanding
  BY <1>2, WithIs
<1> HIDE DEF w
<1>7. Good(w, alive')
  BY <1>5 DEF w
<1>8. QED
  BY <1>1, <1>6, <1>7, NowMembers

\* What a reply names are endpoints.
LEMMA ListsAre ==
    ASSUME NEW list \in Lists
    PROVE  list \in Seq(Endpoints)
<1>1. PICK n \in 0..MaxListed : list \in [1..n -> Endpoints]
  BY DEF Lists
<1>2. n \in Nat
  BY <1>1, Limits
<1>3. QED
  BY <1>1, <1>2

\* onReply(), Throttled.
LEMMA ThrottledKeeps ==
    ASSUME Good(Members, alive), NEW q \in out, onThrottled(q)
    PROVE  Good(Members, alive)'
<1> DEFINE t == Members
           b == isCurrent(cat, q.ref)
           v == Handled(t, q, t.cat, b, FALSE, FALSE, FALSE)
<1>1. /\ t.cat = cat /\ t.fresh = fresh /\ t.retry = retry /\ t.revisit = revisit /\ t.revisitSilent = revisitSilent
      /\ t.deferred = deferred /\ t.features = features /\ t.out = out /\ t.outstanding = outstanding
  BY MembersAre
<1>2. Good(t, alive) /\ Placed(t)
  BY DEF Good
<1> HIDE DEF t
<1>3. b \in BOOLEAN
  BY DEF isCurrent
<1>4. /\ q.kind = FindNode /\ q \in out /\ out' = out \ {q} /\ outstanding' = outstanding - 1
      /\ deferred' = deferred /\ retry' = Joining(retry, b, q.ref) /\ cat' = cat /\ fresh' = fresh /\ revisit' = revisit
      /\ revisitSilent' = revisitSilent /\ features' = features /\ alive' = alive
  BY DEF onThrottled, Answered, Joining
<1> HIDE DEF b
<1>5. Good(v, alive')
  <2>1. q \in t.out /\ alive \subseteq alive' /\ (b => q.kind = FindNode) /\ (isCurrent(t.cat, q.ref) => b)
    BY <1>1, <1>4 DEF b
  <2>2. QED
    BY <1>2, <1>3, <2>1, HandledGone
<1>6. /\ v.cat = t.cat /\ v.fresh = t.fresh /\ v.deferred = t.deferred
      /\ v.retry = Joining(t.retry, b, q.ref) /\ v.revisit = Joining(t.revisit, FALSE, q.ref)
      /\ v.revisitSilent = Joining(t.revisitSilent, FALSE, q.ref) /\ v.features = Joining(t.features, FALSE, q.ref)
      /\ v.out = t.out \ {q} /\ v.outstanding = t.outstanding - 1
  <2>1. q \in t.out
    BY <1>1
  <2>2. IsHandled(t, v, q, t.cat, b, FALSE, FALSE, FALSE)
    BY <1>2, <1>3, <2>1, HandledIs
  <2> HIDE DEF v
  <2>3. QED
    BY <2>2 DEF IsHandled
<1> HIDE DEF v
<1>7. v.revisit = revisit /\ v.revisitSilent = revisitSilent /\ v.features = features
  BY <1>1, <1>6 DEF Joining
<1>8. QED
  BY <1>1, <1>4, <1>5, <1>6, <1>7, NowMembers

\* The failures of an entry written.
LEMMA FailuresPut ==
    ASSUME NEW c, NEW s, Loose(c, s), IsRec(c.entries[s]), NEW n
    PROVE  /\ [c EXCEPT !.entries[s].failures = n] = Put(c, s, [c.entries[s] EXCEPT !.failures = n])
           /\ IsRec([c.entries[s] EXCEPT !.failures = n])
           /\ [c.entries[s] EXCEPT !.failures = n].state = c.entries[s].state
<1> DEFINE m == [c.entries[s] EXCEPT !.failures = n]
<1>1. IsRec(m) /\ m.state = c.entries[s].state
  BY DEF IsRec
<1>2. [c EXCEPT !.entries[s].failures = n] = [c EXCEPT !.entries = [c.entries EXCEPT ![s] = m]]
  BY DEF Loose, IsCat
<1> HIDE DEF m
<1>3. Put(c, s, m) = [c EXCEPT !.entries = [c.entries EXCEPT ![s] = m]]
  BY <1>1, PutSame DEF Loose
<1>4. QED
  BY <1>1, <1>2, <1>3 DEF m

\* The last failure: three writes ...
Lost(c, s, n, st, g) ==
    LET f == [c EXCEPT !.entries[s].failures = n]
        d == setState(f, s, st)
    IN [d EXCEPT !.entries[s].failures = g]
LostEntry(e, n, st, g) == [[[e EXCEPT !.failures = n] EXCEPT !.state = st] EXCEPT !.failures = g]

\* ... that amount to one.
LEMMA GaveUp ==
    ASSUME NEW c, CatOK(c), NEW s \in InUse(c), NEW n, NEW st, NEW g
    PROVE  Lost(c, s, n, st, g) = Put(c, s, LostEntry(c.entries[s], n, st, g))
<1> DEFINE f == [c EXCEPT !.entries[s].failures = n]
           m1 == [c.entries[s] EXCEPT !.failures = n]
           m2 == [m1 EXCEPT !.state = st]
           m3 == [m2 EXCEPT !.failures = g]
           d == setState(f, s, st)
<1>1. Loose(c, s) /\ IsRec(c.entries[s])
  BY LooseIs
<1>2. f = Put(c, s, m1) /\ IsRec(m1) /\ m1.state = c.entries[s].state
  BY <1>1, FailuresPut
<1> HIDE DEF f, m1
<1>3. Loose(f, s) /\ f.entries[s] = m1
  <2>1. Loose(Put(c, s, m1), s) /\ Put(c, s, m1).entries[s] = m1
    BY <1>1, LoosePut
  <2>2. QED
    BY <1>2, <2>1, Zenon
<1>4. d = Put(f, s, m2)
  BY <1>2, <1>3, StateWritten
<1>5. IsRec(m2) /\ m2.state = st
  BY <1>2 DEF IsRec
<1> HIDE DEF m2, d
<1>6. d = Put(c, s, m2)
  BY <1>1, <1>2, <1>4, PutPut
<1>7. Loose(d, s) /\ d.entries[s] = m2
  <2>1. Loose(Put(c, s, m2), s) /\ Put(c, s, m2).entries[s] = m2
    BY <1>1, LoosePut
  <2>2. QED
    BY <1>6, <2>1, Zenon
<1>8. [d EXCEPT !.entries[s].failures = g] = Put(d, s, m3) /\ m3.state = m2.state
  BY <1>5, <1>7, FailuresPut
<1> HIDE DEF m3
<1>9. Put(d, s, m3) = Put(c, s, m3)
  BY <1>1, <1>6, <1>8, PutPut
<1>10. QED
  BY <1>8, <1>9 DEF m3, m2, m1, d, f, Lost, LostEntry

\* onReply(), Timeout.
LEMMA TimeoutKeeps ==
    ASSUME Good(Members, alive), NEW q \in out, onTimeout(q)
    PROVE  Good(Members, alive)'
<1> DEFINE t == Members
           s == q.ref.slot
           e == cat.entries[s]
           n == e.failures + 1
           failed == [cat EXCEPT !.entries[s].failures = n]
           st == IF e.answered THEN "Gone" ELSE "Silent"
           lost == Lost(cat, s, n, st, FailuresToGiveUp)
<1>1. /\ t.cat = cat /\ t.fresh = fresh /\ t.retry = retry /\ t.revisit = revisit /\ t.revisitSilent = revisitSilent
      /\ t.deferred = deferred /\ t.features = features /\ t.out = out /\ t.outstanding = outstanding
  BY MembersAre
<1>2. Good(t, alive) /\ Placed(t) /\ CatOK(cat)
  BY <1>1 DEF Good, Sound
<1> HIDE DEF t
<1>3. /\ q.kind = FindNode /\ q \in t.out /\ out' = out \ {q} /\ outstanding' = outstanding - 1
      /\ deferred' = deferred /\ fresh' = fresh /\ revisit' = revisit /\ features' = features /\ alive' = alive
  BY <1>1 DEF onTimeout, Answered
<1>4. \/ ~isCurrent(cat, q.ref) /\ cat' = cat /\ retry' = retry /\ revisitSilent' = revisitSilent
      \/ isCurrent(cat, q.ref) /\ n >= FailuresToGiveUp /\ cat' = lost
           /\ revisitSilent' = Append(revisitSilent, q.ref) /\ retry' = retry
      \/ isCurrent(cat, q.ref) /\ n < FailuresToGiveUp /\ cat' = failed
           /\ retry' = Append(retry, q.ref) /\ revisitSilent' = revisitSilent
  BY DEF onTimeout, Lost
<1>5. ASSUME NEW c, NEW b1 \in BOOLEAN, NEW b3 \in BOOLEAN, Good(Handled(t, q, c, b1, FALSE, b3, FALSE), alive),
             cat' = c, retry' = Joining(retry, b1, q.ref), revisitSilent' = Joining(revisitSilent, b3, q.ref)
      PROVE  Good(Members, alive)'
  <2> DEFINE v == Handled(t, q, c, b1, FALSE, b3, FALSE)
  <2>1. IsHandled(t, v, q, c, b1, FALSE, b3, FALSE)
    BY <1>2, <1>3, HandledIs
  <2>2. Good(v, alive')
    BY <1>3, <1>5
  <2> HIDE DEF v
  <2>3. /\ v.cat = c /\ v.fresh = t.fresh /\ v.deferred = t.deferred
        /\ v.retry = Joining(t.retry, b1, q.ref) /\ v.revisit = Joining(t.revisit, FALSE, q.ref)
        /\ v.revisitSilent = Joining(t.revisitSilent, b3, q.ref) /\ v.features = Joining(t.features, FALSE, q.ref)
        /\ v.out = t.out \ {q} /\ v.outstanding = t.outstanding - 1
    BY <2>1 DEF IsHandled
  <2>4. v.revisit = revisit /\ v.features = features
    BY <1>1, <2>3 DEF Joining
  <2>5. QED
    BY <1>1, <1>3, <1>5, <2>2, <2>3, <2>4, NowMembers
<1>6. CASE ~isCurrent(cat, q.ref) /\ cat' = cat /\ retry' = retry /\ revisitSilent' = revisitSilent
  <2>1. Good(Handled(t, q, t.cat, FALSE, FALSE, FALSE, FALSE), alive)
    BY <1>1, <1>2, <1>3, <1>6, HandledGone
  <2>2. /\ Good(Handled(t, q, cat, FALSE, FALSE, FALSE, FALSE), alive)
        /\ retry' = Joining(retry, FALSE, q.ref) /\ revisitSilent' = Joining(revisitSilent, FALSE, q.ref)
    BY <1>1, <1>6, <2>1 DEF Joining
  <2>3. QED
    BY <1>5, <1>6, <2>2
<1>7. ASSUME isCurrent(cat, q.ref)
      PROVE  /\ s \in InUse(cat) /\ e \in Entry /\ e.inUse /\ q.ref \in Refs
             /\ Fits(e, Weight(t, q.ref), CheckWeight(t, q.ref), alive)
             /\ Weight(t, q.ref) = 1 /\ e.state # "Unroutable" /\ CheckWeight(t, q.ref) \in Nat
  <2>1. /\ s \in InUse(cat) /\ e \in Entry /\ e.inUse /\ q.ref \in Refs
        /\ Fits(e, Weight(t, q.ref), CheckWeight(t, q.ref), alive)
        /\ Weight(t, q.ref) = 1 /\ e.state # "Unroutable"
    BY <1>1, <1>2, <1>3, <1>7, InFlight
  <2>2. CheckWeight(t, q.ref) \in Nat
    BY <1>2, <2>1, WeightsAre
  <2>3. QED
    BY <2>1, <2>2
<1>8. ASSUME isCurrent(cat, q.ref), NEW m \in Entry, m.endpoint = e.endpoint, m.generation = e.generation, m.inUse,
             m.featureQueued = e.featureQueued, m.state # "Unroutable", m.state = "Responsive" => e.state = "Responsive",
             m.tested = e.tested, m.answered = e.answered,
             m.state = "Gone" => e.state = "Gone" \/ e.answered,
             NEW b1 \in BOOLEAN, NEW b3 \in BOOLEAN, b1 = ~b3
      PROVE  Good(Handled(t, q, Put(cat, s, m), b1, FALSE, b3, FALSE), alive)
  <2>1. /\ Weight(t, q.ref) - One(q.kind = FindNode) + One(b1) + One(FALSE) + One(b3) = 1
        /\ CheckWeight(t, q.ref) - One(q.kind # FindNode) + One(FALSE) = CheckWeight(t, q.ref)
    <3>1. One(q.kind = FindNode) = 1 /\ One(q.kind # FindNode) = 0 /\ One(FALSE) = 0
      BY <1>3 DEF One
    <3>2. One(b1) \in Nat /\ One(b3) \in Nat /\ One(b1) + One(b3) = 1
      <4>1. (b1 /\ ~b3) \/ (~b1 /\ b3)
        BY <1>8, Zenon
      <4>2. One(TRUE) = 1 /\ One(FALSE) = 0
        BY DEF One
      <4>3. (One(b1) = 1 /\ One(b3) = 0) \/ (One(b1) = 0 /\ One(b3) = 1)
        BY <4>1, Zenon DEF One
      <4>4. QED
        BY <4>3
    <3>3. Weight(t, q.ref) = 1 /\ CheckWeight(t, q.ref) \in Nat
      BY <1>7, <1>8
    <3> DEFINE x == One(q.kind = FindNode)
               y == One(q.kind # FindNode)
               z == One(FALSE)
               w == Weight(t, q.ref)
               k == CheckWeight(t, q.ref)
               y1 == One(b1)
               y3 == One(b3)
    <3>4. x = 1 /\ y = 0 /\ z = 0 /\ y1 \in Nat /\ y3 \in Nat /\ y1 + y3 = 1 /\ w = 1 /\ k \in Nat
      BY <3>1, <3>2, <3>3, Zenon
    <3> HIDE DEF x, y, z, w, k, y1, y3
    <3>5. w - x + y1 + z + y3 = 1 /\ k - y + z = k
      BY <3>4
    <3>6. QED
      BY <3>5, Zenon DEF x, y, z, w, k, y1, y3
  <2>2. Fits(m, 1, CheckWeight(t, q.ref), alive)
    BY <1>7, <1>8 DEF Fits, One, featuresDone
  <2>3. Fits(m, Weight(t, q.ref) - One(q.kind = FindNode) + One(b1) + One(FALSE) + One(b3),
             CheckWeight(t, q.ref) - One(q.kind # FindNode) + One(FALSE), alive)
    BY <2>1, <2>2
  <2>4. isCurrent(t.cat, q.ref) /\ m.endpoint = t.cat.entries[q.ref.slot].endpoint
        /\ m.generation = t.cat.entries[q.ref.slot].generation
    BY <1>1, <1>8
  <2>5. Good(Handled(t, q, Put(t.cat, q.ref.slot, m), b1, FALSE, b3, FALSE), alive)
    BY <1>2, <1>3, <1>8, <2>3, <2>4, HandledWritten
  <2>6. QED
    BY <1>1, <2>5
<1>9. FailuresToGiveUp \in Nat \ {0}
  BY Limits
<1>10. CASE isCurrent(cat, q.ref) /\ n >= FailuresToGiveUp /\ cat' = lost
              /\ revisitSilent' = Append(revisitSilent, q.ref) /\ retry' = retry
  <2> DEFINE m == LostEntry(e, n, st, FailuresToGiveUp)
  <2>1. lost = Put(cat, s, m)
    <3>1. CatOK(cat) /\ s \in InUse(cat)
      BY <1>2, <1>7, <1>10
    <3> HIDE DEF st, n, s
    <3>2. QED
      BY <3>1, GaveUp
  <2>2. st \in {"Gone", "Silent"} /\ (st = "Gone" => e.answered)
    OBVIOUS
  <2>3. /\ m \in Entry /\ m.endpoint = e.endpoint /\ m.generation = e.generation /\ m.inUse
        /\ m.featureQueued = e.featureQueued /\ m.state = st /\ m.tested = e.tested /\ m.answered = e.answered
    <3>1. e \in Entry /\ st \in EntryStates /\ FailuresToGiveUp \in 0..FailuresToGiveUp /\ e.inUse
      <4>1. e \in Entry /\ e.inUse
        BY <1>7, <1>10
      <4>2. FailuresToGiveUp \in 0..FailuresToGiveUp
        BY <1>9
      <4> HIDE DEF st
      <4>3. st \in EntryStates
        BY <2>2 DEF EntryStates
      <4>4. QED
        BY <4>1, <4>2, <4>3
    <3> HIDE DEF st, e, n
    <3>2. QED
      BY <3>1 DEF Entry, LostEntry
  <2> HIDE DEF m, st
  <2>4. Good(Handled(t, q, Put(cat, s, m), FALSE, FALSE, TRUE, FALSE), alive)
    BY <1>8, <1>10, <2>2, <2>3
  <2>5. retry' = Joining(retry, FALSE, q.ref) /\ revisitSilent' = Joining(revisitSilent, TRUE, q.ref)
    BY <1>10 DEF Joining
  <2>6. QED
    BY <1>5, <1>10, <2>1, <2>4, <2>5
<1>11. CASE isCurrent(cat, q.ref) /\ n < FailuresToGiveUp /\ cat' = failed
              /\ retry' = Append(retry, q.ref) /\ revisitSilent' = revisitSilent
  <2> DEFINE m == [e EXCEPT !.failures = n]
  <2>1. failed = Put(cat, s, m)
    <3>1. s \in InUse(cat)
      BY <1>7, <1>11
    <3>2. Loose(cat, s) /\ IsRec(cat.entries[s])
      BY <1>2, <3>1, LooseIs
    <3> HIDE DEF n, s
    <3>3. QED
      BY <3>2, FailuresPut, SMTT(30)
  <2>2. /\ m \in Entry /\ m.endpoint = e.endpoint /\ m.generation = e.generation /\ m.inUse
        /\ m.featureQueued = e.featureQueued /\ m.state = e.state /\ m.tested = e.tested /\ m.answered = e.answered
    <3>1. e \in Entry /\ e.inUse
      BY <1>7, <1>11
    <3>2. e.failures \in 0..FailuresToGiveUp
      BY <3>1 DEF Entry
    <3>3. n \in 0..FailuresToGiveUp
      <4>1. \A a, b \in Nat : a + 1 < b => a + 1 \in 0..b
        OBVIOUS
      <4>2. e.failures \in Nat /\ FailuresToGiveUp \in Nat
        BY <1>9, <3>2
      <4>3. n < FailuresToGiveUp
        BY <1>11
      <4> HIDE DEF e
      <4>4. QED
        BY <4>1, <4>2, <4>3, Zenon DEF n
    <3> HIDE DEF e, n
    <3>4. QED
      BY <3>1, <3>3 DEF Entry
  <2> HIDE DEF m
  <2>3. Good(Handled(t, q, Put(cat, s, m), TRUE, FALSE, FALSE, FALSE), alive)
    BY <1>7, <1>8, <1>11, <2>2
  <2>4. retry' = Joining(retry, TRUE, q.ref) /\ revisitSilent' = Joining(revisitSilent, FALSE, q.ref)
    BY <1>11 DEF Joining
  <2>5. QED
    BY <1>5, <1>11, <2>1, <2>3, <2>4
<1>12. QED
  BY <1>4, <1>6, <1>10, <1>11

\* An answer writes the entry of its node.
Alive(e, more) == [e EXCEPT !.failures = 0, !.answered = TRUE, !.featureQueued = @ \/ more]
AliveEntry(e, more) == [Alive(e, more) EXCEPT !.state = "Responsive"]
Revived(c, s, more) ==
    setState([c EXCEPT !.entries[s].failures = 0, !.entries[s].answered = TRUE,
                       !.entries[s].featureQueued = @ \/ more], s, "Responsive")

\* The fields of the entry written.
LEMMA AliveIs ==
    ASSUME NEW e \in Entry, NEW more \in BOOLEAN
    PROVE  LET a == Alive(e, more)
               m == AliveEntry(e, more)
           IN /\ IsRec(a) /\ a.state = e.state /\ m \in Entry /\ m.state = "Responsive"
              /\ m.endpoint = e.endpoint /\ m.generation = e.generation /\ m.inUse = e.inUse
              /\ m.tested = e.tested /\ (m.featureQueued <=> e.featureQueued \/ more)
<1> DEFINE b == e.featureQueued \/ more
           a == [e EXCEPT !.failures = 0, !.answered = TRUE, !.featureQueued = b]
           m == [a EXCEPT !.state = "Responsive"]
<1>1. b \in BOOLEAN
  OBVIOUS
<1>2. Alive(e, more) = a
  BY DEF Alive, Entry
<1> HIDE DEF b
<1>3. FailuresToGiveUp \in Nat \ {0} /\ 0 \in 0..FailuresToGiveUp
  BY Limits
<1>4. /\ IsRec(a) /\ a.state = e.state /\ m.state = "Responsive"
      /\ m.endpoint = e.endpoint /\ m.generation = e.generation /\ m.inUse = e.inUse
      /\ m.tested = e.tested /\ m.featureQueued = b
  BY DEF Entry, IsRec
<1>5. m \in Entry
  BY <1>1, <1>3 DEF Entry, EntryStates
<1> HIDE DEF a, m
<1>6. AliveEntry(e, more) = m
  BY <1>2 DEF AliveEntry, m
<1>7. QED
  BY <1>2, <1>4, <1>5, <1>6 DEF b

\* An entry written.
Wrote(c, s, n) == [c EXCEPT !.entries = [c.entries EXCEPT ![s] = n]]

\* The second write counts.
LEMMA WroteTwice ==
    ASSUME NEW c, NEW s, Loose(c, s), NEW a, NEW b
    PROVE  Wrote(Wrote(c, s, a), s, b) = Wrote(c, s, b)
<1> DEFINE d == Wrote(c, s, a)
           E1 == [c.entries EXCEPT ![s] = a]
           E2 == [d.entries EXCEPT ![s] = b]
           E3 == [c.entries EXCEPT ![s] = b]
<1>1. d.entries = E1
  BY DEF Wrote, Loose, IsCat
<1>2. E2 = E3
  BY <1>1 DEF Loose
<1>3. d = [c EXCEPT !.entries = E1] /\ Wrote(d, s, b) = [d EXCEPT !.entries = E2] /\ Wrote(c, s, b) = [c EXCEPT !.entries = E3]
  BY DEF Wrote
<1> HIDE DEF E1, E2, E3, d
<1>4. [d EXCEPT !.entries = E3] = [c EXCEPT !.entries = E3]
  BY <1>3 DEF Loose, IsCat
<1>5. QED
  BY <1>2, <1>3, <1>4 DEF d

\* It is one write.
LEMMA RevivedIs ==
    ASSUME NEW c, CatOK(c), NEW s \in InUse(c), NEW more \in BOOLEAN
    PROVE  Revived(c, s, more) = Put(c, s, AliveEntry(c.entries[s], more))
<1> DEFINE e == c.entries[s]
           a == Alive(e, more)
           d == [c EXCEPT !.entries[s].failures = 0, !.entries[s].answered = TRUE,
                          !.entries[s].featureQueued = @ \/ more]
<1>1. Loose(c, s) /\ e \in Entry
  BY LooseIs, RefOfIs
<1>2. IsRec(a) /\ a.state = e.state
  BY <1>1, AliveIs
<1>3. d = [c EXCEPT !.entries = [c.entries EXCEPT ![s] = a]]
  <2> DEFINE c1 == [c EXCEPT !.entries[s].failures = 0]
             c2 == [c1 EXCEPT !.entries[s].answered = TRUE]
             c3 == [c2 EXCEPT !.entries[s].featureQueued = @ \/ more]
             a1 == [e EXCEPT !.failures = 0]
             a2 == [a1 EXCEPT !.answered = TRUE]
             a3 == [a2 EXCEPT !.featureQueued = @ \/ more]
  <2>1. d = c3 /\ a = a3
    BY ZenonT(30) DEF Alive
  <2>2. c1 = [c EXCEPT !.entries = [c.entries EXCEPT ![s] = a1]]
    BY <1>1 DEF Loose, IsCat
  <2> HIDE DEF c1
  <2>3. c1.entries[s] = a1 /\ Loose(c1, s)
    BY <1>1, <2>2 DEF Loose, IsCat
  <2>4. c2 = [c1 EXCEPT !.entries = [c1.entries EXCEPT ![s] = a2]]
    BY <2>3 DEF Loose, IsCat
  <2> HIDE DEF c2
  <2>5. c2.entries[s] = a2 /\ Loose(c2, s)
    BY <2>3, <2>4 DEF Loose, IsCat
  <2>6. c3 = [c2 EXCEPT !.entries = [c2.entries EXCEPT ![s] = a3]]
    BY <2>5 DEF Loose, IsCat
  <2> HIDE DEF a1, a2, a3, c3
  <2>7. c3 = [c EXCEPT !.entries = [c.entries EXCEPT ![s] = a3]]
    <3>1. c1 = Wrote(c, s, a1) /\ c2 = Wrote(c1, s, a2) /\ c3 = Wrote(c2, s, a3)
      BY <2>2, <2>4, <2>6 DEF Wrote
    <3>2. c2 = Wrote(c, s, a2)
      BY <1>1, <3>1, WroteTwice
    <3>3. c3 = Wrote(c, s, a3)
      BY <1>1, <3>1, <3>2, WroteTwice
    <3>4. QED
      BY <3>3 DEF Wrote
  <2>8. QED
    BY <2>1, <2>7
<1> HIDE DEF a, d
<1>4. d = Put(c, s, a)
  <2>1. Put(c, s, a) = [c EXCEPT !.entries = [c.entries EXCEPT ![s] = a]]
    BY <1>1, <1>2, PutSame DEF Loose
  <2>2. QED
    BY <1>3, <2>1
<1>5. Loose(d, s) /\ d.entries[s] = a
  <2>1. Loose(Put(c, s, a), s) /\ Put(c, s, a).entries[s] = a
    BY <1>1, LoosePut
  <2>2. QED
    BY <1>4, <2>1, Zenon
<1> DEFINE m == [a EXCEPT !.state = "Responsive"]
<1>6. setState(d, s, "Responsive") = Put(d, s, m)
  BY <1>2, <1>5, StateWritten
<1> HIDE DEF m
<1>7. Put(d, s, m) = Put(c, s, m)
  BY <1>1, <1>2, <1>4, PutPut
<1>8. Revived(c, s, more) = setState(d, s, "Responsive") /\ m = AliveEntry(e, more)
  BY DEF Revived, AliveEntry, d, m, a
<1>9. QED
  BY <1>6, <1>7, <1>8

\* onReply(), an answer.
LEMMA AnswerKeeps ==
    ASSUME Good(Members, alive), NEW q \in out, NEW list \in Lists, onAnswer(q, list)
    PROVE  Good(Members, alive)'
<1> DEFINE t == Members
           s == q.ref.slot
           e == cat.entries[s]
           more == WantsFeatures(e)
<1>1. /\ t.cat = cat /\ t.fresh = fresh /\ t.retry = retry /\ t.revisit = revisit /\ t.revisitSilent = revisitSilent
      /\ t.deferred = deferred /\ t.features = features /\ t.out = out /\ t.outstanding = outstanding
  BY MembersAre
<1>2. Good(t, alive) /\ Placed(t) /\ CatOK(cat)
  BY <1>1 DEF Good, Sound
<1> HIDE DEF t
<1>3. /\ q.kind = FindNode /\ q \in t.out /\ out' = out \ {q} /\ outstanding' = outstanding - 1
      /\ deferred' = deferred /\ retry' = retry /\ revisitSilent' = revisitSilent /\ alive' = alive \cup {q.to}
  BY <1>1 DEF onAnswer, Answered
<1>4. list \in Seq(Endpoints)
  BY ListsAre
<1>5. ASSUME NEW c, NEW b2 \in BOOLEAN, NEW b4 \in BOOLEAN, Good(Handled(t, q, c, FALSE, b2, FALSE, b4), alive'),
             learnFrom(c, list), revisit' = Joining(revisit, b2, q.ref), features' = Joining(features, b4, q.ref)
      PROVE  Good(Members, alive)'
  <2> DEFINE v == Handled(t, q, c, FALSE, b2, FALSE, b4)
  <2>1. IsHandled(t, v, q, c, FALSE, b2, FALSE, b4)
    BY <1>2, <1>3, <1>5, HandledIs
  <2>2. Good(v, alive')
    BY <1>5
  <2> HIDE DEF v
  <2>3. /\ v.cat = c /\ v.fresh = t.fresh /\ v.deferred = t.deferred
        /\ v.retry = Joining(t.retry, FALSE, q.ref) /\ v.revisit = Joining(t.revisit, b2, q.ref)
        /\ v.revisitSilent = Joining(t.revisitSilent, FALSE, q.ref) /\ v.features = Joining(t.features, b4, q.ref)
        /\ v.out = t.out \ {q} /\ v.outstanding = t.outstanding - 1
    BY <2>1 DEF IsHandled
  <2>4. v.retry = retry /\ v.revisitSilent = revisitSilent
    BY <1>1, <2>3 DEF Joining
  <2>5. learnFrom(v.cat, list) /\ v.fresh = fresh
    BY <1>1, <1>5, <2>3
  <2>6. QED
    BY <1>1, <1>3, <1>4, <1>5, <2>2, <2>3, <2>4, <2>5, HandledLearns
<1>6. CASE ~isCurrent(cat, q.ref)
  <2>1. revisit' = revisit /\ features' = features /\ learnFrom(cat, list)
    BY <1>6 DEF onAnswer
  <2>2. Good(Handled(t, q, t.cat, FALSE, FALSE, FALSE, FALSE), alive')
    <3>1. alive \subseteq alive' /\ ~isCurrent(t.cat, q.ref)
      BY <1>1, <1>3, <1>6
    <3>2. QED
      BY <1>2, <1>3, <3>1, HandledGone
  <2>3. /\ Good(Handled(t, q, cat, FALSE, FALSE, FALSE, FALSE), alive')
        /\ revisit' = Joining(revisit, FALSE, q.ref) /\ features' = Joining(features, FALSE, q.ref)
    BY <1>1, <2>1, <2>2 DEF Joining
  <2>4. QED
    BY <1>5, <2>1, <2>3
<1>7. CASE isCurrent(cat, q.ref)
  <2> DEFINE c == Revived(cat, s, more)
             m == AliveEntry(e, more)
  <2>1. /\ revisit' = Append(revisit, q.ref) /\ features' = (IF more THEN Append(features, q.ref) ELSE features)
        /\ learnFrom(c, list)
    BY <1>7 DEF onAnswer, Revived
  <2>2. /\ s \in InUse(cat) /\ e \in Entry /\ e.inUse /\ q.ref \in Refs /\ q.to = e.endpoint
        /\ Fits(e, Weight(t, q.ref), CheckWeight(t, q.ref), alive)
        /\ Weight(t, q.ref) = 1 /\ e.state # "Unroutable"
    BY <1>1, <1>2, <1>3, <1>7, InFlight
  <2>3. more \in BOOLEAN /\ (more <=> ~featuresDone(e) /\ ~e.featureQueued)
    BY DEF WantsFeatures, featuresDone
  <2>4. CheckWeight(t, q.ref) = One(e.featureQueued)
    BY <2>2 DEF Fits
  <2> HIDE DEF more, e, s
  <2>5. /\ m \in Entry /\ m.state = "Responsive" /\ m.endpoint = e.endpoint /\ m.generation = e.generation /\ m.inUse = e.inUse
        /\ m.tested = e.tested /\ (m.featureQueued <=> e.featureQueued \/ more)
    BY <2>2, <2>3, AliveIs
  <2>6. c = Put(cat, s, m)
    BY <1>2, <2>2, <2>3, RevivedIs DEF e
  <2> HIDE DEF m, c
  <2>7. /\ Weight(t, q.ref) - One(q.kind = FindNode) + One(FALSE) + One(TRUE) + One(FALSE) = 1
        /\ CheckWeight(t, q.ref) - One(q.kind # FindNode) + One(more) = One(m.featureQueued)
    <3>1. One(q.kind = FindNode) = 1 /\ One(q.kind # FindNode) = 0 /\ One(FALSE) = 0 /\ One(TRUE) = 1
      BY <1>3 DEF One
    <3>2. (One(more) = 1 /\ One(e.featureQueued) = 0 /\ One(m.featureQueued) = 1)
            \/ (One(more) = 0 /\ One(e.featureQueued) = 1 /\ One(m.featureQueued) = 1)
            \/ (One(more) = 0 /\ One(e.featureQueued) = 0 /\ One(m.featureQueued) = 0)
      BY <2>3, <2>5, Zenon DEF One
    <3> DEFINE x == One(q.kind = FindNode)
               y == One(q.kind # FindNode)
               z == One(FALSE)
               o == One(TRUE)
               w == Weight(t, q.ref)
               k == CheckWeight(t, q.ref)
               y1 == One(more)
               y2 == One(e.featureQueued)
               y3 == One(m.featureQueued)
    <3>3. /\ x = 1 /\ y = 0 /\ z = 0 /\ o = 1 /\ w = 1 /\ k = y2
          /\ (y1 = 1 /\ y2 = 0 /\ y3 = 1) \/ (y1 = 0 /\ y2 = 1 /\ y3 = 1) \/ (y1 = 0 /\ y2 = 0 /\ y3 = 0)
      BY <2>2, <2>4, <3>1, <3>2, Zenon
    <3> HIDE DEF x, y, z, o, w, k, y1, y2, y3
    <3>4. w - x + z + o + z = 1 /\ k - y + y1 = y3
      BY <3>3
    <3>5. QED
      BY <3>4, Zenon DEF x, y, z, o, w, k, y1, y2, y3
  <2>8. Fits(m, 1, One(m.featureQueued), alive')
    <3>1. featuresDone(m) <=> featuresDone(e)
      BY <2>5 DEF featuresDone
    <3>2. m.endpoint \in alive'
      BY <1>3, <2>2, <2>5
    <3>3. m.state # "Unroutable" /\ (~featuresDone(m) => m.featureQueued)
      BY <2>3, <2>5, <3>1
    <3>4. QED
      BY <3>2, <3>3 DEF Fits, One
  <2>9. Fits(m, Weight(t, q.ref) - One(q.kind = FindNode) + One(FALSE) + One(TRUE) + One(FALSE),
             CheckWeight(t, q.ref) - One(q.kind # FindNode) + One(more), alive')
    BY <2>7, <2>8
  <2>10. /\ isCurrent(t.cat, q.ref) /\ m.endpoint = t.cat.entries[q.ref.slot].endpoint
         /\ m.generation = t.cat.entries[q.ref.slot].generation /\ alive \subseteq alive' /\ m.inUse
    BY <1>1, <1>3, <1>7, <2>2, <2>5 DEF e, s
  <2>11. Good(Handled(t, q, Put(t.cat, q.ref.slot, m), FALSE, TRUE, FALSE, more), alive')
    BY <1>2, <1>3, <2>3, <2>5, <2>9, <2>10, HandledWritten
  <2>12. Good(Handled(t, q, c, FALSE, TRUE, FALSE, more), alive')
    BY <1>1, <2>6, <2>11 DEF s
  <2>13. revisit' = Joining(revisit, TRUE, q.ref) /\ features' = Joining(features, more, q.ref)
    BY <2>1 DEF Joining
  <2>14. QED
    BY <1>5, <2>1, <2>3, <2>12, <2>13
<1>8. QED
  BY <1>6, <1>7

\* What a check does to the entry of its node.
LEMMA OutcomeIs ==
    ASSUME NEW e \in Entry, e.featureQueued, NEW k \in Checks, NEW status \in Statuses
    PROVE  LET o == FeatureOutcome(e, k, status)
               m == FeatureFlag(o)
           IN /\ o \in Entry /\ m \in Entry /\ m.state = e.state /\ m.endpoint = e.endpoint
              /\ m.generation = e.generation /\ m.inUse = e.inUse /\ m.answered = e.answered
              /\ m.tested = o.tested /\ (m.featureQueued <=> ~featuresDone(o))
<1> DEFINE o == FeatureOutcome(e, k, status)
           o1 == [e EXCEPT !.tested = e.tested \cup {k}, !.tries = 0]
           o2 == [e EXCEPT !.tries = e.tries + 1]
<1>1. FeatureTries \in Nat \ {0} /\ e.tries \in 0..(FeatureTries - 1) /\ e.tested \subseteq Checks
  BY Limits DEF Entry
<1>2. o = e \/ o = o1 \/ (o = o2 /\ ~(e.tries + 1 >= FeatureTries))
  <2>1. status = "Throttled" \/ status = "Timeout" \/ status = "Answer"
    BY DEF Statuses
  <2>2. [e EXCEPT !.tested = @ \cup {k}, !.tries = 0] = o1 /\ [e EXCEPT !.tries = @ + 1] = o2
    BY DEF Entry
  <2> HIDE DEF o1, o2
  <2>3. CASE status = "Throttled"
    BY <2>3 DEF FeatureOutcome
  <2>4. CASE status = "Timeout"
    BY <2>2, <2>4 DEF FeatureOutcome
  <2>5. CASE status = "Answer"
    BY <2>2, <2>5 DEF FeatureOutcome
  <2>6. QED
    BY <2>1, <2>3, <2>4, <2>5
<1>3. /\ o1 \in Entry /\ o1.state = e.state /\ o1.endpoint = e.endpoint /\ o1.generation = e.generation
      /\ o1.inUse = e.inUse /\ o1.answered = e.answered /\ o1.featureQueued = e.featureQueued
  <2>1. e.tested \cup {k} \in SUBSET Checks /\ 0 \in 0..(FeatureTries - 1)
    BY <1>1
  <2>2. QED
    BY <2>1 DEF Entry
<1>4. ~(e.tries + 1 >= FeatureTries) =>
      /\ o2 \in Entry /\ o2.state = e.state /\ o2.endpoint = e.endpoint /\ o2.generation = e.generation
      /\ o2.inUse = e.inUse /\ o2.answered = e.answered /\ o2.featureQueued = e.featureQueued
  <2> HAVE ~(e.tries + 1 >= FeatureTries)
  <2> DEFINE r == e.tries + 1
  <2>1. r \in 0..(FeatureTries - 1)
    BY <1>1
  <2> HIDE DEF r
  <2>2. o2 = [e EXCEPT !.tries = r]
    BY DEF r
  <2> HIDE DEF o2
  <2>3. QED
    BY <2>1, <2>2 DEF Entry
<1> HIDE DEF o, o1, o2
<1>5. /\ o \in Entry /\ o.state = e.state /\ o.endpoint = e.endpoint /\ o.generation = e.generation
      /\ o.inUse = e.inUse /\ o.answered = e.answered /\ o.featureQueued
  <2>1. CASE o = e
    BY <2>1
  <2>2. CASE o = o1
    BY <1>3, <2>2
  <2>3. CASE o = o2 /\ ~(e.tries + 1 >= FeatureTries)
    BY <1>4, <2>3
  <2>4. QED
    BY <1>2, <2>1, <2>2, <2>3
<1> DEFINE b == o.featureQueued /\ ~featuresDone(o)
           m == [o EXCEPT !.featureQueued = b]
<1>6. FeatureFlag(o) = m
  BY <1>5 DEF FeatureFlag, Entry
<1>7. b \in BOOLEAN /\ (b <=> ~featuresDone(o))
  BY <1>5 DEF featuresDone
<1> HIDE DEF b
<1>8. /\ m \in Entry /\ m.state = o.state /\ m.endpoint = o.endpoint /\ m.generation = o.generation
      /\ m.inUse = o.inUse /\ m.answered = o.answered /\ m.tested = o.tested /\ m.featureQueued = b
  BY <1>5, <1>7 DEF Entry
<1> HIDE DEF m
<1>9. QED
  BY <1>5, <1>6, <1>7, <1>8 DEF o

\* onFeatureReply().
LEMMA FeatureReplyKeeps ==
    ASSUME Good(Members, alive), NEW q \in out, NEW status \in Statuses, NEW list \in Lists,
           onFeatureReply(q, status, list)
    PROVE  Good(Members, alive)'
<1> DEFINE t == Members
           s == q.ref.slot
           e == cat.entries[s]
           o == FeatureOutcome(e, q.kind, status)
           m == FeatureFlag(o)
           more == ~featuresDone(o)
<1>1. /\ t.cat = cat /\ t.fresh = fresh /\ t.retry = retry /\ t.revisit = revisit /\ t.revisitSilent = revisitSilent
      /\ t.deferred = deferred /\ t.features = features /\ t.out = out /\ t.outstanding = outstanding
  BY MembersAre
<1>2. Good(t, alive) /\ Placed(t) /\ CatOK(cat)
  BY <1>1 DEF Good, Sound
<1> HIDE DEF t
<1>3. /\ q.kind # FindNode /\ q \in t.out /\ out' = out \ {q} /\ outstanding' = outstanding - 1
      /\ deferred' = deferred /\ retry' = retry /\ revisit' = revisit /\ revisitSilent' = revisitSilent /\ alive' = alive
  BY <1>1 DEF onFeatureReply, Answered
<1>4. list \in Seq(Endpoints)
  BY ListsAre
<1>5. CASE ~isCurrent(cat, q.ref)
  <2> DEFINE v == Handled(t, q, t.cat, FALSE, FALSE, FALSE, FALSE)
  <2>1. features' = features /\ cat' = cat /\ fresh' = fresh
    BY <1>5 DEF onFeatureReply
  <2>2. Good(v, alive')
    <3>1. alive \subseteq alive' /\ ~isCurrent(t.cat, q.ref)
      BY <1>1, <1>3, <1>5
    <3>2. QED
      BY <1>2, <1>3, <3>1, HandledGone
  <2>3. IsHandled(t, v, q, t.cat, FALSE, FALSE, FALSE, FALSE)
    BY <1>2, <1>3, HandledIs
  <2> HIDE DEF v
  <2>4. /\ v.cat = t.cat /\ v.fresh = t.fresh /\ v.deferred = t.deferred
        /\ v.retry = t.retry /\ v.revisit = t.revisit /\ v.revisitSilent = t.revisitSilent /\ v.features = t.features
        /\ v.out = t.out \ {q} /\ v.outstanding = t.outstanding - 1
    BY <2>3 DEF IsHandled, Joining
  <2>5. QED
    BY <1>1, <1>3, <2>1, <2>2, <2>4, NowMembers
<1>6. CASE isCurrent(cat, q.ref)
  <2> DEFINE c == [cat EXCEPT !.entries[s] = m]
             v == Handled(t, q, c, FALSE, FALSE, FALSE, more)
  <2>1. /\ features' = (IF featuresDone(o) THEN features ELSE Append(features, q.ref)) /\ learnFrom(c, list)
    BY <1>6 DEF onFeatureReply
  <2>2. /\ s \in InUse(cat) /\ e \in Entry /\ e.inUse /\ q.ref \in Refs
        /\ Fits(e, Weight(t, q.ref), CheckWeight(t, q.ref), alive)
        /\ CheckWeight(t, q.ref) = 1 /\ e.featureQueued
    BY <1>1, <1>2, <1>3, <1>6, InFlight
  <2>3. q.kind \in Checks
    BY <1>2, <1>3 DEF Placed, OutOK, Queries
  <2> HIDE DEF e, s
  <2>4. /\ o \in Entry /\ m \in Entry /\ m.state = e.state /\ m.endpoint = e.endpoint
        /\ m.generation = e.generation /\ m.inUse = e.inUse /\ m.answered = e.answered
        /\ m.tested = o.tested /\ (m.featureQueued <=> ~featuresDone(o))
    BY <2>2, <2>3, OutcomeIs
  <2> HIDE DEF m, o
  <2>5. more \in BOOLEAN /\ (more <=> m.featureQueued) /\ (featuresDone(m) <=> featuresDone(o))
    BY <2>4 DEF featuresDone
  <2>6. c = Put(cat, s, m)
    <3>1. IsCat(cat) /\ m.state = cat.entries[s].state
      BY <1>2, <2>4 DEF CatOK, e
    <3>2. Put(cat, s, m) = [cat EXCEPT !.entries = [cat.entries EXCEPT ![s] = m]]
      BY <3>1, PutSame
    <3>3. c = [cat EXCEPT !.entries = [cat.entries EXCEPT ![s] = m]]
      BY <3>1 DEF IsCat
    <3>4. QED
      BY <3>2, <3>3
  <2> HIDE DEF c, more
  <2>7. /\ Weight(t, q.ref) - One(q.kind = FindNode) + One(FALSE) + One(FALSE) + One(FALSE) = Weight(t, q.ref)
        /\ CheckWeight(t, q.ref) - One(q.kind # FindNode) + One(more) = One(m.featureQueued)
    <3>1. One(q.kind = FindNode) = 0 /\ One(q.kind # FindNode) = 1 /\ One(FALSE) = 0
      BY <1>3 DEF One
    <3>2. One(more) = One(m.featureQueued) /\ One(more) \in Nat
      BY <2>5 DEF One
    <3> DEFINE x == One(q.kind = FindNode)
               y == One(q.kind # FindNode)
               z == One(FALSE)
               w == Weight(t, q.ref)
               k == CheckWeight(t, q.ref)
               y1 == One(more)
               y3 == One(m.featureQueued)
    <3>0. w \in Nat
      BY <1>2, <2>2, WeightsAre
    <3>3. /\ x = 0 /\ y = 1 /\ z = 0 /\ w \in Nat /\ k = 1 /\ y1 = y3 /\ y1 \in Nat
      BY <2>2, <3>0, <3>1, <3>2, Zenon
    <3> HIDE DEF x, y, z, w, k, y1, y3
    <3>4. w - x + z + z + z = w /\ k - y + y1 = y3
      BY <3>3
    <3>5. QED
      BY <3>4, Zenon DEF x, y, z, w, k, y1, y3
  <2>8. Fits(m, Weight(t, q.ref), One(m.featureQueued), alive)
    BY <2>2, <2>4, <2>5 DEF Fits
  <2>9. Fits(m, Weight(t, q.ref) - One(q.kind = FindNode) + One(FALSE) + One(FALSE) + One(FALSE),
             CheckWeight(t, q.ref) - One(q.kind # FindNode) + One(more), alive')
    BY <1>3, <2>7, <2>8
  <2>10. /\ isCurrent(t.cat, q.ref) /\ m.endpoint = t.cat.entries[q.ref.slot].endpoint
         /\ m.generation = t.cat.entries[q.ref.slot].generation /\ alive \subseteq alive' /\ m.inUse
    BY <1>1, <1>3, <1>6, <2>2, <2>4 DEF e, s
  <2>11. Good(Handled(t, q, Put(t.cat, q.ref.slot, m), FALSE, FALSE, FALSE, more), alive')
    BY <1>2, <1>3, <2>4, <2>5, <2>9, <2>10, HandledWritten
  <2>12. Good(v, alive')
    BY <1>1, <2>6, <2>11 DEF s
  <2>13. IsHandled(t, v, q, c, FALSE, FALSE, FALSE, more)
    BY <1>2, <1>3, <2>5, HandledIs
  <2> HIDE DEF v
  <2>14. /\ v.cat = c /\ v.fresh = t.fresh /\ v.deferred = t.deferred
         /\ v.retry = t.retry /\ v.revisit = t.revisit /\ v.revisitSilent = t.revisitSilent
         /\ v.features = Joining(t.features, more, q.ref)
         /\ v.out = t.out \ {q} /\ v.outstanding = t.outstanding - 1
    <3>1. /\ v.cat = c /\ v.fresh = t.fresh /\ v.deferred = t.deferred
          /\ v.retry = Joining(t.retry, FALSE, q.ref) /\ v.revisit = Joining(t.revisit, FALSE, q.ref)
          /\ v.revisitSilent = Joining(t.revisitSilent, FALSE, q.ref)
          /\ v.features = Joining(t.features, more, q.ref)
          /\ v.out = t.out \ {q} /\ v.outstanding = t.outstanding - 1
      BY <2>13 DEF IsHandled
    <3>2. \A y : Joining(y, FALSE, q.ref) = y
      BY DEF Joining
    <3>3. QED
      BY <3>1, <3>2
  <2>15. features' = v.features /\ learnFrom(v.cat, list) /\ v.fresh = fresh
    BY <1>1, <2>1, <2>14 DEF Joining, more
  <2>16. QED
    BY <1>1, <1>3, <1>4, <2>12, <2>14, <2>15, HandledLearns
<1>7. QED
  BY <1>5, <1>6

\* Another catalogue in which every node is where it should be.
LEMMA CatReplaced ==
    ASSUME NEW t, NEW A, Good(t, A), NEW c, Sound(c, Weights(t), CheckWeights(t), t.out, A)
    PROVE  Good(With(t, [cat |-> c, fresh |-> t.fresh]), A)
<1> DEFINE p == [cat |-> c, fresh |-> t.fresh]
           v == With(t, p)
<1>1. Placed(t) /\ IsMembers(t)
  BY DEF Good, Placed
<1>2. p.cat = c /\ p.fresh = t.fresh
  OBVIOUS
<1> HIDE DEF p
<1>3. /\ IsMembers(v) /\ v.cat = p.cat /\ v.fresh = p.fresh /\ v.retry = t.retry /\ v.revisit = t.revisit
      /\ v.revisitSilent = t.revisitSilent /\ v.deferred = t.deferred /\ v.features = t.features /\ v.out = t.out
      /\ v.outstanding = t.outstanding /\ v.sent = t.sent
  BY <1>1, WithIs
<1> HIDE DEF v
<1>4. Placed(v)
  BY <1>1, <1>2, <1>3 DEF Placed, QueuesOK, OutOK
<1>5. Weights(v) = Weights(t)
  <2>1. \A x \in Refs : Weight(v, x) = Weight(t, x)
    BY <1>2, <1>3 DEF Weight
  <2>2. QED
    BY <2>1 DEF Weights
<1>6. CheckWeights(v) = CheckWeights(t)
  <2>1. \A x \in Refs : CheckWeight(v, x) = CheckWeight(t, x)
    BY <1>2, <1>3 DEF CheckWeight
  <2>2. QED
    BY <2>1 DEF CheckWeights
<1>7. Good(v, A)
  BY <1>2, <1>3, <1>4, <1>5, <1>6 DEF Good
<1>8. QED
  BY <1>7 DEF v, p

\* After a trim they are.
LEMMA SoundTrimmed ==
    ASSUME NEW c, NEW W, NEW V, NEW O, NEW A, Sound(c, W, V, O, A), NEW n \in Nat, NEW d \in trim(c, n)
    PROVE  Sound(d, W, V, O, A)
<1>1. CatOK(c)
  BY DEF Sound
<1>2. CatOK(d) /\ Kept(c, d)
  BY <1>1, Trimmed
<1>3. QED
  BY <1>2, SoundKept

\* tick().
LEMMA TickKeeps ==
    ASSUME Good(Members, alive), tick
    PROVE  Good(Members, alive)'
<1> DEFINE t == Members
<1>1. IsMembers(t) /\ t.cat = cat /\ t.fresh = fresh
  BY MembersAre
<1>2. PICK c \in trim(cat, TrimPerTick), list \in Lists, batch \in MinBatch..MaxBatch :
        \E p \in LearnAll(c, list) : \E st \in Dispatched(With(t, p), batch) :
              /\ cat' = st.cat /\ fresh' = st.fresh /\ retry' = st.retry /\ revisit' = st.revisit
              /\ revisitSilent' = st.revisitSilent /\ deferred' = st.deferred /\ features' = st.features
              /\ out' = st.out /\ outstanding' = st.outstanding
  BY DEF tick, With
<1>3. PICK p \in LearnAll(c, list) : \E st \in Dispatched(With(t, p), batch) :
              /\ cat' = st.cat /\ fresh' = st.fresh /\ retry' = st.retry /\ revisit' = st.revisit
              /\ revisitSilent' = st.revisitSilent /\ deferred' = st.deferred /\ features' = st.features
              /\ out' = st.out /\ outstanding' = st.outstanding
  BY <1>2
<1>4. PICK st \in Dispatched(With(t, p), batch) :
              /\ cat' = st.cat /\ fresh' = st.fresh /\ retry' = st.retry /\ revisit' = st.revisit
              /\ revisitSilent' = st.revisitSilent /\ deferred' = st.deferred /\ features' = st.features
              /\ out' = st.out /\ outstanding' = st.outstanding
  BY <1>3
<1>5. alive' = alive
  BY DEF tick
<1>6. Good(t, alive) /\ Sound(cat, Weights(t), CheckWeights(t), t.out, alive)
  BY <1>1 DEF Good
<1> HIDE DEF t
<1>7. Sound(c, Weights(t), CheckWeights(t), t.out, alive)
  <2>1. TrimPerTick \in Nat
    BY Limits
  <2>2. QED
    BY <1>6, <2>1, SoundTrimmed
<1>8. Good(With(t, [cat |-> c, fresh |-> t.fresh]), alive)
  BY <1>6, <1>7, CatReplaced
<1>9. Good(With(t, [cat |-> c, fresh |-> fresh]), alive)
  BY <1>1, <1>8
<1>10. list \in Seq(Endpoints)
  BY ListsAre
<1>11. Good(With(t, p), alive)
  BY <1>1, <1>9, <1>10, LearntAll
<1>12. Good(st, alive)
  BY <1>11, DispatchedIs
<1>13. Good(st, alive')
  BY <1>5, <1>12
<1>14. QED
  BY <1>4, <1>13, NowMembers

\* setMonitoring() and recordLookup() learn nodes.
LEMMA LearningKeeps ==
    ASSUME Good(Members, alive), NEW list \in Lists, learnFrom(cat, list),
           UNCHANGED <<retry, revisit, revisitSilent, deferred, features, out, outstanding, alive>>
    PROVE  Good(Members, alive)'
<1> DEFINE t == Members
<1>1. /\ t.cat = cat /\ t.fresh = fresh /\ t.retry = retry /\ t.revisit = revisit /\ t.revisitSilent = revisitSilent
      /\ t.deferred = deferred /\ t.features = features /\ t.out = out /\ t.outstanding = outstanding
  BY MembersAre
<1>2. Good(t, alive')
  OBVIOUS
<1>3. list \in Seq(Endpoints)
  BY ListsAre
<1> HIDE DEF t
<1>4. learnFrom(t.cat, list)
  BY <1>1
<1>5. /\ retry' = t.retry /\ revisit' = t.revisit /\ revisitSilent' = t.revisitSilent
      /\ deferred' = t.deferred /\ features' = t.features /\ out' = t.out /\ outstanding' = t.outstanding
  BY <1>1
<1>6. QED
  BY <1>1, <1>2, <1>3, <1>4, <1>5, HandledLearns

\* A step that changes nothing of them.
LEMMA StillMembers ==
    ASSUME Good(Members, alive), UNCHANGED <<cat, fresh, retry, revisit, revisitSilent, deferred, features, out, outstanding, alive>>
    PROVE  Good(Members, alive)'
BY DEF Members

\* setCatalogCap().
LEMMA CapKeeps ==
    ASSUME Good(Members, alive), NEW limit \in Caps, setCatalogCap(limit)
    PROVE  Good(Members, alive)'
<1> DEFINE t == Members
           c == setCap(cat, limit)
<1>1. /\ t.cat = cat /\ t.fresh = fresh /\ t.retry = retry /\ t.revisit = revisit /\ t.revisitSilent = revisitSilent
      /\ t.deferred = deferred /\ t.features = features /\ t.out = out /\ t.outstanding = outstanding /\ IsMembers(t)
  BY MembersAre
<1>2. Good(t, alive) /\ Sound(cat, Weights(t), CheckWeights(t), t.out, alive)
  BY <1>1 DEF Good
<1> HIDE DEF t
<1>3. /\ (cat' = c \/ cat' \in trim(c, Len(cat.entries))) /\ fresh' = fresh /\ retry' = retry /\ revisit' = revisit
      /\ revisitSilent' = revisitSilent /\ deferred' = deferred /\ features' = features /\ out' = out
      /\ outstanding' = outstanding /\ alive' = alive
  BY DEF setCatalogCap, rounds
<1>4. limit \in Nat
  BY CrawlerAssumption
<1>5. CatOK(cat) /\ Len(cat.entries) \in Nat
  BY <1>2, UsedFinite DEF Sound, CatOK, EntriesOK
<1>6. Sound(c, Weights(t), CheckWeights(t), t.out, alive)
  <2>1. CatOK(c) /\ c.entries = cat.entries /\ c.nextGeneration = cat.nextGeneration
    BY <1>4, <1>5, CapSet
  <2> HIDE DEF c
  <2>2. QED
    BY <1>2, <2>1, SoundSame
<1> HIDE DEF c
<1>7. Sound(cat', Weights(t), CheckWeights(t), t.out, alive)
  <2>1. CASE cat' = c
    BY <1>6, <2>1
  <2>2. CASE cat' \in trim(c, Len(cat.entries))
    BY <1>5, <1>6, <2>2, SoundTrimmed
  <2>3. QED
    BY <1>3, <2>1, <2>2
<1> DEFINE p == [cat |-> cat', fresh |-> t.fresh]
           v == With(t, p)
<1>8. Good(v, alive)
  BY <1>2, <1>7, CatReplaced
<1>9. p.cat = cat' /\ p.fresh = fresh
  BY <1>1
<1> HIDE DEF p
<1>10. /\ v.cat = p.cat /\ v.fresh = p.fresh /\ v.retry = t.retry /\ v.revisit = t.revisit
       /\ v.revisitSilent = t.revisitSilent /\ v.deferred = t.deferred /\ v.features = t.features /\ v.out = t.out
       /\ v.outstanding = t.outstanding
  BY <1>1, WithIs
<1> HIDE DEF v
<1>11. Good(v, alive')
  BY <1>3, <1>8
<1>12. QED
  BY <1>1, <1>3, <1>9, <1>10, <1>11, NowMembers

\* What holds in every state: every node is in its place, and the scan runs or does not.
IInv == Good(Members, alive) /\ monitoring \in BOOLEAN

\* It holds at the start.
LEMMA InitGood ==
    ASSUME Init
    PROVE  IInv
<1> DEFINE t == Members
<1>1. PICK cap \in Caps : cat = Empty(cap)
  BY DEF Init
<1>2. CatOK(cat) /\ InUse(cat) = {}
  BY <1>1, EmptyOK, CrawlerAssumption
<1>3. /\ t.cat = cat /\ t.fresh = fresh /\ t.retry = retry /\ t.revisit = revisit /\ t.revisitSilent = revisitSilent
      /\ t.deferred = deferred /\ t.features = features /\ t.out = out /\ t.outstanding = outstanding /\ IsMembers(t)
      /\ t.sent = 0
  BY MembersAre
<1> HIDE DEF t
<1>4. /\ fresh = <<>> /\ retry = <<>> /\ revisit = <<>> /\ revisitSilent = <<>> /\ deferred = <<>> /\ features = <<>>
      /\ out = {} /\ outstanding = 0 /\ monitoring = FALSE
  BY DEF Init
<1>5. <<>> \in Seq(Refs) /\ IsFiniteSet({}) /\ Cardinality({}) = 0
  BY FS_EmptySet
<1>6. Placed(t)
  BY <1>3, <1>4, <1>5 DEF Placed, QueuesOK, OutOK
<1>7. ASSUME NEW x \in Refs PROVE Weights(t)[x] = 0 /\ CheckWeights(t)[x] = 0
  <2>1. Times(<<>>, x) = 0
    <3>1. <<>> \in Seq(Refs) /\ \A i \in 1..Len(<<>>) : <<>>[i] # x
      OBVIOUS
    <3>2. QED
      BY <3>1, TimesIs
  <2>2. Cardinality(Asking({}, x)) = 0 /\ Cardinality(Checking({}, x)) = 0
    <3>1. Asking({}, x) = {} /\ Checking({}, x) = {}
      BY DEF Asking, Checking
    <3>2. QED
      BY <1>5, <3>1
  <2>3. Weight(t, x) = 0 /\ CheckWeight(t, x) = 0
    BY <1>3, <1>4, <2>1, <2>2 DEF Weight, CheckWeight
  <2>4. QED
    BY <2>3 DEF Weights, CheckWeights
<1>8. \A x \in Refs : ~isCurrent(cat, x)
  BY <1>2 DEF isCurrent
<1>9. Sound(cat, Weights(t), CheckWeights(t), out, alive)
  BY <1>2, <1>4, <1>7, <1>8 DEF Sound
<1>10. Good(t, alive)
  BY <1>3, <1>6, <1>9 DEF Good
<1>11. QED
  BY <1>4, <1>10 DEF IInv, t

\* Every step keeps it.
LEMMA NextGood ==
    ASSUME IInv, [Next]_vars
    PROVE  IInv'
<1>1. Good(Members, alive) /\ monitoring \in BOOLEAN
  BY DEF IInv
<1>2. CASE setMonitoring
  <2>1. monitoring' \in BOOLEAN
    BY <1>2 DEF setMonitoring
  <2>2. UNCHANGED <<retry, revisit, revisitSilent, deferred, features, out, outstanding, alive>>
    BY <1>2 DEF setMonitoring
  <2>3. (\E list \in Lists : learnFrom(cat, list)) \/ UNCHANGED <<cat, fresh>>
    BY <1>2 DEF setMonitoring
  <2>4. CASE \E list \in Lists : learnFrom(cat, list)
    <3>1. PICK list \in Lists : learnFrom(cat, list)
      BY <2>4
    <3>2. QED
      BY <1>1, <2>1, <2>2, <3>1, LearningKeeps DEF IInv
  <2>5. CASE UNCHANGED <<cat, fresh>>
    <3>1. Good(Members, alive)'
      BY <1>1, <2>2, <2>5, StillMembers
    <3>2. QED
      BY <2>1, <3>1 DEF IInv
  <2>6. QED
    BY <2>3, <2>4, <2>5
<1>3. CASE tick
  <2>1. monitoring' = monitoring
    BY <1>3 DEF tick
  <2>2. QED
    BY <1>1, <1>3, <2>1, TickKeeps DEF IInv
<1>4. ASSUME NEW q \in out, onThrottled(q) PROVE IInv'
  <2>1. monitoring' = monitoring
    BY <1>4 DEF onThrottled, Answered
  <2>2. QED
    BY <1>1, <1>4, <2>1, ThrottledKeeps DEF IInv
<1>5. ASSUME NEW q \in out, onTimeout(q) PROVE IInv'
  <2>1. monitoring' = monitoring
    BY <1>5 DEF onTimeout, Answered
  <2>2. QED
    BY <1>1, <1>5, <2>1, TimeoutKeeps DEF IInv
<1>6. ASSUME NEW q \in out, NEW list \in Lists, onAnswer(q, list) PROVE IInv'
  <2>1. monitoring' = monitoring
    BY <1>6 DEF onAnswer, Answered
  <2>2. QED
    BY <1>1, <1>6, <2>1, AnswerKeeps DEF IInv
<1>7. ASSUME NEW q \in out, NEW status \in Statuses, NEW list \in Lists, onFeatureReply(q, status, list) PROVE IInv'
  <2>1. monitoring' = monitoring
    BY <1>7 DEF onFeatureReply, Answered
  <2>2. QED
    BY <1>1, <1>7, <2>1, FeatureReplyKeeps DEF IInv
<1>8. ASSUME NEW list \in Lists, recordLookup(list) PROVE IInv'
  <2>1. /\ UNCHANGED <<retry, revisit, revisitSilent, deferred, features, out, outstanding, alive>>
        /\ monitoring' = monitoring /\ learnFrom(cat, list)
    BY <1>8 DEF recordLookup
  <2>2. QED
    BY <1>1, <2>1, LearningKeeps DEF IInv
<1>9. ASSUME NEW limit \in Caps, setCatalogCap(limit) PROVE IInv'
  <2>1. monitoring' = monitoring
    BY <1>9 DEF setCatalogCap
  <2>2. QED
    BY <1>1, <1>9, <2>1, CapKeeps DEF IInv
<1>10. CASE UNCHANGED vars
  <2>1. UNCHANGED <<cat, fresh, retry, revisit, revisitSilent, deferred, features, out, outstanding, alive>>
        /\ monitoring' = monitoring
    BY <1>10 DEF vars, rounds
  <2>2. QED
    BY <1>1, <2>1, StillMembers DEF IInv
<1>11. QED
  BY <1>2, <1>3, <1>4, <1>5, <1>6, <1>7, <1>8, <1>9, <1>10 DEF Next

\* The inductive invariant holds.
LEMMA AlwaysGood == Spec => []IInv
<1>1. Init => IInv
  BY InitGood
<1>2. IInv /\ [Next]_vars => IInv'
  BY NextGood
<1>3. QED
  BY <1>1, <1>2, PTL DEF Spec

\* A node in use, and what its entry fits.
LEMMA NodeFits ==
    ASSUME IInv, NEW s \in InUse(cat)
    PROVE  LET x == RefOf(cat, s)
           IN /\ x \in Refs /\ isCurrent(cat, x) /\ cat.entries[s] \in Entry
              /\ Fits(cat.entries[s], Weight(Members, x), CheckWeight(Members, x), alive)
<1> DEFINE x == RefOf(cat, s)
           t == Members
<1>1. t.cat = cat
  BY MembersAre
<1>2. Good(t, alive) /\ Placed(t)
  BY DEF IInv, Good
<1> HIDE DEF t
<1>3. CatOK(cat) /\ Sound(cat, Weights(t), CheckWeights(t), t.out, alive)
  BY <1>1, <1>2 DEF Good, Sound
<1>4. x \in Refs /\ isCurrent(cat, x) /\ x.slot = s /\ cat.entries[s] \in Entry
  BY <1>3, RefOfIs
<1> HIDE DEF x
<1>5. Fits(cat.entries[x.slot], Weights(t)[x], CheckWeights(t)[x], alive)
  BY <1>3, <1>4 DEF Sound
<1>6. Weights(t)[x] = Weight(t, x) /\ CheckWeights(t)[x] = CheckWeight(t, x)
  BY <1>2, <1>4, WeightsAre
<1>7. QED
  BY <1>4, <1>5, <1>6 DEF x, t

\* Every node the catalogue holds is in exactly one place of the rounds, unless its
\* address is unusable: nobody is asked twice as often as the others and nobody is
\* forgotten, however ticks, replies, evictions and reuse of slots interleave.
THEOREM EveryNodeInOneRound == Spec => []InOneRound
<1>1. IInv => InOneRound
  <2> SUFFICES ASSUME IInv, NEW s \in InUse(cat)
               PROVE  Waiting(RefOf(cat, s)) = IF cat.entries[s].state = "Unroutable" THEN 0 ELSE 1
    BY DEF InOneRound
  <2> DEFINE x == RefOf(cat, s)
  <2>1. Weight(Members, x) = One(cat.entries[s].state # "Unroutable")
    BY NodeFits DEF Fits
  <2>2. Waiting(x) = Weight(Members, x)
    BY MembersAre DEF Waiting, Weight, Times, PlacesOf, Asking
  <2> HIDE DEF x
  <2>3. QED
    BY <2>1, <2>2 DEF One, x
<1>2. QED
  BY <1>1, AlwaysGood, PTL

\* A node is marked as queued for feature checks exactly when one reference to it waits or
\* one check of it is in flight, and a node that answers and has checks left is marked.
THEOREM ChecksOneAtATime == Spec => []FeaturesOneAtATime
<1>1. IInv => FeaturesOneAtATime
  <2> SUFFICES ASSUME IInv, NEW s \in InUse(cat)
               PROVE  LET ref == RefOf(cat, s)
                          places == Cardinality({i \in DOMAIN features : features[i] = ref})
                                      + Cardinality({q \in out : q.kind # FindNode /\ q.ref = ref})
                      IN /\ places = IF cat.entries[s].featureQueued THEN 1 ELSE 0
                         /\ cat.entries[s].state = "Responsive" /\ ~featuresDone(cat.entries[s])
                              => cat.entries[s].featureQueued
    BY DEF FeaturesOneAtATime
  <2> DEFINE x == RefOf(cat, s)
             e == cat.entries[s]
  <2>1. Fits(e, Weight(Members, x), CheckWeight(Members, x), alive)
    BY NodeFits
  <2>2. CheckWeight(Members, x) = Cardinality({i \in DOMAIN features : features[i] = x})
                                    + Cardinality({q \in out : q.kind # FindNode /\ q.ref = x})
    BY MembersAre DEF CheckWeight, Times, PlacesOf, Checking
  <2> HIDE DEF x, e
  <2>3. CheckWeight(Members, x) = One(e.featureQueued) /\ (e.state = "Responsive" /\ ~featuresDone(e) => e.featureQueued)
    BY <2>1 DEF Fits
  <2>4. QED
    BY <2>2, <2>3 DEF One, x, e
<1>2. QED
  BY <1>1, AlwaysGood, PTL

\* A node is shown as answering or gone only if its own endpoint has answered: a late reply
\* to an evicted node is never credited to the node that has its slot.
THEOREM RepliesReachTheirNode == Spec => []AnswersAreItsOwn
<1>1. IInv => AnswersAreItsOwn
  <2> SUFFICES ASSUME IInv, NEW s \in InUse(cat), cat.entries[s].state \in {"Responsive", "Gone"}
               PROVE  cat.entries[s].endpoint \in alive
    BY DEF AnswersAreItsOwn
  <2>1. Fits(cat.entries[s], Weight(Members, RefOf(cat, s)), CheckWeight(Members, RefOf(cat, s)), alive)
    BY NodeFits
  <2>2. QED
    BY <2>1 DEF Fits
<1>2. QED
  BY <1>1, AlwaysGood, PTL

\* The scan says that it is up to date only when every node it holds has answered or run out
\* of tries, and every node that answers has been through its checks.
THEOREM UpToDateMeansDone == Spec => []UpToDateIsDone
<1>1. IInv => UpToDateIsDone
  <2> SUFFICES ASSUME IInv, Phase = "UpToDate", NEW s \in InUse(cat)
               PROVE  /\ cat.entries[s].state # "New"
                      /\ cat.entries[s].state = "Responsive" => featuresDone(cat.entries[s])
    BY DEF UpToDateIsDone
  <2> DEFINE e == cat.entries[s]
             x == RefOf(cat, s)
  <2>1. x \in Refs /\ e \in Entry /\ Fits(e, Weight(Members, x), CheckWeight(Members, x), alive)
    BY NodeFits
  <2>2. Good(Members, alive) /\ Members.cat = cat /\ Members.out = out /\ Members.outstanding = outstanding
        /\ Members.features = features
    BY MembersAre DEF IInv
  <2>3. CatOK(cat) /\ Placed(Members) /\ IsFiniteSet(out) /\ outstanding = Cardinality(out) /\ outstanding \in Nat
    <3>1. CatOK(cat) /\ Placed(Members) /\ IsFiniteSet(out) /\ outstanding = Cardinality(out)
      BY <2>2 DEF Good, Sound, Placed, OutOK
    <3>2. QED
      BY <3>1, FS_CardinalityType
  <2>4. cat.counts["New"] = Cardinality(InState(cat, "New")) /\ Cardinality(InState(cat, "New")) \in Nat
        /\ IsFiniteSet(InState(cat, "New"))
    <3>1. cat.counts["New"] = Cardinality(InState(cat, "New"))
      BY <2>3 DEF CatOK, CountsOK, CountsAgree, InState, EntryStates
    <3>2. cat.entries \in Seq(Entry)
      BY <2>3 DEF CatOK, EntriesOK
    <3>3. QED
      BY <3>1, <3>2, UsedFinite
  <2>5. monitoring \in BOOLEAN
    BY DEF IInv
  <2>6. cat.counts["New"] = 0 /\ outstanding = 0 /\ features = <<>>
    <3> DEFINE busy == fresh # <<>> \/ deferred # <<>> \/ cat.counts["New"] > 0
    <3>1. monitoring /\ ~busy
      BY <2>5 DEF Phase
    <3>2. cat.counts["New"] = 0 /\ fresh = <<>> /\ deferred = <<>>
      BY <2>4, <3>1
    <3>3. ~(outstanding > 0 \/ features # <<>>)
      BY <3>1, <3>2 DEF Phase
    <3>4. QED
      BY <2>3, <3>2, <3>3
  <2>7. e.state # "New"
    <3>1. InState(cat, "New") = {}
      BY <2>4, <2>6, FS_EmptySet
    <3>2. QED
      BY <3>1 DEF InState
  <2>8. CheckWeight(Members, x) = 0
    <3>1. out = {}
      BY <2>3, <2>6, FS_EmptySet
    <3>2. Checking(out, x) = {} /\ Cardinality({}) = 0
      BY <3>1, FS_EmptySet DEF Checking
    <3>3. Times(<<>>, x) = 0
      <4>1. <<>> \in Seq(Refs) /\ \A i \in 1..Len(<<>>) : <<>>[i] # x
        OBVIOUS
      <4>2. QED
        BY <4>1, TimesIs
    <3>4. QED
      BY <2>2, <2>6, <3>2, <3>3 DEF CheckWeight
  <2> HIDE DEF e, x
  <2>9. e.state = "Responsive" => featuresDone(e)
    BY <2>1, <2>8 DEF Fits, One
  <2>10. QED
    BY <2>7, <2>9 DEF e
<1>2. QED
  BY <1>1, AlwaysGood, PTL

\* The open-addressing index finds every node stored and no other, the counts shown are those
\* of the entries, the slots given back are those not in use, and the number of queries in
\* flight is exact: after any sequence of insertions, growth, evictions and backward shifts,
\* for every hash function and every cap.
THEOREM CatalogIsExact == Spec => []CatalogExact
<1>1. IInv => CatalogExact
  <2> SUFFICES ASSUME IInv PROVE CatalogExact
    OBVIOUS
  <2>1. /\ Good(Members, alive) /\ Members.cat = cat /\ Members.fresh = fresh /\ Members.retry = retry
        /\ Members.revisit = revisit /\ Members.revisitSilent = revisitSilent /\ Members.deferred = deferred
        /\ Members.features = features /\ Members.out = out /\ Members.outstanding = outstanding
        /\ monitoring \in BOOLEAN
    BY MembersAre DEF IInv
  <2>2. CatOK(cat) /\ outstanding = Cardinality(out)
    BY <2>1 DEF Good, Sound, Placed, OutOK
  <2>3. IndexIsExact
    BY <2>2, FoundExactly DEF IndexIsExact
  <2>4. CountsExact
    BY <2>2 DEF CountsExact, CatOK, CountsOK
  <2>5. TypeOK
    <3>1. cat.entries \in Seq(Entry)
      BY <2>2 DEF CatOK, EntriesOK
    <3>2. /\ fresh \in Seq(Refs) /\ retry \in Seq(Refs) /\ revisit \in Seq(Refs)
          /\ revisitSilent \in Seq(Refs) /\ deferred \in Seq(Refs) /\ features \in Seq(Refs)
      BY <2>1 DEF Good, Placed, QueuesOK
    <3>3. \A q \in {fresh, retry, revisit, revisitSilent, deferred, features} : q \in Seq(Refs)
      BY <3>2
    <3>4. QED
      BY <2>1, <3>1, <3>3 DEF TypeOK, Entry
  <2>6. QED
    BY <2>3, <2>4, <2>5 DEF CatalogExact
<1>2. QED
  BY <1>1, AlwaysGood, PTL
=============================================================================
