---------------------------- MODULE CensusProofs ----------------------------
(***************************************************************************)
(* The precise count forgets nobody and counts a slice only when everybody *)
(* found in it is settled: for any nodes, slices, limits and rounds, any   *)
(* lists in the answers, and whatever comes back late.                     *)
(***************************************************************************)
EXTENDS Census, TLAPS, FiniteSetTheorems

-----------------------------------------------------------------------------
(* Induction along a loop                                                  *)

\* What holds before a loop and is kept by each of its n turns holds after it.
LEMMA EveryTurn ==
    ASSUME NEW n \in Nat, NEW P, 0 \in P, \A k \in 0..(n - 1) : k \in P => k + 1 \in P
    PROVE  \A k \in 0..n : k \in P
<1> DEFINE T == (0..n) \ P
           R == {ss \in Nat \X Nat : ss[1] < ss[2]}
<1>1. IsWellFoundedOn(R, Nat)
  BY NatLessThanWellFounded DEF OpToRel
<1>2. SUFFICES ASSUME T # {} PROVE FALSE
  OBVIOUS
<1>3. T \subseteq Nat
  OBVIOUS
<1>4. PICK x \in T : \A y \in T : ~(<<y, x>> \in R)
  <2> HIDE DEF R, T
  <2>1. QED
    BY <1>1, <1>2, <1>3, WFMin
<1>5. \A y \in T : ~(y < x)
  <2>1. \A y \in T : y < x => <<y, x>> \in R
    BY <1>3
  <2>2. QED
    BY <1>4, <2>1
<1>6. QED
  BY <1>5

\* The limits are positive numbers.
LEMMA Limits ==
    /\ FailuresToGiveUp \in Nat \ {0} /\ MaxOutstanding \in Nat \ {0} /\ MaxRounds \in Nat \ {0}
    /\ QuietRoundsToFinish \in Nat \ {0} /\ SeedLookups \in Nat /\ MaxListed \in Nat
  BY CensusAssumption

-----------------------------------------------------------------------------
(* The nodes of a slice, the queue, and who is being asked                 *)

\* m_nodes.
NodesOK(N) ==
    /\ N = [e \in DOMAIN N |-> N[e]] /\ IsFiniteSet(DOMAIN N)
    /\ \A e \in DOMAIN N : e \in Endpoints /\ N[e] \in SliceNode

\* Everybody in the queue is a node of the slice, waits, and is there once.
QueueOK(N, Q, A) ==
    /\ Q \in Seq(Endpoints)
    /\ \A i \in 1..Len(Q) : /\ Q[i] \in DOMAIN N /\ Q[i] \notin A
                            /\ N[Q[i]].state \in {"Waiting", "Answered"}
    /\ \A i, j \in 1..Len(Q) : Q[i] = Q[j] => i = j

\* So is everybody being asked.
AskedOK(N, A) == \A e \in A : e \in DOMAIN N /\ N[e].state \in {"Asked", "Answered"}

\* Whoever is not settled has tries left, and is in the queue or being asked.
UnsettledOK(N, Q, A) ==
    \A e \in DOMAIN N : N[e].state \in {"Waiting", "Asked"} =>
        /\ N[e].failures < FailuresToGiveUp
        /\ e \in A \/ \E i \in 1..Len(Q) : Q[i] = e

\* A slice whose nodes N wait in Q or are asked (A).
Sound(N, Q, A) == NodesOK(N) /\ QueueOK(N, Q, A) /\ AskedOK(N, A) /\ UnsettledOK(N, Q, A)

\* Nobody who answered in M is less in N.
AnswersKept(M, N) ==
    \A e \in DOMAIN M : M[e].state = "Answered" => e \in DOMAIN N /\ N[e].state = "Answered"

\* A new node is put at the end of the queue.
LEMMA NodeAdded ==
    ASSUME NEW N, NEW Q, NEW A, Sound(N, Q, A), NEW e \in Endpoints, e \notin DOMAIN N,
           NEW n \in SliceNode, n.state = "Waiting", n.failures = 0
    PROVE  LET M == [x \in DOMAIN N \cup {e} |-> IF x \in DOMAIN N THEN N[x] ELSE n]
           IN Sound(M, Append(Q, e), A) /\ AnswersKept(N, M)
<1> DEFINE M == [x \in DOMAIN N \cup {e} |-> IF x \in DOMAIN N THEN N[x] ELSE n]
           R == Append(Q, e)
<1>1. DOMAIN M = DOMAIN N \cup {e} /\ M = [x \in DOMAIN M |-> M[x]]
  OBVIOUS
<1>2. (\A x \in DOMAIN N : M[x] = N[x]) /\ M[e] = n
  OBVIOUS
<1> HIDE DEF M
<1>3. IsFiniteSet(DOMAIN M)
  BY <1>1, FS_AddElement DEF Sound, NodesOK
<1>4. NodesOK(M)
  BY <1>1, <1>2, <1>3 DEF Sound, NodesOK
<1>5. /\ R \in Seq(Endpoints) /\ Len(R) = Len(Q) + 1 /\ R[Len(Q) + 1] = e
      /\ \A i \in 1..Len(Q) : R[i] = Q[i]
  BY DEF Sound, QueueOK
<1> HIDE DEF R
<1>6. e \notin A
  BY DEF Sound, AskedOK
<1>7. QueueOK(M, R, A)
  <2>1. \A i \in 1..Len(R) : i \in 1..Len(Q) \/ i = Len(Q) + 1
    BY <1>5 DEF Sound, QueueOK
  <2>2. QED
    BY <1>1, <1>2, <1>5, <1>6, <2>1 DEF Sound, QueueOK
<1>8. AskedOK(M, A)
  BY <1>1, <1>2 DEF Sound, AskedOK
<1>9. UnsettledOK(M, R, A)
  <2> SUFFICES ASSUME NEW x \in DOMAIN M, M[x].state \in {"Waiting", "Asked"}
               PROVE  /\ M[x].failures < FailuresToGiveUp
                      /\ x \in A \/ \E i \in 1..Len(R) : R[i] = x
    BY DEF UnsettledOK
  <2>1. CASE x \in DOMAIN N
    <3>1. /\ M[x].failures < FailuresToGiveUp
          /\ x \in A \/ \E i \in 1..Len(Q) : Q[i] = x
      BY <1>2, <2>1 DEF Sound, UnsettledOK
    <3>2. \A i \in 1..Len(Q) : i \in 1..Len(R)
      BY <1>5 DEF Sound, QueueOK
    <3>3. QED
      BY <1>5, <3>1, <3>2
  <2>2. CASE x = e
    <3>1. Len(Q) + 1 \in 1..Len(R)
      BY <1>5 DEF Sound, QueueOK
    <3>2. QED
      BY <1>2, <1>5, <2>2, <3>1, Limits
  <2>3. QED
    BY <1>1, <2>1, <2>2
<1>10. AnswersKept(N, M)
  BY <1>1, <1>2 DEF AnswersKept
<1>11. QED
  BY <1>4, <1>7, <1>8, <1>9, <1>10 DEF Sound, M, R

\* The head of the queue is asked.
LEMMA HeadAsked ==
    ASSUME NEW N, NEW Q, NEW A, Sound(N, Q, A), Q # <<>>, NEW n \in SliceNode,
           n = [N[Head(Q)] EXCEPT !.state = IF @ = "Answered" THEN @ ELSE "Asked"]
    PROVE  LET M == [N EXCEPT ![Head(Q)] = n]
           IN Sound(M, Tail(Q), A \cup {Head(Q)}) /\ AnswersKept(N, M)
<1> DEFINE e == Head(Q)
           M == [N EXCEPT ![e] = n]
           R == Tail(Q)
           B == A \cup {e}
<1>1. /\ Len(Q) \in Nat \ {0} /\ e = Q[1] /\ 1 \in 1..Len(Q)
      /\ R \in Seq(Endpoints) /\ Len(R) = Len(Q) - 1
      /\ \A i \in 1..Len(R) : R[i] = Q[i + 1] /\ i + 1 \in 1..Len(Q) /\ i + 1 # 1
  <2>1. Q \in Seq(Endpoints)
    BY DEF Sound, QueueOK
  <2>2. QED
    BY <2>1
<1> HIDE DEF R, e
<1>2. e \in DOMAIN N /\ e \in Endpoints /\ e \notin A /\ N[e].state \in {"Waiting", "Answered"}
  BY <1>1 DEF Sound, QueueOK, NodesOK
<1>3. /\ DOMAIN M = DOMAIN N /\ M = [x \in DOMAIN M |-> M[x]]
      /\ M[e] = n /\ \A x \in DOMAIN N : x # e => M[x] = N[x]
  BY <1>2 DEF Sound, NodesOK
<1>4. N[e] \in SliceNode
  BY <1>2 DEF Sound, NodesOK
<1>5. /\ n.state \in {"Asked", "Answered"} /\ (N[e].state = "Answered" <=> n.state = "Answered")
      /\ n.failures = N[e].failures
  BY <1>2, <1>4 DEF SliceNode, e
<1> HIDE DEF M
<1>6. NodesOK(M)
  BY <1>2, <1>3 DEF Sound, NodesOK
<1>7. \A i \in 1..Len(R) : R[i] # e
  BY <1>1 DEF Sound, QueueOK
<1>8. QueueOK(M, R, B)
  <2>1. \A i \in 1..Len(R) : /\ R[i] \in DOMAIN M /\ R[i] \notin B
                             /\ M[R[i]].state \in {"Waiting", "Answered"}
    BY <1>1, <1>3, <1>7 DEF Sound, QueueOK
  <2>2. \A i, j \in 1..Len(R) : R[i] = R[j] => i = j
    <3> TAKE i, j \in 1..Len(R)
    <3> HAVE R[i] = R[j]
    <3>1. i + 1 = j + 1
      BY <1>1 DEF Sound, QueueOK
    <3>2. QED
      BY <1>1, <3>1
  <2>3. QED
    BY <1>1, <2>1, <2>2 DEF QueueOK
<1>9. AskedOK(M, B)
  BY <1>2, <1>3, <1>5 DEF Sound, AskedOK
<1>10. UnsettledOK(M, R, B)
  <2> SUFFICES ASSUME NEW x \in DOMAIN M, M[x].state \in {"Waiting", "Asked"}
               PROVE  /\ M[x].failures < FailuresToGiveUp
                      /\ x \in B \/ \E i \in 1..Len(R) : R[i] = x
    BY DEF UnsettledOK
  <2>1. CASE x = e
    BY <1>2, <1>3, <1>5, <2>1 DEF Sound, UnsettledOK
  <2>2. CASE x # e
    <3>1. /\ M[x].failures < FailuresToGiveUp
          /\ x \in A \/ \E i \in 1..Len(Q) : Q[i] = x
      BY <1>3, <2>2 DEF Sound, UnsettledOK
    <3>2. ASSUME NEW i \in 1..Len(Q), Q[i] = x PROVE \E j \in 1..Len(R) : R[j] = x
      <4>1. i - 1 \in 1..Len(R) /\ i = (i - 1) + 1
        BY <1>1, <2>2, <3>2
      <4>2. R[i - 1] = Q[i]
        BY <1>1, <4>1
      <4>3. QED
        BY <3>2, <4>1, <4>2
    <3>3. QED
      BY <3>1, <3>2
  <2>3. QED
    BY <2>1, <2>2
<1>11. AnswersKept(N, M)
  BY <1>3, <1>5 DEF AnswersKept
<1>12. QED
  BY <1>6, <1>8, <1>9, <1>10, <1>11 DEF Sound, M, R, B, e

\* The head of the queue goes to its end.
LEMMA HeadRotated ==
    ASSUME NEW N, NEW Q, NEW A, Sound(N, Q, A), Q # <<>>
    PROVE  Sound(N, Append(Tail(Q), Head(Q)), A)
<1> DEFINE R == Append(Tail(Q), Head(Q))
           up(i) == IF i = Len(Q) THEN 1 ELSE i + 1
           down(i) == IF i = 1 THEN Len(Q) ELSE i - 1
<1>1. Q \in Seq(Endpoints)
  BY DEF Sound, QueueOK
<1>2. /\ Len(Q) \in Nat \ {0} /\ R \in Seq(Endpoints) /\ Len(R) = Len(Q)
      /\ \A i \in 1..Len(Q) : R[i] = Q[up(i)]
  BY <1>1
<1> HIDE DEF R
<1>3. /\ \A i \in 1..Len(Q) : up(i) \in 1..Len(Q)
      /\ \A i, j \in 1..Len(Q) : up(i) = up(j) => i = j
      /\ \A i \in 1..Len(Q) : down(i) \in 1..Len(Q) /\ up(down(i)) = i
  BY <1>2
<1> HIDE DEF up, down
<1>4. QueueOK(N, R, A)
  <2>1. \A i \in 1..Len(R) : R[i] = Q[up(i)] /\ up(i) \in 1..Len(Q)
    BY <1>2, <1>3
  <2>2. \A i, j \in 1..Len(R) : R[i] = R[j] => i = j
    BY <1>2, <1>3 DEF Sound, QueueOK
  <2>3. QED
    BY <1>2, <2>1, <2>2 DEF Sound, QueueOK
<1>5. UnsettledOK(N, R, A)
  <2>1. ASSUME NEW e, NEW i \in 1..Len(Q), Q[i] = e PROVE \E j \in 1..Len(R) : R[j] = e
    <3>1. down(i) \in 1..Len(R) /\ R[down(i)] = e
      BY <1>2, <1>3, <2>1
    <3>2. QED
      BY <3>1
  <2>2. QED
    BY <2>1 DEF Sound, UnsettledOK
<1>6. QED
  BY <1>4, <1>5 DEF Sound, R

\* A query comes back: the node is settled, or queued again.
LEMMA Returns ==
    ASSUME NEW N, NEW Q, NEW A, Sound(N, Q, A), NEW e \in A, NEW n \in SliceNode, NEW again \in BOOLEAN,
           n.state # "Asked", n.state = "Waiting" => again /\ n.failures < FailuresToGiveUp,
           again => n.state # "Silent"
    PROVE  Sound([N EXCEPT ![e] = n], IF again THEN Append(Q, e) ELSE Q, A \ {e})
<1> DEFINE M == [N EXCEPT ![e] = n]
           R == IF again THEN Append(Q, e) ELSE Q
           B == A \ {e}
<1>1. e \in DOMAIN N /\ e \in Endpoints
  BY DEF Sound, AskedOK, NodesOK
<1>2. /\ DOMAIN M = DOMAIN N /\ M = [x \in DOMAIN M |-> M[x]]
      /\ M[e] = n /\ \A x \in DOMAIN N : x # e => M[x] = N[x]
  BY <1>1 DEF Sound, NodesOK
<1> HIDE DEF M
<1>3. Q \in Seq(Endpoints) /\ \A i \in 1..Len(Q) : Q[i] # e
  BY DEF Sound, QueueOK
<1>4. /\ R \in Seq(Endpoints) /\ \A i \in 1..Len(Q) : i \in 1..Len(R) /\ R[i] = Q[i]
      /\ again => Len(R) \in 1..Len(R) /\ R[Len(R)] = e
      /\ \A i \in 1..Len(R) : i \in 1..Len(Q) \/ (again /\ i = Len(R))
  BY <1>1, <1>3
<1> HIDE DEF R
<1>5. NodesOK(M)
  BY <1>1, <1>2 DEF Sound, NodesOK
<1>6. QueueOK(M, R, B)
  <2>1. \A i \in 1..Len(R) : /\ R[i] \in DOMAIN M /\ R[i] \notin B
                             /\ M[R[i]].state \in {"Waiting", "Answered"}
    <3> TAKE i \in 1..Len(R)
    <3>1. CASE i \in 1..Len(Q)
      BY <1>2, <1>3, <1>4, <3>1 DEF Sound, QueueOK
    <3>2. CASE again /\ i = Len(R)
      BY <1>1, <1>2, <1>4, <3>2 DEF SliceNode
    <3>3. QED
      BY <1>4, <3>1, <3>2
  <2>2. \A i, j \in 1..Len(R) : R[i] = R[j] => i = j
    BY <1>3, <1>4 DEF Sound, QueueOK
  <2>3. QED
    BY <1>4, <2>1, <2>2 DEF QueueOK
<1>7. AskedOK(M, B)
  BY <1>2 DEF Sound, AskedOK
<1>8. UnsettledOK(M, R, B)
  <2> SUFFICES ASSUME NEW x \in DOMAIN M, M[x].state \in {"Waiting", "Asked"}
               PROVE  /\ M[x].failures < FailuresToGiveUp
                      /\ x \in B \/ \E i \in 1..Len(R) : R[i] = x
    BY DEF UnsettledOK
  <2>1. CASE x = e
    BY <1>2, <1>4, <2>1
  <2>2. CASE x # e
    BY <1>2, <1>4, <2>2 DEF Sound, UnsettledOK
  <2>3. QED
    BY <2>1, <2>2
<1>9. QED
  BY <1>5, <1>6, <1>7, <1>8 DEF Sound, M, R, B

\* A sequence of the members of a finite set, each once.
LEMMA AllOnce ==
    ASSUME NEW S, IsFiniteSet(S)
    PROVE  /\ SetToSeq(S) \in Seq(S)
           /\ \A i, j \in 1..Len(SetToSeq(S)) : SetToSeq(S)[i] = SetToSeq(S)[j] => i = j
<1> DEFINE D == 1..Cardinality(S)
<1>1. Cardinality(S) \in Nat /\ ExistsBijection(D, S)
  BY FS_CardinalityType
<1>2. PICK f \in [D -> S] : IsInjective(f)
  BY <1>1 DEF ExistsBijection, Bijection, Injection, IsInjective
<1>3. SetToSeq(S) \in [D -> S] /\ IsInjective(SetToSeq(S))
  BY <1>2 DEF SetToSeq
<1> HIDE DEF D
<1>4. SetToSeq(S) \in Seq(S) /\ Len(SetToSeq(S)) = Cardinality(S)
  BY <1>1, <1>3 DEF D
<1>5. QED
  BY <1>3, <1>4 DEF IsInjective, D

\* With nobody queued or asked, everybody who answered is queued.
LEMMA AllQueued ==
    ASSUME NEW N, Sound(N, <<>>, {}),
           NEW S, S = {e \in DOMAIN N : N[e].state = "Answered"}
    PROVE  Sound(N, <<>> \o SetToSeq(S), {})
<1> DEFINE R == SetToSeq(S)
<1>1. IsFiniteSet(S) /\ S \subseteq DOMAIN N /\ S \subseteq Endpoints
  <2>1. IsFiniteSet(DOMAIN N) /\ S \subseteq DOMAIN N
    BY DEF Sound, NodesOK
  <2>2. QED
    BY <2>1, FS_Subset DEF Sound, NodesOK
<1>2. R \in Seq(S) /\ \A i, j \in 1..Len(R) : R[i] = R[j] => i = j
  BY <1>1, AllOnce
<1> HIDE DEF R
<1>3. <<>> \o R = R /\ R \in Seq(Endpoints) /\ \A i \in 1..Len(R) : R[i] \in S
  BY <1>1, <1>2
<1>4. QueueOK(N, R, {})
  BY <1>1, <1>2, <1>3 DEF QueueOK
<1>5. UnsettledOK(N, R, {})
  <2>1. \A e \in DOMAIN N : N[e].state \notin {"Waiting", "Asked"}
    BY DEF Sound, UnsettledOK
  <2>2. QED
    BY <2>1 DEF UnsettledOK
<1>6. QED
  BY <1>3, <1>4, <1>5 DEF Sound, R

-----------------------------------------------------------------------------
(* A slice in progress                                                     *)

\* S has the members of a slice and no others.
IsSlice(S) ==
    /\ DOMAIN S = {"family", "round", "quietRounds", "newThisRound", "nodes", "queue"}
    /\ S = [x \in DOMAIN S |-> S[x]]

\* The quiet rounds lie between the round that found the last node and this one.
RoundsOK(S) ==
    /\ S.round \in 1..MaxRounds /\ S.quietRounds \in Nat /\ S.newThisRound \in Nat
    /\ S.quietRounds + 1 <= S.round
    /\ DOMAIN S.nodes # {} /\ S.newThisRound = 0 => S.quietRounds + 2 <= S.round

\* A slice whose nodes A are being asked.
Going(S, A) == IsSlice(S) /\ RoundsOK(S) /\ Sound(S.nodes, S.queue, A)

\* One node of a list.
LEMMA ConsiderOne ==
    ASSUME NEW S, NEW A, Going(S, A), NEW l \in Listings
    PROVE  Going(consider(S, l), A) /\ AnswersKept(S.nodes, consider(S, l).nodes)
<1> DEFINE e == l.endpoint
           n == [listedId |-> l.id, answeredId |-> DefaultId, state |-> "Waiting",
                 failures |-> 0, answeredInSlice |-> FALSE]
           M == [x \in DOMAIN S.nodes \cup {e} |-> IF x \in DOMAIN S.nodes THEN S.nodes[x] ELSE n]
           T == [S EXCEPT !.nodes = M, !.newThisRound = S.newThisRound + 1,
                          !.queue = Append(S.queue, e)]
<1>1. CASE consider(S, l) = S
  BY <1>1 DEF AnswersKept
<1>2. CASE consider(S, l) # S
  <2>1. /\ consider(S, l) = T /\ e \notin DOMAIN S.nodes /\ l.id \in SliceIds
    BY <1>2 DEF consider, inSlice
  <2>2. e \in Endpoints
    BY DEF Listings
  <2>3. n \in SliceNode /\ n.state = "Waiting" /\ n.failures = 0
    BY <2>1, Limits DEF SliceNode
  <2> HIDE DEF n, e
  <2>4. Sound(M, Append(S.queue, e), A) /\ AnswersKept(S.nodes, M)
    BY <2>1, <2>2, <2>3, NodeAdded DEF Going
  <2> HIDE DEF M
  <2>5. /\ T.family = S.family /\ T.round = S.round /\ T.quietRounds = S.quietRounds
        /\ T.newThisRound = S.newThisRound + 1 /\ T.nodes = M /\ T.queue = Append(S.queue, e)
        /\ IsSlice(T)
    BY DEF Going, IsSlice
  <2> HIDE DEF T
  <2>6. RoundsOK(T)
    BY <2>5 DEF Going, RoundsOK
  <2>7. QED
    BY <2>1, <2>4, <2>5, <2>6 DEF Going
<1>3. QED
  BY <1>1, <1>2

\* The loop over a list: each turn considers one node.
LEMMA ConsiderLoop ==
    ASSUME NEW S, NEW list \in Seq(Listings)
    PROVE  \E after : /\ after[0] = S /\ after[Len(list)] = ConsiderAll(S, list)
                      /\ \A k \in 0..(Len(list) - 1) : after[k + 1] = consider(after[k], list[k + 1])
<1> DEFINE Body(r, n) == [k \in 0..n |-> IF k = 0 THEN S ELSE consider(r[k - 1], list[k])]
           P == {n \in Nat : \E r : r = Body(r, n)}
<1>1. 0 \in P
  <2>1. [k \in 0..0 |-> S] = Body([k \in 0..0 |-> S], 0)
    OBVIOUS
  <2>2. QED
    BY <2>1
<1>2. \A n \in 0..(Len(list) - 1) : n \in P => n + 1 \in P
  <2> SUFFICES ASSUME NEW n \in 0..(Len(list) - 1), n \in P PROVE n + 1 \in P
    OBVIOUS
  <2> PICK r : r = Body(r, n)
    OBVIOUS
  <2> DEFINE q == [k \in 0..(n + 1) |-> IF k = n + 1 THEN consider(r[n], list[n + 1]) ELSE r[k]]
  <2>1. q = Body(q, n + 1)
    OBVIOUS
  <2>2. \E x : x = Body(x, n + 1)
    BY <2>1
  <2>3. QED
    BY <2>2
<1>3. PICK r : r = Body(r, Len(list))
  <2>1. Len(list) \in Nat
    OBVIOUS
  <2> HIDE DEF P
  <2>2. \A k \in 0..Len(list) : k \in P
    BY <1>1, <1>2, <2>1, EveryTurn
  <2>3. Len(list) \in P
    BY <2>1, <2>2
  <2>4. QED
    BY <2>3 DEF P
<1> DEFINE f == CHOOSE g : g = Body(g, Len(list))
<1>4. f = Body(f, Len(list))
  BY <1>3
<1>5. ConsiderAll(S, list) = f[Len(list)]
  BY DEF ConsiderAll
<1> HIDE DEF f
<1>6. f[0] = S /\ \A k \in 0..(Len(list) - 1) : f[k + 1] = consider(f[k], list[k + 1])
  BY <1>4
<1>7. QED
  BY <1>5, <1>6

\* What a reply names is a sequence of listings.
LEMMA ListType == \A list \in Lists : list \in Seq(Listings)
  BY Limits DEF Lists

\* All the nodes of a list.
LEMMA ConsiderAllKeeps ==
    ASSUME NEW S, NEW A, Going(S, A), NEW list \in Lists
    PROVE  Going(ConsiderAll(S, list), A) /\ AnswersKept(S.nodes, ConsiderAll(S, list).nodes)
<1>1. list \in Seq(Listings) /\ Len(list) \in Nat
  BY ListType
<1>2. PICK after : /\ after[0] = S /\ after[Len(list)] = ConsiderAll(S, list)
                   /\ \A k \in 0..(Len(list) - 1) : after[k + 1] = consider(after[k], list[k + 1])
  BY <1>1, ConsiderLoop
<1> DEFINE P == {k \in 0..Len(list) : Going(after[k], A) /\ AnswersKept(S.nodes, after[k].nodes)}
<1>3. 0 \in P
  BY <1>1, <1>2 DEF AnswersKept
<1>4. ASSUME NEW k \in 0..(Len(list) - 1), k \in P PROVE k + 1 \in P
  <2>1. list[k + 1] \in Listings /\ k + 1 \in 0..Len(list)
    BY <1>1
  <2>2. Going(after[k + 1], A) /\ AnswersKept(after[k].nodes, after[k + 1].nodes)
    BY <1>2, <1>4, <2>1, ConsiderOne
  <2>3. QED
    BY <1>4, <2>1, <2>2 DEF AnswersKept
<1>5. \A k \in 0..Len(list) : k \in P
  <2> HIDE DEF P
  <2>1. QED
    BY <1>1, <1>3, <1>4, EveryTurn
<1>6. QED
  BY <1>1, <1>2, <1>5

-----------------------------------------------------------------------------
(* Callbacks                                                               *)

\* A query or a seeding lookup under way.
Callbacks == [generation : Nat, to : Endpoints] \cup [generation : Nat, lookup : 1..SeedLookups]

\* The queries and lookups of generation g, and who is asked.
QueriesOf(O, g) == {q \in O : q.generation = g /\ "to" \in DOMAIN q}
LookupsOf(O, g) == {q \in O : q.generation = g /\ "lookup" \in DOMAIN q}
AskedIn(O, g) == {e \in Endpoints : [generation |-> g, to |-> e] \in O}

\* None is of a generation to come.
CallsOK(O, g) == IsFiniteSet(O) /\ O \subseteq Callbacks /\ \A q \in O : q.generation <= g

\* A callback is one or the other.
LEMMA CallbackIs ==
    ASSUME NEW q \in Callbacks
    PROVE  /\ q.generation \in Nat
           /\ "to" \in DOMAIN q => /\ q.to \in Endpoints /\ "lookup" \notin DOMAIN q
                                   /\ q = [generation |-> q.generation, to |-> q.to]
           /\ "to" \notin DOMAIN q => "lookup" \in DOMAIN q
<1>1. CASE q \in [generation : Nat, to : Endpoints]
  BY <1>1
<1>2. CASE q \in [generation : Nat, lookup : 1..SeedLookups]
  BY <1>2
<1>3. QED
  BY <1>1, <1>2 DEF Callbacks

\* The numbers of callbacks are numbers.
LEMMA CallsCounted ==
    ASSUME NEW O, NEW g, CallsOK(O, g)
    PROVE  /\ IsFiniteSet(QueriesOf(O, g)) /\ IsFiniteSet(LookupsOf(O, g))
           /\ Cardinality(QueriesOf(O, g)) \in Nat /\ Cardinality(LookupsOf(O, g)) \in Nat
           /\ Cardinality(QueriesOf(O, g)) = 0 <=> QueriesOf(O, g) = {}
           /\ Cardinality(LookupsOf(O, g)) = 0 <=> LookupsOf(O, g) = {}
<1>1. IsFiniteSet(O) /\ QueriesOf(O, g) \subseteq O /\ LookupsOf(O, g) \subseteq O
  BY DEF CallsOK, QueriesOf, LookupsOf
<1>2. IsFiniteSet(QueriesOf(O, g)) /\ IsFiniteSet(LookupsOf(O, g))
  BY <1>1, FS_Subset
<1>3. QED
  BY <1>2, FS_CardinalityType, FS_EmptySet

\* A query more.
LEMMA QuerySent ==
    ASSUME NEW O, NEW g \in Nat, CallsOK(O, g), NEW e \in Endpoints, e \notin AskedIn(O, g),
           NEW X, X = O \cup {[generation |-> g, to |-> e]}
    PROVE  /\ CallsOK(X, g) /\ AskedIn(X, g) = AskedIn(O, g) \cup {e}
           /\ Cardinality(QueriesOf(X, g)) = Cardinality(QueriesOf(O, g)) + 1
           /\ LookupsOf(X, g) = LookupsOf(O, g)
<1> DEFINE q == [generation |-> g, to |-> e]
<1>1. /\ q \in Callbacks /\ q.generation = g /\ "to" \in DOMAIN q /\ "lookup" \notin DOMAIN q
      /\ \A x \in Endpoints : [generation |-> g, to |-> x] = q <=> x = e
  BY DEF Callbacks
<1>2. q \notin O /\ X = O \cup {q}
  BY DEF AskedIn
<1> HIDE DEF q
<1>3. CallsOK(X, g)
  BY <1>1, <1>2, FS_AddElement DEF CallsOK
<1>4. AskedIn(X, g) = AskedIn(O, g) \cup {e}
  BY <1>1, <1>2 DEF AskedIn
<1>5. QueriesOf(X, g) = QueriesOf(O, g) \cup {q} /\ q \notin QueriesOf(O, g)
  BY <1>1, <1>2 DEF QueriesOf
<1>6. Cardinality(QueriesOf(X, g)) = Cardinality(QueriesOf(O, g)) + 1
  BY <1>5, CallsCounted, FS_AddElement
<1>7. LookupsOf(X, g) = LookupsOf(O, g)
  BY <1>1, <1>2 DEF LookupsOf
<1>8. QED
  BY <1>3, <1>4, <1>6, <1>7 DEF q

\* A set with a member less, if it was one.
LEMMA OneLess ==
    ASSUME NEW S, IsFiniteSet(S), NEW x
    PROVE  Cardinality(S \ {x}) = Cardinality(S) - IF x \in S THEN 1 ELSE 0
<1>1. Cardinality(S) \in Nat
  BY FS_CardinalityType
<1>2. Cardinality(S \ {x}) = IF x \in S THEN Cardinality(S) - 1 ELSE Cardinality(S)
  BY FS_RemoveElement
<1>3. QED
  BY <1>1, <1>2

\* A callback less.
LEMMA CallReturned ==
    ASSUME NEW O, NEW g \in Nat, CallsOK(O, g), NEW q \in O
    PROVE  /\ CallsOK(O \ {q}, g)
           /\ Cardinality(QueriesOf(O \ {q}, g)) =
                Cardinality(QueriesOf(O, g)) - IF q.generation = g /\ "to" \in DOMAIN q THEN 1 ELSE 0
           /\ Cardinality(LookupsOf(O \ {q}, g)) =
                Cardinality(LookupsOf(O, g)) - IF q.generation = g /\ "lookup" \in DOMAIN q THEN 1 ELSE 0
           /\ AskedIn(O \ {q}, g) =
                AskedIn(O, g) \ IF q.generation = g /\ "to" \in DOMAIN q THEN {q.to} ELSE {}
           /\ q.generation = g /\ "to" \in DOMAIN q => q.to \in AskedIn(O, g)
<1> DEFINE X == O \ {q}
<1>1. q \in Callbacks
  BY DEF CallsOK
<1>2. CallsOK(X, g)
  BY FS_RemoveElement DEF CallsOK
<1>3. /\ QueriesOf(X, g) = QueriesOf(O, g) \ {q}
      /\ q \in QueriesOf(O, g) <=> q.generation = g /\ "to" \in DOMAIN q
  BY DEF QueriesOf
<1>4. /\ LookupsOf(X, g) = LookupsOf(O, g) \ {q}
      /\ q \in LookupsOf(O, g) <=> q.generation = g /\ "lookup" \in DOMAIN q
  BY DEF LookupsOf
<1>5. /\ Cardinality(QueriesOf(X, g)) =
           Cardinality(QueriesOf(O, g)) - IF q.generation = g /\ "to" \in DOMAIN q THEN 1 ELSE 0
      /\ Cardinality(LookupsOf(X, g)) =
           Cardinality(LookupsOf(O, g)) - IF q.generation = g /\ "lookup" \in DOMAIN q THEN 1 ELSE 0
  <2>1. /\ IsFiniteSet(QueriesOf(O, g)) /\ Cardinality(QueriesOf(O, g)) \in Nat
        /\ IsFiniteSet(LookupsOf(O, g)) /\ Cardinality(LookupsOf(O, g)) \in Nat
    BY CallsCounted
  <2>2. Cardinality(QueriesOf(X, g)) = Cardinality(QueriesOf(O, g)) - IF q \in QueriesOf(O, g) THEN 1 ELSE 0
    BY <1>3, <2>1, OneLess
  <2>3. Cardinality(LookupsOf(X, g)) = Cardinality(LookupsOf(O, g)) - IF q \in LookupsOf(O, g) THEN 1 ELSE 0
    BY <1>4, <2>1, OneLess
  <2>4. QED
    BY <1>3, <1>4, <2>2, <2>3
<1>6. CASE q.generation = g /\ "to" \in DOMAIN q
  <2>1. q.to \in Endpoints /\ q = [generation |-> g, to |-> q.to]
    BY <1>1, <1>6, CallbackIs
  <2>2. \A x \in Endpoints : [generation |-> g, to |-> x] = q <=> x = q.to
    BY <2>1
  <2>3. AskedIn(X, g) = AskedIn(O, g) \ {q.to} /\ q.to \in AskedIn(O, g)
    BY <2>1, <2>2 DEF AskedIn
  <2>4. QED
    BY <1>2, <1>5, <1>6, <2>3
<1>7. CASE ~(q.generation = g /\ "to" \in DOMAIN q)
  <2>1. \A x \in Endpoints : [generation |-> g, to |-> x] # q
    BY <1>7
  <2>2. AskedIn(X, g) = AskedIn(O, g)
    BY <2>1 DEF AskedIn
  <2>3. QED
    BY <1>2, <1>5, <1>7, <2>2
<1>8. QED
  BY <1>6, <1>7

-----------------------------------------------------------------------------
(* The loop of tick()                                                      *)

\* Nothing is asked beyond the window, and m_outstanding counts it.
WindowOK(n, O, g) == n \in 0..MaxOutstanding /\ n = Cardinality(QueriesOf(O, g))

\* t is what the loop works on.
IsTurn(t) ==
    /\ DOMAIN t = {"queue", "nodes", "outstanding", "out"}
    /\ t = [x \in DOMAIN t |-> t[x]]

\* What holds after k turns.
AfterTurns(t, k) ==
    /\ IsTurn(t) /\ CallsOK(t.out, generation) /\ WindowOK(t.outstanding, t.out, generation)
    /\ Sound(t.nodes, t.queue, AskedIn(t.out, generation))
    /\ LookupsOf(t.out, generation) = LookupsOf(out, generation)
    /\ AnswersKept(nodes, t.nodes) /\ DOMAIN t.nodes = DOMAIN nodes
    /\ outstanding <= t.outstanding
    /\ t.outstanding = outstanding => t.nodes = nodes /\ t.out = out
    /\ t.outstanding < MaxOutstanding => Len(queue) <= Len(t.queue) + k

\* One turn of the loop.
Turned(t, busy) ==
    IF t.outstanding >= MaxOutstanding THEN t
    ELSE LET e == Head(t.queue)
             rest == [t EXCEPT !.queue = Tail(@)]
         IN IF e \in busy THEN [rest EXCEPT !.queue = Append(@, e)] ELSE ask(rest, e)

\* A turn sends one query, or puts one node at the end, or the window is full.
LEMMA TurnKeeps ==
    ASSUME generation \in Nat, queue \in Seq(Endpoints), outstanding \in Nat, NEW busy,
           NEW k \in 0..(Len(queue) - 1), NEW t, AfterTurns(t, k)
    PROVE  AfterTurns(Turned(t, busy), k + 1)
<1> DEFINE e == Head(t.queue)
           g == generation
<1>0. t.outstanding \in Nat /\ MaxOutstanding \in Nat /\ Len(queue) \in Nat /\ t.queue \in Seq(Endpoints)
  BY Limits DEF AfterTurns, WindowOK, Sound, QueueOK
<1>1. CASE t.outstanding >= MaxOutstanding
  <2>1. Turned(t, busy) = t
    BY <1>1 DEF Turned
  <2>2. ~(t.outstanding < MaxOutstanding)
    BY <1>0, <1>1
  <2>3. QED
    BY <2>1, <2>2 DEF AfterTurns
<1>2. CASE t.outstanding < MaxOutstanding
  <2>0. Len(queue) <= Len(t.queue) + k /\ k \in Nat
    BY <1>0, <1>2 DEF AfterTurns
  <2>00. Len(t.queue) >= 1 /\ Len(t.queue) \in Nat
    BY <1>0, <2>0
  <2>1. t.queue # <<>> /\ Len(t.queue) \in Nat
    BY <1>0, <2>00
  <2>2. e \in Endpoints /\ Tail(t.queue) \in Seq(Endpoints) /\ Len(Tail(t.queue)) = Len(t.queue) - 1
    BY <1>0, <2>1
  <2>3. CASE e \in busy
    <3> DEFINE u == [[t EXCEPT !.queue = Tail(t.queue)] EXCEPT !.queue = Append(Tail(t.queue), e)]
    <3>1. Turned(t, busy) = u
      BY <1>0, <1>2, <2>3 DEF Turned, AfterTurns, IsTurn
    <3>2. /\ IsTurn(u) /\ u.queue = Append(Tail(t.queue), e) /\ u.nodes = t.nodes
          /\ u.outstanding = t.outstanding /\ u.out = t.out
      BY DEF AfterTurns, IsTurn
    <3> HIDE DEF u
    <3>3. Sound(u.nodes, u.queue, AskedIn(u.out, g))
      BY <2>1, <3>2, HeadRotated DEF AfterTurns
    <3>4. Len(u.queue) = Len(t.queue)
      BY <2>1, <2>2, <3>2
    <3>5. Len(queue) <= Len(u.queue) + (k + 1)
      <4>1. \A a, b, c \in Nat : a <= b + c => a <= b + (c + 1)
        OBVIOUS
      <4>2. Len(queue) \in Nat /\ Len(u.queue) \in Nat /\ Len(queue) <= Len(u.queue) + k
        BY <1>0, <2>0, <2>00, <3>4
      <4>3. QED
        BY <2>0, <4>1, <4>2, Zenon
    <3>6. QED
      BY <3>1, <3>2, <3>3, <3>5 DEF AfterTurns
  <2>4. CASE e \notin busy
    <3> DEFINE n == [t.nodes[e] EXCEPT !.state = IF @ = "Answered" THEN @ ELSE "Asked"]
               q == [generation |-> g, to |-> e]
               M == [t.nodes EXCEPT ![e] = n]
               u == [[t EXCEPT !.queue = Tail(t.queue)]
                       EXCEPT !.nodes = M, !.outstanding = t.outstanding + 1, !.out = t.out \cup {q}]
    <3>1. e \in DOMAIN t.nodes /\ t.nodes[e] \in SliceNode /\ e \notin AskedIn(t.out, g)
      <4>1. e = t.queue[1] /\ 1 \in 1..Len(t.queue)
        BY <1>0, <2>1
      <4>2. QED
        BY <4>1 DEF AfterTurns, Sound, QueueOK, NodesOK
    <3>2. n \in SliceNode
      BY <3>1 DEF SliceNode
    <3>3. Turned(t, busy) = ask([t EXCEPT !.queue = Tail(t.queue)], e)
      BY <1>0, <1>2, <2>4 DEF Turned
    <3>4. ask([t EXCEPT !.queue = Tail(t.queue)], e) = u
      BY <3>1 DEF ask, AfterTurns, IsTurn
    <3> HIDE DEF n, q, M
    <3>5. /\ IsTurn(u) /\ u.queue = Tail(t.queue) /\ u.nodes = M
          /\ u.outstanding = t.outstanding + 1 /\ u.out = t.out \cup {q}
      BY DEF AfterTurns, IsTurn
    <3> HIDE DEF u, e, g
    <3>6. Sound(M, Tail(t.queue), AskedIn(t.out, g) \cup {e}) /\ AnswersKept(t.nodes, M)
      BY <2>1, <3>2, HeadAsked DEF AfterTurns, M, n, e, g
    <3>7. /\ CallsOK(u.out, g) /\ AskedIn(u.out, g) = AskedIn(t.out, g) \cup {e}
          /\ Cardinality(QueriesOf(u.out, g)) = Cardinality(QueriesOf(t.out, g)) + 1
          /\ LookupsOf(u.out, g) = LookupsOf(t.out, g)
      <4>1. CallsOK(t.out, g) /\ g \in Nat
        BY DEF AfterTurns, g
      <4>2. u.out = t.out \cup {[generation |-> g, to |-> e]}
        BY <3>5 DEF q
      <4>3. e \in Endpoints /\ e \notin AskedIn(t.out, g)
        BY <2>2, <3>1
      <4>4. QED
        BY <4>1, <4>2, <4>3, QuerySent
    <3>8. WindowOK(u.outstanding, u.out, g)
      BY <1>0, <1>2, <3>5, <3>7 DEF AfterTurns, WindowOK, g
    <3>9. AnswersKept(nodes, u.nodes) /\ DOMAIN u.nodes = DOMAIN nodes
      BY <3>5, <3>6 DEF AfterTurns, AnswersKept, M
    <3>10. Len(queue) <= Len(u.queue) + (k + 1)
      <4>1. Len(queue) <= Len(t.queue) + k
        BY <1>2 DEF AfterTurns
      <4>2. Len(queue) \in Nat /\ Len(t.queue) \in Nat \ {0} /\ Len(u.queue) = Len(t.queue) - 1
        BY <1>0, <2>1, <2>2, <3>5
      <4>3. \A a, b, c \in Nat : a <= (b + 1) + c => a <= b + (c + 1)
        OBVIOUS
      <4>4. Len(u.queue) \in Nat /\ Len(t.queue) = Len(u.queue) + 1
        BY <4>2
      <4>5. Len(queue) <= (Len(u.queue) + 1) + k
        BY <4>1, <4>4, Zenon
      <4>6. QED
        BY <2>0, <4>2, <4>3, <4>4, <4>5, Zenon
    <3>11. outstanding <= u.outstanding /\ u.outstanding # outstanding
      BY <1>0, <3>5 DEF AfterTurns
    <3>12. QED
      BY <3>3, <3>4, <3>5, <3>6, <3>7, <3>8, <3>9, <3>10, <3>11 DEF AfterTurns, g
  <2>5. QED
    BY <2>3, <2>4
<1>3. QED
  BY <1>0, <1>1, <1>2

\* The loop: one turn for each node queued when it begins.
LEMMA DispatchLoop ==
    ASSUME queue \in Seq(Endpoints), NEW busy
    PROVE  \E after :
             /\ after[0] = [queue |-> queue, nodes |-> nodes, outstanding |-> outstanding, out |-> out]
             /\ after[Len(queue)] = Dispatched(busy)
             /\ \A k \in 0..(Len(queue) - 1) : after[k + 1] = Turned(after[k], busy)
<1> DEFINE t0 == [queue |-> queue, nodes |-> nodes, outstanding |-> outstanding, out |-> out]
           L == Len(queue)
           Body(r, n) == [k \in 0..n |-> IF k = 0 THEN t0 ELSE Turned(r[k - 1], busy)]
           P == {n \in Nat : \E r : r = Body(r, n)}
<1>0. L \in Nat
  OBVIOUS
<1> DEFINE f == CHOOSE h : h = Body(h, L)
<1>5. Dispatched(busy) = f[L]
  BY DEF Dispatched, Turned
<1> HIDE DEF t0, L
<1>1. 0 \in P
  <2>1. [k \in 0..0 |-> t0] = Body([k \in 0..0 |-> t0], 0)
    OBVIOUS
  <2>2. QED
    BY <2>1
<1>2. \A n \in 0..(L - 1) : n \in P => n + 1 \in P
  <2> SUFFICES ASSUME NEW n \in 0..(L - 1), n \in P PROVE n + 1 \in P
    OBVIOUS
  <2> PICK r : r = Body(r, n)
    OBVIOUS
  <2> DEFINE q == [k \in 0..(n + 1) |-> IF k = n + 1 THEN Turned(r[n], busy) ELSE r[k]]
  <2>1. q = Body(q, n + 1)
    OBVIOUS
  <2>2. \E x : x = Body(x, n + 1)
    BY <2>1
  <2>3. QED
    BY <1>0, <2>2
<1>3. PICK r : r = Body(r, L)
  <2> HIDE DEF P
  <2>1. \A k \in 0..L : k \in P
    BY <1>0, <1>1, <1>2, EveryTurn
  <2>2. L \in P
    BY <1>0, <2>1
  <2>3. QED
    BY <2>2 DEF P
<1>4. f = Body(f, L)
  BY <1>3
<1> HIDE DEF f
<1>6. f[0] = t0 /\ \A k \in 0..(L - 1) : f[k + 1] = Turned(f[k], busy)
  BY <1>0, <1>4
<1>7. QED
  BY <1>5, <1>6 DEF t0, L

-----------------------------------------------------------------------------
(* The inductive invariant                                                 *)

\* The counters count the callbacks of this slice.
CallsCount ==
    /\ generation \in Nat /\ CallsOK(out, generation) /\ WindowOK(outstanding, out, generation)
    /\ pendingLookups \in 0..SeedLookups
    /\ pendingLookups = Cardinality(LookupsOf(out, generation))

\* Between counts nothing is left of a slice.
AtRest ==
    /\ nodes = NoNodes /\ queue = <<>>
    /\ QueriesOf(out, generation) = {} /\ LookupsOf(out, generation) = {}

\* What was counted.
CountedOK == (\E X : done \in Seq(X)) /\ QuietBeforeFinish

\* The inductive invariant.
IInv ==
    /\ state \in {"Idle", "Running", "Done", "Cancelled"} /\ round \in 0..MaxRounds
    /\ CallsCount /\ CountedOK
    /\ isRunning => Going(Slice, AskedIn(out, generation))
    /\ ~isRunning => AtRest

\* The members of a slice are those of the record of it.
LEMMA SliceFields ==
    /\ IsSlice(Slice) /\ Slice.family = family /\ Slice.round = round
    /\ Slice.quietRounds = quietRounds /\ Slice.newThisRound = newThisRound
    /\ Slice.nodes = nodes /\ Slice.queue = queue
  BY DEF Slice, IsSlice

\* A slice that is set is the one in progress.
LEMMA SliceSet ==
    ASSUME NEW S, IsSlice(S), SetSlice(S)
    PROVE  Slice' = S
  BY DEF IsSlice, SetSlice, Slice

\* Nobody is asked when no query is under way.
LEMMA NobodyAsked ==
    ASSUME NEW O, NEW g, QueriesOf(O, g) = {}
    PROVE  AskedIn(O, g) = {}
<1>1. \A e \in Endpoints : LET q == [generation |-> g, to |-> e] IN q.generation = g /\ "to" \in DOMAIN q
  OBVIOUS
<1>2. QED
  BY <1>1 DEF AskedIn, QueriesOf

\* The loop of tick() keeps the slice sound.
LEMMA DispatchKeeps ==
    ASSUME IInv, isRunning, NEW busy
    PROVE  AfterTurns(Dispatched(busy), Len(queue))
<1> DEFINE t0 == [queue |-> queue, nodes |-> nodes, outstanding |-> outstanding, out |-> out]
<1>1. /\ generation \in Nat /\ CallsOK(out, generation) /\ WindowOK(outstanding, out, generation)
      /\ Sound(nodes, queue, AskedIn(out, generation))
  BY SliceFields DEF IInv, CallsCount, Going
<1>2. queue \in Seq(Endpoints) /\ Len(queue) \in Nat /\ outstanding \in Nat
  BY <1>1, Limits DEF Sound, QueueOK, WindowOK
<1>3. AfterTurns(t0, 0)
  <2>1. IsTurn(t0) /\ t0.queue = queue /\ t0.nodes = nodes /\ t0.outstanding = outstanding /\ t0.out = out
    BY DEF IsTurn
  <2> HIDE DEF t0
  <2>2. AnswersKept(nodes, nodes)
    BY DEF AnswersKept
  <2>3. outstanding <= outstanding /\ Len(queue) <= Len(queue) + 0
    BY <1>2
  <2>4. QED
    BY <1>1, <2>1, <2>2, <2>3 DEF AfterTurns
<1>4. PICK after :
        /\ after[0] = t0 /\ after[Len(queue)] = Dispatched(busy)
        /\ \A k \in 0..(Len(queue) - 1) : after[k + 1] = Turned(after[k], busy)
  BY <1>2, DispatchLoop
<1> HIDE DEF t0
<1> DEFINE P == {k \in Nat : AfterTurns(after[k], k)}
<1>5. 0 \in P
  BY <1>3, <1>4
<1>6. ASSUME NEW k \in 0..(Len(queue) - 1), k \in P PROVE k + 1 \in P
  <2>1. AfterTurns(after[k + 1], k + 1)
    BY <1>1, <1>2, <1>4, <1>6, TurnKeeps
  <2>2. QED
    BY <2>1
<1>7. \A k \in 0..Len(queue) : k \in P
  <2> HIDE DEF P
  <2>1. QED
    BY <1>2, <1>5, <1>6, EveryTurn
<1>8. QED
  BY <1>2, <1>4, <1>7

\* A round that is over sent nothing in this tick, and nobody is left to wait for.
LEMMA RoundDone ==
    ASSUME IInv, isRunning, NEW busy, RoundOver(Dispatched(busy))
    PROVE  LET t == Dispatched(busy)
           IN /\ t.nodes = nodes /\ t.out = out /\ t.queue = <<>>
              /\ Sound(nodes, <<>>, {})
              /\ QueriesOf(out, generation) = {} /\ LookupsOf(out, generation) = {}
<1> DEFINE t == Dispatched(busy)
<1>1. AfterTurns(t, Len(queue))
  BY DispatchKeeps
<1>2. t.queue = <<>> /\ t.outstanding = 0 /\ pendingLookups = 0
  BY DEF RoundOver
<1> HIDE DEF t
<1>3. outstanding = 0
  BY <1>1, <1>2, Limits DEF AfterTurns, IInv, CallsCount, WindowOK
<1>4. t.nodes = nodes /\ t.out = out
  BY <1>1, <1>2, <1>3 DEF AfterTurns
<1>5. QueriesOf(out, generation) = {} /\ LookupsOf(out, generation) = {}
  BY <1>2, <1>3, CallsCounted DEF IInv, CallsCount, WindowOK
<1>6. Sound(nodes, <<>>, {})
  BY <1>1, <1>2, <1>4, <1>5, NobodyAsked DEF AfterTurns
<1>7. QED
  BY <1>2, <1>4, <1>5, <1>6 DEF t

-----------------------------------------------------------------------------
(* Slices begin and end                                                    *)

\* Nothing of a generation to come is under way.
LEMMA NextGeneration ==
    ASSUME NEW O, NEW g \in Nat, CallsOK(O, g)
    PROVE  /\ CallsOK(O, g + 1)
           /\ QueriesOf(O, g + 1) = {} /\ LookupsOf(O, g + 1) = {} /\ AskedIn(O, g + 1) = {}
<1>1. \A q \in O : q.generation \in Nat /\ q.generation <= g + 1 /\ q.generation # g + 1
  BY CallbackIs DEF CallsOK
<1>2. CallsOK(O, g + 1)
  BY <1>1 DEF CallsOK
<1>3. QueriesOf(O, g + 1) = {} /\ LookupsOf(O, g + 1) = {}
  BY <1>1 DEF QueriesOf, LookupsOf
<1>4. QED
  BY <1>2, <1>3, NobodyAsked

\* The lookups that seed a slice are the only callbacks of its generation.
LEMMA LookupsStarted ==
    ASSUME NEW O, NEW g \in Nat, CallsOK(O, g),
           NEW X, X = O \cup {[generation |-> g + 1, lookup |-> i] : i \in 1..SeedLookups}
    PROVE  /\ CallsOK(X, g + 1) /\ QueriesOf(X, g + 1) = {} /\ AskedIn(X, g + 1) = {}
           /\ Cardinality(LookupsOf(X, g + 1)) = SeedLookups
<1> DEFINE L == {[generation |-> g + 1, lookup |-> i] : i \in 1..SeedLookups}
           f == [i \in 1..SeedLookups |-> [generation |-> g + 1, lookup |-> i]]
<1>1. SeedLookups \in Nat
  BY Limits
<1>2. f \in Bijection(1..SeedLookups, L)
  <2>1. f \in Injection(1..SeedLookups, L)
    BY DEF Injection, IsInjective
  <2>2. f \in Surjection(1..SeedLookups, L)
    BY DEF Surjection
  <2>3. QED
    BY <2>1, <2>2 DEF Bijection
<1>3. ExistsBijection(1..SeedLookups, L)
  BY <1>2 DEF ExistsBijection
<1>4. \A q \in L : /\ q \in Callbacks /\ q.generation = g + 1
                   /\ "lookup" \in DOMAIN q /\ "to" \notin DOMAIN q
  BY DEF Callbacks
<1> HIDE DEF L, f
<1>5. IsFiniteSet(L) /\ Cardinality(L) = SeedLookups
  BY <1>1, <1>3, FS_CountingElements, FS_NatBijection
<1>6. X = O \cup L
  BY DEF L
<1>7. QueriesOf(X, g + 1) = {} /\ LookupsOf(X, g + 1) = L
  <2>1. QueriesOf(O, g + 1) = {} /\ LookupsOf(O, g + 1) = {}
    BY NextGeneration
  <2>2. QED
    BY <1>4, <1>6, <2>1 DEF QueriesOf, LookupsOf
<1>8. CallsOK(X, g + 1)
  <2>1. CallsOK(O, g + 1)
    BY NextGeneration
  <2>2. IsFiniteSet(X)
    <3>1. IsFiniteSet(O)
      BY <2>1 DEF CallsOK
    <3>2. IsFiniteSet(O \cup L)
      BY <1>5, <3>1, FS_Union
    <3>3. QED
      BY <1>6, <3>2
  <2>3. \A q \in L : q.generation <= g + 1
    BY <1>4
  <2>4. QED
    BY <1>4, <1>6, <2>1, <2>2, <2>3 DEF CallsOK
<1>9. QED
  BY <1>5, <1>7, <1>8, NobodyAsked

\* A slice without nodes is sound.
LEMMA NoneSound == Sound(NoNodes, <<>>, {}) /\ DOMAIN NoNodes = {}
<1>1. NodesOK(NoNodes) /\ DOMAIN NoNodes = {}
  BY FS_EmptySet DEF NodesOK, NoNodes
<1>2. QueueOK(NoNodes, <<>>, {})
  BY DEF QueueOK
<1>3. AskedOK(NoNodes, {}) /\ UnsettledOK(NoNodes, <<>>, {})
  BY <1>1 DEF AskedOK, UnsettledOK
<1>4. QED
  BY <1>1, <1>2, <1>3 DEF Sound

\* The next round: everybody who answered is queued, and no other.
LEMMA RoundBegun ==
    ASSUME NEW S, IsSlice(S), S.queue = <<>>, Sound(S.nodes, <<>>, {}),
           S.round \in 0..(MaxRounds - 1), S.quietRounds \in Nat, S.quietRounds <= S.round,
           DOMAIN S.nodes # {} => S.quietRounds + 1 <= S.round
    PROVE  Going(beginRound(S), {}) /\ beginRound(S).nodes = S.nodes
<1> DEFINE A == {e \in DOMAIN S.nodes : S.nodes[e].state = "Answered"}
           T == [S EXCEPT !.round = S.round + 1, !.newThisRound = 0, !.queue = <<>> \o SetToSeq(A)]
<1>1. beginRound(S) = T
  BY DEF beginRound, Answered
<1>2. Sound(S.nodes, <<>> \o SetToSeq(A), {})
  BY AllQueued
<1> HIDE DEF A
<1>3. /\ T.round = S.round + 1 /\ T.quietRounds = S.quietRounds /\ T.newThisRound = 0
      /\ T.nodes = S.nodes /\ T.queue = <<>> \o SetToSeq(A) /\ IsSlice(T)
  BY DEF IsSlice
<1> HIDE DEF T
<1>4. RoundsOK(T)
  BY <1>3, Limits DEF RoundsOK
<1>5. QED
  BY <1>1, <1>2, <1>3, <1>4 DEF Going

\* A slice begins.
LEMMA SliceBegun ==
    ASSUME NEW f, NEW list \in Lists
    PROVE  Going(Seeded(f, list), {}) /\ IsSlice(Seeded(f, list))
<1> DEFINE S == [family |-> f, round |-> 0, quietRounds |-> 0, newThisRound |-> 0,
                 nodes |-> NoNodes, queue |-> <<>>]
<1>1. /\ IsSlice(S) /\ S.round = 0 /\ S.quietRounds = 0 /\ S.nodes = NoNodes /\ S.queue = <<>>
  BY DEF IsSlice
<1>2. Seeded(f, list) = ConsiderAll(beginRound(S), list)
  BY DEF Seeded
<1> HIDE DEF S
<1>3. Going(beginRound(S), {})
  BY <1>1, NoneSound, RoundBegun, Limits
<1>4. Going(Seeded(f, list), {})
  BY <1>2, <1>3, ConsiderAllKeeps
<1>5. QED
  BY <1>4 DEF Going

\* The end of a count.
LEMMA FinishKeeps ==
    ASSUME IInv, NEW end \in {"Done", "Cancelled"}, finishAll(end), out' = out, CountedOK'
    PROVE  IInv'
<1> DEFINE S == [Slice EXCEPT !.nodes = NoNodes, !.queue = <<>>]
<1>1. /\ nodes' = NoNodes /\ queue' = <<>> /\ round' = round
      /\ outstanding' = 0 /\ pendingLookups' = 0 /\ generation' = generation + 1 /\ state' = end
  BY DEF finishAll, SetSlice, Slice
<1>2. /\ CallsOK(out, generation + 1) /\ QueriesOf(out, generation + 1) = {}
      /\ LookupsOf(out, generation + 1) = {}
  BY NextGeneration DEF IInv, CallsCount
<1>3. CallsCount'
  <2>1. generation + 1 \in Nat
    BY DEF IInv, CallsCount
  <2>2. WindowOK(0, out, generation + 1) /\ 0 = Cardinality({}) /\ 0 \in 0..SeedLookups
    BY <1>2, FS_EmptySet, Limits DEF WindowOK
  <2>3. QED
    BY <1>1, <1>2, <2>1, <2>2 DEF CallsCount
<1>4. AtRest' /\ ~isRunning'
  BY <1>1, <1>2 DEF AtRest, isRunning
<1>5. QED
  BY <1>1, <1>3, <1>4 DEF IInv

\* The next slice, or the end of the count.
LEMMA StartSliceKeeps ==
    ASSUME IInv, NEW p, startSlice(p), CountedOK'
    PROVE  IInv'
<1>1. CASE p = <<>>
  BY <1>1, FinishKeeps DEF startSlice
<1>2. CASE p # <<>>
  <2>1. PICK list \in Lists :
          /\ state' = "Running" /\ SetSlice(Seeded(Head(p), list))
          /\ generation' = generation + 1 /\ outstanding' = 0 /\ pendingLookups' = SeedLookups
          /\ out' = out \cup {[generation |-> generation + 1, lookup |-> i] : i \in 1..SeedLookups}
    BY <1>2 DEF startSlice
  <2>2. Going(Seeded(Head(p), list), {}) /\ IsSlice(Seeded(Head(p), list))
    BY SliceBegun
  <2>3. Slice' = Seeded(Head(p), list)
    BY <2>1, <2>2, SliceSet
  <2>4. /\ CallsOK(out', generation') /\ QueriesOf(out', generation') = {}
        /\ AskedIn(out', generation') = {} /\ Cardinality(LookupsOf(out', generation')) = SeedLookups
    BY <2>1, LookupsStarted DEF IInv, CallsCount
  <2>5. CallsCount'
    <3>1. generation' \in Nat
      BY <2>1 DEF IInv, CallsCount
    <3>2. WindowOK(0, out', generation') /\ SeedLookups \in 0..SeedLookups
      BY <2>4, FS_EmptySet, Limits DEF WindowOK
    <3>3. QED
      BY <2>1, <2>4, <3>1, <3>2 DEF CallsCount
  <2>6. Going(Slice', {}) /\ isRunning'
    BY <2>1, <2>2, <2>3 DEF isRunning
  <2>7. round' \in 0..MaxRounds
    <3>1. round' = Slice'.round
      BY DEF Slice
    <3>2. QED
      BY <2>6, <3>1, Limits DEF Going, RoundsOK
  <2>8. QED
    BY <2>1, <2>4, <2>5, <2>6, <2>7 DEF IInv
<1>3. QED
  BY <1>1, <1>2

\* The smaller of two numbers.
LEMMA MinOfTwo ==
    ASSUME NEW a \in Nat, NEW b \in Nat
    PROVE  Min({a, b}) = IF a <= b THEN a ELSE b
<1>1. CASE a <= b
  <2>1. \A x \in {a, b} : (\A y \in {a, b} : x <= y) <=> x = a
    BY <1>1
  <2>2. QED
    BY <1>1, <2>1 DEF Min
<1>2. CASE ~(a <= b)
  <2>1. \A x \in {a, b} : (\A y \in {a, b} : x <= y) <=> x = b
    BY <1>2
  <2>2. QED
    BY <1>2, <2>1 DEF Min
<1>3. QED
  BY <1>1, <1>2

\* A slice is counted: the quiet rounds came after the round that found somebody.
LEMMA SliceCounted ==
    ASSUME CountedOK, NEW S, Finished(S), IsSlice(S), S.round \in Nat, S.quietRounds \in Nat,
           DOMAIN S.nodes # {} => S.quietRounds + 1 <= S.round,
           done' = Append(done, countSlice(S))
    PROVE  CountedOK'
<1> DEFINE c == countSlice(S)
           m == Min({1 + QuietRoundsToFinish, MaxRounds})
<1>1. c.rounds = S.round /\ c.nodesHeard = Cardinality(DOMAIN S.nodes)
  BY DEF countSlice
<1>2. c.nodesHeard > 0 => c.rounds >= m
  <2>1. QuietRoundsToFinish \in Nat /\ MaxRounds \in Nat /\ 1 + QuietRoundsToFinish \in Nat
    BY Limits
  <2>2. m = IF 1 + QuietRoundsToFinish <= MaxRounds THEN 1 + QuietRoundsToFinish ELSE MaxRounds
    BY <2>1, MinOfTwo
  <2> HIDE DEF m, c
  <2>3. DOMAIN S.nodes = {} => Cardinality(DOMAIN S.nodes) = 0
    BY FS_EmptySet
  <2>4. S.quietRounds >= QuietRoundsToFinish \/ S.round >= MaxRounds
    BY DEF Finished
  <2>5. ASSUME c.nodesHeard > 0 PROVE DOMAIN S.nodes # {}
    BY <1>1, <2>3, <2>5
  <2>6. DOMAIN S.nodes # {} => S.round >= m
    BY <2>1, <2>2, <2>4
  <2>7. QED
    BY <1>1, <2>5, <2>6
<1> HIDE DEF c, m
<1>3. PICK X : done \in Seq(X)
  BY DEF CountedOK
<1>4. done \in Seq(X \cup {c}) /\ done' = Append(done, c)
  BY <1>3 DEF c
<1>5. /\ done' \in Seq(X \cup {c}) /\ DOMAIN done' = (DOMAIN done) \cup {Len(done) + 1}
      /\ done'[Len(done) + 1] = c /\ \A i \in DOMAIN done : done'[i] = done[i]
  BY <1>4
<1>6. QuietBeforeFinish'
  BY <1>2, <1>5 DEF CountedOK, QuietBeforeFinish, m
<1>7. QED
  BY <1>5, <1>6 DEF CountedOK

\* The round of the slice in progress.
LEMMA RoundIs ==
    ASSUME IInv, isRunning
    PROVE  /\ round \in 1..MaxRounds /\ quietRounds \in Nat /\ newThisRound \in Nat
           /\ quietRounds + 1 <= round
           /\ DOMAIN nodes # {} /\ newThisRound = 0 => quietRounds + 2 <= round
           /\ Sound(nodes, queue, AskedIn(out, generation))
  BY SliceFields DEF IInv, Going, RoundsOK

\* A tick in a round that goes on.
LEMMA TickSends ==
    ASSUME IInv, isRunning, NEW t, AfterTurns(t, Len(queue)), pendingLookups' = pendingLookups,
           SetSlice([Slice EXCEPT !.queue = t.queue, !.nodes = t.nodes]),
           outstanding' = t.outstanding, out' = t.out, UNCHANGED <<state, generation, done>>
    PROVE  IInv' /\ AnswersKept(nodes, nodes')
<1> DEFINE S == [Slice EXCEPT !.queue = t.queue, !.nodes = t.nodes]
<1>1. /\ IsSlice(S) /\ S.round = round /\ S.quietRounds = quietRounds
      /\ S.newThisRound = newThisRound /\ S.nodes = t.nodes /\ S.queue = t.queue
  BY DEF Slice, IsSlice
<1> HIDE DEF S
<1>2. Slice' = S
  BY <1>1, SliceSet DEF S
<1>3. RoundsOK(S)
  <2>1. DOMAIN t.nodes = DOMAIN nodes
    BY DEF AfterTurns
  <2>2. QED
    BY <1>1, <2>1, RoundIs DEF RoundsOK
<1>4. Going(S, AskedIn(out', generation'))
  BY <1>1, <1>3 DEF Going, AfterTurns
<1>5. CallsCount'
  BY DEF CallsCount, IInv, AfterTurns
<1>6. round' = round /\ nodes' = t.nodes
  BY <1>1 DEF SetSlice, S
<1>7. CountedOK'
  BY DEF IInv, CountedOK, QuietBeforeFinish
<1>8. AnswersKept(nodes, nodes')
  BY <1>6 DEF AfterTurns
<1>9. QED
  BY <1>2, <1>4, <1>5, <1>6, <1>7, <1>8 DEF IInv, isRunning

\* tick()
LEMMA TickKeeps ==
    ASSUME IInv, NEW busy, tick(busy)
    PROVE  IInv'
<1> DEFINE t == Dispatched(busy)
           S == [Slice EXCEPT !.queue = t.queue, !.nodes = t.nodes,
                              !.quietRounds = IF newThisRound = 0 THEN quietRounds + 1 ELSE 0]
<1>0. isRunning
  BY DEF tick
<1>1. AfterTurns(t, Len(queue))
  BY <1>0, DispatchKeeps
<1>2. /\ IsSlice(S) /\ S.round = round /\ S.quietRounds = (IF newThisRound = 0 THEN quietRounds + 1 ELSE 0)
      /\ S.nodes = t.nodes /\ S.queue = t.queue
  BY DEF Slice, IsSlice
<1>3. \/ /\ ~RoundOver(t)
         /\ SetSlice([Slice EXCEPT !.queue = t.queue, !.nodes = t.nodes])
         /\ outstanding' = t.outstanding /\ out' = t.out
         /\ UNCHANGED <<state, plan, generation, pendingLookups, done>>
      \/ /\ RoundOver(t) /\ ~Finished(S) /\ SetSlice(beginRound(S))
         /\ UNCHANGED <<state, plan, generation, outstanding, out, pendingLookups, done>>
      \/ /\ RoundOver(t) /\ Finished(S)
         /\ done' = Append(done, countSlice(S)) /\ startSlice(plan)
  BY DEF tick, Slice
<1> HIDE DEF S
<1>4. CASE ~RoundOver(t)
  <2>1. /\ SetSlice([Slice EXCEPT !.queue = t.queue, !.nodes = t.nodes])
        /\ outstanding' = t.outstanding /\ out' = t.out
        /\ UNCHANGED <<state, plan, generation, pendingLookups, done>>
    BY <1>3, <1>4
  <2> HIDE DEF t
  <2>2. QED
    BY <1>0, <1>1, <2>1, TickSends
<1>5. ASSUME RoundOver(t)
      PROVE  /\ S.queue = <<>> /\ S.nodes = nodes /\ Sound(S.nodes, <<>>, {})
             /\ S.round \in Nat /\ S.quietRounds \in Nat /\ S.quietRounds <= S.round
             /\ DOMAIN S.nodes # {} => S.quietRounds + 1 <= S.round
             /\ QueriesOf(out, generation) = {} /\ LookupsOf(out, generation) = {}
  <2>1. /\ t.nodes = nodes /\ t.out = out /\ t.queue = <<>> /\ Sound(nodes, <<>>, {})
        /\ QueriesOf(out, generation) = {} /\ LookupsOf(out, generation) = {}
    BY <1>0, <1>5, RoundDone
  <2> HIDE DEF t
  <2>2. /\ S.round \in Nat /\ S.quietRounds \in Nat /\ S.quietRounds <= S.round
        /\ DOMAIN nodes # {} => S.quietRounds + 1 <= S.round
    BY <1>0, <1>2, RoundIs, Limits
  <2>3. QED
    BY <1>2, <2>1, <2>2
<1>6. CASE RoundOver(t) /\ ~Finished(S)
  <2>1. /\ SetSlice(beginRound(S))
        /\ UNCHANGED <<state, plan, generation, outstanding, out, pendingLookups, done>>
    BY <1>3, <1>6
  <2>2. S.round \in 0..(MaxRounds - 1)
    BY <1>5, <1>6, Limits DEF Finished
  <2>3. Going(beginRound(S), {})
    BY <1>2, <1>5, <1>6, <2>2, RoundBegun
  <2>4. Slice' = beginRound(S)
    BY <2>1, <2>3, SliceSet DEF Going
  <2>5. round' \in 0..MaxRounds
    <3>1. round' = Slice'.round
      BY DEF Slice
    <3>2. QED
      BY <2>3, <2>4, <3>1, Limits DEF Going, RoundsOK
  <2>6. AskedIn(out', generation') = {}
    BY <1>5, <1>6, <2>1, NobodyAsked
  <2>7. CallsCount' /\ CountedOK'
    BY <2>1 DEF IInv, CallsCount, CountedOK, QuietBeforeFinish
  <2>8. QED
    BY <1>0, <2>1, <2>3, <2>4, <2>5, <2>6, <2>7 DEF IInv, isRunning
<1>7. CASE RoundOver(t) /\ Finished(S)
  <2>1. done' = Append(done, countSlice(S)) /\ startSlice(plan)
    BY <1>3, <1>7
  <2>2. CountedOK'
    BY <1>2, <1>5, <1>7, <2>1, SliceCounted DEF IInv
  <2>3. QED
    BY <2>1, <2>2, StartSliceKeeps
<1>8. QED
  BY <1>4, <1>6, <1>7

-----------------------------------------------------------------------------
(* Callbacks come back                                                     *)

\* A slice in progress is set to one that goes on.
LEMMA SliceGoesOn ==
    ASSUME IInv, isRunning, state' = state, CallsCount', CountedOK',
           NEW S, SetSlice(S), Going(S, AskedIn(out', generation'))
    PROVE  IInv'
<1>1. Slice' = S
  BY SliceSet DEF Going
<1>2. round' \in 0..MaxRounds
  BY Limits DEF SetSlice, Going, RoundsOK
<1>3. QED
  BY <1>1, <1>2 DEF IInv, isRunning

\* The query to q.to comes back.
LEMMA QueryBack ==
    ASSUME IInv, NEW q, IsReplyHere(q), outstanding' = outstanding - 1, Returned(q),
           UNCHANGED pendingLookups
    PROVE  /\ isRunning /\ state' = state /\ CallsCount' /\ CountedOK'
           /\ q.to \in AskedIn(out, generation)
           /\ AskedIn(out', generation') = AskedIn(out, generation) \ {q.to}
           /\ q.to \in DOMAIN nodes /\ nodes[q.to] \in SliceNode
           /\ nodes[q.to].state \in {"Asked", "Answered"}
           /\ nodes[q.to].state = "Asked" => nodes[q.to].failures < FailuresToGiveUp
           /\ Sound(nodes, queue, AskedIn(out, generation))
<1>1. /\ q \in out /\ "to" \in DOMAIN q /\ q.generation = generation /\ q.to \in DOMAIN nodes
      /\ out' = out \ {q} /\ UNCHANGED <<state, generation, done>>
  BY DEF IsReplyHere, ForThisSlice, Returned
<1>2. isRunning
  <2>1. QueriesOf(out, generation) # {}
    BY <1>1 DEF QueriesOf
  <2>2. QED
    BY <2>1 DEF IInv, AtRest
<1>3. /\ CallsOK(out, generation) /\ generation \in Nat /\ outstanding = Cardinality(QueriesOf(out, generation))
      /\ outstanding \in 0..MaxOutstanding /\ pendingLookups = Cardinality(LookupsOf(out, generation))
      /\ pendingLookups \in 0..SeedLookups
  BY DEF IInv, CallsCount, WindowOK
<1>4. "lookup" \notin DOMAIN q
  BY <1>1, <1>3, CallbackIs DEF CallsOK
<1>5. /\ CallsOK(out', generation)
      /\ Cardinality(QueriesOf(out', generation)) = Cardinality(QueriesOf(out, generation)) - 1
      /\ Cardinality(LookupsOf(out', generation)) = Cardinality(LookupsOf(out, generation)) - 0
      /\ AskedIn(out', generation) = AskedIn(out, generation) \ {q.to}
      /\ q.to \in AskedIn(out, generation)
  BY <1>1, <1>3, <1>4, CallReturned
<1>6. Cardinality(QueriesOf(out', generation)) \in Nat
  BY <1>5, CallsCounted
<1>7. CallsCount'
  BY <1>1, <1>3, <1>5, <1>6, Limits DEF CallsCount, WindowOK
<1>8. CountedOK'
  BY <1>1 DEF IInv, CountedOK, QuietBeforeFinish
<1>9. Sound(nodes, queue, AskedIn(out, generation))
  BY <1>2, RoundIs
<1>10. /\ nodes[q.to] \in SliceNode /\ nodes[q.to].state \in {"Asked", "Answered"}
       /\ nodes[q.to].state = "Asked" => nodes[q.to].failures < FailuresToGiveUp
  BY <1>1, <1>5, <1>9 DEF Sound, NodesOK, AskedOK, UnsettledOK
<1>11. QED
  BY <1>1, <1>2, <1>5, <1>7, <1>8, <1>9, <1>10

\* The slice after a reply that names nobody.
LEMMA Replied ==
    ASSUME IInv, isRunning, NEW e \in AskedIn(out, generation), NEW n \in SliceNode,
           NEW again \in BOOLEAN, n.state # "Asked", again => n.state # "Silent",
           n.state = "Waiting" => again /\ n.failures < FailuresToGiveUp,
           nodes[e].state = "Answered" => n.state = "Answered",
           NEW S, IsSlice(S), S.round = round, S.quietRounds = quietRounds,
           S.newThisRound = newThisRound, S.nodes = [nodes EXCEPT ![e] = n],
           S.queue = IF again THEN Append(queue, e) ELSE queue
    PROVE  Going(S, AskedIn(out, generation) \ {e}) /\ AnswersKept(nodes, S.nodes)
<1>1. Sound(nodes, queue, AskedIn(out, generation))
  BY RoundIs
<1>2. Sound(S.nodes, S.queue, AskedIn(out, generation) \ {e})
  BY <1>1, Returns, SMTT(30)
<1>3. DOMAIN S.nodes = DOMAIN nodes
  OBVIOUS
<1>4. RoundsOK(S)
  BY <1>3, RoundIs DEF RoundsOK
<1>5. AnswersKept(nodes, S.nodes)
  BY DEF AnswersKept
<1>6. QED
  BY <1>2, <1>4, <1>5 DEF Going

\* A reply that names nobody: refused, or unanswered.
LEMMA ReplyKeeps ==
    ASSUME IInv, NEW q, IsReplyHere(q), NEW n \in SliceNode, NEW again \in BOOLEAN,
           n.state # "Asked", again => n.state # "Silent",
           n.state = "Waiting" => again /\ n.failures < FailuresToGiveUp,
           nodes[q.to].state = "Answered" => n.state = "Answered",
           onReply(q, n, again)
    PROVE  IInv' /\ AnswersKept(nodes, nodes')
<1> DEFINE S == [Slice EXCEPT !.nodes[q.to] = n, !.queue = IF again THEN Append(@, q.to) ELSE @]
<1>1. /\ isRunning /\ state' = state /\ CallsCount' /\ CountedOK'
      /\ q.to \in AskedIn(out, generation)
      /\ AskedIn(out', generation') = AskedIn(out, generation) \ {q.to}
  BY QueryBack DEF onReply
<1>2. SetSlice(S)
  BY DEF onReply
<1>3. /\ IsSlice(S) /\ S.round = round /\ S.quietRounds = quietRounds /\ S.newThisRound = newThisRound
      /\ S.nodes = [nodes EXCEPT ![q.to] = n] /\ S.queue = IF again THEN Append(queue, q.to) ELSE queue
  BY DEF Slice, IsSlice
<1> HIDE DEF S
<1>4. Going(S, AskedIn(out, generation) \ {q.to}) /\ AnswersKept(nodes, S.nodes)
  BY <1>1, <1>3, Replied
<1>5. IInv'
  BY <1>1, <1>2, <1>4, SliceGoesOn
<1>6. QED
  BY <1>2, <1>4, <1>5 DEF SetSlice

\* onReply() with a refusal.
LEMMA ThrottledKeeps ==
    ASSUME IInv, NEW q, onThrottled(q)
    PROVE  IInv' /\ AnswersKept(nodes, nodes')
<1> DEFINE m == nodes[q.to]
           n == [m EXCEPT !.state = IF @ = "Answered" THEN @ ELSE "Waiting"]
<1>1. IsReplyHere(q) /\ onReply(q, n, TRUE)
  BY DEF onThrottled
<1>2. /\ m \in SliceNode /\ m.state \in {"Asked", "Answered"}
      /\ m.state = "Asked" => m.failures < FailuresToGiveUp
  BY <1>1, QueryBack DEF onReply
<1> HIDE DEF m
<1>3. /\ n \in SliceNode /\ n.state = (IF m.state = "Answered" THEN m.state ELSE "Waiting")
      /\ n.failures = m.failures
  BY <1>2 DEF SliceNode
<1> HIDE DEF n
<1>4. QED
  BY <1>1, <1>2, <1>3, ReplyKeeps DEF m

\* onReply() with a timeout.
LEMMA TimeoutKeeps ==
    ASSUME IInv, NEW q, onTimeout(q)
    PROVE  IInv' /\ AnswersKept(nodes, nodes')
<1> DEFINE m == nodes[q.to]
           givesUp == m.failures + 1 >= FailuresToGiveUp
           n == [m EXCEPT !.failures = m.failures + 1, !.state = IF givesUp THEN "Silent" ELSE "Waiting"]
<1>1. /\ IsReplyHere(q)
      /\ IF m.state = "Answered" THEN onReply(q, m, FALSE) ELSE onReply(q, n, ~givesUp)
  BY DEF onTimeout, Failures
<1>2. /\ m \in SliceNode /\ m.state \in {"Asked", "Answered"}
      /\ m.state = "Asked" => m.failures < FailuresToGiveUp
  BY <1>1, QueryBack DEF onReply
<1> HIDE DEF m
<1>3. CASE m.state = "Answered"
  BY <1>1, <1>2, <1>3, ReplyKeeps DEF m
<1>4. CASE m.state # "Answered"
  <2>0. /\ m.failures \in 0..FailuresToGiveUp /\ m.failures < FailuresToGiveUp
        /\ FailuresToGiveUp \in Nat
    BY <1>2, <1>4, Limits DEF SliceNode
  <2>1. m.failures + 1 \in 0..FailuresToGiveUp /\ (~givesUp <=> m.failures + 1 < FailuresToGiveUp)
    BY <2>0
  <2>2. givesUp \in BOOLEAN
    OBVIOUS
  <2> HIDE DEF givesUp
  <2>3. /\ n \in SliceNode /\ n.state = (IF givesUp THEN "Silent" ELSE "Waiting")
        /\ n.failures = m.failures + 1
    BY <1>2, <2>1 DEF SliceNode
  <2> HIDE DEF n
  <2>4. onReply(q, n, ~givesUp)
    BY <1>1, <1>4
  <2>5. (~givesUp) \in BOOLEAN
    BY <2>2
  <2>6. n.state = "Waiting" => ~givesUp /\ n.failures < FailuresToGiveUp
    BY <2>1, <2>3
  <2>7. n.state # "Asked" /\ (~givesUp => n.state # "Silent") /\ m.state # "Answered"
    BY <1>4, <2>3
  <2>8. QED
    BY <1>1, <2>3, <2>4, <2>5, <2>6, <2>7, ReplyKeeps DEF m
<1>5. QED
  BY <1>3, <1>4

\* The entry of a node that answered.
LEMMA HeardNode ==
    ASSUME NEW m \in SliceNode, NEW id \in SliceIds \cup OtherIds \cup {DefaultId}, NEW b \in BOOLEAN
    PROVE  LET n == [m EXCEPT !.state = "Answered", !.failures = 0, !.answeredId = id, !.answeredInSlice = b]
           IN n \in SliceNode /\ n.state = "Answered"
<1>1. 0 \in 0..FailuresToGiveUp
  BY Limits
<1>2. QED
  BY <1>1 DEF SliceNode

\* onReply() with a response or an error.
LEMMA AnswerKeeps ==
    ASSUME IInv, NEW q, NEW sender \in Ids \cup {DefaultId}, NEW list \in Lists, onAnswer(q, sender, list)
    PROVE  IInv' /\ AnswersKept(nodes, nodes')
<1> DEFINE m == nodes[q.to]
           n == Heard(m, sender)
           A == AskedIn(out, generation) \ {q.to}
           S == [Slice EXCEPT !.nodes[q.to] = n]
           U == ConsiderAll(S, list)
<1>1. IsReplyHere(q) /\ SetSlice(U) /\ outstanding' = outstanding - 1 /\ Returned(q)
  BY DEF onAnswer, Slice
<1>2. /\ isRunning /\ state' = state /\ CallsCount' /\ CountedOK'
      /\ q.to \in AskedIn(out, generation) /\ AskedIn(out', generation') = A
      /\ m \in SliceNode
  BY <1>1, QueryBack DEF onAnswer
<1> HIDE DEF m
<1>3. n \in SliceNode /\ n.state = "Answered"
  <2>1. CASE sender \in Ids
    <3>1. n = [m EXCEPT !.state = "Answered", !.failures = 0, !.answeredId = sender,
                        !.answeredInSlice = inSlice(sender)]
      BY <2>1 DEF Heard
    <3>2. inSlice(sender) \in BOOLEAN /\ sender \in SliceIds \cup OtherIds \cup {DefaultId}
      BY <2>1 DEF inSlice, Ids
    <3> HIDE DEF n
    <3>3. QED
      BY <1>2, <3>1, <3>2, HeardNode
  <2>2. CASE sender \notin Ids
    <3>1. n = [m EXCEPT !.state = "Answered", !.failures = 0, !.answeredInSlice = inSlice(m.listedId)]
      BY <2>2 DEF Heard
    <3>2. inSlice(m.listedId) \in BOOLEAN /\ m.answeredId \in SliceIds \cup OtherIds \cup {DefaultId}
      BY <1>2 DEF inSlice, SliceNode
    <3>3. n = [m EXCEPT !.state = "Answered", !.failures = 0, !.answeredId = m.answeredId,
                        !.answeredInSlice = inSlice(m.listedId)]
      BY <1>2, <3>1 DEF SliceNode
    <3> HIDE DEF n
    <3>4. QED
      BY <1>2, <3>2, <3>3, HeardNode
  <2>3. QED
    BY <2>1, <2>2
<1> HIDE DEF n
<1>4. /\ IsSlice(S) /\ S.round = round /\ S.quietRounds = quietRounds
      /\ S.newThisRound = newThisRound /\ S.nodes = [nodes EXCEPT ![q.to] = n] /\ S.queue = queue
  BY DEF Slice, IsSlice
<1> HIDE DEF S
<1>5. Going(S, A) /\ AnswersKept(nodes, S.nodes)
  <2>1. S.queue = IF FALSE THEN Append(queue, q.to) ELSE queue
    BY <1>4
  <2>2. QED
    BY <1>2, <1>3, <1>4, <2>1, Replied
<1>6. Going(U, A) /\ AnswersKept(S.nodes, U.nodes)
  BY <1>5, ConsiderAllKeeps
<1> HIDE DEF U
<1>7. IInv'
  BY <1>1, <1>2, <1>6, SliceGoesOn
<1>8. AnswersKept(nodes, nodes')
  BY <1>1, <1>5, <1>6 DEF AnswersKept, SetSlice
<1>9. QED
  BY <1>7, <1>8

\* A seeding lookup ends.
LEMMA SeedLookupKeeps ==
    ASSUME IInv, NEW q, NEW list \in Lists, onSeedLookup(q, list)
    PROVE  IInv' /\ AnswersKept(nodes, nodes')
<1>1. /\ q \in out /\ "lookup" \in DOMAIN q /\ q.generation = generation
      /\ pendingLookups' = pendingLookups - 1 /\ SetSlice(ConsiderAll(Slice, list))
      /\ out' = out \ {q} /\ UNCHANGED <<state, generation, done, outstanding>>
  BY DEF onSeedLookup, ForThisSlice, Returned
<1>2. isRunning
  <2>1. LookupsOf(out, generation) # {}
    BY <1>1 DEF LookupsOf
  <2>2. QED
    BY <2>1 DEF IInv, AtRest
<1>3. /\ CallsOK(out, generation) /\ generation \in Nat /\ outstanding = Cardinality(QueriesOf(out, generation))
      /\ outstanding \in 0..MaxOutstanding /\ pendingLookups = Cardinality(LookupsOf(out, generation))
      /\ pendingLookups \in 0..SeedLookups
  BY DEF IInv, CallsCount, WindowOK
<1>4. "to" \notin DOMAIN q
  BY <1>1, <1>3, CallbackIs DEF CallsOK
<1>5. /\ CallsOK(out', generation)
      /\ Cardinality(QueriesOf(out', generation)) = Cardinality(QueriesOf(out, generation)) - 0
      /\ Cardinality(LookupsOf(out', generation)) = Cardinality(LookupsOf(out, generation)) - 1
      /\ AskedIn(out', generation) = AskedIn(out, generation) \ {}
  BY <1>1, <1>3, <1>4, CallReturned
<1>6. Cardinality(LookupsOf(out', generation)) \in Nat
  BY <1>5, CallsCounted
<1>7. CallsCount'
  BY <1>1, <1>3, <1>5, <1>6, Limits DEF CallsCount, WindowOK
<1>8. CountedOK'
  BY <1>1 DEF IInv, CountedOK, QuietBeforeFinish
<1>9. Going(Slice, AskedIn(out, generation))
  BY <1>2 DEF IInv
<1>10. /\ Going(ConsiderAll(Slice, list), AskedIn(out, generation))
       /\ AnswersKept(Slice.nodes, ConsiderAll(Slice, list).nodes)
  BY <1>9, ConsiderAllKeeps
<1>11. IInv'
  BY <1>1, <1>2, <1>5, <1>7, <1>8, <1>10, SliceGoesOn
<1>12. AnswersKept(nodes, nodes')
  BY <1>1, <1>10, SliceFields DEF SetSlice
<1>13. QED
  BY <1>11, <1>12

\* A callback of a slice that is over.
LEMMA LateKeeps ==
    ASSUME IInv, NEW q, late(q)
    PROVE  IInv' /\ nodes' = nodes
<1>1. /\ q \in out /\ q.generation # generation /\ out' = out \ {q}
      /\ UNCHANGED <<state, generation, done, family, round, quietRounds, newThisRound, nodes, queue,
                     outstanding, pendingLookups>>
  BY DEF late, ForThisSlice, Returned, slice
<1>2. CallsOK(out, generation) /\ generation \in Nat
  BY DEF IInv, CallsCount
<1>3. /\ CallsOK(out', generation)
      /\ QueriesOf(out', generation) = QueriesOf(out, generation)
      /\ LookupsOf(out', generation) = LookupsOf(out, generation)
  BY <1>1, <1>2, CallReturned DEF QueriesOf, LookupsOf
<1>4. AskedIn(out', generation) = AskedIn(out, generation)
  <2>1. AskedIn(out', generation) = AskedIn(out, generation) \ {}
    BY <1>1, <1>2, CallReturned
  <2>2. QED
    BY <2>1
<1>5. Slice' = Slice
  BY <1>1 DEF Slice
<1>6. CallsCount' /\ CountedOK'
  BY <1>1, <1>3 DEF IInv, CallsCount, WindowOK, CountedOK, QuietBeforeFinish
<1>7. AtRest => AtRest'
  BY <1>1, <1>3 DEF AtRest
<1>8. QED
  BY <1>1, <1>4, <1>5, <1>6, <1>7 DEF IInv, isRunning

-----------------------------------------------------------------------------
(* The steps, and the theorems                                             *)

\* What a step may do: a slice is counted when everybody in it is settled and nothing
\* is under way, and within a slice whoever answered stays Answered.
Settles ==
    /\ Len(done') > Len(done) =>
         /\ \A e \in DOMAIN nodes : nodes[e].state \in {"Answered", "Silent"}
         /\ Current(out) = {}
    /\ generation' = generation =>
         \A e \in Answered(Slice) : e \in DOMAIN nodes' /\ nodes'[e].state = "Answered"

\* A step that leaves what was counted.
LEMMA SettlesBy ==
    ASSUME IInv, done' = done, generation' = generation => AnswersKept(nodes, nodes')
    PROVE  Settles
<1>1. Len(done) \in Nat
  <2>1. PICK X : done \in Seq(X)
    BY DEF IInv, CountedOK
  <2>2. QED
    BY <2>1
<1>2. ~(Len(done') > Len(done))
  BY <1>1
<1>3. QED
  BY <1>2, SliceFields DEF Settles, AnswersKept, Answered

\* start()
LEMMA StartStep ==
    ASSUME IInv, start
    PROVE  IInv' /\ Settles
<1>1. done' = <<>> /\ startSlice(Plan)
  BY DEF start
<1>2. CountedOK'
  <2>1. <<>> \in Seq({})
    OBVIOUS
  <2>2. DOMAIN done' = {}
    BY <1>1
  <2>3. QED
    BY <1>1, <2>1, <2>2 DEF CountedOK, QuietBeforeFinish
<1> HIDE DEF Plan
<1>3. IInv'
  BY <1>1, <1>2, StartSliceKeeps
<1>4. generation' # generation
  <2>1. generation \in Nat
    BY DEF IInv, CallsCount
  <2>2. generation' = generation + 1
    BY <1>1 DEF startSlice, finishAll
  <2>3. QED
    BY <2>1, <2>2
<1>5. ~(Len(done') > Len(done))
  <2>1. PICK X : done \in Seq(X)
    BY DEF IInv, CountedOK
  <2>2. Len(done) \in Nat /\ Len(done') = 0
    BY <1>1, <2>1
  <2>3. QED
    BY <2>2
<1>6. QED
  BY <1>3, <1>4, <1>5 DEF Settles

\* cancel()
LEMMA CancelStep ==
    ASSUME IInv, cancel
    PROVE  IInv' /\ Settles
<1>1. finishAll("Cancelled") /\ out' = out /\ done' = done
  BY DEF cancel
<1>2. CountedOK'
  BY <1>1 DEF IInv, CountedOK, QuietBeforeFinish
<1>3. IInv'
  BY <1>1, <1>2, FinishKeeps
<1>4. generation' # generation
  BY <1>1 DEF finishAll, IInv, CallsCount
<1>5. QED
  BY <1>1, <1>3, <1>4, SettlesBy

\* With nothing of this slice under way, no callback is current.
LEMMA NoneCurrent ==
    ASSUME CallsOK(out, generation), QueriesOf(out, generation) = {}, LookupsOf(out, generation) = {}
    PROVE  Current(out) = {}
<1>1. \A q \in out : "to" \in DOMAIN q \/ "lookup" \in DOMAIN q
  BY CallbackIs DEF CallsOK
<1>2. QED
  BY <1>1 DEF Current, QueriesOf, LookupsOf

\* tick()
LEMMA TickStep ==
    ASSUME IInv, NEW busy, tick(busy)
    PROVE  IInv' /\ Settles
<1> DEFINE t == Dispatched(busy)
           S == [Slice EXCEPT !.queue = t.queue, !.nodes = t.nodes,
                              !.quietRounds = IF newThisRound = 0 THEN @ + 1 ELSE 0]
<1>0. IInv' /\ isRunning
  BY TickKeeps DEF tick
<1>1. \/ /\ ~RoundOver(t) /\ SetSlice([Slice EXCEPT !.queue = t.queue, !.nodes = t.nodes])
         /\ UNCHANGED <<generation, done>>
      \/ RoundOver(t) /\ SetSlice(beginRound(S)) /\ UNCHANGED <<generation, done>>
      \/ RoundOver(t) /\ startSlice(plan)
  BY DEF tick
<1>2. S.nodes = t.nodes /\ [Slice EXCEPT !.queue = t.queue, !.nodes = t.nodes].nodes = t.nodes
  BY DEF Slice
<1>3. S.nodes = beginRound(S).nodes
  BY DEF beginRound, Slice
<1>4. AnswersKept(nodes, t.nodes)
  BY <1>0, DispatchKeeps DEF AfterTurns
<1> HIDE DEF S
<1>5. CASE RoundOver(t) /\ startSlice(plan)
  <2>1. /\ Sound(nodes, <<>>, {})
        /\ QueriesOf(out, generation) = {} /\ LookupsOf(out, generation) = {}
    BY <1>0, <1>5, RoundDone
  <2>2. Current(out) = {}
    BY <2>1, NoneCurrent DEF IInv, CallsCount
  <2>3. \A e \in DOMAIN nodes : nodes[e].state \in {"Answered", "Silent"}
    <3>1. \A e \in DOMAIN nodes : nodes[e].state \notin {"Waiting", "Asked"}
      BY <2>1 DEF Sound, UnsettledOK
    <3>2. QED
      BY <2>1, <3>1 DEF Sound, NodesOK, SliceNode
  <2>4. generation' # generation
    BY <1>5 DEF startSlice, finishAll, IInv, CallsCount
  <2>5. QED
    BY <1>0, <2>2, <2>3, <2>4 DEF Settles
<1> HIDE DEF t
<1>6. CASE ~(RoundOver(t) /\ startSlice(plan))
  <2>1. nodes' = t.nodes /\ generation' = generation /\ done' = done
    BY <1>1, <1>2, <1>3, <1>6 DEF SetSlice
  <2>2. QED
    BY <1>0, <1>4, <2>1, SettlesBy
<1>7. QED
  BY <1>5, <1>6

\* A callback comes back.
LEMMA CallbackStep ==
    ASSUME IInv, NEW q,
           \/ late(q) \/ onThrottled(q) \/ onTimeout(q)
           \/ \E list \in Lists : onSeedLookup(q, list)
           \/ \E sender \in Ids \cup {DefaultId}, list \in Lists : onAnswer(q, sender, list)
    PROVE  IInv' /\ Settles
<1>1. IInv' /\ AnswersKept(nodes, nodes')
  <2>1. AnswersKept(nodes, nodes)
    BY DEF AnswersKept
  <2>2. CASE late(q)
    BY <2>1, <2>2, LateKeeps
  <2>3. CASE onThrottled(q)
    BY <2>3, ThrottledKeeps
  <2>4. CASE onTimeout(q)
    BY <2>4, TimeoutKeeps
  <2>5. CASE \E list \in Lists : onSeedLookup(q, list)
    BY <2>5, SeedLookupKeeps
  <2>6. CASE \E sender \in Ids \cup {DefaultId}, list \in Lists : onAnswer(q, sender, list)
    BY <2>6, AnswerKeeps
  <2>7. QED
    BY <2>2, <2>3, <2>4, <2>5, <2>6
<1>2. done' = done
  BY DEF late, onThrottled, onTimeout, onSeedLookup, onAnswer, onReply, Returned
<1>3. QED
  BY <1>1, <1>2, SettlesBy

\* Every step keeps the invariant and settles for good.
LEMMA StepKeeps ==
    ASSUME IInv, [Next]_vars
    PROVE  IInv' /\ [Settles]_vars
<1>1. CASE start
  BY <1>1, StartStep
<1>2. CASE cancel
  BY <1>2, CancelStep
<1>3. ASSUME NEW busy \in SUBSET Endpoints, tick(busy) PROVE IInv' /\ [Settles]_vars
  BY <1>3, TickStep
<1>4. ASSUME NEW q \in out,
             \/ late(q) \/ onThrottled(q) \/ onTimeout(q)
             \/ \E list \in Lists : onSeedLookup(q, list)
             \/ \E sender \in Ids \cup {DefaultId}, list \in Lists : onAnswer(q, sender, list)
      PROVE  IInv' /\ [Settles]_vars
  BY <1>4, CallbackStep
<1>5. CASE UNCHANGED vars
  <2>1. IInv'
    BY <1>5 DEF vars, slice, IInv, CallsCount, WindowOK, CountedOK, QuietBeforeFinish,
                Slice, AtRest, isRunning
  <2>2. QED
    BY <1>5, <2>1
<1>6. QED
  BY <1>1, <1>2, <1>3, <1>4, <1>5 DEF Next

\* The invariant holds at first.
LEMMA InitKeeps == Init => IInv
<1> SUFFICES ASSUME Init PROVE IInv
  OBVIOUS
<1>1. CallsOK({}, 0) /\ QueriesOf({}, 0) = {} /\ LookupsOf({}, 0) = {}
  BY FS_EmptySet DEF CallsOK, QueriesOf, LookupsOf
<1>2. CallsCount
  <2>1. 0 = Cardinality(QueriesOf({}, 0)) /\ 0 = Cardinality(LookupsOf({}, 0))
    BY <1>1, FS_EmptySet
  <2>2. 0 \in Nat /\ 0 \in 0..MaxOutstanding /\ 0 \in 0..SeedLookups
    BY Limits
  <2>3. QED
    BY <1>1, <2>1, <2>2 DEF Init, CallsCount, WindowOK
<1>3. CountedOK
  <2>1. <<>> \in Seq({}) /\ DOMAIN <<>> = {}
    OBVIOUS
  <2>2. QED
    BY <2>1 DEF Init, CountedOK, QuietBeforeFinish
<1>4. AtRest /\ ~isRunning
  BY <1>1 DEF Init, AtRest, isRunning
<1>5. QED
  BY <1>2, <1>3, <1>4, Limits DEF Init, IInv

\* It implies that the end of a round and of a slice is decided rightly.
LEMMA InvariantSays ==
    ASSUME IInv
    PROVE  CensusInv /\ NobodyForgotten
<1>1. Sound(nodes, queue, AskedIn(out, generation))
  <2>1. CASE isRunning
    BY <2>1, RoundIs
  <2>2. CASE ~isRunning
    BY <2>2, NoneSound, NobodyAsked DEF IInv, AtRest
  <2>3. QED
    BY <2>1, <2>2
<1>2. TypeOK
  <2>1. ToSet(queue) \subseteq Endpoints
    <3>1. queue \in Seq(Endpoints)
      BY <1>1 DEF Sound, QueueOK
    <3>2. QED
      BY <3>1 DEF ToSet
  <2>2. QED
    BY <1>1, <2>1 DEF TypeOK, IInv, CallsCount, WindowOK, Sound, NodesOK
<1>3. CountersExact
  <2>1. /\ {q \in Current(out) : "to" \in DOMAIN q} = QueriesOf(out, generation)
        /\ {q \in Current(out) : "lookup" \in DOMAIN q} = LookupsOf(out, generation)
    BY DEF Current, QueriesOf, LookupsOf
  <2>2. QED
    BY <2>1 DEF CountersExact, IInv, CallsCount, WindowOK
<1>4. NobodyForgotten
  <2> SUFFICES ASSUME NEW e \in DOMAIN nodes
               PROVE  LET places == Cardinality({i \in DOMAIN queue : queue[i] = e})
                                      + (IF [generation |-> generation, to |-> e] \in out THEN 1 ELSE 0)
                      IN /\ places <= 1
                         /\ nodes[e].state \in {"Waiting", "Asked"} => places = 1
    BY DEF NobodyForgotten
  <2> DEFINE I == {i \in DOMAIN queue : queue[i] = e}
             A == AskedIn(out, generation)
  <2>1. DOMAIN queue = 1..Len(queue) /\ e \in Endpoints
    BY <1>1 DEF Sound, QueueOK, NodesOK
  <2>2. [generation |-> generation, to |-> e] \in out <=> e \in A
    BY <2>1 DEF AskedIn
  <2> HIDE DEF A
  <2>3. ASSUME NEW i \in I PROVE I = {i} /\ e \notin A
    BY <1>1, <2>1, <2>3 DEF Sound, QueueOK, A
  <2>4. nodes[e].state \in {"Waiting", "Asked"} => e \in A \/ I # {}
    BY <1>1, <2>1 DEF Sound, UnsettledOK, A
  <2> HIDE DEF I
  <2>5. CASE I = {}
    BY <2>2, <2>4, <2>5, FS_EmptySet DEF I
  <2>6. CASE I # {}
    <3>1. PICK i : i \in I
      BY <2>6
    <3>2. Cardinality(I) = 1 /\ e \notin A
      BY <2>3, <3>1, FS_Singleton
    <3>3. QED
      BY <2>2, <3>2 DEF I
  <2>7. QED
    BY <2>5, <2>6
<1>5. QED
  BY <1>2, <1>3, <1>4 DEF CensusInv, IInv, CountedOK

\* The invariant holds throughout.
LEMMA Invariant == Spec => []IInv
<1>1. IInv /\ [Next]_vars => IInv'
  BY StepKeeps
<1>2. QED
  BY <1>1, InitKeeps, PTL DEF Spec

\* m_outstanding and m_pendingLookups count exactly this slice's callbacks, whatever comes back
\* late, and a slice in which anybody was found ran its quiet rounds or all its rounds.
THEOREM CensusSafety == Spec => []CensusInv
<1>1. IInv => CensusInv
  BY InvariantSays
<1>2. QED
  BY <1>1, Invariant, PTL

\* A node that has neither answered nor been given up is queued or being asked, once.
THEOREM NobodyIsForgotten == Spec => []NobodyForgotten
<1>1. IInv => NobodyForgotten
  BY InvariantSays
<1>2. QED
  BY <1>1, Invariant, PTL

\* A slice is counted only once everybody found in it is settled and nothing is under way,
\* and no later refusal or timeout takes an answer back.
THEOREM AnswersCount == Spec => SettledForGood
<1>1. IInv /\ [Next]_vars => [Settles]_vars
  BY StepKeeps
<1>2. QED
  BY <1>1, Invariant, PTL DEF Spec, SettledForGood, Settles
=============================================================================
