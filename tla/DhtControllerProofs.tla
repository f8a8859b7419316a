------------------------ MODULE DhtControllerProofs -------------------------
(***************************************************************************)
(* The pages wait only for what will come, show only what belongs to the   *)
(* engine that runs, and show what it uses, for any number of calls,       *)
(* starts and stops, and any order in which the two threads work off what  *)
(* is posted to them.                                                      *)
(***************************************************************************)
EXTENDS DhtController, TLAPS, FiniteSetTheorems

USE EngineAssumption, ControllerAssumption

-----------------------------------------------------------------------------
(* What the two threads exchange                                           *)

\* The settings the calls name, and none.
Names == {"", "contactLimit", "catalogCap", "readOnly", "portForwarding"}

\* A call posted to the engine's thread.
Posted == [kind : {"searchPeers", "searchItem", "announcePeer", "publishItem", "probe",
                   "probeAnnounce", "addNode", "queryNodes", "exportNodes",
                   "requestStorageSnapshot", "set", "monitoring", "census", "shutdown"},
           id : Nat, at : Nat, of : Nat, name : Names]

\* A signal on its way to the interface.
Signal == [gen : Nat, kind : {"snapshot", "notice", "written"} \cup
                             {"peers", "item", "publish", "probe", "page", "export", "storage"},
           id : Nat, at : Int, of : Nat, total : Nat, rows : SUBSET (Hashes \cup {-1, 0, 1})]

\* `best' is the newest of the items seen.
Newest(best, seen) == best \in seen /\ \A x \in seen : x <= best

\* A snapshot carries an ID, a page its place, the result of a search the newest item.
GoodSignal(s) ==
    /\ s \in Signal
    /\ s.kind = "snapshot" => s.at \in NodeIds \cup {0}
    /\ s.kind = "page" => s.at \in Nat
    /\ s.kind = "item" => /\ s.rows \subseteq {-1, 0, 1} /\ s.total = IF s.rows = {} THEN 0 ELSE 1
                          /\ s.rows # {} => Newest(s.at, s.rows)

\* What the families of a job can be at.
Stages == {"off", "lookup", "writing", "query", "second", "dns", "done"}

\* A call with callbacks outstanding.
Work == [kind : {"peers", "item", "put", "announce", "probe", "probeAnnounce", "dns"},
         id : Nat, of : Nat, part : [Families -> Stages], pending : [Families -> Int],
         remaining : Int, found : BOOLEAN, best : Int, seen : SUBSET {-1, 0, 1}]

\* Who is not done yet.
Active(part) == {f \in Families : part[f] \notin {"off", "done"}}

\* What a family is at fits the kind of the job, and what is kept is the newest seen.
GoodJob(j) ==
    /\ j \in Work
    /\ j.remaining = Cardinality(Active(j.part))
    /\ j.found = (j.seen # {}) /\ (j.found => Newest(j.best, j.seen))
    /\ \A f \in Families :
         /\ j.part[f] = "lookup" => j.kind \in {"peers", "item", "put", "announce"}
         /\ j.part[f] = "writing" => j.kind \in {"put", "announce"}
         /\ j.part[f] \in {"query", "second"} => j.kind \in {"probe", "probeAnnounce"}
         /\ j.part[f] = "dns" => j.kind = "dns"

\* DhtEngine.
Engine == [gen : Nat, up : SUBSET Families, settings : [Settings -> Nat],
           monitoring : BOOLEAN, id : NodeIds \cup {0}, due : BOOLEAN]

\* The engine and the two queues.
GoodSignals(S) == S \in Seq(Signal) /\ \A i \in 1..Len(S) : GoodSignal(S[i])
Exchange ==
    /\ engine \in Engine /\ commands \in Seq(Posted) /\ GoodSignals(signals)
    /\ \A j \in jobs : GoodJob(j)

\* The node list and the export.
List == [offset : Nat, filter : Nat, inFlight : BOOLEAN, again : BOOLEAN, requestId : Nat,
         at : Nat, of : Nat, total : Nat, loaded : BOOLEAN]
Export == [busy : BOOLEAN, id : Nat, gen : Nat, writing : SUBSET Nat]

\* The interface.
Interface ==
    /\ running \in BOOLEAN /\ stopping \in BOOLEAN /\ generation \in 0..MaxGeneration
    /\ settings \in [Settings -> Nat] /\ monitoring \in BOOLEAN /\ nodeId \in NodeIds \cup {0}
    /\ busy \in [Waits -> BOOLEAN]
    /\ wanted \in [{"search", "publish"} -> Nat] /\ answered \in [{"search", "publish"} -> Nat]
    /\ resolving \subseteq [id : Nat, kind : {"probe", "probeAnnounce"}]
    /\ shown \in [Pages -> 0..MaxGeneration]
    /\ list \in List /\ export \in Export /\ \A m, n \in export.writing : m = n
    /\ probes \in [rows : 0..HistoryLimit, selected : Int]
    /\ probes.selected \in -1..(probes.rows - 1)
    /\ ops \in Nat

-----------------------------------------------------------------------------
(* Starting and stopping                                                   *)

\* Without an engine nothing is under way; while one is in use its signals are of this
\* generation and it is not told to shut down; while it stops shutdown is the last it is
\* told, and done when no family is left.
Lives ==
    /\ stopping => running
    /\ ~running => /\ commands = <<>> /\ jobs = {} /\ engine.up = {} /\ ~engine.due
                   /\ ~monitoring /\ ~list.inFlight /\ ~list.loaded
                   /\ \A w \in Waits : ~busy[w]
    /\ InUse => /\ engine.gen = generation /\ engine.up # {}
                /\ \A i \in 1..Len(commands) : commands[i].kind # "shutdown"
    /\ stopping => /\ engine.gen < generation
                   /\ IF engine.up = {} THEN commands = <<>> /\ jobs = {} /\ ~engine.due
                      ELSE \A i \in 1..Len(commands) :
                             commands[i].kind = "shutdown" => i = Len(commands)

\* What was asked or told is of an engine that was there, and of the one in use only if
\* there is one.
Generations ==
    /\ \A i \in 1..Len(signals) : signals[i].kind # "written" =>
         signals[i].gen <= generation /\ (~InUse => signals[i].gen < generation)
    /\ export.gen <= generation /\ (export.busy /\ ~InUse => export.gen < generation)

-----------------------------------------------------------------------------
(* What is under way                                                       *)

\* The requests a page waits for: as calls, as jobs and as results of an engine g.
Topics == {"search", "publish", "page"}
CallsOf(t) ==
    {c \in Posted : c.kind \in IF t = "search" THEN {"searchPeers", "searchItem"}
                               ELSE IF t = "publish" THEN {"announcePeer", "publishItem"}
                               ELSE {"queryNodes"}}
JobsOf(t) ==
    {j \in Work : j.kind \in IF t = "search" THEN {"peers", "item"}
                             ELSE IF t = "publish" THEN {"put", "announce"} ELSE {}}
ResultsOf(t, g) ==
    {s \in Signal : /\ s.gen = g
                    /\ s.kind \in IF t = "search" THEN {"peers", "item"}
                                  ELSE IF t = "publish" THEN {"publish"} ELSE {"page"}}

\* Where members of P are in a queue.
Places(Q, P) == {i \in 1..Len(Q) : Q[i] \in P}

\* x belongs to request `id', and asks for `of' unless that does not matter.
Is(x, id, of, any) == x.id = id /\ (any \/ x.of = of)

\* There is none, or exactly one and it is that request: in a queue, and among jobs.
NoneIn(Q, P) == Places(Q, P) = {}
OneIn(Q, P, id, of, any) == \E i \in 1..Len(Q) : Places(Q, P) = {i} /\ Is(Q[i], id, of, any)
NoJob(J, P) == J \cap P = {}
OneJob(J, P, id, of, any) == \E j \in J : J \cap P = {j} /\ Is(j, id, of, any)

\* Nothing is under way, and exactly one request.
None(t, C, J, S, g) == NoneIn(C, CallsOf(t)) /\ NoJob(J, JobsOf(t)) /\ NoneIn(S, ResultsOf(t, g))
One(t, C, J, S, g, id, of, any) ==
    \/ OneIn(C, CallsOf(t), id, of, any) /\ NoJob(J, JobsOf(t)) /\ NoneIn(S, ResultsOf(t, g))
    \/ NoneIn(C, CallsOf(t)) /\ OneJob(J, JobsOf(t), id, of, any) /\ NoneIn(S, ResultsOf(t, g))
    \/ NoneIn(C, CallsOf(t)) /\ NoJob(J, JobsOf(t)) /\ OneIn(S, ResultsOf(t, g), id, of, any)

\* What the interface knows of it.
Waiting(t) == IF t = "page" THEN list.inFlight ELSE busy[t]
Number(t) == IF t = "page" THEN list.requestId ELSE wanted[t]
AnyOf(t) == t # "page" \/ list.again

\* A page is busy exactly while one request is under way, and it is the one asked last.
Awaited ==
    InUse => \A t \in Topics :
        IF Waiting(t)
        THEN One(t, commands, jobs, signals, generation, Number(t), list.filter, AnyOf(t))
        ELSE None(t, commands, jobs, signals, generation)

\* What is shown answers what was asked last.
Answered == \A w \in {"search", "publish"} : ~busy[w] => answered[w] = wanted[w]

\* A probe is under way while the page says so.
ProbeComes(C, J, S, g) ==
    \/ \E i \in 1..Len(C) : C[i].kind \in {"probe", "probeAnnounce"}
    \/ \E j \in J : j.kind \in {"probe", "probeAnnounce"}
    \/ \E i \in 1..Len(S) : S[i].kind = "probe" /\ S[i].gen = g
ProbeAwaited ==
    InUse /\ busy["probe"] => resolving # {} \/ ProbeComes(commands, jobs, signals, generation)

\* The export asked last is under way, being written, or its end is posted.
ExportComes(C, S, g, id) ==
    \/ \E i \in 1..Len(C) : C[i].kind = "exportNodes" /\ C[i].id = id
    \/ \E i \in 1..Len(S) : S[i].kind = "export" /\ S[i].gen = g /\ S[i].id = id
    \/ \E i \in 1..Len(S) : S[i].kind = "written" /\ S[i].id = id
ExportAwaited ==
    InUse /\ export.busy /\ export.gen = generation =>
        export.id \in export.writing \/ ExportComes(commands, signals, generation, export.id)

\* The inductive invariant.
IInv == /\ Exchange /\ Interface /\ Lives /\ Generations /\ NothingStale
        /\ Awaited /\ Answered /\ FilterShown /\ ProbeAwaited /\ ExportAwaited
        /\ SettingsAgree /\ IdFollows

-----------------------------------------------------------------------------
(* Queues                                                                  *)

\* D is C without its head, and C with c at its end.
Shorter(C, D) ==
    /\ Len(C) \in Nat \ {0} /\ Len(D) = Len(C) - 1
    /\ \A i \in 1..Len(D) : D[i] = C[i + 1]
Longer(C, D, c) ==
    /\ Len(C) \in Nat /\ Len(D) = Len(C) + 1
    /\ D[Len(C) + 1] = c /\ \A i \in 1..Len(C) : D[i] = C[i]

\* Taking the head of a queue.
LEMMA TailOf ==
    ASSUME NEW T, NEW C \in Seq(T), C # <<>>
    PROVE  /\ Tail(C) \in Seq(T) /\ Shorter(C, Tail(C)) /\ Head(C) = C[1] /\ C[1] \in T
           /\ Len(C) \in Nat \ {0}
<1>1. Len(C) \in Nat \ {0} /\ Len(Tail(C)) = Len(C) - 1 /\ Tail(C) \in Seq(T) /\ Head(C) = C[1]
  OBVIOUS
<1>2. \A i \in 1..Len(Tail(C)) : Tail(C)[i] = C[i + 1]
  BY <1>1
<1>3. QED
  BY <1>1, <1>2 DEF Shorter

\* Posting.
LEMMA AppendTo ==
    ASSUME NEW T, NEW C \in Seq(T), NEW c \in T
    PROVE  Append(C, c) \in Seq(T) /\ Longer(C, Append(C, c), c) /\ Append(C, c) # <<>>
  BY DEF Longer

\* The places X of what one looks for in a queue, and Y when the head is taken or something
\* is posted.
Shifted(n, X, Y) ==
    /\ n \in Nat \ {0} /\ X \subseteq 1..n /\ Y \subseteq 1..(n - 1)
    /\ \A i \in 1..(n - 1) : i \in Y <=> i + 1 \in X
Grown(n, X, Y) ==
    /\ n \in Nat /\ X \subseteq 1..n /\ Y \subseteq 1..(n + 1)
    /\ \A i \in 1..n : i \in Y <=> i \in X

\* One found at the head is gone, and one found elsewhere moves up.
Moved(n, X, Y) ==
    /\ X = {} => Y = {}
    /\ \A k : X = {k} /\ 1 \in X => k = 1 /\ Y = {}
    /\ \A k : X = {k} /\ 1 \notin X => k - 1 \in 1..(n - 1) /\ Y = {k - 1}

\* Taking the head.
LEMMA ShiftSet ==
    ASSUME NEW n, NEW X, NEW Y, Shifted(n, X, Y) PROVE Moved(n, X, Y)
<1> USE DEF Shifted
<1>1. \A i \in Y : i \in 1..(n - 1) /\ i \in Int /\ i + 1 \in X /\ i + 1 # 1
  OBVIOUS
<1>2. X = {} => Y = {}
  BY <1>1
<1>3. \A k : X = {k} /\ 1 \in X => k = 1 /\ Y = {}
  BY <1>1
<1>4. ASSUME NEW k, X = {k}, 1 \notin X PROVE k - 1 \in 1..(n - 1) /\ Y = {k - 1}
  <2>1. k \in 1..n /\ k # 1 /\ k - 1 \in 1..(n - 1) /\ (k - 1) + 1 = k
    BY <1>4
  <2>2. k - 1 \in Y
    BY <1>4, <2>1
  <2>3. \A i \in Y : i = k - 1
    BY <1>1, <1>4, <2>1
  <2>4. QED
    BY <2>1, <2>2, <2>3
<1>5. QED
  BY <1>2, <1>3, <1>4 DEF Moved

\* They stay when something is posted, which is found if it is what one looks for.
LEMMA GrowSet ==
    ASSUME NEW n, NEW X, NEW Y, Grown(n, X, Y)
    PROVE  /\ n + 1 \notin Y => Y = X
           /\ n + 1 \in Y /\ X = {} => Y = {n + 1}
<1> USE DEF Grown
<1>1. \A i \in Y : i \in 1..n \/ i = n + 1
  OBVIOUS
<1>2. \A i \in X : i \in 1..n
  OBVIOUS
<1>3. QED
  BY <1>1, <1>2

-----------------------------------------------------------------------------
(* One request under way, in one of three places                           *)

\* The head of a queue is taken.
LEMMA HeadTaken ==
    ASSUME NEW P, NEW C, NEW D, Shorter(C, D), NEW id, NEW of, NEW any
    PROVE  /\ NoneIn(C, P) => C[1] \notin P /\ NoneIn(D, P)
           /\ OneIn(C, P, id, of, any) /\ C[1] \in P => Is(C[1], id, of, any) /\ NoneIn(D, P)
           /\ OneIn(C, P, id, of, any) /\ C[1] \notin P => OneIn(D, P, id, of, any)
<1> DEFINE n == Len(C)
           X == Places(C, P)
           Y == Places(D, P)
<1>1. n \in Nat \ {0} /\ Len(D) = n - 1 /\ \A i \in 1..(n - 1) : D[i] = C[i + 1]
  BY DEF Shorter
<1>2. X \subseteq 1..n /\ Y \subseteq 1..(n - 1)
  BY <1>1 DEF Places
<1>3. \A i \in 1..(n - 1) : i \in Y <=> i + 1 \in X
  BY <1>1 DEF Places
<1>4. C[1] \in P <=> 1 \in X
  BY <1>1 DEF Places
<1> HIDE DEF X, Y, n
<1>5. Moved(n, X, Y)
  <2>1. Shifted(n, X, Y)
    BY <1>1, <1>2, <1>3 DEF Shifted
  <2>2. QED
    BY <2>1, ShiftSet
<1>6. NoneIn(C, P) => C[1] \notin P /\ NoneIn(D, P)
  BY <1>4, <1>5 DEF NoneIn, X, Y, Moved
<1>7. ASSUME OneIn(C, P, id, of, any)
      PROVE  IF C[1] \in P THEN Is(C[1], id, of, any) /\ NoneIn(D, P)
             ELSE OneIn(D, P, id, of, any)
  <2>1. PICK k \in 1..n : X = {k} /\ Is(C[k], id, of, any)
    BY <1>7 DEF OneIn, X, n
  <2>2. CASE C[1] \in P
    BY <1>4, <1>5, <2>1, <2>2 DEF NoneIn, Y, Moved
  <2>3. CASE C[1] \notin P
    <3>1. k - 1 \in 1..(n - 1) /\ Y = {k - 1}
      BY <1>4, <1>5, <2>1, <2>3 DEF Moved
    <3>2. D[k - 1] = C[k]
      BY <1>1, <2>1, <3>1
    <3>3. QED
      BY <1>1, <2>1, <2>3, <3>1, <3>2 DEF OneIn, Y
  <2>4. QED
    BY <2>2, <2>3
<1>8. QED
  BY <1>6, <1>7

\* Something is posted to a queue.
LEMMA EndPosted ==
    ASSUME NEW P, NEW C, NEW D, NEW c, Longer(C, D, c), NEW id, NEW of, NEW any
    PROVE  /\ c \notin P => /\ NoneIn(C, P) => NoneIn(D, P)
                            /\ OneIn(C, P, id, of, any) => OneIn(D, P, id, of, any)
           /\ c \in P /\ NoneIn(C, P) /\ Is(c, id, of, any) => OneIn(D, P, id, of, any)
<1> DEFINE n == Len(C)
           X == Places(C, P)
           Y == Places(D, P)
<1>1. n \in Nat /\ Len(D) = n + 1 /\ D[n + 1] = c /\ \A i \in 1..n : D[i] = C[i]
  BY DEF Longer
<1>2. X \subseteq 1..n /\ Y \subseteq 1..(n + 1)
  BY <1>1 DEF Places
<1>3. /\ \A i \in 1..n : i \in Y <=> i \in X
      /\ n + 1 \in Y <=> c \in P
  BY <1>1 DEF Places
<1> HIDE DEF X, Y, n
<1>4. /\ n + 1 \notin Y => Y = X
      /\ n + 1 \in Y /\ X = {} => Y = {n + 1}
  <2>1. Grown(n, X, Y)
    BY <1>1, <1>2, <1>3 DEF Grown
  <2>2. QED
    BY <2>1, GrowSet, Zenon
<1>5. ASSUME c \notin P, OneIn(C, P, id, of, any) PROVE OneIn(D, P, id, of, any)
  <2>1. PICK k \in 1..n : X = {k} /\ Is(C[k], id, of, any)
    BY <1>5 DEF OneIn, X, n
  <2>2. k \in 1..(n + 1) /\ Y = {k} /\ D[k] = C[k]
    BY <1>1, <1>3, <1>4, <1>5, <2>1
  <2>3. QED
    BY <1>1, <2>1, <2>2 DEF OneIn, Y
<1>6. ASSUME c \notin P, NoneIn(C, P) PROVE NoneIn(D, P)
  BY <1>3, <1>4, <1>6 DEF NoneIn, X, Y
<1>7. ASSUME c \in P, NoneIn(C, P), Is(c, id, of, any) PROVE OneIn(D, P, id, of, any)
  <2>1. Y = {n + 1} /\ n + 1 \in 1..(n + 1)
    BY <1>1, <1>3, <1>4, <1>7 DEF NoneIn, X
  <2>2. QED
    BY <1>1, <1>7, <2>1 DEF OneIn, Y
<1>8. QED
  BY <1>5, <1>6, <1>7

\* A job is begun.
LEMMA JobBegun ==
    ASSUME NEW P, NEW J, NEW k, NEW id, NEW of, NEW any
    PROVE  /\ k \notin P => /\ NoJob(J, P) => NoJob(J \cup {k}, P)
                            /\ OneJob(J, P, id, of, any) => OneJob(J \cup {k}, P, id, of, any)
           /\ k \in P /\ NoJob(J, P) /\ Is(k, id, of, any) => OneJob(J \cup {k}, P, id, of, any)
<1>1. k \notin P => (J \cup {k}) \cap P = J \cap P
  OBVIOUS
<1>2. k \in P /\ J \cap P = {} => (J \cup {k}) \cap P = {k}
  OBVIOUS
<1>3. QED
  BY <1>1, <1>2 DEF NoJob, OneJob

\* A job is done.
LEMMA JobDone ==
    ASSUME NEW P, NEW J, NEW j \in J, NEW id, NEW of, NEW any
    PROVE  /\ NoJob(J, P) => j \notin P /\ NoJob(J \ {j}, P)
           /\ OneJob(J, P, id, of, any) /\ j \notin P => OneJob(J \ {j}, P, id, of, any)
           /\ OneJob(J, P, id, of, any) /\ j \in P => Is(j, id, of, any) /\ NoJob(J \ {j}, P)
<1>1. NoJob(J, P) => j \notin P /\ NoJob(J \ {j}, P)
  BY DEF NoJob
<1>2. ASSUME OneJob(J, P, id, of, any)
      PROVE  IF j \in P THEN Is(j, id, of, any) /\ NoJob(J \ {j}, P)
             ELSE OneJob(J \ {j}, P, id, of, any)
  <2>1. PICK x \in J : J \cap P = {x} /\ Is(x, id, of, any)
    BY <1>2 DEF OneJob
  <2>2. CASE j \in P
    <3>1. j = x /\ (J \ {j}) \cap P = {}
      BY <2>1, <2>2
    <3>2. QED
      BY <2>1, <2>2, <3>1 DEF NoJob
  <2>3. CASE j \notin P
    <3>1. x \in J \ {j} /\ (J \ {j}) \cap P = {x}
      BY <2>1, <2>3
    <3>2. QED
      BY <2>1, <2>3, <3>1 DEF OneJob
  <2>4. QED
    BY <2>2, <2>3
<1>3. QED
  BY <1>1, <1>2

\* A job goes on.
LEMMA JobGoesOn ==
    ASSUME NEW P, NEW J, NEW j \in J, NEW k, k \in P <=> j \in P, k.id = j.id, k.of = j.of,
           NEW id, NEW of, NEW any
    PROVE  /\ NoJob(J, P) => NoJob((J \ {j}) \cup {k}, P)
           /\ OneJob(J, P, id, of, any) => OneJob((J \ {j}) \cup {k}, P, id, of, any)
<1> DEFINE I == J \ {j}
<1>1. /\ NoJob(J, P) => j \notin P /\ NoJob(I, P)
      /\ OneJob(J, P, id, of, any) /\ j \notin P => OneJob(I, P, id, of, any)
      /\ OneJob(J, P, id, of, any) /\ j \in P => Is(j, id, of, any) /\ NoJob(I, P)
  BY JobDone, Zenon
<1>2. /\ k \notin P => /\ NoJob(I, P) => NoJob(I \cup {k}, P)
                       /\ OneJob(I, P, id, of, any) => OneJob(I \cup {k}, P, id, of, any)
      /\ k \in P /\ NoJob(I, P) /\ Is(k, id, of, any) => OneJob(I \cup {k}, P, id, of, any)
  BY JobBegun, Zenon
<1>3. Is(j, id, of, any) => Is(k, id, of, any)
  BY DEF Is
<1>4. QED
  BY <1>1, <1>2, <1>3, Zenon

-----------------------------------------------------------------------------
(* What a step of the engine does to the queues                            *)

\* The call at the head becomes a job.
Begins(k) ==
    LET c == Head(commands) IN
    /\ commands # <<>> /\ commands' = Tail(commands)
    /\ jobs' = jobs \cup {k} /\ signals' = signals /\ engine' = engine
    /\ GoodJob(k) /\ k.id = c.id
    /\ <<c.kind, k.kind>> \in {<<"searchPeers", "peers">>, <<"searchItem", "item">>,
                               <<"announcePeer", "announce">>, <<"publishItem", "put">>,
                               <<"probe", "probe">>, <<"probeAnnounce", "probeAnnounce">>}

\* The call at the head is answered at once.
Replies(s) ==
    LET c == Head(commands) IN
    /\ commands # <<>> /\ commands' = Tail(commands)
    /\ signals' = Append(signals, s) /\ jobs' = jobs /\ engine' = engine
    /\ GoodSignal(s) /\ s.gen = engine.gen
    /\ s.kind # "storage" => s.id = c.id
    /\ s.kind = "page" => s.of = c.of
    /\ <<c.kind, s.kind>> \in {<<"publishItem", "publish">>, <<"probe", "probe">>,
                               <<"probeAnnounce", "probe">>, <<"queryNodes", "page">>,
                               <<"exportNodes", "export">>, <<"requestStorageSnapshot", "storage">>}

\* addNode.
AddsNode(s, N) ==
    /\ commands # <<>> /\ commands' = Tail(commands) /\ Head(commands).kind = "addNode"
    /\ signals' = Append(signals, s) /\ jobs' = jobs \cup N /\ engine' = engine
    /\ GoodSignal(s) /\ s.gen = engine.gen /\ s.kind = "notice"
    /\ N = {} \/ \E k \in N : N = {k} /\ GoodJob(k) /\ k.kind = "dns"

\* The timer or an event of the network, which may make a snapshot due.
SameButDue == engine' \in {engine, scheduleSnapshot}

\* A job ends with a signal, with two or none.
Ends(j, s) ==
    /\ j \in jobs /\ jobs' = jobs \ {j} /\ commands' = commands /\ SameButDue
    /\ signals' = Append(signals, s) /\ GoodSignal(s) /\ s.gen = engine.gen
    /\ s.kind # "notice" => s.id = j.id
    /\ <<j.kind, s.kind>> \in {<<"peers", "peers">>, <<"item", "item">>, <<"put", "publish">>,
                               <<"announce", "publish">>, <<"probe", "probe">>,
                               <<"probeAnnounce", "probe">>, <<"dns", "notice">>}
EndsTwice(j, s) ==
    /\ j \in jobs /\ jobs' = jobs \ {j} /\ commands' = commands /\ engine' = engine
    /\ signals' = Append(Append(signals, s), s) /\ GoodSignal(s) /\ s.gen = engine.gen
    /\ j.kind = "probeAnnounce" /\ s.kind = "probe"
EndsQuietly(j) ==
    /\ j \in jobs /\ jobs' = jobs \ {j} /\ commands' = commands /\ engine' = engine
    /\ signals' = signals /\ j.kind = "dns"

\* A job goes on, without a signal or with the first of two.
GoesOn(j, k) ==
    /\ j \in jobs /\ jobs' = (jobs \ {j}) \cup {k} /\ commands' = commands /\ SameButDue
    /\ signals' = signals /\ GoodJob(k) /\ k.kind = j.kind /\ k.id = j.id /\ k.of = j.of
Reports(j, k, s) ==
    /\ j \in jobs /\ jobs' = (jobs \ {j}) \cup {k} /\ commands' = commands /\ engine' = engine
    /\ signals' = Append(signals, s) /\ GoodSignal(s) /\ s.gen = engine.gen /\ s.kind = "probe"
    /\ GoodJob(k) /\ j.kind = "probeAnnounce" /\ k.kind = "probeAnnounce"

\* There are two families.
LEMMA TwoFamilies ==
    ASSUME NEW part
    PROVE  IsFiniteSet(Active(part)) /\ Cardinality(Active(part)) \in Nat
<1>1. IsFiniteSet({"v4"})
  BY FS_Singleton
<1>2. IsFiniteSet({"v4"} \cup {"v6"})
  BY <1>1, FS_AddElement
<1>3. {"v4"} \cup {"v6"} = Families /\ Active(part) \subseteq Families
  BY DEF Families, Active
<1>4. QED
  BY <1>2, <1>3, FS_Subset, FS_CardinalityType

\* The record a job begins with.
LEMMA NewJob ==
    ASSUME NEW c \in Posted, NEW kind, NEW part \in [Families -> Stages],
           kind \in {"peers", "item", "put", "announce", "probe", "probeAnnounce", "dns"},
           \A f \in Families :
             /\ part[f] \notin {"writing", "second", "done"}
             /\ part[f] = "lookup" => kind \in {"peers", "item", "put", "announce"}
             /\ part[f] = "query" => kind \in {"probe", "probeAnnounce"}
             /\ part[f] = "dns" => kind = "dns"
    PROVE  GoodJob(Job(kind, c, part)) /\ Job(kind, c, part).kind = kind /\ Job(kind, c, part).id = c.id
<1> DEFINE k == Job(kind, c, part)
<1>1. {f \in Families : part[f] # "off"} = Active(part)
  BY DEF Active
<1>3. Cardinality(Active(part)) \in Nat
  BY TwoFamilies
<1>4. /\ k = [kind |-> kind, id |-> c.id, of |-> c.of, part |-> part,
              pending |-> [f \in Families |-> 0], remaining |-> Cardinality(Active(part)),
              found |-> FALSE, best |-> -1, seen |-> {}]
  BY <1>1 DEF Job
<1>5. k \in Work
  BY <1>3, <1>4 DEF Work, Posted
<1>6. k.part = part /\ k.kind = kind /\ k.id = c.id /\ k.remaining = Cardinality(Active(part))
      /\ k.found = FALSE /\ k.seen = {}
  BY <1>4
<1> HIDE DEF k
<1>7. GoodJob(k)
  BY <1>5, <1>6 DEF GoodJob
<1>8. QED
  BY <1>6, <1>7 DEF k

\* A signal of this engine that only names its request.
LEMMA PlainSignal ==
    ASSUME engine \in Engine, NEW kind, NEW id \in Nat,
           kind \in {"notice", "peers", "publish", "probe", "export", "storage"}
    PROVE  /\ GoodSignal(Plain(kind, id)) /\ Plain(kind, id).kind = kind
           /\ Plain(kind, id).gen = engine.gen /\ Plain(kind, id).id = id
  BY DEF Plain, GoodSignal, Signal, Engine

\* A snapshot.
LEMMA SnapshotSignal ==
    ASSUME NEW g \in Nat, NEW id \in NodeIds \cup {0}
    PROVE  /\ GoodSignal(snapshot(g, id)) /\ snapshot(g, id).kind = "snapshot"
           /\ snapshot(g, id).gen = g /\ snapshot(g, id).at = id
<1>1. id \in Int
  OBVIOUS
<1>2. /\ snapshot(g, id) \in Signal /\ snapshot(g, id).kind = "snapshot"
      /\ snapshot(g, id).gen = g /\ snapshot(g, id).at = id
  BY <1>1 DEF snapshot, Signal
<1>3. QED
  BY <1>2 DEF GoodSignal

\* begin() of a call with lookups on both families, or with a query on one.
LEMMA BeginEffect ==
    ASSUME Exchange, NEW call, NEW kind, Arrives(call), NEW part, begin(kind, part),
           \/ /\ part = Both("lookup")
              /\ <<call, kind>> \in {<<"searchPeers", "peers">>, <<"searchItem", "item">>,
                                     <<"announcePeer", "announce">>, <<"publishItem", "put">>}
           \/ /\ part = Only(Family(Head(commands)), "query")
              /\ <<call, kind>> \in {<<"probe", "probe">>, <<"probeAnnounce", "probeAnnounce">>}
    PROVE  \E k : Begins(k)
<1> DEFINE c == Head(commands)
           k == Job(kind, c, part)
<1>1. commands \in Seq(Posted) /\ commands # <<>> /\ c.kind = call
  BY DEF Exchange, Arrives
<1>2. c \in Posted
  BY <1>1, TailOf
<1>3. part \in [Families -> Stages] /\ \A f \in Families :
             /\ part[f] \notin {"writing", "second", "done"}
             /\ part[f] = "lookup" => kind \in {"peers", "item", "put", "announce"}
             /\ part[f] = "query" => kind \in {"probe", "probeAnnounce"}
             /\ part[f] = "dns" => kind = "dns"
  BY DEF Both, Only, Stages
<1>4. kind \in {"peers", "item", "put", "announce", "probe", "probeAnnounce", "dns"}
  OBVIOUS
<1>5. GoodJob(k) /\ k.kind = kind /\ k.id = c.id
  BY <1>2, <1>3, <1>4, NewJob
<1>6. <<call, kind>> \in {<<"searchPeers", "peers">>, <<"searchItem", "item">>,
                          <<"announcePeer", "announce">>, <<"publishItem", "put">>,
                          <<"probe", "probe">>, <<"probeAnnounce", "probeAnnounce">>}
  OBVIOUS
<1>7. Begins(k)
  BY <1>1, <1>5, <1>6 DEF begin, Begins
<1>8. QED
  BY <1>7

\* answer() of a call that only names the request.
LEMMA AnswerEffect ==
    ASSUME Exchange, NEW call, NEW kind, Arrives(call), answer(Plain(kind, Head(commands).id)),
           <<call, kind>> \in {<<"publishItem", "publish">>, <<"probe", "probe">>,
                              <<"probeAnnounce", "probe">>, <<"exportNodes", "export">>}
    PROVE  \E s : Replies(s)
<1> DEFINE c == Head(commands)
           s == Plain(kind, c.id)
<1>1. commands \in Seq(Posted) /\ commands # <<>> /\ c.kind = call
  BY DEF Exchange, Arrives
<1>2. c \in Posted /\ c.id \in Nat
  <2>1. c \in Posted
    BY <1>1, TailOf
  <2>2. QED
    BY <2>1 DEF Posted
<1>3. kind \in {"notice", "peers", "publish", "probe", "export", "storage"} /\ kind # "page"
  OBVIOUS
<1>4. GoodSignal(s) /\ s.kind = kind /\ s.gen = engine.gen /\ s.id = c.id
  BY <1>2, <1>3, PlainSignal DEF Exchange
<1>5. <<call, kind>> \in {<<"publishItem", "publish">>, <<"probe", "probe">>,
                          <<"probeAnnounce", "probe">>, <<"queryNodes", "page">>,
                          <<"exportNodes", "export">>, <<"requestStorageSnapshot", "storage">>}
  OBVIOUS
<1>6. signals' = Append(signals, s) /\ commands' = Tail(commands) /\ jobs' = jobs /\ engine' = engine
  BY DEF answer, emit
<1> HIDE DEF s, c
<1>7. Replies(s)
  BY <1>1, <1>3, <1>4, <1>5, <1>6 DEF Replies, c
<1>8. QED
  BY <1>7

\* queryNodes answers with a page of what was asked for.
LEMMA PageEffect ==
    ASSUME Exchange, queryNodes PROVE \E s : Replies(s)
<1> DEFINE c == Head(commands)
<1>1. commands \in Seq(Posted) /\ commands # <<>> /\ c.kind = "queryNodes" /\ engine \in Engine
  BY DEF Exchange, Arrives, queryNodes
<1>2. c \in Posted
  BY <1>1, TailOf
<1>3. PICK total \in 0..MaxPages :
          answer([Plain("page", c.id) EXCEPT !.at = PageOffset(c.at, total), !.of = c.of, !.total = total])
  BY DEF queryNodes
<1> DEFINE at == PageOffset(c.at, total)
           s == [Plain("page", c.id) EXCEPT !.at = at, !.of = c.of, !.total = total]
<1>4. at \in Nat
  BY <1>2 DEF PageOffset, Posted
<1> DEFINE p == Plain("page", c.id)
<1> HIDE DEF at, c
<1>5. p \in Signal /\ p.gen = engine.gen /\ p.kind = "page" /\ p.id = c.id
  BY <1>1, <1>2 DEF Plain, Signal, Engine, Posted
<1>6. GoodSignal(s) /\ s.gen = engine.gen /\ s.kind = "page" /\ s.id = c.id /\ s.of = c.of
  <2>1. c.of \in Nat /\ total \in Nat /\ at \in Int
    BY <1>2, <1>4 DEF Posted
  <2> HIDE DEF p
  <2>2. [p EXCEPT !.at = at, !.of = c.of, !.total = total] \in Signal
    BY <1>5, <2>1 DEF Signal
  <2>3. /\ [p EXCEPT !.at = at, !.of = c.of, !.total = total].gen = engine.gen
        /\ [p EXCEPT !.at = at, !.of = c.of, !.total = total].kind = "page"
        /\ [p EXCEPT !.at = at, !.of = c.of, !.total = total].id = c.id
        /\ [p EXCEPT !.at = at, !.of = c.of, !.total = total].of = c.of
        /\ [p EXCEPT !.at = at, !.of = c.of, !.total = total].at = at
    BY <1>5, <2>1 DEF Signal
  <2>4. QED
    BY <1>4, <2>2, <2>3 DEF p, GoodSignal
<1>7. signals' = Append(signals, s) /\ commands' = Tail(commands) /\ jobs' = jobs /\ engine' = engine
  BY <1>3 DEF answer, emit, at, c
<1> HIDE DEF s, c
<1>8. Replies(s)
  BY <1>1, <1>6, <1>7 DEF Replies, c
<1>9. QED
  BY <1>8

\* requestStorageSnapshot answers with what is stored.
LEMMA StorageEffect ==
    ASSUME Exchange, requestStorageSnapshot PROVE \E s : Replies(s)
<1> DEFINE c == Head(commands)
<1>1. commands \in Seq(Posted) /\ commands # <<>> /\ c.kind = "requestStorageSnapshot" /\ engine \in Engine
  BY DEF Exchange, Arrives, requestStorageSnapshot
<1>2. PICK stored \in SUBSET Hashes : answer([Plain("storage", 0) EXCEPT !.rows = stored])
  BY DEF requestStorageSnapshot
<1> DEFINE s == [Plain("storage", 0) EXCEPT !.rows = stored]
<1>3. s = [gen |-> engine.gen, kind |-> "storage", id |-> 0, at |-> 0, of |-> 0,
           total |-> 0, rows |-> stored]
  BY DEF Plain
<1>4. GoodSignal(s) /\ s.gen = engine.gen /\ s.kind = "storage"
  BY <1>1, <1>3 DEF GoodSignal, Signal, Engine
<1>5. signals' = Append(signals, s) /\ commands' = Tail(commands) /\ jobs' = jobs /\ engine' = engine
  BY <1>2 DEF answer, emit
<1> HIDE DEF s, c
<1>6. Replies(s)
  BY <1>1, <1>4, <1>5 DEF Replies, c
<1>7. QED
  BY <1>6

\* addNode gives notice, and a name is resolved by a job.
LEMMA AddNodeEffect ==
    ASSUME Exchange, addNode PROVE \E s, N : AddsNode(s, N)
<1> DEFINE c == Head(commands)
           s == Plain("notice", 0)
           k == Job("dns", c, Only("v4", "dns"))
           N == IF c.of = 0 THEN {} ELSE {k}
<1>1. commands \in Seq(Posted) /\ commands # <<>> /\ c.kind = "addNode"
  BY DEF Exchange, Arrives, addNode
<1>2. c \in Posted
  BY <1>1, TailOf
<1>3. Only("v4", "dns") \in [Families -> Stages] /\ \A f \in Families : Only("v4", "dns")[f] \in {"off", "dns"}
  BY DEF Only, Stages
<1>4. GoodJob(k) /\ k.kind = "dns"
  BY <1>2, <1>3, NewJob
<1>5. GoodSignal(s) /\ s.gen = engine.gen /\ s.kind = "notice"
  BY PlainSignal DEF Exchange
<1>6. signals' = Append(signals, s) /\ commands' = Tail(commands) /\ jobs' = jobs \cup N /\ engine' = engine
  BY DEF addNode, emit
<1>7. N = {} \/ \E x \in N : N = {x} /\ GoodJob(x) /\ x.kind = "dns"
  BY <1>4
<1> HIDE DEF s, c, N
<1>8. AddsNode(s, N)
  BY <1>1, <1>5, <1>6, <1>7 DEF AddsNode, c
<1>9. QED
  BY <1>8

\* k is j but for what it has found and written.
Same(k, j) == k.kind = j.kind /\ k.id = j.id /\ k.of = j.of /\ k.part = j.part /\ k.remaining = j.remaining

\* collect keeps the newest item of the families.
LEMMA KeepNewest ==
    ASSUME NEW j, GoodJob(j), NEW items \in FoundItems(j)
    PROVE  GoodJob(keep(j, items)) /\ Same(keep(j, items), j)
<1>1. j \in Work
  BY DEF GoodJob
<1>2. CASE items = {}
  <2>1. keep(j, items) = [j EXCEPT !.seen = j.seen \cup {}]
    BY <1>2 DEF keep
  <2>2. /\ [j EXCEPT !.seen = j.seen \cup {}] = j
    BY <1>1 DEF Work
  <2>3. QED
    BY <2>1, <2>2 DEF Same
<1>3. ASSUME NEW x \in {-1, 0, 1}, items = {x} PROVE GoodJob(keep(j, items)) /\ Same(keep(j, items), j)
  <2>1. x \in Int /\ Max({x}) = x
    BY DEF Max
  <2>2. ASSUME Newer(j, x) PROVE GoodJob(keep(j, items)) /\ Same(keep(j, items), j)
    <3> DEFINE k == [j EXCEPT !.found = TRUE, !.best = x, !.seen = j.seen \cup {x}]
    <3>1. keep(j, items) = k
      BY <1>3, <2>1, <2>2 DEF keep
    <3>2. /\ k \in Work /\ k.found = TRUE /\ k.best = x /\ k.seen = j.seen \cup {x} /\ Same(k, j)
      BY <1>1, <2>1 DEF Work, Same
    <3>3. Newest(x, j.seen \cup {x})
      BY <1>1, <2>1, <2>2 DEF Newest, Newer, GoodJob, Work
    <3> HIDE DEF k
    <3>4. QED
      BY <3>1, <3>2, <3>3 DEF GoodJob, Same
  <2>3. ASSUME ~Newer(j, x) PROVE GoodJob(keep(j, items)) /\ Same(keep(j, items), j)
    <3> DEFINE k == [j EXCEPT !.seen = j.seen \cup {x}]
    <3>1. keep(j, items) = k
      BY <1>3, <2>1, <2>3 DEF keep
    <3>2. /\ k \in Work /\ k.found = j.found /\ k.best = j.best /\ k.seen = j.seen \cup {x} /\ Same(k, j)
      BY <1>1, <2>1 DEF Work, Same
    <3>3. j.found /\ Newest(j.best, j.seen \cup {x})
      BY <1>1, <2>1, <2>3 DEF Newest, Newer, GoodJob, Work
    <3> HIDE DEF k
    <3>4. QED
      BY <3>1, <3>2, <3>3 DEF GoodJob, Same
  <2>4. QED
    BY <2>2, <2>3
<1>4. QED
  BY <1>2, <1>3 DEF FoundItems

\* One family of a job is done.
LEMMA OneDone ==
    ASSUME NEW k, GoodJob(k), NEW f \in Families, k.part[f] \in {"lookup", "writing"}
    PROVE  LET n == [k EXCEPT !.part[f] = "done", !.remaining = @ - 1] IN
           /\ GoodJob(n) /\ n.kind = k.kind /\ n.id = k.id /\ n.of = k.of
           /\ n.best = k.best /\ n.found = k.found /\ n.seen = k.seen
<1> DEFINE n == [k EXCEPT !.part[f] = "done", !.remaining = @ - 1]
           part == [k.part EXCEPT ![f] = "done"]
<1>1. k \in Work
  BY DEF GoodJob
<1>2. part \in [Families -> Stages] /\ \A g \in Families : part[g] = IF g = f THEN "done" ELSE k.part[g]
  BY <1>1 DEF Work, Stages
<1>3. /\ n \in Work /\ n.part = part /\ n.remaining = k.remaining - 1
      /\ n.kind = k.kind /\ n.id = k.id /\ n.of = k.of /\ n.best = k.best /\ n.found = k.found
      /\ n.seen = k.seen
  <2>1. n = [k EXCEPT !.part = part, !.remaining = k.remaining - 1]
    BY <1>1 DEF Work
  <2> DEFINE rest == k.remaining - 1
  <2>2. rest \in Int
    BY <1>1 DEF Work
  <2> HIDE DEF part, rest
  <2>3. [k EXCEPT !.part = part, !.remaining = rest] \in Work
    BY <1>1, <1>2, <2>2 DEF Work
  <2>4. QED
    BY <1>1, <2>1, <2>3 DEF Work, rest
<1>4. Active(part) = Active(k.part) \ {f} /\ f \in Active(k.part)
  BY <1>2 DEF Active
<1>5. IsFiniteSet(Active(k.part)) /\ Cardinality(Active(k.part)) \in Nat
  BY TwoFamilies
<1>6. Cardinality(Active(part)) = Cardinality(Active(k.part)) - 1
  BY <1>4, <1>5, FS_RemoveElement
<1> HIDE DEF n, part
<1>7. GoodJob(n)
  BY <1>2, <1>3, <1>6 DEF GoodJob
<1>8. QED
  BY <1>3, <1>7 DEF n

\* finishOne(): the last family emits the result, the others only leave.
LEMMA FinishEffect ==
    ASSUME Exchange, NEW j \in jobs, NEW k, GoodJob(k), Same(k, j), NEW f \in Families,
           k.part[f] \in {"lookup", "writing"}, finishOne(j, k, f), SameButDue
    PROVE  (\E s : Ends(j, s)) \/ (\E n : GoesOn(j, n))
<1> DEFINE n == [k EXCEPT !.part[f] = "done", !.remaining = @ - 1]
           kind == KindShown(j.kind)
           p == Plain(kind, j.id)
           s == [p EXCEPT !.at = n.best, !.total = IF n.found THEN 1 ELSE 0, !.rows = n.seen]
<1>1. /\ GoodJob(n) /\ n.kind = j.kind /\ n.id = j.id /\ n.of = j.of
  BY OneDone DEF Same
<1>2. j.kind \in {"peers", "item", "put", "announce"} /\ j.id \in Nat /\ engine \in Engine
  BY DEF GoodJob, Same, Exchange, Work
<1>3. kind \in {"peers", "item", "publish"} /\ (kind = "item" <=> j.kind = "item")
      /\ (j.kind = "peers" => kind = "peers") /\ (j.kind \in {"put", "announce"} => kind = "publish")
  BY <1>2 DEF KindShown
<1>4. /\ commands' = commands
      /\ IF n.remaining = 0 THEN jobs' = jobs \ {j} /\ signals' = Append(signals, s)
         ELSE jobs' = (jobs \ {j}) \cup {n} /\ signals' = signals
  BY DEF finishOne, emit, Replace
<1> HIDE DEF kind, n
<1>5. p \in Signal /\ p.gen = engine.gen /\ p.kind = kind /\ p.id = j.id
  BY <1>2, <1>3 DEF Plain, Signal, Engine
<1>6. /\ n.best \in Int /\ n.found = (n.seen # {}) /\ n.seen \in SUBSET (Hashes \cup {-1, 0, 1})
      /\ n.found => Newest(n.best, n.seen)
      /\ n.seen \subseteq {-1, 0, 1}
  BY <1>1 DEF GoodJob, Work
<1> HIDE DEF p
<1>7. /\ s \in Signal /\ s.gen = engine.gen /\ s.kind = kind /\ s.id = j.id
      /\ s.at = n.best /\ s.total = (IF n.found THEN 1 ELSE 0) /\ s.rows = n.seen
  BY <1>5, <1>6 DEF Signal
<1> HIDE DEF s
<1>8. GoodSignal(s)
  BY <1>3, <1>6, <1>7 DEF GoodSignal
<1>9. CASE n.remaining = 0
  <2>1. <<j.kind, s.kind>> \in {<<"peers", "peers">>, <<"item", "item">>, <<"put", "publish">>,
                               <<"announce", "publish">>, <<"probe", "probe">>,
                               <<"probeAnnounce", "probe">>, <<"dns", "notice">>}
    BY <1>2, <1>3, <1>7
  <2>2. Ends(j, s)
    BY <1>4, <1>7, <1>8, <1>9, <2>1 DEF Ends
  <2>3. QED
    BY <2>2
<1>10. CASE n.remaining # 0
  <2>1. GoesOn(j, n)
    BY <1>1, <1>4, <1>10 DEF GoesOn
  <2>2. QED
    BY <2>1
<1>11. QED
  BY <1>9, <1>10

\* A family begins to write to n nodes.
Writes(j, f, n) ==
    /\ Replace(j, [j EXCEPT !.part[f] = "writing", !.pending[f] = n])
    /\ UNCHANGED <<commands, signals>>

\* Every callback of a job.
LEMMA JobEffect ==
    ASSUME Exchange, NEW j \in jobs, NEW f \in Families,
           lookupEnds(j, f) \/ writeAnswered(j, f) \/ probeAnswered(j, f) \/ resolved(j, f)
    PROVE  \/ \E s : Ends(j, s) \/ EndsTwice(j, s)
           \/ \E k : GoesOn(j, k)
           \/ \E k, s : Reports(j, k, s)
           \/ EndsQuietly(j)
<1>1. GoodJob(j) /\ j \in Work /\ engine \in Engine /\ j.id \in Nat
  BY DEF Exchange, GoodJob, Work
<1>2. CASE lookupEnds(j, f)
  <2>1. j.part[f] = "lookup" /\ SameButDue
    BY <1>2 DEF lookupEnds, SameButDue
  <2>2. CASE finishOne(j, j, f)
    BY <1>1, <2>1, <2>2, FinishEffect DEF Same
  <2>3. ASSUME NEW items \in FoundItems(j), finishOne(j, keep(j, items), f)
        PROVE  (\E s : Ends(j, s)) \/ (\E n : GoesOn(j, n))
    <3>1. GoodJob(keep(j, items)) /\ Same(keep(j, items), j) /\ keep(j, items).part[f] = "lookup"
      BY <1>1, <2>1, KeepNewest DEF Same
    <3>2. QED
      BY <2>1, <2>3, <3>1, FinishEffect
  <2>4. ASSUME NEW n \in 1..MaxWrites, j.kind \in {"put", "announce"}, Writes(j, f, n)
        PROVE  \E k : GoesOn(j, k)
    <3> DEFINE part == [j.part EXCEPT ![f] = "writing"]
               pending == [j.pending EXCEPT ![f] = n]
               k == [j EXCEPT !.part[f] = "writing", !.pending[f] = n]
    <3>1. /\ part \in [Families -> Stages] /\ pending \in [Families -> Int]
          /\ \A g \in Families : part[g] = IF g = f THEN "writing" ELSE j.part[g]
      BY <1>1 DEF Work, Stages
    <3>2. k = [j EXCEPT !.part = part, !.pending = pending]
      BY <1>1 DEF Work
    <3>3. Active(part) = Active(j.part)
      BY <2>1, <3>1 DEF Active
    <3> HIDE DEF part, pending
    <3>4. /\ k \in Work /\ k.part = part /\ k.kind = j.kind /\ k.id = j.id /\ k.of = j.of
          /\ k.remaining = j.remaining /\ k.found = j.found /\ k.best = j.best /\ k.seen = j.seen
      BY <1>1, <3>1, <3>2 DEF Work
    <3>5. jobs' = (jobs \ {j}) \cup {k} /\ commands' = commands /\ signals' = signals
      BY <2>4 DEF Replace, Writes
    <3> HIDE DEF k
    <3>6. GoodJob(k)
      BY <1>1, <2>4, <3>1, <3>3, <3>4 DEF GoodJob
    <3>7. GoesOn(j, k)
      BY <2>1, <3>4, <3>5, <3>6 DEF GoesOn
    <3>8. QED
      BY <3>7
  <2>5. \/ finishOne(j, j, f)
        \/ \E items \in FoundItems(j) : finishOne(j, keep(j, items), f)
        \/ /\ j.kind \in {"put", "announce"}
           /\ \E n \in 0..MaxWrites : n # 0 /\ Writes(j, f, n)
    BY <1>2, Zenon DEF lookupEnds, Writes
  <2>6. \A n \in 0..MaxWrites : n # 0 => n \in 1..MaxWrites
    OBVIOUS
  <2>7. QED
    BY <2>2, <2>3, <2>4, <2>5, <2>6, Zenon
<1>3. CASE writeAnswered(j, f)
  <2> DEFINE pending == [j.pending EXCEPT ![f] = @ - 1]
             k == [j EXCEPT !.pending[f] = @ - 1]
  <2>1. pending \in [Families -> Int]
    BY <1>1 DEF Work
  <2>2. k = [j EXCEPT !.pending = pending]
    BY <1>1 DEF Work
  <2>3. /\ j.part[f] = "writing" /\ engine' = engine
        /\ IF k.pending[f] = 0 THEN finishOne(j, k, f)
           ELSE jobs' = (jobs \ {j}) \cup {k} /\ UNCHANGED <<commands, signals>>
    BY <1>3 DEF writeAnswered, Replace
  <2> HIDE DEF pending
  <2>4. /\ k \in Work /\ k.part = j.part /\ k.kind = j.kind /\ k.id = j.id /\ k.of = j.of
        /\ k.remaining = j.remaining /\ k.found = j.found /\ k.best = j.best /\ k.seen = j.seen
    BY <1>1, <2>1, <2>2 DEF Work
  <2> HIDE DEF k
  <2>5. GoodJob(k) /\ Same(k, j)
    BY <1>1, <2>4 DEF GoodJob, Same
  <2>6. SameButDue
    BY <2>3 DEF SameButDue
  <2>7. CASE finishOne(j, k, f)
    BY <2>3, <2>4, <2>5, <2>6, <2>7, FinishEffect
  <2>8. CASE jobs' = (jobs \ {j}) \cup {k} /\ UNCHANGED <<commands, signals>>
    <3>1. GoesOn(j, k)
      BY <2>4, <2>5, <2>6, <2>8 DEF GoesOn
    <3>2. QED
      BY <3>1
  <2>9. QED
    BY <2>3, <2>7, <2>8
<1>4. CASE probeAnswered(j, f)
  <2> DEFINE s == Plain("probe", j.id)
  <2>1. /\ j.part[f] \in {"query", "second"} /\ engine' = engine /\ commands' = commands
        /\ j.kind \in {"probe", "probeAnnounce"} /\ SameButDue
    BY <1>1, <1>4 DEF probeAnswered, GoodJob, SameButDue
  <2>2. GoodSignal(s) /\ s.kind = "probe" /\ s.gen = engine.gen /\ s.id = j.id
    BY <1>1, PlainSignal
  <2>3. CASE jobs' = jobs \ {j} /\ emit(s)
    <3>1. signals' = Append(signals, s)
      BY <2>3 DEF emit
    <3> HIDE DEF s
    <3>2. Ends(j, s)
      BY <2>1, <2>2, <2>3, <3>1 DEF Ends
    <3>3. QED
      BY <3>2
  <2>4. CASE /\ j.kind = "probeAnnounce" /\ j.part[f] = "query"
             /\ Replace(j, [j EXCEPT !.part[f] = "second"]) /\ emit(s)
    <3> DEFINE part == [j.part EXCEPT ![f] = "second"]
               k == [j EXCEPT !.part[f] = "second"]
    <3>1. /\ part \in [Families -> Stages]
          /\ \A g \in Families : part[g] = IF g = f THEN "second" ELSE j.part[g]
      BY <1>1 DEF Work, Stages
    <3>2. k = [j EXCEPT !.part = part]
      BY <1>1 DEF Work
    <3>3. Active(part) = Active(j.part)
      BY <2>4, <3>1 DEF Active
    <3>4. jobs' = (jobs \ {j}) \cup {k} /\ signals' = Append(signals, s)
      BY <2>4 DEF Replace, emit
    <3> HIDE DEF part, s
    <3>5. /\ k \in Work /\ k.part = part /\ k.kind = j.kind
          /\ k.remaining = j.remaining /\ k.found = j.found /\ k.best = j.best /\ k.seen = j.seen
      BY <1>1, <3>1, <3>2 DEF Work
    <3> HIDE DEF k
    <3>6. GoodJob(k)
      BY <1>1, <2>4, <3>1, <3>3, <3>5 DEF GoodJob
    <3>7. Reports(j, k, s)
      BY <2>1, <2>2, <2>4, <3>4, <3>5, <3>6 DEF Reports
    <3>8. QED
      BY <3>7
  <2>5. CASE /\ j.kind = "probeAnnounce" /\ jobs' = jobs \ {j} /\ signals' = signals \o <<s, s>>
    <3>1. signals \in Seq(Signal) /\ s \in Signal
      BY <2>2 DEF Exchange, GoodSignals, GoodSignal
    <3> HIDE DEF s
    <3>2. signals \o <<s, s>> = Append(Append(signals, s), s)
      BY <3>1
    <3>3. EndsTwice(j, s)
      BY <2>1, <2>2, <2>5, <3>2 DEF EndsTwice
    <3>4. QED
      BY <3>3
  <2>6. QED
    BY <1>4, <2>3, <2>4, <2>5 DEF probeAnswered
<1>5. CASE resolved(j, f)
  <2> DEFINE s == Plain("notice", 0)
  <2>1. /\ j.kind = "dns" /\ jobs' = jobs \ {j} /\ engine' = engine /\ commands' = commands
        /\ signals' \in {signals, Append(signals, s)} /\ SameButDue
    BY <1>1, <1>5 DEF resolved, GoodJob, emit, SameButDue
  <2>2. GoodSignal(s) /\ s.kind = "notice" /\ s.gen = engine.gen
    BY <1>1, PlainSignal
  <2> HIDE DEF s
  <2>3. Ends(j, s) \/ EndsQuietly(j)
    BY <2>1, <2>2 DEF Ends, EndsQuietly
  <2>4. QED
    BY <2>3
<1>6. QED
  BY <1>2, <1>3, <1>4, <1>5

\* Every step of the engine is one of these.
Moves ==
    \/ \E k : Begins(k)
    \/ \E s : Replies(s)
    \/ \E s, N : AddsNode(s, N)
    \/ change \/ shutdown \/ publishSnapshot \/ rekey
    \/ \E j, s : Ends(j, s) \/ EndsTwice(j, s)
    \/ \E j, k : GoesOn(j, k)
    \/ \E j, k, s : Reports(j, k, s)
    \/ \E j : EndsQuietly(j)

\* The engine's steps, sorted.
LEMMA EngineMoves ==
    ASSUME Exchange, EngineNext PROVE Moves
<1>1. CASE searchPeers \/ searchItem \/ announcePeer
  <2>1. \E k : Begins(k)
    BY <1>1, BeginEffect DEF searchPeers, searchItem, announcePeer
  <2>2. QED
    BY <2>1, Zenon DEF Moves
<1>2. CASE publishItem
  <2>1. (\E k : Begins(k)) \/ (\E s : Replies(s))
    BY <1>2, BeginEffect, AnswerEffect DEF publishItem
  <2>2. QED
    BY <2>1, Zenon DEF Moves
<1>3. CASE probe \/ probeAnnounce
  <2>1. (\E k : Begins(k)) \/ (\E s : Replies(s))
    BY <1>3, BeginEffect, AnswerEffect DEF probe, probeAnnounce
  <2>2. QED
    BY <2>1, Zenon DEF Moves
<1>4. CASE exportNodes \/ queryNodes \/ requestStorageSnapshot
  <2>1. \E s : Replies(s)
    BY <1>4, AnswerEffect, PageEffect, StorageEffect DEF exportNodes
  <2>2. QED
    BY <2>1, Zenon DEF Moves
<1>5. CASE addNode
  BY <1>5, AddNodeEffect, Zenon DEF Moves
<1>6. CASE JobStep
  <2>1. PICK j \in jobs, f \in Families :
           lookupEnds(j, f) \/ writeAnswered(j, f) \/ probeAnswered(j, f) \/ resolved(j, f)
    BY <1>6 DEF JobStep
  <2>2. QED
    BY <2>1, JobEffect, Zenon DEF Moves
<1>7. CASE change \/ shutdown \/ publishSnapshot \/ rekey
  BY <1>7, Zenon DEF Moves
<1>8. QED
  BY <1>1, <1>2, <1>3, <1>4, <1>5, <1>6, <1>7, Zenon DEF EngineNext, Command

\* D is C, or C without its head.
Advances(C, D) == D = C \/ (C # <<>> /\ D = Tail(C))

\* T is S with signals of an engine g added.
Follows(S, T, g) ==
    /\ GoodSignals(T) /\ Len(S) \in Nat /\ Len(T) \in Nat /\ Len(S) <= Len(T)
    /\ \A i \in 1..Len(S) : T[i] = S[i]
    /\ \A i \in 1..Len(T) : i \notin 1..Len(S) => T[i].gen = g /\ T[i].kind # "written"

\* One signal more.
LEMMA SignalAdded ==
    ASSUME NEW S, GoodSignals(S), NEW s, GoodSignal(s)
    PROVE  /\ GoodSignals(Append(S, s)) /\ Longer(S, Append(S, s), s)
           /\ s.kind # "written" => Follows(S, Append(S, s), s.gen)
<1>1. S \in Seq(Signal) /\ s \in Signal
  BY DEF GoodSignals, GoodSignal
<1>2. Append(S, s) \in Seq(Signal) /\ Longer(S, Append(S, s), s)
  BY <1>1, AppendTo
<1>3. \A i \in 1..Len(Append(S, s)) : i \in 1..Len(S) \/ i = Len(S) + 1
  BY <1>2 DEF Longer
<1>4. GoodSignals(Append(S, s))
  BY <1>2, <1>3 DEF GoodSignals, Longer
<1>5. QED
  BY <1>2, <1>3, <1>4 DEF Longer, Follows

\* None, and two.
LEMMA SignalsFollow ==
    ASSUME NEW S, GoodSignals(S), NEW g
    PROVE  /\ Follows(S, S, g)
           /\ \A s : GoodSignal(s) /\ s.kind # "written" /\ s.gen = g =>
                Follows(S, Append(S, s), g) /\ Follows(S, Append(Append(S, s), s), g)
<1>1. Follows(S, S, g)
  <2>1. S \in Seq(Signal) /\ Len(S) \in Nat
    BY DEF GoodSignals
  <2>2. QED
    BY <2>1 DEF Follows
<1>2. ASSUME NEW s, GoodSignal(s), s.kind # "written", s.gen = g
      PROVE  Follows(S, Append(S, s), g) /\ Follows(S, Append(Append(S, s), s), g)
  <2> DEFINE T == Append(S, s)
             U == Append(T, s)
  <2>1. GoodSignals(T) /\ Follows(S, T, g)
    BY <1>2, SignalAdded
  <2>2. GoodSignals(U) /\ Follows(T, U, g)
    BY <1>2, <2>1, SignalAdded
  <2> HIDE DEF T, U
  <2>3. Follows(S, U, g)
    BY <2>1, <2>2 DEF Follows
  <2>4. QED
    BY <2>1, <2>3 DEF T, U
<1>3. QED
  BY <1>1, <1>2

\* scheduleSnapshot() and the calls that end with it.
LEMMA DueEngine ==
    ASSUME engine \in Engine
    PROVE  /\ scheduleSnapshot \in Engine /\ scheduleSnapshot.gen = engine.gen
           /\ scheduleSnapshot.up = engine.up /\ scheduleSnapshot.due = TRUE
           /\ scheduleSnapshot.id = engine.id /\ scheduleSnapshot.settings = engine.settings
           /\ scheduleSnapshot.monitoring = engine.monitoring
  BY DEF Engine, scheduleSnapshot

\* A setting, or the switch of the crawler.
LEMMA ChangedEngine ==
    ASSUME NEW e \in Engine, NEW c \in Posted, c.kind \in {"set", "monitoring", "census"}
    PROVE  /\ Applied(e, c) \in Engine /\ Applied(e, c).gen = e.gen /\ Applied(e, c).up = e.up
           /\ Applied(e, c).due = e.due /\ Applied(e, c).id = e.id
           /\ \A n \in Settings : Applied(e, c).settings[n] =
                IF c.kind = "set" /\ c.name = n THEN c.at ELSE e.settings[n]
           /\ Applied(e, c).monitoring = IF c.kind = "monitoring" THEN c.at = 1 ELSE e.monitoring
<1>1. c.at \in Nat
  BY DEF Posted
<1>2. CASE c.kind = "set"
  <2> DEFINE set == [e.settings EXCEPT ![c.name] = c.at]
  <2>1. Applied(e, c) = [e EXCEPT !.settings = set]
    BY <1>2 DEF Applied, Engine
  <2>2. /\ set \in [Settings -> Nat]
        /\ \A n \in Settings : set[n] = IF c.name = n THEN c.at ELSE e.settings[n]
    BY <1>1 DEF Engine
  <2> HIDE DEF set
  <2>3. QED
    BY <1>2, <2>1, <2>2 DEF Engine
<1>3. CASE c.kind = "monitoring"
  <2> DEFINE on == (c.at = 1)
  <2>1. Applied(e, c) = [e EXCEPT !.monitoring = on]
    BY <1>3 DEF Applied
  <2>2. on \in BOOLEAN
    OBVIOUS
  <2> HIDE DEF on
  <2>3. [e EXCEPT !.monitoring = on] \in Engine
    BY <2>2 DEF Engine
  <2>4. /\ [e EXCEPT !.monitoring = on].gen = e.gen /\ [e EXCEPT !.monitoring = on].up = e.up
        /\ [e EXCEPT !.monitoring = on].due = e.due /\ [e EXCEPT !.monitoring = on].id = e.id
        /\ [e EXCEPT !.monitoring = on].settings = e.settings
        /\ [e EXCEPT !.monitoring = on].monitoring = on
    BY DEF Engine
  <2>5. QED
    BY <1>3, <2>1, <2>3, <2>4 DEF on
<1>4. CASE c.kind = "census"
  BY <1>4 DEF Applied
<1>5. QED
  BY <1>2, <1>3, <1>4

\* What a step of the engine leaves as it was: the kinds of things in the queues, its
\* generation, and its families until it shuts down.
LEMMA MoveTypes ==
    ASSUME Exchange, Moves
    PROVE  /\ Exchange' /\ Advances(commands, commands')
           /\ Follows(signals, signals', engine.gen)
           /\ engine'.gen = engine.gen /\ (engine'.up = engine.up \/ shutdown)
<1> DEFINE Fine == /\ Exchange' /\ Advances(commands, commands')
                   /\ Follows(signals, signals', engine.gen)
                   /\ engine'.gen = engine.gen /\ (engine'.up = engine.up \/ shutdown)
<1>1. /\ engine \in Engine /\ commands \in Seq(Posted) /\ GoodSignals(signals)
      /\ \A j \in jobs : GoodJob(j)
  BY DEF Exchange
<1>2. commands # <<>> => Tail(commands) \in Seq(Posted) /\ Head(commands) \in Posted
  BY <1>1, TailOf
<1>3. \A s : GoodSignal(s) /\ s.kind # "written" /\ s.gen = engine.gen =>
           /\ Follows(signals, Append(signals, s), engine.gen)
           /\ Follows(signals, Append(Append(signals, s), s), engine.gen)
  BY <1>1, SignalsFollow
<1>4. Follows(signals, signals, engine.gen)
  BY <1>1, SignalsFollow
<1>5. SameButDue => engine' \in Engine /\ engine'.gen = engine.gen /\ engine'.up = engine.up
  BY <1>1, DueEngine DEF SameButDue
<1>6. ASSUME engine' \in Engine, commands' \in Seq(Posted), \A j \in jobs' : GoodJob(j),
             Follows(signals, signals', engine.gen)
      PROVE  Exchange'
  BY <1>6 DEF Follows, Exchange
<1>7. ASSUME NEW k, Begins(k) PROVE Fine
  BY <1>1, <1>2, <1>4, <1>6, <1>7 DEF Begins, Advances
<1>8. ASSUME NEW s, Replies(s) PROVE Fine
  <2>1. s.kind # "written"
    BY <1>8 DEF Replies
  <2>2. QED
    BY <1>1, <1>2, <1>3, <1>6, <1>8, <2>1 DEF Replies, Advances
<1>9. ASSUME NEW s, NEW N, AddsNode(s, N) PROVE Fine
  <2>1. s.kind # "written" /\ \A j \in jobs' : GoodJob(j)
    BY <1>1, <1>9 DEF AddsNode
  <2>2. QED
    BY <1>1, <1>2, <1>3, <1>6, <1>9, <2>1 DEF AddsNode, Advances
<1>10. CASE change
  <2>1. /\ commands # <<>> /\ commands' = Tail(commands) /\ jobs' = jobs /\ signals' = signals
        /\ engine' = Applied(scheduleSnapshot, Head(commands))
        /\ Head(commands).kind \in {"set", "monitoring", "census"}
    BY <1>10 DEF change
  <2>2. engine' \in Engine /\ engine'.gen = engine.gen /\ engine'.up = engine.up
    BY <1>1, <1>2, <2>1, DueEngine, ChangedEngine
  <2>3. QED
    BY <1>1, <1>2, <1>4, <1>6, <2>1, <2>2 DEF Advances
<1>11. CASE shutdown
  <2>1. /\ commands # <<>> /\ commands' = Tail(commands) /\ jobs' = {} /\ signals' = signals
        /\ engine' = [engine EXCEPT !.up = {}, !.due = FALSE, !.monitoring = FALSE]
    BY <1>11 DEF shutdown, Arrives
  <2>2. engine' \in Engine /\ engine'.gen = engine.gen
    BY <1>1, <2>1 DEF Engine
  <2>3. QED
    BY <1>1, <1>2, <1>4, <1>6, <1>11, <2>1, <2>2 DEF Advances
<1>12. CASE publishSnapshot
  <2> DEFINE s == snapshot(engine.gen, engine.id)
  <2>1. GoodSignal(s) /\ s.kind = "snapshot" /\ s.gen = engine.gen
    <3>1. engine.gen \in Nat /\ engine.id \in NodeIds \cup {0}
      BY <1>1 DEF Engine
    <3>2. QED
      BY <3>1, SnapshotSignal
  <2>2. /\ commands' = commands /\ jobs' = jobs /\ signals' = Append(signals, s)
        /\ engine' = [engine EXCEPT !.due = FALSE]
    BY <1>12 DEF publishSnapshot, emit
  <2>3. engine' \in Engine /\ engine'.gen = engine.gen /\ engine'.up = engine.up
    BY <1>1, <2>2 DEF Engine
  <2> HIDE DEF s
  <2>4. QED
    BY <1>1, <1>3, <1>6, <2>1, <2>2, <2>3 DEF Advances
<1>13. CASE rekey
  <2>1. /\ commands' = commands /\ jobs' = jobs /\ signals' = signals
        /\ engine' = [scheduleSnapshot EXCEPT !.id = SecureId]
    BY <1>13 DEF rekey
  <2>2. engine' \in Engine /\ engine'.gen = engine.gen /\ engine'.up = engine.up
    BY <1>1, <2>1, DueEngine DEF Engine
  <2>3. QED
    BY <1>1, <1>4, <1>6, <2>1, <2>2 DEF Advances
<1>14. ASSUME NEW j, NEW s, Ends(j, s) PROVE Fine
  <2>1. s.kind # "written"
    BY <1>14 DEF Ends
  <2>2. QED
    BY <1>1, <1>3, <1>5, <1>6, <1>14, <2>1 DEF Ends, Advances
<1>15. ASSUME NEW j, NEW s, EndsTwice(j, s) PROVE Fine
  BY <1>1, <1>3, <1>6, <1>15 DEF EndsTwice, Advances
<1>16. ASSUME NEW j, NEW k, GoesOn(j, k) PROVE Fine
  BY <1>1, <1>4, <1>5, <1>6, <1>16 DEF GoesOn, Advances
<1>17. ASSUME NEW j, NEW k, NEW s, Reports(j, k, s) PROVE Fine
  BY <1>1, <1>3, <1>6, <1>17 DEF Reports, Advances
<1>18. ASSUME NEW j, EndsQuietly(j) PROVE Fine
  BY <1>1, <1>4, <1>6, <1>18 DEF EndsQuietly, Advances
<1>19. QED
  BY <1>7, <1>8, <1>9, <1>10, <1>11, <1>12, <1>13, <1>14, <1>15, <1>16, <1>17, <1>18, Zenon DEF Moves

\* An engine that has nothing to do does nothing.
LEMMA IdleEngine ==
    ASSUME Moves, commands = <<>>, jobs = {}, engine.up = {}, ~engine.due PROVE FALSE
  BY DEF Moves, Begins, Replies, AddsNode, change, shutdown, Arrives, publishSnapshot, rekey,
     Ends, EndsTwice, GoesOn, Reports, EndsQuietly

-----------------------------------------------------------------------------
(* The engine loses no request and makes none up                           *)

\* What is under way in the queues and jobs before is so after.
Kept(t, C, J, S, D, K, T, g, id, of, any) ==
    /\ None(t, C, J, S, g) => None(t, D, K, T, g)
    /\ One(t, C, J, S, g, id, of, any) => One(t, D, K, T, g, id, of, any)

\* The call at the head becomes a job.
LEMMA BeginKeeps ==
    ASSUME Exchange, NEW k, Begins(k), NEW t \in Topics, NEW id, NEW of, NEW any, t # "page" => any
    PROVE  Kept(t, commands, jobs, signals, commands', jobs', signals', engine.gen, id, of, any)
<1> DEFINE C == CallsOf(t)
           J == JobsOf(t)
           R == ResultsOf(t, engine.gen)
           c == commands[1]
<1>1. Shorter(commands, commands') /\ c = Head(commands) /\ c \in Posted /\ k \in Work
  BY TailOf DEF Begins, Exchange, GoodJob
<1>2. c \in C <=> k \in J
  BY <1>1 DEF Begins, CallsOf, JobsOf, Topics
<1>3. k \in J /\ Is(c, id, of, any) => Is(k, id, of, any)
  BY <1>1 DEF Begins, Is, JobsOf
<1>4. jobs' = jobs \cup {k} /\ signals' = signals
  BY DEF Begins
<1> HIDE DEF C, J, R, c
<1>5. /\ NoneIn(commands, C) => c \notin C /\ NoneIn(commands', C)
      /\ OneIn(commands, C, id, of, any) /\ c \in C => Is(c, id, of, any) /\ NoneIn(commands', C)
      /\ OneIn(commands, C, id, of, any) /\ c \notin C => OneIn(commands', C, id, of, any)
  BY <1>1, HeadTaken, Zenon DEF c
<1>6. /\ k \notin J => /\ NoJob(jobs, J) => NoJob(jobs', J)
                       /\ OneJob(jobs, J, id, of, any) => OneJob(jobs', J, id, of, any)
      /\ k \in J /\ NoJob(jobs, J) /\ Is(k, id, of, any) => OneJob(jobs', J, id, of, any)
  BY <1>4, JobBegun
<1>7. QED
  BY <1>2, <1>3, <1>4, <1>5, <1>6 DEF Kept, None, One, C, J, R

\* The call at the head is answered.
LEMMA ReplyKeeps ==
    ASSUME Exchange, NEW s, Replies(s), NEW t \in Topics, NEW id, NEW of, NEW any, t # "page" => any
    PROVE  Kept(t, commands, jobs, signals, commands', jobs', signals', engine.gen, id, of, any)
<1> DEFINE C == CallsOf(t)
           J == JobsOf(t)
           R == ResultsOf(t, engine.gen)
           c == commands[1]
<1>1. Shorter(commands, commands') /\ c = Head(commands) /\ c \in Posted
  BY TailOf DEF Replies, Exchange
<1>2. s \in Signal /\ Longer(signals, signals', s) /\ jobs' = jobs
  BY SignalAdded DEF Replies, Exchange, GoodSignal
<1>3. <<c.kind, s.kind>> \in {<<"publishItem", "publish">>, <<"probe", "probe">>,
                              <<"probeAnnounce", "probe">>, <<"queryNodes", "page">>,
                              <<"exportNodes", "export">>, <<"requestStorageSnapshot", "storage">>}
      /\ s.gen = engine.gen
  BY <1>1 DEF Replies
<1>4. c \in C <=> s \in R
  BY <1>1, <1>2, <1>3 DEF CallsOf, ResultsOf, Topics
<1>5. s \in R => s.kind # "storage" /\ (s.kind = "page" \/ t # "page")
  BY <1>3 DEF ResultsOf, Topics
<1>6. s \in R /\ Is(c, id, of, any) => Is(s, id, of, any)
  BY <1>1, <1>5 DEF Replies, Is
<1> HIDE DEF C, J, R, c
<1>7. /\ NoneIn(commands, C) => c \notin C /\ NoneIn(commands', C)
      /\ OneIn(commands, C, id, of, any) /\ c \in C => Is(c, id, of, any) /\ NoneIn(commands', C)
      /\ OneIn(commands, C, id, of, any) /\ c \notin C => OneIn(commands', C, id, of, any)
  BY <1>1, HeadTaken, Zenon DEF c
<1>8. /\ s \notin R => /\ NoneIn(signals, R) => NoneIn(signals', R)
                       /\ OneIn(signals, R, id, of, any) => OneIn(signals', R, id, of, any)
      /\ s \in R /\ NoneIn(signals, R) /\ Is(s, id, of, any) => OneIn(signals', R, id, of, any)
  BY <1>2, EndPosted, Zenon
<1>9. QED
  BY <1>2, <1>4, <1>6, <1>7, <1>8 DEF Kept, None, One, C, J, R

\* A call that is no request is carried out.
LEMMA OtherCallKeeps ==
    ASSUME Exchange, (\E s, N : AddsNode(s, N)) \/ change,
           NEW t \in Topics, NEW id, NEW of, NEW any
    PROVE  Kept(t, commands, jobs, signals, commands', jobs', signals', engine.gen, id, of, any)
<1> DEFINE C == CallsOf(t)
           J == JobsOf(t)
           R == ResultsOf(t, engine.gen)
           c == commands[1]
<1>1. /\ commands # <<>> /\ commands' = Tail(commands)
      /\ Head(commands).kind \in {"addNode", "set", "monitoring", "census"}
  BY DEF AddsNode, change
<1>2. Shorter(commands, commands') /\ c = Head(commands) /\ c \in Posted
  BY <1>1, TailOf DEF Exchange
<1>3. c \notin C
  BY <1>1, <1>2 DEF CallsOf
<1>4. \A k : k.kind = "dns" => k \notin J
  BY DEF JobsOf
<1>5. \A s : s.kind = "notice" => s \notin R
  BY DEF ResultsOf
<1> HIDE DEF C, J, R, c
<1>6. /\ NoneIn(commands, C) => NoneIn(commands', C)
      /\ OneIn(commands, C, id, of, any) => OneIn(commands', C, id, of, any)
  BY <1>2, <1>3, HeadTaken, Zenon DEF c
<1>7. /\ NoJob(jobs, J) => NoJob(jobs', J)
      /\ OneJob(jobs, J, id, of, any) => OneJob(jobs', J, id, of, any)
  <2>1. jobs' \cap J = jobs \cap J /\ jobs \subseteq jobs'
    BY <1>4 DEF AddsNode, change
  <2>2. QED
    BY <2>1 DEF NoJob, OneJob
<1>8. /\ NoneIn(signals, R) => NoneIn(signals', R)
      /\ OneIn(signals, R, id, of, any) => OneIn(signals', R, id, of, any)
  <2>1. CASE signals' = signals
    BY <2>1
  <2>2. ASSUME NEW s, GoodSignal(s), s.kind = "notice", signals' = Append(signals, s)
        PROVE  /\ NoneIn(signals, R) => NoneIn(signals', R)
               /\ OneIn(signals, R, id, of, any) => OneIn(signals', R, id, of, any)
    <3>1. Longer(signals, signals', s)
      BY <2>2, SignalAdded DEF Exchange
    <3>2. QED
      BY <1>5, <2>2, <3>1, EndPosted
  <2>3. QED
    BY <2>1, <2>2 DEF AddsNode, change
<1>9. QED
  BY <1>6, <1>7, <1>8 DEF Kept, None, One, C, J, R

\* A job ends with its result.
LEMMA EndKeeps ==
    ASSUME Exchange, NEW j, NEW s, Ends(j, s), NEW t \in Topics, NEW id, NEW of, NEW any,
           t # "page" => any
    PROVE  Kept(t, commands, jobs, signals, commands', jobs', signals', engine.gen, id, of, any)
<1> DEFINE C == CallsOf(t)
           J == JobsOf(t)
           R == ResultsOf(t, engine.gen)
<1>1. /\ j \in jobs /\ j \in Work /\ jobs' = jobs \ {j} /\ commands' = commands
  BY DEF Ends, Exchange, GoodJob
<1>2. s \in Signal /\ Longer(signals, signals', s)
  BY SignalAdded DEF Ends, Exchange, GoodSignal
<1>3. <<j.kind, s.kind>> \in {<<"peers", "peers">>, <<"item", "item">>, <<"put", "publish">>,
                              <<"announce", "publish">>, <<"probe", "probe">>,
                              <<"probeAnnounce", "probe">>, <<"dns", "notice">>}
      /\ s.gen = engine.gen
  BY DEF Ends
<1>4. j \in J <=> s \in R
  BY <1>1, <1>2, <1>3 DEF JobsOf, ResultsOf, Topics
<1>5. s \in R => s.kind # "notice" /\ t # "page"
  BY <1>3 DEF ResultsOf, Topics
<1>6. s \in R /\ Is(j, id, of, any) => Is(s, id, of, any)
  BY <1>5 DEF Ends, Is
<1> HIDE DEF C, J, R
<1>7. /\ NoJob(jobs, J) => j \notin J /\ NoJob(jobs', J)
      /\ OneJob(jobs, J, id, of, any) /\ j \notin J => OneJob(jobs', J, id, of, any)
      /\ OneJob(jobs, J, id, of, any) /\ j \in J => Is(j, id, of, any) /\ NoJob(jobs', J)
  BY <1>1, JobDone
<1>8. /\ s \notin R => /\ NoneIn(signals, R) => NoneIn(signals', R)
                       /\ OneIn(signals, R, id, of, any) => OneIn(signals', R, id, of, any)
      /\ s \in R /\ NoneIn(signals, R) /\ Is(s, id, of, any) => OneIn(signals', R, id, of, any)
  BY <1>2, EndPosted, Zenon
<1>9. QED
  BY <1>1, <1>4, <1>6, <1>7, <1>8 DEF Kept, None, One, C, J, R

\* A job goes on, or is none that a page waits for.
LEMMA GoesOnKeeps ==
    ASSUME Exchange, NEW j, NEW k, GoesOn(j, k), NEW t \in Topics, NEW id, NEW of, NEW any
    PROVE  Kept(t, commands, jobs, signals, commands', jobs', signals', engine.gen, id, of, any)
<1> DEFINE J == JobsOf(t)
<1>1. /\ j \in jobs /\ j \in Work /\ k \in Work /\ commands' = commands /\ signals' = signals
      /\ jobs' = (jobs \ {j}) \cup {k} /\ k.kind = j.kind /\ k.id = j.id /\ k.of = j.of
  BY DEF GoesOn, Exchange, GoodJob
<1>2. k \in J <=> j \in J
  BY <1>1 DEF JobsOf
<1> HIDE DEF J
<1>3. /\ NoJob(jobs, J) => NoJob(jobs', J)
      /\ OneJob(jobs, J, id, of, any) => OneJob(jobs', J, id, of, any)
  BY <1>1, <1>2, JobGoesOn
<1>4. QED
  BY <1>1, <1>3 DEF Kept, None, One, J

\* Probes, names resolved, snapshots and the ID are nothing a page waits for.
LEMMA OtherMovesKeep ==
    ASSUME Exchange,
           \/ \E j, s : EndsTwice(j, s)
           \/ \E j, k, s : Reports(j, k, s)
           \/ \E j : EndsQuietly(j)
           \/ publishSnapshot \/ rekey,
           NEW t \in Topics, NEW id, NEW of, NEW any
    PROVE  Kept(t, commands, jobs, signals, commands', jobs', signals', engine.gen, id, of, any)
<1> DEFINE J == JobsOf(t)
           R == ResultsOf(t, engine.gen)
<1>1. commands' = commands
  BY DEF EndsTwice, Reports, EndsQuietly, publishSnapshot, rekey
<1>2. \A j : j.kind \in {"probeAnnounce", "dns"} => j \notin J
  BY DEF JobsOf
<1>3. \A s : s.kind \in {"probe", "snapshot"} => s \notin R
  BY DEF ResultsOf
<1> HIDE DEF J, R
<1>4. /\ NoJob(jobs, J) => NoJob(jobs', J)
      /\ OneJob(jobs, J, id, of, any) => OneJob(jobs', J, id, of, any)
  <2>1. jobs' \cap J = jobs \cap J
    BY <1>2 DEF EndsTwice, Reports, EndsQuietly, publishSnapshot, rekey
  <2>2. QED
    BY <2>1 DEF NoJob, OneJob
<1>5. GoodSignals(signals)
  BY DEF Exchange
<1>6. ASSUME NEW S, NEW s, GoodSignals(S), GoodSignal(s), s.kind \in {"probe", "snapshot"}
      PROVE  /\ GoodSignals(Append(S, s))
             /\ NoneIn(S, R) => NoneIn(Append(S, s), R)
             /\ OneIn(S, R, id, of, any) => OneIn(Append(S, s), R, id, of, any)
  <2>1. GoodSignals(Append(S, s)) /\ Longer(S, Append(S, s), s)
    BY <1>6, SignalAdded
  <2>2. s \notin R
    BY <1>3, <1>6
  <2>3. QED
    BY <2>1, <2>2, EndPosted, Zenon
<1>7. /\ NoneIn(signals, R) => NoneIn(signals', R)
      /\ OneIn(signals, R, id, of, any) => OneIn(signals', R, id, of, any)
  <2>1. ASSUME NEW j, NEW s, EndsTwice(j, s)
        PROVE  /\ NoneIn(signals, R) => NoneIn(signals', R)
               /\ OneIn(signals, R, id, of, any) => OneIn(signals', R, id, of, any)
    <3>1. /\ signals' = Append(Append(signals, s), s) /\ GoodSignal(s)
          /\ s.kind \in {"probe", "snapshot"}
      BY <2>1 DEF EndsTwice
    <3>2. /\ GoodSignals(Append(signals, s))
          /\ NoneIn(signals, R) => NoneIn(Append(signals, s), R)
          /\ OneIn(signals, R, id, of, any) => OneIn(Append(signals, s), R, id, of, any)
      BY <1>5, <1>6, <3>1
    <3>3. /\ NoneIn(Append(signals, s), R) => NoneIn(signals', R)
          /\ OneIn(Append(signals, s), R, id, of, any) => OneIn(signals', R, id, of, any)
      BY <1>6, <3>1, <3>2
    <3>4. QED
      BY <3>2, <3>3, Zenon
  <2>2. ASSUME NEW j, NEW k, NEW s, Reports(j, k, s)
        PROVE  /\ NoneIn(signals, R) => NoneIn(signals', R)
               /\ OneIn(signals, R, id, of, any) => OneIn(signals', R, id, of, any)
    <3>1. signals' = Append(signals, s) /\ GoodSignal(s) /\ s.kind \in {"probe", "snapshot"}
      BY <2>2 DEF Reports
    <3>2. QED
      BY <1>5, <1>6, <3>1
  <2>3. CASE publishSnapshot
    <3> DEFINE s == snapshot(engine.gen, engine.id)
    <3>1. engine.gen \in Nat /\ engine.id \in NodeIds \cup {0}
      BY DEF Exchange, Engine
    <3>2. GoodSignal(s) /\ s.kind = "snapshot"
      BY <3>1, SnapshotSignal
    <3>3. signals' = Append(signals, s)
      BY <2>3 DEF publishSnapshot, emit
    <3> HIDE DEF s
    <3>4. QED
      BY <1>5, <1>6, <3>2, <3>3
  <2>4. CASE signals' = signals
    BY <2>4
  <2>5. QED
    BY <2>1, <2>2, <2>3, <2>4 DEF EndsQuietly, rekey
<1>8. QED
  BY <1>1, <1>4, <1>7 DEF Kept, None, One, J, R

\* Whatever the engine does but shut down.
LEMMA MoveKeeps ==
    ASSUME Exchange, Moves, ~shutdown, NEW t \in Topics, NEW id, NEW of, NEW any, t # "page" => any
    PROVE  Kept(t, commands, jobs, signals, commands', jobs', signals', engine.gen, id, of, any)
  BY BeginKeeps, ReplyKeeps, OtherCallKeeps, EndKeeps, GoesOnKeeps, OtherMovesKeep, Zenon DEF Moves

\* A probe that is under way stays so.
LEMMA MoveProbes ==
    ASSUME Exchange, Moves, ~shutdown, ProbeComes(commands, jobs, signals, engine.gen)
    PROVE  ProbeComes(commands', jobs', signals', engine.gen)
<1> DEFINE Kind == {"probe", "probeAnnounce"}
           Goal == ProbeComes(commands', jobs', signals', engine.gen)
<1>1. /\ Advances(commands, commands') /\ Follows(signals, signals', engine.gen)
      /\ commands \in Seq(Posted) /\ GoodSignals(signals) /\ \A j \in jobs : GoodJob(j)
  BY MoveTypes DEF Exchange
<1>2. ASSUME NEW s, GoodSignal(s), s.kind = "probe", s.gen = engine.gen,
             signals' = Append(signals, s) \/ signals' = Append(Append(signals, s), s)
      PROVE  Goal
  <2>1. GoodSignals(Append(signals, s)) /\ Longer(signals, Append(signals, s), s)
    BY <1>1, <1>2, SignalAdded
  <2>2. Longer(Append(signals, s), Append(Append(signals, s), s), s)
    BY <1>2, <2>1, SignalAdded
  <2>3. \E i \in 1..Len(signals') : signals'[i] = s
    BY <1>2, <2>1, <2>2 DEF Longer
  <2>4. QED
    BY <1>2, <2>3 DEF ProbeComes
<1>3. ASSUME NEW i \in 1..Len(signals), signals[i].kind = "probe", signals[i].gen = engine.gen
      PROVE  Goal
  <2>1. i \in 1..Len(signals') /\ signals'[i] = signals[i]
    BY <1>1, <1>3 DEF Follows
  <2>2. QED
    BY <1>3, <2>1 DEF ProbeComes
<1>4. ASSUME NEW i \in 1..Len(commands), commands[i].kind \in Kind PROVE Goal
  <2>1. CASE commands' = commands
    BY <1>4, <2>1 DEF ProbeComes
  <2>2. CASE commands # <<>> /\ commands' = Tail(commands) /\ i # 1
    <3>1. Shorter(commands, commands')
      BY <1>1, <2>2, TailOf
    <3>2. i - 1 \in 1..Len(commands') /\ commands'[i - 1] = commands[i]
      BY <2>2, <3>1 DEF Shorter
    <3>3. QED
      BY <1>4, <3>2 DEF ProbeComes
  <2>3. CASE commands # <<>> /\ commands' = Tail(commands) /\ commands' # commands /\ i = 1
    <3>1. Head(commands).kind \in Kind
      BY <1>1, <1>4, <2>3, TailOf
    <3>2. ASSUME NEW k, Begins(k) PROVE Goal
      <4>1. k \in jobs' /\ k.kind \in Kind
        BY <3>1, <3>2 DEF Begins
      <4>2. QED
        BY <4>1 DEF ProbeComes
    <3>3. ASSUME NEW s, Replies(s) PROVE Goal
      <4>1. GoodSignal(s) /\ s.kind = "probe" /\ s.gen = engine.gen /\ signals' = Append(signals, s)
        BY <3>1, <3>3 DEF Replies
      <4>2. QED
        BY <1>2, <4>1
    <3>4. QED
      BY <2>3, <3>1, <3>2, <3>3 DEF Moves, AddsNode, change, publishSnapshot, rekey, Ends, EndsTwice,
         GoesOn, Reports, EndsQuietly
  <2>4. QED
    BY <1>1, <2>1, <2>2, <2>3 DEF Advances
<1>5. ASSUME NEW q \in jobs, q.kind \in Kind PROVE Goal
  <2>1. CASE q \in jobs'
    BY <1>5, <2>1 DEF ProbeComes
  <2>2. CASE q \notin jobs'
    <3>1. ASSUME NEW j, NEW s, Ends(j, s) PROVE Goal
      <4>1. j = q /\ GoodSignal(s) /\ s.kind = "probe" /\ s.gen = engine.gen /\ signals' = Append(signals, s)
        BY <1>5, <2>2, <3>1 DEF Ends
      <4>2. QED
        BY <1>2, <4>1
    <3>2. ASSUME NEW j, NEW s, EndsTwice(j, s) PROVE Goal
      <4>1. GoodSignal(s) /\ s.kind = "probe" /\ s.gen = engine.gen
            /\ signals' = Append(Append(signals, s), s)
        BY <3>2 DEF EndsTwice
      <4>2. QED
        BY <1>2, <4>1
    <3>3. ASSUME NEW j, NEW k, GoesOn(j, k) PROVE Goal
      <4>1. k \in jobs' /\ k.kind \in Kind
        BY <1>5, <2>2, <3>3 DEF GoesOn
      <4>2. QED
        BY <4>1 DEF ProbeComes
    <3>4. ASSUME NEW j, NEW k, NEW s, Reports(j, k, s) PROVE Goal
      <4>1. k \in jobs' /\ k.kind \in Kind
        BY <3>4 DEF Reports
      <4>2. QED
        BY <4>1 DEF ProbeComes
    <3>5. QED
      BY <1>5, <2>2, <3>1, <3>2, <3>3, <3>4 DEF Moves, Begins, Replies, AddsNode, change,
         publishSnapshot, rekey, EndsQuietly
  <2>3. QED
    BY <2>1, <2>2
<1>6. QED
  BY <1>3, <1>4, <1>5 DEF ProbeComes

\* So does an export.
LEMMA MoveExports ==
    ASSUME Exchange, Moves, ~shutdown, NEW id, ExportComes(commands, signals, engine.gen, id)
    PROVE  ExportComes(commands', signals', engine.gen, id)
<1> DEFINE Goal == ExportComes(commands', signals', engine.gen, id)
<1>1. /\ Advances(commands, commands') /\ Follows(signals, signals', engine.gen)
      /\ commands \in Seq(Posted) /\ GoodSignals(signals)
  BY MoveTypes DEF Exchange
<1>2. ASSUME NEW i \in 1..Len(signals),
             \/ signals[i].kind = "export" /\ signals[i].gen = engine.gen /\ signals[i].id = id
             \/ signals[i].kind = "written" /\ signals[i].id = id
      PROVE  Goal
  <2>1. i \in 1..Len(signals') /\ signals'[i] = signals[i]
    BY <1>1, <1>2 DEF Follows
  <2>2. QED
    BY <1>2, <2>1 DEF ExportComes
<1>3. ASSUME NEW i \in 1..Len(commands), commands[i].kind = "exportNodes", commands[i].id = id
      PROVE  Goal
  <2>1. CASE commands' = commands
    BY <1>3, <2>1 DEF ExportComes
  <2>2. CASE commands # <<>> /\ commands' = Tail(commands) /\ i # 1
    <3>1. Shorter(commands, commands')
      BY <1>1, <2>2, TailOf
    <3>2. i - 1 \in 1..Len(commands') /\ commands'[i - 1] = commands[i]
      BY <2>2, <3>1 DEF Shorter
    <3>3. QED
      BY <1>3, <3>2 DEF ExportComes
  <2>3. CASE commands # <<>> /\ commands' = Tail(commands) /\ commands' # commands /\ i = 1
    <3>1. Head(commands).kind = "exportNodes" /\ Head(commands).id = id
      BY <1>1, <1>3, <2>3, TailOf
    <3>2. ASSUME NEW s, Replies(s) PROVE Goal
      <4>1. GoodSignal(s) /\ s.kind = "export" /\ s.gen = engine.gen /\ s.id = id
            /\ signals' = Append(signals, s)
        BY <3>1, <3>2 DEF Replies
      <4>2. Longer(signals, signals', s)
        BY <1>1, <4>1, SignalAdded
      <4>3. \E n \in 1..Len(signals') : signals'[n] = s
        BY <4>2 DEF Longer
      <4>4. QED
        BY <4>1, <4>3 DEF ExportComes
    <3>3. QED
      BY <2>3, <3>1, <3>2 DEF Moves, Begins, AddsNode, change, publishSnapshot, rekey, Ends, EndsTwice,
         GoesOn, Reports, EndsQuietly
  <2>4. QED
    BY <1>1, <2>1, <2>2, <2>3 DEF Advances
<1>4. QED
  BY <1>2, <1>3 DEF ExportComes

-----------------------------------------------------------------------------
(* The settings and the ID                                                 *)

\* A value v, with changes to f[i] queued at the places X, will be w.
Settles(X, f, v, w) == (X = {} => v = w) /\ \A i \in Latest(X) : f[i] = w

\* The first change is made, or nothing that concerns the value.
LEMMA SettleTail ==
    ASSUME NEW n, NEW X, NEW Y, Shifted(n, X, Y), NEW f, NEW h, NEW v, NEW w, NEW u,
           \A i \in 1..(n - 1) : h[i] = f[i + 1], Settles(X, f, v, w),
           u = IF 1 \in X THEN f[1] ELSE v
    PROVE  Settles(Y, h, u, w)
<1> USE DEF Shifted
<1>1. ASSUME NEW i \in X PROVE i \in Int /\ (i = 1 \/ (i - 1 \in Y /\ i - 1 >= 1))
  <2>1. i \in 1..n /\ (i = 1 \/ i - 1 \in 1..(n - 1)) /\ (i - 1) + 1 = i
    OBVIOUS
  <2>2. QED
    BY <2>1
<1>2. \A i \in Y : i \in Int /\ i + 1 \in X /\ i \in 1..(n - 1)
  OBVIOUS
<1>3. Y = {} => u = w
  <2>1. CASE 1 \in X /\ Y = {}
    <3>1. 1 \in Latest(X)
      BY <1>1, <2>1 DEF Latest
    <3>2. QED
      BY <2>1, <3>1 DEF Settles
  <2>2. CASE 1 \notin X /\ Y = {}
    <3>1. X = {}
      BY <1>1, <2>2
    <3>2. QED
      BY <2>2, <3>1 DEF Settles
  <2>3. QED
    BY <2>1, <2>2
<1>4. ASSUME NEW i \in Latest(Y) PROVE h[i] = w
  <2>1. i \in Y /\ \A j \in Y : j <= i
    BY <1>4 DEF Latest
  <2>2. i + 1 \in Latest(X)
    BY <1>1, <1>2, <2>1 DEF Latest
  <2>3. QED
    BY <1>2, <2>1, <2>2 DEF Settles
<1>5. QED
  BY <1>3, <1>4 DEF Settles

\* Something is posted: another change, or not.
LEMMA SettleGrow ==
    ASSUME NEW n, NEW X, NEW Y, Grown(n, X, Y), NEW f, NEW h, NEW v, NEW w, NEW z,
           \A i \in 1..n : h[i] = f[i], n + 1 \in Y \/ Settles(X, f, v, w),
           IF n + 1 \in Y THEN h[n + 1] = z ELSE z = w
    PROVE  Settles(Y, h, v, z)
<1>1. CASE n + 1 \in Y
  <2>1. \A i \in Y : i \in Int /\ i <= n + 1
    BY DEF Grown
  <2>2. \A i \in Latest(Y) : i = n + 1
    BY <1>1, <2>1 DEF Latest, Grown
  <2>3. QED
    BY <1>1, <2>2 DEF Settles
<1>2. CASE n + 1 \notin Y
  <2>1. Y = X /\ \A i \in X : i \in 1..n
    BY <1>2, GrowSet DEF Grown
  <2>2. QED
    BY <1>2, <2>1 DEF Settles, Latest
<1>3. QED
  BY <1>1, <1>2

\* The changes of a setting, and of the switch of the crawler, in a queue of calls, and the
\* snapshots in a queue of signals.
SetsOf(C, n) == {i \in 1..Len(C) : C[i].kind = "set" /\ C[i].name = n}
SwitchesOf(C) == {i \in 1..Len(C) : C[i].kind = "monitoring"}
ToldIn(S, g) == {i \in 1..Len(S) : S[i].kind = "snapshot" /\ S[i].gen = g}
Values(C) == [i \in 1..Len(C) |-> C[i].at]
Switched(C) == [i \in 1..Len(C) |-> C[i].at = 1]

\* SettingsAgree and IdFollows for given queues.
Agrees(C, e, set, on) ==
    /\ \A n \in Settings : Settles(SetsOf(C, n), Values(C), e.settings[n], set[n])
    /\ Settles(SwitchesOf(C), Switched(C), e.monitoring, on)
Tells(S, g, e, id) == e.due \/ Settles(ToldIn(S, g), Values(S), id, e.id)

\* The properties in these terms.
LEMMA AgreeForm ==
    Exchange =>
        /\ SettingsAgree <=> (InUse => Agrees(commands, engine, settings, monitoring))
        /\ IdFollows <=> (InUse => Tells(signals, generation, engine, nodeId))
<1> SUFFICES ASSUME Exchange
             PROVE  /\ SettingsAgree <=> (InUse => Agrees(commands, engine, settings, monitoring))
                    /\ IdFollows <=> (InUse => Tells(signals, generation, engine, nodeId))
  OBVIOUS
<1>1. DOMAIN commands = 1..Len(commands) /\ DOMAIN signals = 1..Len(signals)
  BY DEF Exchange, GoodSignals
<1>2. \A n : SetsOf(commands, n) = {i \in DOMAIN commands : commands[i].kind = "set" /\ commands[i].name = n}
  BY <1>1 DEF SetsOf
<1>3. SwitchesOf(commands) = {i \in DOMAIN commands : commands[i].kind = "monitoring"}
  BY <1>1 DEF SwitchesOf
<1>4. ToldIn(signals, generation) = {i \in Snapshots : signals[i].gen = generation}
  BY <1>1 DEF ToldIn, Snapshots
<1>5. ASSUME NEW X, X \subseteq 1..Len(commands), NEW i \in Latest(X)
      PROVE  Values(commands)[i] = commands[i].at /\ Switched(commands)[i] = (commands[i].at = 1)
  BY <1>5 DEF Latest, Values, Switched
<1>6. ASSUME NEW i \in Latest(ToldIn(signals, generation)) PROVE Values(signals)[i] = signals[i].at
  BY <1>6 DEF Latest, Values, ToldIn
<1>7. ASSUME NEW n \in Settings
      PROVE  Settles(SetsOf(commands, n), Values(commands), engine.settings[n], settings[n]) <=>
             /\ SetsOf(commands, n) = {} => engine.settings[n] = settings[n]
             /\ \A i \in Latest(SetsOf(commands, n)) : commands[i].at = settings[n]
  <2>1. SetsOf(commands, n) \subseteq 1..Len(commands)
    BY DEF SetsOf
  <2>2. QED
    BY <1>5, <2>1 DEF Settles
<1>8. Settles(SwitchesOf(commands), Switched(commands), engine.monitoring, monitoring) <=>
             /\ SwitchesOf(commands) = {} => engine.monitoring = monitoring
             /\ \A i \in Latest(SwitchesOf(commands)) : (commands[i].at = 1) = monitoring
  <2>1. SwitchesOf(commands) \subseteq 1..Len(commands)
    BY DEF SwitchesOf
  <2>2. QED
    BY <1>5, <2>1 DEF Settles
<1>9. SettingsAgree <=> (InUse => Agrees(commands, engine, settings, monitoring))
  BY <1>2, <1>3, <1>7, <1>8 DEF SettingsAgree, Agrees
<1>10. IdFollows <=> (InUse => Tells(signals, generation, engine, nodeId))
  BY <1>4, <1>6 DEF IdFollows, Tells, Settles
<1>11. QED
  BY <1>9, <1>10

\* The head of the queue of calls is carried out.
LEMMA AgreesAfter ==
    ASSUME NEW C \in Seq(Posted), C # <<>>, NEW e, NEW d, NEW set, NEW on, Agrees(C, e, set, on),
           \A n \in Settings : d.settings[n] =
               IF C[1].kind = "set" /\ C[1].name = n THEN C[1].at ELSE e.settings[n],
           d.monitoring = IF C[1].kind = "monitoring" THEN C[1].at = 1 ELSE e.monitoring
    PROVE  Agrees(Tail(C), d, set, on)
<1> DEFINE D == Tail(C)
           n == Len(C)
<1>1. n \in Nat \ {0} /\ Len(D) = n - 1 /\ \A i \in 1..(n - 1) : D[i] = C[i + 1]
  BY TailOf DEF Shorter
<1> HIDE DEF D, n
<1>2. ASSUME NEW i \in 1..(n - 1)
      PROVE  /\ i + 1 \in 1..n /\ Values(D)[i] = Values(C)[i + 1] /\ Switched(D)[i] = Switched(C)[i + 1]
             /\ \A m : i \in SetsOf(D, m) <=> i + 1 \in SetsOf(C, m)
             /\ i \in SwitchesOf(D) <=> i + 1 \in SwitchesOf(C)
  <2>1. i + 1 \in 1..n /\ i \in 1..Len(D) /\ i + 1 \in 1..Len(C) /\ D[i] = C[i + 1]
    BY <1>1 DEF n
  <2>2. QED
    BY <2>1 DEF Values, Switched, SetsOf, SwitchesOf
<1>3. 1 \in 1..Len(C) /\ Values(C)[1] = C[1].at /\ Switched(C)[1] = (C[1].at = 1)
  BY <1>1 DEF Values, Switched, n
<1>4. ASSUME NEW m \in Settings PROVE Settles(SetsOf(D, m), Values(D), d.settings[m], set[m])
  <2>1. Shifted(n, SetsOf(C, m), SetsOf(D, m))
    BY <1>1, <1>2 DEF Shifted, SetsOf, n
  <2>2. Settles(SetsOf(C, m), Values(C), e.settings[m], set[m])
    BY DEF Agrees
  <2>3. d.settings[m] = IF 1 \in SetsOf(C, m) THEN Values(C)[1] ELSE e.settings[m]
    BY <1>3 DEF SetsOf
  <2>4. QED
    BY <1>2, <2>1, <2>2, <2>3, SettleTail
<1>5. Settles(SwitchesOf(D), Switched(D), d.monitoring, on)
  <2>1. Shifted(n, SwitchesOf(C), SwitchesOf(D))
    BY <1>1, <1>2 DEF Shifted, SwitchesOf, n
  <2>2. Settles(SwitchesOf(C), Switched(C), e.monitoring, on)
    BY DEF Agrees
  <2>3. d.monitoring = IF 1 \in SwitchesOf(C) THEN Switched(C)[1] ELSE e.monitoring
    BY <1>3 DEF SwitchesOf
  <2>4. QED
    BY <1>2, <2>1, <2>2, <2>3, SettleTail
<1>6. QED
  BY <1>4, <1>5 DEF Agrees, D

\* A call is posted, with what the page then shows.
LEMMA AgreesPosted ==
    ASSUME NEW C \in Seq(Posted), NEW c \in Posted, NEW e, NEW set, NEW on, NEW set2, NEW on2,
           Agrees(C, e, set, on),
           \A n \in Settings : IF c.kind = "set" /\ c.name = n THEN set2[n] = c.at
                               ELSE set2[n] = set[n],
           IF c.kind = "monitoring" THEN on2 = (c.at = 1) ELSE on2 = on
    PROVE  Agrees(Append(C, c), e, set2, on2)
<1> DEFINE D == Append(C, c)
           n == Len(C)
<1>1. n \in Nat /\ Len(D) = n + 1 /\ D[n + 1] = c /\ \A i \in 1..n : D[i] = C[i]
  BY AppendTo DEF Longer
<1> HIDE DEF D, n
<1>2. ASSUME NEW i \in 1..n
      PROVE  /\ Values(D)[i] = Values(C)[i] /\ Switched(D)[i] = Switched(C)[i]
             /\ \A m : i \in SetsOf(D, m) <=> i \in SetsOf(C, m)
             /\ i \in SwitchesOf(D) <=> i \in SwitchesOf(C)
  <2>1. i \in 1..Len(D) /\ i \in 1..Len(C) /\ D[i] = C[i]
    BY <1>1 DEF n
  <2>2. QED
    BY <2>1 DEF Values, Switched, SetsOf, SwitchesOf
<1>3. n + 1 \in 1..Len(D) /\ Values(D)[n + 1] = c.at /\ Switched(D)[n + 1] = (c.at = 1)
  BY <1>1 DEF Values, Switched
<1>4. ASSUME NEW m \in Settings PROVE Settles(SetsOf(D, m), Values(D), e.settings[m], set2[m])
  <2>1. Grown(n, SetsOf(C, m), SetsOf(D, m))
    BY <1>1, <1>2 DEF Grown, SetsOf, n
  <2>2. Settles(SetsOf(C, m), Values(C), e.settings[m], set[m])
    BY DEF Agrees
  <2>3. IF n + 1 \in SetsOf(D, m) THEN Values(D)[n + 1] = set2[m] ELSE set2[m] = set[m]
    BY <1>1, <1>3 DEF SetsOf
  <2>4. QED
    BY <1>2, <2>1, <2>2, <2>3, SettleGrow
<1>5. Settles(SwitchesOf(D), Switched(D), e.monitoring, on2)
  <2>1. Grown(n, SwitchesOf(C), SwitchesOf(D))
    BY <1>1, <1>2 DEF Grown, SwitchesOf, n
  <2>2. Settles(SwitchesOf(C), Switched(C), e.monitoring, on)
    BY DEF Agrees
  <2>3. IF n + 1 \in SwitchesOf(D) THEN Switched(D)[n + 1] = on2 ELSE on2 = on
    BY <1>1, <1>3 DEF SwitchesOf
  <2>4. QED
    BY <1>2, <2>1, <2>2, <2>3, SettleGrow
<1>6. QED
  BY <1>4, <1>5 DEF Agrees, D

\* The interface takes a signal.
LEMMA TellsAfter ==
    ASSUME NEW S, GoodSignals(S), S # <<>>, NEW g, NEW e, NEW id, NEW id2, Tells(S, g, e, id),
           id2 = IF S[1].kind = "snapshot" /\ S[1].gen = g THEN S[1].at ELSE id
    PROVE  Tells(Tail(S), g, e, id2)
<1> DEFINE T == Tail(S)
           n == Len(S)
<1>1. n \in Nat \ {0} /\ Len(T) = n - 1 /\ \A i \in 1..(n - 1) : T[i] = S[i + 1]
  BY TailOf DEF Shorter, GoodSignals
<1> HIDE DEF T, n
<1>2. ASSUME NEW i \in 1..(n - 1)
      PROVE  /\ i + 1 \in 1..n /\ Values(T)[i] = Values(S)[i + 1]
             /\ i \in ToldIn(T, g) <=> i + 1 \in ToldIn(S, g)
  <2>1. i + 1 \in 1..n /\ i \in 1..Len(T) /\ i + 1 \in 1..Len(S) /\ T[i] = S[i + 1]
    BY <1>1 DEF n
  <2>2. QED
    BY <2>1 DEF Values, ToldIn
<1>3. 1 \in 1..Len(S) /\ Values(S)[1] = S[1].at
  BY <1>1 DEF Values, n
<1>4. Shifted(n, ToldIn(S, g), ToldIn(T, g))
  BY <1>1, <1>2 DEF Shifted, ToldIn, n
<1>5. id2 = IF 1 \in ToldIn(S, g) THEN Values(S)[1] ELSE id
  BY <1>3 DEF ToldIn
<1>6. Settles(ToldIn(S, g), Values(S), id, e.id) => Settles(ToldIn(T, g), Values(T), id2, e.id)
  BY <1>2, <1>4, <1>5, SettleTail
<1>7. QED
  BY <1>6 DEF Tells, T

\* A signal is posted.
LEMMA TellsPosted ==
    ASSUME NEW S, GoodSignals(S), NEW s, GoodSignal(s), NEW g, NEW e, NEW d, NEW id,
           Tells(S, g, e, id),
           \/ s.kind = "snapshot" /\ s.gen = g /\ s.at = d.id
           \/ d.due
           \/ ~(s.kind = "snapshot" /\ s.gen = g) /\ d.id = e.id /\ d.due = e.due
    PROVE  Tells(Append(S, s), g, d, id)
<1> DEFINE T == Append(S, s)
           n == Len(S)
<1>1. n \in Nat /\ Len(T) = n + 1 /\ T[n + 1] = s /\ \A i \in 1..n : T[i] = S[i]
  BY SignalAdded DEF Longer
<1> HIDE DEF T, n
<1>2. ASSUME NEW i \in 1..n
      PROVE  Values(T)[i] = Values(S)[i] /\ (i \in ToldIn(T, g) <=> i \in ToldIn(S, g))
  <2>1. i \in 1..Len(T) /\ i \in 1..Len(S) /\ T[i] = S[i]
    BY <1>1 DEF n
  <2>2. QED
    BY <2>1 DEF Values, ToldIn
<1>3. n + 1 \in 1..Len(T) /\ Values(T)[n + 1] = s.at
  BY <1>1 DEF Values
<1>4. Grown(n, ToldIn(S, g), ToldIn(T, g))
  BY <1>1, <1>2 DEF Grown, ToldIn, n
<1>5. n + 1 \in ToldIn(T, g) <=> s.kind = "snapshot" /\ s.gen = g
  BY <1>1, <1>3 DEF ToldIn
<1>6. CASE s.kind = "snapshot" /\ s.gen = g /\ s.at = d.id
  <2>1. Settles(ToldIn(T, g), Values(T), id, d.id)
    BY <1>2, <1>3, <1>4, <1>5, <1>6, SettleGrow
  <2>2. QED
    BY <2>1 DEF Tells, T
<1>7. CASE ~d.due /\ ~(s.kind = "snapshot" /\ s.gen = g) /\ d.id = e.id /\ d.due = e.due
  <2>1. Settles(ToldIn(S, g), Values(S), id, e.id)
    BY <1>7 DEF Tells
  <2>2. Settles(ToldIn(T, g), Values(T), id, e.id)
    BY <1>2, <1>3, <1>4, <1>5, <1>7, <2>1, SettleGrow
  <2>3. QED
    BY <1>7, <2>2 DEF Tells, T
<1>8. QED
  BY <1>6, <1>7 DEF Tells

\* What the engine does with its settings and the switch.
LEMMA MoveSettings ==
    ASSUME Exchange, Moves, ~shutdown, NEW set, NEW on, Agrees(commands, engine, set, on)
    PROVE  Agrees(commands', engine', set, on)
<1>1. engine \in Engine /\ commands \in Seq(Posted)
  BY DEF Exchange
<1>2. commands # <<>> => Head(commands) = commands[1] /\ commands[1] \in Posted
  BY <1>1, TailOf
<1>3. SameButDue => engine'.settings = engine.settings /\ engine'.monitoring = engine.monitoring
  BY <1>1, DueEngine DEF SameButDue
<1>4. ASSUME commands' = commands, engine'.settings = engine.settings,
             engine'.monitoring = engine.monitoring
      PROVE  Agrees(commands', engine', set, on)
  BY <1>4 DEF Agrees
<1>5. ASSUME commands # <<>>, commands' = Tail(commands), engine' = engine,
             commands[1].kind \notin {"set", "monitoring"}
      PROVE  Agrees(commands', engine', set, on)
  <2>1. /\ \A n \in Settings : engine.settings[n] =
               IF commands[1].kind = "set" /\ commands[1].name = n THEN commands[1].at
               ELSE engine.settings[n]
        /\ engine.monitoring = IF commands[1].kind = "monitoring" THEN commands[1].at = 1
                               ELSE engine.monitoring
    BY <1>5
  <2>2. QED
    BY <1>1, <1>5, <2>1, AgreesAfter
<1>6. ASSUME NEW k, Begins(k) PROVE Agrees(commands', engine', set, on)
  BY <1>2, <1>5, <1>6 DEF Begins
<1>7. ASSUME NEW s, Replies(s) PROVE Agrees(commands', engine', set, on)
  BY <1>2, <1>5, <1>7 DEF Replies
<1>8. ASSUME NEW s, NEW N, AddsNode(s, N) PROVE Agrees(commands', engine', set, on)
  BY <1>2, <1>5, <1>8 DEF AddsNode
<1>9. CASE change
  <2> DEFINE e == scheduleSnapshot
             c == commands[1]
  <2>1. /\ commands # <<>> /\ commands' = Tail(commands) /\ engine' = Applied(e, c)
        /\ c \in Posted /\ c.kind \in {"set", "monitoring", "census"}
    BY <1>2, <1>9 DEF change
  <2>2. e \in Engine /\ e.settings = engine.settings /\ e.monitoring = engine.monitoring
    BY <1>1, DueEngine
  <2> HIDE DEF e, c
  <2>3. /\ \A n \in Settings : engine'.settings[n] =
             IF c.kind = "set" /\ c.name = n THEN c.at ELSE engine.settings[n]
        /\ engine'.monitoring = IF c.kind = "monitoring" THEN c.at = 1 ELSE engine.monitoring
    BY <2>1, <2>2, ChangedEngine
  <2>4. QED
    BY <1>1, <2>1, <2>3, AgreesAfter DEF c
<1>10. CASE publishSnapshot \/ rekey
  <2>1. commands' = commands /\ engine'.settings = engine.settings
        /\ engine'.monitoring = engine.monitoring
    BY <1>1, <1>10, DueEngine DEF publishSnapshot, rekey, Engine
  <2>2. QED
    BY <1>4, <2>1
<1>11. ASSUME NEW j, NEW k, NEW s,
              Ends(j, s) \/ EndsTwice(j, s) \/ GoesOn(j, k) \/ Reports(j, k, s) \/ EndsQuietly(j)
       PROVE  Agrees(commands', engine', set, on)
  BY <1>3, <1>4, <1>11 DEF Ends, EndsTwice, GoesOn, Reports, EndsQuietly
<1>12. QED
  BY <1>6, <1>7, <1>8, <1>9, <1>10, <1>11, Zenon DEF Moves

\* Whenever its ID changes, it says so or will.
LEMMA MoveTells ==
    ASSUME Exchange, Moves, ~shutdown, NEW id, Tells(signals, engine.gen, engine, id)
    PROVE  Tells(signals', engine.gen, engine', id)
<1> DEFINE Goal == Tells(signals', engine.gen, engine', id)
<1>1. engine \in Engine /\ GoodSignals(signals)
  BY DEF Exchange
<1>2. engine' = engine /\ signals' = signals => Goal
  OBVIOUS
<1>3. engine'.due => Goal
  BY DEF Tells
<1>4. SameButDue => engine'.due \/ engine' = engine
  BY <1>1, DueEngine DEF SameButDue
<1>5. ASSUME NEW s, GoodSignal(s), s.kind # "snapshot", engine' = engine,
             signals' = Append(signals, s) \/ signals' = Append(Append(signals, s), s)
      PROVE  Goal
  <2>1. GoodSignals(Append(signals, s)) /\ Tells(Append(signals, s), engine.gen, engine, id)
    BY <1>1, <1>5, TellsPosted, SignalAdded
  <2>2. Tells(Append(Append(signals, s), s), engine.gen, engine, id)
    BY <1>5, <2>1, TellsPosted
  <2>3. QED
    BY <1>5, <2>1, <2>2
<1>6. ASSUME NEW k, Begins(k) PROVE Goal
  BY <1>2, <1>6 DEF Begins
<1>7. ASSUME NEW s, Replies(s) PROVE Goal
  <2>1. s.kind # "snapshot"
    BY <1>7 DEF Replies
  <2>2. QED
    BY <1>5, <1>7, <2>1 DEF Replies
<1>8. ASSUME NEW s, NEW N, AddsNode(s, N) PROVE Goal
  <2>1. s.kind # "snapshot"
    BY <1>8 DEF AddsNode
  <2>2. QED
    BY <1>5, <1>8, <2>1 DEF AddsNode
<1>9. CASE change
  <2>1. commands # <<>> => Head(commands) \in Posted
    BY TailOf DEF Exchange
  <2>2. /\ scheduleSnapshot \in Engine /\ scheduleSnapshot.due = TRUE /\ Head(commands) \in Posted
        /\ Head(commands).kind \in {"set", "monitoring", "census"}
        /\ engine' = Applied(scheduleSnapshot, Head(commands))
    BY <1>1, <1>9, <2>1, DueEngine DEF change
  <2>3. engine'.due = TRUE
    BY <2>2, ChangedEngine
  <2>4. QED
    BY <1>3, <2>3
<1>10. CASE rekey
  <2>1. engine'.due
    BY <1>1, <1>10, DueEngine DEF rekey, Engine
  <2>2. QED
    BY <1>3, <2>1
<1>11. CASE publishSnapshot
  <2> DEFINE s == snapshot(engine.gen, engine.id)
  <2>1. engine.gen \in Nat /\ engine.id \in NodeIds \cup {0} /\ engine'.id = engine.id
    BY <1>1, <1>11 DEF Engine, publishSnapshot
  <2>2. GoodSignal(s) /\ s.kind = "snapshot" /\ s.gen = engine.gen /\ s.at = engine'.id
    BY <2>1, SnapshotSignal DEF snapshot
  <2>3. signals' = Append(signals, s)
    BY <1>11 DEF publishSnapshot, emit
  <2> HIDE DEF s
  <2>4. QED
    BY <1>1, <2>2, <2>3, TellsPosted
<1>12. ASSUME NEW j, NEW s, Ends(j, s) PROVE Goal
  <2>1. s.kind # "snapshot"
    BY <1>12 DEF Ends
  <2>2. QED
    BY <1>3, <1>4, <1>5, <1>12, <2>1 DEF Ends
<1>13. ASSUME NEW j, NEW s, EndsTwice(j, s) PROVE Goal
  BY <1>5, <1>13 DEF EndsTwice
<1>14. ASSUME NEW j, NEW k, GoesOn(j, k) PROVE Goal
  BY <1>2, <1>3, <1>4, <1>14 DEF GoesOn
<1>15. ASSUME NEW j, NEW k, NEW s, Reports(j, k, s) PROVE Goal
  BY <1>5, <1>15 DEF Reports
<1>16. ASSUME NEW j, EndsQuietly(j) PROVE Goal
  BY <1>2, <1>16 DEF EndsQuietly
<1>17. QED
  BY <1>6, <1>7, <1>8, <1>9, <1>10, <1>11, <1>12, <1>13, <1>14, <1>15, <1>16, Zenon DEF Moves

-----------------------------------------------------------------------------
(* The engine's steps keep the invariant                                   *)

\* Nothing of the interface changes.
LEMMA CalmInterface ==
    ASSUME UNCHANGED uiVars
    PROVE  /\ Interface' = Interface /\ NothingStale' = NothingStale /\ Answered' = Answered
           /\ FilterShown' = FilterShown /\ InUse' = InUse
           /\ \A t : Waiting(t)' = Waiting(t) /\ Number(t)' = Number(t) /\ AnyOf(t)' = AnyOf(t)
  BY DEF uiVars, Interface, NothingStale, Answered, FilterShown, InUse, Waiting, Number, AnyOf

\* What it reports is of its generation.
LEMMA MoveGenerations ==
    ASSUME Exchange, Generations, Follows(signals, signals', engine.gen), UNCHANGED uiVars,
           engine.gen <= generation, ~InUse => engine.gen < generation
    PROVE  Generations'
<1>1. generation' = generation /\ InUse' = InUse /\ export' = export
  BY DEF uiVars, InUse
<1>2. ASSUME NEW i \in 1..Len(signals'), signals'[i].kind # "written"
      PROVE  signals'[i].gen <= generation /\ (~InUse => signals'[i].gen < generation)
  <2>1. CASE i \in 1..Len(signals)
    BY <1>2, <2>1 DEF Follows, Generations
  <2>2. CASE i \notin 1..Len(signals)
    BY <1>2, <2>2 DEF Follows
  <2>3. QED
    BY <2>1, <2>2
<1>3. QED
  BY <1>1, <1>2 DEF Generations

\* An engine that is stopping works off what was posted before, up to the shutdown.
LEMMA StoppingStep ==
    ASSUME Exchange, Lives, Moves, stopping, running, UNCHANGED uiVars
    PROVE  Lives'
<1>1. /\ running' = running /\ stopping' = stopping /\ generation' = generation
      /\ list' = list /\ busy' = busy /\ monitoring' = monitoring
  BY DEF uiVars
<1>2. engine.up # {} /\ engine.gen < generation
      /\ \A i \in 1..Len(commands) : commands[i].kind = "shutdown" => i = Len(commands)
  BY IdleEngine DEF Lives
<1>3. /\ engine'.gen = engine.gen /\ Advances(commands, commands')
      /\ commands \in Seq(Posted) /\ (engine'.up = engine.up \/ shutdown)
  BY MoveTypes DEF Exchange
<1>4. commands # <<>> => Shorter(commands, Tail(commands)) /\ Head(commands) = commands[1]
                         /\ Tail(commands) \in Seq(Posted)
  BY <1>3, TailOf
<1>5. CASE shutdown
  <2>1. /\ commands # <<>> /\ Head(commands).kind = "shutdown" /\ commands' = Tail(commands)
        /\ jobs' = {} /\ engine' = [engine EXCEPT !.up = {}, !.due = FALSE, !.monitoring = FALSE]
    BY <1>5 DEF shutdown, Arrives
  <2>2. commands' = <<>>
    <3>1. Len(commands) \in Nat \ {0} /\ Len(Tail(commands)) = Len(commands) - 1
      BY <1>4, <2>1 DEF Shorter
    <3>2. 1 \in 1..Len(commands) /\ commands[1].kind = "shutdown"
      BY <1>4, <2>1, <3>1
    <3>3. Len(commands) = 1
      BY <1>2, <3>2
    <3>4. QED
      BY <1>4, <2>1, <3>1, <3>3
  <2>3. engine'.up = {} /\ ~engine'.due
    BY <2>1 DEF Exchange, Engine
  <2>4. QED
    BY <1>1, <1>2, <1>3, <2>1, <2>2, <2>3 DEF Lives, InUse
<1>6. CASE engine'.up = engine.up
  <2>1. \A i \in 1..Len(commands') : commands'[i].kind = "shutdown" => i = Len(commands')
    <3>1. CASE commands' = commands
      BY <1>2, <3>1
    <3>2. CASE commands # <<>> /\ commands' = Tail(commands)
      BY <1>2, <1>4, <3>2 DEF Shorter
    <3>3. QED
      BY <1>3, <3>1, <3>2 DEF Advances
  <2>2. QED
    BY <1>1, <1>2, <1>3, <1>6, <2>1 DEF Lives, InUse
<1>7. QED
  BY <1>3, <1>5, <1>6

\* An engine in use stays so.
LEMMA RunningStep ==
    ASSUME Exchange, Lives, Moves, InUse, UNCHANGED uiVars
    PROVE  Lives' /\ ~shutdown
<1>1. running' = running /\ stopping' = stopping /\ generation' = generation /\ running /\ ~stopping
  BY DEF uiVars, InUse
<1>2. /\ engine'.gen = engine.gen /\ Advances(commands, commands')
      /\ commands \in Seq(Posted) /\ (engine'.up = engine.up \/ shutdown)
  BY MoveTypes DEF Exchange
<1>3. /\ engine.gen = generation /\ engine.up # {}
      /\ \A i \in 1..Len(commands) : commands[i].kind # "shutdown"
  BY DEF Lives
<1>4. commands # <<>> => Shorter(commands, Tail(commands)) /\ Head(commands) = commands[1]
                         /\ Len(commands) \in Nat \ {0}
  BY <1>2, TailOf
<1>5. ~shutdown
  <2>1. commands # <<>> => 1 \in 1..Len(commands)
    BY <1>4
  <2>2. commands # <<>> => Head(commands).kind # "shutdown"
    BY <1>3, <1>4, <2>1
  <2>3. QED
    BY <2>2 DEF shutdown, Arrives
<1>6. \A i \in 1..Len(commands') : commands'[i].kind # "shutdown"
  <2>1. CASE commands' = commands
    BY <1>3, <2>1
  <2>2. CASE commands # <<>> /\ commands' = Tail(commands)
    BY <1>3, <1>4, <2>2 DEF Shorter
  <2>3. QED
    BY <1>2, <2>1, <2>2 DEF Advances
<1>7. QED
  BY <1>1, <1>2, <1>3, <1>5, <1>6 DEF Lives, InUse

\* The engine's steps, all of the invariant.
LEMMA EngineStepKeeps ==
    ASSUME IInv, EngineStep PROVE IInv'
<1>1. /\ Exchange /\ Interface /\ Lives /\ Generations /\ NothingStale
      /\ Awaited /\ Answered /\ FilterShown /\ ProbeAwaited /\ ExportAwaited
      /\ SettingsAgree /\ IdFollows
  BY DEF IInv
<1>2. Moves /\ UNCHANGED uiVars
  BY <1>1, EngineMoves DEF EngineStep
<1>3. /\ Interface' /\ NothingStale' /\ Answered' /\ FilterShown' /\ InUse' = InUse
      /\ \A t : Waiting(t)' = Waiting(t) /\ Number(t)' = Number(t) /\ AnyOf(t)' = AnyOf(t)
  BY <1>1, <1>2, CalmInterface
<1>4. /\ Exchange' /\ Follows(signals, signals', engine.gen) /\ engine'.gen = engine.gen
  BY <1>1, <1>2, MoveTypes
<1>5. running
  BY <1>1, <1>2, IdleEngine DEF Lives
<1>6. /\ generation' = generation /\ resolving' = resolving /\ busy' = busy /\ export' = export
      /\ list' = list /\ settings' = settings /\ monitoring' = monitoring /\ nodeId' = nodeId
  BY <1>2 DEF uiVars
<1>7. CASE stopping
  <2>1. Lives'
    BY <1>1, <1>2, <1>5, <1>7, StoppingStep
  <2>2. ~InUse /\ engine.gen < generation /\ engine.gen <= generation
    BY <1>1, <1>7 DEF InUse, Lives, Exchange, Engine, Interface
  <2>3. Generations'
    BY <1>1, <1>2, <1>4, <2>2, MoveGenerations
  <2>4. QED
    BY <1>3, <1>4, <2>1, <2>2, <2>3 DEF IInv, Awaited, ProbeAwaited, ExportAwaited, SettingsAgree, IdFollows
<1>8. CASE ~stopping
  <2>1. InUse
    BY <1>5, <1>8 DEF InUse
  <2>2. Lives' /\ ~shutdown
    BY <1>1, <1>2, <2>1, RunningStep
  <2>3. engine.gen = generation /\ engine.gen \in Nat
    BY <1>1, <2>1 DEF Lives, Exchange, Engine
  <2>4. Generations'
    BY <1>1, <1>2, <1>4, <2>1, <2>3, MoveGenerations
  <2>5. Awaited'
    <3>1. ASSUME NEW t \in Topics
          PROVE  IF Waiting(t)'
                 THEN One(t, commands', jobs', signals', generation', Number(t)', list'.filter, AnyOf(t)')
                 ELSE None(t, commands', jobs', signals', generation')
      <4>1. t # "page" => AnyOf(t)
        BY DEF AnyOf
      <4>2. Kept(t, commands, jobs, signals, commands', jobs', signals', generation,
                 Number(t), list.filter, AnyOf(t))
        BY <1>1, <1>2, <2>2, <2>3, <4>1, MoveKeeps
      <4>3. IF Waiting(t)
            THEN One(t, commands, jobs, signals, generation, Number(t), list.filter, AnyOf(t))
            ELSE None(t, commands, jobs, signals, generation)
        BY <1>1, <2>1 DEF Awaited
      <4>4. QED
        BY <1>3, <1>6, <4>2, <4>3 DEF Kept
    <3>2. QED
      BY <3>1 DEF Awaited
  <2>6. ProbeAwaited'
    BY <1>1, <1>2, <1>6, <2>1, <2>2, <2>3, MoveProbes DEF ProbeAwaited
  <2>7. ExportAwaited'
    BY <1>1, <1>2, <1>6, <2>1, <2>2, <2>3, MoveExports DEF ExportAwaited
  <2>8. SettingsAgree'
    <3>1. Agrees(commands, engine, settings, monitoring)
      BY <1>1, <2>1, AgreeForm
    <3>2. Agrees(commands', engine', settings', monitoring')
      BY <1>1, <1>2, <1>6, <2>2, <3>1, MoveSettings
    <3>3. Agrees(commands, engine, settings, monitoring)'
      BY <3>2
    <3>4. QED
      BY <1>4, <3>3, AgreeForm, PTL
  <2>9. IdFollows'
    <3>1. Tells(signals, generation, engine, nodeId)
      BY <1>1, <2>1, AgreeForm
    <3>2. Tells(signals', generation', engine', nodeId')
      BY <1>1, <1>2, <1>6, <2>2, <2>3, <3>1, MoveTells
    <3>3. Tells(signals, generation, engine, nodeId)'
      BY <3>2
    <3>4. QED
      BY <1>4, <3>3, AgreeForm, PTL
  <2>10. QED
    BY <1>3, <1>4, <2>2, <2>4, <2>5, <2>6, <2>7, <2>8, <2>9 DEF IInv
<1>9. QED
  BY <1>7, <1>8

-----------------------------------------------------------------------------
(* What the interface does while the engine is left alone                  *)

\* A call of one of the kinds K is posted, or none.
Sends(K) ==
    \/ commands' = commands
    \/ running /\ \E c \in Posted : c.kind \in K /\ commands' = Append(commands, c)

\* The interface takes a signal or not and posts a call or not.
Calm(K) ==
    /\ UNCHANGED <<engine, jobs, running, generation, stopping>> /\ ~stopping
    /\ Advances(signals, signals') /\ Sends(K) /\ "shutdown" \notin K

\* The page of t waits for just what is under way.
AwaitedFor(t) ==
    InUse => IF Waiting(t)
             THEN One(t, commands, jobs, signals, generation, Number(t), list.filter, AnyOf(t))
             ELSE None(t, commands, jobs, signals, generation)

\* The pages of an engine that is not there.
Quiet == ~monitoring /\ ~list.inFlight /\ ~list.loaded /\ \A w \in Waits : ~busy[w]

\* The queues stay what they are.
LEMMA CalmExchange ==
    ASSUME Exchange, NEW K, Calm(K)
    PROVE  /\ Exchange' /\ InUse' = InUse
           /\ \A i \in 1..Len(commands') : \/ i \in 1..Len(commands) /\ commands'[i] = commands[i]
                                           \/ running /\ commands'[i].kind \in K
           /\ ~running => commands' = commands
           /\ \A i \in 1..Len(signals') : \E n \in 1..Len(signals) : signals'[i] = signals[n]
<1>1. /\ engine \in Engine /\ commands \in Seq(Posted) /\ GoodSignals(signals) /\ signals \in Seq(Signal)
      /\ \A j \in jobs : GoodJob(j)
  BY DEF Exchange, GoodSignals
<1>2. /\ commands' \in Seq(Posted) /\ (~running => commands' = commands)
      /\ \A i \in 1..Len(commands') : \/ i \in 1..Len(commands) /\ commands'[i] = commands[i]
                                      \/ running /\ commands'[i].kind \in K
  <2>1. CASE commands' = commands
    BY <1>1, <2>1
  <2>2. CASE running /\ \E c \in Posted : c.kind \in K /\ commands' = Append(commands, c)
    <3>1. PICK c \in Posted : c.kind \in K /\ commands' = Append(commands, c)
      BY <2>2
    <3>2. commands' \in Seq(Posted) /\ Longer(commands, commands', c)
      BY <1>1, <3>1, AppendTo
    <3>3. \A i \in 1..Len(commands') : i \in 1..Len(commands) \/ i = Len(commands) + 1
      BY <3>2 DEF Longer
    <3>4. QED
      BY <2>2, <3>1, <3>2, <3>3 DEF Longer
  <2>3. QED
    BY <2>1, <2>2 DEF Calm, Sends
<1>3. /\ signals' \in Seq(Signal)
      /\ \A i \in 1..Len(signals') : \E n \in 1..Len(signals) : signals'[i] = signals[n]
  <2>1. CASE signals' = signals
    BY <1>1, <2>1
  <2>2. CASE signals # <<>> /\ signals' = Tail(signals)
    <3>1. signals' \in Seq(Signal) /\ Shorter(signals, signals')
      BY <1>1, <2>2, TailOf
    <3>2. \A i \in 1..Len(signals') : i + 1 \in 1..Len(signals) /\ signals'[i] = signals[i + 1]
      BY <3>1 DEF Shorter
    <3>3. QED
      BY <3>1, <3>2
  <2>3. QED
    BY <2>1, <2>2 DEF Calm, Advances
<1>4. GoodSignals(signals')
  BY <1>1, <1>3 DEF GoodSignals
<1>5. engine' = engine /\ jobs' = jobs /\ running' = running /\ stopping' = stopping
  BY DEF Calm
<1>6. QED
  BY <1>1, <1>2, <1>3, <1>4, <1>5 DEF Exchange, InUse

\* The engine is in use or not, as before.
LEMMA CalmLives ==
    ASSUME Exchange, Interface, Lives, NEW K, Calm(K), ~running => Quiet'
    PROVE  Lives'
<1>1. /\ engine' = engine /\ jobs' = jobs /\ running' = running /\ stopping' = stopping
      /\ generation' = generation /\ ~stopping /\ "shutdown" \notin K
  BY DEF Calm
<1>2. CASE running
  <2>1. \A i \in 1..Len(commands') : commands'[i].kind # "shutdown"
    BY <1>1, <1>2, CalmExchange DEF Lives, InUse
  <2>2. QED
    BY <1>1, <1>2, <2>1 DEF Lives, InUse
<1>3. CASE ~running
  <2>1. commands' = commands
    BY <1>3, CalmExchange
  <2>2. QED
    BY <1>1, <1>3, <2>1 DEF Lives, InUse, Quiet
<1>4. QED
  BY <1>2, <1>3

\* Nothing of a later generation turns up.
LEMMA CalmGenerations ==
    ASSUME Exchange, Interface, Generations, NEW K, Calm(K),
           export'.gen \in {export.gen, generation},
           ~running => export'.gen = export.gen /\ (export'.busy => export.busy)
    PROVE  Generations'
<1>1. generation' = generation /\ InUse' = InUse /\ generation \in Nat
  BY CalmExchange DEF Calm, Interface
<1>2. \A i \in 1..Len(signals') : \E n \in 1..Len(signals) : signals'[i] = signals[n]
  BY CalmExchange
<1>3. running => InUse
  BY DEF Calm, InUse
<1>4. \A i \in 1..Len(signals') : signals'[i].kind # "written" =>
         signals'[i].gen <= generation /\ (~InUse => signals'[i].gen < generation)
  BY <1>2 DEF Generations
<1>5. export'.gen <= generation /\ (export'.busy /\ ~InUse => export'.gen < generation)
  BY <1>1, <1>3 DEF Generations
<1>6. QED
  BY <1>1, <1>4, <1>5 DEF Generations

\* A call is posted that is none of t, or one of t.
LEMMA TopicPosted ==
    ASSUME NEW t \in Topics, NEW C \in Seq(Posted), NEW J, NEW S, NEW g, NEW c \in Posted,
           NEW id, NEW of, NEW any
    PROVE  /\ c \notin CallsOf(t) => Kept(t, C, J, S, Append(C, c), J, S, g, id, of, any)
           /\ c \in CallsOf(t) /\ None(t, C, J, S, g) /\ Is(c, id, of, any) =>
                One(t, Append(C, c), J, S, g, id, of, any)
<1> DEFINE D == Append(C, c)
           P == CallsOf(t)
<1>1. Longer(C, D, c)
  BY AppendTo
<1> HIDE DEF D, P
<1>2. /\ c \notin P => /\ NoneIn(C, P) => NoneIn(D, P)
                       /\ OneIn(C, P, id, of, any) => OneIn(D, P, id, of, any)
      /\ c \in P /\ NoneIn(C, P) /\ Is(c, id, of, any) => OneIn(D, P, id, of, any)
  BY <1>1, EndPosted, Zenon
<1>3. QED
  BY <1>2 DEF Kept, None, One, D, P

\* A signal is taken that is none of t, or the one of t.
LEMMA TopicTaken ==
    ASSUME NEW t \in Topics, NEW C, NEW J, NEW S, S \in Seq(Signal), S # <<>>, NEW g,
           NEW id, NEW of, NEW any
    PROVE  /\ S[1] \notin ResultsOf(t, g) => Kept(t, C, J, S, C, J, Tail(S), g, id, of, any)
           /\ S[1] \in ResultsOf(t, g) => ~None(t, C, J, S, g)
           /\ S[1] \in ResultsOf(t, g) /\ One(t, C, J, S, g, id, of, any) =>
                Is(S[1], id, of, any) /\ None(t, C, J, Tail(S), g)
<1> DEFINE T == Tail(S)
           P == ResultsOf(t, g)
<1>1. Shorter(S, T)
  BY TailOf
<1> HIDE DEF T, P
<1>2. /\ NoneIn(S, P) => S[1] \notin P /\ NoneIn(T, P)
      /\ OneIn(S, P, id, of, any) /\ S[1] \in P => Is(S[1], id, of, any) /\ NoneIn(T, P)
      /\ OneIn(S, P, id, of, any) /\ S[1] \notin P => OneIn(T, P, id, of, any)
  BY <1>1, HeadTaken, Zenon
<1>3. QED
  BY <1>2 DEF Kept, None, One, T, P

\* Which rows are asked for may change once it does not matter.
LEMMA OneOfAny ==
    ASSUME NEW t, NEW C, NEW J, NEW S, NEW g, NEW id, NEW of, NEW any, NEW of2,
           One(t, C, J, S, g, id, of, any)
    PROVE  One(t, C, J, S, g, id, of2, TRUE)
<1>1. \A Q, P : OneIn(Q, P, id, of, any) => OneIn(Q, P, id, of2, TRUE)
  BY DEF OneIn, Is
<1>2. \A P : OneJob(J, P, id, of, any) => OneJob(J, P, id, of2, TRUE)
  BY DEF OneJob, Is
<1>3. QED
  BY <1>1, <1>2 DEF One

\* The kinds of calls of t.
KindsOf(t) == IF t = "search" THEN {"searchPeers", "searchItem"}
              ELSE IF t = "publish" THEN {"announcePeer", "publishItem"} ELSE {"queryNodes"}

\* A topic that is not concerned.
LEMMA CalmTopic ==
    ASSUME Exchange, NEW K, Calm(K), NEW t \in Topics, AwaitedFor(t), K \cap KindsOf(t) = {},
           signals' = signals \/ signals[1] \notin ResultsOf(t, generation),
           Waiting(t)' = Waiting(t), Number(t)' = Number(t),
           t = "page" => list'.filter = list.filter /\ list'.again = list.again
    PROVE  AwaitedFor(t)'
<1> DEFINE of == list.filter
           any == AnyOf(t)
           id == Number(t)
<1>1. /\ jobs' = jobs /\ generation' = generation /\ InUse' = InUse
      /\ commands \in Seq(Posted) /\ signals \in Seq(Signal)
  BY CalmExchange DEF Calm, Exchange, GoodSignals
<1>2. AnyOf(t)' = any
  BY DEF AnyOf
<1>3. Kept(t, commands, jobs, signals, commands', jobs, signals, generation, id, of, any)
  <2>1. CASE commands' = commands
    BY <2>1 DEF Kept
  <2>2. CASE \E c \in Posted : c.kind \in K /\ commands' = Append(commands, c)
    <3>1. PICK c \in Posted : c.kind \in K /\ commands' = Append(commands, c)
      BY <2>2
    <3>2. c \notin CallsOf(t)
      BY <3>1 DEF CallsOf, KindsOf
    <3>3. QED
      BY <1>1, <3>1, <3>2, TopicPosted
  <2>3. QED
    BY <2>1, <2>2 DEF Calm, Sends
<1>4. Kept(t, commands', jobs, signals, commands', jobs, signals', generation, id, of, any)
  <2>1. CASE signals' = signals
    BY <2>1 DEF Kept
  <2>2. CASE signals # <<>> /\ signals' = Tail(signals) /\ signals[1] \notin ResultsOf(t, generation)
    BY <1>1, <2>2, TopicTaken
  <2>3. QED
    BY <2>1, <2>2 DEF Calm, Advances
<1>5. \A rows : t # "page" => (One(t, commands', jobs, signals', generation, id, of, any)
                               => One(t, commands', jobs, signals', generation, id, rows, any))
  <2>1. t # "page" => any = TRUE
    BY DEF AnyOf
  <2>2. QED
    BY <2>1, OneOfAny
<1>6. Waiting(t)' => \A rows : t # "page" \/ rows = of =>
          (InUse => One(t, commands', jobs, signals', generation, id, rows, any))
  BY <1>3, <1>4, <1>5 DEF Kept, AwaitedFor
<1>7. ~Waiting(t)' => (InUse => None(t, commands', jobs, signals', generation))
  BY <1>3, <1>4 DEF Kept, AwaitedFor
<1>8. QED
  BY <1>1, <1>2, <1>6, <1>7 DEF AwaitedFor

\* What comes of a queue that loses its head, or gains a call.
LEMMA CalmPlaces ==
    ASSUME Exchange, NEW K, Calm(K)
    PROVE  /\ \A i \in 1..Len(commands) : \E n \in 1..Len(commands') : commands'[n] = commands[i]
           /\ \A i \in 1..Len(signals) : \/ i = 1 /\ signals' # signals
                                         \/ \E n \in 1..Len(signals') : signals'[n] = signals[i]
<1>1. commands \in Seq(Posted) /\ signals \in Seq(Signal)
  BY DEF Exchange, GoodSignals
<1>2. ASSUME NEW i \in 1..Len(commands) PROVE \E n \in 1..Len(commands') : commands'[n] = commands[i]
  <2>1. CASE commands' = commands
    BY <2>1
  <2>2. CASE \E c \in Posted : c.kind \in K /\ commands' = Append(commands, c)
    <3>1. PICK c \in Posted : commands' = Append(commands, c)
      BY <2>2
    <3>2. Longer(commands, commands', c)
      BY <1>1, <3>1, AppendTo
    <3>3. i \in 1..Len(commands') /\ commands'[i] = commands[i]
      BY <3>2 DEF Longer
    <3>4. QED
      BY <3>3
  <2>3. QED
    BY <2>1, <2>2 DEF Calm, Sends
<1>3. ASSUME NEW i \in 1..Len(signals), i # 1 \/ signals' = signals
      PROVE  \E n \in 1..Len(signals') : signals'[n] = signals[i]
  <2>1. CASE signals' = signals
    BY <2>1
  <2>2. CASE signals # <<>> /\ signals' = Tail(signals) /\ i # 1
    <3>1. Shorter(signals, signals')
      BY <1>1, <2>2, TailOf
    <3>2. i - 1 \in 1..Len(signals') /\ signals'[i - 1] = signals[i]
      BY <2>2, <3>1 DEF Shorter
    <3>3. QED
      BY <3>2
  <2>3. QED
    BY <1>3, <2>1, <2>2 DEF Calm, Advances
<1>4. QED
  BY <1>2, <1>3

\* A probe that is not the one answered.
LEMMA CalmProbe ==
    ASSUME Exchange, ProbeAwaited, NEW K, Calm(K), resolving' = resolving, busy'["probe"] => busy["probe"],
           signals' = signals \/ ~(signals[1].kind = "probe" /\ signals[1].gen = generation)
    PROVE  ProbeAwaited'
<1>1. jobs' = jobs /\ generation' = generation /\ InUse' = InUse
  BY CalmExchange DEF Calm
<1>2. ProbeComes(commands, jobs, signals, generation) => ProbeComes(commands', jobs, signals', generation)
  <2>1. ASSUME NEW i \in 1..Len(commands), commands[i].kind \in {"probe", "probeAnnounce"}
        PROVE  ProbeComes(commands', jobs, signals', generation)
    <3>1. \E n \in 1..Len(commands') : commands'[n] = commands[i]
      BY CalmPlaces
    <3>2. QED
      BY <2>1, <3>1 DEF ProbeComes
  <2>2. ASSUME NEW i \in 1..Len(signals), signals[i].kind = "probe", signals[i].gen = generation
        PROVE  ProbeComes(commands', jobs, signals', generation)
    <3>1. \E n \in 1..Len(signals') : signals'[n] = signals[i]
      BY <2>2, CalmPlaces
    <3>2. QED
      BY <2>2, <3>1 DEF ProbeComes
  <2>3. QED
    BY <2>1, <2>2 DEF ProbeComes
<1>3. QED
  BY <1>1, <1>2 DEF ProbeAwaited

\* An export that goes on.
LEMMA CalmExport ==
    ASSUME Exchange, ExportAwaited, NEW K, Calm(K), export' = export,
           signals' = signals \/ ~(/\ signals[1].id = export.id
                                   /\ \/ signals[1].kind = "written"
                                      \/ signals[1].kind = "export" /\ signals[1].gen = generation)
    PROVE  ExportAwaited'
<1>1. generation' = generation /\ InUse' = InUse
  BY CalmExchange DEF Calm
<1>2. ASSUME ExportComes(commands, signals, generation, export.id)
      PROVE  ExportComes(commands', signals', generation, export.id)
  <2>1. ASSUME NEW i \in 1..Len(commands), commands[i].kind = "exportNodes", commands[i].id = export.id
        PROVE  ExportComes(commands', signals', generation, export.id)
    <3>1. \E n \in 1..Len(commands') : commands'[n] = commands[i]
      BY CalmPlaces
    <3>2. QED
      BY <2>1, <3>1 DEF ExportComes
  <2>2. ASSUME NEW i \in 1..Len(signals), signals[i].id = export.id,
               (signals[i].kind = "export" /\ signals[i].gen = generation) \/ signals[i].kind = "written"
        PROVE  ExportComes(commands', signals', generation, export.id)
    <3>1. \E n \in 1..Len(signals') : signals'[n] = signals[i]
      BY <2>2, CalmPlaces
    <3>2. QED
      BY <2>2, <3>1 DEF ExportComes
  <2>3. QED
    BY <1>2, <2>1, <2>2 DEF ExportComes
<1>3. QED
  BY <1>1, <1>2 DEF ExportAwaited

\* A call that is not about a setting.
LEMMA CalmSettings ==
    ASSUME Exchange, SettingsAgree, NEW K, Calm(K), K \cap {"set", "monitoring"} = {},
           settings' = settings, monitoring' = monitoring
    PROVE  SettingsAgree'
<1>1. engine' = engine /\ commands \in Seq(Posted) /\ InUse' = InUse /\ Exchange'
  BY CalmExchange DEF Calm, Exchange
<1>2. ASSUME InUse PROVE Agrees(commands', engine', settings', monitoring')
  <2>1. Agrees(commands, engine, settings, monitoring)
    BY <1>2, AgreeForm
  <2>2. CASE commands' = commands
    BY <1>1, <2>1, <2>2
  <2>3. CASE \E c \in Posted : c.kind \in K /\ commands' = Append(commands, c)
    <3>1. PICK c \in Posted : c.kind \in K /\ commands' = Append(commands, c)
      BY <2>3
    <3>2. c.kind # "set" /\ c.kind # "monitoring"
      BY <3>1
    <3>3. QED
      BY <1>1, <2>1, <3>1, <3>2, AgreesPosted
  <2>4. QED
    BY <2>2, <2>3 DEF Calm, Sends
<1>3. (InUse => Agrees(commands, engine, settings, monitoring))'
  BY <1>1, <1>2
<1>4. QED
  BY <1>1, <1>3, AgreeForm, PTL

\* The ID field changes only with what a snapshot says.
LEMMA CalmId ==
    ASSUME Exchange, IdFollows, NEW K, Calm(K),
           InUse => IF signals' # signals /\ signals[1].kind = "snapshot" /\ signals[1].gen = generation
                    THEN nodeId' = signals[1].at ELSE nodeId' = nodeId
    PROVE  IdFollows'
<1>1. /\ engine' = engine /\ generation' = generation /\ GoodSignals(signals) /\ InUse' = InUse /\ Exchange'
  BY CalmExchange DEF Calm, Exchange
<1>2. ASSUME InUse PROVE Tells(signals', generation', engine', nodeId')
  <2>1. Tells(signals, generation, engine, nodeId)
    BY <1>2, AgreeForm
  <2>2. CASE signals' = signals
    BY <1>1, <1>2, <2>1, <2>2
  <2>3. CASE signals # <<>> /\ signals' = Tail(signals) /\ signals' # signals
    BY <1>1, <1>2, <2>1, <2>3, TellsAfter
  <2>4. QED
    BY <2>2, <2>3 DEF Calm, Advances
<1>3. (InUse => Tells(signals, generation, engine, nodeId))'
  BY <1>1, <1>2
<1>4. QED
  BY <1>1, <1>3, AgreeForm, PTL

-----------------------------------------------------------------------------
(* The user's calls keep the invariant                                     *)

\* A call that none of the pages waits for.
LEMMA PlainCall ==
    ASSUME IInv, NEW K, Calm(K), signals' = signals,
           K \subseteq {"set", "monitoring", "census", "addNode", "requestStorageSnapshot"},
           UNCHANGED <<busy, wanted, answered, resolving, list, export, shown>>,
           ~running => ~monitoring', Interface', SettingsAgree', IdFollows'
    PROVE  IInv'
<1>1. /\ Exchange /\ Interface /\ Lives /\ Generations /\ NothingStale
      /\ Awaited /\ Answered /\ FilterShown /\ ProbeAwaited /\ ExportAwaited
  BY DEF IInv
<1>2. Exchange' /\ InUse' = InUse
  BY <1>1, CalmExchange
<1>3. Lives'
  <2>1. ~running => Quiet'
    BY <1>1 DEF Lives, Quiet
  <2>2. QED
    BY <1>1, <2>1, CalmLives
<1>4. Generations'
  BY <1>1, CalmGenerations
<1>5. NothingStale' /\ Answered' /\ FilterShown'
  BY <1>1, <1>2 DEF NothingStale, Answered, FilterShown, Calm
<1>6. Awaited'
  <2>1. ASSUME NEW t \in Topics PROVE AwaitedFor(t)'
    <3>1. AwaitedFor(t)
      BY <1>1 DEF Awaited, AwaitedFor
    <3>2. Waiting(t)' = Waiting(t) /\ Number(t)' = Number(t)
      BY DEF Waiting, Number
    <3>3. K \cap KindsOf(t) = {}
      BY DEF KindsOf
    <3>4. QED
      BY <1>1, <3>1, <3>2, <3>3, CalmTopic
  <2>2. QED
    BY <2>1 DEF Awaited, AwaitedFor
<1>7. ProbeAwaited'
  BY <1>1, CalmProbe
<1>8. ExportAwaited'
  BY <1>1, CalmExport
<1>9. QED
  BY <1>2, <1>3, <1>4, <1>5, <1>6, <1>7, <1>8 DEF IInv

\* setContactLimit, setCatalogCap, setReadOnlyMode and setPortForwarding.
LEMMA SettingCall ==
    ASSUME IInv, NEW name \in Names, NEW value \in Nat, setSetting(name, value)
    PROVE  IInv'
<1> DEFINE c == [Cmd("set", 0, value, 0) EXCEPT !.name = name]
<1>1. Exchange /\ Interface /\ SettingsAgree /\ IdFollows /\ Lives
  BY DEF IInv
<1>2. /\ UNCHANGED <<engine, jobs, signals, running, generation, stopping, monitoring, nodeId>>
      /\ UNCHANGED <<busy, wanted, answered, resolving, list, export, shown, probes>>
      /\ ~stopping /\ ops' = ops + 1 /\ settings' = [settings EXCEPT ![name] = value]
      /\ IF running THEN commands' = Append(commands, c) ELSE commands' = commands
  BY DEF setSetting, Call, OnlyCommands, Lifecycle, Asked, Panels, forward, postIfRunning, post
<1>3. c \in Posted /\ c.kind = "set" /\ c.name = name /\ c.at = value
  BY DEF Cmd, Posted, Names
<1> HIDE DEF c
<1>4. Calm({"set"})
  BY <1>2, <1>3 DEF Calm, Sends, Advances
<1>5. settings' \in [Settings -> Nat]
      /\ \A n \in Settings : IF name = n THEN settings'[n] = value ELSE settings'[n] = settings[n]
  BY <1>1, <1>2 DEF Interface
<1>6. Interface'
  BY <1>1, <1>2, <1>5 DEF Interface
<1>7. Exchange' /\ InUse' = InUse /\ (InUse => running)
  BY <1>1, <1>4, CalmExchange DEF InUse
<1>8. SettingsAgree'
  <2>1. ASSUME InUse PROVE Agrees(commands', engine', settings', monitoring')
    <3>1. Agrees(commands, engine, settings, monitoring) /\ commands \in Seq(Posted)
      BY <1>1, <2>1, AgreeForm DEF Exchange
    <3>2. Agrees(Append(commands, c), engine, settings', monitoring)
      <4> DEFINE set2 == settings'
      <4>1. \A n \in Settings : IF c.kind = "set" /\ c.name = n THEN set2[n] = c.at
                                ELSE set2[n] = settings[n]
        BY <1>3, <1>5
      <4>2. IF c.kind = "monitoring" THEN monitoring = (c.at = 1) ELSE monitoring = monitoring
        BY <1>3
      <4> HIDE DEF set2
      <4>3. Agrees(Append(commands, c), engine, set2, monitoring)
        BY <1>3, <3>1, <4>1, <4>2, AgreesPosted
      <4>4. QED
        BY <4>3 DEF set2
    <3>3. QED
      BY <1>2, <1>7, <2>1, <3>2
  <2>2. (InUse => Agrees(commands, engine, settings, monitoring))'
    BY <1>7, <2>1
  <2>3. QED
    BY <1>7, <2>2, AgreeForm, PTL
<1>9. IdFollows'
  BY <1>1, <1>2, <1>4, CalmId
<1>10. QED
  BY <1>1, <1>2, <1>4, <1>6, <1>8, <1>9, PlainCall DEF Lives

\* setMonitoring.
LEMMA MonitoringCall ==
    ASSUME IInv, setMonitoring PROVE IInv'
<1> DEFINE c == Cmd("monitoring", 0, IF monitoring THEN 0 ELSE 1, 0)
<1>1. Exchange /\ Interface /\ SettingsAgree /\ IdFollows
  BY DEF IInv
<1>2. /\ UNCHANGED <<engine, jobs, signals, running, generation, stopping, settings, nodeId>>
      /\ UNCHANGED <<busy, wanted, answered, resolving, list, export, shown, probes>>
      /\ ~stopping /\ running /\ ops' = ops + 1 /\ monitoring' = ~monitoring
      /\ commands' = Append(commands, c)
  BY DEF setMonitoring, Call, OnlyCommands, Lifecycle, Asked, Panels, post
<1>3. c \in Posted /\ c.kind = "monitoring" /\ c.at = IF monitoring THEN 0 ELSE 1
  BY <1>1 DEF Cmd, Posted, Names, Interface
<1> HIDE DEF c
<1>4. monitoring' = (c.at = 1) /\ monitoring' \in BOOLEAN
  BY <1>1, <1>2, <1>3 DEF Interface
<1>5. Calm({"monitoring"})
  BY <1>2, <1>3 DEF Calm, Sends, Advances
<1>6. Interface'
  BY <1>1, <1>2, <1>4 DEF Interface
<1>7. Exchange' /\ InUse' = InUse
  BY <1>1, <1>5, CalmExchange
<1>8. SettingsAgree'
  <2>1. ASSUME InUse PROVE Agrees(commands', engine', settings', monitoring')
    <3>1. Agrees(commands, engine, settings, monitoring) /\ commands \in Seq(Posted)
      BY <1>1, <2>1, AgreeForm DEF Exchange
    <3> DEFINE on2 == monitoring'
    <3>2. /\ \A n \in Settings : IF c.kind = "set" /\ c.name = n THEN settings[n] = c.at
                                 ELSE settings[n] = settings[n]
          /\ IF c.kind = "monitoring" THEN on2 = (c.at = 1) ELSE on2 = monitoring
      BY <1>3, <1>4
    <3> HIDE DEF on2
    <3>3. Agrees(Append(commands, c), engine, settings, on2)
      BY <1>3, <3>1, <3>2, AgreesPosted
    <3>4. QED
      BY <1>2, <3>3 DEF on2
  <2>2. (InUse => Agrees(commands, engine, settings, monitoring))'
    BY <1>7, <2>1
  <2>3. QED
    BY <1>7, <2>2, AgreeForm, PTL
<1>9. IdFollows'
  BY <1>1, <1>2, <1>5, CalmId
<1>10. QED
  BY <1>1, <1>2, <1>5, <1>6, <1>8, <1>9, PlainCall

\* Calls that only post, or change what no engine knows of.
LEMMA OtherCalls ==
    ASSUME IInv,
           \/ setIpv6Enabled \/ setNodeId \/ census \/ injectNode \/ refuseProbe \/ selectProbe
           \/ exportSummary \/ refreshDataStore \/ selectInfohash
    PROVE  IInv'
<1> DEFINE K == {"census", "addNode", "requestStorageSnapshot"}
<1>1. Exchange /\ Interface /\ SettingsAgree /\ IdFollows /\ Lives
  BY DEF IInv
<1>2. \A kind \in K : \A id, of \in Nat : Cmd(kind, id, 0, of) \in Posted /\ Cmd(kind, id, 0, of).kind = kind
  BY DEF Cmd, Posted, Names
<1>3. ops \in Nat /\ ops + 1 \in Nat
  BY <1>1 DEF Interface
<1>4. /\ UNCHANGED <<engine, jobs, signals, running, generation, stopping, settings, monitoring>>
      /\ UNCHANGED <<busy, wanted, answered, resolving, list, export, shown>>
      /\ ~stopping /\ ops' = ops + 1
  BY DEF setIpv6Enabled, setNodeId, census, injectNode, refuseProbe, selectProbe, exportSummary,
     refreshDataStore, selectInfohash, Call, OnlyCommands, engineVars, Lifecycle, Configured, Asked, Panels
<1>5. Sends(K)
  <2>1. CASE census \/ injectNode \/ refreshDataStore \/ selectInfohash
    <3>1. running /\ \E kind \in K : \E id, of \in Nat : commands' = Append(commands, Cmd(kind, id, 0, of))
      BY <1>3, <2>1 DEF census, injectNode, refreshDataStore, selectInfohash, post
    <3>2. QED
      BY <1>2, <3>1 DEF Sends
  <2>2. CASE setIpv6Enabled \/ setNodeId \/ refuseProbe \/ selectProbe \/ exportSummary
    BY <2>2 DEF setIpv6Enabled, setNodeId, refuseProbe, selectProbe, exportSummary, engineVars, Sends
  <2>3. QED
    BY <2>1, <2>2
<1>6. Calm(K)
  BY <1>4, <1>5 DEF Calm, Advances
<1>7. nodeId' \in NodeIds \cup {0} /\ (nodeId' = nodeId \/ ~running)
  BY <1>1 DEF setIpv6Enabled, setNodeId, census, injectNode, refuseProbe, selectProbe, exportSummary,
     refreshDataStore, selectInfohash, Configured, Interface, HalfTyped
<1>8. probes' \in [rows : 0..HistoryLimit, selected : Int] /\ probes'.selected \in -1..(probes'.rows - 1)
  <2>1. probes \in [rows : 0..HistoryLimit, selected : Int] /\ probes.selected \in -1..(probes.rows - 1)
    BY <1>1 DEF Interface
  <2>2. CASE refuseProbe
    BY <2>1, <2>2 DEF refuseProbe, addProbe
  <2>3. CASE selectProbe
    BY <2>1, <2>3 DEF selectProbe
  <2>4. CASE probes' = probes
    BY <2>1, <2>4
  <2>5. QED
    BY <2>2, <2>3, <2>4 DEF setIpv6Enabled, setNodeId, census, injectNode, exportSummary,
       refreshDataStore, selectInfohash, Panels
<1>9. Interface'
  BY <1>1, <1>3, <1>4, <1>7, <1>8 DEF Interface
<1>10. SettingsAgree'
  BY <1>1, <1>4, <1>6, CalmSettings
<1>11. IdFollows'
  BY <1>1, <1>4, <1>6, <1>7, CalmId DEF InUse
<1>12. QED
  BY <1>1, <1>4, <1>6, <1>9, <1>10, <1>11, PlainCall DEF Lives

\* One value of a function changes.
LEMMA Updated ==
    ASSUME NEW A, NEW B, NEW f \in [A -> B], NEW a \in A, NEW b \in B
    PROVE  /\ [f EXCEPT ![a] = b] \in [A -> B]
           /\ \A x \in A : [f EXCEPT ![a] = b][x] = IF x = a THEN b ELSE f[x]
  OBVIOUS

\* The parts a call that is not about the settings can disturb.
LEMMA CalmStep ==
    ASSUME IInv, NEW K, Calm(K), K \cap {"set", "monitoring"} = {}, ~running => Quiet',
           UNCHANGED <<settings, monitoring>>,
           InUse => IF signals' # signals /\ signals[1].kind = "snapshot" /\ signals[1].gen = generation
                    THEN nodeId' = signals[1].at ELSE nodeId' = nodeId,
           export'.gen \in {export.gen, generation},
           ~running => export'.gen = export.gen /\ (export'.busy => export.busy),
           Interface', NothingStale', \A t \in Topics : AwaitedFor(t)', Answered', FilterShown',
           ProbeAwaited', ExportAwaited'
    PROVE  IInv'
<1>1. Exchange /\ Interface /\ Lives /\ Generations /\ SettingsAgree /\ IdFollows
  BY DEF IInv
<1>2. Exchange' /\ Lives' /\ Generations'
  BY <1>1, CalmExchange, CalmLives, CalmGenerations
<1>3. SettingsAgree' /\ IdFollows'
  BY <1>1, CalmSettings, CalmId
<1>4. Awaited'
  BY DEF Awaited, AwaitedFor
<1>5. QED
  BY <1>2, <1>3, <1>4 DEF IInv

\* searchPeers, searchItem, announcePeer and publishItem are asked for.
LEMMA AskCall ==
    ASSUME IInv, NEW wait \in {"search", "publish"}, NEW page \in Pages, NEW c \in Posted,
           c.kind \in KindsOf(wait), c.id = ops + 1, ask(wait, page, c)
    PROVE  IInv'
<1>1. /\ Exchange /\ Interface /\ NothingStale /\ Awaited /\ Answered /\ FilterShown
      /\ ProbeAwaited /\ ExportAwaited /\ ops \in Nat
  BY DEF IInv, Interface
<1>2. /\ UNCHANGED <<engine, jobs, signals, running, generation, stopping, settings, monitoring, nodeId>>
      /\ UNCHANGED <<resolving, list, export, probes>>
      /\ ~stopping /\ running /\ ~busy[wait] /\ ops' = ops + 1 /\ commands' = Append(commands, c)
      /\ busy' = [busy EXCEPT ![wait] = TRUE] /\ wanted' = [wanted EXCEPT ![wait] = ops + 1]
      /\ answered' = [answered EXCEPT ![wait] = 0] /\ shown' = [shown EXCEPT ![page] = 0]
  BY DEF ask, Call, OnlyCommands, Lifecycle, Configured, Panels, post
<1>3. /\ busy' \in [Waits -> BOOLEAN] /\ busy'[wait] /\ wanted'[wait] = ops + 1
      /\ \A w \in Waits : w # wait => busy'[w] = busy[w]
      /\ \A w \in {"search", "publish"} : w # wait => wanted'[w] = wanted[w] /\ answered'[w] = answered[w]
      /\ wanted' \in [{"search", "publish"} -> Nat] /\ answered' \in [{"search", "publish"} -> Nat]
      /\ shown' \in [Pages -> 0..MaxGeneration] /\ \A p \in Pages : shown'[p] \in {0, shown[p]}
  <2>1. /\ busy \in [Waits -> BOOLEAN] /\ wanted \in [{"search", "publish"} -> Nat]
        /\ answered \in [{"search", "publish"} -> Nat] /\ shown \in [Pages -> 0..MaxGeneration]
        /\ wait \in Waits
    BY <1>1 DEF Interface, Waits
  <2>2. busy' \in [Waits -> BOOLEAN] /\ busy'[wait] /\ \A w \in Waits : w # wait => busy'[w] = busy[w]
    BY <1>2, <2>1
  <2>3. /\ wanted' \in [{"search", "publish"} -> Nat] /\ wanted'[wait] = ops + 1
        /\ \A w \in {"search", "publish"} : w # wait => wanted'[w] = wanted[w]
    BY <1>1, <1>2, <2>1
  <2>4. /\ answered' \in [{"search", "publish"} -> Nat]
        /\ \A w \in {"search", "publish"} : w # wait => answered'[w] = answered[w]
    BY <1>2, <2>1
  <2>5. shown' \in [Pages -> 0..MaxGeneration] /\ \A p \in Pages : shown'[p] \in {0, shown[p]}
    BY <1>2, <2>1
  <2>6. QED
    BY <2>2, <2>3, <2>4, <2>5
<1>4. Calm(KindsOf(wait)) /\ KindsOf(wait) \cap {"set", "monitoring"} = {}
  BY <1>2 DEF Calm, Sends, Advances, KindsOf
<1>5. Interface'
  BY <1>1, <1>2, <1>3 DEF Interface
<1>6. NothingStale'
  BY <1>1, <1>2, <1>3 DEF NothingStale
<1>7. ASSUME NEW t \in Topics PROVE AwaitedFor(t)'
  <2>1. CASE t = wait
    <3>1. None(t, commands, jobs, signals, generation) /\ InUse
      BY <1>1, <1>2, <2>1 DEF Awaited, InUse, Waiting
    <3>2. c \in CallsOf(t) /\ Is(c, ops + 1, list.filter, TRUE) /\ commands \in Seq(Posted)
      BY <1>1, <2>1 DEF CallsOf, KindsOf, Is, Exchange
    <3>3. One(t, commands', jobs, signals, generation, ops + 1, list.filter, TRUE)
      BY <1>2, <3>1, <3>2, TopicPosted
    <3>4. Waiting(t)' /\ Number(t)' = ops + 1 /\ AnyOf(t)' = TRUE
      BY <1>3, <2>1 DEF Waiting, Number, AnyOf
    <3>5. QED
      BY <1>2, <3>3, <3>4 DEF AwaitedFor
  <2>2. CASE t # wait
    <3>1. AwaitedFor(t) /\ KindsOf(wait) \cap KindsOf(t) = {}
      BY <1>1, <2>2 DEF Awaited, AwaitedFor, KindsOf, Topics
    <3>2. Waiting(t)' = Waiting(t) /\ Number(t)' = Number(t)
      BY <1>2, <1>3, <2>2 DEF Waiting, Number, Topics, Waits
    <3>3. QED
      BY <1>1, <1>2, <1>4, <3>1, <3>2, CalmTopic
  <2>3. QED
    BY <2>1, <2>2
<1>8. Answered'
  BY <1>1, <1>3 DEF Answered, Waits
<1>9. FilterShown'
  BY <1>1, <1>2 DEF FilterShown, InUse
<1>10. ProbeAwaited'
  <2>1. busy'["probe"] = busy["probe"]
    BY <1>3 DEF Waits
  <2>2. QED
    BY <1>1, <1>2, <1>4, <2>1, CalmProbe
<1>11. ExportAwaited'
  BY <1>1, <1>2, <1>4, CalmExport
<1>12. QED
  BY <1>2, <1>4, <1>5, <1>6, <1>7, <1>8, <1>9, <1>10, <1>11, CalmStep

\* The four calls.
LEMMA AskCalls ==
    ASSUME IInv, askPeers \/ askItem \/ askAnnounce \/ askPublish PROVE IInv'
<1>1. ops \in Nat /\ ops + 1 \in Nat
  BY DEF IInv, Interface
<1>2. ASSUME NEW kind \in {"searchPeers", "searchItem", "announcePeer", "publishItem"}, NEW of \in {0, 1}
      PROVE  /\ Cmd(kind, ops + 1, 0, of) \in Posted /\ Cmd(kind, ops + 1, 0, of).kind = kind
             /\ Cmd(kind, ops + 1, 0, of).id = ops + 1
  BY <1>1 DEF Cmd, Posted, Names
<1>3. "peers" \in Pages /\ "item" \in Pages /\ "publish" \in Pages
  BY DEF Pages
<1>4. CASE askPeers
  BY <1>2, <1>3, <1>4, AskCall DEF askPeers, KindsOf
<1>5. CASE askItem
  <2>1. PICK of \in {0, 1} : ask("search", "item", Cmd("searchItem", ops + 1, 0, of))
    BY <1>5 DEF askItem
  <2>2. QED
    BY <1>2, <1>3, <2>1, AskCall DEF KindsOf
<1>6. CASE askAnnounce
  BY <1>2, <1>3, <1>6, AskCall DEF askAnnounce, KindsOf
<1>7. CASE askPublish
  BY <1>2, <1>3, <1>7, AskCall DEF askPublish, KindsOf
<1>8. QED
  BY <1>4, <1>5, <1>6, <1>7

\* publishMutable() with a key pair that is not one.
LEMMA RefusePublishCall ==
    ASSUME IInv, refusePublish PROVE IInv'
<1>1. /\ Exchange /\ Interface /\ NothingStale /\ Awaited /\ Answered /\ FilterShown
      /\ ProbeAwaited /\ ExportAwaited /\ ops \in Nat
  BY DEF IInv, Interface
<1>2. /\ UNCHANGED <<engine, jobs, signals, running, generation, stopping, settings, monitoring, nodeId>>
      /\ UNCHANGED <<commands, busy, resolving, list, export, probes>>
      /\ ~stopping /\ running /\ ~busy["publish"] /\ ops' = ops + 1
      /\ wanted' = [wanted EXCEPT !["publish"] = ops + 1]
      /\ answered' = [answered EXCEPT !["publish"] = ops + 1]
      /\ shown' = [shown EXCEPT !["publish"] = 0]
  BY DEF refusePublish, Call, engineVars, Lifecycle, Configured, Panels
<1>3. /\ wanted' \in [{"search", "publish"} -> Nat] /\ answered' \in [{"search", "publish"} -> Nat]
      /\ wanted'["publish"] = answered'["publish"]
      /\ wanted'["search"] = wanted["search"] /\ answered'["search"] = answered["search"]
      /\ shown' \in [Pages -> 0..MaxGeneration] /\ \A p \in Pages : shown'[p] \in {0, shown[p]}
  <2>1. /\ wanted \in [{"search", "publish"} -> Nat] /\ answered \in [{"search", "publish"} -> Nat]
        /\ shown \in [Pages -> 0..MaxGeneration] /\ ops + 1 \in Nat
    BY <1>1 DEF Interface
  <2>2. /\ wanted' \in [{"search", "publish"} -> Nat] /\ wanted'["publish"] = ops + 1
        /\ wanted'["search"] = wanted["search"]
    BY <1>2, <2>1
  <2>3. /\ answered' \in [{"search", "publish"} -> Nat] /\ answered'["publish"] = ops + 1
        /\ answered'["search"] = answered["search"]
    BY <1>2, <2>1
  <2>4. shown' \in [Pages -> 0..MaxGeneration] /\ \A p \in Pages : shown'[p] \in {0, shown[p]}
    <3>1. "publish" \in Pages /\ 0 \in 0..MaxGeneration
      BY DEF Pages
    <3>2. QED
      BY <1>2, <2>1, <3>1, Updated
  <2>5. QED
    BY <2>2, <2>3, <2>4
<1>4. Calm({})
  BY <1>2 DEF Calm, Sends, Advances
<1>5. Interface' /\ NothingStale' /\ Answered' /\ FilterShown'
  BY <1>1, <1>2, <1>3 DEF Interface, NothingStale, Answered, FilterShown, InUse
<1>6. ASSUME NEW t \in Topics PROVE AwaitedFor(t)'
  <2>1. CASE t = "publish"
    BY <1>1, <1>2, <2>1 DEF Awaited, AwaitedFor, Waiting, InUse
  <2>2. CASE t # "publish"
    <3>1. AwaitedFor(t) /\ Waiting(t)' = Waiting(t) /\ Number(t)' = Number(t)
      BY <1>1, <1>2, <1>3, <2>2 DEF Awaited, AwaitedFor, Waiting, Number, Topics
    <3>2. QED
      BY <1>1, <1>2, <1>4, <3>1, CalmTopic
  <2>3. QED
    BY <2>1, <2>2
<1>7. ProbeAwaited' /\ ExportAwaited'
  BY <1>1, <1>2, <1>4, CalmProbe, CalmExport
<1>8. QED
  BY <1>2, <1>4, <1>5, <1>6, <1>7, CalmStep

\* What is said of the history of probes.
GoodProbes == /\ probes \in [rows : 0..HistoryLimit, selected : Int]
              /\ probes.selected \in -1..(probes.rows - 1)

\* applyProbe() keeps at most HistoryLimit of them.
LEMMA ProbeAdded ==
    ASSUME GoodProbes, addProbe \/ probes' = NoProbes PROVE GoodProbes'
<1>1. CASE addProbe
  BY <1>1 DEF GoodProbes, addProbe
<1>2. CASE probes' = NoProbes
  BY <1>2 DEF GoodProbes, NoProbes
<1>3. QED
  BY <1>1, <1>2

\* A step that concerns the page of probes alone.
LEMMA ProbeStep ==
    ASSUME IInv, NEW K, Calm(K), K \subseteq {"probe", "probeAnnounce"},
           signals' = signals \/ signals[1].kind = "probe",
           NEW b \in BOOLEAN, busy' = [busy EXCEPT !["probe"] = b], ~running => ~b,
           resolving' \subseteq [id : Nat, kind : {"probe", "probeAnnounce"}],
           UNCHANGED <<settings, monitoring, nodeId, wanted, answered, list, export>>,
           shown' \in [Pages -> 0..MaxGeneration], NothingStale', GoodProbes', ops' \in Nat,
           ProbeAwaited'
    PROVE  IInv'
<1>1. /\ Exchange /\ Interface /\ Lives /\ Awaited /\ Answered /\ FilterShown /\ ExportAwaited
      /\ busy \in [Waits -> BOOLEAN] /\ "probe" \in Waits
  BY DEF IInv, Interface, Waits
<1>2. busy' \in [Waits -> BOOLEAN] /\ \A w \in Waits : busy'[w] = IF w = "probe" THEN b ELSE busy[w]
  BY <1>1, Updated
<1>3. busy'["search"] = busy["search"] /\ busy'["publish"] = busy["publish"]
  BY <1>2 DEF Waits
<1>4. Interface'
  BY <1>1, <1>2 DEF Interface, GoodProbes, Calm
<1>5. ~running => Quiet'
  BY <1>1, <1>2 DEF Lives, Quiet
<1>6. Answered' /\ FilterShown'
  BY <1>1, <1>3 DEF Answered, FilterShown, InUse, Calm
<1>7. ASSUME NEW t \in Topics PROVE AwaitedFor(t)'
  <2>1. AwaitedFor(t) /\ Waiting(t)' = Waiting(t) /\ Number(t)' = Number(t) /\ K \cap KindsOf(t) = {}
    BY <1>1, <1>3 DEF Awaited, AwaitedFor, Waiting, Number, Topics, KindsOf
  <2>2. signals' = signals \/ signals[1] \notin ResultsOf(t, generation)
    BY DEF ResultsOf
  <2>3. QED
    BY <1>1, <2>1, <2>2, CalmTopic
<1>8. ExportAwaited'
  BY <1>1, CalmExport
<1>9. signals' = signals \/ signals[1].kind # "snapshot"
  OBVIOUS
<1>10. QED
  <2>1. K \cap {"set", "monitoring"} = {}
    OBVIOUS
  <2>2. export'.gen = export.gen /\ (export'.busy => export.busy)
    OBVIOUS
  <2>3. InUse => IF signals' # signals /\ signals[1].kind = "snapshot" /\ signals[1].gen = generation
                 THEN nodeId' = signals[1].at ELSE nodeId' = nodeId
    BY <1>9
  <2>4. QED
    BY <1>4, <1>5, <1>6, <1>7, <1>8, <2>1, <2>2, <2>3, CalmStep

\* A probe was posted.
LEMMA ProbePosted ==
    ASSUME Exchange, NEW c \in Posted, c.kind \in {"probe", "probeAnnounce"},
           commands' = Append(commands, c)
    PROVE  ProbeAwaited'
<1>1. Longer(commands, commands', c)
  BY AppendTo DEF Exchange
<1>2. \E i \in 1..Len(commands') : commands'[i] = c
  BY <1>1 DEF Longer
<1>3. QED
  BY <1>2 DEF ProbeAwaited, ProbeComes

\* A call to probe.
LEMMA ProbeCommand ==
    ASSUME NEW kind \in {"probe", "probeAnnounce"}, NEW id \in Nat, NEW family \in {0, 1}
    PROVE  Cmd(kind, id, family, 0) \in Posted /\ Cmd(kind, id, family, 0).kind = kind
  BY DEF Cmd, Posted, Names

\* probeEndpoint(), with a name to be resolved first or not, and clearProbes().
LEMMA ProbeCalls ==
    ASSUME IInv, probeAddress \/ probeName \/ clearProbes PROVE IInv'
<1>1. /\ Exchange /\ NothingStale /\ GoodProbes /\ ops + 1 \in Nat /\ shown \in [Pages -> 0..MaxGeneration]
      /\ resolving \subseteq [id : Nat, kind : {"probe", "probeAnnounce"}] /\ busy \in [Waits -> BOOLEAN]
  BY DEF IInv, Interface, GoodProbes
<1>2. /\ UNCHANGED <<engine, jobs, signals, running, generation, stopping, settings, monitoring, nodeId>>
      /\ UNCHANGED <<wanted, answered, list, export>> /\ ~stopping /\ ops' = ops + 1
  BY DEF probeAddress, probeName, clearProbes, Call, OnlyCommands, engineVars, Lifecycle, Configured, Panels
<1>3. CASE probeAddress
  <2>1. /\ UNCHANGED <<resolving, shown, probes>> /\ running
        /\ busy' = [busy EXCEPT !["probe"] = TRUE]
    BY <1>3 DEF probeAddress, Panels
  <2>2. PICK kind \in {"probe", "probeAnnounce"}, family \in {0, 1} :
           commands' = Append(commands, Cmd(kind, ops + 1, family, 0))
    BY <1>3 DEF probeAddress, post
  <2>3. /\ Cmd(kind, ops + 1, family, 0) \in Posted /\ Cmd(kind, ops + 1, family, 0).kind = kind
    BY <1>1, ProbeCommand
  <2>4. Calm({"probe", "probeAnnounce"}) /\ ProbeAwaited'
    BY <1>1, <1>2, <2>1, <2>2, <2>3, ProbePosted DEF Calm, Sends, Advances
  <2>5. NothingStale' /\ GoodProbes'
    BY <1>1, <1>2, <2>1 DEF NothingStale, GoodProbes
  <2>6. QED
    BY <1>1, <1>2, <2>1, <2>4, <2>5, ProbeStep
<1>4. CASE probeName
  <2>1. /\ UNCHANGED <<commands, shown, probes>> /\ running
        /\ busy' = [busy EXCEPT !["probe"] = TRUE]
    BY <1>4 DEF probeName, Panels, engineVars
  <2>2. PICK kind \in {"probe", "probeAnnounce"} :
           resolving' = resolving \cup {[id |-> ops + 1, kind |-> kind]}
    BY <1>4 DEF probeName
  <2>3. Calm({}) /\ ProbeAwaited'
    BY <1>2, <2>1, <2>2 DEF Calm, Sends, Advances, ProbeAwaited
  <2>4. NothingStale' /\ GoodProbes'
    BY <1>1, <1>2, <2>1 DEF NothingStale, GoodProbes
  <2>5. resolving' \subseteq [id : Nat, kind : {"probe", "probeAnnounce"}]
    BY <1>1, <2>2
  <2>6. QED
    BY <1>1, <1>2, <2>1, <2>3, <2>4, <2>5, ProbeStep
<1>5. CASE clearProbes
  <2>1. /\ UNCHANGED <<commands, resolving>> /\ probes' = NoProbes
        /\ busy' = [busy EXCEPT !["probe"] = FALSE] /\ shown' = [shown EXCEPT !["probe"] = 0]
    BY <1>5 DEF clearProbes, engineVars
  <2>2. "probe" \in Pages /\ 0 \in 0..MaxGeneration /\ "probe" \in Waits
    BY DEF Pages, Waits
  <2>3. shown' \in [Pages -> 0..MaxGeneration] /\ \A p \in Pages : shown'[p] \in {0, shown[p]}
    BY <1>1, <2>1, <2>2, Updated
  <2>4. ~busy'["probe"]
    BY <1>1, <2>1, <2>2
  <2>5. Calm({}) /\ ProbeAwaited' /\ NothingStale'
    BY <1>1, <1>2, <2>1, <2>3, <2>4 DEF Calm, Sends, Advances, ProbeAwaited, NothingStale
  <2>6. GoodProbes'
    BY <1>1, <2>1, ProbeAdded
  <2>7. QED
    BY <1>1, <1>2, <2>1, <2>3, <2>5, <2>6, ProbeStep
<1>6. QED
  BY <1>3, <1>4, <1>5

\* The resolver answered, whatever became of the engine meanwhile.
LEMMA NameResolved ==
    ASSUME IInv, nameResolved PROVE IInv'
<1>1. /\ Exchange /\ NothingStale /\ GoodProbes /\ ops \in Nat /\ shown \in [Pages -> 0..MaxGeneration]
      /\ resolving \subseteq [id : Nat, kind : {"probe", "probeAnnounce"}] /\ busy \in [Waits -> BOOLEAN]
      /\ running \in BOOLEAN /\ "probe" \in Waits /\ (~running => ~busy["probe"])
  BY DEF IInv, Interface, GoodProbes, Lives, Waits
<1>2. PICK r \in resolving :
        /\ ~stopping /\ resolving' = resolving \ {r}
        /\ \/ /\ addProbe
              /\ busy' = [busy EXCEPT !["probe"] = FALSE]
              /\ UNCHANGED commands
           \/ /\ busy' = [busy EXCEPT !["probe"] = MarkedBusy]
              /\ \E family \in {0, 1} : postIfRunning(Cmd(r.kind, r.id, family, 0))
              /\ UNCHANGED probes
        /\ OnlyCommands
        /\ UNCHANGED <<Lifecycle, Configured, wanted, answered, shown, list, export, store, ops>>
  BY DEF nameResolved
<1>3. /\ UNCHANGED <<engine, jobs, signals, running, generation, stopping, settings, monitoring, nodeId>>
      /\ UNCHANGED <<wanted, answered, shown, list, export, ops>>
      /\ resolving' \subseteq [id : Nat, kind : {"probe", "probeAnnounce"}]
      /\ r.kind \in {"probe", "probeAnnounce"} /\ r.id \in Nat
  BY <1>1, <1>2 DEF OnlyCommands, Lifecycle, Configured
<1>4. NothingStale'
  BY <1>1, <1>3 DEF NothingStale
<1>5. CASE addProbe /\ busy' = [busy EXCEPT !["probe"] = FALSE] /\ UNCHANGED commands
  <2>1. ~busy'["probe"]
    BY <1>1, <1>5
  <2>2. Calm({}) /\ ProbeAwaited' /\ GoodProbes'
    BY <1>1, <1>2, <1>3, <1>5, <2>1, ProbeAdded DEF Calm, Sends, Advances, ProbeAwaited
  <2>3. QED
    BY <1>1, <1>3, <1>4, <1>5, <2>2, ProbeStep
<1>6. CASE /\ busy' = [busy EXCEPT !["probe"] = MarkedBusy] /\ UNCHANGED probes
           /\ \E family \in {0, 1} : postIfRunning(Cmd(r.kind, r.id, family, 0))
  <2> DEFINE b == MarkedBusy
  <2>1. b \in BOOLEAN /\ (~running => ~b)
    BY <1>1 DEF MarkedBusy
  <2> HIDE DEF b
  <2>2. PICK family \in {0, 1} : postIfRunning(Cmd(r.kind, r.id, family, 0))
    BY <1>6
  <2>3. Cmd(r.kind, r.id, family, 0) \in Posted
        /\ Cmd(r.kind, r.id, family, 0).kind \in {"probe", "probeAnnounce"}
    BY <1>3, ProbeCommand
  <2>4. Calm({"probe", "probeAnnounce"})
    BY <1>2, <1>3, <2>2, <2>3 DEF Calm, Sends, Advances, postIfRunning, post
  <2>5. ProbeAwaited'
    <3>1. CASE running
      BY <1>1, <2>2, <2>3, <3>1, ProbePosted DEF postIfRunning, post
    <3>2. CASE ~running
      BY <1>3, <3>2 DEF ProbeAwaited, InUse
    <3>3. QED
      BY <3>1, <3>2
  <2>6. GoodProbes' /\ busy' = [busy EXCEPT !["probe"] = b]
    BY <1>1, <1>6 DEF GoodProbes, b
  <2>7. QED
    BY <1>1, <1>3, <1>4, <2>1, <2>4, <2>5, <2>6, ProbeStep
<1>7. QED
  BY <1>2, <1>5, <1>6

\* A step that concerns the node list alone.
LEMMA ListStep ==
    ASSUME IInv, Calm({"queryNodes"}), signals' = signals \/ signals[1].kind = "page",
           UNCHANGED <<settings, monitoring, nodeId, busy, wanted, answered, resolving, export, probes>>,
           shown' \in [Pages -> 0..MaxGeneration], NothingStale', ops' \in Nat, list' \in List,
           ~running => ~list'.inFlight /\ ~list'.loaded, AwaitedFor("page")', FilterShown'
    PROVE  IInv'
<1>1. /\ Exchange /\ Interface /\ Lives /\ Awaited /\ Answered /\ ProbeAwaited /\ ExportAwaited
  BY DEF IInv
<1>2. Interface' /\ Answered'
  BY <1>1 DEF Interface, Calm, Answered
<1>3. ~running => Quiet'
  BY <1>1 DEF Lives, Quiet
<1>4. ASSUME NEW t \in Topics PROVE AwaitedFor(t)'
  <2>1. CASE t # "page"
    <3>1. AwaitedFor(t) /\ Waiting(t)' = Waiting(t) /\ Number(t)' = Number(t)
          /\ {"queryNodes"} \cap KindsOf(t) = {}
      BY <1>1, <2>1 DEF Awaited, AwaitedFor, Waiting, Number, Topics, KindsOf
    <3>2. signals' = signals \/ signals[1] \notin ResultsOf(t, generation)
      BY <2>1 DEF ResultsOf, Topics
    <3>3. QED
      BY <1>1, <2>1, <3>1, <3>2, CalmTopic
  <2>2. QED
    BY <2>1
<1>5. ProbeAwaited' /\ ExportAwaited'
  BY <1>1, CalmProbe, CalmExport
<1>6. /\ {"queryNodes"} \cap {"set", "monitoring"} = {}
      /\ export'.gen = export.gen /\ (export'.busy => export.busy)
      /\ InUse => IF signals' # signals /\ signals[1].kind = "snapshot" /\ signals[1].gen = generation
                  THEN nodeId' = signals[1].at ELSE nodeId' = nodeId
  OBVIOUS
<1>7. QED
  BY <1>2, <1>3, <1>4, <1>5, <1>6, CalmStep

\* sendNodeQuery(): when nothing is under way, one query is.
LEMMA QuerySent ==
    ASSUME Exchange, NEW l \in List, sendNodeQuery(l), running, jobs' = jobs, generation' = generation,
           None("page", commands, jobs, signals', generation)
    PROVE  /\ list' \in List /\ list'.inFlight /\ list'.filter = l.filter
           /\ Sends({"queryNodes"}) /\ AwaitedFor("page")'
<1> DEFINE c == Cmd("queryNodes", l.requestId + 1, l.offset, l.filter)
<1>1. /\ list' = [l EXCEPT !.inFlight = TRUE, !.again = FALSE, !.requestId = @ + 1]
      /\ commands' = Append(commands, c)
  BY DEF sendNodeQuery, post
<1>2. /\ list' \in List /\ list'.inFlight /\ list'.filter = l.filter /\ list'.again = FALSE
      /\ list'.requestId = l.requestId + 1
  <2> DEFINE n == l.requestId + 1
  <2>1. n \in Nat
    BY DEF List
  <2>2. list' = [l EXCEPT !.inFlight = TRUE, !.again = FALSE, !.requestId = n]
    BY <1>1 DEF List
  <2> HIDE DEF n
  <2>3. /\ list' \in List /\ list'.inFlight /\ list'.filter = l.filter /\ list'.again = FALSE
        /\ list'.requestId = n
    BY <2>1, <2>2 DEF List
  <2>4. QED
    BY <2>3 DEF n
<1>3. c \in Posted /\ c.kind = "queryNodes" /\ c.id = l.requestId + 1 /\ c.of = l.filter
  BY DEF Cmd, Posted, Names, List
<1> HIDE DEF c
<1>4. c \in CallsOf("page") /\ Is(c, l.requestId + 1, l.filter, FALSE) /\ "page" \in Topics
      /\ commands \in Seq(Posted)
  BY <1>3 DEF CallsOf, Is, Topics, Exchange
<1>5. One("page", commands', jobs, signals', generation, l.requestId + 1, l.filter, FALSE)
  BY <1>1, <1>3, <1>4, TopicPosted
<1>6. Waiting("page")' = TRUE /\ Number("page")' = l.requestId + 1 /\ AnyOf("page")' = FALSE
  BY <1>2 DEF Waiting, Number, AnyOf
<1>7. AwaitedFor("page")'
  BY <1>2, <1>5, <1>6 DEF AwaitedFor
<1>8. Sends({"queryNodes"})
  BY <1>1, <1>3 DEF Sends
<1>9. QED
  BY <1>2, <1>7, <1>8

\* refreshList() for a query l that differs in what it asks for.
LEMMA Refreshed ==
    ASSUME IInv, NEW l \in List, refreshList(l), l.inFlight = list.inFlight, l.loaded = list.loaded,
           l.requestId = list.requestId, ~stopping, jobs' = jobs, signals' = signals,
           generation' = generation, running' = running, stopping' = stopping
    PROVE  /\ list' \in List /\ Sends({"queryNodes"}) /\ (~running => ~list'.inFlight /\ ~list'.loaded)
           /\ AwaitedFor("page")' /\ FilterShown'
<1>1. Exchange /\ Awaited /\ Lives /\ list \in List
  BY DEF IInv, Interface
<1>2. CASE ~running
  BY <1>1, <1>2 DEF refreshList, Sends, Lives, AwaitedFor, FilterShown, InUse
<1>3. CASE running /\ l.inFlight
  <2>1. list' = [l EXCEPT !.again = TRUE] /\ commands' = commands /\ Waiting("page") /\ InUse
    BY <1>3 DEF refreshList, Waiting, InUse
  <2>2. /\ list' \in List /\ list'.inFlight /\ list'.requestId = list.requestId /\ list'.again = TRUE
    BY <1>3, <2>1 DEF List
  <2>3. One("page", commands, jobs, signals, generation, Number("page"), list.filter, AnyOf("page"))
    BY <1>1, <2>1 DEF Awaited, Topics
  <2>4. \A of : One("page", commands, jobs, signals, generation, Number("page"), of, TRUE)
    BY <2>3, OneOfAny
  <2>5. Number("page")' = Number("page") /\ AnyOf("page")' = TRUE
    BY <2>2 DEF Number, AnyOf
  <2>6. AwaitedFor("page")'
    BY <2>1, <2>2, <2>4, <2>5 DEF AwaitedFor, Waiting
  <2>7. QED
    BY <1>3, <2>1, <2>2, <2>6 DEF Sends, FilterShown
<1>4. CASE running /\ ~l.inFlight
  <2>1. None("page", commands, jobs, signals', generation)
    BY <1>1, <1>4 DEF Awaited, Waiting, InUse, Topics
  <2>2. sendNodeQuery(l)
    BY <1>4 DEF refreshList
  <2>3. list' \in List /\ list'.inFlight /\ Sends({"queryNodes"}) /\ AwaitedFor("page")'
    BY <1>1, <1>4, <2>1, <2>2, QuerySent
  <2>4. QED
    BY <1>4, <2>3 DEF FilterShown
<1>5. QED
  BY <1>2, <1>3, <1>4

\* The timer, the filter and the buttons of the node list.
LEMMA ListCalls ==
    ASSUME IInv, refreshNodeList \/ setNodeQuery \/ showNodePage PROVE IInv'
<1>1. list \in List /\ NothingStale /\ shown \in [Pages -> 0..MaxGeneration] /\ ops + 1 \in Nat
  BY DEF IInv, Interface
<1>2. /\ UNCHANGED <<engine, jobs, signals, running, generation, stopping, settings, monitoring, nodeId>>
      /\ UNCHANGED <<busy, wanted, answered, resolving, export, shown, probes>> /\ ~stopping /\ ops' = ops + 1
  BY DEF refreshNodeList, setNodeQuery, showNodePage, Call, OnlyCommands, Lifecycle, Configured, Asked
<1>3. \E l \in List : /\ refreshList(l) /\ l.inFlight = list.inFlight /\ l.loaded = list.loaded
                      /\ l.requestId = list.requestId
  <2>1. CASE refreshNodeList
    BY <1>1, <2>1 DEF refreshNodeList
  <2>2. CASE setNodeQuery
    <3>1. PICK filter \in Filters : refreshList([list EXCEPT !.filter = filter, !.offset = 0])
      BY <2>2 DEF setNodeQuery
    <3> DEFINE l == [list EXCEPT !.filter = filter, !.offset = 0]
    <3>2. l \in List /\ l.inFlight = list.inFlight /\ l.loaded = list.loaded /\ l.requestId = list.requestId
      BY <1>1 DEF List
    <3>3. QED
      BY <3>1, <3>2
  <2>3. CASE showNodePage
    <3>1. PICK offset \in {0, list.at - 1, list.at + 1} :
             /\ IF offset > list.at THEN offset < list.total ELSE list.at > 0
             /\ refreshList([list EXCEPT !.offset = offset])
      BY <2>3 DEF showNodePage
    <3> DEFINE l == [list EXCEPT !.offset = offset]
    <3>2. offset \in Nat
      BY <1>1, <3>1 DEF List
    <3>3. l \in List /\ l.inFlight = list.inFlight /\ l.loaded = list.loaded /\ l.requestId = list.requestId
      BY <1>1, <3>2 DEF List
    <3>4. QED
      BY <3>1, <3>3
  <2>4. QED
    BY <2>1, <2>2, <2>3
<1>4. PICK l \in List : /\ refreshList(l) /\ l.inFlight = list.inFlight /\ l.loaded = list.loaded
                        /\ l.requestId = list.requestId
  BY <1>3
<1>5. /\ list' \in List /\ Sends({"queryNodes"}) /\ (~running => ~list'.inFlight /\ ~list'.loaded)
      /\ AwaitedFor("page")' /\ FilterShown'
  BY <1>2, <1>4, Refreshed
<1>6. Calm({"queryNodes"}) /\ NothingStale'
  BY <1>1, <1>2, <1>5 DEF Calm, Advances, NothingStale
<1>7. QED
  BY <1>1, <1>2, <1>5, <1>6, ListStep

\* A page arrives: it is the one asked for last, and asked again if the query changed.
LEMMA PageArrives ==
    ASSUME IInv, nodePageReady PROVE IInv'
<1> DEFINE s == signals[1]
<1>1. /\ Exchange /\ Generations /\ Awaited /\ NothingStale /\ list \in List /\ ops \in Nat
      /\ shown \in [Pages -> 0..MaxGeneration] /\ generation \in 0..MaxGeneration
      /\ signals \in Seq(Signal) /\ GoodSignals(signals)
  BY DEF IInv, Interface, Exchange, GoodSignals
<1>2. signals # <<>> => /\ s = Head(signals) /\ s \in Signal /\ Len(signals) \in Nat \ {0}
                        /\ 1 \in 1..Len(signals)
  BY <1>1, TailOf
<1>3. /\ UNCHANGED <<engine, jobs, running, generation, stopping, settings, monitoring, nodeId, ops>>
      /\ UNCHANGED <<busy, wanted, answered, resolving, export, probes>> /\ ~stopping
      /\ signals # <<>> /\ signals' = Tail(signals) /\ s.kind = "page" /\ s.gen = generation
      /\ shown' = [shown EXCEPT !["list"] = generation] /\ applyNodePage(s)
  BY <1>2 DEF nodePageReady, Delivered, take, Current, Show, Lifecycle, Configured, Asked
<1>4. /\ s \in ResultsOf("page", generation) /\ "page" \in Topics
      /\ s.at \in Nat /\ s.of \in Nat /\ s.total \in Nat
  BY <1>1, <1>2, <1>3 DEF ResultsOf, Topics, GoodSignals, GoodSignal, Signal
<1> HIDE DEF s
<1>5. InUse
  BY <1>1, <1>2, <1>3 DEF Generations, s
<1>6. list.inFlight /\ Is(s, list.requestId, list.filter, list.again)
      /\ None("page", commands, jobs, signals', generation)
  <2>1. ~None("page", commands, jobs, signals, generation)
    BY <1>1, <1>3, <1>4, TopicTaken DEF s
  <2>2. /\ list.inFlight
        /\ One("page", commands, jobs, signals, generation, list.requestId, list.filter, list.again)
    BY <1>1, <1>4, <1>5, <2>1 DEF Awaited, Waiting, Number, AnyOf, List
  <2>3. QED
    BY <1>1, <1>3, <1>4, <2>2, TopicTaken DEF s
<1> DEFINE l == [list EXCEPT !.inFlight = FALSE, !.offset = s.at, !.at = s.at,
                             !.of = s.of, !.total = s.total, !.loaded = TRUE]
<1>7. /\ l \in List /\ l.of = s.of /\ l.inFlight = FALSE /\ l.filter = list.filter
      /\ IF list.again THEN sendNodeQuery(l) ELSE list' = l /\ UNCHANGED commands
  BY <1>1, <1>3, <1>4, <1>6 DEF List, applyNodePage, Is
<1> HIDE DEF l
<1>8. list' \in List /\ Sends({"queryNodes"}) /\ AwaitedFor("page")' /\ FilterShown'
  <2>1. CASE list.again
    <3>1. list' \in List /\ list'.inFlight /\ Sends({"queryNodes"}) /\ AwaitedFor("page")'
      BY <1>1, <1>3, <1>5, <1>6, <1>7, <2>1, QuerySent DEF InUse
    <3>2. QED
      BY <3>1 DEF FilterShown
  <2>2. CASE ~list.again
    BY <1>3, <1>6, <1>7, <2>2 DEF Sends, AwaitedFor, Waiting, FilterShown, Is
  <2>3. QED
    BY <2>1, <2>2
<1>9. /\ shown' \in [Pages -> 0..MaxGeneration]
      /\ \A p \in Pages : shown'[p] \in {shown[p], generation}
  <2>1. "list" \in Pages
    BY DEF Pages
  <2>2. QED
    BY <1>1, <1>3, <2>1, Updated
<1>10. Calm({"queryNodes"}) /\ NothingStale'
  BY <1>1, <1>3, <1>5, <1>8, <1>9 DEF Calm, Advances, NothingStale, InUse
<1>11. running
  BY <1>5 DEF InUse
<1>12. QED
  BY <1>1, <1>3, <1>8, <1>9, <1>10, <1>11, ListStep DEF s

\* exportNodes() is asked for.
LEMMA ExportCall ==
    ASSUME IInv, askExport PROVE IInv'
<1> DEFINE c == Cmd("exportNodes", export.id + 1, 0, 0)
           n == export.id + 1
<1>1. /\ Exchange /\ Interface /\ NothingStale /\ Awaited /\ Answered /\ FilterShown /\ ProbeAwaited
      /\ export \in Export /\ generation \in Nat /\ ops + 1 \in Nat
  BY DEF IInv, Interface
<1>2. /\ UNCHANGED <<engine, jobs, signals, running, generation, stopping, settings, monitoring, nodeId>>
      /\ UNCHANGED <<busy, wanted, answered, resolving, shown, list, probes>>
      /\ ~stopping /\ running /\ ops' = ops + 1 /\ commands' = Append(commands, c)
      /\ export' = [export EXCEPT !.busy = TRUE, !.id = n, !.gen = generation]
  BY <1>1 DEF askExport, Call, OnlyCommands, Lifecycle, Configured, Asked, post, Export
<1>3. n \in Nat
  BY <1>1 DEF Export
<1>4. c \in Posted /\ c.kind = "exportNodes" /\ c.id = n
  BY <1>3 DEF Cmd, Posted, Names
<1> HIDE DEF c, n
<1>5. export' \in Export /\ export'.id = n /\ export'.gen = generation /\ export'.writing = export.writing
  BY <1>1, <1>2, <1>3 DEF Export
<1>6. Calm({"exportNodes"})
  BY <1>2, <1>4 DEF Calm, Sends, Advances
<1>7. Interface' /\ NothingStale' /\ Answered' /\ FilterShown'
  BY <1>1, <1>2, <1>5 DEF Interface, NothingStale, Answered, FilterShown, InUse
<1>8. ASSUME NEW t \in Topics PROVE AwaitedFor(t)'
  <2>1. AwaitedFor(t) /\ Waiting(t)' = Waiting(t) /\ Number(t)' = Number(t)
        /\ {"exportNodes"} \cap KindsOf(t) = {}
    BY <1>1, <1>2 DEF Awaited, AwaitedFor, Waiting, Number, KindsOf
  <2>2. QED
    BY <1>1, <1>2, <1>6, <2>1, CalmTopic
<1>9. ProbeAwaited'
  BY <1>1, <1>2, <1>6, CalmProbe
<1>10. ExportAwaited'
  <2>1. Longer(commands, commands', c)
    BY <1>1, <1>2, <1>4, AppendTo DEF Exchange
  <2>2. \E i \in 1..Len(commands') : commands'[i] = c
    BY <2>1 DEF Longer
  <2>3. QED
    BY <1>4, <1>5, <2>2 DEF ExportAwaited, ExportComes
<1>11. QED
  BY <1>2, <1>5, <1>6, <1>7, <1>8, <1>9, <1>10, CalmStep

-----------------------------------------------------------------------------
(* What is delivered keeps the invariant                                   *)

\* A signal of this generation is of an engine in use.
LEMMA Taken ==
    ASSUME IInv, NEW kind, take(kind)
    PROVE  /\ signals # <<>> /\ signals' = Tail(signals) /\ Head(signals) = signals[1] /\ ~stopping
           /\ signals[1].kind = kind /\ signals[1] \in Signal /\ GoodSignal(signals[1])
           /\ signals \in Seq(Signal)
           /\ kind # "written" /\ signals[1].gen = generation => InUse
<1>1. GoodSignals(signals) /\ Generations
  BY DEF IInv, Exchange
<1>2. signals # <<>> /\ signals' = Tail(signals) /\ ~stopping /\ Head(signals).kind = kind
  BY DEF take
<1>3. Head(signals) = signals[1] /\ 1 \in 1..Len(signals) /\ signals \in Seq(Signal)
  BY <1>1, <1>2, TailOf DEF GoodSignals
<1>4. GoodSignal(signals[1]) /\ signals[1] \in Signal
  BY <1>1, <1>3 DEF GoodSignals, GoodSignal
<1>5. signals[1].kind # "written" /\ signals[1].gen = generation => InUse
  <2>1. signals[1].kind # "written" => (~InUse => signals[1].gen < generation)
    BY <1>1, <1>3 DEF Generations
  <2>2. signals[1].gen \in Nat
    BY <1>4 DEF Signal
  <2>3. QED
    BY <2>1, <2>2
<1>6. QED
  BY <1>2, <1>3, <1>4, <1>5

\* A page shows what an engine in use reported.
LEMMA ShowsCurrent ==
    ASSUME IInv, NEW page \in Pages, InUse, shown' = [shown EXCEPT ![page] = generation],
           UNCHANGED <<running, generation, stopping>>
    PROVE  shown' \in [Pages -> 0..MaxGeneration] /\ NothingStale'
<1>1. shown \in [Pages -> 0..MaxGeneration] /\ generation \in 0..MaxGeneration /\ NothingStale
  BY DEF IInv, Interface
<1>2. shown' \in [Pages -> 0..MaxGeneration] /\ \A p \in Pages : shown'[p] \in {shown[p], generation}
  BY <1>1, Updated
<1>3. QED
  BY <1>1, <1>2 DEF NothingStale, InUse

\* applySnapshot(), a notice and the data store.
LEMMA PlainDelivery ==
    ASSUME IInv, applySnapshot \/ notice \/ storageSnapshotReady PROVE IInv'
<1> DEFINE s == signals[1]
<1>1. PICK kind \in {"snapshot", "notice", "storage"}, page \in Pages :
        /\ Delivered(kind) /\ Show(page) /\ UNCHANGED <<commands, Lifecycle, Asked, list, export, probes>>
        /\ UNCHANGED <<settings, monitoring>>
        /\ IF kind = "snapshot" THEN nodeId' = Head(signals).at ELSE nodeId' = nodeId
  BY DEF applySnapshot, notice, storageSnapshotReady, Panels, Configured, Pages
<1>2. /\ Exchange /\ Interface /\ Awaited /\ Answered /\ FilterShown /\ ProbeAwaited /\ ExportAwaited
  BY DEF IInv
<1>3. take(kind) /\ Current(Head(signals))
  BY <1>1 DEF Delivered
<1>4. /\ signals # <<>> /\ signals' = Tail(signals) /\ Head(signals) = s /\ ~stopping
      /\ s.kind = kind /\ GoodSignal(s) /\ s.gen = generation /\ InUse
  BY <1>3, Taken DEF Current
<1> HIDE DEF s
<1>5. /\ UNCHANGED <<engine, jobs, running, generation, stopping, settings, monitoring, ops>>
      /\ UNCHANGED <<commands, busy, wanted, answered, resolving, list, export, probes>>
      /\ shown' = [shown EXCEPT ![page] = generation]
  BY <1>1, <1>4 DEF Delivered, Lifecycle, Asked, Show
<1>6. shown' \in [Pages -> 0..MaxGeneration] /\ NothingStale'
  BY <1>4, <1>5, ShowsCurrent
<1>7. Calm({})
  BY <1>4, <1>5 DEF Calm, Sends, Advances
<1>8. nodeId' \in NodeIds \cup {0}
  BY <1>1, <1>2, <1>4 DEF GoodSignal, Interface
<1>9. Interface' /\ Answered' /\ FilterShown'
  BY <1>2, <1>5, <1>6, <1>8 DEF Interface, Answered, FilterShown, InUse
<1>10. ASSUME NEW t \in Topics PROVE AwaitedFor(t)'
  <2>1. AwaitedFor(t) /\ Waiting(t)' = Waiting(t) /\ Number(t)' = Number(t)
    BY <1>2, <1>5 DEF Awaited, AwaitedFor, Waiting, Number
  <2>2. s \notin ResultsOf(t, generation)
    BY <1>4 DEF ResultsOf
  <2>3. QED
    BY <1>2, <1>5, <1>7, <2>1, <2>2, CalmTopic DEF s
<1>11. ProbeAwaited' /\ ExportAwaited'
  BY <1>2, <1>4, <1>5, <1>7, CalmProbe, CalmExport DEF s
<1>12. IF signals' # signals /\ signals[1].kind = "snapshot" /\ signals[1].gen = generation
       THEN nodeId' = signals[1].at ELSE nodeId' = nodeId
  <2>1. signals' # signals
    BY <1>2, <1>4, TailOf DEF Shorter, Exchange, GoodSignals
  <2>2. QED
    BY <1>1, <1>4, <2>1 DEF s
<1>13. QED
  <2>1. running
    BY <1>4 DEF InUse
  <2>2. QED
    BY <1>5, <1>6, <1>7, <1>9, <1>10, <1>11, <1>12, <2>1, CalmStep

\* applyPeerSearch(), applyItemSearch() and applyPublish() get what was asked for last.
LEMMA ResultDelivery ==
    ASSUME IInv, NEW kind, NEW wait \in {"search", "publish"},
           <<kind, wait>> \in {<<"peers", "search">>, <<"item", "search">>, <<"publish", "publish">>},
           applyResult(kind, wait)
    PROVE  IInv'
<1> DEFINE s == signals[1]
<1>1. /\ Exchange /\ Interface /\ Awaited /\ Answered /\ FilterShown /\ ProbeAwaited /\ ExportAwaited
      /\ busy \in [Waits -> BOOLEAN] /\ answered \in [{"search", "publish"} -> Nat] /\ wait \in Waits
      /\ wait \in Topics /\ kind \in Pages /\ kind \in {"peers", "item", "publish"}
  BY DEF IInv, Interface, Waits, Topics, Pages
<1>2. take(kind) /\ Current(Head(signals))
  BY DEF applyResult, Delivered
<1>3. /\ signals # <<>> /\ signals' = Tail(signals) /\ Head(signals) = s /\ ~stopping
      /\ s.kind = kind /\ s \in Signal /\ s.gen = generation /\ InUse /\ signals \in Seq(Signal)
  BY <1>1, <1>2, Taken DEF Current
<1>4. s.id \in Nat /\ s \in ResultsOf(wait, generation)
  BY <1>1, <1>3 DEF Signal, ResultsOf
<1> HIDE DEF s
<1>5. /\ UNCHANGED <<engine, jobs, running, generation, stopping, settings, monitoring, nodeId, ops>>
      /\ UNCHANGED <<commands, wanted, resolving, list, export, probes>>
      /\ shown' = [shown EXCEPT ![kind] = generation] /\ busy' = [busy EXCEPT ![wait] = FALSE]
      /\ answered' = [answered EXCEPT ![wait] = s.id]
  BY <1>3 DEF applyResult, Delivered, Lifecycle, Configured, Panels, Show
<1>6. shown' \in [Pages -> 0..MaxGeneration] /\ NothingStale'
  BY <1>1, <1>3, <1>5, ShowsCurrent
<1>7. busy' \in [Waits -> BOOLEAN] /\ \A w \in Waits : busy'[w] = IF w = wait THEN FALSE ELSE busy[w]
  BY <1>1, <1>5, Updated
<1>8. /\ answered' \in [{"search", "publish"} -> Nat]
      /\ \A w \in {"search", "publish"} : answered'[w] = IF w = wait THEN s.id ELSE answered[w]
  BY <1>1, <1>4, <1>5, Updated
<1>9. s.id = wanted[wait] /\ None(wait, commands, jobs, signals', generation)
  <2>1. ~None(wait, commands, jobs, signals, generation)
    BY <1>1, <1>3, <1>4, TopicTaken DEF s
  <2>2. One(wait, commands, jobs, signals, generation, wanted[wait], list.filter, TRUE)
    BY <1>1, <1>3, <2>1 DEF Awaited, Number, AnyOf
  <2>3. Is(s, wanted[wait], list.filter, TRUE) /\ None(wait, commands, jobs, signals', generation)
    <3> DEFINE id == wanted[wait]
               of == list.filter
               any == TRUE
    <3> HIDE DEF id, of, any
    <3>1. One(wait, commands, jobs, signals, generation, id, of, any)
      BY <2>2 DEF id, of, any
    <3>2. Is(signals[1], id, of, any) /\ None(wait, commands, jobs, Tail(signals), generation)
      BY <1>1, <1>3, <1>4, <3>1, TopicTaken DEF s
    <3>3. QED
      BY <1>3, <3>2 DEF s, id, of, any
  <2>4. QED
    BY <2>3 DEF Is
<1>10. Calm({})
  BY <1>3, <1>5 DEF Calm, Sends, Advances
<1>11. Interface' /\ FilterShown'
  BY <1>1, <1>5, <1>6, <1>7, <1>8 DEF Interface, FilterShown, InUse
<1>12. Answered'
  BY <1>1, <1>5, <1>7, <1>8, <1>9 DEF Answered, Waits
<1>13. ASSUME NEW t \in Topics PROVE AwaitedFor(t)'
  <2>1. CASE t = wait
    BY <1>1, <1>5, <1>7, <1>9, <2>1 DEF AwaitedFor, Waiting
  <2>2. CASE t # wait
    <3>1. AwaitedFor(t) /\ Waiting(t)' = Waiting(t) /\ Number(t)' = Number(t)
      BY <1>1, <1>5, <1>7, <2>2 DEF Awaited, AwaitedFor, Waiting, Number, Topics, Waits
    <3>2. s \notin ResultsOf(t, generation)
      BY <1>3, <2>2 DEF ResultsOf, Topics
    <3>3. QED
      BY <1>1, <1>5, <1>10, <3>1, <3>2, CalmTopic DEF s
  <2>3. QED
    BY <2>1, <2>2
<1>14. ProbeAwaited' /\ ExportAwaited'
  <2>1. busy'["probe"] = busy["probe"] /\ s.kind # "probe" /\ s.kind # "written" /\ s.kind # "export"
    BY <1>1, <1>3, <1>7 DEF Waits
  <2>2. QED
    BY <1>1, <1>5, <1>10, <2>1, CalmProbe, CalmExport DEF s
<1>15. QED
  <2>1. running /\ s.kind # "snapshot"
    BY <1>1, <1>3 DEF InUse
  <2>2. InUse => IF signals' # signals /\ signals[1].kind = "snapshot" /\ signals[1].gen = generation
                 THEN nodeId' = signals[1].at ELSE nodeId' = nodeId
    BY <1>5, <2>1 DEF s
  <2>3. QED
    BY <1>5, <1>6, <1>10, <1>11, <1>12, <1>13, <1>14, <2>1, <2>2, CalmStep

\* applyProbe().
LEMMA ProbeDelivery ==
    ASSUME IInv, applyProbe PROVE IInv'
<1> DEFINE s == signals[1]
<1>1. GoodProbes /\ ops \in Nat /\ resolving \subseteq [id : Nat, kind : {"probe", "probeAnnounce"}]
      /\ busy \in [Waits -> BOOLEAN] /\ "probe" \in Waits /\ "probe" \in Pages
  BY DEF IInv, Interface, GoodProbes, Waits, Pages
<1>2. take("probe") /\ Current(Head(signals))
  BY DEF applyProbe, Delivered
<1>3. /\ signals # <<>> /\ signals' = Tail(signals) /\ Head(signals) = s /\ ~stopping
      /\ s.kind = "probe" /\ s.gen = generation /\ InUse
  BY <1>2, Taken DEF Current
<1> HIDE DEF s
<1>4. /\ UNCHANGED <<engine, jobs, running, generation, stopping, settings, monitoring, nodeId, ops>>
      /\ UNCHANGED <<commands, wanted, answered, resolving, list, export>> /\ addProbe
      /\ shown' = [shown EXCEPT !["probe"] = generation] /\ busy' = [busy EXCEPT !["probe"] = FALSE]
  BY <1>3 DEF applyProbe, Delivered, Lifecycle, Configured, Show
<1>5. shown' \in [Pages -> 0..MaxGeneration] /\ NothingStale'
  BY <1>1, <1>3, <1>4, ShowsCurrent
<1>6. ~busy'["probe"]
  BY <1>1, <1>4
<1>7. Calm({}) /\ ProbeAwaited' /\ GoodProbes'
  BY <1>1, <1>3, <1>4, <1>6, ProbeAdded DEF Calm, Sends, Advances, ProbeAwaited
<1>8. QED
  BY <1>1, <1>3, <1>4, <1>5, <1>7, ProbeStep DEF s

\* A step that concerns the export alone, or nothing but the queue.
LEMMA ExportStep ==
    ASSUME IInv, Calm({}), signals' # signals => signals[1].kind \in {"export", "written"}
                                                 \/ signals[1].gen # generation,
           UNCHANGED <<settings, monitoring, nodeId, busy, wanted, answered, resolving, list, probes, shown, ops>>,
           export' \in Export, \A m, n \in export'.writing : m = n, export'.gen = export.gen,
           ~running => (export'.busy => export.busy), ExportAwaited'
    PROVE  IInv'
<1>1. /\ Exchange /\ Interface /\ Lives /\ NothingStale /\ Awaited /\ Answered /\ FilterShown /\ ProbeAwaited
  BY DEF IInv
<1>2. Interface' /\ NothingStale' /\ Answered' /\ FilterShown'
  BY <1>1 DEF Interface, NothingStale, Answered, FilterShown, InUse, Calm
<1>3. ~running => Quiet'
  BY <1>1 DEF Lives, Quiet
<1>4. ASSUME NEW t \in Topics PROVE AwaitedFor(t)'
  <2>1. AwaitedFor(t) /\ Waiting(t)' = Waiting(t) /\ Number(t)' = Number(t)
    BY <1>1 DEF Awaited, AwaitedFor, Waiting, Number
  <2>2. signals' = signals \/ signals[1] \notin ResultsOf(t, generation)
    BY DEF ResultsOf
  <2>3. QED
    BY <1>1, <2>1, <2>2, CalmTopic
<1>5. ProbeAwaited'
  BY <1>1, CalmProbe
<1>6. InUse => IF signals' # signals /\ signals[1].kind = "snapshot" /\ signals[1].gen = generation
               THEN nodeId' = signals[1].at ELSE nodeId' = nodeId
  OBVIOUS
<1>7. QED
  BY <1>2, <1>3, <1>4, <1>5, <1>6, CalmStep

\* The nodes to export arrive, the writer's message does, or something of an older engine.
LEMMA ExportDelivery ==
    ASSUME IInv, nodeExportReady \/ exportWritten \/ late PROVE IInv'
<1> DEFINE s == signals[1]
<1>1. Exchange /\ export \in Export /\ ExportAwaited /\ \A m, n \in export.writing : m = n
  BY DEF IInv, Interface
<1>2. /\ signals # <<>> /\ signals' = Tail(signals) /\ ~stopping
      /\ UNCHANGED <<engine, jobs, running, generation, stopping, settings, monitoring, nodeId, ops>>
      /\ UNCHANGED <<commands, busy, wanted, answered, resolving, shown, list, probes>>
  BY DEF nodeExportReady, exportWritten, late, Delivered, take, Lifecycle, Configured, Asked, uiVars
<1>3. Head(signals) = s /\ s \in Signal
  BY <1>1, <1>2, TailOf DEF Exchange, GoodSignals
<1>4. Calm({}) /\ s.id \in Nat
  BY <1>2, <1>3 DEF Calm, Sends, Advances, Signal
<1> HIDE DEF s
<1>5. CASE nodeExportReady
  <2>1. s.kind = "export" /\ s.gen = generation /\ writeExport(s) /\ InUse
    BY <1>3, <1>5, Taken DEF nodeExportReady, Delivered, take, Current, s
  <2>2. running
    BY <2>1 DEF InUse
  <2>3. CASE s.id = export.id
    <3>1. export' = [export EXCEPT !.busy = TRUE, !.writing = {s.id}]
      BY <2>1, <2>3 DEF writeExport
    <3>2. /\ export' \in Export /\ export'.gen = export.gen /\ export'.id = export.id
          /\ export'.writing = {s.id}
      BY <1>1, <1>4, <3>1 DEF Export
    <3>3. ExportAwaited'
      BY <2>3, <3>2 DEF ExportAwaited
    <3>4. \A m, n \in export'.writing : m = n
      BY <3>2
    <3>5. QED
      BY <1>2, <1>4, <2>1, <2>2, <3>2, <3>3, <3>4, ExportStep DEF s
  <2>4. CASE s.id # export.id
    <3>1. export' = export
      BY <2>1, <2>4 DEF writeExport
    <3>2. ExportAwaited'
      BY <1>1, <1>4, <2>4, <3>1, CalmExport DEF s
    <3>3. QED
      BY <1>1, <1>2, <1>4, <2>1, <2>2, <3>1, <3>2, ExportStep DEF s
  <2>5. QED
    BY <2>3, <2>4
<1>6. CASE exportWritten
  <2>1. /\ s.kind = "written" /\ export' = [export EXCEPT !.busy = export.busy /\ ~(s.id = export.id)]
    BY <1>1, <1>3, <1>6 DEF exportWritten, take, EndsExport, Export
  <2>2. CASE s.id = export.id
    <3>1. export' = [export EXCEPT !.busy = FALSE]
      BY <2>1, <2>2
    <3>2. /\ export' \in Export /\ export'.gen = export.gen /\ export'.busy = FALSE
          /\ export'.writing = export.writing
      BY <1>1, <3>1 DEF Export
    <3>3. ExportAwaited'
      BY <3>2 DEF ExportAwaited
    <3>4. QED
      BY <1>1, <1>2, <1>4, <2>1, <3>2, <3>3, ExportStep DEF s
  <2>3. CASE s.id # export.id
    <3>1. export' = export
      <4>1. (export.busy /\ ~(s.id = export.id)) = export.busy
        BY <1>1, <2>3 DEF Export
      <4>2. QED
        BY <1>1, <2>1, <4>1 DEF Export
    <3>2. ExportAwaited'
      BY <1>1, <1>4, <2>3, <3>1, CalmExport DEF s
    <3>3. QED
      BY <1>1, <1>2, <1>4, <2>1, <3>1, <3>2, ExportStep DEF s
  <2>4. QED
    BY <2>2, <2>3
<1>7. CASE late
  <2>1. s.kind # "written" /\ s.gen # generation /\ export' = export
    BY <1>3, <1>7 DEF late, Current, uiVars
  <2>2. ExportAwaited'
    BY <1>1, <1>4, <2>1, CalmExport DEF s
  <2>3. QED
    BY <1>1, <1>2, <1>4, <2>1, <2>2, ExportStep DEF s
<1>8. QED
  BY <1>5, <1>6, <1>7

\* What is delivered.
LEMMA DeliverKeeps ==
    ASSUME IInv, Deliver PROVE IInv'
<1>1. CASE applyPeerSearch \/ applyItemSearch \/ applyPublish
  BY <1>1, ResultDelivery DEF applyPeerSearch, applyItemSearch, applyPublish
<1>2. QED
  BY <1>1, PlainDelivery, ProbeDelivery, PageArrives, ExportDelivery, Zenon DEF Deliver

-----------------------------------------------------------------------------
(* The writer, starting and stopping keep the invariant                    *)

\* The thread that writes the file posts that it is done.
LEMMA WrittenKeeps ==
    ASSUME IInv, written PROVE IInv'
<1>1. /\ Exchange /\ Interface /\ Lives /\ Generations /\ NothingStale /\ Awaited /\ Answered
      /\ FilterShown /\ ProbeAwaited /\ ExportAwaited /\ SettingsAgree /\ IdFollows
      /\ export \in Export /\ engine \in Engine /\ GoodSignals(signals)
  BY DEF IInv, Interface, Exchange
<1>2. PICK id \in export.writing :
        export' = [export EXCEPT !.writing = {}] /\ emit([Plain("written", id) EXCEPT !.gen = 0])
  BY DEF written
<1> DEFINE s == [Plain("written", id) EXCEPT !.gen = 0]
<1>3. id \in Nat /\ \A m \in export.writing : m = id
  BY <1>1, <1>2 DEF Export, Interface
<1>4. GoodSignal(s) /\ s.kind = "written" /\ s.id = id /\ s.gen = 0
  <2>1. s \in Signal /\ s.kind = "written" /\ s.id = id /\ s.gen = 0
    BY <1>1, <1>3 DEF Plain, Signal, Engine
  <2> HIDE DEF s
  <2>2. QED
    BY <2>1 DEF GoodSignal
<1>5. signals' = Append(signals, s)
  BY <1>2 DEF emit
<1> HIDE DEF s
<1>6. /\ UNCHANGED <<engine, commands, jobs, running, generation, stopping, settings, monitoring, nodeId, ops>>
      /\ UNCHANGED <<busy, wanted, answered, resolving, shown, list, probes>>
  BY DEF written, Lifecycle, Configured, Asked
<1>7. /\ export' \in Export /\ export'.writing = {} /\ export'.gen = export.gen
      /\ export'.busy = export.busy /\ export'.id = export.id
  BY <1>1, <1>2 DEF Export
<1>8. GoodSignals(signals') /\ Longer(signals, signals', s)
  BY <1>1, <1>4, <1>5, SignalAdded
<1>9. \A i \in 1..Len(signals') :
        (i \in 1..Len(signals) /\ signals'[i] = signals[i]) \/ signals'[i] = s
  <2>1. \A i \in 1..Len(signals') : i \in 1..Len(signals) \/ i = Len(signals) + 1
    BY <1>8 DEF Longer
  <2>2. QED
    BY <1>8, <2>1 DEF Longer
<1>10. /\ \A i \in 1..Len(signals) : i \in 1..Len(signals') /\ signals'[i] = signals[i]
       /\ \E i \in 1..Len(signals') : signals'[i] = s
  BY <1>8 DEF Longer
<1>11. Exchange' /\ InUse' = InUse
  BY <1>1, <1>6, <1>8 DEF Exchange, InUse
<1>12. Interface'
  BY <1>1, <1>6, <1>7 DEF Interface
<1>13. Lives'
  BY <1>1, <1>6 DEF Lives, InUse
<1>14. Generations'
  BY <1>1, <1>4, <1>6, <1>7, <1>9, <1>11 DEF Generations
<1>15. NothingStale' /\ Answered' /\ FilterShown'
  BY <1>1, <1>6 DEF NothingStale, Answered, FilterShown, InUse
<1>16. Awaited'
  <2>1. ASSUME NEW t \in Topics PROVE AwaitedFor(t)'
    <3> DEFINE P == ResultsOf(t, generation)
               of == list.filter
               any == AnyOf(t)
               n == Number(t)
    <3>1. s \notin P
      BY <1>4 DEF ResultsOf
    <3>2. Waiting(t)' = Waiting(t) /\ Number(t)' = n /\ AnyOf(t)' = any /\ list'.filter = of
      BY <1>6 DEF Waiting, Number, AnyOf
    <3>3. InUse => IF Waiting(t) THEN One(t, commands, jobs, signals, generation, n, of, any)
                   ELSE None(t, commands, jobs, signals, generation)
      BY <1>1 DEF Awaited
    <3> HIDE DEF P, of, any, n
    <3>4. /\ NoneIn(signals, P) => NoneIn(signals', P)
          /\ OneIn(signals, P, n, of, any) => OneIn(signals', P, n, of, any)
      BY <1>8, <3>1, EndPosted
    <3>5. /\ One(t, commands, jobs, signals, generation, n, of, any) =>
               One(t, commands, jobs, signals', generation, n, of, any)
          /\ None(t, commands, jobs, signals, generation) => None(t, commands, jobs, signals', generation)
      BY <3>4 DEF One, None, P
    <3>6. QED
      BY <1>6, <1>11, <3>2, <3>3, <3>5 DEF AwaitedFor
  <2>2. QED
    BY <2>1 DEF Awaited, AwaitedFor
<1>17. ProbeAwaited'
  BY <1>1, <1>6, <1>10, <1>11 DEF ProbeAwaited, ProbeComes
<1>18. ExportAwaited'
  BY <1>1, <1>3, <1>4, <1>6, <1>7, <1>10, <1>11 DEF ExportAwaited, ExportComes
<1>19. SettingsAgree'
  BY <1>1, <1>6 DEF SettingsAgree, InUse
<1>20. IdFollows'
  <2>1. ASSUME InUse PROVE Tells(signals', generation', engine', nodeId')
    <3>1. Tells(signals, generation, engine, nodeId)
      BY <1>1, <2>1, AgreeForm
    <3>2. s.kind # "snapshot"
      BY <1>4
    <3>3. Tells(Append(signals, s), generation, engine, nodeId)
      BY <1>1, <1>4, <3>1, <3>2, TellsPosted
    <3>4. QED
      BY <1>5, <1>6, <3>3
  <2>2. (InUse => Tells(signals, generation, engine, nodeId))'
    BY <1>11, <2>1
  <2>3. QED
    BY <1>11, <2>2, AgreeForm, PTL
<1>21. QED
  BY <1>11, <1>12, <1>13, <1>14, <1>15, <1>16, <1>17, <1>18, <1>19, <1>20 DEF IInv

\* While no engine is in use, the rest of the invariant says nothing.
LEMMA NotInUse ==
    ASSUME ~InUse', Exchange', Interface', Lives', Generations', NothingStale', Answered'
    PROVE  IInv'
  BY DEF IInv, Awaited, FilterShown, ProbeAwaited, ExportAwaited, SettingsAgree, IdFollows

\* stopEngine() posts the shutdown behind what was posted before.
LEMMA StopKeeps ==
    ASSUME IInv, stopEngine PROVE IInv'
<1> DEFINE c == Cmd("shutdown", 0, 0, 0)
<1>1. /\ Exchange /\ Interface /\ Lives /\ Generations /\ NothingStale /\ Answered
      /\ generation \in Nat /\ commands \in Seq(Posted)
  BY DEF IInv, Interface, Exchange
<1>2. /\ UNCHANGED <<engine, jobs, signals, running, settings, monitoring, nodeId, ops>>
      /\ UNCHANGED <<busy, wanted, answered, resolving, shown, list, export, probes>>
      /\ ~stopping /\ running /\ stopping' = TRUE /\ generation' = generation + 1
      /\ generation < MaxGeneration /\ commands' = Append(commands, c)
  BY DEF stopEngine, OnlyCommands, Configured, Asked, Panels, post
<1>3. c \in Posted /\ c.kind = "shutdown"
  BY DEF Cmd, Posted, Names
<1> HIDE DEF c
<1>4. commands' \in Seq(Posted) /\ Longer(commands, commands', c)
  BY <1>1, <1>2, <1>3, AppendTo
<1>5. ~InUse' /\ InUse
  BY <1>2 DEF InUse
<1>6. Exchange'
  BY <1>1, <1>2, <1>4 DEF Exchange
<1>7. Interface' /\ Answered'
  BY <1>1, <1>2 DEF Interface, Answered
<1>8. Lives'
  <2>1. \A i \in 1..Len(commands') : i \in 1..Len(commands) \/ i = Len(commands')
    BY <1>4 DEF Longer
  <2>2. \A i \in 1..Len(commands') : commands'[i].kind = "shutdown" => i = Len(commands')
    BY <1>1, <1>4, <1>5, <2>1 DEF Longer, Lives
  <2>3. engine.gen = generation /\ engine.up # {}
    BY <1>1, <1>5 DEF Lives
  <2>4. QED
    BY <1>1, <1>2, <1>5, <2>2, <2>3 DEF Lives
<1>9. Generations'
  <2>1. ASSUME NEW i \in 1..Len(signals), signals[i].kind # "written"
        PROVE  signals[i].gen < generation + 1
    <3>1. GoodSignal(signals[i])
      BY <1>1 DEF Exchange, GoodSignals
    <3>2. signals[i].gen \in Nat
      BY <3>1 DEF GoodSignal, Signal
    <3>3. signals[i].gen <= generation
      BY <1>1, <2>1 DEF Generations
    <3>4. QED
      BY <1>1, <3>2, <3>3
  <2>2. \A i \in 1..Len(signals) : signals[i].kind # "written" => signals[i].gen <= generation + 1
    <3>1. \A i \in 1..Len(signals) : GoodSignal(signals[i])
      BY <1>1 DEF Exchange, GoodSignals
    <3>2. \A i \in 1..Len(signals) : signals[i].gen \in Nat
      BY <3>1 DEF GoodSignal, Signal
    <3>3. QED
      BY <1>1, <2>1, <3>2
  <2>3. export.gen < generation + 1 /\ export.gen <= generation + 1
    BY <1>1 DEF Interface, Export, Generations
  <2>4. QED
    BY <1>2, <2>1, <2>2, <2>3 DEF Generations
<1>10. NothingStale'
  BY <1>1, <1>2 DEF NothingStale
<1>11. QED
  BY <1>5, <1>6, <1>7, <1>8, <1>9, <1>10, NotInUse

\* The engine is deleted and the pages are cleared.
LEMMA StoppedKeeps ==
    ASSUME IInv, stopped PROVE IInv'
<1>1. /\ Exchange /\ Interface /\ Lives /\ Generations /\ engine.up = {} /\ stopping
  BY DEF IInv, stopped
<1>2. commands = <<>> /\ jobs = {} /\ ~engine.due
  BY <1>1 DEF Lives
<1>3. /\ UNCHANGED <<commands, jobs, signals, generation, settings, nodeId, resolving, export, ops>>
      /\ engine' = NoEngine /\ running' = FALSE /\ stopping' = FALSE /\ monitoring' = FALSE
      /\ busy' = [w \in Waits |-> FALSE] /\ wanted' = [w \in {"search", "publish"} |-> 0]
      /\ answered' = [w \in {"search", "publish"} |-> 0] /\ probes' = NoProbes
      /\ list' = [list EXCEPT !.inFlight = FALSE, !.again = FALSE, !.at = 0, !.total = 0, !.loaded = FALSE]
      /\ shown' = [p \in Pages |-> 0]
  BY DEF stopped, resetStatus, clearSearch
<1>4. ~InUse' /\ ~InUse
  BY <1>1, <1>3 DEF InUse
<1>5. /\ engine' \in Engine /\ engine'.up = {} /\ ~engine'.due
  BY <1>3 DEF NoEngine, Engine
<1>6. Exchange'
  BY <1>1, <1>3, <1>5 DEF Exchange
<1>7. list' \in List /\ list'.inFlight = FALSE /\ list'.loaded = FALSE
  BY <1>1, <1>3 DEF Interface, List
<1>8. GoodProbes'
  BY <1>3 DEF GoodProbes, NoProbes
<1>9. Interface'
  <2>1. /\ busy' \in [Waits -> BOOLEAN] /\ wanted' \in [{"search", "publish"} -> Nat]
        /\ answered' \in [{"search", "publish"} -> Nat] /\ shown' \in [Pages -> 0..MaxGeneration]
    BY <1>3
  <2>2. QED
    BY <1>1, <1>3, <1>7, <1>8, <2>1 DEF Interface, GoodProbes
<1>10. Lives'
  BY <1>2, <1>3, <1>4, <1>5, <1>7 DEF Lives
<1>11. Generations'
  BY <1>1, <1>3, <1>4 DEF Generations
<1>12. NothingStale' /\ Answered'
  BY <1>3 DEF NothingStale, Answered
<1>13. QED
  BY <1>4, <1>6, <1>9, <1>10, <1>11, <1>12, NotInUse

\* start() of an engine: nothing is under way in it yet.
LEMMA StartedKeeps ==
    ASSUME IInv, ~stopping, ~running, nodeId # HalfTyped, generation < MaxGeneration,
           NEW wantV6, NEW v6Bound \in BOOLEAN, generation' = generation + 1, running' = TRUE,
           start(generation + 1, settings, nodeId, wantV6, v6Bound),
           UNCHANGED <<commands, jobs, stopping, Configured, Asked, shown, Panels, ops>>
    PROVE  IInv'
<1> DEFINE g == generation + 1
           first == snapshot(g, nodeId)
           told == [first EXCEPT !.kind = "notice"]
<1>1. /\ Exchange /\ Interface /\ Lives /\ Generations /\ NothingStale /\ Answered
      /\ generation \in Nat /\ GoodSignals(signals) /\ nodeId \in NodeIds \cup {0} /\ nodeId \in Nat
      /\ signals \in Seq(Signal) /\ settings \in [Settings -> Nat]
  BY DEF IInv, Interface, Exchange, GoodSignals
<1>2. /\ commands = <<>> /\ jobs = {} /\ ~monitoring /\ ~list.inFlight /\ ~list.loaded
      /\ \A w \in Waits : ~busy[w]
  BY <1>1 DEF Lives
<1>3. /\ UNCHANGED <<commands, jobs, stopping, settings, monitoring, nodeId, ops>>
      /\ UNCHANGED <<busy, wanted, answered, resolving, shown, list, export, probes>>
  BY DEF Configured, Asked, Panels
<1>4. g \in Nat /\ GoodSignal(first) /\ first.kind = "snapshot" /\ first.gen = g /\ first.at = nodeId
  BY <1>1, SnapshotSignal
<1>5. GoodSignal(told) /\ told.kind = "notice" /\ told.gen = g
  <2>1. first \in Signal
    BY <1>4 DEF GoodSignal
  <2> HIDE DEF first
  <2>2. told \in Signal /\ told.kind = "notice" /\ told.gen = g
    BY <1>4, <2>1 DEF Signal
  <2> HIDE DEF told
  <2>3. QED
    BY <2>2 DEF GoodSignal
<1>6. /\ engine' = [gen |-> g, up |-> IF v6Bound THEN Families ELSE {"v4"}, settings |-> settings,
                    monitoring |-> FALSE, id |-> nodeId, due |-> FALSE]
      /\ \/ signals' = signals \o <<told, first>>
         \/ signals' = signals \o <<first>>
  BY DEF start
<1>7. /\ engine' \in Engine /\ engine'.gen = g /\ engine'.up # {} /\ engine'.id = nodeId
      /\ engine'.settings = settings /\ engine'.monitoring = FALSE
  BY <1>1, <1>4, <1>6 DEF Engine, Families
<1> HIDE DEF first, told, g
<1>8. \E S : /\ GoodSignals(S) /\ signals' = Append(S, first) /\ Follows(signals, signals', g)
             /\ Follows(signals, S, g)
  <2>1. first \in Signal /\ told \in Signal
    BY <1>4, <1>5 DEF GoodSignal
  <2>2. /\ Follows(signals, signals, g) /\ GoodSignals(Append(signals, told))
        /\ Follows(signals, Append(signals, told), g) /\ Follows(signals, Append(signals, first), g)
    BY <1>1, <1>4, <1>5, SignalsFollow, SignalAdded
  <2>3. CASE signals' = signals \o <<first>>
    <3>1. signals' = Append(signals, first)
      BY <1>1, <2>1, <2>3
    <3>2. QED
      BY <1>1, <2>2, <3>1
  <2>4. CASE signals' = signals \o <<told, first>>
    <3> DEFINE S == Append(signals, told)
    <3>1. signals' = Append(S, first)
      BY <1>1, <2>1, <2>4
    <3> HIDE DEF S
    <3>2. GoodSignals(S) /\ Follows(signals, S, g) /\ Follows(S, Append(S, first), g)
      BY <1>4, <2>2, SignalAdded DEF S
    <3>3. Follows(signals, signals', g)
      BY <3>1, <3>2 DEF Follows
    <3>4. QED
      BY <3>1, <3>2, <3>3
  <2>5. QED
    BY <1>6, <2>3, <2>4
<1>9. PICK S : /\ GoodSignals(S) /\ signals' = Append(S, first) /\ Follows(signals, signals', g)
  BY <1>8
<1>10. generation' = g /\ running' /\ ~stopping' /\ InUse' /\ ~InUse
  BY <1>3 DEF InUse, g
<1>11. Exchange'
  BY <1>1, <1>2, <1>3, <1>7, <1>9 DEF Exchange, Follows
<1>12. Interface' /\ Answered' /\ FilterShown'
  BY <1>1, <1>2, <1>3, <1>10 DEF Interface, Answered, FilterShown, g
<1>13. Lives'
  BY <1>2, <1>3, <1>7, <1>10 DEF Lives
<1>14. ASSUME NEW i \in 1..Len(signals), signals[i].kind # "written"
       PROVE  signals[i].gen < g /\ signals[i].gen <= g /\ signals[i].gen # g
  <2>1. GoodSignal(signals[i])
    BY <1>1 DEF GoodSignals
  <2>2. signals[i].gen \in Nat
    BY <2>1 DEF GoodSignal, Signal
  <2>3. signals[i].gen <= generation
    BY <1>1, <1>14 DEF Generations
  <2>4. QED
    BY <1>1, <2>2, <2>3 DEF g
<1>15. export.gen \in Nat /\ export.gen < g
  BY <1>1 DEF Interface, Export, Generations, g
<1>16. Generations'
  <2>1. ASSUME NEW i \in 1..Len(signals'), signals'[i].kind # "written" PROVE signals'[i].gen <= g
    <3>1. CASE i \in 1..Len(signals)
      BY <1>9, <1>14, <2>1, <3>1 DEF Follows
    <3>2. CASE i \notin 1..Len(signals)
      BY <1>4, <1>9, <3>2 DEF Follows
    <3>3. QED
      BY <3>1, <3>2
  <2>2. export.gen <= g
    BY <1>4, <1>15
  <2>3. QED
    BY <1>3, <1>10, <2>1, <2>2 DEF Generations
<1>17. NothingStale'
  BY <1>1, <1>3, <1>10 DEF NothingStale
<1>18. Awaited'
  <2>1. ASSUME NEW t \in Topics PROVE None(t, commands', jobs', signals', g) /\ ~Waiting(t)'
    <3>1. ~Waiting(t)'
      BY <1>2, <1>3 DEF Waiting, Topics, Waits
    <3>2. NoneIn(commands', CallsOf(t)) /\ NoJob(jobs', JobsOf(t))
      BY <1>2, <1>3 DEF NoneIn, Places, NoJob
    <3>3. ASSUME NEW i \in 1..Len(signals') PROVE signals'[i] \notin ResultsOf(t, g)
      <4>1. CASE i \in 1..Len(signals)
        <5>1. signals'[i] = signals[i] /\ (signals[i].kind = "written" \/ signals[i].gen # g)
          BY <1>9, <1>14, <4>1 DEF Follows
        <5>2. QED
          BY <5>1 DEF ResultsOf
      <4>2. CASE i \notin 1..Len(signals)
        <5>1. signals'[i].kind \in {"snapshot", "notice"}
          <6>1. CASE signals' = signals \o <<told, first>>
            <7>1. Len(signals') = Len(signals) + 2 /\ signals'[Len(signals) + 1] = told
                  /\ signals'[Len(signals) + 2] = first
              BY <1>1, <6>1
            <7>2. i = Len(signals) + 1 \/ i = Len(signals) + 2
              BY <1>1, <4>2, <7>1
            <7>3. QED
              BY <1>4, <1>5, <7>1, <7>2
          <6>2. CASE signals' = signals \o <<first>>
            <7>1. Len(signals') = Len(signals) + 1 /\ signals'[Len(signals) + 1] = first
              BY <1>1, <6>2
            <7>2. i = Len(signals) + 1
              BY <1>1, <4>2, <7>1
            <7>3. QED
              BY <1>4, <7>1, <7>2
          <6>3. QED
            BY <1>6, <6>1, <6>2
        <5>2. QED
          BY <5>1 DEF ResultsOf
      <4>3. QED
        BY <4>1, <4>2
    <3>4. NoneIn(signals', ResultsOf(t, g))
      BY <3>3 DEF NoneIn, Places
    <3>5. QED
      BY <3>1, <3>2, <3>4 DEF None
  <2>2. QED
    BY <1>10, <2>1 DEF Awaited
<1>19. ProbeAwaited' /\ ExportAwaited'
  BY <1>2, <1>3, <1>10, <1>15 DEF ProbeAwaited, ExportAwaited, Waits
<1>20. SettingsAgree'
  <2>1. SwitchesOf(<<>>) = {} /\ \A n : SetsOf(<<>>, n) = {}
    BY DEF SwitchesOf, SetsOf
  <2>2. \A f, v : Settles({}, f, v, v)
    BY DEF Settles, Latest
  <2>3. engine'.monitoring = monitoring /\ engine'.settings = settings
    BY <1>1, <1>2, <1>7 DEF Interface
  <2>4. Agrees(<<>>, engine', settings, monitoring)
    BY <2>1, <2>2, <2>3 DEF Agrees
  <2>5. Agrees(commands, engine, settings, monitoring)'
    BY <1>2, <1>3, <2>4
  <2>6. QED
    BY <1>11, <2>5, AgreeForm, PTL
<1>21. IdFollows'
  <2> DEFINE e == [due |-> TRUE]
             d == engine'
  <2>1. Tells(S, g, e, nodeId)
    BY DEF Tells
  <2>2. first.kind = "snapshot" /\ first.gen = g /\ first.at = d.id
    BY <1>4, <1>7
  <2> HIDE DEF e, d
  <2>3. Tells(Append(S, first), g, d, nodeId)
    BY <1>4, <1>9, <2>1, <2>2, TellsPosted
  <2>4. Tells(signals, generation, engine, nodeId)'
    BY <1>3, <1>9, <1>10, <2>3 DEF d
  <2>5. QED
    BY <1>11, <2>4, AgreeForm, PTL
<1>22. QED
  BY <1>11, <1>12, <1>13, <1>16, <1>17, <1>18, <1>19, <1>20, <1>21 DEF IInv

\* startEngine(), with a socket or without.
LEMMA StartKeeps ==
    ASSUME IInv, startEngine PROVE IInv'
<1>1. /\ ~stopping /\ ~running /\ nodeId # HalfTyped /\ generation < MaxGeneration
      /\ UNCHANGED <<commands, jobs, stopping, Configured, Asked, shown, Panels, ops>>
  BY DEF startEngine
<1>2. CASE generation + 2 <= MaxGeneration /\ generation' = generation + 2
           /\ UNCHANGED <<engine, signals, running>>
  <2>1. /\ Exchange /\ Interface /\ Lives /\ Generations /\ NothingStale /\ Answered /\ generation \in Nat
    BY DEF IInv, Interface
  <2>2. /\ UNCHANGED <<engine, signals, running, commands, jobs, stopping, settings, monitoring, nodeId, ops>>
        /\ UNCHANGED <<busy, wanted, answered, resolving, shown, list, export, probes>>
    BY <1>1, <1>2 DEF Configured, Asked, Panels
  <2>3. ~InUse /\ ~InUse'
    BY <1>1, <2>2 DEF InUse
  <2>4. Exchange' /\ Interface' /\ Answered' /\ NothingStale'
    BY <1>1, <1>2, <2>1, <2>2 DEF Exchange, Interface, Answered, NothingStale
  <2>5. Lives'
    BY <1>1, <2>1, <2>2, <2>3 DEF Lives
  <2>6. Generations'
    <3>1. ASSUME NEW n \in Nat, n <= generation PROVE n <= generation + 2 /\ n < generation + 2
      BY <2>1, <3>1
    <3>2. export.gen \in Nat /\ \A i \in 1..Len(signals) : GoodSignal(signals[i])
      BY <2>1 DEF Interface, Export, Exchange, GoodSignals
    <3>3. \A i \in 1..Len(signals) : signals[i].gen \in Nat
      BY <3>2 DEF GoodSignal, Signal
    <3>4. QED
      BY <1>2, <2>1, <2>2, <2>3, <3>1, <3>2, <3>3 DEF Generations
  <2>7. QED
    BY <2>3, <2>4, <2>5, <2>6, NotInUse
<1>3. CASE \E v6Bound \in {TRUE, FALSE} :
              /\ generation' = generation + 1 /\ running' = TRUE
              /\ start(generation + 1, settings, nodeId, ipv6, v6Bound)
  <2>1. PICK v6Bound \in BOOLEAN :
              /\ generation' = generation + 1 /\ running' = TRUE
              /\ start(generation + 1, settings, nodeId, ipv6, v6Bound)
    BY <1>3
  <2>2. QED
    BY <1>1, <2>1, StartedKeeps
<1>4. QED
  BY <1>2, <1>3 DEF startEngine

-----------------------------------------------------------------------------
(* The invariant                                                           *)

\* The program is started.
LEMMA InitKeeps == Init => IInv
<1> SUFFICES ASSUME Init PROVE IInv
  OBVIOUS
<1>1. /\ engine = NoEngine /\ commands = <<>> /\ jobs = {} /\ signals = <<>>
      /\ running = FALSE /\ generation = 0 /\ stopping = FALSE /\ ops = 0 /\ monitoring = FALSE
      /\ settings = [s \in Settings |-> 0] /\ nodeId \in NodeIds /\ resolving = {}
      /\ busy = [w \in Waits |-> FALSE] /\ wanted = [w \in {"search", "publish"} |-> 0]
      /\ answered = [w \in {"search", "publish"} |-> 0] /\ shown = [p \in Pages |-> 0]
      /\ list = EmptyList /\ probes = NoProbes
      /\ export = [busy |-> FALSE, id |-> 0, gen |-> 0, writing |-> {}]
  BY DEF Init, EngineInit
<1>2. engine \in Engine /\ engine.up = {} /\ ~engine.due
  BY <1>1 DEF NoEngine, Engine
<1>3. Exchange
  BY <1>1, <1>2 DEF Exchange, GoodSignals
<1>4. list \in List /\ ~list.inFlight /\ ~list.loaded /\ export \in Export /\ export.writing = {} /\ GoodProbes
  BY <1>1 DEF EmptyList, List, Export, NoProbes, GoodProbes
<1>5. /\ settings \in [Settings -> Nat] /\ busy \in [Waits -> BOOLEAN]
      /\ wanted \in [{"search", "publish"} -> Nat] /\ answered \in [{"search", "publish"} -> Nat]
      /\ shown \in [Pages -> 0..MaxGeneration]
  BY <1>1
<1>6. Interface
  <2>1. /\ running \in BOOLEAN /\ stopping \in BOOLEAN /\ generation \in 0..MaxGeneration
        /\ monitoring \in BOOLEAN /\ ops \in Nat
    <3>1. running = FALSE /\ stopping = FALSE /\ monitoring = FALSE /\ generation = 0 /\ ops = 0
      BY <1>1, Zenon
    <3>2. running \in BOOLEAN /\ stopping \in BOOLEAN /\ monitoring \in BOOLEAN
      BY <3>1, Zenon
    <3>3. 0 \in 0..MaxGeneration /\ 0 \in Nat
      OBVIOUS
    <3>4. QED
      BY <3>1, <3>2, <3>3, Zenon
  <2>2. nodeId \in NodeIds \cup {0} /\ resolving \subseteq [id : Nat, kind : {"probe", "probeAnnounce"}]
    BY <1>1, Zenon
  <2>3. \A m, n \in export.writing : m = n
    BY <1>4
  <2>4. QED
    BY <1>4, <1>5, <2>1, <2>2, <2>3 DEF Interface, GoodProbes
<1>7. Lives /\ Generations /\ NothingStale /\ Answered /\ ~InUse
  BY <1>1, <1>2, <1>4 DEF Lives, Generations, NothingStale, Answered, InUse
<1>8. QED
  BY <1>3, <1>6, <1>7 DEF IInv, Awaited, FilterShown, ProbeAwaited, ExportAwaited, SettingsAgree, IdFollows

\* The user's calls.
LEMMA UserKeeps ==
    ASSUME IInv, User PROVE IInv'
<1>1. CASE setContactLimit \/ setCatalogCap \/ setReadOnlyMode \/ setPortForwarding
  <2>1. \E name \in Names : \E value \in {0, 1} : setSetting(name, value)
    BY <1>1 DEF setContactLimit, setCatalogCap, setReadOnlyMode, setPortForwarding, Names
  <2>2. QED
    BY <2>1, SettingCall
<1>2. QED
  BY <1>1, MonitoringCall, OtherCalls, AskCalls, RefusePublishCall, ProbeCalls, ListCalls, ExportCall,
     StartKeeps, StopKeeps, Zenon DEF User

\* Nothing happens.
LEMMA StutterKeeps ==
    ASSUME IInv, UNCHANGED vars PROVE IInv'
<1>1. UNCHANGED <<engine, commands, jobs, signals>> /\ UNCHANGED uiVars
  BY DEF vars, engineVars
<1>2. /\ Exchange' /\ Interface' /\ NothingStale' /\ Answered' /\ FilterShown'
  BY <1>1, CalmInterface DEF IInv, Exchange
<1>3. Lives' /\ Generations' /\ ProbeAwaited' /\ ExportAwaited'
  BY <1>1 DEF IInv, uiVars, Lives, Generations, ProbeAwaited, ExportAwaited, InUse
<1>4. Awaited'
  BY <1>1, CalmInterface DEF IInv, Awaited, uiVars
<1>5. SettingsAgree' /\ IdFollows'
  BY <1>1 DEF IInv, uiVars, SettingsAgree, IdFollows, InUse, Snapshots
<1>6. QED
  BY <1>2, <1>3, <1>4, <1>5 DEF IInv

\* Every step of either thread, of the writer and of the resolver keeps it.
LEMMA Inductive == IInv /\ [Next]_vars => IInv'
<1> SUFFICES ASSUME IInv, [Next]_vars PROVE IInv'
  OBVIOUS
<1>1. QED
  BY UserKeeps, NameResolved, WrittenKeeps, StoppedKeeps, DeliverKeeps, EngineStepKeeps, StutterKeeps,
     Zenon DEF Next

\* The inductive invariant of the controller and the engine.
THEOREM Safety == Spec => []IInv
<1>1. IInv /\ [Next]_vars => IInv'
  BY Inductive
<1>2. QED
  BY <1>1, InitKeeps, PTL DEF Spec

-----------------------------------------------------------------------------
(* What it says                                                            *)

\* m_nodeQueryInFlight counts the queries for pages under way.
LEMMA CountsQueries == IInv => OneNodeQuery
<1> SUFFICES ASSUME IInv, InUse
             PROVE  (IF list.inFlight THEN 1 ELSE 0) =
                        Cardinality({i \in DOMAIN commands : commands[i].kind = "queryNodes"})
                        + Cardinality({i \in DOMAIN signals : signals[i].kind = "page"
                                                              /\ signals[i].gen = generation})
  BY DEF OneNodeQuery
<1> DEFINE C == Places(commands, CallsOf("page"))
           S == Places(signals, ResultsOf("page", generation))
<1>1. commands \in Seq(Posted) /\ signals \in Seq(Signal) /\ Awaited /\ list \in List
  BY DEF IInv, Exchange, GoodSignals, Interface
<1>2. C = {i \in DOMAIN commands : commands[i].kind = "queryNodes"}
  BY <1>1 DEF Places, CallsOf
<1>3. S = {i \in DOMAIN signals : signals[i].kind = "page" /\ signals[i].gen = generation}
  BY <1>1 DEF Places, ResultsOf
<1>4. IF list.inFlight
      THEN One("page", commands, jobs, signals, generation, list.requestId, list.filter, list.again)
      ELSE None("page", commands, jobs, signals, generation)
  BY <1>1 DEF Awaited, Waiting, Number, AnyOf, Topics, List
<1>5. ~OneJob(jobs, JobsOf("page"), list.requestId, list.filter, list.again)
  BY DEF OneJob, JobsOf
<1>6. ~list.inFlight => C = {} /\ S = {}
  BY <1>4 DEF None, NoneIn
<1>7. list.inFlight => (S = {} /\ \E i : C = {i}) \/ (C = {} /\ \E i : S = {i})
  BY <1>4, <1>5 DEF One, OneIn, NoneIn
<1> HIDE DEF C, S
<1>8. Cardinality({}) = 0 /\ \A i : Cardinality({i}) = 1
  BY FS_EmptySet, FS_Singleton
<1>9. (IF list.inFlight THEN 1 ELSE 0) = Cardinality(C) + Cardinality(S)
  <2>1. CASE C = {} /\ S = {} /\ ~list.inFlight
    BY <1>8, <2>1
  <2>2. CASE S = {} /\ (\E i : C = {i}) /\ list.inFlight
    <3>1. Cardinality(C) = 1 /\ Cardinality(S) = 0
      BY <1>8, <2>2
    <3>2. QED
      BY <2>2, <3>1
  <2>3. CASE C = {} /\ (\E i : S = {i}) /\ list.inFlight
    <3>1. Cardinality(S) = 1 /\ Cardinality(C) = 0
      BY <1>8, <2>3
    <3>2. QED
      BY <2>3, <3>1
  <2>4. QED
    BY <1>6, <1>7, <2>1, <2>2, <2>3
<1>10. QED
  BY <1>2, <1>3, <1>9

\* What a page waits for is under way.
LEMMA WaitComes ==
    ASSUME Exchange, NEW t \in Topics, NEW id, NEW of, NEW any,
           One(t, commands, jobs, signals, generation, id, of, any)
    PROVE  \/ \E i \in DOMAIN commands : commands[i] \in CallsOf(t)
           \/ \E j \in jobs : j \in JobsOf(t)
           \/ \E i \in DOMAIN signals : signals[i] \in ResultsOf(t, generation)
<1>1. DOMAIN commands = 1..Len(commands) /\ DOMAIN signals = 1..Len(signals)
  BY DEF Exchange, GoodSignals
<1>2. CASE OneIn(commands, CallsOf(t), id, of, any)
  BY <1>1, <1>2 DEF OneIn, Places
<1>3. CASE OneJob(jobs, JobsOf(t), id, of, any)
  BY <1>3 DEF OneJob
<1>4. CASE OneIn(signals, ResultsOf(t, generation), id, of, any)
  BY <1>1, <1>4 DEF OneIn, Places
<1>5. QED
  BY <1>2, <1>3, <1>4 DEF One

\* The waits of the pages.
LEMMA AllAwaited == IInv => BusyIsAwaited
<1> SUFFICES ASSUME IInv, ~stopping
             PROVE  /\ busy["search"] =>
                          Coming({"searchPeers", "searchItem"}, {"peers", "item"}, {"peers", "item"})
                    /\ busy["publish"] =>
                          Coming({"announcePeer", "publishItem"}, {"announce", "put"}, {"publish"})
                    /\ busy["probe"] =>
                          \/ resolving # {}
                          \/ Coming({"probe", "probeAnnounce"}, {"probe", "probeAnnounce"}, {"probe"})
                    /\ running /\ export.busy /\ export.gen = generation =>
                          \/ Coming({"exportNodes"}, {}, {"export"}) \/ export.writing # {}
                          \/ \E i \in DOMAIN signals : signals[i].kind = "written"
  BY DEF BusyIsAwaited
<1>1. /\ Exchange /\ Awaited /\ ProbeAwaited /\ ExportAwaited
      /\ DOMAIN commands = 1..Len(commands) /\ DOMAIN signals = 1..Len(signals)
  BY DEF IInv, Exchange, GoodSignals
<1>2. (\E w \in Waits : busy[w]) \/ running => InUse
  BY DEF IInv, Lives, InUse
<1>3. ASSUME busy["search"]
      PROVE  Coming({"searchPeers", "searchItem"}, {"peers", "item"}, {"peers", "item"})
  <2>1. One("search", commands, jobs, signals, generation, Number("search"), list.filter, AnyOf("search"))
    BY <1>1, <1>2, <1>3 DEF Awaited, Waiting, Topics, Waits
  <2>2. \/ \E i \in DOMAIN commands : commands[i] \in CallsOf("search")
        \/ \E j \in jobs : j \in JobsOf("search")
        \/ \E i \in DOMAIN signals : signals[i] \in ResultsOf("search", generation)
    BY <1>1, <2>1, WaitComes DEF Topics
  <2>3. QED
    BY <2>2 DEF Coming, CallsOf, JobsOf, ResultsOf
<1>4. ASSUME busy["publish"]
      PROVE  Coming({"announcePeer", "publishItem"}, {"announce", "put"}, {"publish"})
  <2>1. One("publish", commands, jobs, signals, generation, Number("publish"), list.filter, AnyOf("publish"))
    BY <1>1, <1>2, <1>4 DEF Awaited, Waiting, Topics, Waits
  <2>2. \/ \E i \in DOMAIN commands : commands[i] \in CallsOf("publish")
        \/ \E j \in jobs : j \in JobsOf("publish")
        \/ \E i \in DOMAIN signals : signals[i] \in ResultsOf("publish", generation)
    BY <1>1, <2>1, WaitComes DEF Topics
  <2>3. QED
    BY <2>2 DEF Coming, CallsOf, JobsOf, ResultsOf
<1>5. ASSUME busy["probe"], resolving = {}
      PROVE  Coming({"probe", "probeAnnounce"}, {"probe", "probeAnnounce"}, {"probe"})
  BY <1>1, <1>2, <1>5 DEF ProbeAwaited, ProbeComes, Coming, Waits
<1>6. ASSUME running, export.busy, export.gen = generation
      PROVE  \/ Coming({"exportNodes"}, {}, {"export"}) \/ export.writing # {}
             \/ \E i \in DOMAIN signals : signals[i].kind = "written"
  BY <1>1, <1>2, <1>6 DEF ExportAwaited, ExportComes, Coming
<1>7. QED
  BY <1>3, <1>4, <1>5, <1>6

\* The results on the pages, and those on their way.
LEMMA AllRight == IInv => RightAnswers
<1> SUFFICES ASSUME IInv PROVE RightAnswers
  OBVIOUS
<1>1. Answered /\ GoodSignals(signals) /\ DOMAIN signals = 1..Len(signals)
  BY DEF IInv, Exchange, GoodSignals
<1>2. ASSUME NEW i \in DOMAIN signals, signals[i].kind = "item"
      PROVE  /\ signals[i].total = (IF signals[i].rows = {} THEN 0 ELSE 1)
             /\ signals[i].rows # {} => signals[i].at = Max(signals[i].rows)
  <2> DEFINE rows == signals[i].rows
             at == signals[i].at
  <2>1. /\ rows \subseteq {-1, 0, 1} /\ signals[i].total = (IF rows = {} THEN 0 ELSE 1)
        /\ rows # {} => Newest(at, rows)
    BY <1>1, <1>2 DEF GoodSignals, GoodSignal
  <2> HIDE DEF rows, at
  <2>2. ASSUME rows # {} PROVE at = Max(rows)
    <3>1. at \in rows /\ \A y \in rows : at >= y
      BY <2>1, <2>2 DEF Newest
    <3> DEFINE m == Max(rows)
    <3>2. m \in rows /\ \A y \in rows : m >= y
      BY <3>1 DEF Max
    <3> HIDE DEF m
    <3>3. m \in Int /\ at \in Int
      BY <2>1, <3>1, <3>2
    <3>4. m >= at /\ at >= m
      BY <3>1, <3>2
    <3>5. QED
      BY <3>3, <3>4 DEF m
  <2>3. QED
    BY <2>1, <2>2 DEF rows, at
<1>3. QED
  BY <1>1, <1>2 DEF RightAnswers, Answered

\* The bookkeeping of the node list (m_nodeQueryInFlight, m_nodeQueryAgain) is exact: as
\* many pages are under way as it says, and the rows shown are those of the filter set.
THEOREM ControllerSafety == Spec => []ControllerInv
<1>1. IInv => TypeOK
  <2> SUFFICES ASSUME IInv PROVE TypeOK
    OBVIOUS
  <2>1. Exchange /\ Interface
    BY DEF IInv
  <2>2. engine.up \subseteq Families /\ engine.id \in NodeIds \cup {0}
    BY <2>1 DEF Exchange, Engine
  <2>3. \A j \in jobs : j.remaining = Cardinality({f \in Families : j.part[f] \notin {"off", "done"}})
    BY <2>1 DEF Exchange, GoodJob, Active
  <2>4. list.offset \in Nat /\ list.at \in Nat /\ probes.rows \in 0..HistoryLimit
    BY <2>1 DEF Interface, List
  <2>5. QED
    BY <2>1, <2>2, <2>3, <2>4 DEF TypeOK, Interface
<1>2. IInv => ControllerInv
  BY <1>1, CountsQueries DEF ControllerInv, IInv
<1>3. QED
  BY <1>2, Safety, PTL

\* No busy flag of a page (m_searchBusy, m_publishBusy, m_probeBusy, m_exportBusy) outlives
\* what it waits for, across any number of stops and restarts.
THEOREM WaitsAreAwaited == Spec => []BusyIsAwaited
  BY AllAwaited, Safety, PTL

\* No page shows the data of an engine that is gone (the generation checks of startEngine).
THEOREM NothingStaleShown == Spec => []NothingStale
<1>1. IInv => NothingStale
  BY DEF IInv
<1>2. QED
  BY <1>1, Safety, PTL

\* A page that is not busy shows the answer to what was asked last, and searchItem reports
\* the newest item either family found.
THEOREM AnswersAreRight == Spec => []RightAnswers
  BY AllRight, Safety, PTL

\* The engine uses the settings and the ID the pages show once both queues are worked off.
THEOREM SettingsInUse == Spec => []ShownIsUsed
<1>1. IInv => ShownIsUsed
  BY DEF IInv, ShownIsUsed
<1>2. QED
  BY <1>1, Safety, PTL
=============================================================================
