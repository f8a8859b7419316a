---------------------------- MODULE DhtController ----------------------------
(***************************************************************************)
(* DhtController (src/DhtController.cpp): what the QML pages talk to, on   *)
(* the user interface's thread, composed with the engine it starts and     *)
(* stops on a thread of its own.                                           *)
(*                                                                         *)
(* A call of the user posts a command to the engine and marks the page     *)
(* busy; the engine's signals come back through the event queue, possibly  *)
(* after the engine they belong to was stopped or replaced, which is what  *)
(* the generation number is for.  While it stops the engine the interface  *)
(* waits (Qt::BlockingQueuedConnection) behind the commands posted before. *)
(***************************************************************************)
EXTENDS DhtEngine

CONSTANTS MaxOps,          \* bound: calls the user makes
          MaxGeneration,   \* bound: engines started and stopped
          Filters,         \* node list filters
          HistoryLimit     \* probe results kept (50)

ASSUME ControllerAssumption ==
    /\ MaxOps \in Nat /\ MaxGeneration \in Nat /\ HistoryLimit \in Nat \ {0}
    /\ Filters \subseteq Nat /\ 0 \in Filters

VARIABLES running, generation, stopping,   \* m_running, m_generation, destroyEngine
          settings, monitoring, ipv6,      \* what the pages show as set
          nodeId,                          \* the ID field; HalfTyped: not an ID
          busy, wanted, answered,          \* the busy flags; request asked last, shown last
          resolving,                       \* hostname probes waiting for DNS
          shown,                           \* generation whose data a page shows, 0: none
          list, export, store, probes,     \* node list, export, data store, probe history
          ops                              \* calls made so far (bound)

uiVars == <<running, generation, stopping, settings, monitoring, ipv6, nodeId, busy,
            wanted, answered, resolving, shown, list, export, store, probes, ops>>
vars == <<engineVars, uiVars>>

HalfTyped == 0
Waits == {"search", "publish", "probe"}
Pages == {"status", "peers", "item", "publish", "probe", "list", "store", "notice"}

EmptyList == [offset |-> 0, filter |-> 0, inFlight |-> FALSE, again |-> FALSE,
              requestId |-> 0, at |-> 0, of |-> 0, total |-> 0, loaded |-> FALSE]
EmptyStore == [selected |-> 0, peersOf |-> 0, listed |-> {}]
NoProbes == [rows |-> 0, selected |-> -1]

Init ==
    /\ EngineInit
    /\ running = FALSE /\ generation = 0 /\ stopping = FALSE
    /\ settings = [s \in Settings |-> 0] /\ monitoring = FALSE /\ ipv6 = FALSE
    /\ nodeId \in NodeIds \ {SecureId}
    /\ busy = [w \in Waits |-> FALSE]
    /\ wanted = [w \in {"search", "publish"} |-> 0]
    /\ answered = [w \in {"search", "publish"} |-> 0]
    /\ resolving = {}
    /\ shown = [p \in Pages |-> 0]
    /\ list = EmptyList /\ store = EmptyStore /\ probes = NoProbes
    /\ export = [busy |-> FALSE, id |-> 0, gen |-> 0, writing |-> {}]
    /\ ops = 0

-----------------------------------------------------------------------------
(* Calls of the user.                                                      *)

\* The interface's thread is free and the user makes one more call.
Call == ~stopping /\ ops < MaxOps /\ ops' = ops + 1

Cmd(kind, id, at, of) == [kind |-> kind, id |-> id, at |-> at, of |-> of, name |-> ""]

post(c) == commands' = Append(commands, c)

\* m_engine is set: posted; otherwise there is nobody to tell.
postIfRunning(c) == IF running THEN post(c) ELSE UNCHANGED commands

OnlyCommands == UNCHANGED <<engine, jobs, signals>>
Lifecycle == <<running, generation, stopping>>
Configured == <<settings, monitoring, ipv6, nodeId>>
Asked == <<busy, wanted, answered, resolving>>
Panels == <<list, export, store, probes>>

forward(name, value) == postIfRunning([Cmd("set", 0, value, 0) EXCEPT !.name = name])

\* setContactLimit, setCatalogCap, setReadOnlyMode and setPortForwarding have
\* the same shape: nothing for an unchanged value, else show it and pass it on.
setSetting(name, value) ==
    /\ Call
    /\ value # settings[name]
    /\ settings' = [settings EXCEPT ![name] = value]
    /\ forward(name, value)
    /\ OnlyCommands
    /\ UNCHANGED <<Lifecycle, monitoring, ipv6, nodeId, Asked, shown, Panels>>

setContactLimit == \E v \in {0, 1} : setSetting("contactLimit", v)
setCatalogCap == \E v \in {0, 1} : setSetting("catalogCap", v)
setReadOnlyMode == \E v \in {0, 1} : setSetting("readOnly", v)
setPortForwarding == \E v \in {0, 1} : setSetting("portForwarding", v)

setMonitoring ==
    /\ Call
    /\ running
    /\ monitoring' = ~monitoring
    /\ post(Cmd("monitoring", 0, IF monitoring THEN 0 ELSE 1, 0))
    /\ OnlyCommands
    /\ UNCHANGED <<Lifecycle, settings, ipv6, nodeId, Asked, shown, Panels>>

\* Only while the engine is off.
setIpv6Enabled ==
    /\ Call /\ ~running
    /\ ipv6' = ~ipv6
    /\ UNCHANGED <<engineVars, Lifecycle, settings, monitoring, nodeId, Asked, shown, Panels>>

setNodeId == \E id \in NodeIds \cup {HalfTyped} :
    /\ Call /\ ~running
    /\ id # nodeId
    /\ nodeId' = id
    /\ UNCHANGED <<engineVars, Lifecycle, settings, monitoring, ipv6, Asked, shown, Panels>>

\* startCensus and cancelCensus.
census ==
    /\ Call /\ running
    /\ post(Cmd("census", 0, 0, 0))
    /\ OnlyCommands
    /\ UNCHANGED <<Lifecycle, Configured, Asked, shown, Panels>>

\* injectNode with an address or a name, and autoBootstrap.
injectNode == \E name \in {0, 1} :
    /\ Call /\ running
    /\ post(Cmd("addNode", ops + 1, 0, name))
    /\ OnlyCommands
    /\ UNCHANGED <<Lifecycle, Configured, Asked, shown, Panels>>

-----------------------------------------------------------------------------
(* Searching and publishing.  The pages enable the buttons while not busy. *)

\* Clears what the page shows, marks it busy and posts the request.
ask(wait, page, c) ==
    /\ Call /\ running /\ ~busy[wait]
    /\ busy' = [busy EXCEPT ![wait] = TRUE]
    /\ wanted' = [wanted EXCEPT ![wait] = ops + 1]
    /\ answered' = [answered EXCEPT ![wait] = 0]
    /\ shown' = [shown EXCEPT ![page] = 0]
    /\ post(c)
    /\ OnlyCommands
    /\ UNCHANGED <<Lifecycle, Configured, resolving, Panels>>

askPeers == ask("search", "peers", Cmd("searchPeers", ops + 1, 0, 0))
askItem == \E isMutable \in {0, 1} :
    ask("search", "item", Cmd("searchItem", ops + 1, 0, isMutable))
askAnnounce == ask("publish", "publish", Cmd("announcePeer", ops + 1, 0, 0))
askPublish == ask("publish", "publish", Cmd("publishItem", ops + 1, 0, 0))

\* publishMutable with a key pair that is not one: refused here.
refusePublish ==
    /\ Call /\ running /\ ~busy["publish"]
    /\ wanted' = [wanted EXCEPT !["publish"] = ops + 1]
    /\ answered' = [answered EXCEPT !["publish"] = ops + 1]
    /\ shown' = [shown EXCEPT !["publish"] = 0]
    /\ UNCHANGED <<engineVars, Lifecycle, Configured, busy, resolving, Panels>>

-----------------------------------------------------------------------------
(* Probing one node.                                                       *)

\* applyProbe: the result is the newest row of the history, and selected.
addProbe == probes' = [rows |-> IF probes.rows < HistoryLimit THEN probes.rows + 1
                                ELSE HistoryLimit,
                       selected |-> 0]

\* probeFailedLocally: a malformed address or hash.
refuseProbe ==
    /\ Call /\ running /\ ~busy["probe"]
    /\ addProbe
    /\ UNCHANGED <<engineVars, Lifecycle, Configured, Asked, shown, list, export, store>>

\* probeEndpoint, for an address that needs no resolving.
probeAddress == \E kind \in {"probe", "probeAnnounce"}, family \in {0, 1} :
    /\ Call /\ running /\ ~busy["probe"]
    /\ busy' = [busy EXCEPT !["probe"] = TRUE]
    /\ post(Cmd(kind, ops + 1, family, 0))
    /\ OnlyCommands
    /\ UNCHANGED <<Lifecycle, Configured, wanted, answered, resolving, shown, Panels>>

\* A name is resolved on the interface's side first.
probeName == \E kind \in {"probe", "probeAnnounce"} :
    /\ Call /\ running /\ ~busy["probe"]
    /\ busy' = [busy EXCEPT !["probe"] = TRUE]
    /\ resolving' = resolving \cup {[id |-> ops + 1, kind |-> kind]}
    /\ UNCHANGED <<engineVars, Lifecycle, Configured, wanted, answered, shown, Panels>>

\* Mutant: the flag is set although there may be no engine left to ask.
MarkedBusyAlways == TRUE

\* probeEndpoint returns first when the engine was stopped meanwhile.
MarkedBusy == busy["probe"] \/ running

\* The answer comes whatever happened to the engine meanwhile.
nameResolved == \E r \in resolving :
    /\ ~stopping
    /\ resolving' = resolving \ {r}
    /\ \/ /\ addProbe
          /\ busy' = [busy EXCEPT !["probe"] = FALSE]
          /\ UNCHANGED commands
       \/ /\ busy' = [busy EXCEPT !["probe"] = MarkedBusy]
          /\ \E family \in {0, 1} : postIfRunning(Cmd(r.kind, r.id, family, 0))
          /\ UNCHANGED probes
    /\ OnlyCommands
    /\ UNCHANGED <<Lifecycle, Configured, wanted, answered, shown, list, export, store, ops>>

selectProbe == \E row \in 0..HistoryLimit :
    /\ Call
    /\ row # probes.selected /\ row < probes.rows
    /\ probes' = [probes EXCEPT !.selected = row]
    /\ UNCHANGED <<engineVars, Lifecycle, Configured, Asked, shown, list, export, store>>

clearProbes ==
    /\ Call
    /\ probes' = NoProbes
    /\ busy' = [busy EXCEPT !["probe"] = FALSE]
    /\ shown' = [shown EXCEPT !["probe"] = 0]
    /\ UNCHANGED <<engineVars, Lifecycle, Configured, wanted, answered, resolving,
                   list, export, store>>

-----------------------------------------------------------------------------
(* The node list.                                                          *)

\* sendNodeQuery: asks for the page `l' wants.
sendNodeQuery(l) ==
    /\ list' = [l EXCEPT !.inFlight = TRUE, !.again = FALSE, !.requestId = @ + 1]
    /\ post(Cmd("queryNodes", l.requestId + 1, l.offset, l.filter))

\* One query at a time; what changed meanwhile is asked for afterwards.
refreshList(l) ==
    IF ~running THEN list' = l /\ UNCHANGED commands
    ELSE IF l.inFlight THEN list' = [l EXCEPT !.again = TRUE] /\ UNCHANGED commands
    ELSE sendNodeQuery(l)

\* The page's timer, and typing a filter or choosing a page.
refreshNodeList ==
    /\ Call /\ running
    /\ refreshList(list)
    /\ OnlyCommands
    /\ UNCHANGED <<Lifecycle, Configured, Asked, shown, export, store, probes>>

setNodeQuery == \E filter \in Filters :
    /\ Call
    /\ refreshList([list EXCEPT !.filter = filter, !.offset = 0])
    /\ OnlyCommands
    /\ UNCHANGED <<Lifecycle, Configured, Asked, shown, export, store, probes>>

\* First, Previous and Next.
showNodePage == \E offset \in {0, list.at - 1, list.at + 1} :
    /\ Call /\ running
    /\ list.loaded
    /\ IF offset > list.at THEN offset < list.total ELSE list.at > 0
    /\ refreshList([list EXCEPT !.offset = offset])
    /\ OnlyCommands
    /\ UNCHANGED <<Lifecycle, Configured, Asked, shown, export, store, probes>>

\* Mutant: the page is shown but the query still counts as under way.
applyNodePageKeep(s) ==
    LET l == IF s.id = list.requestId
             THEN [list EXCEPT !.offset = s.at, !.at = s.at, !.of = s.of,
                               !.total = s.total, !.loaded = TRUE]
             ELSE list
    IN IF list.again THEN sendNodeQuery(l)
       ELSE list' = l /\ UNCHANGED commands

applyNodePage(s) ==
    LET l == IF s.id = list.requestId
             THEN [list EXCEPT !.inFlight = FALSE, !.offset = s.at, !.at = s.at,
                               !.of = s.of, !.total = s.total, !.loaded = TRUE]
             ELSE [list EXCEPT !.inFlight = FALSE]
    IN IF list.again THEN sendNodeQuery(l)
       ELSE list' = l /\ UNCHANGED commands

-----------------------------------------------------------------------------
(* Exports.  export.gen (history) is the engine the export was asked of.   *)

\* The engine collects the nodes, a thread of its own writes the file.
askExport ==
    /\ Call /\ running
    /\ ~export.busy
    /\ export' = [export EXCEPT !.busy = TRUE, !.id = @ + 1, !.gen = generation]
    /\ post(Cmd("exportNodes", export.id + 1, 0, 0))
    /\ OnlyCommands
    /\ UNCHANGED <<Lifecycle, Configured, Asked, shown, list, store, probes>>

\* The summary is written at once.
exportSummary ==
    /\ Call /\ running /\ ~export.busy
    /\ UNCHANGED <<engineVars, Lifecycle, Configured, Asked, shown, Panels>>

\* writeExport: a thread that was still writing is joined first.
writeExport(s) ==
    export' = IF s.id = export.id
              THEN [export EXCEPT !.busy = TRUE, !.writing = {s.id}]
              ELSE export

\* The thread posts the outcome to the interface.
written == \E id \in export.writing :
    /\ export' = [export EXCEPT !.writing = {}]
    /\ emit([Plain("written", id) EXCEPT !.gen = 0])
    /\ UNCHANGED <<engine, commands, jobs, Lifecycle, Configured, Asked, shown,
                   list, store, probes, ops>>

-----------------------------------------------------------------------------
(* The data store page.                                                    *)

\* The page's timer.
refreshDataStore ==
    /\ Call /\ running
    /\ post(Cmd("requestStorageSnapshot", 0, 0, 0))
    /\ OnlyCommands
    /\ UNCHANGED <<Lifecycle, Configured, Asked, shown, Panels>>

selectInfohash == \E hash \in store.listed \ {store.selected} :
    /\ Call /\ running
    /\ store' = [store EXCEPT !.selected = hash, !.peersOf = 0]
    /\ post(Cmd("requestStorageSnapshot", 0, 0, 0))
    /\ OnlyCommands
    /\ UNCHANGED <<Lifecycle, Configured, Asked, shown, list, export, probes>>

\* A selection that is gone from the listing is dropped.
applyStorageSnapshot(s) ==
    LET kept == IF store.selected \in s.rows THEN store.selected ELSE 0
    IN store' = [selected |-> kept, peersOf |-> kept, listed |-> s.rows]

-----------------------------------------------------------------------------
(* Starting and stopping.                                                  *)

\* startEngine: refused for an ID that is half typed; otherwise the interface
\* waits until the engine has bound its sockets.  A second family that
\* cannot be bound is worth a notice, a first one ends the engine again.
startEngine ==
    /\ ~stopping /\ ~running
    /\ nodeId # HalfTyped
    /\ generation < MaxGeneration
    /\ \/ /\ generation + 2 <= MaxGeneration   \* bind failed: destroyEngine
          /\ generation' = generation + 2
          /\ UNCHANGED <<engine, signals, running>>
       \/ \E v6Bound \in {TRUE, FALSE} :
          /\ v6Bound => ipv6
          /\ generation' = generation + 1
          /\ running' = TRUE
          /\ start(generation + 1, settings, nodeId, ipv6, v6Bound)
    /\ UNCHANGED <<commands, jobs, stopping, Configured, Asked, shown, Panels, ops>>

\* stopEngine begins: what the engine still reports is of an older
\* generation, and shutdown is posted behind the commands before it.
stopEngine ==
    /\ ~stopping /\ running
    /\ generation < MaxGeneration
    /\ generation' = generation + 1
    /\ stopping' = TRUE
    /\ post(Cmd("shutdown", 0, 0, 0))
    /\ OnlyCommands
    /\ UNCHANGED <<running, Configured, Asked, shown, Panels, ops>>

\* Mutant: the searches of the engine that is gone stay marked busy.
clearSearchKept == UNCHANGED <<busy, wanted, answered, probes>>

\* clearSearch, with clearProbes.
clearSearch == /\ busy' = [w \in Waits |-> FALSE]
               /\ wanted' = [w \in {"search", "publish"} |-> 0]
               /\ answered' = [w \in {"search", "publish"} |-> 0]
               /\ probes' = NoProbes

\* resetStatus: the pages are empty again (resetNodeList keeps the query).
resetStatus ==
    /\ clearSearch
    /\ list' = [list EXCEPT !.inFlight = FALSE, !.again = FALSE, !.at = 0,
                            !.total = 0, !.loaded = FALSE]
    /\ store' = EmptyStore
    /\ shown' = [p \in Pages |-> 0]

\* shutdown returned: the engine and its thread are deleted.
stopped ==
    /\ stopping /\ engine.up = {}
    /\ engine' = NoEngine
    /\ running' = FALSE /\ stopping' = FALSE /\ monitoring' = FALSE
    /\ resetStatus
    /\ UNCHANGED <<commands, jobs, signals, generation, settings, ipv6, nodeId,
                   resolving, export, ops>>

-----------------------------------------------------------------------------
(* Signals of the engine, in the order they were posted.                   *)

take(kind) == /\ ~stopping
              /\ signals # <<>> /\ Head(signals).kind = kind
              /\ signals' = Tail(signals)

\* Mutant: whatever arrives is shown.
CurrentAny(s) == running

\* The generation check of every connection startEngine makes.
Current(s) == s.gen = generation

Delivered(kind) == take(kind) /\ Current(Head(signals)) /\ UNCHANGED <<engine, jobs, ops>>

Show(page) == shown' = [shown EXCEPT ![page] = Head(signals).gen]

\* The ID in use replaces the one in the field.
applySnapshot ==
    /\ Delivered("snapshot")
    /\ Show("status")
    /\ nodeId' = Head(signals).at
    /\ UNCHANGED <<commands, Lifecycle, settings, monitoring, ipv6, Asked, Panels>>

notice ==
    /\ Delivered("notice")
    /\ Show("notice")
    /\ UNCHANGED <<commands, Lifecycle, Configured, Asked, Panels>>

\* applyPeerSearch, applyItemSearch and applyPublish end a wait.
applyResult(kind, wait) ==
    /\ Delivered(kind)
    /\ Show(kind)
    /\ busy' = [busy EXCEPT ![wait] = FALSE]
    /\ answered' = [answered EXCEPT ![wait] = Head(signals).id]
    /\ UNCHANGED <<commands, Lifecycle, Configured, wanted, resolving, Panels>>

applyPeerSearch == applyResult("peers", "search")
applyItemSearch == applyResult("item", "search")
applyPublish == applyResult("publish", "publish")

applyProbe ==
    /\ Delivered("probe")
    /\ Show("probe")
    /\ addProbe
    /\ busy' = [busy EXCEPT !["probe"] = FALSE]
    /\ UNCHANGED <<commands, Lifecycle, Configured, wanted, answered, resolving,
                   list, export, store>>

nodePageReady ==
    /\ Delivered("page")
    /\ Show("list")
    /\ applyNodePage(Head(signals))
    /\ UNCHANGED <<Lifecycle, Configured, Asked, export, store, probes>>

nodeExportReady ==
    /\ Delivered("export")
    /\ writeExport(Head(signals))
    /\ UNCHANGED <<commands, Lifecycle, Configured, Asked, shown, list, store, probes>>

storageSnapshotReady ==
    /\ Delivered("storage")
    /\ Show("store")
    /\ applyStorageSnapshot(Head(signals))
    /\ UNCHANGED <<commands, Lifecycle, Configured, Asked, list, export, probes>>

\* A later export is not ended by the message of an earlier one.
EndsExport(s) == s.id = export.id

\* The writer's own message.
exportWritten ==
    /\ take("written")
    /\ export' = [export EXCEPT !.busy = @ /\ ~EndsExport(Head(signals))]
    /\ UNCHANGED <<engine, commands, jobs, Lifecycle, Configured, Asked, shown,
                   list, store, probes, ops>>

\* A signal of an engine that was stopped.
late ==
    /\ ~stopping /\ signals # <<>>
    /\ Head(signals).kind # "written" /\ ~Current(Head(signals))
    /\ signals' = Tail(signals)
    /\ UNCHANGED <<engine, commands, jobs, uiVars>>

Deliver == \/ applySnapshot \/ notice \/ applyPeerSearch \/ applyItemSearch
           \/ applyPublish \/ applyProbe \/ nodePageReady \/ nodeExportReady
           \/ storageSnapshotReady \/ exportWritten \/ late

User == \/ setContactLimit \/ setCatalogCap \/ setReadOnlyMode \/ setPortForwarding
        \/ setMonitoring \/ setIpv6Enabled \/ setNodeId \/ census \/ injectNode
        \/ askPeers \/ askItem \/ askAnnounce \/ askPublish \/ refusePublish
        \/ refuseProbe \/ probeAddress \/ probeName \/ selectProbe \/ clearProbes
        \/ refreshNodeList \/ setNodeQuery \/ showNodePage
        \/ askExport \/ exportSummary \/ refreshDataStore \/ selectInfohash
        \/ startEngine \/ stopEngine

EngineStep == EngineNext /\ UNCHANGED uiVars

Next == User \/ nameResolved \/ written \/ stopped \/ Deliver \/ EngineStep

\* Both event loops run, every query ends with an answer or its timeout, and
\* the system resolver answers.
Spec == /\ Init /\ [][Next]_vars
        /\ WF_vars(Command /\ UNCHANGED uiVars)
        /\ WF_vars(JobStep /\ UNCHANGED uiVars)
        /\ WF_vars(Deliver) /\ WF_vars(nameResolved) /\ WF_vars(stopped)

-----------------------------------------------------------------------------
(* Properties.                                                             *)

\* Type invariant.
TypeOK ==
    /\ engine.up \subseteq Families /\ engine.id \in NodeIds \cup {0}
    /\ \A j \in jobs : j.remaining = Cardinality({f \in Families :
                                              j.part[f] \notin {"off", "done"}})
    /\ running \in BOOLEAN /\ stopping \in BOOLEAN /\ generation \in 0..MaxGeneration
    /\ busy \in [Waits -> BOOLEAN] /\ shown \in [Pages -> 0..MaxGeneration]
    /\ probes.rows \in 0..HistoryLimit /\ probes.selected \in -1..probes.rows - 1
    /\ list.offset \in Nat /\ list.at \in Nat

InUse == running /\ ~stopping

\* Something that will end a wait is on its way in this engine.
Coming(calls, work, results) ==
    \/ \E i \in DOMAIN commands : commands[i].kind \in calls
    \/ \E j \in jobs : j.kind \in work
    \/ \E i \in DOMAIN signals : signals[i].kind \in results /\ signals[i].gen = generation

\* A page says it is busy only while its request is queued, under way or
\* being reported by the engine that runs now (m_searchBusy, m_publishBusy,
\* m_probeBusy): no flag outlives its request, across stops and restarts; nor
\* does that of an export asked of this engine, which a third thread writes.
BusyIsAwaited ==
    ~stopping =>
    /\ busy["search"] =>
          Coming({"searchPeers", "searchItem"}, {"peers", "item"}, {"peers", "item"})
    /\ busy["publish"] =>
          Coming({"announcePeer", "publishItem"}, {"announce", "put"}, {"publish"})
    /\ busy["probe"] =>
          resolving # {} \/ Coming({"probe", "probeAnnounce"}, {"probe", "probeAnnounce"}, {"probe"})
    /\ running /\ export.busy /\ export.gen = generation =>
          \/ Coming({"exportNodes"}, {}, {"export"}) \/ export.writing # {}
          \/ \E i \in DOMAIN signals : signals[i].kind = "written"

\* "Snapshots already queued when the engine is torn down must not repopulate
\* the UI" (startEngine): no page shows the data of an engine that is gone.
NothingStale ==
    /\ \A p \in Pages : shown[p] \in {0, IF stopping THEN generation - 1 ELSE generation}
    /\ ~running => \A p \in Pages : shown[p] = 0

\* A result on a page answers the request made last, not an earlier one that
\* was cut off by a stop (applyPeerSearch, applyItemSearch, applyPublish); and
\* searchItem reports the newest item either family found, and an immutable
\* one although it has no sequence number.
RightAnswers ==
    /\ \A w \in {"search", "publish"} : ~busy[w] => answered[w] = wanted[w]
    /\ \A i \in DOMAIN signals : signals[i].kind = "item" =>
         LET s == signals[i]
         IN s.total = (IF s.rows = {} THEN 0 ELSE 1) /\ (s.rows # {} => s.at = Max(s.rows))

\* m_nodeQueryInFlight is exact: one page is queued or on its way back when
\* it is set and none when it is not, so queries never pile up in the engine.
OneNodeQuery ==
    InUse => (IF list.inFlight THEN 1 ELSE 0) =
             Cardinality({i \in DOMAIN commands : commands[i].kind = "queryNodes"})
             + Cardinality({i \in DOMAIN signals : signals[i].kind = "page"
                                                   /\ signals[i].gen = generation})

\* When no query is under way the list holds the rows of the filter that is
\* set, however often it changed while queries were (m_nodeQueryAgain).
FilterShown == InUse /\ list.loaded /\ ~list.inFlight => list.of = list.filter

\* The bookkeeping of the node list agrees with what is under way.
ControllerInv == TypeOK /\ OneNodeQuery /\ FilterShown

\* The last of the places I of a queue, if there is one.
Latest(I) == {i \in I : \A j \in I : j <= i}

\* The engine will use exactly the settings shown once it has worked off its
\* queue, whether they were passed at start or changed since.
SettingsAgree ==
    LET sets(n) == {i \in DOMAIN commands : commands[i].kind = "set" /\ commands[i].name = n}
        switches == {i \in DOMAIN commands : commands[i].kind = "monitoring"}
    IN InUse =>
       /\ \A n \in Settings :
             /\ sets(n) = {} => engine.settings[n] = settings[n]
             /\ \A i \in Latest(sets(n)) : commands[i].at = settings[n]
       /\ switches = {} => engine.monitoring = monitoring
       /\ \A i \in Latest(switches) : (commands[i].at = 1) = monitoring

\* "The fields always show the one in use" (applySnapshot): the ID field is
\* the engine's ID unless a snapshot that says so is due or on its way.
IdFollows ==
    LET told == {i \in Snapshots : signals[i].gen = generation}
    IN InUse => \/ engine.due
                \/ /\ told = {} => nodeId = engine.id
                   /\ \A i \in Latest(told) : signals[i].at = engine.id

\* What the settings page shows is what the engine uses, or will when the two
\* event queues between them are empty.
ShownIsUsed == SettingsAgree /\ IdFollows

\* Every wait a page shows ends, and the interface never hangs in stopEngine.
WaitsEnd ==
    /\ \A w \in Waits : busy[w] ~> ~busy[w]
    /\ stopping ~> ~stopping
=============================================================================
