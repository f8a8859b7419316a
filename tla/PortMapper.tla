----------------------------- MODULE PortMapper -----------------------------
(***************************************************************************)
(* Forwarding of the UDP port by the gateway (dhtcore/src/PortMapper.cpp)  *)
(* together with the UPnP client it falls back to (dhtcore/src/Upnp.cpp).  *)
(*                                                                         *)
(* The mapper tries PCP, NAT-PMP and UPnP in turn, and renews what it got. *)
(* Both objects live on one thread, so a handler is one action; a UDP      *)
(* answer may come late, once per request that was sent, or never.  The    *)
(* gateway is external: it grants and refuses as it likes, and granted is  *)
(* what it forwards for us.                                                *)
(***************************************************************************)
EXTENDS Integers, Sequences, SequencesExt

CONSTANTS
    Ports,                \* external ports
    InternalPort,         \* the port of the DHT socket
    NoPort,               \* externalPort = 0
    Retries,              \* m_retryDelays.size()
    Searches,             \* m_searchDelays.size()
    Devices,              \* descriptions announced on the network
    GatewayDevices,       \* those of them announced by the gateway
    MaxServices,          \* bound: connection services in a description
    MaxConflictRetries,   \* UpnpIgd::MaxConflictRetries
    MaxLate,              \* bound: unanswered requests remembered per protocol
    MaxStarts             \* bound: calls of start()

ASSUME PortMapperAssumption ==
    /\ InternalPort \in Ports /\ NoPort \notin Ports
    /\ GatewayDevices \subseteq Devices
    /\ Retries \in Nat \ {0} /\ Searches \in Nat \ {0} /\ MaxServices \in Nat \ {0}
    /\ MaxConflictRetries \in Nat /\ MaxLate \in Nat \ {0} /\ MaxStarts \in Nat

VARIABLES
    m,        \* the PortMapper
    u,        \* its UpnpIgd
    wire,     \* requests on m_socket the gateway has not answered yet
    granted,  \* <<protocol, external port>> pairs the gateway forwards for us
    starts    \* calls of start()

vars == <<m, u, wire, granted, starts>>

Datagram  == {"Pcp", "NatPmp"}
Protocols == Datagram \cup {"Upnp"}
States    == {"Disabled", "Discovering", "Mapped", "Failed"}
Stages    == {"Idle", "Searching", "Describing", "Mapping", "Renewing", "AskingAddress", "Mapped"}

NoRequests == [p \in Datagram |-> 0]

Init ==
    /\ m = [active |-> FALSE, socket |-> FALSE, protocol |-> "Pcp", state |-> "Disabled",
            port |-> NoPort, attempt |-> 0, retry |-> FALSE, renew |-> FALSE]
    /\ u = [stage |-> "Idle", timer |-> FALSE, attempt |-> 0, locations |-> <<>>,
            next |-> 1, services |-> 0, index |-> 1, port |-> NoPort,
            permanent |-> FALSE, conflicts |-> 0, reply |-> "none"]
    /\ wire = NoRequests /\ granted = {} /\ starts = 0

-----------------------------------------------------------------------------
(* Shared steps.  They take the objects as they are at that point of a     *)
(* handler and give the objects after it.                                  *)

\* UpnpIgd::cancel(): an aborted reply finishes under an older generation, so its
\* handler does nothing.
cancel(u0) == [u0 EXCEPT !.stage = "Idle", !.timer = FALSE, !.reply = "none"]

\* PortMapper::fail()
fail(m0) == [m0 EXCEPT !.retry = FALSE, !.renew = FALSE, !.state = "Failed"]

\* Mutant: the renewal timer is only started by the first answer.
mappedOnce(m0, port) ==
    [m0 EXCEPT !.retry = FALSE, !.state = "Mapped", !.port = port,
               !.renew = m0.state # "Mapped"]

\* PortMapper::mapped(): also the answer to a renewal.
mapped(m0, port) ==
    [m0 EXCEPT !.retry = FALSE, !.state = "Mapped", !.port = port, !.renew = TRUE]

\* The gateway keeps one mapping per internal port for PCP and NAT-PMP, and one
\* per external port for UPnP.
Grant(protocol, port) ==
    {g \in granted : g[1] # protocol \/ protocol = "Upnp"} \cup {<<protocol, port>>}

\* A datagram to the gateway that asks for the mapping.
Asked(w, protocol) == [w EXCEPT ![protocol] = IF @ < MaxLate THEN @ + 1 ELSE @]

\* UpnpIgd::start(): it needs a local IPv4 address and a socket of its own.
upnpStart(m0) ==
    \/ /\ u' = [stage |-> "Searching", timer |-> TRUE, attempt |-> 0, locations |-> <<>>,
                next |-> 1, services |-> 0, index |-> 1,
                port |-> IF m0.port = NoPort THEN InternalPort ELSE m0.port,
                permanent |-> FALSE, conflicts |-> 0, reply |-> "none"]
       /\ m' = m0
    \/ u' = cancel(u) /\ m' = fail(m0)

\* beginProtocol() from mapper m0 with requests w on the wire.
beginProtocol(m0, w, protocol) ==
    LET m1 == [m0 EXCEPT !.protocol = protocol, !.attempt = 0, !.state = "Discovering"]
    IN  \/ /\ protocol \in Datagram
           /\ m' = [m1 EXCEPT !.retry = TRUE] /\ wire' = Asked(w, protocol) /\ u' = u
        \/ /\ protocol = "Upnp"
           /\ wire' = w /\ upnpStart([m1 EXCEPT !.retry = FALSE])

\* fallBack(): the next protocol, or failure.
fallBack(w) ==
    \/ m.protocol = "Pcp" /\ beginProtocol(m, w, "NatPmp")
    \/ m.protocol = "NatPmp" /\ beginProtocol(m, w, "Upnp")
    \/ m.protocol = "Upnp" /\ m' = fail(m) /\ wire' = w /\ u' = u

-----------------------------------------------------------------------------
(* start() and stop()                                                      *)

\* What the gateway forwards once releaseBlocking() has deleted the current port.
releaseBlocking ==
    IF u.stage \in {"Mapped", "Renewing"} /\ u.services > 0
    THEN granted \ {<<"Upnp", u.port>>} ELSE granted

\* What it forwards once stopInternal() has asked for the mapping to be dropped.
Released ==
    IF m.state # "Mapped" THEN granted
    ELSE IF m.protocol = "Upnp" THEN releaseBlocking
    ELSE {g \in granted : g[1] # m.protocol}

\* The mapper after stopInternal(); m_protocol and m_attempt keep their values.
Off == [m EXCEPT !.active = FALSE, !.socket = FALSE, !.state = "Disabled",
                 !.port = NoPort, !.retry = FALSE, !.renew = FALSE]

start ==
    /\ starts < MaxStarts
    /\ starts' = starts + 1
    /\ granted' = Released
    /\ LET m0 == [Off EXCEPT !.active = TRUE]
       IN  \/ /\ m' = [m0 EXCEPT !.socket = TRUE, !.protocol = "Pcp", !.attempt = 0,
                                 !.state = "Discovering", !.retry = TRUE]
              /\ wire' = Asked(NoRequests, "Pcp")
           \/ \E bound \in BOOLEAN :  \* no default gateway, or no socket
                 m' = [fail(m0) EXCEPT !.socket = bound] /\ wire' = NoRequests
    /\ u' = cancel(u)

stop ==
    /\ m.active
    /\ m' = Off /\ u' = cancel(u) /\ wire' = NoRequests /\ granted' = Released
    /\ UNCHANGED starts

-----------------------------------------------------------------------------
(* The timers of PortMapper                                                *)

\* The timer is single-shot; sendRequest() starts it again.
onRetryTimeout ==
    /\ m.retry
    /\ \/ /\ m.attempt + 1 < Retries
          /\ m' = [m EXCEPT !.attempt = @ + 1] /\ wire' = Asked(wire, m.protocol) /\ u' = u
       \/ m.attempt + 1 >= Retries /\ fallBack(wire)
    /\ UNCHANGED <<granted, starts>>

\* The renewal timer, which is not stopped when a refusal moves the mapper on to
\* the next protocol.
onRenewTimeout ==
    /\ m.renew
    /\ \/ /\ m.protocol = "Upnp"
          /\ m' = [m EXCEPT !.renew = FALSE] /\ wire' = wire
          /\ u' = IF u.stage = "Mapped" /\ u.services > 0
                  THEN [u EXCEPT !.stage = "Renewing", !.reply = "add"] ELSE u
       \/ /\ m.protocol # "Upnp" /\ m.socket
          /\ m' = [m EXCEPT !.renew = FALSE, !.attempt = 0, !.retry = TRUE]
          /\ wire' = Asked(wire, m.protocol) /\ u' = u
    /\ UNCHANGED <<granted, starts>>

-----------------------------------------------------------------------------
(* Answers of the gateway to datagrams                                     *)

Answered(protocol) == [wire EXCEPT ![protocol] = @ - 1]

Ignored(protocol) == m' = m /\ u' = u /\ wire' = Answered(protocol)

\* Mutant: an answer to PCP is taken whatever the mapper has moved on to.
handlePcpAnyTime(port) ==
    /\ wire["Pcp"] > 0 /\ m.socket
    /\ granted' = Grant("Pcp", port)
    /\ m' = mapped(m, port) /\ u' = u /\ wire' = Answered("Pcp")
    /\ UNCHANGED starts

\* handlePcp(): the gateway has granted the mapping.
handlePcp(port) ==
    /\ wire["Pcp"] > 0 /\ m.socket
    /\ granted' = Grant("Pcp", port)
    /\ \/ m.protocol = "Pcp" /\ m' = mapped(m, port) /\ u' = u /\ wire' = Answered("Pcp")
       \/ m.protocol # "Pcp" /\ Ignored("Pcp")
    /\ UNCHANGED starts

\* handlePcp(): the gateway refuses, or does not speak this version of PCP.
handlePcpRefusal ==
    /\ wire["Pcp"] > 0 /\ m.socket
    /\ \/ m.protocol = "Pcp" /\ beginProtocol(m, Answered("Pcp"), "NatPmp")
       \/ m.protocol # "Pcp" /\ Ignored("Pcp")
    /\ UNCHANGED <<granted, starts>>

\* handleNatPmp(): the gateway only speaks NAT-PMP and answers a PCP request with
\* version 0, the opcode of a mapping response and "unsupported version".
handleVersionReply ==
    /\ wire["Pcp"] > 0 /\ m.socket
    /\ \/ m.protocol = "Pcp" /\ beginProtocol(m, Answered("Pcp"), "NatPmp")
       \/ m.protocol = "NatPmp" /\ fallBack(Answered("Pcp"))
       \/ m.protocol = "Upnp" /\ Ignored("Pcp")
    /\ UNCHANGED <<granted, starts>>

\* handleNatPmp(): a mapping response; m_protocol is past PCP by then.  The external
\* address asked for next only fills in the snapshot.
handleNatPmp(port) ==
    /\ wire["NatPmp"] > 0 /\ m.socket
    /\ granted' = Grant("NatPmp", port)
    /\ \/ m.protocol = "NatPmp" /\ m' = mapped(m, port) /\ u' = u /\ wire' = Answered("NatPmp")
       \/ m.protocol # "NatPmp" /\ Ignored("NatPmp")
    /\ UNCHANGED starts

handleNatPmpRefusal ==
    /\ wire["NatPmp"] > 0 /\ m.socket
    /\ \/ m.protocol = "NatPmp" /\ fallBack(Answered("NatPmp"))
       \/ m.protocol # "NatPmp" /\ Ignored("NatPmp")
    /\ UNCHANGED <<granted, starts>>

-----------------------------------------------------------------------------
(* UPnP: search, description, mapping                                      *)

\* UpnpIgd::fail(), and what PortMapper does with its failed().
upnpFail(u0) == u' = cancel(u0) /\ m' = IF m.protocol = "Upnp" THEN fail(m) ELSE m

\* describe() the i-th location.
describe(u0, i) ==
    /\ u' = [u0 EXCEPT !.timer = FALSE, !.stage = "Describing", !.next = i,
                       !.reply = "description"]
    /\ m' = m

\* Mutant: nothing happens when the locations are exhausted.
tryNextLocationStuck(u0) ==
    \/ u0.next < Len(u0.locations) /\ describe(u0, u0.next + 1)
    \/ u0.next >= Len(u0.locations) /\ u' = [u0 EXCEPT !.reply = "none"] /\ m' = m

tryNextLocation(u0) ==
    \/ u0.next < Len(u0.locations) /\ describe(u0, u0.next + 1)
    \/ u0.next >= Len(u0.locations) /\ upnpFail(u0)

onSearchTimeout ==
    /\ u.timer /\ u.stage = "Searching"
    /\ LET tries == u.attempt + 1
           u1    == [u EXCEPT !.attempt = tries]
       IN  \/ u.locations # <<>> /\ describe(u1, 1)
           \/ u.locations = <<>> /\ tries < Searches /\ u' = u1 /\ m' = m
           \/ u.locations = <<>> /\ tries >= Searches /\ upnpFail(u1)
    /\ UNCHANGED <<wire, granted, starts>>

\* A search response: the gateway's own description is read at once.
onDatagrams(d) ==
    /\ u.stage = "Searching" /\ d \notin ToSet(u.locations)
    /\ \/ d \in GatewayDevices /\ describe([u EXCEPT !.locations = <<d>> \o @], 1)
       \/ d \notin GatewayDevices /\ u' = [u EXCEPT !.locations = Append(@, d)] /\ m' = m
    /\ UNCHANGED <<wire, granted, starts>>

\* The description was read and offers that many services, or could not be read.
onDescription ==
    /\ u.reply = "description"
    /\ \/ tryNextLocation(u)
       \/ tryNextLocation([u EXCEPT !.services = 0])
       \/ \E n \in 1..MaxServices :
             /\ u' = [u EXCEPT !.services = n, !.index = 1, !.stage = "Mapping", !.reply = "add"]
             /\ m' = m
    /\ UNCHANGED <<wire, granted, starts>>

\* What mapped() of UpnpIgd makes of the mapper.
upnpMapped == m' = IF m.protocol = "Upnp" THEN mapped(m, u.port) ELSE m

\* onAddMapping(): accepted.
onAdded ==
    /\ u.reply = "add"
    /\ granted' = Grant("Upnp", u.port)
    /\ \/ /\ u.stage = "Renewing" /\ upnpMapped
          /\ u' = [u EXCEPT !.stage = "Mapped", !.reply = "none"]
       \/ /\ u.stage # "Renewing" /\ m' = m
          /\ u' = [u EXCEPT !.stage = "AskingAddress", !.reply = "address"]
    /\ UNCHANGED <<wire, starts>>

\* onAddMapping(): error 718, the port is taken.
onConflict ==
    /\ u.reply = "add"
    /\ \/ /\ u.conflicts < MaxConflictRetries /\ m' = m
          /\ \E p \in Ports : u' = [u EXCEPT !.conflicts = @ + 1, !.port = p]
       \/ u.conflicts >= MaxConflictRetries /\ upnpFail(u)
    /\ UNCHANGED <<wire, granted, starts>>

\* onAddMapping(): error 725, leases are not supported.
onOnlyPermanent ==
    /\ u.reply = "add"
    /\ \/ ~u.permanent /\ u' = [u EXCEPT !.permanent = TRUE] /\ m' = m
       \/ u.permanent /\ upnpFail(u)
    /\ UNCHANGED <<wire, granted, starts>>

\* onAddMapping(): errors 606 and 401, or no SOAP error at all, which includes an
\* answer lost after the gateway had accepted.
onNotHere ==
    /\ u.reply = "add"
    /\ granted' \in {granted, Grant("Upnp", u.port)}
    /\ \/ u.stage = "Renewing" /\ upnpFail(u)
       \/ u.stage # "Renewing" /\ u.index < u.services /\ u' = [u EXCEPT !.index = @ + 1] /\ m' = m
       \/ u.stage # "Renewing" /\ u.index >= u.services /\ tryNextLocation(u)
    /\ UNCHANGED <<wire, starts>>

\* onAddMapping(): any other error.
onRefused == u.reply = "add" /\ upnpFail(u) /\ UNCHANGED <<wire, granted, starts>>

\* Mutant: without an address the mapper is not told.
onAddressOnly ==
    /\ u.reply = "address"
    /\ u' = [u EXCEPT !.stage = "Mapped", !.reply = "none"] /\ (upnpMapped \/ m' = m)
    /\ UNCHANGED <<wire, granted, starts>>

\* onAddress(): the mapping stands whether or not the address came back.
onAddress ==
    /\ u.reply = "address"
    /\ u' = [u EXCEPT !.stage = "Mapped", !.reply = "none"] /\ upnpMapped
    /\ UNCHANGED <<wire, granted, starts>>

-----------------------------------------------------------------------------
Datagrams ==
    \/ \E p \in Ports : handlePcp(p) \/ handleNatPmp(p)
    \/ handlePcpRefusal \/ handleVersionReply \/ handleNatPmpRefusal
    \/ \E d \in Devices : onDatagrams(d)

Http == onDescription \/ onAdded \/ onConflict \/ onOnlyPermanent \/ onNotHere \/ onRefused \/ onAddress

Next == start \/ stop \/ onRetryTimeout \/ onRenewTimeout \/ onSearchTimeout \/ Datagrams \/ Http

Spec == Init /\ [][Next]_vars

\* Timers fire, and every HTTP request finishes: it has a transfer timeout.
FairSpec == Spec /\ WF_vars(onRetryTimeout) /\ WF_vars(onRenewTimeout)
                 /\ WF_vars(onSearchTimeout) /\ WF_vars(Http)

-----------------------------------------------------------------------------
(* Properties                                                              *)

\* Types: the retry and search counters stay below the length of their schedules.
TypeOK ==
    /\ m \in [active : BOOLEAN, socket : BOOLEAN, protocol : Protocols, state : States,
              port : Ports \cup {NoPort}, attempt : 0..Retries-1, retry : BOOLEAN, renew : BOOLEAN]
    /\ u.stage \in Stages /\ u.reply \in {"none", "description", "add", "address"}
    /\ u.attempt \in 0..Searches /\ u.conflicts \in 0..MaxConflictRetries
    /\ u.locations \in SeqOf(Devices, Len(u.locations)) /\ u.services \in 0..MaxServices
    /\ wire \in [Datagram -> 0..MaxLate]
    /\ granted \subseteq Protocols \X Ports

\* A mapping that is shown is being kept alive: its renewal is scheduled, or under
\* way and certain to end (the timers of PortMapper and the stages of UpnpIgd).
KeptAlive ==
    m.state = "Mapped" => m.renew \/ m.retry \/ (u.stage = "Renewing" /\ u.reply = "add")

\* The external port shown was granted by the protocol shown and has not been given
\* back since: late answers to a protocol given up (handlePcp, handleNatPmp) and
\* ports tried during a renewal (onAddMapping) never show.
ShownIsGranted == m.state = "Mapped" => <<m.protocol, m.port>> \in granted

\* The two objects agree: UpnpIgd works only for a mapper that is at UPnP, and holds
\* a mapping exactly when the mapper shows one, so that stop() can release it
\* (the stage checked by releaseBlocking).
StagesAgree ==
    /\ u.stage # "Idle" => m.active /\ m.protocol = "Upnp"
    /\ u.stage \in {"Mapped", "Renewing"} <=> (m.state = "Mapped" /\ m.protocol = "Upnp")
    /\ u.stage \in {"Mapped", "Renewing"} => u.services > 0

\* A mapper that was stopped or has failed has nothing left that could wake it: no
\* timer, no request, no search (stopInternal, fail).
QuietWhenOff ==
    m.state \in {"Disabled", "Failed"} =>
        ~m.retry /\ ~m.renew /\ ~u.timer /\ u.stage = "Idle" /\ u.reply = "none"

\* What stop() and the handlers rely on: both objects at the same stage, and
\* nothing running for a mapper that is off.
MapperInv == TypeOK /\ StagesAgree /\ QuietWhenOff

\* Trying the protocols comes to an end, whatever the gateway answers or loses and
\* although a renewal timer left over from an earlier mapping may restart the retries.
DiscoveryEnds == m.state = "Discovering" ~> m.state # "Discovering"

\* The comment in handleNatPmp(): a version 0 answer to PCP means a gateway that
\* speaks NAT-PMP, so it is no reason to give NAT-PMP up.
VersionReplyKeepsNatPmp ==
    [][m.protocol = "NatPmp" /\ m'.protocol = "Upnp" => wire'["Pcp"] = wire["Pcp"]]_vars

=============================================================================
