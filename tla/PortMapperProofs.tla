-------------------------- MODULE PortMapperProofs --------------------------
(***************************************************************************)
(* What PortMapper shows is forwarded by the gateway and being renewed,    *)
(* and it stays in step with its UpnpIgd, for any ports, retry schedules,  *)
(* number of devices and services, and any order of late answers.          *)
(***************************************************************************)
EXTENDS PortMapper, TLAPS

\* The state of UpnpIgd.
Upnp == [stage : Stages, timer : BOOLEAN, attempt : 0..Searches, locations : Seq(Devices),
         next : Nat, services : 0..MaxServices, index : Nat, port : Ports \cup {NoPort},
         permanent : BOOLEAN, conflicts : 0..MaxConflictRetries,
         reply : {"none", "description", "add", "address"}]

\* The state of PortMapper.
Mapper == [active : BOOLEAN, socket : BOOLEAN, protocol : Protocols, state : States,
           port : Ports \cup {NoPort}, attempt : 0..Retries-1, retry : BOOLEAN, renew : BOOLEAN]

\* The types of the two objects, of the requests under way and of the grants.
Typed ==
    /\ m \in Mapper /\ u \in Upnp
    /\ wire \in [Datagram -> 0..MaxLate] /\ granted \subseteq Protocols \X Ports

\* The request UpnpIgd waits for, and whether its timer runs, follow from its stage.
StageTells ==
    /\ u.timer => u.stage = "Searching"
    /\ u.stage = "Searching" => u.attempt < Searches
    /\ u.reply = "description" <=> u.stage = "Describing"
    /\ u.reply = "add" <=> u.stage \in {"Mapping", "Renewing"}
    /\ u.reply = "address" <=> u.stage = "AskingAddress"
    /\ u.stage \in {"Mapping", "AskingAddress"} => u.services > 0
    /\ u.stage # "Idle" => u.port \in Ports
    /\ u.stage = "AskingAddress" => <<"Upnp", u.port>> \in granted

\* Datagrams are sent and taken only for a mapper that is on, and none is left to be
\* answered once it is off, unless it failed at UPnP where they are ignored.
DatagramsTell ==
    /\ m.retry => m.protocol \in Datagram /\ m.active
    /\ m.socket => m.active
    /\ m.state \in {"Disabled", "Failed"} => m.protocol = "Upnp" \/ wire = NoRequests

\* The inductive invariant.
IInv == Typed /\ StageTells /\ DatagramsTell /\ StagesAgree /\ QuietWhenOff /\ KeptAlive /\ ShownIsGranted

-----------------------------------------------------------------------------
(* What the shared steps make of the two objects, field by field           *)

\* UpnpIgd::cancel().
LEMMA CancelFields ==
    ASSUME NEW x \in Upnp
    PROVE  /\ cancel(x) \in Upnp
           /\ cancel(x).stage = "Idle" /\ cancel(x).timer = FALSE /\ cancel(x).reply = "none"
  BY DEF Upnp, cancel, Stages

\* PortMapper::fail().
LEMMA FailFields ==
    ASSUME NEW x \in Mapper
    PROVE  /\ fail(x) \in Mapper
           /\ fail(x).active = x.active /\ fail(x).socket = x.socket
           /\ fail(x).protocol = x.protocol /\ fail(x).port = x.port
           /\ fail(x).state = "Failed" /\ fail(x).retry = FALSE /\ fail(x).renew = FALSE
  BY DEF Mapper, fail, States

\* PortMapper::mapped().
LEMMA MappedFields ==
    ASSUME NEW x \in Mapper, NEW p \in Ports
    PROVE  /\ mapped(x, p) \in Mapper
           /\ mapped(x, p).active = x.active /\ mapped(x, p).socket = x.socket
           /\ mapped(x, p).protocol = x.protocol /\ mapped(x, p).port = p
           /\ mapped(x, p).state = "Mapped" /\ mapped(x, p).retry = FALSE /\ mapped(x, p).renew = TRUE
  BY DEF Mapper, mapped, States

\* A mapper that was stopped.
LEMMA OffFields ==
    ASSUME m \in Mapper
    PROVE  /\ Off \in Mapper
           /\ Off.active = FALSE /\ Off.socket = FALSE /\ Off.protocol = m.protocol
           /\ Off.state = "Disabled" /\ Off.retry = FALSE /\ Off.renew = FALSE
  BY DEF Mapper, Off, States

\* One more request under way.
LEMMA AskedType ==
    ASSUME NEW w \in [Datagram -> 0..MaxLate], NEW p \in Datagram
    PROVE  Asked(w, p) \in [Datagram -> 0..MaxLate]
  BY PortMapperAssumption DEF Asked

\* No request under way.
LEMMA NoRequestsType == NoRequests \in [Datagram -> 0..MaxLate]
  BY PortMapperAssumption DEF NoRequests

\* One request fewer.
LEMMA AnsweredType ==
    ASSUME wire \in [Datagram -> 0..MaxLate], NEW p \in Datagram, wire[p] > 0
    PROVE  Answered(p) \in [Datagram -> 0..MaxLate]
  BY PortMapperAssumption DEF Answered

\* A new grant takes away no other protocol's, and nothing of UPnP.
LEMMA GrantKeeps ==
    ASSUME granted \subseteq Protocols \X Ports, NEW p \in Protocols, NEW port \in Ports
    PROVE  /\ Grant(p, port) \subseteq Protocols \X Ports
           /\ <<p, port>> \in Grant(p, port)
           /\ \A q \in Protocols : \A x : q # p \/ p = "Upnp" =>
                (<<q, x>> \in granted => <<q, x>> \in Grant(p, port))
  BY DEF Grant

\* What is left of the grants after stop().
LEMMA ReleasedType == granted \subseteq Protocols \X Ports => Released \subseteq Protocols \X Ports
  BY DEF Released, releaseBlocking

-----------------------------------------------------------------------------
(* The invariant is kept                                                   *)

\* The invariant holds of a mapper that is off.
LEMMA InitInv == Init => IInv
  BY PortMapperAssumption DEF Init, IInv, Typed, Mapper, Upnp, StageTells, DatagramsTell, StagesAgree,
     QuietWhenOff, KeptAlive, ShownIsGranted, NoRequests, Datagram, Protocols, States, Stages

\* beginProtocol() after a protocol that is spoken in datagrams.
LEMMA BeginKeeps ==
    ASSUME IInv, m.protocol \in Datagram, m.active,
           NEW w \in [Datagram -> 0..MaxLate], NEW p \in {"NatPmp", "Upnp"},
           beginProtocol(m, w, p), granted' = granted
    PROVE  IInv'
<1> DEFINE m1 == [m EXCEPT !.protocol = p, !.attempt = 0, !.state = "Discovering"]
<1>1. /\ m1 \in Mapper /\ m1.active /\ m1.protocol = p /\ m1.state = "Discovering"
      /\ m1.socket = m.socket /\ m1.port \in Ports \cup {NoPort}
  <2>1. m \in Mapper /\ p \in Protocols /\ 0 \in 0..Retries-1
    BY PortMapperAssumption DEF IInv, Typed, Protocols, Datagram
  <2>2. QED
    BY <2>1 DEF Mapper, States
<1>2. u.stage = "Idle" /\ u \in Upnp
  BY DEF IInv, StagesAgree, Typed, Datagram
<1> HIDE DEF m1
<1>3. CASE p \in Datagram /\ m' = [m1 EXCEPT !.retry = TRUE] /\ wire' = Asked(w, p) /\ u' = u
  <2>1. /\ m' \in Mapper /\ m'.active /\ m'.protocol = p /\ m'.state = "Discovering"
        /\ m'.socket = m.socket
    BY <1>1, <1>3 DEF Mapper
  <2>2. Typed'
    BY <1>3, <2>1, AskedType DEF IInv, Typed
  <2>3. QED
    BY <1>2, <1>3, <2>1, <2>2 DEF IInv, StageTells, DatagramsTell, StagesAgree, QuietWhenOff, KeptAlive,
       ShownIsGranted, Datagram
<1>4. CASE p = "Upnp" /\ wire' = w /\ upnpStart([m1 EXCEPT !.retry = FALSE])
  <2> DEFINE m2 == [m1 EXCEPT !.retry = FALSE]
  <2>1. /\ m2 \in Mapper /\ m2.active /\ m2.protocol = "Upnp" /\ m2.state = "Discovering"
        /\ m2.retry = FALSE /\ m2.port \in Ports \cup {NoPort} /\ m2.socket = m.socket
    BY <1>1, <1>4 DEF Mapper
  <2> HIDE DEF m2
  <2>2. CASE /\ u' = [stage |-> "Searching", timer |-> TRUE, attempt |-> 0, locations |-> <<>>,
                      next |-> 1, services |-> 0, index |-> 1,
                      port |-> IF m2.port = NoPort THEN InternalPort ELSE m2.port,
                      permanent |-> FALSE, conflicts |-> 0, reply |-> "none"]
             /\ m' = m2
    <3>1. u' \in Upnp
      BY <2>1, <2>2, PortMapperAssumption DEF Upnp, Stages
    <3>2. /\ u'.stage = "Searching" /\ u'.timer = TRUE /\ u'.attempt = 0 /\ u'.services = 0
          /\ u'.port \in Ports /\ u'.reply = "none"
      BY <2>1, <2>2, PortMapperAssumption
    <3>3. Typed'
      BY <1>4, <2>1, <2>2, <3>1 DEF IInv, Typed
    <3>4. QED
      BY <1>4, <2>1, <2>2, <3>2, <3>3, PortMapperAssumption DEF IInv, StageTells, DatagramsTell,
         StagesAgree, QuietWhenOff, KeptAlive, ShownIsGranted, Datagram
  <2>3. CASE u' = cancel(u) /\ m' = fail(m2)
    <3>1. Typed'
      BY <1>2, <1>4, <2>1, <2>3, CancelFields, FailFields DEF IInv, Typed
    <3>2. QED
      BY <1>2, <1>4, <2>1, <2>3, <3>1, CancelFields, FailFields DEF IInv, StageTells, DatagramsTell,
         StagesAgree, QuietWhenOff, KeptAlive, ShownIsGranted
  <2>4. QED
    BY <1>4, <2>2, <2>3 DEF upnpStart, m2
<1>5. QED
  BY <1>3, <1>4 DEF beginProtocol, m1

\* UpnpIgd gives up.
LEMMA UpnpFailKeeps ==
    ASSUME IInv, m.protocol = "Upnp", NEW x \in Upnp, upnpFail(x), wire' = wire,
           granted' \subseteq Protocols \X Ports
    PROVE  IInv'
<1>1. m \in Mapper /\ u' = cancel(x) /\ m' = fail(m)
  BY DEF IInv, Typed, upnpFail
<1>2. Typed'
  BY <1>1, CancelFields, FailFields DEF IInv, Typed
<1>3. QED
  BY <1>1, <1>2, CancelFields, FailFields DEF IInv, StageTells, DatagramsTell, StagesAgree, QuietWhenOff,
     KeptAlive, ShownIsGranted

\* UpnpIgd goes on to a description, from a stage at which nothing is mapped.
LEMMA DescribeKeeps ==
    ASSUME IInv, u.stage \in {"Searching", "Describing", "Mapping"},
           NEW x \in Upnp, x.port = u.port, NEW i \in Nat, describe(x, i), wire' = wire,
           granted' \subseteq Protocols \X Ports
    PROVE  IInv'
<1>1. /\ u' \in Upnp /\ u'.stage = "Describing" /\ u'.timer = FALSE /\ u'.reply = "description"
      /\ u'.port = u.port
  BY DEF describe, Upnp, Stages
<1>2. m' = m
  BY DEF describe
<1>3. Typed'
  BY <1>1, <1>2 DEF IInv, Typed
<1>4. m.active /\ m.protocol = "Upnp" /\ m.state # "Mapped" /\ m.state \notin {"Disabled", "Failed"}
  BY DEF IInv, StagesAgree, QuietWhenOff
<1>5. QED
  BY <1>1, <1>2, <1>3, <1>4 DEF IInv, StageTells, DatagramsTell, StagesAgree, QuietWhenOff,
     KeptAlive, ShownIsGranted

\* tryNextLocation() asks the next device or fails; both keep the invariant.
LEMMA NextLocationKeeps ==
    ASSUME IInv, u.stage \in {"Describing", "Mapping"},
           NEW x \in Upnp, x.port = u.port, tryNextLocation(x), wire' = wire,
           granted' \subseteq Protocols \X Ports
    PROVE  IInv'
<1>1. m.protocol = "Upnp" /\ x.next + 1 \in Nat
  BY DEF IInv, StagesAgree, Upnp
<1>2. CASE describe(x, x.next + 1)
  BY <1>1, <1>2, DescribeKeeps
<1>3. CASE upnpFail(x)
  BY <1>1, <1>3, UpnpFailKeeps
<1>4. QED
  BY <1>2, <1>3 DEF tryNextLocation

\* A datagram is ignored, or anything else that leaves both objects alone.
LEMMA IgnoredKeeps ==
    ASSUME IInv, m' = m, u' = u, wire' \in [Datagram -> 0..MaxLate],
           m.state \notin {"Disabled", "Failed"} \/ m.protocol = "Upnp" \/ wire' = wire,
           granted' \subseteq Protocols \X Ports,
           m.state = "Mapped" => <<m.protocol, m.port>> \in granted',
           u.stage = "AskingAddress" => <<"Upnp", u.port>> \in granted'
    PROVE  IInv'
<1>1. Typed'
  BY DEF IInv, Typed
<1>2. QED
  BY <1>1 DEF IInv, StageTells, DatagramsTell, StagesAgree, QuietWhenOff,
     KeptAlive, ShownIsGranted

\* start() keeps the invariant.
LEMMA StartKeeps ==
    ASSUME IInv, start PROVE IInv'
<1> DEFINE m0 == [Off EXCEPT !.active = TRUE]
<1>1. m0 \in Mapper /\ m0.active /\ m0.socket = FALSE /\ m0.state = "Disabled" /\ m0.retry = FALSE
  BY OffFields DEF IInv, Typed, Mapper
<1> HIDE DEF m0
<1>2. granted' \subseteq Protocols \X Ports /\ u \in Upnp /\ u' = cancel(u)
  BY ReleasedType DEF start, IInv, Typed
<1>3. CASE /\ m' = [m0 EXCEPT !.socket = TRUE, !.protocol = "Pcp", !.attempt = 0,
                              !.state = "Discovering", !.retry = TRUE]
           /\ wire' = Asked(NoRequests, "Pcp")
  <2>1. "Pcp" \in Protocols /\ "Discovering" \in States /\ 0 \in 0..Retries-1 /\ "Pcp" \in Datagram
    BY PortMapperAssumption DEF Protocols, Datagram, States
  <2>2. /\ m' \in Mapper /\ m'.active /\ m'.protocol = "Pcp" /\ m'.state = "Discovering"
    BY <1>1, <1>3, <2>1 DEF Mapper
  <2>3. Typed'
    BY <1>2, <1>3, <2>1, <2>2, AskedType, NoRequestsType, CancelFields DEF IInv, Typed
  <2>4. QED
    BY <1>2, <2>2, <2>3, CancelFields DEF IInv, Datagram, StageTells, DatagramsTell, StagesAgree, QuietWhenOff,
     KeptAlive, ShownIsGranted
<1>4. CASE /\ \E bound \in BOOLEAN : m' = [fail(m0) EXCEPT !.socket = bound]
           /\ wire' = NoRequests
  <2>1. PICK bound \in BOOLEAN : m' = [fail(m0) EXCEPT !.socket = bound]
    BY <1>4
  <2>2. /\ m' \in Mapper /\ m'.active /\ m'.state = "Failed" /\ m'.retry = FALSE /\ m'.renew = FALSE
    <3>1. fail(m0) \in Mapper
      BY <1>1, FailFields
    <3>2. QED
      BY <1>1, <2>1, <3>1, FailFields DEF Mapper
  <2>3. Typed'
    BY <1>2, <1>4, <2>2, NoRequestsType, CancelFields DEF IInv, Typed
  <2>4. QED
    BY <1>2, <1>4, <2>2, <2>3, CancelFields DEF IInv, StageTells, DatagramsTell, StagesAgree, QuietWhenOff,
     KeptAlive, ShownIsGranted, NoRequests
<1>5. QED
  BY <1>3, <1>4 DEF start, m0

\* stop() keeps the invariant: nothing is shown, asked or timed after it.
LEMMA StopKeeps ==
    ASSUME IInv, stop PROVE IInv'
<1>1. /\ m \in Mapper /\ u \in Upnp /\ m' = Off /\ u' = cancel(u) /\ wire' = NoRequests
      /\ granted' \subseteq Protocols \X Ports
  BY ReleasedType DEF stop, IInv, Typed
<1>2. Typed'
  BY <1>1, OffFields, CancelFields, NoRequestsType DEF IInv, Typed
<1>3. QED
  BY <1>1, <1>2, OffFields, CancelFields DEF IInv, StageTells, DatagramsTell, StagesAgree, QuietWhenOff,
     KeptAlive, ShownIsGranted, NoRequests

\* onRetryTimeout() keeps the invariant, the change of protocol included.
LEMMA RetryKeeps ==
    ASSUME IInv, onRetryTimeout PROVE IInv'
<1>1. m.retry /\ m.protocol \in Datagram /\ m.active /\ m \in Mapper /\ granted' = granted
  BY DEF onRetryTimeout, IInv, DatagramsTell, Typed
<1>2. CASE m.attempt + 1 < Retries /\ m' = [m EXCEPT !.attempt = @ + 1]
           /\ wire' = Asked(wire, m.protocol) /\ u' = u
  <2>1. /\ m' \in Mapper /\ m'.active = m.active /\ m'.socket = m.socket /\ m'.protocol = m.protocol
        /\ m'.state = m.state /\ m'.port = m.port /\ m'.retry = m.retry /\ m'.renew = m.renew
    <3>1. m.attempt + 1 \in 0..Retries-1
      BY <1>1, <1>2, PortMapperAssumption DEF Mapper
    <3>2. QED
      BY <1>1, <1>2, <3>1 DEF Mapper
  <2>2. Typed'
    BY <1>1, <1>2, <2>1, AskedType DEF IInv, Typed
  <2>3. QED
    BY <1>1, <1>2, <2>1, <2>2 DEF IInv, StageTells, DatagramsTell, StagesAgree, QuietWhenOff,
     KeptAlive, ShownIsGranted
<1>3. CASE fallBack(wire)
  <2>1. PICK p \in {"NatPmp", "Upnp"} : beginProtocol(m, wire, p)
    BY <1>1, <1>3 DEF fallBack, Datagram
  <2>2. QED
    BY <1>1, <2>1, BeginKeeps DEF IInv, Typed
<1>4. QED
  BY <1>2, <1>3 DEF onRetryTimeout

\* onRenewTimeout() keeps the invariant.
LEMMA RenewKeeps ==
    ASSUME IInv, onRenewTimeout PROVE IInv'
<1>1. m.renew /\ m \in Mapper /\ u \in Upnp /\ granted' = granted
  BY DEF onRenewTimeout, IInv, Typed
<1>2. CASE /\ m.protocol = "Upnp" /\ m' = [m EXCEPT !.renew = FALSE] /\ wire' = wire
           /\ u' = IF u.stage = "Mapped" /\ u.services > 0
                   THEN [u EXCEPT !.stage = "Renewing", !.reply = "add"] ELSE u
  <2>1. /\ m' \in Mapper /\ m'.active = m.active /\ m'.socket = m.socket /\ m'.protocol = m.protocol
        /\ m'.state = m.state /\ m'.port = m.port /\ m'.retry = m.retry /\ m'.renew = FALSE
    BY <1>1, <1>2 DEF Mapper
  <2>2. CASE u.stage = "Mapped"
    <3>1. u' = [u EXCEPT !.stage = "Renewing", !.reply = "add"]
      BY <1>2, <2>2 DEF IInv, StagesAgree
    <3>2. /\ u' \in Upnp /\ u'.stage = "Renewing" /\ u'.reply = "add" /\ u'.timer = u.timer
          /\ u'.services = u.services /\ u'.port = u.port
      BY <1>1, <3>1 DEF Upnp, Stages
    <3>3. Typed'
      BY <1>1, <1>2, <2>1, <3>2 DEF IInv, Typed
    <3>4. QED
      BY <1>1, <1>2, <2>1, <2>2, <3>2, <3>3 DEF IInv, StageTells, DatagramsTell, StagesAgree, QuietWhenOff,
     KeptAlive, ShownIsGranted
  <2>3. CASE u.stage # "Mapped"
    <3>1. u' = u
      BY <1>2, <2>3
    <3>2. Typed'
      BY <1>1, <1>2, <2>1, <3>1 DEF IInv, Typed
    <3>3. QED
      BY <1>1, <1>2, <2>1, <2>3, <3>1, <3>2 DEF IInv, StageTells, DatagramsTell, StagesAgree, QuietWhenOff,
     KeptAlive, ShownIsGranted
  <2>4. QED
    BY <2>2, <2>3
<1>3. CASE /\ m.protocol # "Upnp" /\ m.socket
           /\ m' = [m EXCEPT !.renew = FALSE, !.attempt = 0, !.retry = TRUE]
           /\ wire' = Asked(wire, m.protocol) /\ u' = u
  <2>1. 0 \in 0..Retries-1 /\ m.protocol \in Datagram
    BY <1>1, <1>3, PortMapperAssumption DEF Mapper, Protocols
  <2>2. /\ m' \in Mapper /\ m'.active = m.active /\ m'.socket = m.socket /\ m'.protocol = m.protocol
        /\ m'.state = m.state /\ m'.port = m.port /\ m'.retry = TRUE /\ m'.renew = FALSE
    BY <1>1, <1>3, <2>1 DEF Mapper
  <2>3. Typed'
    BY <1>1, <1>3, <2>1, <2>2, AskedType DEF IInv, Typed
  <2>4. m.state \notin {"Disabled", "Failed"} /\ m.active
    BY <1>1, <1>3 DEF IInv, QuietWhenOff, DatagramsTell
  <2>5. QED
    BY <1>1, <1>3, <2>1, <2>2, <2>3, <2>4 DEF IInv, StageTells, DatagramsTell, StagesAgree, QuietWhenOff,
     KeptAlive, ShownIsGranted
<1>4. QED
  BY <1>2, <1>3 DEF onRenewTimeout

\* A datagram on the wire finds a mapper that is on, or one that failed at UPnP.
LEMMA AwaitedAnswer ==
    ASSUME IInv, NEW p \in Datagram, wire[p] > 0, m.socket
    PROVE  /\ m \in Mapper /\ u \in Upnp /\ m.active
           /\ m.state \notin {"Disabled", "Failed"} \/ m.protocol = "Upnp"
           /\ Answered(p) \in [Datagram -> 0..MaxLate]
  BY AnsweredType DEF IInv, Typed, DatagramsTell, NoRequests

\* The gateway grants what was asked in datagrams: taken when the mapper still speaks
\* that protocol, ignored when it has moved on.
LEMMA GrantedKeeps ==
    ASSUME IInv, NEW p \in Datagram, NEW port \in Ports, wire[p] > 0, m.socket,
           granted' = Grant(p, port),
           \/ m.protocol = p /\ m' = mapped(m, port) /\ u' = u /\ wire' = Answered(p)
           \/ m.protocol # p /\ Ignored(p)
    PROVE  IInv'
<1>1. /\ m \in Mapper /\ u \in Upnp /\ m.active /\ m.protocol \in Protocols
      /\ m.state \notin {"Disabled", "Failed"} \/ m.protocol = "Upnp"
      /\ wire' = Answered(p) /\ wire' \in [Datagram -> 0..MaxLate]
  BY AwaitedAnswer DEF Ignored, Mapper
<1>2. /\ granted' \subseteq Protocols \X Ports /\ <<p, port>> \in granted'
      /\ \A q \in Protocols : \A x : q # p => (<<q, x>> \in granted => <<q, x>> \in granted')
      /\ p # "Upnp" /\ "Upnp" \in Protocols
  BY GrantKeeps DEF IInv, Typed, Protocols, Datagram
<1>3. CASE m.protocol = p /\ m' = mapped(m, port) /\ u' = u
  <2>1. Typed'
    BY <1>1, <1>2, <1>3, MappedFields DEF IInv, Typed
  <2>2. QED
    BY <1>1, <1>2, <1>3, <2>1, MappedFields DEF IInv, StageTells, DatagramsTell, StagesAgree, QuietWhenOff,
     KeptAlive, ShownIsGranted
<1>4. CASE m.protocol # p /\ m' = m /\ u' = u
  <2>1. /\ m.state = "Mapped" => <<m.protocol, m.port>> \in granted'
        /\ u.stage = "AskingAddress" => <<"Upnp", u.port>> \in granted'
    BY <1>1, <1>2, <1>4 DEF IInv, StageTells, ShownIsGranted
  <2>2. QED
    BY <1>1, <1>2, <1>4, <2>1, IgnoredKeeps
<1>5. QED
  BY <1>3, <1>4 DEF Ignored

\* An answer that makes the mapper go on to the next protocol, or is ignored.
LEMMA RefusedKeeps ==
    ASSUME IInv, NEW p \in Datagram, wire[p] > 0, m.socket, granted' = granted,
           \/ /\ m.protocol \in Datagram
              /\ \E next \in {"NatPmp", "Upnp"} : beginProtocol(m, Answered(p), next)
           \/ Ignored(p)
    PROVE  IInv'
<1>1. /\ m \in Mapper /\ m.active /\ Answered(p) \in [Datagram -> 0..MaxLate]
      /\ m.state \notin {"Disabled", "Failed"} \/ m.protocol = "Upnp"
  BY AwaitedAnswer
<1>2. CASE m.protocol \in Datagram
           /\ \E next \in {"NatPmp", "Upnp"} : beginProtocol(m, Answered(p), next)
  BY <1>1, <1>2, BeginKeeps
<1>3. CASE Ignored(p)
  <2>1. m' = m /\ u' = u /\ wire' = Answered(p)
    BY <1>3 DEF Ignored
  <2>2. /\ granted' \subseteq Protocols \X Ports
        /\ m.state = "Mapped" => <<m.protocol, m.port>> \in granted'
        /\ u.stage = "AskingAddress" => <<"Upnp", u.port>> \in granted'
    BY DEF IInv, Typed, StageTells, ShownIsGranted
  <2>3. QED
    BY <1>1, <2>1, <2>2, IgnoredKeeps
<1>4. QED
  BY <1>2, <1>3

\* Every answer of the gateway to PCP or NAT-PMP keeps the invariant.
LEMMA DatagramsKeep ==
    ASSUME IInv, Datagrams PROVE IInv'
<1> USE DEF Datagram
<1>1. ASSUME NEW p \in Ports, handlePcp(p) PROVE IInv'
  BY <1>1, GrantedKeeps DEF handlePcp
<1>2. ASSUME NEW p \in Ports, handleNatPmp(p) PROVE IInv'
  BY <1>2, GrantedKeeps DEF handleNatPmp
<1>3. CASE handlePcpRefusal
  BY <1>3, RefusedKeeps DEF handlePcpRefusal
<1>4. CASE handleVersionReply
  BY <1>4, RefusedKeeps DEF handleVersionReply, fallBack
<1>5. CASE handleNatPmpRefusal
  BY <1>5, RefusedKeeps DEF handleNatPmpRefusal, fallBack
<1>6. ASSUME NEW d \in Devices, onDatagrams(d) PROVE IInv'
  <2>1. u.stage = "Searching" /\ u \in Upnp /\ wire' = wire /\ granted' = granted
        /\ granted \subseteq Protocols \X Ports
    BY <1>6 DEF onDatagrams, IInv, Typed
  <2>2. CASE describe([u EXCEPT !.locations = <<d>> \o @], 1)
    <3>1. <<d>> \o u.locations \in Seq(Devices)
      BY <2>1 DEF Upnp
    <3>2. [u EXCEPT !.locations = <<d>> \o @] \in Upnp
          /\ [u EXCEPT !.locations = <<d>> \o @].port = u.port
      BY <2>1, <3>1 DEF Upnp
    <3>3. QED
      BY <2>1, <2>2, <3>2, DescribeKeeps
  <2>3. CASE u' = [u EXCEPT !.locations = Append(@, d)] /\ m' = m
    <3>1. Append(u.locations, d) \in Seq(Devices)
      BY <2>1 DEF Upnp
    <3>2. /\ u' \in Upnp /\ u'.stage = u.stage /\ u'.timer = u.timer /\ u'.attempt = u.attempt
          /\ u'.reply = u.reply /\ u'.services = u.services /\ u'.port = u.port
      BY <2>1, <2>3, <3>1 DEF Upnp
    <3>3. Typed'
      BY <2>1, <2>3, <3>2 DEF IInv, Typed
    <3>4. QED
      BY <2>1, <2>3, <3>2, <3>3 DEF IInv, StageTells, DatagramsTell, StagesAgree, QuietWhenOff,
     KeptAlive, ShownIsGranted
  <2>4. QED
    BY <1>6, <2>2, <2>3 DEF onDatagrams
<1>7. QED
  BY <1>1, <1>2, <1>3, <1>4, <1>5, <1>6 DEF Datagrams

\* The end of a search for UPnP devices keeps the invariant.
LEMMA SearchKeeps ==
    ASSUME IInv, onSearchTimeout PROVE IInv'
<1> DEFINE u1 == [u EXCEPT !.attempt = u.attempt + 1]
<1>1. /\ u.stage = "Searching" /\ u \in Upnp /\ wire' = wire /\ granted' = granted
      /\ granted \subseteq Protocols \X Ports /\ m \in Mapper /\ wire \in [Datagram -> 0..MaxLate]
      /\ m.protocol = "Upnp"
  BY DEF onSearchTimeout, IInv, Typed, StagesAgree
<1>2. /\ u1 \in Upnp /\ u1.stage = u.stage /\ u1.timer = u.timer /\ u1.attempt = u.attempt + 1
      /\ u1.reply = u.reply /\ u1.services = u.services /\ u1.port = u.port
  <2>1. u.attempt + 1 \in 0..Searches
    BY <1>1, PortMapperAssumption DEF IInv, StageTells, Upnp
  <2>2. QED
    BY <1>1, <2>1 DEF Upnp
<1> HIDE DEF u1
<1>3. CASE describe(u1, 1)
  BY <1>1, <1>2, <1>3, DescribeKeeps
<1>4. CASE u.attempt + 1 < Searches /\ u' = u1 /\ m' = m
  <2>1. Typed'
    BY <1>1, <1>2, <1>4 DEF Typed
  <2>2. QED
    BY <1>1, <1>2, <1>4, <2>1 DEF IInv, StageTells, DatagramsTell, StagesAgree, QuietWhenOff,
     KeptAlive, ShownIsGranted
<1>5. CASE upnpFail(u1)
  BY <1>1, <1>2, <1>5, UpnpFailKeeps
<1>6. QED
  BY <1>3, <1>4, <1>5 DEF onSearchTimeout, u1

\* The description of a device, or its failure, keeps the invariant.
LEMMA DescriptionKeeps ==
    ASSUME IInv, onDescription PROVE IInv'
<1>1. /\ u.stage = "Describing" /\ u \in Upnp /\ wire' = wire /\ granted' = granted
      /\ granted \subseteq Protocols \X Ports /\ m \in Mapper /\ wire \in [Datagram -> 0..MaxLate]
  BY DEF onDescription, IInv, Typed, StageTells
<1>2. CASE tryNextLocation(u)
  BY <1>1, <1>2, NextLocationKeeps
<1>3. CASE tryNextLocation([u EXCEPT !.services = 0])
  <2>1. [u EXCEPT !.services = 0] \in Upnp /\ [u EXCEPT !.services = 0].port = u.port
    <3>1. 0 \in 0..MaxServices
      BY PortMapperAssumption
    <3>2. QED
      BY <1>1, <3>1 DEF Upnp
  <2>2. QED
    BY <1>1, <1>3, <2>1, NextLocationKeeps
<1>4. ASSUME NEW n \in 1..MaxServices, m' = m,
             u' = [u EXCEPT !.services = n, !.index = 1, !.stage = "Mapping", !.reply = "add"]
      PROVE  IInv'
  <2>1. /\ u' \in Upnp /\ u'.stage = "Mapping" /\ u'.timer = u.timer /\ u'.reply = "add"
        /\ u'.services = n /\ u'.port = u.port
    <3>1. n \in 0..MaxServices
      BY PortMapperAssumption
    <3>2. QED
      BY <1>1, <1>4, <3>1 DEF Upnp, Stages
  <2>2. Typed'
    BY <1>1, <1>4, <2>1 DEF Typed
  <2>3. n > 0
    BY PortMapperAssumption
  <2>4. QED
    BY <1>1, <1>4, <2>1, <2>2, <2>3 DEF IInv, StageTells, DatagramsTell, StagesAgree, QuietWhenOff,
     KeptAlive, ShownIsGranted
<1>5. QED
  BY <1>2, <1>3, <1>4 DEF onDescription

\* What UpnpIgd holds while it asks for a mapping.
LEMMA AskingToAdd ==
    ASSUME IInv, u.reply = "add"
    PROVE  /\ u.stage \in {"Mapping", "Renewing"} /\ m \in Mapper /\ u \in Upnp
           /\ m.active /\ m.protocol = "Upnp" /\ u.port \in Ports /\ u.services > 0
           /\ Grant("Upnp", u.port) \subseteq Protocols \X Ports
           /\ <<"Upnp", u.port>> \in Grant("Upnp", u.port)
           /\ granted \subseteq Grant("Upnp", u.port)
           /\ granted \subseteq Protocols \X Ports /\ wire \in [Datagram -> 0..MaxLate]
<1>1. /\ u.stage \in {"Mapping", "Renewing"} /\ m \in Mapper /\ u \in Upnp
      /\ m.active /\ m.protocol = "Upnp" /\ u.port \in Ports /\ u.services > 0
      /\ granted \subseteq Protocols \X Ports /\ wire \in [Datagram -> 0..MaxLate]
  BY DEF IInv, Typed, StageTells, StagesAgree
<1>2. "Upnp" \in Protocols
  BY DEF Protocols
<1>3. QED
  BY <1>1, <1>2, GrantKeeps DEF Grant

\* AddPortMapping accepted keeps the invariant.
LEMMA AddedKeeps ==
    ASSUME IInv, onAdded PROVE IInv'
<1>1. /\ u.reply = "add" /\ granted' = Grant("Upnp", u.port) /\ wire' = wire
  BY DEF onAdded
<1>2. CASE u.stage = "Renewing" /\ upnpMapped /\ u' = [u EXCEPT !.stage = "Mapped", !.reply = "none"]
  <2>1. m' = mapped(m, u.port)
    BY <1>1, <1>2, AskingToAdd DEF upnpMapped
  <2>2. /\ u' \in Upnp /\ u'.stage = "Mapped" /\ u'.timer = u.timer /\ u'.reply = "none"
        /\ u'.services = u.services /\ u'.port = u.port
    BY <1>1, <1>2, AskingToAdd DEF Upnp, Stages
  <2>3. Typed'
    BY <1>1, <2>1, <2>2, AskingToAdd, MappedFields DEF Typed
  <2>4. /\ m'.active = m.active /\ m'.socket = m.socket /\ m'.protocol = "Upnp" /\ m'.port = u.port
        /\ m'.state = "Mapped" /\ m'.retry = FALSE /\ m'.renew = TRUE /\ m.active
        /\ <<"Upnp", u.port>> \in granted' /\ u.port \in Ports
    BY <1>1, <2>1, AskingToAdd, MappedFields
  <2>5. QED
    BY <1>1, <1>2, <2>2, <2>3, <2>4 DEF IInv, StageTells, DatagramsTell, StagesAgree, QuietWhenOff,
     KeptAlive, ShownIsGranted
<1>3. CASE /\ u.stage # "Renewing" /\ m' = m
           /\ u' = [u EXCEPT !.stage = "AskingAddress", !.reply = "address"]
  <2>1. /\ u' \in Upnp /\ u'.stage = "AskingAddress" /\ u'.timer = u.timer /\ u'.reply = "address"
        /\ u'.services = u.services /\ u'.port = u.port
    BY <1>1, <1>3, AskingToAdd DEF Upnp, Stages
  <2>2. Typed'
    BY <1>1, <1>3, <2>1, AskingToAdd DEF Typed
  <2>3. QED
    BY <1>1, <1>3, <2>1, <2>2, AskingToAdd DEF IInv, StageTells, DatagramsTell, StagesAgree, QuietWhenOff,
     KeptAlive, ShownIsGranted
<1>4. QED
  BY <1>2, <1>3 DEF onAdded

\* The request is sent once more, to another port or service or for ever.
LEMMA AskedAgainKeeps ==
    ASSUME IInv, u.reply = "add", m' = m, wire' = wire,
           granted' \subseteq Protocols \X Ports, granted \subseteq granted',
           u' \in Upnp, u'.stage = u.stage, u'.timer = u.timer, u'.reply = u.reply,
           u'.services = u.services, u'.port \in Ports
    PROVE  IInv'
<1>1. Typed'
  BY AskingToAdd DEF Typed
<1>2. QED
  BY <1>1, AskingToAdd DEF IInv, StageTells, DatagramsTell, StagesAgree, QuietWhenOff,
     KeptAlive, ShownIsGranted

\* AddPortMapping refused for a conflict keeps the invariant.
LEMMA ConflictKeeps ==
    ASSUME IInv, onConflict PROVE IInv'
<1>1. u.reply = "add" /\ granted' = granted /\ wire' = wire
  BY DEF onConflict
<1>2. ASSUME NEW p \in Ports, u.conflicts < MaxConflictRetries, m' = m,
             u' = [u EXCEPT !.conflicts = @ + 1, !.port = p]
      PROVE  IInv'
  <2>1. u.conflicts + 1 \in 0..MaxConflictRetries
    BY <1>1, <1>2, AskingToAdd, PortMapperAssumption DEF Upnp
  <2>2. /\ u' \in Upnp /\ u'.stage = u.stage /\ u'.timer = u.timer /\ u'.reply = u.reply
        /\ u'.services = u.services /\ u'.port = p
    BY <1>1, <1>2, <2>1, AskingToAdd DEF Upnp
  <2>3. QED
    BY <1>1, <1>2, <2>2, AskingToAdd, AskedAgainKeeps
<1>3. CASE upnpFail(u)
  BY <1>1, <1>3, AskingToAdd, UpnpFailKeeps
<1>4. QED
  BY <1>2, <1>3 DEF onConflict

\* AddPortMapping refused for its lease keeps the invariant.
LEMMA OnlyPermanentKeeps ==
    ASSUME IInv, onOnlyPermanent PROVE IInv'
<1>1. u.reply = "add" /\ granted' = granted /\ wire' = wire
  BY DEF onOnlyPermanent
<1>2. CASE u' = [u EXCEPT !.permanent = TRUE] /\ m' = m
  <2>1. /\ u' \in Upnp /\ u'.stage = u.stage /\ u'.timer = u.timer /\ u'.reply = u.reply
        /\ u'.services = u.services /\ u'.port = u.port
    BY <1>1, <1>2, AskingToAdd DEF Upnp
  <2>2. QED
    BY <1>1, <1>2, <2>1, AskingToAdd, AskedAgainKeeps
<1>3. CASE upnpFail(u)
  BY <1>1, <1>3, AskingToAdd, UpnpFailKeeps
<1>4. QED
  BY <1>2, <1>3 DEF onOnlyPermanent

\* AddPortMapping refused by this service keeps the invariant.
LEMMA NotHereKeeps ==
    ASSUME IInv, onNotHere PROVE IInv'
<1>1. /\ u.reply = "add" /\ wire' = wire /\ granted \subseteq granted'
      /\ granted' \subseteq Protocols \X Ports
  BY AskingToAdd DEF onNotHere
<1>2. CASE upnpFail(u)
  BY <1>1, <1>2, AskingToAdd, UpnpFailKeeps
<1>3. CASE u' = [u EXCEPT !.index = @ + 1] /\ m' = m
  <2>1. u.index + 1 \in Nat
    BY <1>1, AskingToAdd DEF Upnp
  <2>2. /\ u' \in Upnp /\ u'.stage = u.stage /\ u'.timer = u.timer /\ u'.reply = u.reply
        /\ u'.services = u.services /\ u'.port = u.port
    BY <1>1, <1>3, <2>1, AskingToAdd DEF Upnp
  <2>3. QED
    BY <1>1, <1>3, <2>2, AskingToAdd, AskedAgainKeeps
<1>4. CASE u.stage # "Renewing" /\ tryNextLocation(u)
  <2>1. u.stage \in {"Describing", "Mapping"} /\ u \in Upnp
    BY <1>1, <1>4, AskingToAdd
  <2>2. QED
    BY <1>1, <1>4, <2>1, NextLocationKeeps
<1>5. QED
  BY <1>2, <1>3, <1>4 DEF onNotHere

\* The external address, known or not, keeps the invariant.
LEMMA AddressKeeps ==
    ASSUME IInv, onAddress PROVE IInv'
<1>1. /\ u.stage = "AskingAddress" /\ u \in Upnp /\ m \in Mapper /\ m.active /\ m.protocol = "Upnp"
      /\ wire' = wire /\ granted' = granted /\ u.port \in Ports
      /\ granted \subseteq Protocols \X Ports /\ wire \in [Datagram -> 0..MaxLate]
  BY DEF onAddress, IInv, Typed, StageTells, StagesAgree
<1>2. m' = mapped(m, u.port)
  BY <1>1 DEF onAddress, upnpMapped
<1>3. /\ u' \in Upnp /\ u'.stage = "Mapped" /\ u'.timer = u.timer /\ u'.reply = "none"
      /\ u'.services = u.services /\ u'.port = u.port
  BY <1>1 DEF onAddress, Upnp, Stages
<1>4. Typed'
  BY <1>1, <1>2, <1>3, MappedFields DEF Typed
<1>5. QED
  BY <1>1, <1>2, <1>3, <1>4, MappedFields DEF IInv, StageTells, DatagramsTell, StagesAgree, QuietWhenOff,
     KeptAlive, ShownIsGranted

\* Every step keeps the invariant.
LEMMA NextKeeps ==
    ASSUME IInv, [Next]_vars PROVE IInv'
<1>1. CASE onRefused
  <2>1. u.reply = "add" /\ granted' = granted /\ wire' = wire /\ upnpFail(u)
    BY <1>1 DEF onRefused
  <2>2. QED
    BY <2>1, AskingToAdd, UpnpFailKeeps
<1>2. CASE Http
  BY <1>1, <1>2, DescriptionKeeps, AddedKeeps, ConflictKeeps, OnlyPermanentKeeps, NotHereKeeps,
     AddressKeeps DEF Http
<1>3. CASE UNCHANGED vars
  BY <1>3 DEF vars, IInv, Typed, StageTells, DatagramsTell, StagesAgree, QuietWhenOff,
     KeptAlive, ShownIsGranted
<1>4. QED
  BY <1>2, <1>3, StartKeeps, StopKeeps, RetryKeeps, RenewKeeps, SearchKeeps, DatagramsKeep DEF Next

-----------------------------------------------------------------------------
(* Theorems                                                                *)

\* The types TLC checks follow from the ones used here.
LEMMA TypesFollow == Typed => TypeOK
<1> SUFFICES ASSUME Typed PROVE TypeOK
  OBVIOUS
<1>1. u.locations \in Seq(Devices) /\ u.stage \in Stages /\ u.attempt \in 0..Searches
      /\ u.conflicts \in 0..MaxConflictRetries /\ u.services \in 0..MaxServices
      /\ u.reply \in {"none", "description", "add", "address"}
  BY DEF Typed, Upnp
<1>2. u.locations \in SeqOf(Devices, Len(u.locations))
  <2>1. Len(u.locations) \in Nat /\ u.locations \in [1..Len(u.locations) -> Devices]
    BY <1>1
  <2>2. Len(u.locations) \in 0..Len(u.locations)
    BY <2>1
  <2>3. QED
    BY <2>1, <2>2 DEF SeqOf
<1>3. QED
  BY <1>1, <1>2 DEF Typed, TypeOK, Mapper

\* What start(), stop() and every handler of PortMapper and UpnpIgd leave behind.
THEOREM MapperInvariant == Spec => []IInv
<1>1. Init => IInv
  BY InitInv
<1>2. IInv /\ [Next]_vars => IInv'
  BY NextKeeps
<1>3. QED
  BY <1>1, <1>2, PTL DEF Spec

\* PortMapper and UpnpIgd agree on what is mapped, so that stop() releases it, and a mapper
\* that is off has neither timer nor request left (stopInternal, fail, releaseBlocking).
THEOREM MapperSafety == Spec => []MapperInv
<1>1. IInv => MapperInv
  BY TypesFollow DEF IInv, MapperInv
<1>2. QED
  BY <1>1, MapperInvariant, PTL

\* A mapping that is shown has its renewal scheduled or under way (mapped, onRenewTimeout).
THEOREM MappingKeptAlive == Spec => []KeptAlive
<1>1. IInv => KeptAlive
  BY DEF IInv
<1>2. QED
  BY <1>1, MapperInvariant, PTL

\* The port shown is one the gateway forwards, whatever answers come late (handlePcp,
\* handleNatPmp, onAddMapping).
THEOREM ShownPortGranted == Spec => []ShownIsGranted
<1>1. IInv => ShownIsGranted
  BY DEF IInv
<1>2. QED
  BY <1>1, MapperInvariant, PTL
=============================================================================
